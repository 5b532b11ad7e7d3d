---------------------------- MODULE SavedWorkStore ----------------------------
(***************************************************************************)
(* The server half of saved work: the list, save, rename, remove and merge *)
(* handlers of one collection (api/routes/me.py; saved views and saved     *)
(* comparisons have the same ones) and services/saved_work_service.py, for *)
(* ONE identity.                                                           *)
(*                                                                         *)
(* Requests run concurrently, each in its own database session (READ       *)
(* COMMITTED).  A step is one statement, or one statement and the commit   *)
(* that follows it at once.  An inserted, uncommitted row is visible to    *)
(* its session alone, and another insert or update to one of its keys      *)
(* waits for it.  How the account row is created is FavoritesStore's; here *)
(* it is one step.                                                         *)
(***************************************************************************)
EXTENDS SavedWorkRequests, FiniteSets

CONSTANTS
  Start,        \* the collections the account may start with
  MaxItems,     \* MAX_COLLECTION_ITEMS
  MaxAttempts,  \* MERGE_MAX_ATTEMPTS
  NoRow         \* "no row loaded"

ASSUME LimitsAssumption == MaxItems \in Nat /\ MaxAttempts \in Nat \ {0}
ASSUME NoRowAssumption == NoRow \notin Row
ASSUME StartAssumption ==
  \A S \in Start :
    /\ S \subseteq Row /\ IsFiniteSet(S)
    /\ Keyed(S)
    /\ Cardinality(S) \in 0..MaxItems
    /\ \A x \in S : x.print \in ValidPrint /\ x.key <= Cardinality(S)

VARIABLES
  account,   \* whether the identity has a row in app_users
  rows,      \* the committed rows of the collection
  clock,     \* the next primary key, which also orders the list (_canonical_rows)
  pc,        \* where each request is
  op,        \* what it asks for
  row,       \* save, rename: the row as it was loaded
  before,    \* merge: the fingerprints present when it began
  count,     \* save, merge: the number of rows its limit check counted
  attempt,   \* merge: completed attempts
  missing,   \* the items it has to insert
  held,      \* the rows it has inserted and not committed
  reply,     \* the outcome
  outgrown   \* an insert was committed although the list had grown since its count

vars == <<account, rows, clock, pc, op, row, before, count, attempt, missing, held,
          reply, outgrown>>

tables == <<account, rows, clock, outgrown>>
locals == <<op, row, before, count, attempt, missing, held>>

Prints == {x.print : x \in rows}
AllRows == rows \cup UNION {held[r] : r \in Request}

(* What the contract sees of a request: how far its caller knows it to be, the
   items whose goal it has found to hold, and the row a save is about to change. *)
Phase(r) ==
  IF pc[r] = "idle" THEN "new"
  ELSE IF pc[r] # "done" THEN "open"
  ELSE IF reply[r] = "ok" THEN "ok" ELSE "refused"

Target(r) ==
  IF op[r].kind = "save" /\ pc[r] \in {"update", "rewrite"} THEN row[r].key ELSE 0

Settled == [save   |-> {"update", "rewrite", "refresh", "read"},
            rename |-> {"refresh", "read"},
            remove |-> {"read"},
            merge  |-> {"attempt", "insert", "read"},
            list   |-> {}]

Met(r) ==
  {i \in Asked(op[r]) :
     /\ pc[r] \in Settled[op[r].kind]
     /\ op[r].kind = "merge" => i.print \in before[r]}

Contract == INSTANCE SavedWorkContract WITH
  saved <- rows,
  phase <- [r \in Request |-> Phase(r)],
  met <- [r \in Request |-> Met(r)],
  target <- [r \in Request |-> Target(r)]

(* Endpoints that materialize the account row; the others only look it up.  A
   merge does so only if it has something to store. *)
Materializes(r) ==
  op[r].kind = "save" \/ (op[r].kind = "merge" /\ Wanted(op[r]) # {})

Init ==
  /\ rows \in Start
  /\ account \in BOOLEAN
  /\ rows # {} => account
  /\ clock = Cardinality(rows) + 1
  /\ pc = [r \in Request |-> "idle"]
  /\ op = [r \in Request |-> NoOp]
  /\ row = [r \in Request |-> NoRow]
  /\ before = [r \in Request |-> {}]
  /\ count = [r \in Request |-> 0]
  /\ attempt = [r \in Request |-> 0]
  /\ missing = [r \in Request |-> {}]
  /\ held = [r \in Request |-> {}]
  /\ reply = [r \in Request |-> "none"]
  /\ outgrown = FALSE

Goto(r, label) == pc' = [pc EXCEPT ![r] = label]

NoRollback(r) == UNCHANGED held  \* mutant of Rollback

Rollback(r) == held' = [held EXCEPT ![r] = {}]

Finish(r, status) ==
  /\ Goto(r, "done")
  /\ reply' = [reply EXCEPT ![r] = status]
  /\ Rollback(r)
  /\ UNCHANGED <<tables, op, row, before, count, attempt, missing>>

(* A step that only reads, and keeps what it read in `row`. *)
Load(r, x, label) ==
  /\ row' = [row EXCEPT ![r] = x]
  /\ Goto(r, label)
  /\ UNCHANGED <<tables, op, before, count, attempt, missing, held, reply>>

It(r) == The(op[r])

-----------------------------------------------------------------------------
(* The account row.                                                        *)

Receive(r) ==
  /\ pc[r] = "idle"
  /\ \E o \in Op : op' = [op EXCEPT ![r] = o]
  /\ Goto(r, "resolve")
  /\ UNCHANGED <<tables, row, before, count, attempt, missing, held, reply>>

Begin(r) ==
  Goto(r, CASE op[r].kind = "save"   -> "check"
            [] op[r].kind = "rename" -> "find"
            [] op[r].kind = "remove" -> "delete"
            [] op[r].kind = "merge"  -> "survey"
            [] op[r].kind = "list"   -> "read")

(* An existing row is found; one that is missing is created for a request that
   stores something. *)
Resolve(r) ==
  /\ pc[r] = "resolve"
  /\ account \/ Materializes(r)
  /\ account' = TRUE
  /\ Begin(r)
  /\ UNCHANGED <<rows, clock, locals, reply, outgrown>>

(* No row and nothing to own: the answer is the empty list, or 404. *)
ResolveNothing(r) ==
  /\ pc[r] = "resolve"
  /\ ~account /\ ~Materializes(r)
  /\ Finish(r, IF op[r].kind = "rename" THEN "not_found" ELSE "ok")

-----------------------------------------------------------------------------
(* Save: by fingerprint, then by client id, then as a new row.             *)

SaveInvalid(r) ==
  /\ pc[r] = "check"
  /\ Wanted(op[r]) = {}
  /\ Finish(r, "invalid")

SaveByPrint(r) ==
  /\ pc[r] = "check"
  /\ Wanted(op[r]) # {}
  /\ \/ \E x \in rows :
          /\ x.print = It(r).print
          /\ Load(r, x, IF x.label = It(r).label THEN "read" ELSE "update")
     \/ It(r).print \notin Prints /\ Load(r, NoRow, "byid")

SaveById(r) ==
  /\ pc[r] = "byid"
  /\ \/ \E x \in rows : x.id = It(r).id /\ Load(r, x, "rewrite")
     \/ (\A x \in rows : x.id # It(r).id) /\ Load(r, NoRow, "room")

FullPast(n) == n > MaxItems  \* mutant of Full: one too many

Full(n) == n >= MaxItems

SaveFull(r) ==
  /\ pc[r] = "room"
  /\ Full(Cardinality(rows))
  /\ Finish(r, "full")

SaveRoom(r) ==
  /\ pc[r] = "room"
  /\ ~Full(Cardinality(rows))
  /\ count' = [count EXCEPT ![r] = Cardinality(rows)]
  /\ missing' = [missing EXCEPT ![r] = {It(r)}]
  /\ Goto(r, "insert")
  /\ UNCHANGED <<tables, op, row, before, attempt, held, reply>>

(* The row a handler has loaded is still there. *)
IsRow(r, x) == x \in rows /\ x.key = row[r].key

Put(x, y) == rows' = (rows \ {x}) \cup {y}

(* Set the label of the loaded row and commit: a save that knows its
   fingerprint, or a rename. *)
UpdateLabel(r) ==
  /\ pc[r] = "update"
  /\ \E x \in rows : IsRow(r, x) /\ Put(x, [x EXCEPT !.label = It(r).label])
  /\ Goto(r, "refresh")
  /\ UNCHANGED <<account, clock, locals, reply, outgrown>>

(* Mutant of Rewrite: the new fingerprint is not unique. *)
RewriteUnchecked(r) ==
  /\ pc[r] = "rewrite"
  /\ \E x \in rows :
       /\ IsRow(r, x)
       /\ Put(x, [x EXCEPT !.label = It(r).label, !.print = It(r).print])
  /\ Goto(r, "refresh")
  /\ UNCHANGED <<account, clock, locals, reply, outgrown>>

(* Set label and content of the row with the caller's id and commit.  Only
   columns that differ from the row as it was loaded are written.  The lock it
   has on that row while it waits for the new fingerprint is left out: if that
   closes a cycle, the request the database fails is an Abort. *)
Rewrite(r) ==
  /\ pc[r] = "rewrite"
  /\ \E x \in rows :
       LET i == It(r)
           y == [x EXCEPT !.label = IF i.label = row[r].label THEN @ ELSE i.label,
                          !.print = IF i.print = row[r].print THEN @ ELSE i.print]
       IN  /\ IsRow(r, x)
           /\ \A z \in rows \ {x} : z.print # y.print
           /\ \A q \in Request : \A z \in held[q] : z.print # y.print
           /\ Put(x, y)
  /\ Goto(r, "refresh")
  /\ UNCHANGED <<account, clock, locals, reply, outgrown>>

(* The new content is another row's: this commit is not guarded. *)
RewriteClash(r) ==
  /\ pc[r] = "rewrite"
  /\ row[r].print # It(r).print
  /\ \E x \in rows : IsRow(r, x) /\ \E z \in rows \ {x} : z.print = It(r).print
  /\ Finish(r, "error")

(* The loaded row was removed: the update matches none, or the refresh after
   the commit finds none. *)
RowGone(r) ==
  /\ pc[r] \in {"update", "rewrite", "refresh"}
  /\ \A x \in rows : ~IsRow(r, x)
  /\ Finish(r, "error")

Refresh(r) ==
  /\ pc[r] = "refresh"
  /\ \E x \in rows : IsRow(r, x) /\ Load(r, x, "read")

-----------------------------------------------------------------------------
(* Rename and remove.                                                      *)

RenameFind(r) ==
  /\ pc[r] = "find"
  /\ \E x \in rows :
       x.id = It(r).id /\ Load(r, x, IF x.label = It(r).label THEN "read" ELSE "update")

RenameUnknown(r) ==
  /\ pc[r] = "find"
  /\ \A x \in rows : x.id # It(r).id
  /\ Finish(r, "not_found")

Delete(r) ==
  /\ pc[r] = "delete"
  /\ rows' = {x \in rows : x.id # It(r).id}
  /\ Goto(r, "read")
  /\ UNCHANGED <<account, clock, locals, reply, outgrown>>

-----------------------------------------------------------------------------
(* Merge.                                                                  *)

(* The items a merge found missing when it began: what it adds. *)
Added(r) == {i \in Wanted(op[r]) : i.print \notin before[r]}

MergeSurvey(r) ==
  /\ pc[r] = "survey"
  /\ LET fresh == {i \in Wanted(op[r]) : i.print \notin Prints}
     IN  Cardinality(rows) + Cardinality(fresh) <= MaxItems
  /\ before' = [before EXCEPT ![r] = Prints]
  /\ count' = [count EXCEPT ![r] = Cardinality(rows)]
  /\ Goto(r, "attempt")
  /\ UNCHANGED <<tables, op, row, attempt, missing, held, reply>>

MergeFull(r) ==
  /\ pc[r] = "survey"
  /\ LET fresh == {i \in Wanted(op[r]) : i.print \notin Prints}
     IN  Cardinality(rows) + Cardinality(fresh) > MaxItems
  /\ Finish(r, "full")

(* The head of the retry loop: what is still missing NOW. *)
MergeAttempt(r) ==
  /\ pc[r] = "attempt"
  /\ missing' = [missing EXCEPT ![r] = {i \in Added(r) : i.print \notin Prints}]
  /\ Goto(r, IF missing'[r] = {} THEN "read" ELSE "insert")
  /\ UNCHANGED <<tables, op, row, before, count, attempt, held, reply>>

-----------------------------------------------------------------------------
(* The insert of a save or of a merge.                                     *)

Clash(i, x) == x.id = i.id \/ x.print = i.print

(* The flush inserts the missing items in the order they were offered. *)
Left(r) == {i \in missing[r] : \A x \in held[r] : x.print # i.print}

IsNext(r, i) ==
  /\ i \in Left(r)
  /\ \E k \in 1..Len(op[r].items) :
       /\ op[r].items[k] = i
       /\ \A j \in 1..(k - 1) : op[r].items[j] \notin Left(r)

InsertRow(r) ==
  /\ pc[r] = "insert"
  /\ \E i \in Item :
       /\ IsNext(r, i)
       /\ \A x \in AllRows : ~Clash(i, x)
       /\ held' = [held EXCEPT ![r] =
                     @ \cup {[id |-> i.id, print |-> i.print, label |-> i.label, key |-> clock]}]
  /\ clock' = clock + 1
  /\ UNCHANGED <<account, rows, pc, op, row, before, count, attempt, missing, reply, outgrown>>

(* A unique violation: the key is committed, or is this session's own. *)
Violates(r) ==
  pc[r] = "insert" /\ \E i \in Item : IsNext(r, i) /\ \E x \in rows \cup held[r] : Clash(i, x)

SaveConflict(r) ==
  /\ Violates(r)
  /\ op[r].kind = "save"
  /\ Rollback(r)
  /\ Goto(r, "winner")
  /\ UNCHANGED <<tables, op, row, before, count, attempt, missing, reply>>

(* Roll the block back and go round again, at most MaxAttempts times. *)
MergeConflict(r) ==
  /\ Violates(r)
  /\ op[r].kind = "merge"
  /\ Rollback(r)
  /\ attempt' = [attempt EXCEPT ![r] = @ + 1]
  /\ Goto(r, IF attempt[r] + 1 < MaxAttempts THEN "attempt" ELSE "read")
  /\ UNCHANGED <<tables, op, row, before, count, missing, reply>>

Commit(r) ==
  /\ pc[r] = "insert"
  /\ Left(r) = {}
  /\ rows' = rows \cup held[r]
  /\ held' = [held EXCEPT ![r] = {}]
  /\ IF op[r].kind = "save"
       THEN \E x \in held[r] : row' = [row EXCEPT ![r] = x] /\ Goto(r, "refresh")
       ELSE UNCHANGED row /\ Goto(r, "read")
  /\ outgrown' = (outgrown \/ Cardinality(rows) > count[r])
  /\ UNCHANGED <<account, clock, op, before, count, attempt, missing, reply>>

(* The loser of a race answers with the winner's row: the one that has the
   fingerprint, or else the one that has the id. *)
WinnerByPrint(r) ==
  /\ pc[r] = "winner"
  /\ \/ \E x \in rows : x.print = It(r).print /\ Load(r, x, "read")
     \/ It(r).print \notin Prints /\ Load(r, NoRow, "winner_id")

WinnerById(r) ==
  /\ pc[r] = "winner_id"
  /\ \E x \in rows : x.id = It(r).id /\ Load(r, x, "read")

WinnerGone(r) ==
  /\ pc[r] = "winner_id"
  /\ \A x \in rows : x.id # It(r).id
  /\ Finish(r, "error")

(* Mutant of ReadBack: a merge that gave up answers with what there is. *)
ReadBackShort(r) ==
  /\ pc[r] = "read"
  /\ Finish(r, "ok")

(* The list read back.  A merge that still misses what it was to add is a 409,
   not a short list. *)
ReadBack(r) ==
  /\ pc[r] = "read"
  /\ Finish(r, IF op[r].kind = "merge" /\ \E i \in Added(r) : i.print \notin Prints
                 THEN "conflict" ELSE "ok")

-----------------------------------------------------------------------------
(* Failures.                                                               *)

(* r's next insert waits for a row q holds. *)
WaitsFor(r, q) ==
  /\ pc[r] = "insert"
  /\ r # q
  /\ \E i \in Item : IsNext(r, i) /\ \E x \in held[q] : Clash(i, x)

(* Two merges that wait for one another: the database fails one of them. *)
BreakDeadlock(r) ==
  /\ \E C \in SUBSET Request :
       /\ r \in C
       /\ \A x \in C : (\E y \in C : WaitsFor(x, y)) /\ (\E y \in C : WaitsFor(y, x))
  /\ Finish(r, "error")

(* A worker killed, a connection dropped: the open transaction is undone. *)
Abort(r) ==
  /\ pc[r] \notin {"idle", "done"}
  /\ Finish(r, "error")

-----------------------------------------------------------------------------
Step(r) ==
  \/ Resolve(r) \/ ResolveNothing(r)
  \/ SaveInvalid(r) \/ SaveByPrint(r) \/ SaveById(r) \/ SaveFull(r) \/ SaveRoom(r)
  \/ UpdateLabel(r) \/ Rewrite(r) \/ RewriteClash(r) \/ RowGone(r) \/ Refresh(r)
  \/ RenameFind(r) \/ RenameUnknown(r) \/ Delete(r)
  \/ MergeSurvey(r) \/ MergeFull(r) \/ MergeAttempt(r)
  \/ InsertRow(r) \/ SaveConflict(r) \/ MergeConflict(r) \/ Commit(r)
  \/ WinnerByPrint(r) \/ WinnerById(r) \/ WinnerGone(r)
  \/ ReadBack(r) \/ BreakDeadlock(r)

Next == \E r \in Request : Receive(r) \/ Step(r) \/ Abort(r)

Spec == Init /\ [][Next]_vars

(* A handler that has started keeps running; nothing makes one start, and
   nothing makes one fail. *)
FairSpec == Spec /\ \A r \in Request : WF_vars(Step(r))

-----------------------------------------------------------------------------
(* Properties.                                                             *)

PcLabel == {"idle", "resolve", "check", "byid", "room", "update", "rewrite", "refresh",
            "find", "delete", "survey", "attempt", "insert", "winner", "winner_id",
            "read", "done"}
Status == {"none", "ok", "invalid", "not_found", "full", "conflict", "error"}

(* The type of every variable. *)
TypeOK ==
  /\ account \in BOOLEAN
  /\ rows \in SUBSET Row /\ IsFiniteSet(rows)
  /\ clock \in Nat \ {0}
  /\ pc \in [Request -> PcLabel]
  /\ op \in [Request -> Op]
  /\ row \in [Request -> Row \cup {NoRow}]
  /\ before \in [Request -> SUBSET Fingerprint]
  /\ count \in [Request -> Nat]
  /\ attempt \in [Request -> 0..MaxAttempts]
  /\ missing \in [Request -> SUBSET Item]
  /\ held \in [Request -> SUBSET Row] /\ \A r \in Request : IsFiniteSet(held[r])
  /\ reply \in [Request -> Status]
  /\ outgrown \in BOOLEAN

(* Committed and uncommitted rows together never share a client id, a
   fingerprint or a place: two saves, a save and a merge, or a merge and a
   save that rewrites a row, converge on one item (uq_saved_view_fingerprint,
   uq_saved_view_client_id and the paths that rely on them). *)
KeysExclusive ==
  /\ Keyed(AllRows)
  /\ \A r \in Request : held[r] \cap rows = {} /\ \A q \in Request \ {r} : held[r] \cap held[q] = {}

(* Where a request is says what it asked for and what it has loaded; what it
   has inserted is what it found missing. *)
InPlace(r) ==
  /\ pc[r] \notin {"idle", "resolve", "done"} => account
  /\ pc[r] = "check" => op[r].kind = "save"
  /\ pc[r] \in {"byid", "room", "rewrite", "winner", "winner_id"} =>
       op[r].kind = "save" /\ Wanted(op[r]) # {}
  /\ pc[r] \in {"update", "refresh"} => op[r].kind \in {"save", "rename"}
  /\ pc[r] = "find" => op[r].kind = "rename"
  /\ pc[r] = "delete" => op[r].kind = "remove"
  /\ pc[r] \in {"survey", "attempt"} => op[r].kind = "merge"
  /\ pc[r] = "insert" => op[r].kind \in {"save", "merge"} /\ missing[r] # {}
  /\ pc[r] \in {"attempt", "insert"} => attempt[r] < MaxAttempts
  /\ op[r].kind # "merge" \/ pc[r] \in {"idle", "resolve", "survey"} => attempt[r] = 0
  /\ missing[r] \subseteq Wanted(op[r])
  /\ \A x \in held[r] : Content(x) \in missing[r] /\ x.key < clock
  /\ pc[r] # "insert" => held[r] = {}
  /\ pc[r] = "idle" => missing[r] = {}

(* The row a request means to write is the one it loaded, or is gone. *)
Aimed(r) ==
  pc[r] \in {"update", "rewrite", "refresh"} =>
    /\ row[r] \in Row /\ row[r].key < clock
    /\ \A x \in AllRows : x.key = row[r].key => x.id = row[r].id
    /\ pc[r] = "rewrite" \/ (pc[r] = "update" /\ op[r].kind = "rename") =>
         row[r].id = It(r).id

(* Every request is in its place, and what is stored is valid and belongs to
   an account row. *)
Bookkeeping ==
  /\ rows # {} => account
  /\ \A x \in rows : x.print \in ValidPrint /\ x.key < clock
  /\ \A r \in Request : InPlace(r) /\ Aimed(r)

IInv == TypeOK /\ Bookkeeping /\ KeysExclusive

(* The limit of an account is exceeded only by an insert whose count was out
   of date when it was committed: each check by itself is right, for one save
   and for a block of a merge (_assert_room, _merge_rows). *)
LimitUnlessOutgrown == ~outgrown => Cardinality(rows) <= MaxItems

(* The concurrent handlers do what SavedWorkContract says, whatever they race
   with and wherever they fail: no merge renames or omits, no save or rename
   touches a row it did not find by its fingerprint or its id. *)
ContractHolds == Contract!Spec

(* Every request a worker keeps running is answered: the retry loop ends even
   when a client id stands in the way on every attempt (MERGE_MAX_ATTEMPTS). *)
EveryRequestAnswered == \A r \in Request : pc[r] = "resolve" ~> pc[r] = "done"
=============================================================================
