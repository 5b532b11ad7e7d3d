---------------------------- MODULE FavoritesStore ----------------------------
(***************************************************************************)
(* The server half of My Favorites: the four /api/me/favorites handlers    *)
(* (api/routes/me.py), the account-row resolution they depend on           *)
(* (core/auth.py) and services/favorites_service.py, for ONE identity.     *)
(*                                                                         *)
(* Requests run concurrently, each in its own database session.  A step is *)
(* one statement, or one statement and the commit that follows it at once; *)
(* rows a session has inserted and not committed are visible to itself     *)
(* alone (READ COMMITTED), and a second insert of the same key waits for   *)
(* the first to commit or roll back, as PostgreSQL does for a unique key.  *)
(* A key is committed or held, never both, so a uniqueness violation is an *)
(* insert that finds the key committed.                                    *)
(***************************************************************************)
EXTENDS Naturals, Sequences, FiniteSets

CONSTANTS
  Request,      \* identifiers of requests, each used once
  Player,       \* the player ids a request may name
  KnownPlayer,  \* those that have a row in `players`
  GuestList,    \* the lists a merge may offer, duplicates included
  MaxAttempts,  \* MERGE_MAX_ATTEMPTS
  NoAccount     \* "this identity has no row in app_users"

ASSUME RequestAssumption == IsFiniteSet(Request)
ASSUME KnownAssumption == KnownPlayer \subseteq Player
ASSUME GuestAssumption == GuestList \subseteq Seq(Player)
ASSUME AttemptsAssumption == MaxAttempts \in Nat \ {0}
ASSUME NoAccountAssumption == NoAccount \notin Request

VARIABLES
  account,   \* the app_users row, named by the request that created it
  user,      \* the row each request resolved its identity to
  rows,      \* committed user_favorites rows: player -> insertion stamp, 0 = none
  clock,     \* the next insertion stamp, the order (created_at, id) of canonical_ids
  pc,        \* where each request is
  op,        \* what it asks for
  before,    \* merge: the account's players when the merge began
  prior,     \* merge: the requests that had committed when it read `before`
  attempt,   \* merge: completed attempts
  missing,   \* the rows this attempt has to insert
  dirty,     \* its inserted, uncommitted rows: player -> stamp, 0 = none
  changed,   \* the players its own commit put on or took off the list
  reply      \* the outcome, the players listed, and those reported as changed

\* `prior` and `changed` only record; no step reads them but to report what an
\* add or a removal did.
vars == <<account, user, rows, clock, pc, op, before, prior, attempt, missing,
          dirty, changed, reply>>

\* One request's own variables, and the tables.
local == <<op, before, prior, attempt, missing, changed>>
tables == <<account, rows, clock>>

Canonical == {p \in Player : rows[p] # 0}

(* What the contract sees of a request: how far its caller knows it to be, and
   whether an add or a removal has seen its goal hold. *)
Phase(r) ==
  IF pc[r] = "idle" THEN "new"
  ELSE IF pc[r] # "done" THEN "open"
  ELSE IF reply[r].status = "ok" THEN "ok" ELSE "refused"

Witnessed(r) ==
  /\ op[r].kind \in {"add", "remove"}
  /\ pc[r] = "read" \/ (pc[r] = "done" /\ reply[r].status = "ok")

Contract == INSTANCE FavoritesContract WITH
  saved <- Canonical,
  phase <- [r \in Request |-> Phase(r)],
  witnessed <- [r \in Request |-> Witnessed(r)],
  listed <- [r \in Request |-> reply[r].listed]

Op == Contract!Op
Offered(r) == Contract!Offered(op[r])
Wanted(r) == Contract!Wanted(op[r])

NoRows == [p \in Player |-> 0]
Held(r) == {p \in Player : dirty[r][p] # 0}

(* Mutant of Materializes: a read creates the account row too. *)
MaterializesForRead(r) == op[r].kind # "remove"

(* Endpoints that materialize the account row; the others only look it up. *)
Materializes(r) == op[r].kind \in {"add", "merge"}

Init ==
  /\ account = NoAccount
  /\ user = [r \in Request |-> NoAccount]
  /\ rows = NoRows
  /\ clock = 1
  /\ pc = [r \in Request |-> "idle"]
  /\ op = [r \in Request |-> Contract!NoOp]
  /\ before = [r \in Request |-> {}]
  /\ prior = [r \in Request |-> {}]
  /\ attempt = [r \in Request |-> 0]
  /\ missing = [r \in Request |-> {}]
  /\ dirty = [r \in Request |-> NoRows]
  /\ changed = [r \in Request |-> {}]
  /\ reply = [r \in Request |-> [status |-> "none", listed |-> {}, told |-> {}]]

Goto(r, label) == pc' = [pc EXCEPT ![r] = label]

(* Mutant of Reported: a merge compares with the list it reads back. *)
ReportedAtTheEnd(r) ==
  IF op[r].kind = "merge" THEN Wanted(r) \ Canonical ELSE changed[r]

(* The players an answer reports as changed.  An add or a removal says what its
   own statement did; a merge says what was not on the account when it began,
   whoever inserted it (`added`; the rest of what it wanted is
   `already_present`). *)
Reported(r) ==
  IF op[r].kind = "merge" THEN Wanted(r) \ before[r] ELSE changed[r]

Finish(r, status, set) ==
  /\ Goto(r, "done")
  /\ reply' = [reply EXCEPT ![r] =
       [status |-> status, listed |-> set,
        told |-> IF status = "ok" THEN Reported(r) ELSE {}]]

-----------------------------------------------------------------------------
(* The account row.                                                        *)

Receive(r) ==
  /\ pc[r] = "idle"
  /\ \E o \in Op : op' = [op EXCEPT ![r] = o]
  /\ Goto(r, "resolve")
  /\ UNCHANGED <<tables, user, before, prior, attempt, missing, changed, dirty, reply>>

(* Where the handler goes once it has an account row. *)
Begin(r) ==
  Goto(r, CASE op[r].kind = "list" -> "read"
            [] op[r].kind = "remove" -> "delete"
            [] OTHER -> "check")

ResolveFound(r) ==
  /\ pc[r] = "resolve"
  /\ account # NoAccount
  /\ user' = [user EXCEPT ![r] = account]
  /\ Begin(r)
  /\ UNCHANGED <<tables, local, dirty, reply>>

(* No row and nothing to own: a read or a removal answers the empty list. *)
ResolveNothing(r) ==
  /\ pc[r] = "resolve"
  /\ account = NoAccount
  /\ ~Materializes(r)
  /\ Finish(r, "ok", {})
  /\ UNCHANGED <<tables, local, user, dirty>>

ResolveMissing(r) ==
  /\ pc[r] = "resolve"
  /\ account = NoAccount
  /\ Materializes(r)
  /\ Goto(r, "create")
  /\ UNCHANGED <<tables, local, user, dirty, reply>>

(* Mutant of CreateAccount: the loser of the race keeps the row it meant to add. *)
CreateOwnAccount(r) ==
  /\ pc[r] = "create"
  /\ account' = IF account = NoAccount THEN r ELSE account
  /\ user' = [user EXCEPT ![r] = r]
  /\ Begin(r)
  /\ UNCHANGED <<rows, clock, local, dirty, reply>>

(* INSERT and commit; the loser of a race re-reads the winner's row. *)
CreateAccount(r) ==
  /\ pc[r] = "create"
  /\ account' = IF account = NoAccount THEN r ELSE account
  /\ user' = [user EXCEPT ![r] = account']
  /\ Begin(r)
  /\ UNCHANGED <<rows, clock, local, dirty, reply>>

-----------------------------------------------------------------------------
(* Add, remove and merge.                                                  *)

AddUnknown(r) ==
  /\ pc[r] = "check"
  /\ op[r].kind = "add"
  /\ Wanted(r) = {}
  /\ Finish(r, "not_found", {})
  /\ UNCHANGED <<tables, local, user, dirty>>

AddCheck(r) ==
  /\ pc[r] = "check"
  /\ op[r].kind = "add"
  /\ Wanted(r) # {}
  /\ missing' = [missing EXCEPT ![r] = Wanted(r) \ Canonical]
  /\ Goto(r, IF Wanted(r) \subseteq Canonical THEN "read" ELSE "insert")
  /\ UNCHANGED <<tables, user, op, before, prior, attempt, changed, dirty, reply>>

MergeBegin(r) ==
  /\ pc[r] = "check"
  /\ op[r].kind = "merge"
  /\ before' = [before EXCEPT ![r] = Canonical]
  /\ prior' = [prior EXCEPT ![r] = {q \in Request : changed[q] # {}}]
  /\ Goto(r, "attempt")
  /\ UNCHANGED <<tables, user, op, attempt, missing, changed, dirty, reply>>

(* The head of the retry loop: what is still missing NOW. *)
MergeAttempt(r) ==
  /\ pc[r] = "attempt"
  /\ missing' = [missing EXCEPT ![r] = Wanted(r) \ Canonical]
  /\ Goto(r, IF Wanted(r) \subseteq Canonical THEN "read" ELSE "insert")
  /\ UNCHANGED <<tables, user, op, before, prior, attempt, changed, dirty, reply>>

IsAnyMissing(r, p) == p \in missing[r] \ Held(r)  \* mutant of IsNext: a set's order

(* The flush inserts the missing rows in the order the guest offered them. *)
IsNext(r, p) ==
  \E i \in 1..Len(op[r].offer) :
    /\ op[r].offer[i] = p
    /\ p \in missing[r] \ Held(r)
    /\ \A j \in 1..(i - 1) : op[r].offer[j] \notin missing[r] \ Held(r)

Insertable(p) == rows[p] = 0 /\ \A q \in Request : p \notin Held(q)

InsertRow(r) ==
  /\ pc[r] = "insert"
  /\ \E p \in Player :
       /\ IsNext(r, p)
       /\ Insertable(p)
       /\ dirty' = [dirty EXCEPT ![r][p] = clock]
  /\ clock' = clock + 1
  /\ UNCHANGED <<account, rows, user, local, pc, reply>>

NoRollback(r) == UNCHANGED dirty  \* mutant of Rollback

Rollback(r) == dirty' = [dirty EXCEPT ![r] = NoRows]

(* A unique violation: the row is there, so the add changed nothing. *)
AddConflict(r) ==
  /\ pc[r] = "insert"
  /\ op[r].kind = "add"
  /\ \E p \in Player : IsNext(r, p) /\ rows[p] # 0
  /\ Rollback(r)
  /\ Goto(r, "read")
  /\ UNCHANGED <<tables, user, local, reply>>

(* A unique violation: roll the block back and go round again, at most
   MaxAttempts times. *)
MergeConflict(r) ==
  /\ pc[r] = "insert"
  /\ op[r].kind = "merge"
  /\ \E p \in Player : IsNext(r, p) /\ rows[p] # 0
  /\ Rollback(r)
  /\ attempt' = [attempt EXCEPT ![r] = @ + 1]
  /\ Goto(r, IF attempt[r] + 1 < MaxAttempts THEN "attempt" ELSE "read")
  /\ UNCHANGED <<tables, user, op, before, prior, missing, changed, reply>>

Commit(r) ==
  /\ pc[r] = "insert"
  /\ missing[r] \subseteq Held(r)
  /\ rows' = [p \in Player |-> IF p \in Held(r) THEN dirty[r][p] ELSE rows[p]]
  /\ changed' = [changed EXCEPT ![r] = Held(r)]
  /\ dirty' = [dirty EXCEPT ![r] = NoRows]
  /\ Goto(r, "read")
  /\ UNCHANGED <<account, clock, user, op, before, prior, attempt, missing, reply>>

(* Mutant of Delete: it reports a removal whether or not a row was there. *)
DeleteReportsAlways(r) ==
  /\ pc[r] = "delete"
  /\ rows' = [p \in Player |-> IF p \in Offered(r) THEN 0 ELSE rows[p]]
  /\ changed' = [changed EXCEPT ![r] = Offered(r)]
  /\ Goto(r, "read")
  /\ UNCHANGED <<account, clock, user, op, before, prior, attempt, missing, dirty,
                 reply>>

Delete(r) ==
  /\ pc[r] = "delete"
  /\ rows' = [p \in Player |-> IF p \in Offered(r) THEN 0 ELSE rows[p]]
  /\ changed' = [changed EXCEPT ![r] = Offered(r) \cap Canonical]
  /\ Goto(r, "read")
  /\ UNCHANGED <<account, clock, user, op, before, prior, attempt, missing, dirty,
                 reply>>

(* Mutant of ReadBack: a merge that gave up answers with what there is. *)
ReadBackShort(r) ==
  /\ pc[r] = "read"
  /\ Finish(r, "ok", Canonical)
  /\ UNCHANGED <<tables, local, user, dirty>>

(* The canonical list read back.  A merge that still misses a wanted player
   is a 409, not a short list. *)
ReadBack(r) ==
  /\ pc[r] = "read"
  /\ IF op[r].kind = "merge" /\ ~(Wanted(r) \subseteq Canonical)
       THEN Finish(r, "conflict", {})
       ELSE Finish(r, "ok", Canonical)
  /\ UNCHANGED <<tables, local, user, dirty>>

-----------------------------------------------------------------------------
(* Failures.                                                               *)

(* r's next insert waits for a row q holds. *)
WaitsFor(r, q) == pc[r] = "insert" /\ \E p \in Player : IsNext(r, p) /\ p \in Held(q)

Fail(r) ==
  /\ Rollback(r)
  /\ Finish(r, "error", {})
  /\ UNCHANGED <<tables, local, user>>

(* Two blocks inserted in opposite orders: the database breaks the cycle by
   failing one of them, with an error that is not a uniqueness violation. *)
BreakDeadlock(r) ==
  /\ \E C \in SUBSET Request :
       /\ r \in C
       /\ \A x \in C : (\E y \in C : WaitsFor(x, y)) /\ (\E y \in C : WaitsFor(y, x))
  /\ Fail(r)

(* A worker killed, a connection dropped: the open transaction is undone. *)
Abort(r) ==
  /\ pc[r] \notin {"idle", "done"}
  /\ Fail(r)

-----------------------------------------------------------------------------
Step(r) ==
  \/ ResolveFound(r) \/ ResolveNothing(r) \/ ResolveMissing(r) \/ CreateAccount(r)
  \/ AddUnknown(r) \/ AddCheck(r) \/ MergeBegin(r) \/ MergeAttempt(r)
  \/ InsertRow(r) \/ AddConflict(r) \/ MergeConflict(r)
  \/ Commit(r) \/ Delete(r) \/ ReadBack(r)
  \/ BreakDeadlock(r)

Next == \E r \in Request : Receive(r) \/ Step(r) \/ Abort(r)

Spec == Init /\ [][Next]_vars

(* A handler that has started keeps running; nothing makes one start, and
   nothing makes one fail. *)
FairSpec == Spec /\ \A r \in Request : WF_vars(Step(r))

-----------------------------------------------------------------------------
(* Properties.                                                             *)

Label == {"idle", "resolve", "create", "check", "attempt", "insert", "delete",
          "read", "done"}
Status == {"none", "ok", "not_found", "conflict", "error"}

(* The type of every variable. *)
TypeOK ==
  /\ account \in Request \cup {NoAccount}
  /\ user \in [Request -> Request \cup {NoAccount}]
  /\ rows \in [Player -> Nat]
  /\ clock \in Nat \ {0}
  /\ pc \in [Request -> Label]
  /\ op \in [Request -> Op]
  /\ before \in [Request -> SUBSET Player]
  /\ prior \in [Request -> SUBSET Request]
  /\ attempt \in [Request -> Nat]
  /\ missing \in [Request -> SUBSET Player]
  /\ dirty \in [Request -> [Player -> Nat]]
  /\ changed \in [Request -> SUBSET Player]
  /\ reply \in [Request -> [status : Status, listed : SUBSET Player,
                       told : SUBSET Player]]

(* Two first requests of one person race to create the account row and still
   work on the same row: resolve_app_user's loser re-reads the winner's. *)
OneAccountRow == \A r \in Request : user[r] \in {NoAccount, account}

(* Reading and removing never create the account row, and no row is saved
   before there is an account to own it (get_optional_app_user). *)
ReadsWriteNothing ==
  /\ account \in Request => op[account].kind \in {"add", "merge"}
  /\ Canonical # {} => account # NoAccount

(* Uncommitted rows are held by one session, on a key no committed row has: a
   part of the inductive invariant, which the database's unique key gives. *)
KeysExclusive ==
  \A r \in Request, p \in Player :
    p \in Held(r) => rows[p] = 0 /\ \A q \in Request \ {r} : p \notin Held(q)

(* Where a request is says what it asked for, that it has an account row, and
   what its session holds: the strengthening the proofs need. *)
Bookkeeping ==
  /\ Canonical \subseteq KnownPlayer
  /\ account \in Request => pc[account] # "idle"
  /\ \A r \in Request :
       /\ pc[r] \in {"create", "check", "attempt", "insert"} => Materializes(r)
       /\ pc[r] = "attempt" => op[r].kind = "merge"
       /\ pc[r] = "delete" => op[r].kind = "remove"
       /\ pc[r] \in {"check", "attempt", "insert", "delete", "read"} => account # NoAccount
       /\ pc[r] = "insert" => missing[r] # {}
       /\ pc[r] = "idle" => missing[r] = {}
       /\ pc[r] # "done" => reply[r].listed = {}
       /\ Held(r) \subseteq missing[r] /\ missing[r] \subseteq Wanted(r)
       /\ pc[r] # "insert" => Held(r) = {}

IInv == TypeOK /\ Bookkeeping /\ OneAccountRow /\ ReadsWriteNothing /\ KeysExclusive

(* The ledger of commits: for every player, the adds and merges whose commit put
   it on the list outnumber the removals whose commit took it off by one if it
   is on the list now, and by none otherwise (add_favorite, merge_favorites,
   remove_favorite).  For an add or a removal that is also what it reports. *)
ChangeLedger ==
  \A p \in Player :
    LET By(kinds) == Cardinality({r \in Request : op[r].kind \in kinds /\ p \in changed[r]})
    IN  By({"add", "merge"}) = By({"remove"}) + IF rows[p] # 0 THEN 1 ELSE 0

(* A merge's report may differ from what its own commit did only by another
   call that came between.  `Added` is on the list answered; what is reported as
   added and was inserted by somebody else was inserted after the merge read
   `before`; what it inserted and reports as already present was removed after
   that (favorites_service.py: "was not on this account when the merge began,
   and is on it now"). *)
Since(r, kinds, p) ==
  \E q \in Request \ prior[r] : op[q].kind \in kinds /\ p \in changed[q]

ReportsExplained ==
  \A r \in Request :
    op[r].kind = "merge" /\ pc[r] = "done" /\ reply[r].status = "ok" =>
      /\ reply[r].told \subseteq reply[r].listed
      /\ \A p \in reply[r].told : Since(r, {"add", "merge"}, p)
      /\ \A p \in changed[r] \ reply[r].told : Since(r, {"remove"}, p)

(* A merge appends what it adds in the guest's own order, retried or not, each
   player where the guest first offered it (merge_favorites, contract 3). *)
GuestOrderKept ==
  [][\A r \in Request :
       pc[r] = "insert" /\ pc'[r] = "read" /\ changed'[r] # changed[r] =>
         LET o == op[r].offer
             New(i) == o[i] \in changed'[r] /\ \A k \in 1..(i - 1) : o[k] # o[i]
         IN  \A i, j \in 1..Len(o) :
               i < j /\ New(i) /\ New(j) => rows'[o[i]] < rows'[o[j]]]_vars

(* The concurrent handlers do what the contract says, whatever they race with
   and wherever they fail: nothing saved is lost except to a removal, nothing
   is answered that did not hold, and no merge omits a player. *)
ContractHolds == Contract!Spec

(* Every request a worker keeps running is answered: the retry loop ends, and
   sessions waiting on one another's rows are told apart (merge_favorites). *)
EveryRequestAnswered == \A r \in Request : pc[r] = "resolve" ~> pc[r] = "done"
=============================================================================
