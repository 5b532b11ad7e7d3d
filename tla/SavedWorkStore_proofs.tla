------------------------ MODULE SavedWorkStore_proofs ------------------------
(* Proofs about SavedWorkStore, for every set of requests, items and device
   lists, every starting collection, limit and number of merge attempts: the inductive
   invariant, the limit, and the refinement of SavedWorkContract. *)
EXTENDS SavedWorkStore, FiniteSetTheorems, TLAPS

USE DEF PcLabel, Status

(* A request carries items, and wants items it carries. *)
LEMMA OpType ==
  ASSUME NEW o \in Op
  PROVE  /\ o.kind \in {"save", "rename", "remove", "merge", "list"}
         /\ o.items \in Seq(Item)
         /\ Wanted(o) \subseteq Item
         /\ \A i \in Wanted(o) : i.print \in ValidPrint
         /\ o.kind \in {"save", "rename", "remove"} => The(o) \in Item
         /\ o.kind = "save" => Wanted(o) \subseteq {The(o)}
<1>1. o.kind \in {"save", "rename", "remove", "merge", "list"} BY DEF Op
<1>2. o.items \in Seq(Item)
  <2>1. \A i \in Item : <<i>> \in Seq(Item) OBVIOUS
  <2>2. <<>> \in Seq(Item) OBVIOUS
  <2>3. QED BY <2>1, <2>2, DeviceAssumption DEF Op
<1>3. Wanted(o) \subseteq Item /\ \A i \in Wanted(o) : i.print \in ValidPrint
  BY <1>2 DEF Wanted
<1>4. ASSUME o.kind \in {"save", "rename", "remove"} PROVE Len(o.items) = 1 /\ The(o) \in Item
  <2>1. PICK i \in Item : o.items = <<i>> BY <1>4 DEF Op
  <2>2. QED BY <2>1 DEF The
<1>5. ASSUME o.kind = "save" PROVE Wanted(o) \subseteq {The(o)}
  BY <1>4, <1>5 DEF Wanted, The
<1>6. QED BY <1>1, <1>2, <1>3, <1>4, <1>5

(* The fields of an item and of a row. *)
LEMMA Fields ==
  /\ \A i \in Item : i.id \in ClientId /\ i.print \in Fingerprint /\ i.label \in Label
  /\ \A x \in Row : x.key \in Nat \ {0} /\ x.id \in ClientId /\ x.print \in Fingerprint
                      /\ x.label \in Label
BY ItemAssumption DEF Row

LEMMA InitType == Init => TypeOK
<1> SUFFICES ASSUME Init PROVE TypeOK OBVIOUS
<1>1. rows \subseteq Row /\ IsFiniteSet(rows) BY StartAssumption DEF Init
<1>2. Cardinality(rows) \in Nat BY <1>1, FS_CardinalityType
<1>3. IsFiniteSet({}) BY FS_EmptySet
<1>4. NoOp \in Op BY DEF NoOp, Op
<1>5. 0 \in 0..MaxAttempts BY LimitsAssumption
<1>6. account \in BOOLEAN /\ outgrown \in BOOLEAN BY Zenon DEF Init
<1>9. clock \in Nat \ {0} BY <1>2 DEF Init
<1>10. held \in [Request -> SUBSET Row] /\ \A r \in Request : IsFiniteSet(held[r])
  BY <1>3 DEF Init
<1>7. /\ op \in [Request -> Op] /\ attempt \in [Request -> 0..MaxAttempts]
      /\ row \in [Request -> Row \cup {NoRow}] /\ missing \in [Request -> SUBSET Item]
      /\ before \in [Request -> SUBSET Fingerprint] /\ count \in [Request -> Nat]
      /\ pc \in [Request -> PcLabel] /\ reply \in [Request -> Status]
  BY <1>4, <1>5 DEF Init
<1>8. QED BY <1>1, <1>6, <1>9, <1>10, <1>7 DEF TypeOK

(* What Finish and Load do to the types. *)
LEMMA FinishType ==
  ASSUME TypeOK, NEW r \in Request, NEW status \in Status, Finish(r, status)
  PROVE  TypeOK'
BY FS_EmptySet DEF Finish, Goto, Rollback, tables, TypeOK

LEMMA LoadType ==
  ASSUME TypeOK, NEW r \in Request, NEW x \in Row \cup {NoRow}, NEW label \in PcLabel,
         Load(r, x, label)
  PROVE  TypeOK'
BY DEF Load, Goto, tables, TypeOK

(* Replacing a row keeps the collection finite. *)
LEMMA PutType ==
  ASSUME TypeOK, NEW x \in rows, NEW y \in Row, Put(x, y)
  PROVE  rows' \in SUBSET Row /\ IsFiniteSet(rows')
<1>1. IsFiniteSet(rows \ {x}) BY FS_Difference DEF TypeOK
<1>2. IsFiniteSet((rows \ {x}) \cup {y}) BY <1>1, FS_AddElement
<1>3. QED BY <1>2 DEF Put, TypeOK

(* Where each kind of request begins. *)
LEMMA BeginLabel ==
  ASSUME TypeOK, NEW r \in Request, Begin(r)
  PROVE  \E label \in {"check", "find", "delete", "survey", "read"} :
           /\ Goto(r, label)
           /\ label = "check" => op[r].kind = "save"
           /\ label = "find" => op[r].kind = "rename"
           /\ label = "delete" => op[r].kind = "remove"
           /\ label = "survey" => op[r].kind = "merge"
           /\ label = "read" => op[r].kind = "list"
<1>1. op[r].kind \in {"save", "rename", "remove", "merge", "list"} BY OpType DEF TypeOK
<1>2. CASE op[r].kind = "save" BY <1>2 DEF Begin
<1>3. CASE op[r].kind = "rename" BY <1>3 DEF Begin
<1>4. CASE op[r].kind = "remove" BY <1>4 DEF Begin
<1>5. CASE op[r].kind = "merge" BY <1>5 DEF Begin
<1>6. CASE op[r].kind = "list" BY <1>6 DEF Begin
<1>7. QED BY <1>1, <1>2, <1>3, <1>4, <1>5, <1>6

LEMMA StepType ==
  ASSUME TypeOK, Bookkeeping, [Next]_vars
  PROVE  TypeOK'
<1>0. \A r \in Request : Wanted(op[r]) \subseteq Item BY OpType DEF TypeOK
<1>b. ASSUME NEW r \in Request, op[r].kind \in {"save", "rename", "remove"}
      PROVE  It(r) \in Item
  BY <1>b, OpType DEF It, TypeOK
<1>a. Cardinality(rows) \in Nat BY FS_CardinalityType DEF TypeOK
<1>1. CASE UNCHANGED vars
  BY <1>1 DEF vars, TypeOK
<1>2. ASSUME NEW r \in Request, Receive(r) PROVE TypeOK'
  BY <1>2 DEF TypeOK, Receive, Goto, tables
<1>3. ASSUME NEW r \in Request, Resolve(r) PROVE TypeOK'
  <2>1. PICK label \in PcLabel : Goto(r, label) BY <1>3, BeginLabel DEF Resolve
  <2>2. QED BY <1>3, <2>1 DEF TypeOK, Resolve, Goto, locals
<1>4. ASSUME NEW r \in Request, ResolveNothing(r) PROVE TypeOK'
  BY <1>4, FinishType DEF ResolveNothing
<1>5. ASSUME NEW r \in Request, SaveInvalid(r) \/ SaveFull(r) \/ RewriteClash(r) \/ RowGone(r)
                \/ RenameUnknown(r) \/ MergeFull(r) \/ WinnerGone(r) \/ ReadBack(r)
                \/ BreakDeadlock(r) \/ Abort(r)
      PROVE  TypeOK'
  <2>1. PICK status \in Status : Finish(r, status)
    BY <1>5 DEF SaveInvalid, SaveFull, RewriteClash, RowGone, RenameUnknown, MergeFull,
         WinnerGone, ReadBack, BreakDeadlock, Abort
  <2>2. QED BY <2>1, FinishType
<1>6. ASSUME NEW r \in Request, SaveByPrint(r) \/ SaveById(r) \/ Refresh(r) \/ RenameFind(r)
                \/ WinnerByPrint(r) \/ WinnerById(r)
      PROVE  TypeOK'
  <2>1. PICK x \in Row \cup {NoRow}, label \in PcLabel : Load(r, x, label)
    BY <1>6 DEF SaveByPrint, SaveById, Refresh, IsRow, RenameFind, WinnerByPrint, WinnerById,
         TypeOK
  <2>2. QED BY <2>1, LoadType
<1>7. ASSUME NEW r \in Request, SaveRoom(r) PROVE TypeOK'
  <2>1. It(r) \in Item BY <1>b, <1>7 DEF SaveRoom, Bookkeeping, InPlace
  <2>2. QED BY <1>7, <1>a, <2>1 DEF TypeOK, SaveRoom, Goto, tables
<1>8. ASSUME NEW r \in Request, UpdateLabel(r) PROVE TypeOK'
  <2>1. It(r) \in Item BY <1>b, <1>8 DEF UpdateLabel, Bookkeeping, InPlace
  <2>2. PICK x \in rows : Put(x, [x EXCEPT !.label = It(r).label]) BY <1>8 DEF UpdateLabel
  <2>3. [x EXCEPT !.label = It(r).label] \in Row BY <2>1, <2>2, Fields DEF TypeOK, Row
  <2>4. rows' \in SUBSET Row /\ IsFiniteSet(rows') BY <2>2, <2>3, PutType
  <2>5. QED BY <1>8, <2>4 DEF TypeOK, UpdateLabel, Goto, locals
<1>9. ASSUME NEW r \in Request, Rewrite(r) PROVE TypeOK'
  <2>1. It(r) \in Item BY <1>b, <1>9 DEF Rewrite, Bookkeeping, InPlace
  <2>2. PICK x \in rows : Put(x,
          [x EXCEPT !.label = IF It(r).label = row[r].label THEN @ ELSE It(r).label,
                    !.print = IF It(r).print = row[r].print THEN @ ELSE It(r).print])
    BY <1>9 DEF Rewrite
  <2>3. [x EXCEPT !.label = IF It(r).label = row[r].label THEN @ ELSE It(r).label,
                  !.print = IF It(r).print = row[r].print THEN @ ELSE It(r).print] \in Row
    BY <2>1, <2>2, Fields DEF TypeOK, Row
  <2>4. rows' \in SUBSET Row /\ IsFiniteSet(rows') BY <2>2, <2>3, PutType
  <2>5. QED BY <1>9, <2>4 DEF TypeOK, Rewrite, Goto, locals
<1>10. ASSUME NEW r \in Request, Delete(r) PROVE TypeOK'
  <2>1. rows' \subseteq rows BY <1>10 DEF Delete
  <2>2. IsFiniteSet(rows') BY <2>1, FS_Subset DEF TypeOK
  <2>3. QED BY <1>10, <2>1, <2>2 DEF TypeOK, Delete, Goto, locals
<1>11. ASSUME NEW r \in Request, MergeSurvey(r) PROVE TypeOK'
  <2>1. Prints \subseteq Fingerprint BY Fields DEF Prints, TypeOK
  <2>2. QED BY <1>11, <1>a, <2>1 DEF TypeOK, MergeSurvey, Goto, tables
<1>12. ASSUME NEW r \in Request, MergeAttempt(r) PROVE TypeOK'
  <2>1. {i \in Added(r) : i.print \notin Prints} \subseteq Item
    <3>1. Added(r) \subseteq Item BY <1>0 DEF Added
    <3>2. QED BY <3>1
  <2>2. QED BY <1>12, <2>1 DEF TypeOK, MergeAttempt, Goto, tables
<1>13. ASSUME NEW r \in Request, InsertRow(r) PROVE TypeOK'
  <2>1. PICK i \in Item : held' = [held EXCEPT ![r] = held[r] \cup
          {[id |-> i.id, print |-> i.print, label |-> i.label, key |-> clock]}]
    BY <1>13 DEF InsertRow
  <2>2. [id |-> i.id, print |-> i.print, label |-> i.label, key |-> clock] \in Row
    BY Fields DEF Row, TypeOK
  <2>3. held' \in [Request -> SUBSET Row] /\ \A q \in Request : IsFiniteSet(held'[q])
    <3>1. IsFiniteSet(held'[r]) BY <2>1, FS_AddElement DEF TypeOK
    <3>2. \A q \in Request \ {r} : held'[q] = held[q] BY <2>1 DEF TypeOK
    <3>3. QED BY <2>1, <2>2, <3>1, <3>2 DEF TypeOK
  <2>4. /\ clock' = clock + 1
        /\ UNCHANGED <<account, rows, pc, op, row, before, count, attempt, missing, reply, outgrown>>
    BY <1>13 DEF InsertRow
  <2>5. QED BY <2>3, <2>4 DEF TypeOK
<1>14. ASSUME NEW r \in Request, SaveConflict(r) PROVE TypeOK'
  BY <1>14, FS_EmptySet DEF TypeOK, SaveConflict, Rollback, Goto, tables
<1>15. ASSUME NEW r \in Request, MergeConflict(r) PROVE TypeOK'
  <2>1. attempt[r] + 1 \in 0..MaxAttempts
    BY <1>15, LimitsAssumption DEF MergeConflict, Violates, Bookkeeping, InPlace, TypeOK
  <2>2. attempt' \in [Request -> 0..MaxAttempts] BY <1>15, <2>1 DEF MergeConflict, TypeOK
  <2>3. QED BY <1>15, <2>2, FS_EmptySet DEF TypeOK, MergeConflict, Rollback, Goto, tables
<1>16. ASSUME NEW r \in Request, Commit(r) PROVE TypeOK'
  <2>1. rows' \in SUBSET Row /\ IsFiniteSet(rows')
    BY <1>16, FS_Union DEF Commit, TypeOK
  <2>2. held' \in [Request -> SUBSET Row] /\ \A q \in Request : IsFiniteSet(held'[q])
    BY <1>16, FS_EmptySet DEF Commit, TypeOK
  <2>3. row' \in [Request -> Row \cup {NoRow}] /\ pc' \in [Request -> PcLabel]
    BY <1>16 DEF Commit, Goto, TypeOK
  <2>4. outgrown' \in BOOLEAN BY <1>16 DEF Commit
  <2>5. QED BY <1>16, <2>1, <2>2, <2>3, <2>4 DEF TypeOK, Commit
<1>17. QED
  BY <1>1, <1>2, <1>3, <1>4, <1>5, <1>6, <1>7, <1>8, <1>9, <1>10, <1>11, <1>12, <1>13, <1>14,
     <1>15, <1>16
  DEF Next, Step

-----------------------------------------------------------------------------
(* The inductive invariant.                                                *)

(* A step of r leaves the other requests where they are. *)
Same(r) ==
  \A q \in Request \ {r} :
    /\ pc'[q] = pc[q] /\ op'[q] = op[q] /\ row'[q] = row[q]
    /\ attempt'[q] = attempt[q] /\ missing'[q] = missing[q] /\ held'[q] = held[q]

(* A primary key keeps its client id, and new rows have new primary keys. *)
Kept ==
  /\ account => account'
  /\ clock' \in Nat /\ clock' >= clock
  /\ \A y \in AllRows' : y.key >= clock \/ \E x \in AllRows : x.key = y.key /\ x.id = y.id

(* The other requests are not disturbed, so a step has to show that its own
   request stays in place and that the rows it leaves are in order. *)
LEMMA KeepsBooks ==
  ASSUME TypeOK, Bookkeeping, NEW r \in Request, Same(r), Kept,
         InPlace(r)', Aimed(r)',
         rows' # {} => account',
         \A x \in rows' : x.print \in ValidPrint /\ x.key < clock'
  PROVE  Bookkeeping'
<1>1. ASSUME NEW q \in Request \ {r} PROVE InPlace(q)'
  <2>1. InPlace(q) BY DEF Bookkeeping
  <2>2. \A x \in held[q] : x.key \in Nat BY Fields DEF TypeOK
  <2>3. clock \in Nat /\ clock' \in Nat /\ clock' >= clock BY DEF Kept, TypeOK
  <2>4. QED BY <2>1, <2>2, <2>3 DEF InPlace, Same, Kept
<1>2. ASSUME NEW q \in Request \ {r} PROVE Aimed(q)'
  <2>1. Aimed(q) BY DEF Bookkeeping
  <2>2. clock \in Nat /\ clock' \in Nat /\ clock' >= clock BY DEF Kept, TypeOK
  <2>3. CASE pc[q] \notin {"update", "rewrite", "refresh"} BY <2>3 DEF Aimed, Same
  <2>4. CASE pc[q] \in {"update", "rewrite", "refresh"}
    <3>1. row'[q] = row[q] /\ row[q] \in Row /\ row[q].key \in Nat /\ row[q].key < clock
      BY <2>1, <2>4, Fields DEF Aimed, Same
    <3>2. ASSUME NEW y \in AllRows', y.key = row[q].key PROVE y.id = row[q].id
      <4>1. PICK x \in AllRows : x.key = y.key /\ x.id = y.id BY <2>2, <3>1, <3>2 DEF Kept
      <4>2. QED BY <2>1, <2>4, <3>2, <4>1 DEF Aimed
    <3>3. pc'[q] = pc[q] /\ op'[q] = op[q] BY DEF Same
    <3>4. QED BY <2>1, <2>2, <2>4, <3>1, <3>2, <3>3 DEF Aimed, It
  <2>5. QED BY <2>3, <2>4
<1>3. QED BY <1>1, <1>2 DEF Bookkeeping

(* Taking rows away keeps the keys exclusive. *)
LEMMA Shrinks ==
  ASSUME KeysExclusive, rows' \subseteq rows, \A q \in Request : held'[q] \subseteq held[q]
  PROVE  /\ KeysExclusive'
         /\ AllRows' \subseteq AllRows
<1>1. AllRows' \subseteq AllRows BY DEF AllRows
<1>2. Keyed(AllRows') BY <1>1 DEF KeysExclusive, Keyed
<1>3. ASSUME NEW q \in Request
      PROVE  /\ held'[q] \cap rows' = {}
             /\ \A z \in Request \ {q} : held'[q] \cap held'[z] = {}
  BY DEF KeysExclusive
<1>4. QED BY <1>1, <1>2, <1>3 DEF KeysExclusive

LEMMA InitInv == Init => Bookkeeping /\ KeysExclusive
<1> SUFFICES ASSUME Init PROVE Bookkeeping /\ KeysExclusive OBVIOUS
<1>1. /\ rows \subseteq Row /\ IsFiniteSet(rows) /\ Keyed(rows)
      /\ \A x \in rows : x.print \in ValidPrint /\ x.key <= Cardinality(rows)
  BY StartAssumption DEF Init
<1>2. Cardinality(rows) \in Nat BY <1>1, FS_CardinalityType
<1>3. \A x \in rows : x.print \in ValidPrint /\ x.key < clock
  BY <1>1, <1>2, Fields DEF Init
<1>4. \A r \in Request : InPlace(r) /\ Aimed(r) BY DEF Init, InPlace, Aimed
<1>5. AllRows = rows BY DEF AllRows, Init
<1>6. KeysExclusive BY <1>1, <1>5 DEF KeysExclusive, Init
<1>7. rows # {} => account BY DEF Init
<1>8. QED BY <1>3, <1>4, <1>6, <1>7 DEF Bookkeeping

(* A request that is answered or refused drops what it holds. *)
LEMMA FinishInv ==
  ASSUME TypeOK, Bookkeeping, KeysExclusive, NEW r \in Request, NEW status \in Status,
         Finish(r, status), pc[r] # "idle"
  PROVE  Bookkeeping' /\ KeysExclusive'
<1>1. rows' = rows /\ account' = account /\ clock' = clock BY DEF Finish, tables
<1>2. Same(r) /\ held'[r] = {} /\ pc'[r] = "done" /\ op' = op /\ missing' = missing
      /\ attempt' = attempt
  BY DEF Finish, Goto, Rollback, Same, TypeOK
<1>3. \A q \in Request : held'[q] \subseteq held[q] BY <1>2 DEF Same
<1>4. KeysExclusive' /\ AllRows' \subseteq AllRows BY <1>1, <1>3, Shrinks
<1>5. Kept BY <1>1, <1>4 DEF Kept, TypeOK
<1>6. InPlace(r)' /\ Aimed(r)' BY <1>2 DEF InPlace, Aimed, Bookkeeping
<1>7. QED BY <1>1, <1>2, <1>4, <1>5, <1>6, KeepsBooks DEF Bookkeeping

(* A step that moves r and leaves all rows alone. *)
LEMMA QuietInv ==
  ASSUME TypeOK, Bookkeeping, KeysExclusive, NEW r \in Request,
         rows' = rows, held' = held, account => account', clock' = clock, Same(r),
         InPlace(r)', Aimed(r)'
  PROVE  Bookkeeping' /\ KeysExclusive'
<1>1. KeysExclusive' /\ AllRows' \subseteq AllRows BY Shrinks
<1>2. Kept BY <1>1 DEF Kept, TypeOK
<1>3. QED BY <1>1, <1>2, KeepsBooks DEF Bookkeeping

(* A row that is loaded is the only one with its primary key. *)
LEMMA LoadInv ==
  ASSUME TypeOK, Bookkeeping, KeysExclusive, NEW r \in Request,
         NEW x \in rows \cup {NoRow}, NEW label, Load(r, x, label),
         pc[r] \notin {"idle", "resolve", "insert", "done"},
         label \in {"read", "byid", "room", "update", "rewrite", "refresh", "winner_id"},
         label \in {"update", "rewrite", "refresh"} => x \in rows,
         label \in {"byid", "room", "rewrite", "winner_id"} =>
           op[r].kind = "save" /\ Wanted(op[r]) # {},
         label \in {"update", "refresh"} => op[r].kind \in {"save", "rename"},
         label = "rewrite" \/ (label = "update" /\ op[r].kind = "rename") => x.id = It(r).id
  PROVE  Bookkeeping' /\ KeysExclusive'
<1>1. /\ rows' = rows /\ held' = held /\ account' = account /\ clock' = clock
      /\ op' = op /\ missing' = missing /\ attempt' = attempt
  BY DEF Load, tables
<1>2. Same(r) /\ pc'[r] = label /\ row'[r] = x
  BY DEF Load, Goto, tables, Same, TypeOK
<1>3. InPlace(r)' BY <1>1, <1>2 DEF InPlace, Bookkeeping
<1>4. Aimed(r)'
  <2>1. CASE label \notin {"update", "rewrite", "refresh"} BY <1>2, <2>1 DEF Aimed
  <2>2. CASE label \in {"update", "rewrite", "refresh"}
    <3>1. x \in rows /\ x \in Row /\ x.key < clock BY <2>2 DEF Bookkeeping, TypeOK
    <3>2. AllRows' = AllRows BY <1>1 DEF AllRows
    <3>3. \A y \in AllRows : y.key = x.key => y.id = x.id
      BY <3>1 DEF AllRows, KeysExclusive, Keyed
    <3>4. QED BY <1>1, <1>2, <3>1, <3>2, <3>3 DEF Aimed, It
  <2>3. QED BY <2>1, <2>2
<1>5. QED BY <1>1, <1>2, <1>3, <1>4, QuietInv

(* A row that is overwritten keeps its id and its primary key. *)
LEMMA PutInv ==
  ASSUME TypeOK, TypeOK', Bookkeeping, KeysExclusive, NEW r \in Request,
         NEW x \in rows, NEW y, Put(x, y), y.id = x.id, y.key = x.key, y.print \in ValidPrint,
         \A z \in AllRows \ {x} : z.print # y.print,
         pc[r] \in {"update", "rewrite"}, IsRow(r, x), Goto(r, "refresh"),
         UNCHANGED <<account, clock, locals, reply, outgrown>>
  PROVE  Bookkeeping' /\ KeysExclusive'
<1>1. account' = account /\ clock' = clock /\ op' = op /\ held' = held /\ row' = row
      /\ missing' = missing /\ attempt' = attempt
  BY DEF locals
<1>2. Same(r) /\ pc'[r] = "refresh" BY DEF Goto, locals, Same, TypeOK
<1>3. AllRows' \subseteq (AllRows \ {x}) \cup {y}
  <2>1. \A q \in Request : x \notin held[q] BY DEF KeysExclusive
  <2>2. QED BY <1>1, <2>1 DEF AllRows, Put
<1>4. x \in AllRows BY DEF AllRows
<1>5. Keyed(AllRows')
  <2>1. \A z \in AllRows \ {x} : z.id # x.id /\ z.key # x.key
    BY <1>4 DEF KeysExclusive, Keyed
  <2>2. \A a, b \in AllRows \ {x} : a.id = b.id \/ a.print = b.print \/ a.key = b.key => a = b
    BY DEF KeysExclusive, Keyed
  <2>3. QED BY <1>3, <2>1, <2>2 DEF Keyed
<1>6. KeysExclusive'
  <2>1. ASSUME NEW q \in Request PROVE y \notin held[q]
    BY <2>1, <1>4 DEF KeysExclusive, AllRows, Keyed
  <2>2. QED BY <1>1, <1>5, <2>1 DEF KeysExclusive, Put
<1>7. Kept BY <1>1, <1>3, <1>4 DEF Kept, TypeOK
<1>8. InPlace(r)' BY <1>1, <1>2 DEF InPlace, Bookkeeping
<1>9. Aimed(r)'
  <2>1. Aimed(r) BY DEF Bookkeeping
  <2>2. \A z \in AllRows' : z.key = row[r].key => z.id = row[r].id
    BY <1>3, <1>4, <2>1 DEF Aimed
  <2>3. QED BY <1>1, <1>2, <2>1, <2>2 DEF Aimed
<1>10. \A z \in rows' : z.print \in ValidPrint /\ z.key < clock'
  BY <1>1 DEF Put, Bookkeeping
<1>11. QED BY <1>1, <1>2, <1>6, <1>7, <1>8, <1>9, <1>10, KeepsBooks DEF Bookkeeping

(* The row an insert adds has a primary key and unique keys no row has. *)
LEMMA InsertInv ==
  ASSUME TypeOK, Bookkeeping, KeysExclusive, NEW r \in Request, InsertRow(r)
  PROVE  Bookkeeping' /\ KeysExclusive'
<1>1. PICK i \in Item :
        /\ i \in missing[r]
        /\ \A x \in AllRows : ~Clash(i, x)
        /\ held' = [held EXCEPT ![r] = held[r] \cup
             {[id |-> i.id, print |-> i.print, label |-> i.label, key |-> clock]}]
  BY DEF InsertRow, IsNext, Left
<1> DEFINE n == [id |-> i.id, print |-> i.print, label |-> i.label, key |-> clock]
<1>2. /\ clock' = clock + 1 /\ rows' = rows /\ account' = account /\ pc' = pc /\ op' = op
      /\ row' = row /\ attempt' = attempt /\ missing' = missing /\ pc[r] = "insert"
  BY DEF InsertRow
<1>3. held'[r] = held[r] \cup {n} /\ \A q \in Request \ {r} : held'[q] = held[q]
  BY <1>1 DEF TypeOK
<1>4. Same(r) BY <1>2, <1>3 DEF Same
<1>5. AllRows' = AllRows \cup {n} BY <1>2, <1>3 DEF AllRows
<1>6. \A x \in AllRows : x.key < clock /\ x.key \in Nat
  <2>1. \A x \in rows : x.key < clock /\ x.key \in Nat BY Fields DEF Bookkeeping, TypeOK
  <2>2. ASSUME NEW q \in Request, NEW x \in held[q] PROVE x.key < clock /\ x.key \in Nat
    <3>1. InPlace(q) BY DEF Bookkeeping
    <3>2. QED BY <3>1, Fields DEF InPlace, TypeOK
  <2>3. QED BY <2>1, <2>2 DEF AllRows
<1>7. n.id = i.id /\ n.print = i.print /\ n.key = clock /\ clock \in Nat BY DEF TypeOK
<1>8. \A x \in AllRows : x.id # n.id /\ x.print # n.print /\ x.key # n.key
  BY <1>1, <1>6, <1>7 DEF Clash
<1>9. Keyed(AllRows') BY <1>5, <1>8 DEF KeysExclusive, Keyed
<1>10. KeysExclusive'
  <2>1. \A q \in Request : n \notin held[q] BY <1>8 DEF AllRows
  <2>2. n \notin rows BY <1>8 DEF AllRows
  <2>3. QED BY <1>2, <1>3, <1>9, <2>1, <2>2 DEF KeysExclusive
<1>11. Kept BY <1>2, <1>5, <1>7 DEF Kept
<1>12. InPlace(r)'
  <2>1. InPlace(r) BY DEF Bookkeeping
  <2>2. Content(n) = i BY ItemAssumption DEF Content
  <2>3. \A x \in held'[r] : Content(x) \in missing'[r] /\ x.key < clock'
    <3>1. \A x \in held[r] : Content(x) \in missing[r] /\ x.key < clock + 1
      BY <1>6, <1>7, <2>1 DEF InPlace, AllRows
    <3>2. n.key < clock + 1 BY <1>7
    <3>3. QED BY <1>1, <1>2, <1>3, <2>2, <3>1, <3>2
  <2>4. QED BY <1>2, <2>1, <2>3 DEF InPlace
<1>13. Aimed(r)' BY <1>2 DEF Aimed
<1>14. \A x \in rows' : x.print \in ValidPrint /\ x.key < clock'
  BY <1>2, <1>6, <1>7 DEF Bookkeeping, AllRows
<1>15. QED BY <1>2, <1>4, <1>10, <1>11, <1>12, <1>13, <1>14, KeepsBooks DEF Bookkeeping

(* A commit moves the rows a request holds into the table. *)
LEMMA CommitInv ==
  ASSUME TypeOK, Bookkeeping, KeysExclusive, NEW r \in Request, Commit(r)
  PROVE  Bookkeeping' /\ KeysExclusive'
<1>1. /\ rows' = rows \cup held[r] /\ account' = account /\ clock' = clock /\ op' = op
      /\ attempt' = attempt /\ missing' = missing /\ pc[r] = "insert"
  BY DEF Commit
<1>2. held'[r] = {} /\ \A q \in Request \ {r} : held'[q] = held[q] BY DEF Commit, TypeOK
<1>3. InPlace(r) BY DEF Bookkeeping
<1>4. pc'[r] \in {"refresh", "read"} /\ \A q \in Request \ {r} : pc'[q] = pc[q]
  BY DEF Commit, Goto, TypeOK
<1>5. \A q \in Request \ {r} : row'[q] = row[q] BY DEF Commit, TypeOK
<1>6. Same(r) BY <1>1, <1>2, <1>4, <1>5 DEF Same
<1>7. AllRows' \subseteq AllRows BY <1>1, <1>2 DEF AllRows
<1>8. KeysExclusive'
  <2>1. Keyed(AllRows') BY <1>7 DEF KeysExclusive, Keyed
  <2>2. \A q \in Request : held'[q] \cap rows' = {} BY <1>1, <1>2 DEF KeysExclusive
  <2>3. \A q \in Request : \A z \in Request \ {q} : held'[q] \cap held'[z] = {}
    BY <1>2 DEF KeysExclusive
  <2>4. QED BY <2>1, <2>2, <2>3 DEF KeysExclusive
<1>9. Kept BY <1>1, <1>7 DEF Kept, TypeOK
<1>10. account BY <1>1, <1>3 DEF InPlace
<1>11. \A x \in rows' : x.print \in ValidPrint /\ x.key < clock'
  <2>1. \A i \in missing[r] : i.print \in ValidPrint BY <1>3, OpType DEF InPlace, TypeOK
  <2>2. \A x \in held[r] : Content(x).print = x.print BY DEF Content
  <2>3. \A x \in held[r] : x.print \in ValidPrint /\ x.key < clock
    BY <1>3, <2>1, <2>2 DEF InPlace
  <2>4. QED BY <1>1, <2>3 DEF Bookkeeping
<1>12. op[r].kind = "save" => pc'[r] = "refresh" /\ \E x \in held[r] : row'[r] = x
  BY DEF Commit, Goto, TypeOK
<1>13. op[r].kind # "save" => pc'[r] = "read" BY DEF Commit, Goto, TypeOK
<1>14. InPlace(r)' BY <1>1, <1>2, <1>3, <1>4, <1>10, <1>13 DEF InPlace
<1>15. Aimed(r)'
  <2>1. CASE op[r].kind # "save" BY <1>13, <2>1 DEF Aimed
  <2>2. CASE op[r].kind = "save"
    <3>1. PICK x \in held[r] : row'[r] = x BY <1>12, <2>2
    <3>2. x \in Row /\ x.key < clock /\ x \in AllRows
      BY <1>3 DEF InPlace, AllRows, TypeOK
    <3>3. \A y \in AllRows' : y.key = x.key => y.id = x.id
      BY <1>7, <3>2 DEF KeysExclusive, Keyed
    <3>4. QED BY <1>1, <1>12, <2>2, <3>1, <3>2, <3>3 DEF Aimed
  <2>3. QED BY <2>1, <2>2
<1>16. QED BY <1>1, <1>6, <1>8, <1>9, <1>10, <1>11, <1>14, <1>15, KeepsBooks

LEMMA StepInv ==
  ASSUME TypeOK, TypeOK', Bookkeeping, KeysExclusive, [Next]_vars
  PROVE  Bookkeeping' /\ KeysExclusive'
<1>a. ASSUME NEW r \in Request PROVE InPlace(r) /\ Aimed(r) BY DEF Bookkeeping
<1>b. ASSUME NEW r \in Request, op[r].kind = "save", Wanted(op[r]) # {}
      PROVE  It(r) \in Wanted(op[r]) /\ It(r).print \in ValidPrint
  BY <1>b, OpType DEF It, TypeOK
<1>1. CASE UNCHANGED vars
  <2>1. AllRows' = AllRows BY <1>1 DEF vars, AllRows
  <2>2. \A r \in Request : InPlace(r)' /\ Aimed(r)'
    BY <1>1, <1>a, <2>1 DEF vars, InPlace, Aimed, It
  <2>3. QED BY <1>1, <2>1, <2>2 DEF vars, Bookkeeping, KeysExclusive
<1>2. ASSUME NEW r \in Request, Receive(r) PROVE Bookkeeping' /\ KeysExclusive'
  <2>1. Same(r) /\ pc'[r] = "resolve" BY <1>2 DEF Receive, Goto, Same, TypeOK
  <2>2. rows' = rows /\ held' = held /\ account' = account /\ clock' = clock
        /\ missing' = missing /\ attempt' = attempt /\ pc[r] = "idle"
    BY <1>2 DEF Receive, tables
  <2>3. missing[r] = {} /\ held[r] = {} /\ attempt[r] = 0 BY <1>a, <2>2 DEF InPlace
  <2>4. InPlace(r)' /\ Aimed(r)' BY <2>1, <2>2, <2>3 DEF InPlace, Aimed
  <2>5. QED BY <2>1, <2>2, <2>4, QuietInv
<1>3. ASSUME NEW r \in Request, Resolve(r) PROVE Bookkeeping' /\ KeysExclusive'
  <2>1. PICK label \in {"check", "find", "delete", "survey", "read"} :
          /\ Goto(r, label)
          /\ label = "check" => op[r].kind = "save"
          /\ label = "find" => op[r].kind = "rename"
          /\ label = "delete" => op[r].kind = "remove"
          /\ label = "survey" => op[r].kind = "merge"
          /\ label = "read" => op[r].kind = "list"
    BY <1>3, BeginLabel DEF Resolve
  <2>2. rows' = rows /\ held' = held /\ account' /\ clock' = clock /\ op' = op /\ row' = row
        /\ missing' = missing /\ attempt' = attempt /\ pc[r] = "resolve"
    BY <1>3 DEF Resolve, locals
  <2>3. Same(r) /\ pc'[r] = label BY <2>1, <2>2 DEF Goto, Same, TypeOK
  <2>4. InPlace(r)' /\ Aimed(r)' BY <1>a, <2>1, <2>2, <2>3 DEF InPlace, Aimed
  <2>5. QED BY <2>2, <2>3, <2>4, QuietInv
<1>4. ASSUME NEW r \in Request,
             ResolveNothing(r) \/ SaveInvalid(r) \/ SaveFull(r) \/ RewriteClash(r) \/ RowGone(r)
                \/ RenameUnknown(r) \/ MergeFull(r) \/ WinnerGone(r) \/ ReadBack(r)
                \/ BreakDeadlock(r) \/ Abort(r)
      PROVE  Bookkeeping' /\ KeysExclusive'
  <2>1. PICK status \in Status : Finish(r, status)
    BY <1>4 DEF ResolveNothing, SaveInvalid, SaveFull, RewriteClash, RowGone, RenameUnknown,
         MergeFull, WinnerGone, ReadBack, BreakDeadlock, Abort
  <2>2. pc[r] # "idle"
    <3>1. CASE BreakDeadlock(r) BY <3>1 DEF BreakDeadlock, WaitsFor
    <3>2. CASE ~BreakDeadlock(r)
      BY <1>4, <3>2 DEF ResolveNothing, SaveInvalid, SaveFull, RewriteClash, RowGone,
         RenameUnknown, MergeFull, WinnerGone, ReadBack, Abort
    <3>3. QED BY <3>1, <3>2
  <2>3. QED BY <2>1, <2>2, FinishInv
<1>5. ASSUME NEW r \in Request, SaveByPrint(r) PROVE Bookkeeping' /\ KeysExclusive'
  <2>1. pc[r] = "check" /\ Wanted(op[r]) # {} /\ op[r].kind = "save"
    BY <1>5, <1>a DEF SaveByPrint, InPlace
  <2>2. CASE \E x \in rows : Load(r, x, "read")
    <3>1. PICK x \in rows : Load(r, x, "read") BY <2>2
    <3>2. QED BY <2>1, <3>1, LoadInv
  <2>3. CASE \E x \in rows : Load(r, x, "update")
    <3>1. PICK x \in rows : Load(r, x, "update") BY <2>3
    <3>2. QED BY <2>1, <3>1, LoadInv
  <2>4. CASE Load(r, NoRow, "byid") BY <2>1, <2>4, LoadInv
  <2>5. QED BY <1>5, <2>2, <2>3, <2>4 DEF SaveByPrint
<1>6. ASSUME NEW r \in Request, SaveById(r) PROVE Bookkeeping' /\ KeysExclusive'
  <2>1. pc[r] = "byid" /\ Wanted(op[r]) # {} /\ op[r].kind = "save"
    BY <1>6, <1>a DEF SaveById, InPlace
  <2>2. CASE \E x \in rows : x.id = It(r).id /\ Load(r, x, "rewrite")
    <3>1. PICK x \in rows : x.id = It(r).id /\ Load(r, x, "rewrite") BY <2>2
    <3>2. QED BY <2>1, <3>1, LoadInv
  <2>3. CASE Load(r, NoRow, "room") BY <2>1, <2>3, LoadInv
  <2>4. QED BY <1>6, <2>2, <2>3 DEF SaveById
<1>7. ASSUME NEW r \in Request, Refresh(r) PROVE Bookkeeping' /\ KeysExclusive'
  <2>1. PICK x \in rows : Load(r, x, "read") BY <1>7 DEF Refresh
  <2>2. pc[r] = "refresh" BY <1>7 DEF Refresh
  <2>3. QED BY <2>1, <2>2, LoadInv
<1>8. ASSUME NEW r \in Request, RenameFind(r) PROVE Bookkeeping' /\ KeysExclusive'
  <2>1. pc[r] = "find" /\ op[r].kind = "rename" BY <1>8, <1>a DEF RenameFind, InPlace
  <2>2. CASE \E x \in rows : Load(r, x, "read")
    <3>1. PICK x \in rows : Load(r, x, "read") BY <2>2
    <3>2. QED BY <2>1, <3>1, LoadInv
  <2>3. CASE \E x \in rows : x.id = It(r).id /\ Load(r, x, "update")
    <3>1. PICK x \in rows : x.id = It(r).id /\ Load(r, x, "update") BY <2>3
    <3>2. QED BY <2>1, <3>1, LoadInv
  <2>4. QED BY <1>8, <2>2, <2>3 DEF RenameFind
<1>9. ASSUME NEW r \in Request, WinnerByPrint(r) PROVE Bookkeeping' /\ KeysExclusive'
  <2>1. pc[r] = "winner" /\ Wanted(op[r]) # {} /\ op[r].kind = "save"
    BY <1>9, <1>a DEF WinnerByPrint, InPlace
  <2>2. CASE \E x \in rows : Load(r, x, "read")
    <3>1. PICK x \in rows : Load(r, x, "read") BY <2>2
    <3>2. QED BY <2>1, <3>1, LoadInv
  <2>3. CASE Load(r, NoRow, "winner_id") BY <2>1, <2>3, LoadInv
  <2>4. QED BY <1>9, <2>2, <2>3 DEF WinnerByPrint
<1>10. ASSUME NEW r \in Request, WinnerById(r) PROVE Bookkeeping' /\ KeysExclusive'
  <2>1. PICK x \in rows : Load(r, x, "read") BY <1>10 DEF WinnerById
  <2>2. pc[r] = "winner_id" BY <1>10 DEF WinnerById
  <2>3. QED BY <2>1, <2>2, LoadInv
<1>11. ASSUME NEW r \in Request, SaveRoom(r) PROVE Bookkeeping' /\ KeysExclusive'
  <2>1. /\ rows' = rows /\ held' = held /\ account' = account /\ clock' = clock /\ op' = op
        /\ row' = row /\ attempt' = attempt /\ pc[r] = "room"
    BY <1>11 DEF SaveRoom, tables
  <2>2. Same(r) /\ pc'[r] = "insert" /\ missing'[r] = {It(r)}
    BY <1>11 DEF SaveRoom, tables, Goto, Same, TypeOK
  <2>3. op[r].kind = "save" /\ held[r] = {} /\ It(r) \in Wanted(op[r]) /\ account
    BY <1>a, <1>b, <2>1 DEF InPlace
  <2>4. attempt[r] = 0 /\ 0 < MaxAttempts
    BY <1>a, <2>3, LimitsAssumption DEF InPlace
  <2>5. InPlace(r)' /\ Aimed(r)' BY <2>1, <2>2, <2>3, <2>4 DEF InPlace, Aimed
  <2>6. QED BY <2>1, <2>2, <2>5, QuietInv
<1>12. ASSUME NEW r \in Request, MergeSurvey(r) PROVE Bookkeeping' /\ KeysExclusive'
  <2>1. /\ rows' = rows /\ held' = held /\ account' = account /\ clock' = clock /\ op' = op
        /\ row' = row /\ attempt' = attempt /\ missing' = missing /\ pc[r] = "survey"
    BY <1>12 DEF MergeSurvey, tables
  <2>2. Same(r) /\ pc'[r] = "attempt" BY <1>12, <2>1 DEF MergeSurvey, Goto, Same, TypeOK
  <2>3. attempt[r] = 0 /\ 0 < MaxAttempts BY <1>a, <2>1, LimitsAssumption DEF InPlace
  <2>4. InPlace(r)' /\ Aimed(r)' BY <1>a, <2>1, <2>2, <2>3 DEF InPlace, Aimed
  <2>5. QED BY <2>1, <2>2, <2>4, QuietInv
<1>13. ASSUME NEW r \in Request, MergeAttempt(r) PROVE Bookkeeping' /\ KeysExclusive'
  <2>1. /\ rows' = rows /\ held' = held /\ account' = account /\ clock' = clock /\ op' = op
        /\ row' = row /\ attempt' = attempt /\ pc[r] = "attempt"
    BY <1>13 DEF MergeAttempt, tables
  <2>2. Same(r) /\ missing'[r] \subseteq Wanted(op[r])
    BY <1>13, <2>1 DEF MergeAttempt, Added, Goto, Same, TypeOK
  <2>3. pc'[r] = "read" \/ (pc'[r] = "insert" /\ missing'[r] # {})
    BY <1>13 DEF MergeAttempt, Goto, TypeOK
  <2>4. held[r] = {} /\ op[r].kind = "merge" BY <1>a, <2>1 DEF InPlace
  <2>5. InPlace(r)' /\ Aimed(r)'
    BY <1>a, <2>1, <2>2, <2>3, <2>4 DEF InPlace, Aimed
  <2>6. QED BY <2>1, <2>2, <2>5, QuietInv
<1>14. ASSUME NEW r \in Request, UpdateLabel(r) PROVE Bookkeeping' /\ KeysExclusive'
  <2>1. PICK x \in rows : IsRow(r, x) /\ Put(x, [x EXCEPT !.label = It(r).label])
    BY <1>14 DEF UpdateLabel
  <2> DEFINE y == [x EXCEPT !.label = It(r).label]
  <2>2. y.id = x.id /\ y.key = x.key /\ y.print = x.print BY <2>1 DEF TypeOK, Row
  <2>3. y.print \in ValidPrint BY <2>1, <2>2 DEF Bookkeeping
  <2>4. \A z \in AllRows \ {x} : z.print # y.print
    BY <2>1, <2>2 DEF KeysExclusive, Keyed, AllRows
  <2>5. /\ pc[r] \in {"update", "rewrite"} /\ Goto(r, "refresh")
        /\ UNCHANGED <<account, clock, locals, reply, outgrown>>
    BY <1>14 DEF UpdateLabel
  <2> HIDE DEF y
  <2>6. QED BY <2>1, <2>2, <2>3, <2>4, <2>5, PutInv DEF y
<1>15. ASSUME NEW r \in Request, Rewrite(r) PROVE Bookkeeping' /\ KeysExclusive'
  <2> DEFINE New(x) ==
        [x EXCEPT !.label = IF It(r).label = row[r].label THEN @ ELSE It(r).label,
                  !.print = IF It(r).print = row[r].print THEN @ ELSE It(r).print]
  <2>1. PICK x \in rows :
          /\ IsRow(r, x)
          /\ \A z \in rows \ {x} : z.print # New(x).print
          /\ \A q \in Request : \A z \in held[q] : z.print # New(x).print
          /\ Put(x, New(x))
    BY <1>15 DEF Rewrite
  <2>2. /\ New(x).id = x.id /\ New(x).key = x.key
        /\ New(x).print = x.print \/ New(x).print = It(r).print
    BY <2>1 DEF TypeOK, Row
  <2>3. /\ pc[r] \in {"update", "rewrite"} /\ Goto(r, "refresh") /\ pc[r] = "rewrite"
        /\ UNCHANGED <<account, clock, locals, reply, outgrown>>
    BY <1>15 DEF Rewrite
  <2>4. New(x).print \in ValidPrint
    <3>1. It(r).print \in ValidPrint BY <1>a, <1>b, <2>3 DEF InPlace
    <3>2. x.print \in ValidPrint BY DEF Bookkeeping
    <3>3. QED BY <2>2, <3>1, <3>2
  <2>5. \A z \in AllRows \ {x} : z.print # New(x).print BY <2>1 DEF AllRows
  <2> HIDE DEF New
  <2>6. QED BY <2>1, <2>2, <2>3, <2>4, <2>5, PutInv
<1>16. ASSUME NEW r \in Request, Delete(r) PROVE Bookkeeping' /\ KeysExclusive'
  <2>1. /\ rows' \subseteq rows /\ held' = held /\ account' = account /\ clock' = clock
        /\ op' = op /\ row' = row /\ attempt' = attempt /\ missing' = missing
        /\ pc[r] = "delete"
    BY <1>16 DEF Delete, locals
  <2>2. Same(r) /\ pc'[r] = "read" BY <1>16, <2>1 DEF Delete, Goto, Same, TypeOK
  <2>3. KeysExclusive' /\ AllRows' \subseteq AllRows BY <2>1, Shrinks
  <2>4. Kept BY <2>1, <2>3 DEF Kept, TypeOK
  <2>5. InPlace(r)' /\ Aimed(r)' BY <1>a, <2>1, <2>2 DEF InPlace, Aimed
  <2>6. QED BY <2>1, <2>2, <2>3, <2>4, <2>5, KeepsBooks DEF Bookkeeping
<1>17. ASSUME NEW r \in Request, InsertRow(r) PROVE Bookkeeping' /\ KeysExclusive'
  BY <1>17, InsertInv
<1>18. ASSUME NEW r \in Request, SaveConflict(r) PROVE Bookkeeping' /\ KeysExclusive'
  <2>1. /\ rows' = rows /\ account' = account /\ clock' = clock /\ op' = op /\ row' = row
        /\ attempt' = attempt /\ missing' = missing /\ pc[r] = "insert" /\ op[r].kind = "save"
    BY <1>18 DEF SaveConflict, Violates, tables
  <2>2. Same(r) /\ held'[r] = {} /\ pc'[r] = "winner"
    BY <1>18, <2>1 DEF SaveConflict, Rollback, Goto, Same, TypeOK
  <2>3. \A q \in Request : held'[q] \subseteq held[q] BY <2>2 DEF Same
  <2>4. KeysExclusive' /\ AllRows' \subseteq AllRows BY <2>1, <2>3, Shrinks
  <2>5. Kept BY <2>1, <2>4 DEF Kept, TypeOK
  <2>6. Wanted(op[r]) # {} BY <1>a, <2>1 DEF InPlace
  <2>7. InPlace(r)' /\ Aimed(r)' BY <1>a, <2>1, <2>2, <2>6 DEF InPlace, Aimed
  <2>8. QED BY <2>1, <2>2, <2>4, <2>5, <2>7, KeepsBooks DEF Bookkeeping
<1>19. ASSUME NEW r \in Request, MergeConflict(r) PROVE Bookkeeping' /\ KeysExclusive'
  <2>1. /\ rows' = rows /\ account' = account /\ clock' = clock /\ op' = op /\ row' = row
        /\ missing' = missing /\ pc[r] = "insert" /\ op[r].kind = "merge"
    BY <1>19 DEF MergeConflict, Violates, tables
  <2>2. /\ Same(r) /\ held'[r] = {} /\ attempt'[r] = attempt[r] + 1
        /\ pc'[r] = "read" \/ (pc'[r] = "attempt" /\ attempt'[r] < MaxAttempts)
    BY <1>19, <2>1 DEF MergeConflict, Rollback, Goto, Same, TypeOK
  <2>3. \A q \in Request : held'[q] \subseteq held[q] BY <2>2 DEF Same
  <2>4. KeysExclusive' /\ AllRows' \subseteq AllRows BY <2>1, <2>3, Shrinks
  <2>5. Kept BY <2>1, <2>4 DEF Kept, TypeOK
  <2>6. InPlace(r)' /\ Aimed(r)' BY <1>a, <2>1, <2>2 DEF InPlace, Aimed
  <2>7. QED BY <2>1, <2>2, <2>4, <2>5, <2>6, KeepsBooks DEF Bookkeeping
<1>20. ASSUME NEW r \in Request, Commit(r) PROVE Bookkeeping' /\ KeysExclusive'
  BY <1>20, CommitInv
<1>21. QED
  BY <1>1, <1>2, <1>3, <1>4, <1>5, <1>6, <1>7, <1>8, <1>9, <1>10, <1>11, <1>12, <1>13, <1>14,
     <1>15, <1>16, <1>17, <1>18, <1>19, <1>20
  DEF Next, Step

-----------------------------------------------------------------------------
(* Theorems.                                                               *)

(* In every behaviour of the saved-work handlers of one collection, every
   request is in its place, what is stored is valid and owned by an account
   row, and the keys are exclusive: the inductive invariant. *)
THEOREM InvCorrect == Spec => []IInv
<1>1. Init => IInv BY InitType, InitInv DEF IInv
<1>2. IInv /\ [Next]_vars => IInv' BY StepType, StepInv DEF IInv
<1>3. QED BY <1>1, <1>2, PTL DEF Spec

(* Type correctness of SavedWorkStore. *)
THEOREM TypeCorrect == Spec => []TypeOK
<1>1. IInv => TypeOK BY DEF IInv
<1>2. QED BY <1>1, InvCorrect, PTL

(* Every request stays in its place and writes only the row it loaded. *)
THEOREM BookkeepingCorrect == Spec => []Bookkeeping
<1>1. IInv => Bookkeeping BY DEF IInv
<1>2. QED BY <1>1, InvCorrect, PTL

(* However many requests race, committed and uncommitted rows never share a
   client id, a fingerprint or a place in the list. *)
THEOREM KeysExclusiveCorrect == Spec => []KeysExclusive
<1>1. IInv => KeysExclusive BY DEF IInv
<1>2. QED BY <1>1, InvCorrect, PTL

-----------------------------------------------------------------------------
(* The limit.                                                              *)

(* What a request that is about to insert has counted: the rows, and what it
   adds to them. *)
Room(r) ==
  /\ pc[r] = "insert" /\ op[r].kind = "save" =>
       missing[r] = {It(r)} /\ count[r] + 1 <= MaxItems
  /\ pc[r] \in {"attempt", "insert"} /\ op[r].kind = "merge" =>
       count[r] + Cardinality(Added(r)) <= MaxItems
  /\ pc[r] = "insert" /\ op[r].kind = "merge" => missing[r] \subseteq Added(r)

LInv == LimitUnlessOutgrown /\ \A r \in Request : Room(r)

(* A step of r leaves the count of the other requests alone. *)
SameRoom(r) ==
  \A q \in Request \ {r} :
    /\ pc'[q] = pc[q] /\ op'[q] = op[q] /\ count'[q] = count[q]
    /\ before'[q] = before[q] /\ missing'[q] = missing[q]

(* The items of a request are finitely many. *)
LEMMA WantedFinite ==
  ASSUME NEW o \in Op
  PROVE  IsFiniteSet(Wanted(o))
<1>1. CASE o.kind \notin {"save", "merge"} BY <1>1, FS_EmptySet DEF Wanted
<1>2. CASE o.kind \in {"save", "merge"}
  <2> DEFINE D == {n \in 1..Len(o.items) :
                     /\ o.items[n].print \in ValidPrint
                     /\ \A j \in 1..(n - 1) : o.items[j].print # o.items[n].print}
             f == [k \in D |-> o.items[k]]
  <2>1. Len(o.items) \in Nat BY OpType
  <2>2. IsFiniteSet(1..Len(o.items)) BY <2>1, FS_Interval
  <2>3. IsFiniteSet(D)
    <3>1. D \in SUBSET (1..Len(o.items)) OBVIOUS
    <3>2. QED BY <2>2, <3>1, FS_Subset
  <2>4. Wanted(o) = {o.items[k] : k \in D} BY <1>2 DEF Wanted
  <2>5. f \in Surjection(D, Wanted(o)) BY <2>4 DEF Surjection
  <2> HIDE DEF D, f
  <2>6. QED BY <2>3, <2>5, FS_Surjection
<1>3. QED BY <1>1, <1>2

LEMMA AddedFinite ==
  ASSUME TypeOK, NEW r \in Request
  PROVE  IsFiniteSet(Added(r)) /\ Cardinality(Added(r)) \in Nat
<1>1. IsFiniteSet(Wanted(op[r])) BY WantedFinite DEF TypeOK
<1>2. Added(r) \in SUBSET Wanted(op[r]) BY DEF Added
<1>3. IsFiniteSet(Added(r)) BY <1>1, <1>2, FS_Subset
<1>4. QED BY <1>3, FS_CardinalityType

(* A request holds at most one row for each item it found missing. *)
LEMMA HeldAtMostMissing ==
  ASSUME TypeOK, Bookkeeping, KeysExclusive, NEW r \in Request, IsFiniteSet(missing[r])
  PROVE  Cardinality(held[r]) <= Cardinality(missing[r])
<1> DEFINE f == [x \in held[r] |-> Content(x)]
<1>1. \A x \in held[r] : Content(x) \in missing[r] BY DEF Bookkeeping, InPlace
<1>2. ASSUME NEW x \in held[r], NEW y \in held[r], Content(x) = Content(y) PROVE x = y
  <2>1. x.id = y.id BY <1>2 DEF Content
  <2>2. x \in AllRows /\ y \in AllRows BY DEF AllRows
  <2>3. QED BY <2>1, <2>2 DEF KeysExclusive, Keyed
<1>3. f \in Injection(held[r], missing[r])
  <2>1. f \in [held[r] -> missing[r]] BY <1>1
  <2>2. \A x, y \in held[r] : f[x] = f[y] => x = y BY <1>2
  <2>3. QED BY <2>1, <2>2 DEF Injection, IsInjective
<1> HIDE DEF f
<1>4. QED BY <1>3, FS_Injection

(* A step that lets no row in keeps the limit. *)
LEMMA LimitKept ==
  ASSUME TypeOK, LInv, NEW r \in Request, SameRoom(r), Room(r)', outgrown' = outgrown,
         IsFiniteSet(rows'), Cardinality(rows') <= Cardinality(rows)
  PROVE  LInv'
<1>1. Cardinality(rows) \in Nat /\ Cardinality(rows') \in Nat
  BY FS_CardinalityType DEF TypeOK
<1>2. LimitUnlessOutgrown' BY <1>1, LimitsAssumption DEF LInv, LimitUnlessOutgrown
<1>3. ASSUME NEW q \in Request \ {r} PROVE Room(q)'
  <2>1. Room(q) BY DEF LInv
  <2>2. Added(q)' = Added(q) /\ It(q)' = It(q) BY DEF SameRoom, Added, It
  <2>3. QED BY <2>1, <2>2 DEF Room, SameRoom
<1>4. QED BY <1>2, <1>3 DEF LInv

(* A step after which r is not about to insert. *)
LEMMA LimitIdle ==
  ASSUME TypeOK, LInv, NEW r \in Request, SameRoom(r), pc'[r] \notin {"attempt", "insert"},
         outgrown' = outgrown, IsFiniteSet(rows'), Cardinality(rows') <= Cardinality(rows)
  PROVE  LInv'
BY LimitKept DEF Room

LEMMA PutLimit ==
  ASSUME TypeOK, NEW x \in rows, NEW y, Put(x, y)
  PROVE  IsFiniteSet(rows') /\ Cardinality(rows') <= Cardinality(rows)
<1>1. IsFiniteSet(rows \ {x}) /\ Cardinality(rows \ {x}) = Cardinality(rows) - 1
  BY FS_RemoveElement DEF TypeOK
<1>2. /\ IsFiniteSet(rows')
      /\ Cardinality(rows') = IF y \in rows \ {x} THEN Cardinality(rows \ {x})
                                                ELSE Cardinality(rows \ {x}) + 1
  BY <1>1, FS_AddElement DEF Put
<1>3. Cardinality(rows) \in Nat BY FS_CardinalityType DEF TypeOK
<1>4. QED BY <1>1, <1>2, <1>3

LEMMA FinishLimit ==
  ASSUME TypeOK, LInv, NEW r \in Request, NEW status, Finish(r, status)
  PROVE  LInv'
<1>1. /\ rows' = rows /\ outgrown' = outgrown /\ SameRoom(r) /\ pc'[r] = "done"
  BY DEF Finish, tables, Goto, SameRoom, TypeOK
<1>2. IsFiniteSet(rows') /\ Cardinality(rows') <= Cardinality(rows)
  BY <1>1, FS_CardinalityType DEF TypeOK
<1>3. QED BY <1>1, <1>2, LimitIdle

LEMMA LoadLimit ==
  ASSUME TypeOK, LInv, NEW r \in Request, NEW x, NEW label, Load(r, x, label),
         label \notin {"attempt", "insert"}
  PROVE  LInv'
<1>1. /\ rows' = rows /\ outgrown' = outgrown /\ SameRoom(r) /\ pc'[r] = label
  BY DEF Load, tables, Goto, SameRoom, TypeOK
<1>2. IsFiniteSet(rows') /\ Cardinality(rows') <= Cardinality(rows)
  BY <1>1, FS_CardinalityType DEF TypeOK
<1>3. QED BY <1>1, <1>2, LimitIdle

(* The count of a request is that of the rows, unless the list has grown, and
   what it inserts was in its count. *)
LEMMA CommitLimit ==
  ASSUME TypeOK, Bookkeeping, KeysExclusive, LInv, NEW r \in Request, Commit(r)
  PROVE  LInv'
<1>1. /\ rows' = rows \cup held[r] /\ pc[r] = "insert"
      /\ op' = op /\ before' = before /\ count' = count /\ missing' = missing
  BY DEF Commit
<1>2. pc'[r] \in {"refresh", "read"} /\ SameRoom(r)
  BY <1>1 DEF Commit, Goto, SameRoom, TypeOK
<1>3. outgrown' <=> outgrown \/ Cardinality(rows) > count[r] BY Zenon DEF Commit
<1>4. op[r].kind \in {"save", "merge"} BY <1>1 DEF Bookkeeping, InPlace
<1>5. Room(r) BY DEF LInv
<1>6. IsFiniteSet(missing[r]) /\ count[r] + Cardinality(missing[r]) <= MaxItems
  <2>1. CASE op[r].kind = "save"
    <3>1. missing[r] = {It(r)} /\ count[r] + 1 <= MaxItems BY <1>1, <1>5, <2>1 DEF Room
    <3>2. QED BY <3>1, FS_Singleton
  <2>2. CASE op[r].kind = "merge"
    <3>1. missing[r] \in SUBSET Added(r) /\ count[r] + Cardinality(Added(r)) <= MaxItems
      BY <1>1, <1>5, <2>2 DEF Room
    <3>2. /\ IsFiniteSet(missing[r])
          /\ Cardinality(missing[r]) <= Cardinality(Added(r))
      BY <3>1, AddedFinite, FS_Subset
    <3>3. /\ Cardinality(missing[r]) \in Nat /\ Cardinality(Added(r)) \in Nat
          /\ count[r] \in Nat
      BY <3>2, AddedFinite, FS_CardinalityType DEF TypeOK
    <3>4. QED BY <3>1, <3>2, <3>3, LimitsAssumption
  <2>3. QED BY <1>4, <2>1, <2>2
<1>7. Cardinality(rows') <= Cardinality(rows) + Cardinality(missing[r])
  <2>1. IsFiniteSet(rows) /\ IsFiniteSet(held[r]) BY DEF TypeOK
  <2>2. Cardinality(rows') = Cardinality(rows) + Cardinality(held[r])
                               - Cardinality(rows \cap held[r])
    BY <1>1, <2>1, FS_Union
  <2>3. Cardinality(held[r]) <= Cardinality(missing[r]) BY <1>6, HeldAtMostMissing
  <2>4. IsFiniteSet(rows \cap held[r]) BY <2>1, FS_Intersection
  <2>5. /\ Cardinality(rows) \in Nat /\ Cardinality(held[r]) \in Nat
        /\ Cardinality(missing[r]) \in Nat /\ Cardinality(rows \cap held[r]) \in Nat
    BY <1>6, <2>1, <2>4, FS_CardinalityType
  <2>6. QED BY <2>2, <2>3, <2>5
<1>8. LimitUnlessOutgrown'
  <2> SUFFICES ASSUME ~outgrown' PROVE Cardinality(rows') <= MaxItems
    BY DEF LimitUnlessOutgrown
  <2>1. ~(Cardinality(rows) > count[r]) BY <1>3
  <2>2. /\ Cardinality(rows) \in Nat /\ Cardinality(missing[r]) \in Nat /\ count[r] \in Nat
        /\ IsFiniteSet(rows')
    BY <1>1, <1>6, FS_CardinalityType, FS_Union DEF TypeOK
  <2>3. Cardinality(rows') \in Nat BY <2>2, FS_CardinalityType
  <2>4. QED BY <1>6, <1>7, <2>1, <2>2, <2>3, LimitsAssumption
<1>9. ASSUME NEW q \in Request PROVE Room(q)'
  <2>1. CASE q = r BY <1>2, <2>1 DEF Room
  <2>2. CASE q # r
    <3>1. Room(q) BY DEF LInv
    <3>2. Added(q)' = Added(q) /\ It(q)' = It(q) BY <1>1 DEF Added, It
    <3>3. QED BY <1>2, <2>2, <3>1, <3>2 DEF Room, SameRoom
  <2>3. QED BY <2>1, <2>2
<1>10. QED BY <1>8, <1>9 DEF LInv

LEMMA StepLimit ==
  ASSUME IInv, TypeOK', LInv, [Next]_vars
  PROVE  LInv'
<1>a. TypeOK /\ Bookkeeping /\ KeysExclusive BY DEF IInv
<1>b. IsFiniteSet(rows) /\ Cardinality(rows) \in Nat BY <1>a, FS_CardinalityType DEF TypeOK
<1>1. CASE UNCHANGED vars
  <2>1. \A r \in Request : Added(r)' = Added(r) /\ It(r)' = It(r) BY <1>1 DEF vars, Added, It
  <2>2. QED BY <1>1, <2>1 DEF vars, LInv, LimitUnlessOutgrown, Room
<1>2. ASSUME NEW r \in Request, Receive(r) PROVE LInv'
  <2>1. rows' = rows /\ outgrown' = outgrown /\ SameRoom(r) /\ pc'[r] = "resolve"
    BY <1>2, <1>a DEF Receive, tables, Goto, SameRoom, TypeOK
  <2>2. QED BY <1>a, <1>b, <2>1, LimitIdle
<1>3. ASSUME NEW r \in Request, Resolve(r) PROVE LInv'
  <2>1. PICK label \in {"check", "find", "delete", "survey", "read"} : Goto(r, label)
    BY <1>3, <1>a, BeginLabel DEF Resolve
  <2>2. rows' = rows /\ outgrown' = outgrown /\ SameRoom(r) /\ pc'[r] = label
    BY <1>3, <1>a, <2>1 DEF Resolve, locals, Goto, SameRoom, TypeOK
  <2>3. QED BY <1>a, <1>b, <2>2, LimitIdle
<1>4. ASSUME NEW r \in Request,
             ResolveNothing(r) \/ SaveInvalid(r) \/ SaveFull(r) \/ RewriteClash(r) \/ RowGone(r)
                \/ RenameUnknown(r) \/ MergeFull(r) \/ WinnerGone(r) \/ ReadBack(r)
                \/ BreakDeadlock(r) \/ Abort(r)
      PROVE  LInv'
  <2>1. PICK status : Finish(r, status)
    BY <1>4 DEF ResolveNothing, SaveInvalid, SaveFull, RewriteClash, RowGone, RenameUnknown,
         MergeFull, WinnerGone, ReadBack, BreakDeadlock, Abort
  <2>2. QED BY <1>a, <2>1, FinishLimit
<1>5. ASSUME NEW r \in Request,
             SaveByPrint(r) \/ SaveById(r) \/ Refresh(r) \/ RenameFind(r) \/ WinnerByPrint(r)
                \/ WinnerById(r)
      PROVE  LInv'
  <2>1. PICK x, label : Load(r, x, label) /\ label \notin {"attempt", "insert"}
    <3>1. \E x : \E label \in {"read", "update", "rewrite", "byid", "room", "winner_id"} :
            Load(r, x, label)
      BY <1>5 DEF SaveByPrint, SaveById, Refresh, RenameFind, WinnerByPrint, WinnerById
    <3>2. QED BY <3>1
  <2>2. QED BY <1>a, <2>1, LoadLimit
<1>6. ASSUME NEW r \in Request, SaveRoom(r) PROVE LInv'
  <2>1. /\ rows' = rows /\ outgrown' = outgrown /\ op' = op /\ SameRoom(r)
        /\ missing'[r] = {It(r)} /\ count'[r] = Cardinality(rows)
        /\ ~Full(Cardinality(rows)) /\ pc[r] = "room"
    BY <1>6, <1>a DEF SaveRoom, tables, Goto, SameRoom, TypeOK
  <2>2. op[r].kind = "save" BY <1>a, <2>1 DEF Bookkeeping, InPlace
  <2>3. count'[r] + 1 <= MaxItems BY <1>b, <2>1, LimitsAssumption DEF Full
  <2>4. Room(r)' BY <2>1, <2>2, <2>3 DEF Room, It
  <2>5. QED BY <1>a, <1>b, <2>1, <2>4, LimitKept
<1>7. ASSUME NEW r \in Request, UpdateLabel(r) \/ Rewrite(r) PROVE LInv'
  <2>1. PICK x \in rows : \E y : Put(x, y) BY <1>7 DEF UpdateLabel, Rewrite
  <2>2. outgrown' = outgrown /\ SameRoom(r) /\ pc'[r] = "refresh"
    <3>1. CASE UpdateLabel(r) BY <3>1, <1>a DEF UpdateLabel, locals, Goto, SameRoom, TypeOK
    <3>2. CASE Rewrite(r) BY <3>2, <1>a DEF Rewrite, locals, Goto, SameRoom, TypeOK
    <3>3. QED BY <1>7, <3>1, <3>2
  <2>3. QED BY <1>a, <2>1, <2>2, PutLimit, LimitIdle
<1>8. ASSUME NEW r \in Request, Delete(r) PROVE LInv'
  <2>1. /\ rows' \in SUBSET rows /\ outgrown' = outgrown /\ SameRoom(r) /\ pc'[r] = "read"
    BY <1>8, <1>a DEF Delete, locals, Goto, SameRoom, TypeOK
  <2>2. IsFiniteSet(rows') /\ Cardinality(rows') <= Cardinality(rows)
    BY <1>b, <2>1, FS_Subset
  <2>3. QED BY <1>a, <2>1, <2>2, LimitIdle
<1>9. ASSUME NEW r \in Request, MergeSurvey(r) PROVE LInv'
  <2>1. /\ rows' = rows /\ outgrown' = outgrown /\ op' = op /\ SameRoom(r)
        /\ before'[r] = Prints /\ count'[r] = Cardinality(rows) /\ pc'[r] = "attempt"
        /\ Cardinality(rows) + Cardinality({i \in Wanted(op[r]) : i.print \notin Prints})
             <= MaxItems
    BY <1>9, <1>a DEF MergeSurvey, tables, Goto, SameRoom, TypeOK
  <2>2. Added(r)' = {i \in Wanted(op[r]) : i.print \notin Prints} BY <2>1 DEF Added
  <2>3. Room(r)' BY <2>1, <2>2 DEF Room
  <2>4. QED BY <1>a, <1>b, <2>1, <2>3, LimitKept
<1>10. ASSUME NEW r \in Request, MergeAttempt(r) PROVE LInv'
  <2>1. /\ rows' = rows /\ outgrown' = outgrown /\ op' = op /\ before' = before
        /\ count' = count /\ SameRoom(r) /\ pc[r] = "attempt"
        /\ missing'[r] \subseteq Added(r)
    BY <1>10, <1>a DEF MergeAttempt, tables, Goto, SameRoom, TypeOK
  <2>2. op[r].kind = "merge" BY <1>a, <2>1 DEF Bookkeeping, InPlace
  <2>3. Added(r)' = Added(r) BY <2>1 DEF Added
  <2>4. count[r] + Cardinality(Added(r)) <= MaxItems BY <2>1, <2>2 DEF LInv, Room
  <2>5. Room(r)' BY <2>1, <2>2, <2>3, <2>4 DEF Room
  <2>6. QED BY <1>a, <1>b, <2>1, <2>5, LimitKept
<1>11. ASSUME NEW r \in Request, InsertRow(r) PROVE LInv'
  <2>1. /\ rows' = rows /\ outgrown' = outgrown /\ op' = op /\ before' = before
        /\ count' = count /\ pc' = pc /\ missing' = missing
    BY <1>11 DEF InsertRow
  <2>2. Added(r)' = Added(r) /\ It(r)' = It(r) BY <2>1 DEF Added, It
  <2>3. Room(r)' /\ SameRoom(r) BY <2>1, <2>2 DEF LInv, Room, SameRoom
  <2>4. QED BY <1>a, <1>b, <2>1, <2>3, LimitKept
<1>12. ASSUME NEW r \in Request, SaveConflict(r) PROVE LInv'
  <2>1. rows' = rows /\ outgrown' = outgrown /\ SameRoom(r) /\ pc'[r] = "winner"
    BY <1>12, <1>a DEF SaveConflict, tables, Goto, SameRoom, TypeOK
  <2>2. QED BY <1>a, <1>b, <2>1, LimitIdle
<1>13. ASSUME NEW r \in Request, MergeConflict(r) PROVE LInv'
  <2>1. /\ rows' = rows /\ outgrown' = outgrown /\ op' = op /\ before' = before
        /\ count' = count /\ SameRoom(r) /\ pc'[r] \in {"attempt", "read"}
        /\ pc[r] = "insert" /\ op[r].kind = "merge"
    BY <1>13, <1>a DEF MergeConflict, Violates, tables, Goto, SameRoom, TypeOK
  <2>2. Added(r)' = Added(r) BY <2>1 DEF Added
  <2>3. count[r] + Cardinality(Added(r)) <= MaxItems BY <2>1 DEF LInv, Room
  <2>4. Room(r)' BY <2>1, <2>2, <2>3 DEF Room
  <2>5. QED BY <1>a, <1>b, <2>1, <2>4, LimitKept
<1>14. ASSUME NEW r \in Request, Commit(r) PROVE LInv'
  BY <1>14, <1>a, CommitLimit
<1>15. QED
  BY <1>1, <1>2, <1>3, <1>4, <1>5, <1>6, <1>7, <1>8, <1>9, <1>10, <1>11, <1>12, <1>13, <1>14
  DEF Next, Step

(* As long as no insert was committed on a count that had gone out of date, no
   interleaving of saves and merges takes a collection above its limit. *)
THEOREM LimitUnlessOutgrownCorrect == Spec => []LimitUnlessOutgrown
<1>1. Init => LInv
  <2> SUFFICES ASSUME Init PROVE LInv OBVIOUS
  <2>1. LimitUnlessOutgrown BY StartAssumption, LimitsAssumption DEF Init, LimitUnlessOutgrown
  <2>2. \A r \in Request : Room(r) BY DEF Init, Room
  <2>3. QED BY <2>1, <2>2 DEF LInv
<1>2. IInv /\ IInv' /\ LInv /\ [Next]_vars => LInv' BY StepLimit DEF IInv
<1>3. LInv => LimitUnlessOutgrown BY DEF LInv
<1>4. QED BY <1>1, <1>2, <1>3, InvCorrect, PTL DEF Spec

-----------------------------------------------------------------------------
(* The refinement of SavedWorkContract.                                    *)

(* A step of r leaves what the contract sees of the others alone. *)
Elsewhere(r) ==
  \A q \in Request \ {r} :
    pc'[q] = pc[q] /\ row'[q] = row[q] /\ before'[q] = before[q] /\ reply'[q] = reply[q]

LEMMA Others ==
  ASSUME NEW r \in Request, Elsewhere(r), op' = op
  PROVE  \A q \in Request \ {r} :
           Phase(q)' = Phase(q) /\ Met(q)' = Met(q) /\ Target(q)' = Target(q)
<1> SUFFICES ASSUME NEW q \in Request \ {r}
             PROVE  Phase(q)' = Phase(q) /\ Met(q)' = Met(q) /\ Target(q)' = Target(q)
  OBVIOUS
<1>1. pc'[q] = pc[q] /\ row'[q] = row[q] /\ before'[q] = before[q] /\ reply'[q] = reply[q]
  BY DEF Elsewhere
<1>2. QED BY <1>1 DEF Phase, Met, Target

(* The contract's requests are these requests. *)
LEMMA SameRequests ==
  /\ \A o : Contract!Wanted(o) = Wanted(o) /\ Contract!Asked(o) = Asked(o)
  /\ \A o : Contract!The(o) = The(o)
  /\ \A S : Contract!Keyed(S) <=> Keyed(S)
  /\ \A x : Contract!Content(x) = Content(x)
  /\ Contract!Op = Op /\ Contract!NoOp = NoOp
<1>1. \A o : Contract!Wanted(o) = Wanted(o) BY DEF Contract!Wanted, Wanted
<1>2. \A o : Contract!The(o) = The(o) BY DEF Contract!The, The
<1>3. \A o : Contract!Asked(o) = Asked(o) BY <1>1, <1>2 DEF Contract!Asked, Asked
<1>4. \A S : Contract!Keyed(S) <=> Keyed(S) BY DEF Contract!Keyed, Keyed
<1>5. \A x : Contract!Content(x) = Content(x) BY DEF Contract!Content, Content
<1>6. Contract!Op = Op /\ Contract!NoOp = NoOp BY DEF Contract!Op, Op, Contract!NoOp, NoOp
<1>7. QED BY <1>1, <1>2, <1>3, <1>4, <1>5, <1>6

LEMMA InitRefines == Init => Contract!Init
<1> SUFFICES ASSUME Init PROVE Contract!Init OBVIOUS
<1>1. \A r \in Request : Phase(r) = "new" /\ Target(r) = 0 BY DEF Init, Phase, Target
<1>2. \A r \in Request : Met(r) = {}
  BY DEF Init, Met, Asked, Wanted, NoOp
<1>3. rows \in Start /\ op = [r \in Request |-> NoOp] BY DEF Init
<1>4. QED BY <1>1, <1>2, <1>3, SameRequests DEF Contract!Init

LEMMA Invisible ==
  ASSUME NEW r \in Request, Elsewhere(r), op' = op, rows' = rows,
         Phase(r)' = Phase(r), Met(r)' = Met(r), Target(r)' = Target(r)
  PROVE  UNCHANGED Contract!vars
<1>1. \A q \in Request : Phase(q)' = Phase(q) /\ Met(q)' = Met(q) /\ Target(q)' = Target(q)
  BY Others
<1>2. QED BY <1>1 DEF Contract!vars

(* A step that keeps r open is a moment of the contract. *)
LEMMA Moved ==
  ASSUME KeysExclusive', NEW r \in Request, Elsewhere(r), op' = op,
         pc[r] \notin {"idle", "done"}, pc'[r] \notin {"idle", "done"},
         Met(r) \subseteq Met(r)',
         \A i \in Met(r)' : i \in Met(r) \/ Contract!Goal(op[r], i, rows'),
         rows' = rows \/ Contract!Insert(r) \/ Contract!Update(r) \/ Contract!Rename(r)
           \/ Contract!Remove(r),
         Target(r)' # 0 =>
           /\ op[r].kind = "save"
           /\ \E x \in rows' : x.key = Target(r)' /\ (x.id = It(r).id \/ x.print = It(r).print)
  PROVE  Contract!Next
<1>1. \A q \in Request \ {r} :
        Phase(q)' = Phase(q) /\ Met(q)' = Met(q) /\ Target(q)' = Target(q)
  BY Others
<1>2. Phase(r) = "open" /\ Phase(r)' = "open" BY DEF Phase
<1>3. Contract!Keyed(rows')
  <2>1. rows' \subseteq AllRows' BY DEF AllRows
  <2>2. Keyed(rows') BY <2>1 DEF KeysExclusive, Keyed
  <2>3. QED BY <2>2, SameRequests
<1>4. \E M \in SUBSET {i \in Contract!Asked(op[r]) : Contract!Goal(op[r], i, rows')} :
        [q \in Request |-> Met(q)]' = [[q \in Request |-> Met(q)] EXCEPT ![r] = @ \cup M]
  <2> DEFINE M == Met(r)' \ Met(r)
  <2>1. M \subseteq Contract!Asked(op[r]) BY SameRequests DEF Met
  <2>2. Met(r)' = Met(r) \cup M OBVIOUS
  <2>3. \A i \in M : Contract!Goal(op[r], i, rows') OBVIOUS
  <2> HIDE DEF M
  <2>4. QED BY <1>1, <2>1, <2>2, <2>3
<1>5. [q \in Request |-> Target(q)]'
        = [[q \in Request |-> Target(q)] EXCEPT ![r] = [q \in Request |-> Target(q)]'[r]]
  BY <1>1
<1>6. [q \in Request |-> Target(q)]'[r] # 0 =>
        /\ op[r].kind = "save"
        /\ \E x \in rows' :
             /\ x.key = [q \in Request |-> Target(q)]'[r]
             /\ x.id = Contract!The(op[r]).id \/ x.print = Contract!The(op[r]).print
  BY SameRequests DEF It
<1>7. [q \in Request |-> Phase(q)]' = [q \in Request |-> Phase(q)] BY <1>1, <1>2
<1>8. Contract!Moment(r)
  BY <1>2, <1>3, <1>4, <1>5, <1>6, <1>7 DEF Contract!Moment
<1>9. QED BY <1>8 DEF Contract!Next

(* An answer: either what was asked for has held, or it is a refusal. *)
LEMMA Closed ==
  ASSUME TypeOK, NEW r \in Request, NEW status \in Status, Finish(r, status),
         pc[r] \notin {"idle", "done"},
         status = "ok" => \A i \in Asked(op[r]) : i \in Met(r) \/ Contract!Goal(op[r], i, rows)
  PROVE  Contract!Next
<1>1. /\ rows' = rows /\ op' = op /\ Elsewhere(r) /\ pc'[r] = "done" /\ reply'[r] = status
  BY DEF Finish, tables, Goto, Elsewhere, TypeOK
<1>2. \A q \in Request \ {r} :
        Phase(q)' = Phase(q) /\ Met(q)' = Met(q) /\ Target(q)' = Target(q)
  BY <1>1, Others
<1>3. Phase(r) = "open" /\ Phase(r)' = (IF status = "ok" THEN "ok" ELSE "refused")
  BY <1>1 DEF Phase
<1>4. Target(r)' = 0 BY <1>1 DEF Target
<1>5. Met(r)' = {}
  <2>1. op[r].kind \in {"save", "rename", "remove", "merge", "list"} BY OpType DEF TypeOK
  <2>2. "done" \notin Settled[op[r].kind] BY <2>1 DEF Settled
  <2>3. QED BY <1>1, <2>2 DEF Met
<1>6. CASE status = "ok"
  <2>1. Contract!Close(r, "ok") BY <1>1, <1>2, <1>3, <1>4, <1>5, <1>6 DEF Contract!Close
  <2>2. Contract!Answer(r) BY <1>6, <2>1, SameRequests DEF Contract!Answer
  <2>3. QED BY <2>2 DEF Contract!Next
<1>7. CASE status # "ok"
  <2>1. Contract!Close(r, "refused") BY <1>1, <1>2, <1>3, <1>4, <1>5, <1>7 DEF Contract!Close
  <2>2. QED BY <2>1 DEF Contract!Refuse, Contract!Next
<1>8. QED BY <1>6, <1>7

(* A handler that has looked something up: where it was not settled and is now,
   the row it found is what was asked for. *)
LEMMA Looked ==
  ASSUME TypeOK, KeysExclusive', NEW r \in Request, NEW x \in rows, NEW label, Load(r, x, label),
         \/ op[r].kind = "save" /\ pc[r] \in {"check", "byid", "winner", "winner_id"}
              /\ label \in {"update", "rewrite", "read"}
              /\ (x.id = It(r).id \/ x.print = It(r).print)
         \/ op[r].kind = "rename" /\ pc[r] = "find" /\ x.id = It(r).id
              /\ (label = "update" \/ (label = "read" /\ x.label = It(r).label))
  PROVE  Contract!Next
<1>1. /\ rows' = rows /\ op' = op /\ before' = before /\ Elsewhere(r)
      /\ pc'[r] = label /\ row'[r] = x
  BY DEF Load, tables, Goto, Elsewhere, TypeOK
<1>2. op[r].kind = "save" => Wanted(op[r]) \subseteq {It(r)}
  BY OpType DEF It, TypeOK
<1>3. Met(r) = {} BY DEF Met, Settled
<1>4. \A i \in Met(r)' : Contract!Goal(op[r], i, rows')
  <2>1. CASE op[r].kind = "save"
    <3>1. Met(r)' \subseteq {It(r)}
      <4>1. Met(r)' \subseteq Asked(op[r]) BY <1>1 DEF Met
      <4>2. Asked(op[r]) = Wanted(op[r]) BY <2>1 DEF Asked
      <4>3. QED BY <1>2, <2>1, <4>1, <4>2
    <3>2. Contract!Goal(op[r], It(r), rows') BY <1>1, <2>1 DEF Contract!Goal
    <3>3. QED BY <3>1, <3>2
  <2>2. CASE op[r].kind = "rename"
    <3>1. CASE label = "update" BY <1>1, <2>2, <3>1 DEF Met, Settled
    <3>2. CASE label # "update"
      <4>1. Met(r)' \subseteq {It(r)} BY <1>1, <2>2 DEF Met, Asked, It
      <4>2. Contract!Goal(op[r], It(r), rows') BY <1>1, <2>2, <3>2 DEF Contract!Goal
      <4>3. QED BY <4>1, <4>2
    <3>3. QED BY <3>1, <3>2
  <2>3. QED BY <2>1, <2>2
<1>5. Target(r)' # 0 =>
        /\ op[r].kind = "save"
        /\ \E y \in rows' : y.key = Target(r)' /\ (y.id = It(r).id \/ y.print = It(r).print)
  BY <1>1 DEF Target
<1>6. pc[r] \notin {"idle", "done"} /\ pc'[r] \notin {"idle", "done"} BY <1>1
<1>7. QED BY <1>1, <1>3, <1>4, <1>5, <1>6, Moved

(* A handler that has looked something up and found nothing. *)
LEMMA NotFound ==
  ASSUME TypeOK, NEW r \in Request, NEW label, Load(r, NoRow, label), op[r].kind = "save",
         pc[r] \in {"check", "byid", "winner"}, label \in {"byid", "room", "winner_id"}
  PROVE  UNCHANGED Contract!vars
<1>1. /\ rows' = rows /\ op' = op /\ before' = before /\ Elsewhere(r) /\ pc'[r] = label
  BY DEF Load, tables, Goto, Elsewhere, TypeOK
<1>2. Phase(r)' = Phase(r) BY <1>1 DEF Phase
<1>3. Met(r) = {} /\ Met(r)' = {} BY <1>1 DEF Met, Settled
<1>4. Target(r)' = Target(r) BY <1>1 DEF Target
<1>5. QED BY <1>1, <1>2, <1>3, <1>4, Invisible

(* The loaded row is overwritten as the contract allows. *)
LEMMA UpdateRefines ==
  ASSUME TypeOK, Bookkeeping, KeysExclusive', NEW r \in Request,
         UpdateLabel(r) \/ Rewrite(r)
  PROVE  Contract!Next
<1>1. /\ pc[r] \in {"update", "rewrite"} /\ op' = op /\ before' = before
      /\ pc'[r] = "refresh" /\ Elsewhere(r)
  BY DEF UpdateLabel, Rewrite, locals, Goto, Elsewhere, TypeOK
<1>2. Aimed(r) /\ InPlace(r) BY DEF Bookkeeping
<1>3. op[r].kind \in {"save", "rename"} BY <1>1, <1>2 DEF InPlace
<1>4. Target(r)' = 0 BY <1>1 DEF Target
<1>5. \A x \in rows : x.key = row[r].key => x.id = row[r].id BY <1>1, <1>2 DEF Aimed, AllRows
<1>6. CASE op[r].kind = "save"
  <2>1. Met(r) = Asked(op[r]) /\ Met(r)' = Asked(op[r]) BY <1>1, <1>6 DEF Met, Settled
  <2>2. Target(r) = row[r].key BY <1>1, <1>6 DEF Target
  <2>3. Contract!Update(r)
    <3>1. CASE UpdateLabel(r)
      <4>1. PICK x \in rows : x.key = row[r].key /\ Put(x, [x EXCEPT !.label = It(r).label])
        BY <3>1 DEF UpdateLabel, IsRow
      <4>2. Contract!Replace(x, [x EXCEPT !.label = Contract!The(op[r]).label])
        BY <4>1, SameRequests DEF Contract!Replace, Put, It
      <4>3. QED BY <1>6, <2>2, <4>1, <4>2 DEF Contract!Update
    <3>2. CASE Rewrite(r)
      <4> DEFINE i == Contract!The(op[r])
      <4>1. i = It(r) BY SameRequests DEF It
      <4>2. PICK x \in rows :
              /\ x.key = row[r].key
              /\ Put(x, [x EXCEPT !.label = IF It(r).label = row[r].label THEN @ ELSE It(r).label,
                                  !.print = IF It(r).print = row[r].print THEN @ ELSE It(r).print])
        BY <3>2 DEF Rewrite, IsRow
      <4>3. pc[r] = "rewrite" BY <3>2 DEF Rewrite
      <4>4. x.id = It(r).id BY <1>2, <1>5, <4>2, <4>3 DEF Aimed
      <4>5. \E f \in {x.print, i.print}, l \in {x.label, i.label} :
              Contract!Replace(x, [x EXCEPT !.print = f, !.label = l])
        <5> DEFINE f == IF It(r).print = row[r].print THEN x.print ELSE It(r).print
                   l == IF It(r).label = row[r].label THEN x.label ELSE It(r).label
        <5>1. [x EXCEPT !.label = IF It(r).label = row[r].label THEN @ ELSE It(r).label,
                        !.print = IF It(r).print = row[r].print THEN @ ELSE It(r).print]
                = [x EXCEPT !.print = f, !.label = l]
          BY <4>2 DEF TypeOK, Row
        <5>2. Contract!Replace(x, [x EXCEPT !.print = f, !.label = l])
          BY <4>2, <5>1 DEF Contract!Replace, Put
        <5>3. f \in {x.print, i.print} /\ l \in {x.label, i.label} BY <4>1
        <5> HIDE DEF f, l
        <5>4. QED BY <5>2, <5>3
      <4> HIDE DEF i
      <4>6. QED BY <1>6, <2>2, <4>1, <4>2, <4>4, <4>5 DEF Contract!Update, i
    <3>3. QED BY <3>1, <3>2
  <2>4. QED BY <1>1, <1>4, <2>1, <2>3, Moved
<1>7. CASE op[r].kind = "rename"
  <2>1. UpdateLabel(r) /\ pc[r] = "update"
    BY <1>1, <1>2, <1>7 DEF InPlace, UpdateLabel, Rewrite
  <2>2. PICK x \in rows : x.key = row[r].key /\ Put(x, [x EXCEPT !.label = It(r).label])
    BY <2>1 DEF UpdateLabel, IsRow
  <2>3. x.id = It(r).id BY <1>2, <1>5, <1>7, <2>1, <2>2 DEF Aimed
  <2>4. Met(r) = {} /\ Met(r)' \subseteq {It(r)} BY <1>1, <1>7, <2>1 DEF Met, Settled, Asked, It
  <2>5. Contract!Goal(op[r], It(r), rows')
    <3> DEFINE y == [x EXCEPT !.label = It(r).label]
    <3>1. y.id = It(r).id /\ y.label = It(r).label BY <2>2, <2>3 DEF TypeOK, Row
    <3>2. y \in rows' BY <2>2 DEF Put
    <3> HIDE DEF y
    <3>3. QED BY <1>7, <3>1, <3>2 DEF Contract!Goal
  <2>6. Contract!Rename(r)
    BY <1>7, <2>2, <2>3, SameRequests DEF Contract!Rename, Contract!Replace, Put, It
  <2>7. QED BY <1>1, <1>4, <2>4, <2>5, <2>6, Moved
<1>8. QED BY <1>3, <1>6, <1>7

(* A commit adds what the request wanted. *)
LEMMA CommitRefines ==
  ASSUME TypeOK, Bookkeeping, KeysExclusive', NEW r \in Request, Commit(r)
  PROVE  Contract!Next
<1>1. /\ pc[r] = "insert" /\ op' = op /\ before' = before /\ rows' = rows \cup held[r]
      /\ Left(r) = {}
  BY DEF Commit
<1>2. pc'[r] \in {"refresh", "read"} /\ Elsewhere(r)
      /\ (op[r].kind = "merge" => pc'[r] = "read")
  BY <1>1 DEF Commit, Goto, Elsewhere, TypeOK
<1>3. /\ op[r].kind \in {"save", "merge"} /\ missing[r] # {} /\ missing[r] \subseteq Wanted(op[r])
      /\ \A x \in held[r] : Content(x) \in missing[r]
  BY <1>1 DEF Bookkeeping, InPlace
<1>4. Target(r)' = 0 BY <1>2 DEF Target
<1>5. Contract!Insert(r)
  <2>1. rows \subseteq rows' /\ rows' \ rows \subseteq held[r] BY <1>1
  <2>2. \A x \in held[r] : Contract!Content(x) \in Contract!Wanted(op[r])
    BY <1>3, SameRequests
  <2>3. QED BY <2>1, <2>2 DEF Contract!Insert
<1>6. CASE op[r].kind = "save"
  <2>1. Wanted(op[r]) \subseteq {It(r)} BY <1>6, OpType DEF It, TypeOK
  <2>2. It(r) \in missing[r] BY <1>3, <2>1
  <2>3. PICK x \in held[r] : x.print = It(r).print BY <1>1, <2>2 DEF Left
  <2>4. Contract!Goal(op[r], It(r), rows') BY <1>1, <1>6, <2>3 DEF Contract!Goal
  <2>5. Met(r) = {} /\ Met(r)' \subseteq {It(r)}
    BY <1>1, <1>2, <1>6, <2>1 DEF Met, Settled, Asked
  <2>6. QED BY <1>1, <1>2, <1>4, <1>5, <2>4, <2>5, Moved
<1>7. CASE op[r].kind = "merge"
  <2>1. Met(r)' = Met(r) BY <1>1, <1>2, <1>7 DEF Met, Settled
  <2>2. QED BY <1>1, <1>2, <1>4, <1>5, <2>1, Moved
<1>8. QED BY <1>3, <1>6, <1>7

LEMMA StepRefines ==
  ASSUME IInv, IInv', [Next]_vars
  PROVE  [Contract!Next]_Contract!vars
<1>a. TypeOK /\ Bookkeeping /\ KeysExclusive /\ KeysExclusive' BY DEF IInv
<1>b. ASSUME NEW r \in Request
      PROVE  /\ op[r] \in Op /\ op[r].kind \in {"save", "rename", "remove", "merge", "list"}
             /\ InPlace(r) /\ Aimed(r)
             /\ op[r].kind = "save" => Wanted(op[r]) \subseteq {It(r)}
  BY <1>a, OpType DEF TypeOK, Bookkeeping, It
<1>1. CASE UNCHANGED vars
  BY <1>1 DEF vars, Contract!vars, Phase, Met, Target
<1>2. ASSUME NEW r \in Request, Receive(r) PROVE Contract!Next
  <2>1. /\ rows' = rows /\ pc[r] = "idle" /\ pc'[r] = "resolve" /\ Elsewhere(r)
        /\ \A q \in Request \ {r} : op'[q] = op[q]
    BY <1>2, <1>a DEF Receive, tables, Goto, Elsewhere, TypeOK
  <2>2. \E o \in Contract!Op : op' = [op EXCEPT ![r] = o]
    BY <1>2, SameRequests DEF Receive
  <2>3. Phase(r) = "new" /\ Phase(r)' = "open" /\ Target(r) = 0 /\ Target(r)' = 0
    BY <2>1 DEF Phase, Target
  <2>4. Met(r) = {} BY <1>b, <2>1 DEF Met, Settled
  <2>5. Met(r)' = {}
    <3>1. op'[r] \in Op BY <1>2, <1>a DEF Receive, TypeOK
    <3>2. op'[r].kind \in {"save", "rename", "remove", "merge", "list"} BY <3>1, OpType
    <3>3. "resolve" \notin Settled[op'[r].kind] BY <3>2 DEF Settled
    <3>4. QED BY <2>1, <3>3 DEF Met
  <2>6. \A q \in Request \ {r} :
          Phase(q)' = Phase(q) /\ Met(q)' = Met(q) /\ Target(q)' = Target(q)
    <3> SUFFICES ASSUME NEW q \in Request \ {r}
                 PROVE  Phase(q)' = Phase(q) /\ Met(q)' = Met(q) /\ Target(q)' = Target(q)
      OBVIOUS
    <3>1. /\ pc'[q] = pc[q] /\ row'[q] = row[q] /\ before'[q] = before[q]
          /\ reply'[q] = reply[q] /\ op'[q] = op[q]
      BY <2>1 DEF Elsewhere
    <3>2. QED BY <3>1 DEF Phase, Met, Target
  <2>7. Contract!Open(r) BY <2>1, <2>2, <2>3, <2>4, <2>5, <2>6 DEF Contract!Open
  <2>8. QED BY <2>7 DEF Contract!Next
<1>3. ASSUME NEW r \in Request, Resolve(r) PROVE UNCHANGED Contract!vars
  <2>1. PICK label \in {"check", "find", "delete", "survey", "read"} :
          Goto(r, label) /\ (label = "read" => op[r].kind = "list")
    BY <1>3, <1>a, BeginLabel DEF Resolve
  <2>2. /\ rows' = rows /\ op' = op /\ before' = before /\ row' = row /\ reply' = reply
        /\ pc[r] = "resolve"
    BY <1>3 DEF Resolve, locals
  <2>3. Elsewhere(r) /\ pc'[r] = label BY <1>a, <2>1, <2>2 DEF Goto, Elsewhere, TypeOK
  <2>4. Phase(r)' = Phase(r) BY <2>2, <2>3 DEF Phase
  <2>5. Met(r) = {} BY <1>b, <2>2 DEF Met, Settled
  <2>6. Met(r)' = {} BY <1>b, <2>1, <2>2, <2>3 DEF Met, Settled
  <2>7. Target(r)' = Target(r) BY <2>2, <2>3 DEF Target
  <2>8. QED BY <2>2, <2>3, <2>4, <2>5, <2>6, <2>7, Invisible
<1>4. ASSUME NEW r \in Request, ResolveNothing(r) PROVE Contract!Next
  <2>1. PICK status \in Status :
          Finish(r, status) /\ (status = "ok" => op[r].kind # "rename")
    BY <1>4 DEF ResolveNothing
  <2>2. rows = {} BY <1>4, <1>a DEF ResolveNothing, Bookkeeping
  <2>3. status = "ok" => \A i \in Asked(op[r]) : Contract!Goal(op[r], i, rows)
    <3>1. CASE op[r].kind = "remove" BY <2>2, <3>1 DEF Contract!Goal
    <3>2. CASE op[r].kind \in {"save", "merge", "list"}
      BY <1>4, <3>2 DEF ResolveNothing, Materializes, Asked, Wanted
    <3>3. QED BY <1>b, <2>1, <3>1, <3>2
  <2>4. pc[r] = "resolve" BY <1>4 DEF ResolveNothing
  <2>5. QED BY <1>a, <2>1, <2>3, <2>4, Closed
<1>5. ASSUME NEW r \in Request,
             SaveInvalid(r) \/ SaveFull(r) \/ RewriteClash(r) \/ RowGone(r) \/ RenameUnknown(r)
                \/ MergeFull(r) \/ WinnerGone(r) \/ BreakDeadlock(r) \/ Abort(r)
      PROVE  Contract!Next
  <2>1. PICK status \in Status \ {"ok"} : Finish(r, status)
    BY <1>5 DEF SaveInvalid, SaveFull, RewriteClash, RowGone, RenameUnknown, MergeFull,
         WinnerGone, BreakDeadlock, Abort
  <2>2. pc[r] \notin {"idle", "done"}
    <3>1. CASE BreakDeadlock(r) BY <3>1 DEF BreakDeadlock, WaitsFor
    <3>2. CASE ~BreakDeadlock(r)
      BY <1>5, <3>2 DEF SaveInvalid, SaveFull, RewriteClash, RowGone, RenameUnknown, MergeFull,
         WinnerGone, Abort
    <3>3. QED BY <3>1, <3>2
  <2>3. QED BY <1>a, <2>1, <2>2, Closed
<1>6. ASSUME NEW r \in Request, SaveByPrint(r) PROVE [Contract!Next]_Contract!vars
  <2>1. pc[r] = "check" /\ op[r].kind = "save" BY <1>6, <1>b DEF SaveByPrint, InPlace
  <2>2. CASE \E x \in rows : x.print = It(r).print /\ \E label \in {"read", "update"} : Load(r, x, label)
    BY <1>a, <2>1, <2>2, Looked
  <2>3. CASE Load(r, NoRow, "byid") BY <1>a, <2>1, <2>3, NotFound
  <2>4. QED BY <1>6, <2>2, <2>3 DEF SaveByPrint
<1>7. ASSUME NEW r \in Request, SaveById(r) PROVE [Contract!Next]_Contract!vars
  <2>1. pc[r] = "byid" /\ op[r].kind = "save" BY <1>7, <1>b DEF SaveById, InPlace
  <2>2. CASE \E x \in rows : x.id = It(r).id /\ Load(r, x, "rewrite")
    BY <1>a, <2>1, <2>2, Looked
  <2>3. CASE Load(r, NoRow, "room") BY <1>a, <2>1, <2>3, NotFound
  <2>4. QED BY <1>7, <2>2, <2>3 DEF SaveById
<1>8. ASSUME NEW r \in Request, WinnerByPrint(r) PROVE [Contract!Next]_Contract!vars
  <2>1. pc[r] = "winner" /\ op[r].kind = "save" BY <1>8, <1>b DEF WinnerByPrint, InPlace
  <2>2. CASE \E x \in rows : x.print = It(r).print /\ Load(r, x, "read")
    BY <1>a, <2>1, <2>2, Looked
  <2>3. CASE Load(r, NoRow, "winner_id") BY <1>a, <2>1, <2>3, NotFound
  <2>4. QED BY <1>8, <2>2, <2>3 DEF WinnerByPrint
<1>9. ASSUME NEW r \in Request, WinnerById(r) PROVE Contract!Next
  <2>1. pc[r] = "winner_id" /\ op[r].kind = "save" BY <1>9, <1>b DEF WinnerById, InPlace
  <2>2. \E x \in rows : x.id = It(r).id /\ Load(r, x, "read") BY <1>9 DEF WinnerById
  <2>3. QED BY <1>a, <2>1, <2>2, Looked
<1>10. ASSUME NEW r \in Request, RenameFind(r) PROVE Contract!Next
  <2>1. pc[r] = "find" /\ op[r].kind = "rename" BY <1>10, <1>b DEF RenameFind, InPlace
  <2>2. PICK x \in rows :
          x.id = It(r).id /\ Load(r, x, IF x.label = It(r).label THEN "read" ELSE "update")
    BY <1>10 DEF RenameFind
  <2>3. CASE x.label = It(r).label BY <1>a, <2>1, <2>2, <2>3, Looked
  <2>4. CASE x.label # It(r).label BY <1>a, <2>1, <2>2, <2>4, Looked
  <2>5. QED BY <2>3, <2>4
<1>11. ASSUME NEW r \in Request, Refresh(r) PROVE UNCHANGED Contract!vars
  <2>1. /\ pc[r] = "refresh" /\ rows' = rows /\ op' = op /\ before' = before /\ pc'[r] = "read"
        /\ Elsewhere(r)
    BY <1>11, <1>a DEF Refresh, Load, tables, Goto, Elsewhere, TypeOK
  <2>2. op[r].kind \in {"save", "rename"} BY <1>b, <2>1 DEF InPlace
  <2>3. Phase(r)' = Phase(r) /\ Target(r)' = Target(r) BY <2>1 DEF Phase, Target
  <2>4. Met(r)' = Met(r) BY <2>1, <2>2 DEF Met, Settled
  <2>5. QED BY <2>1, <2>3, <2>4, Invisible
<1>12. ASSUME NEW r \in Request, SaveRoom(r) PROVE UNCHANGED Contract!vars
  <2>1. /\ pc[r] = "room" /\ rows' = rows /\ op' = op /\ before' = before /\ pc'[r] = "insert"
        /\ Elsewhere(r)
    BY <1>12, <1>a DEF SaveRoom, tables, Goto, Elsewhere, TypeOK
  <2>2. op[r].kind = "save" BY <1>b, <2>1 DEF InPlace
  <2>3. Phase(r)' = Phase(r) /\ Target(r)' = Target(r) BY <2>1 DEF Phase, Target
  <2>4. Met(r)' = Met(r) BY <2>1, <2>2 DEF Met, Settled
  <2>5. QED BY <2>1, <2>3, <2>4, Invisible
<1>13. ASSUME NEW r \in Request, UpdateLabel(r) \/ Rewrite(r) PROVE Contract!Next
  BY <1>13, <1>a, UpdateRefines
<1>14. ASSUME NEW r \in Request, Delete(r) PROVE Contract!Next
  <2>1. /\ pc[r] = "delete" /\ op' = op /\ before' = before /\ pc'[r] = "read" /\ Elsewhere(r)
        /\ rows' = {x \in rows : x.id # It(r).id}
    BY <1>14, <1>a DEF Delete, locals, Goto, Elsewhere, TypeOK
  <2>2. op[r].kind = "remove" BY <1>b, <2>1 DEF InPlace
  <2>3. Contract!Remove(r) BY <2>1, <2>2, SameRequests DEF Contract!Remove, It
  <2>4. Met(r) = {} /\ Met(r)' \subseteq {It(r)} BY <2>1, <2>2 DEF Met, Settled, Asked, It
  <2>5. Contract!Goal(op[r], It(r), rows') BY <2>1, <2>2 DEF Contract!Goal
  <2>6. Target(r)' = 0 BY <2>1 DEF Target
  <2>7. QED BY <1>a, <2>1, <2>3, <2>4, <2>5, <2>6, Moved
<1>15. ASSUME NEW r \in Request, MergeSurvey(r) PROVE Contract!Next
  <2>1. /\ pc[r] = "survey" /\ rows' = rows /\ op' = op /\ before'[r] = Prints
        /\ pc'[r] = "attempt" /\ Elsewhere(r)
    BY <1>15, <1>a DEF MergeSurvey, tables, Goto, Elsewhere, TypeOK
  <2>2. op[r].kind = "merge" BY <1>b, <2>1 DEF InPlace
  <2>3. Met(r) = {} BY <2>1, <2>2 DEF Met, Settled
  <2>4. \A i \in Met(r)' : i.print \in Prints BY <2>1, <2>2 DEF Met
  <2>5. \A i \in Met(r)' : Contract!Goal(op[r], i, rows')
    BY <2>1, <2>2, <2>4 DEF Contract!Goal, Prints
  <2>6. Target(r)' = 0 BY <2>1 DEF Target
  <2>7. QED BY <1>a, <2>1, <2>3, <2>5, <2>6, Moved
<1>16. ASSUME NEW r \in Request, MergeAttempt(r) \/ MergeConflict(r) PROVE UNCHANGED Contract!vars
  <2>1. /\ pc[r] \in {"attempt", "insert"} /\ rows' = rows /\ op' = op /\ before' = before
        /\ pc'[r] \in {"attempt", "insert", "read"} /\ Elsewhere(r)
    BY <1>16, <1>a DEF MergeAttempt, MergeConflict, Violates, tables, Goto, Elsewhere, TypeOK
  <2>2. op[r].kind = "merge" BY <1>16, <1>b, <2>1 DEF InPlace, MergeAttempt, MergeConflict
  <2>3. Phase(r)' = Phase(r) /\ Target(r)' = Target(r) BY <2>1 DEF Phase, Target
  <2>4. Met(r)' = Met(r) BY <2>1, <2>2 DEF Met, Settled
  <2>5. QED BY <2>1, <2>3, <2>4, Invisible
<1>17. ASSUME NEW r \in Request, InsertRow(r) PROVE UNCHANGED Contract!vars
  <2>1. /\ rows' = rows /\ op' = op /\ before' = before /\ pc' = pc /\ row' = row
        /\ reply' = reply
    BY <1>17 DEF InsertRow
  <2>2. QED BY <2>1 DEF Contract!vars, Phase, Met, Target
<1>18. ASSUME NEW r \in Request, SaveConflict(r) PROVE UNCHANGED Contract!vars
  <2>1. /\ pc[r] = "insert" /\ rows' = rows /\ op' = op /\ before' = before
        /\ pc'[r] = "winner" /\ Elsewhere(r) /\ op[r].kind = "save"
    BY <1>18, <1>a DEF SaveConflict, Violates, tables, Goto, Elsewhere, TypeOK
  <2>2. Phase(r)' = Phase(r) /\ Target(r)' = Target(r) BY <2>1 DEF Phase, Target
  <2>3. Met(r)' = Met(r) BY <2>1 DEF Met, Settled
  <2>4. QED BY <2>1, <2>2, <2>3, Invisible
<1>19. ASSUME NEW r \in Request, Commit(r) PROVE Contract!Next
  BY <1>19, <1>a, CommitRefines
<1>20. ASSUME NEW r \in Request, ReadBack(r) PROVE Contract!Next
  <2>1. PICK status \in Status :
          /\ Finish(r, status)
          /\ status = "ok" =>
               ~(op[r].kind = "merge" /\ \E i \in Added(r) : i.print \notin Prints)
    BY <1>20 DEF ReadBack
  <2>2. pc[r] = "read" BY <1>20 DEF ReadBack
  <2>3. ASSUME status = "ok", NEW i \in Asked(op[r])
        PROVE  i \in Met(r) \/ Contract!Goal(op[r], i, rows)
    <3>1. CASE op[r].kind \in {"save", "rename", "remove"}
      BY <2>2, <2>3, <3>1 DEF Met, Settled
    <3>2. CASE op[r].kind = "merge"
      <4>1. i \in Wanted(op[r]) BY <2>3, <3>2 DEF Asked
      <4>2. CASE i.print \in before[r] BY <2>2, <2>3, <3>2, <4>2 DEF Met, Settled
      <4>3. CASE i.print \notin before[r]
        <5>1. i.print \in Prints BY <2>1, <2>3, <3>2, <4>1, <4>3 DEF Added
        <5>2. QED BY <3>2, <5>1 DEF Contract!Goal, Prints
      <4>4. QED BY <4>2, <4>3
    <3>3. CASE op[r].kind = "list" BY <2>3, <3>3 DEF Asked, Wanted
    <3>4. QED BY <1>b, <3>1, <3>2, <3>3
  <2>4. QED BY <1>a, <2>1, <2>2, <2>3, Closed
<1>21. QED
  BY <1>1, <1>2, <1>3, <1>4, <1>5, <1>6, <1>7, <1>8, <1>9, <1>10, <1>11, <1>12, <1>13, <1>14,
     <1>15, <1>16, <1>17, <1>18, <1>19, <1>20
  DEF Next, Step

(* The concurrent handlers implement SavedWorkContract: to a caller there is
   one list that changes in single moments, whatever races and fails. *)
THEOREM ContractCorrect == Spec => ContractHolds
<1>1. Init => Contract!Init BY InitRefines
<1>2. IInv /\ IInv' /\ [Next]_vars => [Contract!Next]_Contract!vars BY StepRefines
<1>3. QED BY <1>1, <1>2, InvCorrect, PTL DEF Spec, ContractHolds, Contract!Spec
===============================================================================
