------------------------ MODULE FavoritesStore_proofs ------------------------
(* Proofs about FavoritesStore, for every set of requests, players and guest
   lists and every number of merge attempts. *)
EXTENDS FavoritesStore, FiniteSetTheorems, TLAPS

USE DEF Label, Status

(* A request offers players, and wants players it offers. *)
LEMMA OfferType ==
  ASSUME NEW o \in Op
  PROVE  /\ o.kind \in {"add", "remove", "merge", "list"}
         /\ o.offer \in Seq(Player)
         /\ Contract!Offered(o) \subseteq Player
         /\ Contract!Wanted(o) \subseteq Contract!Offered(o) \cap KnownPlayer
         /\ o.kind = "remove" => Contract!Wanted(o) = {}
<1>1. o.kind \in {"add", "remove", "merge", "list"} BY DEF Op, Contract!Op
<1>2. o.offer \in Seq(Player)
  <2>1. \A p \in Player : <<p>> \in Seq(Player) OBVIOUS
  <2>2. <<>> \in Seq(Player) OBVIOUS
  <2>3. QED BY <2>1, <2>2, GuestAssumption DEF Op, Contract!Op
<1>3. Contract!Offered(o) \subseteq Player BY <1>2 DEF Contract!Offered
<1>4. QED BY <1>1, <1>2, <1>3 DEF Contract!Wanted

LEMMA InitType == Init => TypeOK
<1>1. Contract!NoOp \in Op BY DEF Contract!NoOp, Op, Contract!Op
<1>2. QED BY <1>1 DEF Init, TypeOK, NoRows

LEMMA FinishType ==
  ASSUME TypeOK, NEW r \in Request, NEW status \in Status, NEW set \in SUBSET Player,
         Finish(r, status, set)
  PROVE  /\ reply' \in [Request -> [status : Status, listed : SUBSET Player,
                                    told : SUBSET Player]]
         /\ pc' \in [Request -> Label]
<1>1. Reported(r) \in SUBSET Player
  BY OfferType DEF Reported, Wanted, TypeOK
<1>2. PICK told \in SUBSET Player :
        reply' = [reply EXCEPT ![r] = [status |-> status, listed |-> set, told |-> told]]
  BY <1>1 DEF Finish
<1>3. QED BY <1>2 DEF Finish, Goto, TypeOK

LEMMA StepType ==
  ASSUME TypeOK, [Next]_vars
  PROVE  TypeOK'
<1>0. \A r \in Request : Wanted(r) \subseteq Player /\ Offered(r) \subseteq Player
  BY OfferType DEF Wanted, Offered, TypeOK
<1>1. CASE UNCHANGED vars
  BY <1>1 DEF vars, TypeOK
<1>2. ASSUME NEW r \in Request, Receive(r) PROVE TypeOK'
  BY <1>2 DEF TypeOK, Receive, Goto, tables
<1>3. ASSUME NEW r \in Request, ResolveFound(r) PROVE TypeOK'
  BY <1>3 DEF TypeOK, ResolveFound, Begin, Goto, tables, local
<1>4. ASSUME NEW r \in Request, ResolveNothing(r) PROVE TypeOK'
  BY <1>4, FinishType DEF TypeOK, ResolveNothing, tables, local
<1>5. ASSUME NEW r \in Request, ResolveMissing(r) PROVE TypeOK'
  BY <1>5 DEF TypeOK, ResolveMissing, Goto, tables, local
<1>6. ASSUME NEW r \in Request, CreateAccount(r) PROVE TypeOK'
  BY <1>6 DEF TypeOK, CreateAccount, Begin, Goto, local
<1>7. ASSUME NEW r \in Request, AddUnknown(r) PROVE TypeOK'
  BY <1>7, FinishType DEF TypeOK, AddUnknown, tables, local
<1>8. ASSUME NEW r \in Request, AddCheck(r) PROVE TypeOK'
  BY <1>0, <1>8 DEF TypeOK, AddCheck, Goto, tables, Canonical
<1>9. ASSUME NEW r \in Request, MergeBegin(r) PROVE TypeOK'
  BY <1>9 DEF TypeOK, MergeBegin, Goto, tables, Canonical
<1>10. ASSUME NEW r \in Request, MergeAttempt(r) PROVE TypeOK'
  BY <1>0, <1>10 DEF TypeOK, MergeAttempt, Goto, tables, Canonical
<1>11. ASSUME NEW r \in Request, InsertRow(r) PROVE TypeOK'
  BY <1>11 DEF TypeOK, InsertRow, Insertable, local
<1>12. ASSUME NEW r \in Request, AddConflict(r) PROVE TypeOK'
  BY <1>12 DEF TypeOK, AddConflict, Rollback, Goto, NoRows, tables, local
<1>13. ASSUME NEW r \in Request, MergeConflict(r) PROVE TypeOK'
  BY <1>13 DEF TypeOK, MergeConflict, Rollback, Goto, NoRows, tables
<1>14. ASSUME NEW r \in Request, Commit(r) PROVE TypeOK'
  BY <1>14 DEF TypeOK, Commit, Goto, NoRows, Held
<1>15. ASSUME NEW r \in Request, Delete(r) PROVE TypeOK'
  BY <1>15 DEF TypeOK, Delete, Goto, Canonical
<1>16. ASSUME NEW r \in Request, ReadBack(r) PROVE TypeOK'
  <2>1. Canonical \in SUBSET Player BY DEF Canonical
  <2>2. PICK status \in Status, set \in SUBSET Player : Finish(r, status, set)
    <3>1. Finish(r, "conflict", {}) \/ Finish(r, "ok", Canonical) BY <1>16 DEF ReadBack
    <3>2. QED BY <2>1, <3>1
  <2>3. UNCHANGED <<account, rows, clock, user, op, before, prior, attempt, missing, changed,
                    dirty>>
    BY <1>16 DEF ReadBack, tables, local
  <2>4. QED BY <2>2, <2>3, FinishType DEF TypeOK
<1>17. ASSUME NEW r \in Request, BreakDeadlock(r) PROVE TypeOK'
  <2>1. Fail(r) BY <1>17 DEF BreakDeadlock
  <2>2. QED BY <2>1, FinishType DEF TypeOK, Fail, Rollback, NoRows, tables, local
<1>18. ASSUME NEW r \in Request, Abort(r) PROVE TypeOK'
  BY <1>18, FinishType DEF TypeOK, Abort, Rollback, Fail, NoRows, tables, local
<1>19. QED
  BY <1>1, <1>2, <1>3, <1>4, <1>5, <1>6, <1>7, <1>8, <1>9, <1>10, <1>11, <1>12, <1>13, <1>14, <1>15, <1>16, <1>17, <1>18 DEF Next, Step

(* Every variable keeps its type, whatever the requests do. *)
THEOREM TypeCorrect == Spec => []TypeOK
BY InitType, StepType, PTL DEF Spec

-----------------------------------------------------------------------------
(* The inductive invariant.                                                *)

Inv == Bookkeeping /\ OneAccountRow /\ ReadsWriteNothing /\ KeysExclusive

LEMMA InitInv == Init => Inv
BY NoAccountAssumption
   DEF Init, Inv, Bookkeeping, OneAccountRow, ReadsWriteNothing, KeysExclusive, Canonical, Held,
       NoRows

LEMMA StepInv ==
  ASSUME TypeOK, TypeOK', Inv, [Next]_vars
  PROVE  Inv'
<1>0. \A r \in Request : r # NoAccount /\ Wanted(r) \subseteq KnownPlayer
  BY NoAccountAssumption, OfferType DEF Wanted, TypeOK
<1>1. CASE UNCHANGED vars
  BY <1>1 DEF vars, Inv, Bookkeeping, OneAccountRow, ReadsWriteNothing, KeysExclusive, Canonical,
     Held, Materializes, Wanted
<1>2. ASSUME NEW r \in Request, Receive(r) PROVE Inv'
  <2>1. Bookkeeping'
    BY <1>0, <1>2 DEF Receive, Goto, tables, TypeOK, Inv, Bookkeeping, Canonical, Held,
         Materializes, Wanted
  <2>2. OneAccountRow'
    BY <1>0, <1>2 DEF Receive, Goto, tables, TypeOK, Inv, OneAccountRow, Bookkeeping
  <2>3. ReadsWriteNothing'
    BY <1>0, <1>2 DEF Receive, Goto, tables, TypeOK, Inv, ReadsWriteNothing, Bookkeeping,
         Canonical, Materializes, Held
  <2>4. KeysExclusive'
    BY <1>0, <1>2 DEF Receive, Goto, tables, TypeOK, Inv, KeysExclusive, Bookkeeping, Canonical,
         Held
  <2>5. QED BY <2>1, <2>2, <2>3, <2>4 DEF Inv
<1>3. ASSUME NEW r \in Request, ResolveFound(r) PROVE Inv'
  <2>0. PICK label \in {"read", "delete", "check"} :
          /\ Goto(r, label)
          /\ label = "delete" => op[r].kind = "remove"
          /\ label = "check" => Materializes(r)
    <3>1. op[r].kind \in {"add", "remove", "merge", "list"} BY OfferType DEF TypeOK
    <3>2. QED BY <1>3, <3>1 DEF ResolveFound, Begin, Materializes
  <2>1. Bookkeeping'
    BY <1>0, <1>3, <2>0 DEF ResolveFound, tables, local, Goto, TypeOK, Inv, Bookkeeping,
         Canonical, Held, Materializes, Wanted
  <2>2. OneAccountRow'
    BY <1>0, <1>3, <2>0 DEF ResolveFound, tables, local, Goto, TypeOK, Inv, OneAccountRow,
         Bookkeeping
  <2>3. ReadsWriteNothing'
    BY <1>0, <1>3, <2>0 DEF ResolveFound, tables, local, Goto, TypeOK, Inv, ReadsWriteNothing,
         Bookkeeping, Canonical, Materializes, Held
  <2>4. KeysExclusive'
    BY <1>0, <1>3, <2>0 DEF ResolveFound, tables, local, Goto, TypeOK, Inv, KeysExclusive,
         Bookkeeping, Canonical, Held
  <2>5. QED BY <2>1, <2>2, <2>3, <2>4 DEF Inv
<1>4. ASSUME NEW r \in Request, ResolveNothing(r) PROVE Inv'
  <2>1. Bookkeeping'
    BY <1>0, <1>4 DEF ResolveNothing, Finish, tables, local, Materializes, Goto, TypeOK, Inv,
         Bookkeeping, Canonical, Held, Wanted
  <2>2. OneAccountRow'
    BY <1>0, <1>4 DEF ResolveNothing, Finish, tables, local, Materializes, Goto, TypeOK, Inv,
         OneAccountRow, Bookkeeping
  <2>3. ReadsWriteNothing'
    BY <1>0, <1>4 DEF ResolveNothing, Finish, tables, local, Materializes, Goto, TypeOK, Inv,
         ReadsWriteNothing, Bookkeeping, Canonical, Held
  <2>4. KeysExclusive'
    BY <1>0, <1>4 DEF ResolveNothing, Finish, tables, local, Materializes, Goto, TypeOK, Inv,
         KeysExclusive, Bookkeeping, Canonical, Held
  <2>5. QED BY <2>1, <2>2, <2>3, <2>4 DEF Inv
<1>5. ASSUME NEW r \in Request, ResolveMissing(r) PROVE Inv'
  <2>1. Bookkeeping'
    BY <1>0, <1>5 DEF ResolveMissing, Goto, tables, local, Materializes, TypeOK, Inv,
         Bookkeeping, Canonical, Held, Wanted
  <2>2. OneAccountRow'
    BY <1>0, <1>5 DEF ResolveMissing, Goto, tables, local, Materializes, TypeOK, Inv,
         OneAccountRow, Bookkeeping
  <2>3. ReadsWriteNothing'
    BY <1>0, <1>5 DEF ResolveMissing, Goto, tables, local, Materializes, TypeOK, Inv,
         ReadsWriteNothing, Bookkeeping, Canonical, Held
  <2>4. KeysExclusive'
    BY <1>0, <1>5 DEF ResolveMissing, Goto, tables, local, Materializes, TypeOK, Inv,
         KeysExclusive, Bookkeeping, Canonical, Held
  <2>5. QED BY <2>1, <2>2, <2>3, <2>4 DEF Inv
<1>6. ASSUME NEW r \in Request, CreateAccount(r) PROVE Inv'
  <2>1. Bookkeeping'
    BY <1>0, <1>6 DEF CreateAccount, Begin, local, Goto, TypeOK, Inv, Bookkeeping, Canonical,
         Held, Materializes, Wanted
  <2>2. OneAccountRow'
    BY <1>0, <1>6 DEF CreateAccount, Begin, local, Goto, TypeOK, Inv, OneAccountRow, Bookkeeping
  <2>3. ReadsWriteNothing'
    BY <1>0, <1>6 DEF CreateAccount, Begin, local, Goto, TypeOK, Inv, ReadsWriteNothing,
         Bookkeeping, Canonical, Materializes, Held
  <2>4. KeysExclusive'
    BY <1>0, <1>6 DEF CreateAccount, Begin, local, Goto, TypeOK, Inv, KeysExclusive,
         Bookkeeping, Canonical, Held
  <2>5. QED BY <2>1, <2>2, <2>3, <2>4 DEF Inv
<1>7. ASSUME NEW r \in Request, AddUnknown(r) PROVE Inv'
  <2>1. Bookkeeping'
    BY <1>0, <1>7 DEF AddUnknown, Finish, tables, local, Wanted, Goto, TypeOK, Inv, Bookkeeping,
         Canonical, Held, Materializes
  <2>2. OneAccountRow'
    BY <1>0, <1>7 DEF AddUnknown, Finish, tables, local, Goto, TypeOK, Inv, OneAccountRow,
         Bookkeeping
  <2>3. ReadsWriteNothing'
    BY <1>0, <1>7 DEF AddUnknown, Finish, tables, local, Goto, TypeOK, Inv, ReadsWriteNothing,
         Bookkeeping, Canonical, Materializes, Held
  <2>4. KeysExclusive'
    BY <1>0, <1>7 DEF AddUnknown, Finish, tables, local, Goto, TypeOK, Inv, KeysExclusive,
         Bookkeeping, Canonical, Held
  <2>5. QED BY <2>1, <2>2, <2>3, <2>4 DEF Inv
<1>8. ASSUME NEW r \in Request, AddCheck(r) PROVE Inv'
  <2>1. Bookkeeping'
    BY <1>0, <1>8 DEF AddCheck, Goto, tables, Canonical, Wanted, TypeOK, Inv, Bookkeeping, Held,
         Materializes
  <2>2. OneAccountRow'
    BY <1>0, <1>8 DEF AddCheck, Goto, tables, Canonical, TypeOK, Inv, OneAccountRow, Bookkeeping
  <2>3. ReadsWriteNothing'
    BY <1>0, <1>8 DEF AddCheck, Goto, tables, Canonical, TypeOK, Inv, ReadsWriteNothing,
         Bookkeeping, Materializes, Held
  <2>4. KeysExclusive'
    BY <1>0, <1>8 DEF AddCheck, Goto, tables, Canonical, TypeOK, Inv, KeysExclusive,
         Bookkeeping, Held
  <2>5. QED BY <2>1, <2>2, <2>3, <2>4 DEF Inv
<1>9. ASSUME NEW r \in Request, MergeBegin(r) PROVE Inv'
  <2>1. Bookkeeping'
    BY <1>0, <1>9 DEF MergeBegin, Goto, tables, Canonical, TypeOK, Inv, Bookkeeping, Held,
         Materializes, Wanted
  <2>2. OneAccountRow'
    BY <1>0, <1>9 DEF MergeBegin, Goto, tables, Canonical, TypeOK, Inv, OneAccountRow,
         Bookkeeping
  <2>3. ReadsWriteNothing'
    BY <1>0, <1>9 DEF MergeBegin, Goto, tables, Canonical, TypeOK, Inv, ReadsWriteNothing,
         Bookkeeping, Materializes, Held
  <2>4. KeysExclusive'
    BY <1>0, <1>9 DEF MergeBegin, Goto, tables, Canonical, TypeOK, Inv, KeysExclusive,
         Bookkeeping, Held
  <2>5. QED BY <2>1, <2>2, <2>3, <2>4 DEF Inv
<1>10. ASSUME NEW r \in Request, MergeAttempt(r) PROVE Inv'
  <2>1. Bookkeeping'
    BY <1>0, <1>10 DEF MergeAttempt, Goto, tables, Canonical, Wanted, TypeOK, Inv, Bookkeeping,
         Held, Materializes
  <2>2. OneAccountRow'
    BY <1>0, <1>10 DEF MergeAttempt, Goto, tables, Canonical, TypeOK, Inv, OneAccountRow,
         Bookkeeping
  <2>3. ReadsWriteNothing'
    BY <1>0, <1>10 DEF MergeAttempt, Goto, tables, Canonical, TypeOK, Inv, ReadsWriteNothing,
         Bookkeeping, Materializes, Held
  <2>4. KeysExclusive'
    BY <1>0, <1>10 DEF MergeAttempt, Goto, tables, Canonical, TypeOK, Inv, KeysExclusive,
         Bookkeeping, Held
  <2>5. QED BY <2>1, <2>2, <2>3, <2>4 DEF Inv
<1>11. ASSUME NEW r \in Request, InsertRow(r) PROVE Inv'
  <2>1. Bookkeeping'
    BY <1>0, <1>11 DEF InsertRow, Insertable, local, Held, IsNext, TypeOK, Inv, Bookkeeping, Canonical,
         Materializes, Wanted
  <2>2. OneAccountRow'
    BY <1>0, <1>11 DEF InsertRow, Insertable, local, Held, IsNext, TypeOK, Inv, OneAccountRow, Bookkeeping
  <2>3. ReadsWriteNothing'
    BY <1>0, <1>11 DEF InsertRow, Insertable, local, Held, IsNext, TypeOK, Inv, ReadsWriteNothing,
         Bookkeeping, Canonical, Materializes
  <2>4. KeysExclusive'
    BY <1>0, <1>11 DEF InsertRow, Insertable, local, Held, IsNext, TypeOK, Inv, KeysExclusive, Bookkeeping,
         Canonical
  <2>5. QED BY <2>1, <2>2, <2>3, <2>4 DEF Inv
<1>12. ASSUME NEW r \in Request, AddConflict(r) PROVE Inv'
  <2>1. Bookkeeping'
    BY <1>0, <1>12 DEF AddConflict, Rollback, Goto, tables, local, NoRows, IsNext, TypeOK, Inv,
         Bookkeeping, Canonical, Held, Materializes, Wanted
  <2>2. OneAccountRow'
    BY <1>0, <1>12 DEF AddConflict, Rollback, Goto, tables, local, NoRows, IsNext, TypeOK, Inv,
         OneAccountRow, Bookkeeping
  <2>3. ReadsWriteNothing'
    BY <1>0, <1>12 DEF AddConflict, Rollback, Goto, tables, local, NoRows, IsNext, TypeOK, Inv,
         ReadsWriteNothing, Bookkeeping, Canonical, Materializes, Held
  <2>4. KeysExclusive'
    BY <1>0, <1>12 DEF AddConflict, Rollback, Goto, tables, local, NoRows, IsNext, TypeOK, Inv,
         KeysExclusive, Bookkeeping, Canonical, Held
  <2>5. QED BY <2>1, <2>2, <2>3, <2>4 DEF Inv
<1>13. ASSUME NEW r \in Request, MergeConflict(r) PROVE Inv'
  <2>1. Bookkeeping'
    BY <1>0, <1>13 DEF MergeConflict, Rollback, Goto, tables, NoRows, IsNext, TypeOK, Inv, Bookkeeping,
         Canonical, Held, Materializes, Wanted
  <2>2. OneAccountRow'
    BY <1>0, <1>13 DEF MergeConflict, Rollback, Goto, tables, NoRows, IsNext, TypeOK, Inv, OneAccountRow,
         Bookkeeping
  <2>3. ReadsWriteNothing'
    BY <1>0, <1>13 DEF MergeConflict, Rollback, Goto, tables, NoRows, IsNext, TypeOK, Inv,
         ReadsWriteNothing, Bookkeeping, Canonical, Materializes, Held
  <2>4. KeysExclusive'
    BY <1>0, <1>13 DEF MergeConflict, Rollback, Goto, tables, NoRows, IsNext, TypeOK, Inv, KeysExclusive,
         Bookkeeping, Canonical, Held
  <2>5. QED BY <2>1, <2>2, <2>3, <2>4 DEF Inv
<1>14. ASSUME NEW r \in Request, Commit(r) PROVE Inv'
  <2>1. Bookkeeping'
    BY <1>0, <1>14 DEF Commit, Goto, NoRows, Held, TypeOK, Inv, Bookkeeping, Canonical,
         Materializes, Wanted
  <2>2. OneAccountRow'
    BY <1>0, <1>14 DEF Commit, Goto, NoRows, Held, TypeOK, Inv, OneAccountRow, Bookkeeping
  <2>3. ReadsWriteNothing'
    BY <1>0, <1>14 DEF Commit, Goto, NoRows, Held, TypeOK, Inv, ReadsWriteNothing, Bookkeeping,
         Canonical, Materializes
  <2>4. KeysExclusive'
    BY <1>0, <1>14 DEF Commit, Goto, NoRows, Held, TypeOK, Inv, KeysExclusive, Bookkeeping,
         Canonical
  <2>5. QED BY <2>1, <2>2, <2>3, <2>4 DEF Inv
<1>15. ASSUME NEW r \in Request, Delete(r) PROVE Inv'
  <2>1. Bookkeeping'
    BY <1>0, <1>15 DEF Delete, Goto, Canonical, Offered, TypeOK, Inv, Bookkeeping, Held,
         Materializes, Wanted
  <2>2. OneAccountRow'
    BY <1>0, <1>15 DEF Delete, Goto, Canonical, TypeOK, Inv, OneAccountRow, Bookkeeping
  <2>3. ReadsWriteNothing'
    BY <1>0, <1>15 DEF Delete, Goto, Canonical, TypeOK, Inv, ReadsWriteNothing, Bookkeeping,
         Materializes, Held
  <2>4. KeysExclusive'
    BY <1>0, <1>15 DEF Delete, Goto, Canonical, TypeOK, Inv, KeysExclusive, Bookkeeping, Held
  <2>5. QED BY <2>1, <2>2, <2>3, <2>4 DEF Inv
<1>16. ASSUME NEW r \in Request, ReadBack(r) PROVE Inv'
  <2>1. Bookkeeping'
    BY <1>0, <1>16 DEF ReadBack, Finish, tables, local, Canonical, Wanted, Goto, TypeOK, Inv,
         Bookkeeping, Held, Materializes
  <2>2. OneAccountRow'
    BY <1>0, <1>16 DEF ReadBack, Finish, tables, local, Canonical, Goto, TypeOK, Inv,
         OneAccountRow, Bookkeeping
  <2>3. ReadsWriteNothing'
    BY <1>0, <1>16 DEF ReadBack, Finish, tables, local, Canonical, Goto, TypeOK, Inv,
         ReadsWriteNothing, Bookkeeping, Materializes, Held
  <2>4. KeysExclusive'
    BY <1>0, <1>16 DEF ReadBack, Finish, tables, local, Canonical, Goto, TypeOK, Inv,
         KeysExclusive, Bookkeeping, Held
  <2>5. QED BY <2>1, <2>2, <2>3, <2>4 DEF Inv
<1>17. ASSUME NEW r \in Request, BreakDeadlock(r) PROVE Inv'
  <2>0. Fail(r) BY <1>17 DEF BreakDeadlock
  <2>1. Bookkeeping'
    BY <1>0, <2>0 DEF Fail, Rollback, Finish, Goto, tables, local, NoRows, TypeOK, Inv, Bookkeeping,
         Canonical, Held, Materializes, Wanted
  <2>2. OneAccountRow'
    BY <1>0, <2>0 DEF Fail, Rollback, Finish, Goto, tables, local, NoRows, TypeOK, Inv, OneAccountRow,
         Bookkeeping
  <2>3. ReadsWriteNothing'
    BY <1>0, <2>0 DEF Fail, Rollback, Finish, Goto, tables, local, NoRows, TypeOK, Inv, ReadsWriteNothing,
         Bookkeeping, Canonical, Materializes, Held
  <2>4. KeysExclusive'
    BY <1>0, <2>0 DEF Fail, Rollback, Finish, Goto, tables, local, NoRows, TypeOK, Inv, KeysExclusive,
         Bookkeeping, Canonical, Held
  <2>5. QED BY <2>1, <2>2, <2>3, <2>4 DEF Inv
<1>18. ASSUME NEW r \in Request, Abort(r) PROVE Inv'
  <2>1. Bookkeeping'
    BY <1>0, <1>18 DEF Abort, Rollback, Fail, Finish, Goto, tables, local, NoRows, TypeOK, Inv,
         Bookkeeping, Canonical, Held, Materializes, Wanted
  <2>2. OneAccountRow'
    BY <1>0, <1>18 DEF Abort, Rollback, Fail, Finish, Goto, tables, local, NoRows, TypeOK, Inv,
         OneAccountRow, Bookkeeping
  <2>3. ReadsWriteNothing'
    BY <1>0, <1>18 DEF Abort, Rollback, Fail, Finish, Goto, tables, local, NoRows, TypeOK, Inv,
         ReadsWriteNothing, Bookkeeping, Canonical, Materializes, Held
  <2>4. KeysExclusive'
    BY <1>0, <1>18 DEF Abort, Rollback, Fail, Finish, Goto, tables, local, NoRows, TypeOK, Inv,
         KeysExclusive, Bookkeeping, Canonical, Held
  <2>5. QED BY <2>1, <2>2, <2>3, <2>4 DEF Inv
<1>19. QED
  BY <1>1, <1>2, <1>3, <1>4, <1>5, <1>6, <1>7, <1>8, <1>9, <1>10, <1>11, <1>12, <1>13, <1>14,
     <1>15, <1>16, <1>17, <1>18
  DEF Next, Step

(* The inductive invariant holds of every state of every instance. *)
THEOREM InvCorrect == Spec => []IInv
<1>1. Init => TypeOK /\ Inv BY InitType, InitInv
<1>2. TypeOK /\ Inv /\ [Next]_vars => (TypeOK /\ Inv)' BY StepType, StepInv
<1>3. TypeOK /\ Inv => IInv BY DEF IInv, Inv
<1>4. QED BY <1>1, <1>2, <1>3, PTL DEF Spec

(* Concurrent requests of one person work on one account row, the winner's
   (resolve_app_user). *)
THEOREM OneAccountRowCorrect == Spec => []OneAccountRow
<1>1. IInv => OneAccountRow BY DEF IInv
<1>2. QED BY <1>1, InvCorrect, PTL

(* A read or a removal never creates the account row, and no favourite is
   saved without one (get_optional_app_user). *)
THEOREM ReadsWriteNothingCorrect == Spec => []ReadsWriteNothing
<1>1. IInv => ReadsWriteNothing BY DEF IInv
<1>2. QED BY <1>1, InvCorrect, PTL

-----------------------------------------------------------------------------
(* The ledger of commits.                                                  *)

(* A request has committed no change before it reads the list back. *)
Uncommitted == \A r \in Request : pc[r] \notin {"read", "done"} => changed[r] = {}

Committers(asked, reports, kinds, p) ==
  {r \in Request : asked[r].kind \in kinds /\ p \in reports[r]}

LedgerInv == Uncommitted /\ ChangeLedger

Savers == {"add", "merge"}
Removers == {"remove"}

LEMMA LedgerOf ==
  ChangeLedger <=>
    \A p \in Player :
      Cardinality(Committers(op, changed, Savers, p)) =
        Cardinality(Committers(op, changed, Removers, p)) + IF rows[p] # 0 THEN 1 ELSE 0
BY DEF ChangeLedger, Committers, Savers, Removers

LEMMA CountOneMore ==
  ASSUME NEW S, S \subseteq Request, NEW r \in Request \ S
  PROVE  Cardinality(S \cup {r}) = Cardinality(S) + 1 /\ Cardinality(S) \in Nat
<1>1. IsFiniteSet(S) BY RequestAssumption, FS_Subset
<1>2. QED BY <1>1, FS_AddElement, FS_CardinalityType

LEMMA InitLedger == Init => LedgerInv
<1>1. ASSUME Init, NEW p \in Player
      PROVE  Committers(op, changed, Savers, p) = {} /\ Committers(op, changed, Removers, p) = {} /\ rows[p] = 0
  BY <1>1 DEF Init, Committers, NoRows
<1>2. ASSUME Init PROVE ChangeLedger BY <1>1, <1>2, LedgerOf, FS_EmptySet
<1>3. QED BY <1>2 DEF LedgerInv, Uncommitted, Init

(* A step that changes neither the list nor a report keeps the ledger; what a
   request asks for is fixed before it reports anything. *)
LEMMA LedgerKept ==
  ASSUME ChangeLedger, rows' = rows, changed' = changed,
         \A r \in Request : changed[r] # {} => op'[r] = op[r]
  PROVE  ChangeLedger'
<1>1. ASSUME NEW kinds, NEW p
      PROVE  {r \in Request : op'[r].kind \in kinds /\ p \in changed'[r]} =
             {r \in Request : op[r].kind \in kinds /\ p \in changed[r]}
  OBVIOUS
<1>2. QED BY <1>1 DEF ChangeLedger

LEMMA CommitLedger ==
  ASSUME TypeOK, Inv, LedgerInv, NEW r \in Request, Commit(r)
  PROVE  ChangeLedger'
<1>1. op[r].kind \in Savers /\ op[r].kind \notin Removers /\ changed[r] = {}
  BY DEF Commit, Inv, Bookkeeping, Materializes, LedgerInv, Uncommitted, Savers, Removers
<1>2. Held(r) \in SUBSET Player BY DEF Held
<1>3. op' = op /\ changed' = [changed EXCEPT ![r] = Held(r)] BY DEF Commit
<1>4. ASSUME NEW p \in Player
      PROVE  /\ p \in Held(r) => rows[p] = 0 /\ rows'[p] # 0
             /\ p \notin Held(r) => rows'[p] = rows[p]
  BY DEF Commit, Held, Inv, KeysExclusive
<1>5. ASSUME NEW p \in Player
      PROVE  Cardinality(Committers(op', changed', Savers, p)) =
               Cardinality(Committers(op', changed', Removers, p)) + IF rows'[p] # 0 THEN 1 ELSE 0
  <2>1. Cardinality(Committers(op, changed, Savers, p)) =
          Cardinality(Committers(op, changed, Removers, p)) + IF rows[p] # 0 THEN 1 ELSE 0
    BY LedgerOf DEF LedgerInv
  <2>2. Committers(op', changed', Removers, p) = Committers(op, changed, Removers, p)
    BY <1>1, <1>2, <1>3 DEF Committers, TypeOK
  <2>3. CASE p \in Held(r)
    <3>1. Committers(op', changed', Savers, p) = Committers(op, changed, Savers, p) \cup {r}
      BY <1>1, <1>2, <1>3, <2>3 DEF Committers, TypeOK
    <3>2. Cardinality(Committers(op, changed, Savers, p) \cup {r}) =
            Cardinality(Committers(op, changed, Savers, p)) + 1
      BY <1>1, CountOneMore DEF Committers
    <3>3. rows[p] = 0 /\ rows'[p] # 0 BY <1>4, <2>3
    <3>4. Cardinality(Committers(op, changed, Removers, p)) \in Nat
      BY RequestAssumption, FS_Subset, FS_CardinalityType DEF Committers
    <3>5. QED BY <2>1, <2>2, <3>1, <3>2, <3>3, <3>4
  <2>4. CASE p \notin Held(r)
    <3>1. Committers(op', changed', Savers, p) = Committers(op, changed, Savers, p)
      BY <1>1, <1>2, <1>3, <2>4 DEF Committers, TypeOK
    <3>2. rows'[p] = rows[p] BY <1>4, <2>4
    <3>3. QED BY <2>1, <2>2, <3>1, <3>2
  <2>5. QED BY <2>3, <2>4
<1>6. QED BY <1>5 DEF ChangeLedger, Committers, Savers, Removers

LEMMA DeleteLedger ==
  ASSUME TypeOK, Inv, LedgerInv, NEW r \in Request, Delete(r)
  PROVE  ChangeLedger'
<1> DEFINE P == Offered(r) \cap Canonical
<1>1. op[r].kind \in Removers /\ op[r].kind \notin Savers /\ changed[r] = {}
  BY DEF Delete, Inv, Bookkeeping, LedgerInv, Uncommitted, Savers, Removers
<1>2. P \in SUBSET Player BY DEF Canonical
<1>3. op' = op /\ changed' = [changed EXCEPT ![r] = P] BY DEF Delete
<1>4. ASSUME NEW p \in Player
      PROVE  /\ p \in P => rows[p] # 0 /\ rows'[p] = 0
             /\ p \notin P => rows'[p] = rows[p]
  BY DEF Delete, Canonical
<1> HIDE DEF P
<1>5. ASSUME NEW p \in Player
      PROVE  Cardinality(Committers(op', changed', Savers, p)) =
               Cardinality(Committers(op', changed', Removers, p)) + IF rows'[p] # 0 THEN 1 ELSE 0
  <2>1. Cardinality(Committers(op, changed, Savers, p)) =
          Cardinality(Committers(op, changed, Removers, p)) + IF rows[p] # 0 THEN 1 ELSE 0
    BY LedgerOf DEF LedgerInv
  <2>2. Committers(op', changed', Savers, p) = Committers(op, changed, Savers, p)
    BY <1>1, <1>2, <1>3 DEF Committers, TypeOK
  <2>3. CASE p \in P
    <3>1. Committers(op', changed', Removers, p) = Committers(op, changed, Removers, p) \cup {r}
      BY <1>1, <1>2, <1>3, <2>3 DEF Committers, TypeOK
    <3>2. /\ Cardinality(Committers(op, changed, Removers, p) \cup {r}) = Cardinality(Committers(op, changed, Removers, p)) + 1
          /\ Cardinality(Committers(op, changed, Removers, p)) \in Nat
      BY <1>1, CountOneMore DEF Committers
    <3>3. rows[p] # 0 /\ rows'[p] = 0 BY <1>4, <2>3
    <3>4. QED BY <2>1, <2>2, <3>1, <3>2, <3>3
  <2>4. CASE p \notin P
    <3>1. Committers(op', changed', Removers, p) = Committers(op, changed, Removers, p)
      BY <1>1, <1>2, <1>3, <2>4 DEF Committers, TypeOK
    <3>2. rows'[p] = rows[p] BY <1>4, <2>4
    <3>3. QED BY <2>1, <2>2, <3>1, <3>2
  <2>5. QED BY <2>3, <2>4
<1>6. QED BY <1>5 DEF ChangeLedger, Committers, Savers, Removers

(* What a step may do to the tables the ledger reads. *)
LEMMA ReportingSteps ==
  ASSUME TypeOK, [Next]_vars
  PROVE  \/ \E r \in Request : Receive(r) \/ Commit(r) \/ Delete(r)
         \/ UNCHANGED <<rows, changed, op>>
BY DEF Next, Step, ResolveFound, ResolveNothing, ResolveMissing, CreateAccount, AddUnknown,
       AddCheck, MergeBegin, MergeAttempt, InsertRow, AddConflict, MergeConflict, ReadBack,
       BreakDeadlock, Abort, Fail, Rollback, tables, local, vars

(* No step takes a request out of the read-back except to answer it. *)
LEMMA Moves ==
  ASSUME TypeOK, [Next]_vars
  PROVE  \/ pc' = pc
         \/ \E r \in Request : \E label \in Label :
              /\ pc' = [pc EXCEPT ![r] = label]
              /\ pc[r] # "done"
              /\ pc[r] = "read" => label = "done"
<1>1. CASE UNCHANGED vars BY <1>1 DEF vars
<1>2. ASSUME NEW r \in Request, ResolveFound(r) \/ CreateAccount(r)
      PROVE  /\ pc[r] \notin {"read", "done"}
             /\ \E label \in Label : pc' = [pc EXCEPT ![r] = label]
  BY <1>2 DEF ResolveFound, CreateAccount, Begin, Goto, local
<1>3. ASSUME NEW r \in Request, ReadBack(r) \/ BreakDeadlock(r) \/ Abort(r)
      PROVE  pc[r] # "done" /\ pc' = [pc EXCEPT ![r] = "done"]
  <2>1. CASE ReadBack(r)
    BY <2>1 DEF ReadBack, Finish, Goto, local
  <2>2. CASE BreakDeadlock(r) \/ Abort(r)
    BY <2>2 DEF BreakDeadlock, WaitsFor, Abort, Fail, Finish, Goto, local
  <2>3. QED BY <1>3, <2>1, <2>2
<1>4. ASSUME NEW r \in Request,
             \/ Receive(r) \/ ResolveNothing(r) \/ ResolveMissing(r) \/ AddUnknown(r)
             \/ AddCheck(r) \/ MergeBegin(r) \/ MergeAttempt(r)
             \/ AddConflict(r) \/ MergeConflict(r)
      PROVE  /\ pc[r] \notin {"read", "done"}
             /\ \E label \in Label : pc' = [pc EXCEPT ![r] = label]
  BY <1>4 DEF Receive, ResolveNothing, ResolveMissing, AddUnknown, AddCheck, MergeBegin,
     MergeAttempt, AddConflict, MergeConflict, Finish, Goto, local
<1>5. ASSUME NEW r \in Request, Commit(r) \/ Delete(r)
      PROVE  pc[r] \notin {"read", "done"} /\ pc' = [pc EXCEPT ![r] = "read"]
  BY <1>5 DEF Commit, Delete, Goto
<1>6. ASSUME NEW r \in Request, InsertRow(r) PROVE pc' = pc BY <1>6 DEF InsertRow
<1>7. QED BY <1>1, <1>2, <1>3, <1>4, <1>5, <1>6 DEF Next, Step

LEMMA StepLedger ==
  ASSUME TypeOK, Inv, LedgerInv, [Next]_vars
  PROVE  LedgerInv'
<1>1. ChangeLedger'
  <2>1. ASSUME NEW r \in Request, Receive(r) PROVE ChangeLedger'
    <3>1. changed[r] = {} BY <2>1 DEF Receive, LedgerInv, Uncommitted
    <3>2. \A q \in Request : changed[q] # {} => op'[q] = op[q]
      BY <2>1, <3>1 DEF Receive, TypeOK
    <3>3. QED BY <2>1, <3>2, LedgerKept DEF Receive, tables, LedgerInv
  <2>2. CASE UNCHANGED <<rows, changed, op>> BY <2>2, LedgerKept DEF LedgerInv
  <2>3. QED BY <2>1, <2>2, CommitLedger, DeleteLedger, ReportingSteps
<1>2. Uncommitted'
  <2>1. ASSUME NEW q \in Request, pc'[q] \notin {"read", "done"} PROVE changed'[q] = {}
    <3>1. pc[q] \notin {"read", "done"} BY <2>1, Moves DEF TypeOK
    <3>2. changed[q] = {} BY <3>1 DEF LedgerInv, Uncommitted
    <3>3. CASE UNCHANGED <<rows, changed, op>> BY <3>2, <3>3
    <3>4. ASSUME NEW r \in Request, Receive(r) PROVE changed'[q] = {}
      BY <3>2, <3>4 DEF Receive
    <3>5. ASSUME NEW r \in Request, Commit(r) \/ Delete(r) PROVE changed'[q] = {}
      <4>1. q # r BY <2>1, <3>5 DEF Commit, Delete, Goto, TypeOK
      <4>2. QED BY <3>2, <3>5, <4>1 DEF Commit, Delete, TypeOK
    <3>6. QED BY <3>3, <3>4, <3>5, ReportingSteps
  <2>2. QED BY <2>1 DEF Uncommitted
<1>3. QED BY <1>1, <1>2 DEF LedgerInv

(* What the calls committed about a player adds up to whether it is saved, for
   any number of concurrent adds, merges and removals (add_favorite,
   merge_favorites, remove_favorite). *)
THEOREM ChangeLedgerCorrect == Spec => []ChangeLedger
<1>1. Init => LedgerInv BY InitLedger
<1>2. IInv /\ LedgerInv /\ [Next]_vars => LedgerInv' BY StepLedger DEF IInv, Inv
<1>3. LedgerInv => ChangeLedger BY DEF LedgerInv
<1>4. QED BY <1>1, <1>2, <1>3, InvCorrect, PTL DEF Spec

-----------------------------------------------------------------------------
(* The order of a merge.                                                   *)

(* Position i is where the guest first offered that player. *)
FirstAt(r, i) ==
  i \in 1..Len(op[r].offer) /\ \A k \in 1..(i - 1) : op[r].offer[k] # op[r].offer[i]

(* Stamps are below the clock, and a block is filled in the order of the offer:
   what precedes a row the session holds, and is to be inserted, is held
   already and has the lower stamp. *)
InOfferOrder ==
  \A r \in Request :
    /\ \A p \in Held(r) : dirty[r][p] < clock
    /\ \A i, j \in 1..Len(op[r].offer) :
         /\ i < j /\ FirstAt(r, i) /\ FirstAt(r, j)
         /\ op[r].offer[i] \in missing[r] /\ op[r].offer[j] \in Held(r)
         => /\ op[r].offer[i] \in Held(r)
            /\ dirty[r][op[r].offer[i]] < dirty[r][op[r].offer[j]]

LEMMA InitOrder == Init => InOfferOrder
BY DEF Init, InOfferOrder, Held, NoRows

(* Only InsertRow adds to a block; every other step leaves a block that is not
   empty, its request and the clock alone, or empties it. *)
LEMMA Blocks ==
  ASSUME TypeOK, Inv, [Next]_vars
  PROVE  \/ \E r \in Request : InsertRow(r)
         \/ /\ clock' = clock
            /\ \A q \in Request :
                 \/ dirty'[q] = NoRows
                 \/ Held(q) = {} /\ dirty'[q] = dirty[q]
                 \/ UNCHANGED <<dirty[q], op[q], missing[q]>>
<1>1. CASE UNCHANGED vars BY <1>1 DEF vars
<1>2. ASSUME NEW r \in Request, Receive(r) \/ AddCheck(r) \/ MergeAttempt(r)
      PROVE  /\ clock' = clock /\ dirty' = dirty /\ Held(r) = {}
             /\ \A q \in Request \ {r} : UNCHANGED <<op[q], missing[q]>>
  BY <1>2 DEF Receive, AddCheck, MergeAttempt, tables, Inv, Bookkeeping, TypeOK
<1>3. ASSUME NEW r \in Request,
             \/ ResolveFound(r) \/ ResolveNothing(r) \/ ResolveMissing(r) \/ CreateAccount(r)
             \/ AddUnknown(r) \/ MergeBegin(r) \/ Delete(r) \/ ReadBack(r)
      PROVE  UNCHANGED <<clock, dirty, op, missing>>
  BY <1>3 DEF ResolveFound, ResolveNothing, ResolveMissing, CreateAccount, AddUnknown,
     MergeBegin, Delete, ReadBack, tables, local
<1>4. ASSUME NEW r \in Request,
             AddConflict(r) \/ MergeConflict(r) \/ Commit(r) \/ BreakDeadlock(r) \/ Abort(r)
      PROVE  UNCHANGED <<clock, op, missing>> /\ dirty' = [dirty EXCEPT ![r] = NoRows]
  BY <1>4 DEF AddConflict, MergeConflict, Commit, BreakDeadlock, Abort, Fail, Rollback,
     tables, local
<1>5. dirty \in [Request -> [Player -> Nat]] BY DEF TypeOK
<1>6. QED BY <1>1, <1>2, <1>3, <1>4, <1>5 DEF Next, Step

LEMMA InsertKeepsOrder ==
  ASSUME TypeOK, Inv, InOfferOrder, NEW r \in Request, InsertRow(r)
  PROVE  InOfferOrder'
<1>1. PICK p \in Player :
        IsNext(r, p) /\ Insertable(p) /\ dirty' = [dirty EXCEPT ![r][p] = clock]
  BY DEF InsertRow
<1>2. clock \in Nat \ {0} /\ clock' = clock + 1 /\ UNCHANGED <<op, missing>>
  BY DEF InsertRow, local, TypeOK
<1>3. p \in missing[r] \ Held(r) BY <1>1 DEF IsNext
<1>4. /\ dirty'[r][p] = clock
      /\ \A x \in Player \ {p} : dirty'[r][x] = dirty[r][x]
      /\ \A q \in Request \ {r} : dirty'[q] = dirty[q]
  BY <1>1 DEF TypeOK
<1>5. /\ Held(r)' = Held(r) \cup {p}
      /\ \A q \in Request \ {r} : Held(q)' = Held(q)
  BY <1>2, <1>4 DEF Held
<1>6. \A q \in Request : \A x \in Held(q) : x \in Player /\ dirty[q][x] \in Nat /\ dirty[q][x] < clock
  BY DEF InOfferOrder, Held, TypeOK
<1>7. ASSUME NEW q \in Request, NEW x \in Held(q)' PROVE dirty'[q][x] < clock'
  <2>1. CASE q = r /\ x = p BY <1>2, <1>4, <2>1
  <2>2. CASE ~(q = r /\ x = p)
    <3>1. x \in Held(q) /\ dirty'[q][x] = dirty[q][x] BY <1>4, <1>5, <1>6, <1>7, <2>2
    <3>2. QED BY <1>2, <1>6, <3>1
  <2>3. QED BY <2>1, <2>2
<1>8. ASSUME NEW q \in Request, NEW i \in 1..Len(op[q].offer), NEW j \in 1..Len(op[q].offer),
             i < j, FirstAt(q, i), FirstAt(q, j),
             op[q].offer[i] \in missing[q], op[q].offer[j] \in Held(q)'
      PROVE  /\ op[q].offer[i] \in Held(q)'
             /\ dirty'[q][op[q].offer[i]] < dirty'[q][op[q].offer[j]]
  <2>1. CASE op[q].offer[j] \in Held(q)
    <3>1. op[q].offer[i] \in Held(q) /\ dirty[q][op[q].offer[i]] < dirty[q][op[q].offer[j]]
      BY <1>8, <2>1 DEF InOfferOrder
    <3>2. \A x \in Held(q) : dirty'[q][x] = dirty[q][x] BY <1>3, <1>4, <1>6
    <3>3. QED BY <1>5, <2>1, <3>1, <3>2
  <2>2. CASE op[q].offer[j] \notin Held(q)
    <3>1. q = r /\ op[r].offer[j] = p BY <1>5, <1>8, <2>2
    <3>2. PICK n \in 1..Len(op[r].offer) :
            /\ op[r].offer[n] = p
            /\ \A k \in 1..(n - 1) : op[r].offer[k] \notin missing[r] \ Held(r)
      BY <1>1 DEF IsNext
    <3>3. j =< n
      <4>1. SUFFICES ASSUME n < j PROVE FALSE BY <3>1
      <4>2. n \in 1..(j - 1) BY <4>1
      <4>3. QED BY <1>8, <3>1, <3>2, <4>2 DEF FirstAt
    <3>4. i \in 1..(n - 1) BY <1>8, <3>1, <3>3
    <3>5. op[r].offer[i] \in Held(r) BY <1>8, <3>1, <3>2, <3>4
    <3>6. dirty'[r][op[r].offer[i]] = dirty[r][op[r].offer[i]] BY <1>3, <1>4, <1>6, <3>5
    <3>7. dirty[r][op[r].offer[i]] < clock BY <1>6, <3>5
    <3>8. QED BY <1>4, <1>5, <3>1, <3>5, <3>6, <3>7
  <2>3. QED BY <2>1, <2>2
<1>9. \A q \in Request, i \in Nat : FirstAt(q, i)' = FirstAt(q, i) BY <1>2 DEF FirstAt
<1>10. QED BY <1>2, <1>7, <1>8, <1>9 DEF InOfferOrder

LEMMA StepOrder ==
  ASSUME TypeOK, Inv, InOfferOrder, [Next]_vars
  PROVE  InOfferOrder'
<1>1. ASSUME NEW q \in Request,
             \/ dirty'[q] = NoRows
             \/ Held(q) = {} /\ dirty'[q] = dirty[q]
      PROVE  Held(q)' = {}
  BY <1>1 DEF Held, NoRows
<1>2. ASSUME NEW q \in Request, UNCHANGED <<dirty[q], op[q], missing[q]>>
      PROVE  /\ Held(q)' = Held(q)
             /\ \A i : FirstAt(q, i)' = FirstAt(q, i)
  BY <1>2 DEF Held, FirstAt
<1>3. CASE /\ clock' = clock
           /\ \A q \in Request :
                \/ dirty'[q] = NoRows
                \/ Held(q) = {} /\ dirty'[q] = dirty[q]
                \/ UNCHANGED <<dirty[q], op[q], missing[q]>>
  <2>1. ASSUME NEW q \in Request
        PROVE  /\ \A p \in Held(q)' : dirty'[q][p] < clock'
               /\ \A i, j \in 1..Len(op'[q].offer) :
                    /\ i < j /\ FirstAt(q, i)' /\ FirstAt(q, j)'
                    /\ op'[q].offer[i] \in missing'[q] /\ op'[q].offer[j] \in Held(q)'
                    => /\ op'[q].offer[i] \in Held(q)'
                       /\ dirty'[q][op'[q].offer[i]] < dirty'[q][op'[q].offer[j]]
    <3>1. CASE Held(q)' = {} BY <3>1
    <3>2. CASE UNCHANGED <<dirty[q], op[q], missing[q]>>
      BY <1>2, <1>3, <3>2 DEF InOfferOrder
    <3>3. QED BY <1>1, <1>3, <3>1, <3>2
  <2>2. QED BY <2>1 DEF InOfferOrder
<1>4. QED BY <1>3, InsertKeepsOrder, Blocks

(* Only a commit takes a request from its inserts to the read-back with
   something changed. *)
LEMMA OnlyCommits ==
  ASSUME TypeOK, [Next]_vars, NEW r \in Request,
         pc[r] = "insert", pc'[r] = "read", changed'[r] # changed[r]
  PROVE  Commit(r)
<1>1. PICK q \in Request : Receive(q) \/ Commit(q) \/ Delete(q) BY ReportingSteps
<1>2. pc \in [Request -> Label] BY DEF TypeOK
<1>3. q = r BY <1>1, <1>2 DEF Receive, Commit, Delete, Goto
<1>4. QED BY <1>1, <1>3 DEF Receive, Delete

(* What a merge adds is stamped in the order in which the guest first offered
   it, however often the block was rolled back and retried and whatever else
   was saved meanwhile (merge_favorites, contract 3). *)
THEOREM GuestOrderKeptCorrect == Spec => GuestOrderKept
<1> DEFINE Appended ==
      \A r \in Request :
        pc[r] = "insert" /\ pc'[r] = "read" /\ changed'[r] # changed[r] =>
          LET o == op[r].offer
              New(i) == o[i] \in changed'[r] /\ \A k \in 1..(i - 1) : o[k] # o[i]
          IN  \A i, j \in 1..Len(o) :
                i < j /\ New(i) /\ New(j) => rows'[o[i]] < rows'[o[j]]
<1>1. Init => InOfferOrder BY InitOrder
<1>2. IInv /\ InOfferOrder /\ [Next]_vars => InOfferOrder' BY StepOrder DEF IInv, Inv
<1>3. IInv /\ InOfferOrder /\ [Next]_vars => Appended
  <2>1. ASSUME IInv, InOfferOrder, [Next]_vars, NEW r \in Request,
               pc[r] = "insert", pc'[r] = "read", changed'[r] # changed[r],
               NEW i \in 1..Len(op[r].offer), NEW j \in 1..Len(op[r].offer), i < j,
               op[r].offer[i] \in changed'[r], FirstAt(r, i),
               op[r].offer[j] \in changed'[r], FirstAt(r, j)
        PROVE  rows'[op[r].offer[i]] < rows'[op[r].offer[j]]
    <3>1. Commit(r) BY <2>1, OnlyCommits DEF IInv
    <3>2. changed'[r] = Held(r) BY <2>1, <3>1 DEF Commit, IInv, TypeOK
    <3>3. \A p \in Held(r) : rows'[p] = dirty[r][p] /\ p \in missing[r]
      BY <2>1, <3>1 DEF Commit, Held, IInv, Bookkeeping
    <3>4. dirty[r][op[r].offer[i]] < dirty[r][op[r].offer[j]]
      BY <2>1, <3>2, <3>3 DEF InOfferOrder
    <3>5. QED BY <2>1, <3>2, <3>3, <3>4
  <2>2. QED BY <2>1 DEF FirstAt
<1>4. QED BY <1>1, <1>2, <1>3, InvCorrect, PTL DEF Spec, GuestOrderKept

-----------------------------------------------------------------------------
(* What a merge reports.                                                   *)

(* From the read of `before` on, the list differs from it only by what other
   requests have committed since, and what the merge inserts was not on it. *)
Begun(r) == op[r].kind = "merge" /\ pc[r] \in {"attempt", "insert", "read"}

Explained(r) ==
  /\ \A p \in Canonical \ before[r] : Since(r, Savers, p)
  /\ \A p \in before[r] \ Canonical : Since(r, Removers, p)
  /\ \A p \in before[r] \cap changed[r] : Since(r, Removers, p)

ReportInv ==
  /\ \A r \in Request : prior[r] \subseteq {q \in Request : changed[q] # {}}
  /\ \A r \in Request : op[r].kind = "merge" => changed[r] \subseteq Wanted(r)
  /\ \A r \in Request : Begun(r) => Explained(r)
  /\ ReportsExplained

LEMMA InitReport == Init => ReportInv
BY DEF Init, ReportInv, ReportsExplained, Begun, Contract!NoOp

(* Most steps change nothing a report depends on, let no merge begin and answer
   none. *)
Quiet ==
  /\ UNCHANGED <<rows, changed, op, before, prior>>
  /\ \A r \in Request : Begun(r)' => Begun(r)
  /\ \A r \in Request :
       op[r].kind = "merge" /\ pc'[r] = "done" /\ reply'[r].status = "ok" =>
         pc[r] = "done" /\ reply'[r] = reply[r]

LEMMA MostAreQuiet ==
  ASSUME TypeOK, Inv, [Next]_vars
  PROVE  \/ Quiet
         \/ \E r \in Request :
              Receive(r) \/ MergeBegin(r) \/ Commit(r) \/ Delete(r) \/ ReadBack(r)
<1>1. CASE UNCHANGED vars BY <1>1 DEF vars, Quiet, Begun
<1>2. ASSUME NEW r \in Request, ResolveFound(r) \/ CreateAccount(r) PROVE Quiet
  <2>1. UNCHANGED <<rows, changed, op, before, prior, reply>>
    BY <1>2 DEF ResolveFound, CreateAccount, tables, local
  <2>2. PICK label \in {"read", "delete", "check"} :
          Goto(r, label) /\ (label = "read" => op[r].kind = "list")
    <3>1. op[r].kind \in {"add", "remove", "merge", "list"} BY OfferType DEF TypeOK
    <3>2. QED BY <1>2, <3>1 DEF ResolveFound, CreateAccount, Begin
  <2>3. \A q \in Request : Begun(q)' => Begun(q) BY <2>1, <2>2 DEF Begun, Goto, TypeOK
  <2>4. \A q \in Request : pc'[q] = "done" => pc[q] = "done" BY <2>2 DEF Goto, TypeOK
  <2>5. QED BY <2>1, <2>3, <2>4 DEF Quiet
<1>3. ASSUME NEW r \in Request,
             ResolveMissing(r) \/ AddCheck(r) \/ MergeAttempt(r) \/ AddConflict(r) \/ MergeConflict(r)
      PROVE  Quiet
  <2>1. UNCHANGED <<rows, changed, op, before, prior, reply>>
    BY <1>3 DEF ResolveMissing, AddCheck, MergeAttempt, AddConflict, MergeConflict, Rollback,
       tables, local
  <2>2. PICK label \in {"create", "read", "insert", "attempt"} : Goto(r, label)
    BY <1>3 DEF ResolveMissing, AddCheck, MergeAttempt, AddConflict, MergeConflict
  <2>3. Begun(r)' => Begun(r)
    BY <1>3, <2>1, <2>2
    DEF Begun, ResolveMissing, AddCheck, MergeAttempt, AddConflict, MergeConflict, Goto, TypeOK
  <2>4. \A q \in Request : Begun(q)' => Begun(q)
    BY <2>1, <2>2, <2>3 DEF Begun, Goto, TypeOK
  <2>5. \A q \in Request : pc'[q] = "done" => pc[q] = "done" BY <2>2 DEF Goto, TypeOK
  <2>6. QED BY <2>1, <2>4, <2>5 DEF Quiet
<1>4. ASSUME NEW r \in Request, InsertRow(r) PROVE Quiet
  BY <1>4 DEF InsertRow, local, Quiet, Begun
<1>5. ASSUME NEW r \in Request,
             ResolveNothing(r) \/ AddUnknown(r) \/ BreakDeadlock(r) \/ Abort(r)
      PROVE  Quiet
  <2>1. UNCHANGED <<rows, changed, op, before, prior>>
    BY <1>5 DEF ResolveNothing, AddUnknown, BreakDeadlock, Abort, Fail, tables, local
  <2>2. PICK status \in Status : Finish(r, status, {}) /\ (status = "ok" => op[r].kind # "merge")
    BY <1>5 DEF ResolveNothing, AddUnknown, BreakDeadlock, Abort, Fail, Materializes
  <2>3. pc' = [pc EXCEPT ![r] = "done"] /\ reply'[r].status = status
        /\ \A q \in Request \ {r} : reply'[q] = reply[q]
    BY <2>2 DEF Finish, Goto, TypeOK
  <2>4. \A q \in Request : Begun(q)' => Begun(q) BY <2>1, <2>3 DEF Begun, TypeOK
  <2>5. ASSUME NEW q \in Request, op[q].kind = "merge", pc'[q] = "done", reply'[q].status = "ok"
        PROVE  pc[q] = "done" /\ reply'[q] = reply[q]
    BY <2>2, <2>3, <2>5 DEF TypeOK
  <2>6. QED BY <2>1, <2>4, <2>5 DEF Quiet
<1>6. QED BY <1>1, <1>2, <1>3, <1>4, <1>5 DEF Next, Step

(* What is committed stays committed, by a request that asks what it asked. *)
LEMMA CommitsStay ==
  ASSUME TypeOK, LedgerInv, [Next]_vars, NEW q \in Request, changed[q] # {}
  PROVE  op'[q] = op[q] /\ changed'[q] = changed[q]
<1>1. pc[q] \in {"read", "done"} BY DEF LedgerInv, Uncommitted
<1>2. CASE UNCHANGED <<rows, changed, op>> BY <1>2
<1>3. ASSUME NEW r \in Request, Receive(r) \/ Commit(r) \/ Delete(r)
      PROVE  op'[q] = op[q] /\ changed'[q] = changed[q]
  <2>1. q # r BY <1>1, <1>3 DEF Receive, Commit, Delete
  <2>2. QED BY <1>3, <2>1 DEF Receive, Commit, Delete, TypeOK
<1>4. QED BY <1>2, <1>3, ReportingSteps

LEMMA SinceStays ==
  ASSUME TypeOK, LedgerInv, [Next]_vars, NEW r \in Request, NEW kinds, NEW p,
         prior'[r] = prior[r], Since(r, kinds, p)
  PROVE  Since(r, kinds, p)'
<1>1. PICK q \in Request \ prior[r] : op[q].kind \in kinds /\ p \in changed[q] BY DEF Since
<1>2. op'[q] = op[q] /\ changed'[q] = changed[q] BY <1>1, CommitsStay
<1>3. QED BY <1>1, <1>2 DEF Since

(* What a merge that has begun finds different is what was committed since. *)
LEMMA StillExplained ==
  ASSUME TypeOK, Inv, LedgerInv, ReportInv, [Next]_vars, NEW r \in Request, Begun(r),
         before'[r] = before[r], prior'[r] = prior[r]
  PROVE  Explained(r)'
<1>0. Explained(r) BY DEF ReportInv
<1>1. \A kinds, p : Since(r, kinds, p) => Since(r, kinds, p)' BY SinceStays
<1>2. CASE UNCHANGED <<rows, changed, op>>
  <2>1. Canonical' = Canonical BY <1>2 DEF Canonical
  <2>2. QED BY <1>0, <1>1, <1>2, <2>1 DEF Explained
<1>3. ASSUME NEW q \in Request, Receive(q) PROVE Explained(r)'
  <2>1. Canonical' = Canonical /\ changed' = changed BY <1>3 DEF Receive, tables, Canonical
  <2>2. QED BY <1>0, <1>1, <2>1 DEF Explained
<1>4. ASSUME NEW q \in Request, Commit(q) PROVE Explained(r)'
  <2>1. Canonical' = Canonical \cup Held(q) BY <1>4 DEF Commit, Canonical, Held, TypeOK
  <2>2. Held(q) \cap Canonical = {} BY DEF Inv, KeysExclusive, Canonical
  <2>3. changed[q] = {} /\ op[q].kind \in Savers
    BY <1>4 DEF Commit, LedgerInv, Uncommitted, Inv, Bookkeeping, Materializes, Savers
  <2>4. q \notin prior[r] BY <2>3 DEF ReportInv
  <2>5. changed' = [changed EXCEPT ![q] = Held(q)] /\ op' = op BY <1>4 DEF Commit
  <2>6. \A p \in Held(q) : Since(r, Savers, p)'
    BY <2>3, <2>4, <2>5 DEF Since, TypeOK
  <2>7. \A p \in Canonical' \ before'[r] : Since(r, Savers, p)'
    BY <1>0, <1>1, <2>1, <2>6 DEF Explained
  <2>8. \A p \in before'[r] \ Canonical' : Since(r, Removers, p)'
    BY <1>0, <1>1, <2>1 DEF Explained
  <2>9. \A p \in before'[r] \cap changed'[r] : Since(r, Removers, p)'
    <3>1. CASE q = r
      <4>1. changed'[r] = Held(r) BY <2>5, <3>1 DEF TypeOK
      <4>2. \A p \in before[r] \cap Held(r) : p \in before[r] \ Canonical BY <2>2, <3>1
      <4>3. QED BY <1>0, <1>1, <4>1, <4>2 DEF Explained
    <3>2. CASE q # r
      <4>1. changed'[r] = changed[r] BY <2>5, <3>2 DEF TypeOK
      <4>2. QED BY <1>0, <1>1, <4>1 DEF Explained
    <3>3. QED BY <3>1, <3>2
  <2>10. QED BY <2>7, <2>8, <2>9 DEF Explained
<1>5. ASSUME NEW q \in Request, Delete(q) PROVE Explained(r)'
  <2>1. Canonical' = Canonical \ Offered(q) BY <1>5 DEF Delete, Canonical, TypeOK
  <2>2. changed[q] = {} /\ op[q].kind \in Removers /\ op[q].kind # "merge"
    BY <1>5 DEF Delete, LedgerInv, Uncommitted, Inv, Bookkeeping, Removers
  <2>3. q \notin prior[r] BY <2>2 DEF ReportInv
  <2>4. changed' = [changed EXCEPT ![q] = Offered(q) \cap Canonical] /\ op' = op
    BY <1>5 DEF Delete
  <2>5. \A p \in Offered(q) \cap Canonical : Since(r, Removers, p)'
    BY <2>2, <2>3, <2>4 DEF Since, TypeOK
  <2>6. q # r BY <2>2 DEF Begun
  <2>7. changed'[r] = changed[r] BY <2>4, <2>6 DEF TypeOK
  <2>8. \A p \in Canonical' \ before'[r] : Since(r, Savers, p)'
    BY <1>0, <1>1, <2>1 DEF Explained
  <2>9. \A p \in before'[r] \ Canonical' : Since(r, Removers, p)'
    BY <1>0, <1>1, <2>1, <2>5 DEF Explained
  <2>10. \A p \in before'[r] \cap changed'[r] : Since(r, Removers, p)'
    BY <1>0, <1>1, <2>7 DEF Explained
  <2>11. QED BY <2>8, <2>9, <2>10 DEF Explained
<1>6. QED BY <1>2, <1>3, <1>4, <1>5, ReportingSteps

(* An answered merge stays as explained as it was. *)
LEMMA StillReported ==
  ASSUME TypeOK, LedgerInv, ReportInv, [Next]_vars, NEW r \in Request,
         prior'[r] = prior[r], op'[r] = op[r], changed'[r] = changed[r],
         reply'[r] = reply[r], pc[r] = "done",
         op[r].kind = "merge", reply[r].status = "ok"
  PROVE  /\ reply'[r].told \subseteq reply'[r].listed
         /\ \A p \in reply'[r].told : Since(r, Savers, p)'
         /\ \A p \in changed'[r] \ reply'[r].told : Since(r, Removers, p)'
<1>1. /\ reply[r].told \subseteq reply[r].listed
      /\ \A p \in reply[r].told : Since(r, Savers, p)
      /\ \A p \in changed[r] \ reply[r].told : Since(r, Removers, p)
  BY DEF ReportInv, ReportsExplained, Savers, Removers
<1>2. QED BY <1>1, SinceStays

(* The answer itself: what is listed holds all that was wanted. *)
LEMMA AnswerExplained ==
  ASSUME TypeOK, LedgerInv, ReportInv, [Next]_vars, NEW r \in Request, ReadBack(r),
         op[r].kind = "merge", reply'[r].status = "ok"
  PROVE  /\ reply'[r].told \subseteq reply'[r].listed
         /\ \A p \in reply'[r].told : Since(r, Savers, p)'
         /\ \A p \in changed'[r] \ reply'[r].told : Since(r, Removers, p)'
<1>1. UNCHANGED <<changed, op, prior>> BY DEF ReadBack, local
<1>2. Wanted(r) \subseteq Canonical /\ Finish(r, "ok", Canonical)
  <2>1. CASE ~(Wanted(r) \subseteq Canonical)
    <3>1. Finish(r, "conflict", {}) BY <2>1 DEF ReadBack
    <3>2. QED BY <3>1 DEF Finish, TypeOK
  <2>2. QED BY <2>1 DEF ReadBack
<1>3. reply'[r].listed = Canonical /\ reply'[r].told = Wanted(r) \ before[r]
  BY <1>2 DEF Finish, Reported, TypeOK
<1>4. Explained(r) /\ changed[r] \subseteq Wanted(r) BY DEF ReportInv, ReadBack, Begun
<1>5. \A p \in reply'[r].told : Since(r, Savers, p) BY <1>2, <1>3, <1>4 DEF Explained
<1>6. \A p \in changed'[r] \ reply'[r].told : Since(r, Removers, p)
  BY <1>1, <1>3, <1>4 DEF Explained
<1>7. QED BY <1>1, <1>2, <1>3, <1>5, <1>6, SinceStays

LEMMA StepReport ==
  ASSUME TypeOK, Inv, LedgerInv, ReportInv, [Next]_vars
  PROVE  ReportInv'
<1>1. \A r \in Request : prior'[r] \subseteq {q \in Request : changed'[q] # {}}
  <2>1. \A r \in Request :
          prior'[r] = prior[r] \/ prior'[r] = {q \in Request : changed[q] # {}}
    <3>1. CASE Quiet BY <3>1 DEF Quiet
    <3>2. ASSUME NEW r \in Request, Receive(r) \/ Commit(r) \/ Delete(r) \/ ReadBack(r)
          PROVE  prior' = prior
      BY <3>2 DEF Receive, Commit, Delete, ReadBack, local
    <3>3. ASSUME NEW r \in Request, MergeBegin(r)
          PROVE  \A q \in Request :
                   prior'[q] = prior[q] \/ prior'[q] = {x \in Request : changed[x] # {}}
      BY <3>3 DEF MergeBegin, TypeOK
    <3>4. QED BY <3>1, <3>2, <3>3, MostAreQuiet
  <2>2. \A q \in Request : changed[q] # {} => changed'[q] # {} BY CommitsStay
  <2>3. QED BY <2>1, <2>2 DEF ReportInv
<1>2. ASSUME NEW r \in Request, op'[r].kind = "merge" PROVE changed'[r] \subseteq Wanted(r)'
  <2>1. CASE UNCHANGED <<rows, changed, op>> BY <1>2, <2>1 DEF ReportInv, Wanted
  <2>2. ASSUME NEW q \in Request, Receive(q) PROVE changed'[r] \subseteq Wanted(r)'
    <3>1. CASE q = r
      BY <2>2, <3>1 DEF Receive, LedgerInv, Uncommitted
    <3>2. CASE q # r
      BY <1>2, <2>2, <3>2 DEF Receive, ReportInv, Wanted, TypeOK
    <3>3. QED BY <3>1, <3>2
  <2>3. ASSUME NEW q \in Request, Commit(q) PROVE changed'[r] \subseteq Wanted(r)'
    <3>1. op' = op /\ changed' = [changed EXCEPT ![q] = Held(q)] BY <2>3 DEF Commit
    <3>2. Held(q) \subseteq Wanted(q) BY DEF Inv, Bookkeeping
    <3>3. QED BY <1>2, <3>1, <3>2 DEF ReportInv, Wanted, TypeOK
  <2>4. ASSUME NEW q \in Request, Delete(q) PROVE changed'[r] \subseteq Wanted(r)'
    <3>1. op' = op /\ \A x \in Request \ {q} : changed'[x] = changed[x] BY <2>4 DEF Delete, TypeOK
    <3>2. r # q BY <1>2, <2>4, <3>1 DEF Delete, Inv, Bookkeeping
    <3>3. QED BY <1>2, <3>1, <3>2 DEF ReportInv, Wanted
  <2>5. QED BY <2>1, <2>2, <2>3, <2>4, ReportingSteps
<1>3. ASSUME NEW r \in Request, Begun(r)' PROVE Explained(r)'
  <2>1. CASE Quiet BY <1>3, <2>1, StillExplained DEF Quiet
  <2>2. ASSUME NEW q \in Request, Receive(q) PROVE Explained(r)'
    <3>1. q # r BY <1>3, <2>2 DEF Receive, Goto, Begun, TypeOK
    <3>2. Begun(r) /\ UNCHANGED <<before, prior>>
      BY <1>3, <2>2, <3>1 DEF Receive, Goto, Begun, TypeOK
    <3>3. QED BY <3>2, StillExplained
  <2>3. ASSUME NEW q \in Request, MergeBegin(q) PROVE Explained(r)'
    <3>1. CASE q = r
      <4>1. before'[r] = Canonical /\ Canonical' = Canonical
        BY <2>3, <3>1 DEF MergeBegin, TypeOK, tables, Canonical
      <4>2. changed'[r] = {} BY <2>3, <3>1 DEF MergeBegin, LedgerInv, Uncommitted
      <4>3. QED BY <4>1, <4>2 DEF Explained
    <3>2. CASE q # r
      <4>1. Begun(r) /\ before'[r] = before[r] /\ prior'[r] = prior[r]
        BY <1>3, <2>3, <3>2 DEF MergeBegin, Goto, Begun, TypeOK
      <4>2. QED BY <4>1, StillExplained
    <3>3. QED BY <3>1, <3>2
  <2>4. ASSUME NEW q \in Request, Commit(q) PROVE Explained(r)'
    <3>1. Begun(r) /\ UNCHANGED <<before, prior>>
      BY <1>3, <2>4 DEF Commit, Goto, Begun, TypeOK
    <3>2. QED BY <3>1, StillExplained
  <2>5. ASSUME NEW q \in Request, Delete(q) PROVE Explained(r)'
    <3>1. Begun(r) /\ UNCHANGED <<before, prior>>
      BY <1>3, <2>5 DEF Delete, Goto, Begun, TypeOK, Inv, Bookkeeping
    <3>2. QED BY <3>1, StillExplained
  <2>6. ASSUME NEW q \in Request, ReadBack(q) PROVE Explained(r)'
    <3>1. UNCHANGED <<before, prior, op>> /\ pc' = [pc EXCEPT ![q] = "done"]
      BY <2>6 DEF ReadBack, Finish, Goto, local
    <3>2. Begun(r) BY <1>3, <3>1 DEF Begun, TypeOK
    <3>3. QED BY <3>1, <3>2, StillExplained
  <2>7. QED BY <2>1, <2>2, <2>3, <2>4, <2>5, <2>6, MostAreQuiet
<1>4. ASSUME NEW r \in Request, op'[r].kind = "merge", pc'[r] = "done", reply'[r].status = "ok"
      PROVE  /\ reply'[r].told \subseteq reply'[r].listed
             /\ \A p \in reply'[r].told : Since(r, Savers, p)'
             /\ \A p \in changed'[r] \ reply'[r].told : Since(r, Removers, p)'
  <2>1. CASE Quiet
    <3>1. pc[r] = "done" /\ reply'[r] = reply[r] BY <1>4, <2>1 DEF Quiet
    <3>2. QED BY <1>4, <2>1, <3>1, StillReported DEF Quiet
  <2>2. ASSUME NEW q \in Request, Receive(q) \/ MergeBegin(q) \/ Commit(q) \/ Delete(q)
        PROVE  /\ pc[r] = "done" /\ reply'[r] = reply[r]
               /\ op'[r] = op[r] /\ prior'[r] = prior[r] /\ changed'[r] = changed[r]
    <3>1. q # r BY <1>4, <2>2 DEF Receive, MergeBegin, Commit, Delete, Goto, TypeOK
    <3>2. QED BY <1>4, <2>2, <3>1 DEF Receive, MergeBegin, Commit, Delete, Goto, TypeOK
  <2>3. ASSUME NEW q \in Request, ReadBack(q), q # r
        PROVE  /\ pc[r] = "done" /\ reply'[r] = reply[r]
               /\ op'[r] = op[r] /\ prior'[r] = prior[r] /\ changed'[r] = changed[r]
    <3>1. UNCHANGED <<op, prior, changed>> BY <2>3 DEF ReadBack, local
    <3>2. pc'[r] = pc[r] /\ reply'[r] = reply[r] BY <2>3 DEF ReadBack, Finish, Goto, TypeOK
    <3>3. QED BY <1>4, <3>1, <3>2
  <2>4. CASE ReadBack(r)
    <3>1. op' = op BY <2>4 DEF ReadBack, local
    <3>2. QED BY <1>4, <2>4, <3>1, AnswerExplained
  <2>5. ASSUME pc[r] = "done" /\ reply'[r] = reply[r],
               op'[r] = op[r] /\ prior'[r] = prior[r] /\ changed'[r] = changed[r]
        PROVE  /\ reply'[r].told \subseteq reply'[r].listed
               /\ \A p \in reply'[r].told : Since(r, Savers, p)'
               /\ \A p \in changed'[r] \ reply'[r].told : Since(r, Removers, p)'
    BY <1>4, <2>5, StillReported
  <2>6. QED BY <2>1, <2>2, <2>3, <2>4, <2>5, MostAreQuiet
<1>5. ReportsExplained' BY <1>4 DEF ReportsExplained, Savers, Removers
<1>6. QED BY <1>1, <1>2, <1>3, <1>5 DEF ReportInv

(* However many calls run into one another, a merge that is answered reports a
   player as added that it did not insert only when another call did since it
   began, and reports one it did insert as already there only when a removal
   came between (merge_favorites: `before`, `added`, `already_present`). *)
THEOREM ReportsExplainedCorrect == Spec => []ReportsExplained
<1>1. Init => LedgerInv /\ ReportInv BY InitLedger, InitReport
<1>2. IInv /\ LedgerInv /\ ReportInv /\ [Next]_vars => (LedgerInv /\ ReportInv)'
  BY StepLedger, StepReport DEF IInv, Inv
<1>3. ReportInv => ReportsExplained BY DEF ReportInv
<1>4. QED BY <1>1, <1>2, <1>3, InvCorrect, PTL DEF Spec

-----------------------------------------------------------------------------
(* The refinement: what each step is to a caller. *)

(* A single-player request offers one player. *)
LEMMA SingleOffer ==
  ASSUME NEW o \in Op, o.kind \in {"add", "remove"}
  PROVE  \E p \in Player : o.offer = <<p>> /\ Contract!Offered(o) = {p}
<1>1. PICK p \in Player : o.offer = <<p>> BY DEF Op, Contract!Op
<1>2. Len(<<p>>) = 1 /\ <<p>>[1] = p OBVIOUS
<1>3. Contract!Offered(o) = {p} BY <1>1, <1>2 DEF Contract!Offered
<1>4. QED BY <1>1, <1>3

LEMMA InitRefines == Init => Contract!Init
BY DEF Init, Contract!Init, Canonical, Phase, Witnessed, NoRows, Op, Contract!Op, Contract!NoOp

(* A step that leaves the list, what is asked and what is answered alone, and
   moves its request within the handler, is invisible. *)
LEMMA Invisible ==
  ASSUME TypeOK, NEW r \in Request,
         pc' \in [Request -> Label], \A q \in Request \ {r} : pc'[q] = pc[q],
         pc[r] \notin {"idle", "done"}, pc'[r] \notin {"idle", "done"},
         Witnessed(r)' = Witnessed(r),
         rows' = rows, op' = op, reply' = reply
  PROVE  UNCHANGED Contract!vars
<1>1. \A q \in Request : Phase(q)' = Phase(q) /\ Witnessed(q)' = Witnessed(q)
  BY DEF Phase, Witnessed, TypeOK
<1>2. QED BY <1>1 DEF Contract!vars, Canonical

(* An answered or refused request is the only one whose phase moves. *)
LEMMA Refused ==
  ASSUME TypeOK, Inv, NEW r \in Request, NEW status \in Status \ {"ok"},
         pc[r] \notin {"idle", "done"}, Finish(r, status, {}),
         rows' = rows, op' = op
  PROVE  Contract!Next
<1>1. /\ Phase(r) = "open" /\ Phase(r)' = "refused"
      /\ \A q \in Request \ {r} : Phase(q)' = Phase(q)
  BY DEF Phase, Finish, Goto, TypeOK
<1>2. Witnessed(r)' = FALSE /\ \A q \in Request \ {r} : Witnessed(q)' = Witnessed(q)
  BY DEF Witnessed, Finish, Goto, TypeOK
<1>3. \A q \in Request : reply'[q].listed = reply[q].listed
  BY DEF Finish, TypeOK, Inv, Bookkeeping
<1>4. Contract!Refuse(r) BY <1>1, <1>2, <1>3 DEF Contract!Refuse, Canonical
<1>5. QED BY <1>4 DEF Contract!Next

(* An answered add or removal has seen its goal hold; nothing else has. *)
LEMMA GoalSeen ==
  ASSUME NEW r \in Request, op' = op, pc'[r] = "done", reply'[r].status = "ok"
  PROVE  Witnessed(r)' = Contract!Single(op[r])
<1>1. CASE op[r].kind \in {"add", "remove"}
  BY <1>1 DEF Witnessed, Contract!Single
<1>2. CASE op[r].kind \notin {"add", "remove"}
  <2>1. Witnessed(r)' = FALSE BY <1>2 DEF Witnessed
  <2>2. Contract!Single(op[r]) = FALSE BY <1>2 DEF Contract!Single
  <2>3. QED BY <2>1, <2>2
<1>3. QED BY <1>1, <1>2

LEMMA Answered ==
  ASSUME TypeOK, NEW r \in Request,
         pc[r] \notin {"idle", "done"}, Finish(r, "ok", Canonical),
         Witnessed(r) \/ Contract!Holds(op[r], Canonical),
         rows' = rows, op' = op
  PROVE  Contract!Next
<1>1. /\ Phase(r) = "open" /\ Phase(r)' = "ok"
      /\ \A q \in Request \ {r} : Phase(q)' = Phase(q)
  BY DEF Phase, Finish, Goto, TypeOK
<1>2. /\ Witnessed(r)' = Contract!Single(op[r])
      /\ \A q \in Request \ {r} : Witnessed(q)' = Witnessed(q)
  <2>1. pc'[r] = "done" /\ reply'[r].status = "ok" BY DEF Finish, Goto, TypeOK
  <2>2. Witnessed(r)' = Contract!Single(op[r])
    BY <2>1, GoalSeen
  <2>3. ASSUME NEW q \in Request \ {r} PROVE pc'[q] = pc[q] /\ reply'[q] = reply[q]
    BY DEF Finish, Goto, TypeOK
  <2>4. \A q \in Request \ {r} : Witnessed(q)' = Witnessed(q) BY <2>3 DEF Witnessed
  <2>5. QED BY <2>2, <2>4
<1>3. /\ reply'[r].listed = Canonical
      /\ \A q \in Request \ {r} : reply'[q].listed = reply[q].listed
  BY DEF Finish, TypeOK
<1>4. Contract!Answer(r) BY <1>1, <1>2, <1>3 DEF Contract!Answer, Canonical
<1>5. QED BY <1>4 DEF Contract!Next

(* The step at which a request takes effect moves it to the read-back. *)
LEMMA Taken ==
  ASSUME TypeOK, NEW r \in Request, Goto(r, "read"),
         pc[r] \notin {"idle", "done"}, op' = op, reply' = reply,
         \/ \E P \in SUBSET Wanted(r) : Canonical' = Canonical \cup P
         \/ op[r].kind = "remove" /\ Canonical' = Canonical \ Offered(r),
         op[r].kind \in {"add", "remove"} => Contract!Holds(op[r], Canonical')
  PROVE  Contract!Next
<1>1. Phase(r) = "open" /\ \A q \in Request : Phase(q)' = Phase(q)
  BY DEF Phase, Goto, TypeOK
<1>2. /\ Witnessed(r)' = (Contract!Single(op[r]) /\ Contract!Holds(op[r], Canonical'))
      /\ \A q \in Request \ {r} : Witnessed(q)' = Witnessed(q)
  BY DEF Witnessed, Contract!Single, Goto, TypeOK
<1>3. Contract!Take(r)
  BY <1>1, <1>2 DEF Contract!Take, Wanted, Offered
<1>4. QED BY <1>3 DEF Contract!Next

LEMMA StepRefines ==
  ASSUME TypeOK, TypeOK', Inv, [Next]_vars
  PROVE  [Contract!Next]_Contract!vars
<1>1. CASE UNCHANGED vars
  BY <1>1 DEF vars, Contract!vars, Canonical, Phase, Witnessed
<1>2. ASSUME NEW r \in Request, Receive(r) PROVE Contract!Next
  <2>1. /\ Phase(r) = "new" /\ Phase(r)' = "open"
        /\ \A q \in Request \ {r} : Phase(q)' = Phase(q)
        /\ \A q \in Request : Witnessed(q)' = Witnessed(q)
    BY <1>2 DEF Receive, Goto, Phase, Witnessed, TypeOK
  <2>2. \E o \in Contract!Op : op' = [op EXCEPT ![r] = o] BY <1>2 DEF Receive, Op
  <2>3. rows' = rows /\ reply' = reply BY <1>2 DEF Receive, tables
  <2>4. Contract!Open(r) BY <2>1, <2>2, <2>3 DEF Contract!Open, Canonical
  <2>5. QED BY <2>4 DEF Contract!Next
<1>3. ASSUME NEW r \in Request, ResolveFound(r) PROVE UNCHANGED Contract!vars
  <2>1. op[r].kind \in {"add", "remove", "merge", "list"} BY OfferType DEF TypeOK
  <2>2. PICK label \in {"read", "delete", "check"} :
          Goto(r, label) /\ (label = "read" => op[r].kind = "list")
    BY <1>3, <2>1 DEF ResolveFound, Begin
  <2>3. Witnessed(r)' = Witnessed(r)
    BY <1>3, <2>2 DEF ResolveFound, Goto, Witnessed, TypeOK, tables, local
  <2>4. QED BY <1>3, <2>2, <2>3, Invisible DEF ResolveFound, Goto, TypeOK, tables, local
<1>4. ASSUME NEW r \in Request, ResolveNothing(r) PROVE Contract!Next
  <2>1. Canonical = {} BY <1>4 DEF ResolveNothing, Inv, ReadsWriteNothing
  <2>2. Contract!Holds(op[r], Canonical)
    BY <1>4, <2>1, OfferType DEF ResolveNothing, Materializes, Contract!Holds, TypeOK
  <2>3. QED BY <1>4, <2>1, <2>2, Answered DEF ResolveNothing, tables, local
<1>5. ASSUME NEW r \in Request, ResolveMissing(r) PROVE UNCHANGED Contract!vars
  BY <1>5, Invisible DEF ResolveMissing, Goto, Witnessed, TypeOK, tables, local
<1>6. ASSUME NEW r \in Request, CreateAccount(r) PROVE UNCHANGED Contract!vars
  <2>1. Goto(r, "check")
    BY <1>6 DEF CreateAccount, Begin, Inv, Bookkeeping, Materializes
  <2>2. QED BY <1>6, <2>1, Invisible DEF CreateAccount, Goto, Witnessed, TypeOK, local
<1>7. ASSUME NEW r \in Request, AddUnknown(r) PROVE Contract!Next
  BY <1>7, Refused DEF AddUnknown, tables, local
<1>8. ASSUME NEW r \in Request, AddCheck(r) PROVE [Contract!Next]_Contract!vars
  <2>1. CASE Wanted(r) \subseteq Canonical
    <3>1. Contract!Holds(op[r], Canonical')
      BY <1>8, <2>1 DEF AddCheck, Contract!Holds, Wanted, tables, Canonical
    <3>2. QED BY <1>8, <2>1, <3>1, Taken DEF AddCheck, tables, Canonical
  <2>2. CASE ~(Wanted(r) \subseteq Canonical)
    <3>1. Goto(r, "insert") /\ pc[r] = "check" /\ UNCHANGED <<rows, op, reply>>
      BY <1>8, <2>2 DEF AddCheck, tables
    <3>2. pc' \in [Request -> Label] /\ pc'[r] = "insert" /\ \A q \in Request \ {r} : pc'[q] = pc[q]
      BY <3>1 DEF Goto, TypeOK
    <3>3. Witnessed(r)' = Witnessed(r) BY <3>1, <3>2 DEF Witnessed
    <3>4. QED BY <3>1, <3>2, <3>3, Invisible
  <2>3. QED BY <2>1, <2>2
<1>9. ASSUME NEW r \in Request, MergeBegin(r) PROVE UNCHANGED Contract!vars
  <2>1. /\ Goto(r, "attempt") /\ pc[r] = "check" /\ op[r].kind = "merge"
        /\ UNCHANGED <<rows, op, reply>>
    BY <1>9 DEF MergeBegin, tables
  <2>2. pc' \in [Request -> Label] /\ pc'[r] = "attempt" /\ \A q \in Request \ {r} : pc'[q] = pc[q]
    BY <2>1 DEF Goto, TypeOK
  <2>3. Witnessed(r)' = Witnessed(r) BY <2>1 DEF Witnessed
  <2>4. QED BY <2>1, <2>2, <2>3, Invisible
<1>10. ASSUME NEW r \in Request, MergeAttempt(r) PROVE UNCHANGED Contract!vars
  <2>1. PICK label \in {"read", "insert"} : Goto(r, label) BY <1>10 DEF MergeAttempt
  <2>2. /\ pc[r] = "attempt" /\ op[r].kind = "merge" /\ UNCHANGED <<rows, op, reply>>
    BY <1>10 DEF MergeAttempt, tables, Inv, Bookkeeping
  <2>3. pc' \in [Request -> Label] /\ pc'[r] = label /\ \A q \in Request \ {r} : pc'[q] = pc[q]
    BY <2>1 DEF Goto, TypeOK
  <2>4. Witnessed(r)' = Witnessed(r) BY <2>2 DEF Witnessed
  <2>5. QED BY <2>2, <2>3, <2>4, Invisible
<1>11. ASSUME NEW r \in Request, InsertRow(r) PROVE UNCHANGED Contract!vars
  BY <1>11, Invisible DEF InsertRow, Insertable, Witnessed, TypeOK, local
<1>12. ASSUME NEW r \in Request, AddConflict(r) PROVE Contract!Next
  <2>1. PICK p \in Player : IsNext(r, p) /\ rows[p] # 0 BY <1>12 DEF AddConflict
  <2>2. p \in Wanted(r) /\ p \in Canonical
    BY <2>1 DEF IsNext, Inv, Bookkeeping, Canonical, TypeOK
  <2>3. Wanted(r) = {p}
    BY <1>12, <2>2, SingleOffer, OfferType DEF AddConflict, Rollback, TypeOK, Wanted
  <2>4. Contract!Holds(op[r], Canonical')
    BY <1>12, <2>2, <2>3 DEF AddConflict, Rollback, Contract!Holds, Wanted, tables, Canonical
  <2>5. Canonical' = Canonical \cup {} BY <1>12 DEF AddConflict, Rollback, tables, Canonical
  <2>6. UNCHANGED <<op, reply>> BY <1>12 DEF AddConflict, Rollback, local
  <2>7. QED BY <1>12, <2>4, <2>5, <2>6, Taken DEF AddConflict
<1>13. ASSUME NEW r \in Request, MergeConflict(r) PROVE UNCHANGED Contract!vars
  <2>1. PICK label \in {"read", "attempt"} : Goto(r, label) BY <1>13 DEF MergeConflict
  <2>2. /\ pc[r] = "insert" /\ op[r].kind = "merge" /\ UNCHANGED <<rows, op, reply>>
    BY <1>13 DEF MergeConflict, Rollback, tables
  <2>3. pc' \in [Request -> Label] /\ pc'[r] = label /\ \A q \in Request \ {r} : pc'[q] = pc[q]
    BY <2>1 DEF Goto, TypeOK
  <2>4. Witnessed(r)' = Witnessed(r) BY <2>2 DEF Witnessed
  <2>5. QED BY <2>2, <2>3, <2>4, Invisible
<1>14. ASSUME NEW r \in Request, Commit(r) PROVE Contract!Next
  <2>1. Canonical' = Canonical \cup Held(r) BY <1>14 DEF Commit, Canonical, Held, TypeOK
  <2>2. Held(r) \subseteq Wanted(r) /\ missing[r] \subseteq Wanted(r) /\ missing[r] # {}
    BY <1>14 DEF Commit, Inv, Bookkeeping
  <2>3. ASSUME op[r].kind \in {"add", "remove"} PROVE Contract!Holds(op[r], Canonical')
    <3>1. op[r].kind = "add" BY <1>14, <2>3 DEF Commit, Inv, Bookkeeping, Materializes
    <3>2. Wanted(r) \subseteq Held(r)
      BY <1>14, <2>2, <2>3, SingleOffer, OfferType DEF Commit, TypeOK, Wanted
    <3>3. QED BY <2>1, <2>2, <3>1, <3>2 DEF Contract!Holds, Wanted
  <2>4. QED BY <1>14, <2>1, <2>2, <2>3, Taken DEF Commit
<1>15. ASSUME NEW r \in Request, Delete(r) PROVE Contract!Next
  <2>1. op[r].kind = "remove" BY <1>15 DEF Delete, Inv, Bookkeeping
  <2>2. Canonical' = Canonical \ Offered(r) BY <1>15 DEF Delete, Canonical, TypeOK
  <2>3. Contract!Holds(op[r], Canonical') BY <2>1, <2>2 DEF Contract!Holds, Offered
  <2>4. QED BY <1>15, <2>1, <2>2, <2>3, Taken DEF Delete
<1>16. ASSUME NEW r \in Request, ReadBack(r) PROVE Contract!Next
  <2>1. UNCHANGED <<rows, op>> BY <1>16 DEF ReadBack, tables, local
  <2>2. CASE op[r].kind = "merge" /\ ~(Wanted(r) \subseteq Canonical)
    BY <1>16, <2>1, <2>2, Refused DEF ReadBack
  <2>3. CASE ~(op[r].kind = "merge" /\ ~(Wanted(r) \subseteq Canonical))
    <3>1. Witnessed(r) \/ Contract!Holds(op[r], Canonical)
      BY <1>16, <2>3, OfferType DEF ReadBack, Witnessed, Contract!Holds, Wanted, TypeOK
    <3>2. QED BY <1>16, <2>1, <2>3, <3>1, Answered DEF ReadBack
  <2>4. QED BY <2>2, <2>3
<1>17. ASSUME NEW r \in Request, BreakDeadlock(r) PROVE Contract!Next
  BY <1>17, Refused DEF BreakDeadlock, WaitsFor, Fail, tables, local
<1>18. ASSUME NEW r \in Request, Abort(r) PROVE Contract!Next
  BY <1>18, Refused DEF Abort, Rollback, Fail, tables, local
<1>19. QED
  BY <1>1, <1>2, <1>3, <1>4, <1>5, <1>6, <1>7, <1>8, <1>9, <1>10, <1>11, <1>12, <1>13, <1>14,
     <1>15, <1>16, <1>17, <1>18
  DEF Next, Step

(* The concurrent handlers implement the contract: whatever they race with and
   wherever they fail, a caller sees one list changed by single steps, no
   acknowledged favourite lost except to a removal, and no merge answered with
   a list that omits a player it offered (merge_favorites, contract 5). *)
THEOREM ContractCorrect == Spec => ContractHolds
<1>1. Init => Contract!Init BY InitRefines
<1>2. IInv /\ IInv' /\ [Next]_vars => [Contract!Next]_Contract!vars
  BY StepRefines DEF IInv, Inv
<1>3. QED BY <1>1, <1>2, InvCorrect, PTL DEF Spec, ContractHolds, Contract!Spec

===============================================================================
