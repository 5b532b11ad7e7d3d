-------------------------- MODULE SavedWorkContract --------------------------
(***************************************************************************)
(* What saved work promises a caller of the private API, for one account   *)
(* and one collection (saved views or saved comparisons), with the         *)
(* database taken away.  An entry has the id its client gave it, a         *)
(* fingerprint of its content, a label, and a place in the list.           *)
(*                                                                         *)
(*   - two entries never have the same id or the same fingerprint;         *)
(*   - an entry keeps its id and its place for as long as it is listed;    *)
(*   - a merge only adds entries: it changes no label and no content;      *)
(*   - a label or a content changes only to what a request asked for, on   *)
(*     an entry that had this request's fingerprint or id;                 *)
(*   - a request is answered only if everything it asked for has held at   *)
(*     some moment while it was open: no merge omits a valid item.         *)
(***************************************************************************)
EXTENDS SavedWorkRequests

CONSTANT Start  \* the collections the account may start with

VARIABLES
  saved,      \* the account's entries
  phase,      \* "new", "open", "ok" or "refused", per request
  op,         \* what each request asks for
  met,        \* the items whose goal has held while the request was open
  target      \* the place of the entry a save has chosen to change, 0 = none

vars == <<saved, phase, op, met, target>>

(* When request o has what it asked for item i.  A save that finds its id in
   use is content with that entry. *)
Goal(o, i, S) ==
  CASE o.kind = "save"   -> \E x \in S : x.print = i.print \/ x.id = i.id
    [] o.kind = "merge"  -> \E x \in S : x.print = i.print
    [] o.kind = "rename" -> \E x \in S : x.id = i.id /\ x.label = i.label
    [] OTHER             -> \A x \in S : x.id # i.id

Init ==
  /\ saved \in Start
  /\ phase = [r \in Request |-> "new"]
  /\ op = [r \in Request |-> NoOp]
  /\ met = [r \in Request |-> {}]
  /\ target = [r \in Request |-> 0]

Open(r) ==
  /\ phase[r] = "new"
  /\ \E o \in Op : op' = [op EXCEPT ![r] = o]
  /\ phase' = [phase EXCEPT ![r] = "open"]
  /\ UNCHANGED <<saved, met, target>>

(* Entries are added, each as the request's own item. *)
Insert(r) ==
  /\ saved \subseteq saved'
  /\ \A x \in saved' \ saved : Content(x) \in Wanted(op[r])

Replace(x, y) == saved' = (saved \ {x}) \cup {y}

(* A save renames the entry it has chosen, or, if that has its own id, gives
   it the content and the label it came with, or one of them. *)
Update(r) ==
  LET i == The(op[r]) IN
  /\ op[r].kind = "save"
  /\ \E x \in saved :
       /\ x.key = target[r]
       /\ \/ Replace(x, [x EXCEPT !.label = i.label])
          \/ /\ x.id = i.id
             /\ \E f \in {x.print, i.print}, l \in {x.label, i.label} :
                  Replace(x, [x EXCEPT !.print = f, !.label = l])

Rename(r) ==
  /\ op[r].kind = "rename"
  /\ \E x \in saved :
       /\ x.id = The(op[r]).id
       /\ Replace(x, [x EXCEPT !.label = The(op[r]).label])

Remove(r) ==
  /\ op[r].kind = "remove"
  /\ saved' = {x \in saved : x.id # The(op[r]).id}

(* One moment of an open request: it changes the list or leaves it, and takes
   note of what it finds there. *)
Moment(r) ==
  /\ phase[r] = "open"
  /\ UNCHANGED saved \/ Insert(r) \/ Update(r) \/ Rename(r) \/ Remove(r)
  /\ Keyed(saved')
  /\ \E M \in SUBSET {i \in Asked(op[r]) : Goal(op[r], i, saved')} :
       met' = [met EXCEPT ![r] = @ \cup M]
  /\ target' = [target EXCEPT ![r] = target'[r]]
  /\ target'[r] # 0 =>
       /\ op[r].kind = "save"
       /\ \E x \in saved' :
            /\ x.key = target'[r]
            /\ x.id = The(op[r]).id \/ x.print = The(op[r]).print
  /\ UNCHANGED <<phase, op>>

Close(r, outcome) ==
  /\ phase[r] = "open"
  /\ phase' = [phase EXCEPT ![r] = outcome]
  /\ met' = [met EXCEPT ![r] = {}]
  /\ target' = [target EXCEPT ![r] = 0]
  /\ UNCHANGED <<saved, op>>

Answer(r) ==
  /\ \A i \in Asked(op[r]) : i \in met[r] \/ Goal(op[r], i, saved)
  /\ Close(r, "ok")

(* 404, 409, 422 or 500: the caller keeps what it holds and may try again. *)
Refuse(r) == Close(r, "refused")

Next == \E r \in Request : Open(r) \/ Moment(r) \/ Answer(r) \/ Refuse(r)

Spec == Init /\ [][Next]_vars
=============================================================================
