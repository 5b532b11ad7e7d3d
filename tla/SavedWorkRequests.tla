-------------------------- MODULE SavedWorkRequests --------------------------
(***************************************************************************)
(* The requests of the saved-work API, for one account and one collection  *)
(* (saved views or saved comparisons), and what they ask for.              *)
(***************************************************************************)
EXTENDS Naturals, Sequences

CONSTANTS
  Request,      \* identifiers of requests, each used once
  ClientId,     \* ids clients mint
  Fingerprint,  \* fingerprints of contents
  Label,        \* names a scout types
  Item,         \* the items a request may carry
  DeviceList,   \* the lists a merge may offer
  ValidPrint    \* the fingerprints of contents that may be stored

ASSUME ItemAssumption == Item \subseteq [id : ClientId, print : Fingerprint, label : Label]
ASSUME DeviceAssumption == DeviceList \subseteq Seq(Item)

(* A row of the collection: an item and its primary key, which places it. *)
Row == [id : ClientId, print : Fingerprint, label : Label, key : Nat \ {0}]

Content(x) == [id |-> x.id, print |-> x.print, label |-> x.label]

(* No two rows share a client id, a fingerprint or a primary key. *)
Keyed(S) ==
  \A x, y \in S : x.id = y.id \/ x.print = y.print \/ x.key = y.key => x = y

(* A rename uses the id and the label of its item, a removal the id. *)
Op == [kind : {"save", "rename", "remove"}, items : {<<i>> : i \in Item}]
        \cup [kind : {"merge"}, items : DeviceList]
        \cup [kind : {"list"}, items : {<<>>}]

NoOp == [kind |-> "list", items |-> <<>>]

The(o) == o.items[1]

(* The items that may be stored: valid, and the first with their fingerprint. *)
Wanted(o) ==
  IF o.kind \notin {"save", "merge"} THEN {}
  ELSE {o.items[k] : k \in {n \in 1..Len(o.items) :
          /\ o.items[n].print \in ValidPrint
          /\ \A j \in 1..(n - 1) : o.items[j].print # o.items[n].print}}

Asked(o) == IF o.kind \in {"rename", "remove"} THEN {The(o)} ELSE Wanted(o)
=============================================================================
