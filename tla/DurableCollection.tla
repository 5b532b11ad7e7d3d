-------------------------- MODULE DurableCollection --------------------------
(***************************************************************************)
(* The versioned envelope a saved collection has in localStorage           *)
(* (lib/storage/durable-collection.ts), and the list operations of         *)
(* lib/storage/saved-work.ts.  An item is a record with a client id, a     *)
(* content (its identity) and a label.                                     *)
(***************************************************************************)
EXTENDS SequencesExt, Lists

COLLECTION_VERSION == 1

Absent == [is |-> "absent", version |-> 0, items |-> <<>>]      \* no such key, or storage refuses
Unparsable == [is |-> "unparsable", version |-> 0, items |-> <<>>]  \* not JSON, or not an envelope
Envelope(version, items) == [is |-> "envelope", version |-> version, items |-> items]

FirstOfEach(items, Identity(_)) ==
  LET first == { i \in DOMAIN items : \A j \in 1..(i - 1) : Identity(items[j]) # Identity(items[i]) }
      at == Places(items, first)
  IN  [k \in DOMAIN at |-> items[at[k]]]

\* A malformed item and a second item of one identity are dropped, and what is beyond the limit.
ReadCollection(stored, Valid(_), Identity(_), limit) ==
  LET readable == Sublist(stored.items, { item \in ToSet(stored.items) : Valid(item) })
      unique == FirstOfEach(readable, Identity)
      kept == IF Len(unique) > limit THEN SubSeq(unique, 1, limit) ELSE unique
  IN  CASE stored.is = "absent" -> [items |-> <<>>, recovered |-> FALSE]
        [] stored.is = "envelope" /\ stored.version = COLLECTION_VERSION -> [items |-> kept, recovered |-> kept # stored.items]
        [] OTHER -> [items |-> <<>>, recovered |-> TRUE]
----------------------------------------------------------------------------
IndexOf(items, P(_)) == LET at == { i \in DOMAIN items : P(items[i]) }
                        IN  IF at = {} THEN 0 ELSE CHOOSE i \in at : \A j \in at : i <= j
WithoutItem(items, id) == Sublist(items, { item \in ToSet(items) : item.id # id })
Relabelled(items, id, label) ==
  [i \in DOMAIN items |-> IF items[i].id = id THEN [items[i] EXCEPT !.label = label] ELSE items[i]]

\* A content that is there already keeps its place and its id, and takes the new label.
UpsertByIdentity(items, candidate, Identity(_)) ==
  LET at == IndexOf(items, LAMBDA item : Identity(item) = Identity(candidate))
  IN  IF at = 0 THEN [items |-> Append(items, candidate), disposition |-> "created"]
      ELSE IF items[at].label = candidate.label THEN [items |-> items, disposition |-> "unchanged"]
      ELSE [items |-> [items EXCEPT ![at].label = candidate.label], disposition |-> "updated"]
=============================================================================
