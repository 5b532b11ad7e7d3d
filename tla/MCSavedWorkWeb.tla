---------------------------- MODULE MCSavedWorkWeb ----------------------------
(* Small instances of SavedWorkWeb: a visitor with a collection on the device, *)
(* readable, damaged or of another version, and an account that has one too.   *)
EXTENDS SavedWorkWeb

CONSTANTS alice, f1, f2, oldName, newName

OnDisk(c, id) == Item(id, c, oldName)
Clean == Envelope(COLLECTION_VERSION, <<OnDisk(f1, 11)>>)
Damaged == Envelope(COLLECTION_VERSION, <<Item(12, f2, Nothing), OnDisk(f1, 11), OnDisk(f1, 13)>>)
AnyEnvelope == {Absent, Clean, Damaged, Envelope(2, <<OnDisk(f1, 11)>>)}
NothingStored == {Absent}
Empty == [a \in Account |-> <<>>]
One == [a \in Account |-> <<Item(21, f2, oldName)>>]
===============================================================================
