--------------------------- MODULE MCSavedWorkStore ---------------------------
(* Small instances of SavedWorkStore for TLC. *)
EXTENDS SavedWorkStore, TLC

CONSTANTS c1, c2, c3, f0, f1, f2, f3, old, new

View(c, f, l) == [id |-> c, print |-> f, label |-> l]

(* The two contents under either id, one under another name, and one that can
   no longer be stored (f0). *)
Items == {View(c1, f1, old), View(c2, f1, new), View(c2, f2, old), View(c1, f2, new),
          View(c2, f0, old)}

(* Two contents in either order; one id offered with two contents; a duplicate
   content and one that cannot be stored. *)
Lists == {<<View(c1, f1, old), View(c2, f2, old)>>,
          <<View(c2, f2, old), View(c1, f1, old)>>,
          <<View(c2, f1, new), View(c2, f2, old)>>,
          <<View(c2, f0, old), View(c2, f2, old), View(c1, f2, new)>>,
          <<View(c2, f0, old)>>}

Stored(i, k) == [id |-> i.id, print |-> i.print, label |-> i.label, key |-> k]

(* Three items, two of them the same content, and one list. *)
FewItems == {View(c1, f1, old), View(c2, f1, new), View(c2, f2, old)}
OneList == {<<View(c1, f1, old), View(c2, f2, old)>>}

(* An empty collection, one with an item, and one with two. *)
Starts == {{}, {Stored(View(c1, f1, old), 1)},
           {Stored(View(c1, f2, new), 1), Stored(View(c2, f1, new), 2)}}
(* Empty; an id of the list in use for another content; an unrelated item. *)
FewStarts == {{}, {Stored(View(c1, f2, new), 1)}, {Stored(View(c3, f3, old), 1)}}

Symmetry == Permutations(Request)
===============================================================================
