--------------------------- MODULE MCFavoritesStore ---------------------------
(* Small instances of FavoritesStore for TLC. *)
EXTENDS FavoritesStore, TLC

CONSTANTS p1, p2, p3

(* The same two players offered in either order (so that two merges can
   deadlock), with a duplicate, and a list with a player that does not exist. *)
Mixed == {<<p1, p2>>, <<p2, p1, p2>>, <<p3, p2>>}
OneList == {<<p1, p2>>}

Symmetry == Permutations(Request)
===============================================================================
