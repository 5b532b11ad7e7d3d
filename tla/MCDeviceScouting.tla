--------------------------- MODULE MCDeviceScouting ---------------------------
(* A browser that has been used before, one with what older versions or other hands left, an empty one. *)
EXTENDS DeviceScouting

CONSTANTS p1, p2, p3, junk

mcStored ==
  {[shortlist |-> {p1}, compareQueue |-> <<p1, p2>>, dismissedAt |-> {}],
   [shortlist |-> {junk}, compareQueue |-> <<junk, p1, p2, p3>>, dismissedAt |-> {9}],
   [shortlist |-> {}, compareQueue |-> <<>>, dismissedAt |-> {1}]}
===============================================================================
