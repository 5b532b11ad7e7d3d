-------------------------------- MODULE Players --------------------------------
(* The players the provider of scouting-state.tsx keeps lists of: positive
   safe integers there, which nothing here computes with. *)
CONSTANT Player
===============================================================================
