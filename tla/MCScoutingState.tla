--------------------------- MODULE MCScoutingState ---------------------------
(* Small instances of ScoutingState for TLC. *)
EXTENDS ScoutingState

CONSTANTS alice, bob, p1, p2, p3

(* Two accounts with a player each, and a player on the device. *)
OneEach == [a \in Account |-> IF a = alice THEN <<p1>> ELSE <<p2>>]
OnDevice == <<p3>>

NothingSaved == <<>>
TwoOnServer == [a \in Account |-> <<p1, p2>>]
ThreeOnServer == [a \in Account |-> <<p1, p2, p3>>]
===============================================================================
