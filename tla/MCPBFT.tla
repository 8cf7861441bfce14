------------------------------- MODULE MCPBFT -------------------------------
(* Instances of PBFT for TLC: n validators with the identity key order.    *)
EXTENDS PBFT, TLC
CONSTANTS v1, v2, v3, v4

One == {v1}
Two == {v1, v2}
Three == {v1, v2, v3}
Four == {v1, v2, v3, v4}
OrderOne == 0 :> v1
OrderTwo == 0 :> v1 @@ 1 :> v2
OrderThree == OrderTwo @@ 2 :> v3
OrderFour == OrderThree @@ 3 :> v4
=============================================================================
