-------------------------- MODULE MCDeliveryGuard --------------------------
(***************************************************************************)
(* Instances of DeliveryGuard for TLC.                                     *)
(***************************************************************************)
EXTENDS DeliveryGuard, TLC

CONSTANTS r1, r2, r3, a, b, x, y

Crossed == [ref : {a, b}, key : {x, y}]
Single == {[ref |-> a, key |-> x]}
Alike == Permutations({r1, r2, r3})
=============================================================================
