------------------------------- MODULE MCMvrp -------------------------------
(***************************************************************************)
(* Instances of Mvrp for TLC: the clients of daemon d1 use two VLANs, and  *)
(* those of daemon d2 none, or one of them.                                *)
(***************************************************************************)
EXTENDS Mvrp, TLC

CONSTANTS d1, d2

TwoAndNone == (d1 :> {1, 2}) @@ (d2 :> {})
TwoAndOne == (d1 :> {1, 2}) @@ (d2 :> {1})

SpecFair == Spec /\ Fairness
=============================================================================
