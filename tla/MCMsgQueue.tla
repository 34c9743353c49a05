----------------------------- MODULE MCMsgQueue -----------------------------
(***************************************************************************)
(* Instances of MsgQueue for TLC.                                          *)
(***************************************************************************)
EXTENDS MsgQueue, TLC

Symmetry == Permutations(Msg) \cup Permutations(Receiver)

SpecFair == Spec /\ Fairness
=============================================================================
