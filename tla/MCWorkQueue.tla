---------------------------- MODULE MCWorkQueue ----------------------------
(***************************************************************************)
(* Instances of WorkQueue for TLC.                                         *)
(***************************************************************************)
EXTENDS WorkQueue, TLC

Symmetry == Permutations(Work) \cup Permutations(Caller)

SpecFair == Spec /\ Fairness

\* A clock restart initialises a work again (init_ptp_port_profile).
SpecInitWork == Init /\ [][Next \/ \E w \in Work : InitWork(w)]_vars
=============================================================================
