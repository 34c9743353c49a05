------------------------------ MODULE MCPdelay ------------------------------
EXTENDS Pdelay, TLC

SpecFair == Spec /\ Fairness
=============================================================================
