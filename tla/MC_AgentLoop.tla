---------------------------- MODULE MC_AgentLoop ----------------------------
(* The instances of AgentLoop that TLC checks.                              *)
EXTENDS AgentLoop, TLC

CONSTANTS c1, t1, t2, good, agent

MC_Length == [d \in Data |-> 1]

Symmetry == Permutations(Tasks)
=============================================================================
