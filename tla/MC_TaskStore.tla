---------------------------- MODULE MC_TaskStore ----------------------------
(* The instances of TaskStore that TLC checks.                              *)
EXTENDS TaskStore, TLC

CONSTANTS c1, c2, t1, t2, good, bad

\* The text of a task is as long as the name of its state makes it; every todo
\* has a file of its own, so their lengths do not matter.
StateLength ==
  [wait_assign |-> 11, assigned |-> 8, confirmed |-> 9, cancel |-> 6, expired |-> 7,
   doing |-> 5, wait_review |-> 11, check_failed |-> 12, done |-> 4, failed |-> 6]

MC_Length == [d \in Data |-> IF d \in Todos THEN 1 ELSE StateLength[d.state]]

Symmetry == Permutations(Calls) \cup Permutations(Tasks)
=============================================================================
