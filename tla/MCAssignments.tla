--------------------------- MODULE MCAssignments ---------------------------
(* Assignments for TLC: two tasks that share a secret and a config.         *)
EXTENDS Assignments, TLC

AllDeps == [t \in Tasks |-> Resources]
TaskSymmetry == Permutations(Tasks)
=============================================================================
