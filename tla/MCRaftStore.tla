---------------------------- MODULE MCRaftStore ----------------------------
(* RaftStore for TLC: the managers are interchangeable.                     *)
EXTENDS RaftStore, TLC

NodeSymmetry == Permutations(Nodes)
=============================================================================
