--------------------------- MODULE MCParallelCommit ---------------------------
(* Neither the isolated tracers nor the committing goroutines are told     *)
(* apart.                                                                  *)
EXTENDS ParallelCommit, TLC

Symmetry == Permutations(Isolated) \cup Permutations(Committers)
=============================================================================
