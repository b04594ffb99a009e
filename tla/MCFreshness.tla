------------------------------ MODULE MCFreshness ------------------------------
(* A home and its copy, two processes, lifecycles of up to two records that *)
(* differ in one bit: long enough for a fork, a rollback and a descendant.  *)
EXTENDS Freshness, TLC

Symmetry == Permutations(Homes) \cup Permutations(Procs) \cup Permutations(Contents)
=============================================================================
