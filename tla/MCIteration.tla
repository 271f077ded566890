---------------------------- MODULE MCIteration ----------------------------
(* Iteration with its iterators interchangeable: no definition tells one   *)
(* from another, and the run checks invariants only.                       *)
EXTENDS Iteration, TLC

IterSymmetry == Permutations(Iters)
=============================================================================
