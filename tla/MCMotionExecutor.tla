-------------------------- MODULE MCMotionExecutor --------------------------
(* A small executor for TLC: model values for ids and turns. *)
EXTENDS MotionExecutor, TLC

\* Request ids and turns are opaque to the executor.
Symmetry == Permutations(Ids) \cup Permutations(Turns)
=============================================================================
