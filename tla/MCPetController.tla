-------------------------- MODULE MCPetController ---------------------------
(* A small controller for TLC: two sessions, one of them with two turns. *)
EXTENDS PetController, TLC

CONSTANTS s1, s2

Turns3 == {[session |-> s1, epoch |-> 0], [session |-> s1, epoch |-> 1], [session |-> s2, epoch |-> 0]}
TwoTurns == {[session |-> s1, epoch |-> 0], [session |-> s1, epoch |-> 1]}

\* Decision ids are opaque to the controller.
Symmetry == Permutations(Decisions)
=============================================================================
