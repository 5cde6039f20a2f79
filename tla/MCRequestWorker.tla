--------------------------- MODULE MCRequestWorker ---------------------------
(* A small bridge for TLC. *)
EXTENDS RequestWorker, TLC

Symmetry == Permutations(Requests) \cup Permutations(Sessions) \cup Permutations(Clients)
              \cup Permutations(Callers)
=============================================================================
