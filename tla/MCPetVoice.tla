----------------------------- MODULE MCPetVoice -----------------------------
(* A small voice service for TLC. *)
EXTENDS PetVoice, TLC

\* Connection and response ids are opaque.
Symmetry == Permutations(Leases) \cup Permutations(Answers) \cup Permutations(Cues)
=============================================================================
