----------------------------- MODULE MCFaceCues -----------------------------
(* The times of the code in tenths of a second, but for the cooldown. *)
EXTENDS FaceCues, TLC
=============================================================================
