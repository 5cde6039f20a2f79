------------------------------ MODULE MCGuards ------------------------------
(* Four faults and two failing calls for TLC. *)
EXTENDS Guards, TLC
=============================================================================
