---------------------------- MODULE MCVoiceChain ----------------------------
(* A short pre-roll and two tasks for TLC. *)
EXTENDS VoiceChain, TLC
=============================================================================
