---------------------------- MODULE MCAnlSamples ----------------------------
(* AnlSamples with bounds for TLC. *)
EXTENDS AnlSamples
=============================================================================
