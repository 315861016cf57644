------------------------------ MODULE MCWkrCtl ------------------------------
(* WkrCtl with bounds for TLC. *)
EXTENDS WkrCtl
=============================================================================
