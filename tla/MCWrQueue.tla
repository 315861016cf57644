------------------------------ MODULE MCWrQueue ------------------------------
(* Small instance of WrQueue: every ring size up to 4, three elements, so a *)
(* queue wraps, fills up, holds duplicates and loses elements at any place. *)
EXTENDS WrQueue
=============================================================================
