-------------------------- MODULE MCAppExceptions --------------------------
(* AppExceptions with bounds for TLC: two exceptions of one class, the     *)
(* message of the second beginning with that of the first, and one without *)
(* a message.                                                              *)
EXTENDS AppExceptions, TLC

CONSTANTS x1, x2, x3, C, D

MCClassOf == x1 :> C @@ x2 :> C @@ x3 :> D
MCLike == x1 :> {x1, x2} @@ x2 :> {x2} @@ x3 :> {x3}
=============================================================================
