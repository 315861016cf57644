------------------------------ MODULE MCWkrReq ------------------------------
(* WkrReq with bounds for TLC. *)
EXTENDS WkrReq

Requests == <<"request 1", "request 2">>
Responses == <<"response 1", "response 2">>
=============================================================================
