------------------------------ MODULE WrReqLife ------------------------------
(***************************************************************************)
(* The life of a client's request as the two halves of the head must agree *)
(* on it: WrConn makes and frees the wr_req_t, WrHead queues it and gives  *)
(* it to a worker.                                                         *)
(*                                                                         *)
(*   none      no request whose application is known                       *)
(*   resolved  req->app is set, the body is arriving                       *)
(*   queued    in q_messages                                               *)
(*   busy      with a worker                                               *)
(*   aborted   with a worker, but already answered with an error           *)
(*   dangling  resolved to an application that has been freed              *)
(***************************************************************************)
VARIABLE life

Init == life = "none"

Step(from, to) == life = from /\ life' \in to

Next ==
  \/ Step("none", {"resolved"})
  \/ Step("resolved", {"queued", "busy", "dangling", "none"})
  \/ Step("queued", {"busy", "none"})
  \/ Step("busy", {"aborted", "none"})
  \/ Step("aborted", {"none"})

Spec == Init /\ [][Next]_life
=============================================================================
