------------------------------- MODULE WkrLife -------------------------------
(***************************************************************************)
(* The life of a worker process as the head must see it.  WrHead, which    *)
(* treats many workers and their messages as wholes, takes these states    *)
(* and steps for its processes; WkrCtl, both ends of one control           *)
(* connection byte by byte, is shown to allow nothing else.                *)
(*                                                                         *)
(*   none   no process, or none the head has to do with                    *)
(*   boot   started, the head has not answered its configuration request   *)
(*   conf   the head has answered                                          *)
(*   add    it has loaded the application and said so                      *)
(*   err    it could not, and said so                                      *)
(*   up     registered                                                     *)
(*   hung   registered, and does not respond                               *)
(*   dead   registered, and has died                                       *)
(***************************************************************************)
VARIABLE life

Init == life \in {"none", "boot"}

Step(from, to) == life = from /\ life' \in to

Next ==
  \/ Step("none", {"boot"})
  \/ Step("boot", {"conf", "none"})
  \/ Step("conf", {"add", "err", "none"})
  \/ Step("add", {"up", "none"})
  \/ Step("err", {"none"})
  \/ Step("up", {"hung", "dead", "none"})
  \/ Step("hung", {"dead", "none"})
  \/ Step("dead", {"none"})

Spec == Init /\ [][Next]_life
=============================================================================
