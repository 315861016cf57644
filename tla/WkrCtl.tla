------------------------------- MODULE WkrCtl -------------------------------
(***************************************************************************)
(* The control connection between the head and one worker process, both    *)
(* ends: wr_controller.c with the part of wr_worker.c that talks to a      *)
(* worker, and wkr_controller.c with the part of worker.c that decides     *)
(* what it says.                                                           *)
(*                                                                         *)
(* The connection is two byte streams; a recv returns any part of what has *)
(* arrived, so a message may come in pieces or together with the next one. *)
(* Each end has one slot for the message it is sending, which every        *)
(* handler overwrites, and one buffer for what it has received.            *)
(*                                                                         *)
(*   ctl    the head's wr_ctl_t                                            *)
(*   wkr    the head's wr_wkr_t; NONE until the worker is registered       *)
(*   proc   the worker process with its wkr_ctl_t, and env, the            *)
(*          disturbances of this behaviour                                 *)
(*   up     bytes on their way to the head; down: to the worker            *)
(*                                                                         *)
(* A write callback of the worker that finds its slot empty follows a null *)
(* pointer; it is not an action here, WriterSound says it is never due.    *)
(***************************************************************************)
EXTENDS Naturals, Sequences

CONSTANTS ConfLen,    \* the length of a configuration
          BufSize,    \* STR_SIZE1KB, the size of ctl->msg at both ends
          PingTrials, \* Config->Server.Worker.ping_trials
          NReq,       \* bound: requests given to the worker
          MaxLate,    \* bound: bytes under way when a slow worker is pinged again
          Environments \* the sets of disturbances that occur together

Disturbance == {"load",    \* the application cannot be loaded
                "user",    \* run_as_user is missing, unknown or not permitted
                "refuse",  \* the head refuses the configuration or the worker
                "crash",   \* the process dies or is killed
                "hang",    \* the process is stuck in a request
                "slow",    \* it answers a PING after ping_timeout
                "blocked", \* an error cannot be sent within WR_CTL_ACK_TIMEOUT
                "drop"}    \* the head lets the worker go: low load, reload,
                           \* removal of the application

ASSUME CtlAssumption ==
  /\ ConfLen \in Nat /\ ConfLen >= 2 /\ BufSize \in Nat /\ BufSize >= 4
  /\ PingTrials \in Nat /\ NReq \in Nat /\ MaxLate \in Nat
  /\ Environments \subseteq SUBSET Disturbance

VARIABLES ctl, wkr, proc, up, down

vars == <<ctl, wkr, proc, up, down>>

None == "none"
ToHead == {"CONF_REQ", "ADD", "ERROR", "PONG"}
ToWkr == {"CONF", "CONF_ERR", "ADD_OK", "ADD_ERR", "ACK", "PING", "REMOVE"}

(* The bytes of a message: only an error has a body, its reason.            *)
CtlHeaderLen(m) == IF m = "CONF" THEN ConfLen ELSE 2
BodyLen(m) == IF m = "ERROR" THEN 2 ELSE 0

INSTANCE WrScgi WITH HeaderLen <- CtlHeaderLen

Bytes(m) == scgi_build(m, BodyLen(m))

(* The slot for the message being sent, its bytes_sent and the watcher. *)
Sender(M) == [out : M \cup {None}, sent : Nat, writing : BOOLEAN]
Silent == [out |-> None, sent |-> 0, writing |-> FALSE]
Say(m) == [out |-> m, sent |-> 0, writing |-> TRUE]

ByteOf(M) == [msg : M, at : 1..(ConfLen + 2)]

TypeOK ==
  /\ ctl \in [open : BOOLEAN, buf : Seq(ByteOf(ToHead)), tx : Sender(ToWkr),
              ended : BOOLEAN, told : BOOLEAN]
  /\ wkr \in [state : {"NONE", "INACTIVE", "ACTIVE", "PINGING", "EXPIRED"},
              trials : 0..PingTrials, tWait : BOOLEAN, reqs : 0..NReq]
  /\ proc \in [stage : {"boot", "loaded", "failed", "up", "gone"},
               buf : Seq(ByteOf(ToWkr)), tx : Sender(ToHead),
               hung : BOOLEAN, hup : BOOLEAN, broken : BOOLEAN, env : Environments]
  /\ up \in Seq(ByteOf(ToHead)) /\ down \in Seq(ByteOf(ToWkr))

(* wr_ctl_accept_cb, wr_ctl_new; worker_new, send_config_req_msg. *)
Init ==
  /\ ctl = [open |-> TRUE, buf |-> <<>>, tx |-> Silent, ended |-> FALSE, told |-> FALSE]
  /\ wkr = [state |-> "NONE", trials |-> 0, tWait |-> FALSE, reqs |-> 0]
  /\ \E e \in Environments :
     proc = [stage |-> "boot", buf |-> <<>>, tx |-> Say("CONF_REQ"),
             hung |-> FALSE, hup |-> FALSE, broken |-> FALSE, env |-> e]
  /\ up = <<>> /\ down = <<>>

May(d) == d \in proc.env

Alive == proc.stage # "gone"
Runs == Alive /\ ~proc.hung

-----------------------------------------------------------------------------
(* The head lets go of the worker *)

(* wr_wkr_free and wr_ctl_free: the connection is closed and the process    *)
(* gets a last message or a signal; SIGHUP is noticed by a process that     *)
(* runs.  The write watcher is not stopped.                                 *)
Gone(p) == [p EXCEPT !.stage = "gone", !.tx = Silent, !.hung = FALSE]

Freed(bytes, signal) ==
  /\ ctl' = [ctl EXCEPT !.open = FALSE, !.buf = <<>>]
  /\ wkr' = [wkr EXCEPT !.state = "NONE", !.tWait = FALSE]
  /\ down' = down \o bytes
  /\ proc' = CASE ~Alive \/ signal = None -> proc
               [] Alive /\ signal = "HUP" -> [proc EXCEPT !.hup = TRUE]
               [] Alive /\ signal = "KILL" -> Gone(proc)

Registered == wkr.state # "NONE"

(* wr_ctl_free from the control connection: SIGHUP if there is a worker. *)
CtlFreed == Freed(<<>>, IF Registered THEN "HUP" ELSE None)

-----------------------------------------------------------------------------
(* The head: wr_controller.c *)

(* The head's end is closed for good and its worker forgotten: wr_ctl_free  *)
(* once the slot is empty, or the end of the head.                          *)
Closed ==
  /\ ctl' = [ctl EXCEPT !.open = FALSE, !.buf = <<>>, !.tx = Silent]
  /\ wkr' = [wkr EXCEPT !.state = "NONE", !.tWait = FALSE]

(* wr_ctl_msg_write_cb, with a message to send: it goes out; or the worker  *)
(* is dead, and what is sent is lost or cannot be sent.  A connection whose *)
(* worker reported an error is closed when its answer has been sent.        *)
Sent ==
  LET chunk == scgi_send(Bytes(ctl.tx.out), ctl.tx.sent)
      sent == ctl.tx.sent + Len(chunk)
      done == sent >= Len(Bytes(ctl.tx.out))
  IN  /\ down' = IF Alive THEN down \o chunk ELSE down
      /\ IF done /\ ctl.ended THEN Closed
         ELSE /\ ctl' = [ctl EXCEPT !.tx = IF done THEN Silent ELSE [@ EXCEPT !.sent = sent]]
              /\ UNCHANGED wkr

SizeMax == ConfLen + 2
Unsent ==
  /\ ~Alive /\ ctl.tx.sent < Len(Bytes(ctl.tx.out))
  /\ ctl' = [ctl EXCEPT !.tx.sent = scgi_send_failed(@, SizeMax)]
  /\ UNCHANGED <<wkr, down>>

(* With none, scgi_send follows a null pointer and the head dies. *)
wr_ctl_msg_write_cb ==
  /\ ctl.open /\ ctl.tx.writing
  /\ \/ ctl.tx.out # None /\ (Sent \/ Unsent)
     \/ ctl.tx.out = None /\ Closed /\ UNCHANGED down
  /\ UNCHANGED <<proc, up>>

(* What wr_ctl_msg_read_cb makes of its buffer: a message is complete when  *)
(* the bytes behind the header are as many as it declares.                  *)
Mutant_Complete(buf) == scgi_parse(buf) # NoScgi
Complete(buf) ==
  LET s == scgi_parse(buf) IN s # NoScgi /\ Len(s.body) = BodyLen(s.msg)

(* wr_ctl_msg_process with the handler of each message: the answer and the  *)
(* worker afterwards.  wr_ctl_msg_validate makes the answer first, whatever *)
(* the slot held; the answer to a PING is thrown away again.                *)
Ponged(w) == IF w.state = "PINGING" THEN [w EXCEPT !.state = "ACTIVE", !.tWait = TRUE] ELSE w

Mutant_AddAnswers == {"ADD_OK"}
AddAnswers ==
  (IF Alive THEN {"ADD_OK"} ELSE {}) \cup (IF ~Alive \/ May("refuse") THEN {"ADD_ERR"} ELSE {})

Discarded(tx) == [tx EXCEPT !.out = None, !.sent = 0]

wr_ctl_msg_process(m) ==
  LET c == [ctl EXCEPT !.buf = <<>>]
  IN  \/ /\ m = "CONF_REQ"
         /\ \E a \in {"CONF"} \cup (IF May("refuse") THEN {"CONF_ERR"} ELSE {}) :
              ctl' = [c EXCEPT !.tx = Say(a)]
         /\ UNCHANGED wkr
      \/ /\ m = "ADD"
         /\ \E a \in AddAnswers :
              /\ ctl' = [c EXCEPT !.tx = Say(a)]
              /\ IF a = "ADD_ERR" THEN UNCHANGED wkr
                 ELSE \/ wkr' = [wkr EXCEPT !.state = "INACTIVE"]
                      \/ /\ wkr.reqs < NReq
                         /\ wkr' = [wkr EXCEPT !.state = "ACTIVE", !.reqs = @ + 1]
      \/ /\ m = "ERROR"
         /\ ctl' = [c EXCEPT !.tx = Say("ACK"), !.ended = TRUE, !.told = TRUE]
         /\ UNCHANGED wkr
      \/ /\ m = "PONG"
         /\ ctl' = [c EXCEPT !.tx = Discarded(@)]
         /\ wkr' = Ponged(wkr)

(* wr_ctl_msg_read_cb.  A buffer that is full and not a message, or a       *)
(* worker that has closed, makes recv return 0.                             *)
wr_ctl_msg_read_cb ==
  /\ ctl.open
  /\ \/ /\ (up = <<>> /\ ~Alive) \/ (up # <<>> /\ Len(ctl.buf) = BufSize)
        /\ CtlFreed /\ UNCHANGED up
     \/ \E n \in 1..Len(up) :
          LET buf == ctl.buf \o SubSeq(up, 1, n)
          IN  /\ Len(buf) <= BufSize
              /\ up' = SubSeq(up, n + 1, Len(up))
              /\ IF Complete(buf) THEN wr_ctl_msg_process(buf[1].msg)
                 ELSE ctl' = [ctl EXCEPT !.buf = buf] /\ UNCHANGED wkr
              /\ UNCHANGED <<proc, down>>

-----------------------------------------------------------------------------
(* The head: wr_worker.c *)

(* A request is given to the worker, wr_wkr_req_processing.                 *)
Dispatch ==
  /\ ctl.open /\ wkr.state = "INACTIVE" /\ wkr.reqs < NReq
  /\ wkr' = [wkr EXCEPT !.state = "ACTIVE", !.reqs = @ + 1]
  /\ UNCHANGED <<ctl, proc, up, down>>

Busy == wkr.state \in {"ACTIVE", "PINGING", "EXPIRED"}

(* wr_wait_watcher_start: the request has been sent, or a part of the       *)
(* response has come.                                                       *)
Watch ==
  /\ ctl.open /\ Busy /\ (Runs \/ ~wkr.tWait)
  /\ wkr' = [wkr EXCEPT !.state = IF @ = "PINGING" THEN "ACTIVE" ELSE @,
                        !.trials = 0, !.tWait = TRUE]
  /\ UNCHANGED <<ctl, proc, up, down>>

(* wr_wkr_req_processed.  An expired worker is told to leave. *)
Processed ==
  /\ ctl.open /\ Busy /\ wkr.tWait /\ Runs
  /\ IF wkr.state = "EXPIRED" THEN Freed(Bytes("REMOVE"), None)
     ELSE /\ wkr' = [wkr EXCEPT !.state = "INACTIVE", !.tWait = FALSE]
          /\ UNCHANGED <<ctl, proc, down>>
  /\ UNCHANGED up

(* A PING, or its answer, is on its way; so is a message that the worker    *)
(* has not read.                                                            *)
PingOut ==
  \/ \E i \in DOMAIN (ctl.buf \o up) : (ctl.buf \o up)[i].msg = "PONG"
  \/ Runs /\ (down # <<>> \/ proc.buf # <<>> \/ proc.tx.out = "PONG")

(* wr_wkr_wait_cb with wr_wkr_ping_send.  The timer takes seconds: a message *)
(* in the slot has been written by then, and a process that runs has        *)
(* answered the PING before, unless it is slow: then the answers to two     *)
(* PINGs may come together, and one may come while the next PING is in the  *)
(* slot, which wr_wkr_ping_cb empties under its write watcher.              *)
Mutant_HangupSignal == "HUP"
HangupSignal == "KILL"

TrialsLeft == wkr.trials < PingTrials

PingMay == PingOut => May("slow") /\ (Runs => Len(up) + Len(down) < MaxLate)

wr_wkr_wait_cb ==
  /\ ctl.open /\ wkr.tWait /\ ~ctl.tx.writing
  /\ \/ /\ wkr.state \in {"ACTIVE", "PINGING"} /\ TrialsLeft
        /\ PingMay
        /\ wkr' = [wkr EXCEPT !.state = "PINGING", !.trials = @ + 1]
        /\ ctl' = [ctl EXCEPT !.tx = Say("PING")]
        /\ UNCHANGED <<proc, down>>
     \/ /\ wkr.state \in {"ACTIVE", "PINGING"} /\ ~TrialsLeft
        /\ Freed(<<>>, HangupSignal)
     \/ /\ wkr.state = "EXPIRED"
        /\ Freed(Bytes("REMOVE"), None)
  /\ UNCHANGED up

(* wr_app_wkr_remove_cb, wr_app_reload: a busy worker expires, a free one   *)
(* is dismissed; wr_app_free dismisses both.                                *)
Dismiss ==
  /\ ctl.open /\ Registered /\ May("drop")
  /\ \/ /\ Busy /\ wkr' = [wkr EXCEPT !.state = "EXPIRED"]
        /\ UNCHANGED <<ctl, proc, down>>
     \/ Freed(<<>>, "HUP")
  /\ UNCHANGED up

-----------------------------------------------------------------------------
(* The worker: wkr_controller.c, worker.c, wkr_main.c *)

(* is_alive is cleared, the loop ends and cleanup exits. *)
Exits == proc' = Gone(proc)

(* ctl_write_cb.  A worker that has reported an error leaves at once. *)
ctl_write_cb ==
  /\ Runs /\ proc.tx.writing /\ proc.tx.out # None
  /\ IF ~ctl.open THEN Exits /\ UNCHANGED up
     ELSE LET chunk == scgi_send(Bytes(proc.tx.out), proc.tx.sent)
              sent == proc.tx.sent + Len(chunk)
              done == sent >= Len(Bytes(proc.tx.out))
          IN  /\ up' = up \o chunk
              /\ CASE ~done -> proc' = [proc EXCEPT !.tx.sent = sent]
                   [] done /\ proc.stage = "failed" -> Exits
                   [] done /\ proc.stage # "failed" -> proc' = [proc EXCEPT !.tx = Silent]
  /\ UNCHANGED <<ctl, wkr, down>>

(* application_config_read_cb with drop_privileges and load_application.    *)
(* broken records that the application cannot be started.  The reason why   *)
(* the user cannot be changed is added to a message that does not exist,    *)
(* and the worker leaves without a word.                                    *)
Mutant_application_config_read_cb(p) ==
  \/ proc' = [p EXCEPT !.stage = "loaded", !.tx = Say("ADD")]
  \/ May("load") /\ proc' = [Gone(p) EXCEPT !.broken = TRUE]
application_config_read_cb(p) ==
  \/ proc' = [p EXCEPT !.stage = "loaded", !.tx = Say("ADD")]
  \/ May("load") /\ proc' = [p EXCEPT !.stage = "failed", !.tx = Say("ERROR"), !.broken = TRUE]
  \/ May("user") /\ proc' = [Gone(p) EXCEPT !.broken = TRUE]

(* ctl_msg_process: the slot is emptied before the message is handled. *)
ctl_msg_process(m) ==
  LET p == [proc EXCEPT !.buf = <<>>, !.tx.out = None, !.tx.sent = 0]
  IN  \/ m \in {"ADD_ERR", "REMOVE", "ACK", "CONF_ERR"} /\ Exits
      \/ m = "ADD_OK" /\ proc' = [p EXCEPT !.stage = "up"]
      \/ m = "PING" /\ proc' = [p EXCEPT !.tx = Say("PONG")]
      \/ m = "CONF" /\ application_config_read_cb(p)

(* ctl_read_cb.  recv returns 0 at the end of the connection, and when the   *)
(* buffer is full.  What has come behind a complete message is thrown away; a  *)
(* buffer that does not begin with a message cannot be parsed once a length *)
(* is found in it.                                                          *)
NothingRead == (down = <<>> /\ ~ctl.open) \/ (down # <<>> /\ Len(proc.buf) = BufSize)

ctl_read_cb ==
  /\ Runs
  /\ \/ /\ NothingRead
        /\ Exits /\ UNCHANGED down
     \/ \E n \in 1..Len(down) :
          LET buf == proc.buf \o SubSeq(down, 1, n)
          IN  /\ Len(buf) <= BufSize
              /\ down' = SubSeq(down, n + 1, Len(down))
              /\ CASE HasHeader(buf) -> ctl_msg_process(buf[1].msg)
                   [] buf[1].at # 1 /\ (\E i \in DOMAIN buf : buf[i].at = 1) -> Exits
                   [] OTHER -> proc' = [proc EXCEPT !.buf = buf]
  /\ UNCHANGED <<ctl, wkr, up>>

(* ctl_ack_timeout_cb *)
ctl_ack_timeout_cb ==
  /\ Runs /\ proc.stage = "failed" /\ May("blocked")
  /\ Exits /\ UNCHANGED <<ctl, wkr, up, down>>

(* sigproc and the end of main's loop. *)
sigproc ==
  /\ Runs /\ proc.hup
  /\ Exits /\ UNCHANGED <<ctl, wkr, up, down>>

(* The process dies. *)
Crash ==
  /\ Alive /\ May("crash")
  /\ Exits /\ UNCHANGED <<ctl, wkr, up, down>>

(* The process does not come back from a request. *)
Hang ==
  /\ Runs /\ May("hang") /\ Busy /\ wkr.tWait
  /\ proc' = [proc EXCEPT !.hung = TRUE]
  /\ UNCHANGED <<ctl, wkr, up, down>>

-----------------------------------------------------------------------------
Next ==
  \/ wr_ctl_msg_write_cb \/ wr_ctl_msg_read_cb
  \/ Dispatch \/ Watch \/ Processed \/ wr_wkr_wait_cb \/ Dismiss
  \/ ctl_write_cb \/ ctl_read_cb \/ ctl_ack_timeout_cb \/ sigproc
  \/ Crash \/ Hang

Spec == Init /\ [][Next]_vars

(* Both event loops serve every ready watcher in each turn, and a timer     *)
(* that is armed expires.                                                   *)
Fairness ==
  /\ WF_vars(wr_ctl_msg_write_cb) /\ WF_vars(wr_ctl_msg_read_cb) /\ WF_vars(wr_wkr_wait_cb)
  /\ WF_vars(ctl_write_cb) /\ WF_vars(ctl_read_cb) /\ WF_vars(sigproc)

FairSpec == Spec /\ Fairness

-----------------------------------------------------------------------------
(* Neither end's write callback is due without a message to send, unless    *)
(* the answer to a PING is late: scgi_send follows ctl->scgi unchecked, and *)
(* the head dies of it; the worker's slot is sound whatever happens.  Nor   *)
(* is a connection freed while its write watcher is active, as long as the  *)
(* worker neither dies nor leaves by itself while it is spoken to and the   *)
(* head does not dismiss it; wr_ctl_free does not stop this watcher.        *)
WriterSound ==
  /\ proc.tx.writing => Alive /\ proc.tx.out # None
  /\ ctl.tx.writing => ctl.tx.out # None \/ May("slow")
  /\ ctl.tx.writing => ctl.open \/ \E d \in {"load", "crash", "drop", "slow"} : May(d)

(* While they are connected, what either end has kept in its buffer is the  *)
(* beginning of one message.  Otherwise the head would wait for ever for    *)
(* the message to become complete, and the worker has thrown a part of a    *)
(* message away: both happen to a slow worker, once it is registered.       *)
Begins(buf) == buf # <<>> => buf = SubSeq(Bytes(buf[1].msg), 1, Len(buf))
Framed == ctl.open /\ ~(May("slow") /\ Registered) => Begins(ctl.buf) /\ Begins(proc.buf)

(* What the callbacks of both ends rely on of their buffers and slots. *)
CtlSound == TypeOK /\ WriterSound /\ Framed

(* The life of the worker as the head sees it. *)
Answered ==
  LET told == {"CONF", "CONF_ERR"}
  IN  \/ ctl.tx.out \in told
      \/ \E m \in told : \E i \in DOMAIN (proc.buf \o down) : (proc.buf \o down)[i].msg = m

LifeOf ==
  CASE Registered -> (CASE ~Alive -> "dead" [] Alive /\ proc.hung -> "hung" [] OTHER -> "up")
    [] ~Registered /\ ~(ctl.open /\ Alive) -> "none"
    [] ~Registered /\ ctl.open /\ Alive ->
         (CASE proc.stage = "boot" -> IF Answered THEN "conf" ELSE "boot"
            [] proc.stage \in {"loaded", "up"} -> "add"
            [] proc.stage = "failed" -> "err")

Life == INSTANCE WkrLife WITH life <- LifeOf

(* Byte by byte, with pieces and joined messages, the connection allows no  *)
(* other life than the one WkrLife states: in particular a worker that has  *)
(* not said that it loaded the application is never registered.             *)
WorkerLives == Life!Spec

(* Started by the head, a worker registers: the configuration it asks for   *)
(* and the two messages after it reach the other end whole, if the          *)
(* configuration fits the worker's buffer (a longer one ends the worker).   *)
Undisturbed == proc.env \subseteq {"hang", "slow"} /\ ConfLen <= BufSize
Registers == (proc.stage = "boot" /\ Undisturbed) ~> Registered

(* A worker that the head has let go leaves, unless it is stuck in a        *)
(* request when it is dismissed or when the head dies (of a late answer):   *)
(* it is told to leave, or finds the connection closed, and does not read.  *)
DismissedStuck == May("hang") /\ (May("drop") \/ May("slow"))
Leaves == (~ctl.open /\ ~DismissedStuck) ~> ~Alive

(* A worker that is stuck in a request is killed, with the same exception.  *)
StuckIsKilled == (proc.hung /\ ~DismissedStuck) ~> ~Alive

(* "Sends ERROR control message, if application could not be loaded by      *)
(* worker.": it is reported to the head, if the process lives, its message  *)
(* can be sent in time and the cause is not run_as_user.                    *)
Reporting == \A d \in {"user", "crash", "blocked"} : ~May(d)
ErrorReported == (proc.broken /\ Reporting) ~> ctl.told

(* The head hears of every worker it has started: it registers, or reports  *)
(* why it cannot.                                                           *)
HeardOf == Registers /\ ErrorReported

(* No worker process stays behind, stuck or let go. *)
GoesAway == Leaves /\ StuckIsKilled
=============================================================================
