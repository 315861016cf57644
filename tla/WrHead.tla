------------------------------- MODULE WrHead -------------------------------
(***************************************************************************)
(* The head process with one application: its callbacks, each one run to   *)
(* completion by the libev loop, interleaved with the worker processes it  *)
(* forks, the HTTP clients and the administrators.  Time is abstracted: a  *)
(* running timer may expire at any moment.                                 *)
(*                                                                         *)
(*   app     the application (a record of WrPool)                          *)
(*   wkr     the wr_wkr_t of each registered worker, indexed by pid        *)
(*   req     what has become of each client's latest request               *)
(*   proc    the worker processes, and the control message each has sent   *)
(*   pconf   the configuration a process was given when it asked for it    *)
(*   admin   the administrators' control connections; each carries one     *)
(*           command                                                       *)
(*   ctlApp  ctl->app of those connections                                 *)
(*   faults  how many more failures the environment may inject             *)
(***************************************************************************)
EXTENDS WrPool

CONSTANTS Faults,       \* the kinds of failure that happen, see FaultKind
          FaultBudget   \* how many failures happen

FaultKind == {"boot",      \* a process dies before it has registered
              "load",      \* the application cannot be loaded: worker error
              "connect",   \* the head cannot connect to the new worker
              "crash",     \* a worker dies, idle or serving a request
              "hang"}      \* a worker stops responding

ASSUME HeadAssumption == Faults \subseteq FaultKind /\ FaultBudget \in Nat

VARIABLES app, wkr, req, proc, pconf, admin, ctlApp, faults

vars == <<app, wkr, req, proc, pconf, admin, ctlApp, faults>>

WkrState == {"FREED", "INACTIVE", "ACTIVE", "PINGING", "EXPIRED"}

(* phase: the request is being sent, its response is awaited, a part of it  *)
(* has arrived.  pinged: a PING is unanswered.                              *)
WkrType ==
  [state : WkrState, req : Req \cup {None}, trials : 0..PingTrials, tWait : BOOLEAN,
   phase : {"idle", "send", "wait", "body"}, pinged : BOOLEAN]

NoWkr == [state |-> "FREED", req |-> None, trials |-> 0, tWait |-> FALSE,
          phase |-> "idle", pinged |-> FALSE]

ReqState == {"done", "error",    \* no request outstanding: how the last one ended
             "resolved",         \* headers parsed, req->app is set
             "queued",           \* in q_messages
             "busy",             \* with a worker
             "aborted",          \* answered 400 while with a worker (conn_err)
             "dangling"}         \* req->app has been freed

ProcState == {"none", "boot", "conf", "add", "err", "up", "hung", "dead"}
AdminState == {"idle", "waiting", "answered", "closed"}

TypeOK ==
  /\ app \in AppType
  /\ wkr \in [Pid -> WkrType]
  /\ req \in [Req -> ReqState]
  /\ proc \in [Pid -> ProcState]
  /\ pconf \in [Pid -> Conf \cup {None}]
  /\ admin \in [Ctl -> AdminState]
  /\ ctlApp \in [Ctl -> {"none", "app", "stale"}]
  /\ faults \in 0..FaultBudget

(* Pids the operating system can give to a new process.  A pid the head     *)
(* still refers to is not reused.                                           *)
Unused == {p \in Pid : proc[p] = "none"} \ (app.workers \cup Range(app.pending))

(* The processes after a step that killed ks and forked what app' has gained. *)
Processes(ks) ==
  LET new == Range(app'.pending) \ Range(app.pending)
  IN  /\ proc' = [p \in Pid |-> IF p \in new THEN "boot"
                                ELSE IF p \in ks THEN "none" ELSE proc[p]]
      /\ pconf' = [p \in Pid |-> IF p \in ks THEN None ELSE pconf[p]]

(* wr_app_init: the configured application is started with the server. *)
Init ==
  /\ \E c \in Conf : app \in wr_app_wkr_balance(wr_app_new(c, None), Pid)
  /\ wkr = [p \in Pid |-> NoWkr]
  /\ req = [r \in Req |-> "done"]
  /\ proc = [p \in Pid |-> IF p \in Range(app.pending) THEN "boot" ELSE "none"]
  /\ pconf = [p \in Pid |-> None]
  /\ admin = [c \in Ctl |-> "idle"]
  /\ ctlApp = [c \in Ctl |-> "none"]
  /\ faults = FaultBudget

Running == app.state # "NONE"

(* wr_wkr_free: worker p is gone, and the client it was serving gets an     *)
(* error.                                                                   *)
FreeWorker(p) ==
  /\ wkr' = [wkr EXCEPT ![p] = NoWkr]
  /\ req' = [r \in Req |-> IF wkr[p].req = r THEN "error" ELSE req[r]]

(* wr_wkr_req_processing. *)
Serving(w, r) == [w EXCEPT !.state = "ACTIVE", !.req = r, !.phase = "send"]

(* wr_wait_watcher_start. *)
Watched(w) ==
  [w EXCEPT !.state = IF @ \in {"INACTIVE", "PINGING"} THEN "ACTIVE" ELSE @,
            !.trials = 0, !.tWait = TRUE]

-----------------------------------------------------------------------------
(* HTTP clients *)

(* wr_headers_complete_cb: the resolver finds no application that has no    *)
(* worker, and the client is answered 404.                                  *)
ReqHeaders(r) ==
  /\ req[r] \in {"done", "error"}
  /\ req' = [req EXCEPT ![r] =
               IF Running /\ app.workers # {} THEN "resolved" ELSE "error"]
  /\ UNCHANGED <<app, wkr, proc, pconf, admin, ctlApp, faults>>

(* wr_req_complete_cb with wr_wkr_dispatch_req and WR_APP_MSG_DISPATCH. *)
Mutant_Dispatch(a) == a.messages # <<>> /\ Len(a.free) > 1
Dispatch(a) == a.messages # <<>> /\ a.free # <<>>

ReqComplete(r) ==
  /\ req[r] = "resolved"
  /\ IF Len(app.messages) >= MsgQueueSize
       THEN req' = [req EXCEPT ![r] = "error"] /\ UNCHANGED <<app, wkr>>
       ELSE LET a == wr_app_chk_load_to_add_wkr(
                       [app EXCEPT !.messages = Append(@, r)])
            IN  IF Dispatch(a)
                  THEN LET first == Head(a.messages)
                           w == Head(a.free)
                       IN  /\ app' = [a EXCEPT !.messages = Tail(@), !.free = Tail(@)]
                           /\ wkr' = [wkr EXCEPT ![w] = Serving(@, first)]
                           /\ req' = [[req EXCEPT ![r] = "queued"]
                                           EXCEPT ![first] = "busy"]
                  ELSE /\ app' = a
                       /\ req' = [req EXCEPT ![r] = "queued"]
                       /\ UNCHANGED wkr
  /\ UNCHANGED <<proc, pconf, admin, ctlApp, faults>>

(* wr_req_parse_err_cb: what follows a complete request does not parse.     *)
(* wr_conn_err_resp takes a waiting request off the queue; one that is with *)
(* a worker stays there.                                                    *)
Mutant_Unqueue(r) == app
Unqueue(r) == [app EXCEPT !.messages = wr_queue_remove(@, r)]

ReqAbort(r) ==
  /\ \/ req[r] \in {"resolved", "queued"}
        /\ app' = Unqueue(r)
        /\ req' = [req EXCEPT ![r] = "error"]
     \/ req[r] = "busy"
        /\ req' = [req EXCEPT ![r] = "aborted"]
        /\ UNCHANGED app
  /\ UNCHANGED <<wkr, proc, pconf, admin, ctlApp, faults>>

-----------------------------------------------------------------------------
(* The request socket of a worker *)

(* wr_req_hearer_write_cb, wr_req_body_write_cb, wr_wkr_req_sent. *)
ReqSent(p) ==
  /\ wkr[p].phase = "send"
  /\ proc[p] \in {"up", "hung"}
  /\ wkr' = [wkr EXCEPT ![p] = [Watched(@) EXCEPT !.phase = "wait"]]
  /\ UNCHANGED <<app, req, proc, pconf, admin, ctlApp, faults>>

(* wr_resp_len_read_cb, wr_resp_read_cb: a part of the response.  Bound: at *)
(* most one part precedes the rest of a response.                           *)
RespChunk(p) ==
  /\ wkr[p].phase = "wait"
  /\ proc[p] = "up"
  /\ wkr' = [wkr EXCEPT ![p] = [Watched(@) EXCEPT !.phase = "body"]]
  /\ UNCHANGED <<app, req, proc, pconf, admin, ctlApp, faults>>

(* The same callbacks at the end of the response: wr_wkr_req_processed. *)
Released(w) == [w EXCEPT !.state = "INACTIVE", !.req = None, !.phase = "idle", !.tWait = FALSE]

RespDone(p) ==
  /\ wkr[p].phase \in {"wait", "body"}
  /\ proc[p] = "up"
  /\ LET r == wkr[p].req
         answered == [req EXCEPT ![r] = IF @ = "aborted" THEN "error" ELSE "done"]
     IN  IF wkr[p].state = "EXPIRED"
           THEN /\ app' = wr_wkr_free(app, p)
                /\ wkr' = [wkr EXCEPT ![p] = NoWkr]
                /\ req' = answered
                /\ Processes({p})
           ELSE LET next == AllocReq(app)
                IN  /\ app' = wr_wrk_allocate(app, p)
                    /\ IF next = None
                         THEN /\ wkr' = [wkr EXCEPT ![p] = Released(@)]
                              /\ req' = answered
                         ELSE /\ wkr' = [wkr EXCEPT ![p] = Serving(Released(@), next)]
                              /\ req' = [answered EXCEPT ![next] = "busy"]
                    /\ UNCHANGED <<proc, pconf>>
  /\ UNCHANGED <<admin, ctlApp, faults>>

(* Reading or writing the request socket of a dead worker fails first: the  *)
(* worker is freed and nothing is balanced.                                 *)
RespError(p) ==
  /\ wkr[p].phase # "idle"
  /\ proc[p] = "dead"
  /\ app' = wr_wkr_free(app, p)
  /\ FreeWorker(p)
  /\ Processes({p})
  /\ UNCHANGED <<admin, ctlApp, faults>>

-----------------------------------------------------------------------------
(* The control connection of a worker *)

(* wr_ctl_free after end of file: the worker died.  It is replaced only in  *)
(* the state ACTIVE.                                                        *)
Mutant_AfterLoss(a) == {a}
AfterLoss(a) == IF a.state = "ACTIVE" THEN wr_app_wkr_balance(a, Unused) ELSE {a}

CtlClosed(p) ==
  /\ p \in app.workers
  /\ proc[p] = "dead"
  /\ app' \in AfterLoss(wr_wkr_free(app, p))
  /\ FreeWorker(p)
  /\ Processes({p})
  /\ UNCHANGED <<admin, ctlApp, faults>>

(* wr_wkr_wait_cb: the worker has been silent for too long. *)
Mutant_MorePings(w) == w.trials <= PingTrials
MorePings(w) == w.trials < PingTrials

(* wr_wkr_ping_send. *)
Pinged(w) == [w EXCEPT !.state = "PINGING", !.trials = @ + 1, !.pinged = TRUE]

WaitTimeout(p) ==
  /\ wkr[p].tWait
  /\ \/ /\ wkr[p].state \in {"ACTIVE", "PINGING"}
        /\ MorePings(wkr[p])
        /\ wkr' = [wkr EXCEPT ![p] = Pinged(@)]
        /\ UNCHANGED <<app, req, proc, pconf>>
     \/ /\ wkr[p].state \in {"ACTIVE", "PINGING"}
        /\ ~MorePings(wkr[p])
        /\ app' \in wr_app_wkr_balance(wr_wkr_free(app, p), Unused)
        /\ FreeWorker(p)
        /\ Processes({p})
     \/ /\ wkr[p].state = "EXPIRED"
        /\ app' = wr_wkr_free(app, p)
        /\ FreeWorker(p)
        /\ Processes({p})
  /\ UNCHANGED <<admin, ctlApp, faults>>

(* wr_wkr_ping_cb: the answer to a PING, late ones included. *)
Mutant_Ponged(w) ==
  IF w.state = "PINGING"
    THEN [w EXCEPT !.state = "ACTIVE", !.tWait = TRUE, !.trials = 0, !.pinged = FALSE]
    ELSE [w EXCEPT !.pinged = FALSE]
Mutant_PongedUnwatched(w) ==
  IF w.state = "PINGING"
    THEN [w EXCEPT !.state = "ACTIVE", !.tWait = FALSE, !.pinged = FALSE]
    ELSE [w EXCEPT !.pinged = FALSE]
Ponged(w) ==
  IF w.state = "PINGING"
    THEN [w EXCEPT !.state = "ACTIVE", !.tWait = TRUE, !.pinged = FALSE]
    ELSE [w EXCEPT !.pinged = FALSE]

PingReply(p) ==
  /\ wkr[p].pinged
  /\ proc[p] = "up"
  /\ wkr' = [wkr EXCEPT ![p] = Ponged(@)]
  /\ UNCHANGED <<app, req, proc, pconf, admin, ctlApp, faults>>

-----------------------------------------------------------------------------
(* A process that is starting *)

(* wr_app_conf_req_cb. *)
ConfReq(p) ==
  /\ proc[p] = "boot"
  /\ IF Running
       THEN /\ proc' = [proc EXCEPT ![p] = "conf"]
            /\ pconf' = [pconf EXCEPT ![p] =
                           IF app.state = "RESTART" THEN app.new ELSE app.conf]
       ELSE proc' = [proc EXCEPT ![p] = "none"] /\ UNCHANGED pconf
  /\ UNCHANGED <<app, wkr, req, admin, ctlApp, faults>>

(* The process has loaded the application and reports it (WORKER ADD). *)
Loaded(p) ==
  /\ proc[p] = "conf"
  /\ proc' = [proc EXCEPT ![p] = "add"]
  /\ UNCHANGED <<app, wkr, req, pconf, admin, ctlApp, faults>>

Fault(kind) == kind \in Faults /\ faults > 0 /\ faults' = faults - 1

(* The process could not load the application (WORKER ERROR). *)
LoadFailed(p) ==
  /\ proc[p] = "conf" /\ Fault("load")
  /\ proc' = [proc EXCEPT ![p] = "err"]
  /\ UNCHANGED <<app, wkr, req, pconf, admin, ctlApp>>

BootDies(p) ==
  /\ proc[p] \in {"boot", "conf"} /\ Fault("boot")
  /\ proc' = [proc EXCEPT ![p] = "none"]
  /\ pconf' = [pconf EXCEPT ![p] = None]
  /\ UNCHANGED <<app, wkr, req, admin, ctlApp>>

Crash(p) ==
  /\ proc[p] \in {"up", "hung"} /\ Fault("crash")
  /\ proc' = [proc EXCEPT ![p] = "dead"]
  /\ UNCHANGED <<app, wkr, req, pconf, admin, ctlApp>>

Hang(p) ==
  /\ proc[p] = "up" /\ Fault("hang")
  /\ proc' = [proc EXCEPT ![p] = "hung"]
  /\ UNCHANGED <<app, wkr, req, pconf, admin, ctlApp>>

(* A response to the administrator the application remembers: only a        *)
(* connection that is still open sees it.                                   *)
Mutant_Reply(adm, c) == adm
Reply(adm, c) ==
  IF c # None /\ adm[c] = "waiting" THEN [adm EXCEPT ![c] = "answered"] ELSE adm

(* wr_wkr_add_cb, wr_wkr_connect, wr_app_wkr_insert. *)
Wanted(p) ==
  /\ Running
  /\ MaxWorker[app.conf] > QCount(app) \/ app.state = "RESTART"
  /\ p \in Range(app.pending)

(* wr_app_wkr_insert: the administrator hears OK as soon as the pid is      *)
(* recognised, before the head has connected to the worker.                 *)
Inserted(p) ==
  LET a == Answered(wr_pending_worker_exist(app, p))
  IN  CASE a.state = "RESTART" -> [wr_app_reload(a) EXCEPT !.ctl = None]
        [] a.state = "NEW"     -> [a EXCEPT !.state = "ACTIVE", !.ctl = None]
        [] OTHER               -> a

(* The workers a reload removes, and the wr_wkr_t of those it keeps. *)
Discarded == IF app.state = "RESTART" THEN Range(app.free) ELSE {}
Reloaded ==
  [q \in Pid |->
     IF q \in Discarded THEN NoWkr
     ELSE IF app.state = "RESTART" /\ q \in app.workers
       THEN [wkr[q] EXCEPT !.state = "EXPIRED"]
     ELSE wkr[q]]

WkrRejected(p) ==
  /\ proc[p] = "add"
  /\ ~Wanted(p)
  /\ proc' = [proc EXCEPT ![p] = "none"]
  /\ pconf' = [pconf EXCEPT ![p] = None]
  /\ UNCHANGED <<app, wkr, req, admin, ctlApp, faults>>

(* wr_wkr_set_ratio: q_workers has one slot more than Worker.max. *)
Mutant_HasSlot(a) == QCount(a) <= WorkerMax + 1
HasSlot(a) == QCount(a) < WorkerMax + 1

WkrAdd(p) ==
  /\ proc[p] = "add"
  /\ Wanted(p)
  /\ LET a == [Inserted(p) EXCEPT !.workers = @ \cup {p},
                                   !.low = (QCount(Inserted(p)) + 1) * MinReqRatio]
         next == AllocReq(a)
     IN  /\ HasSlot(Inserted(p))
         /\ app' \in wr_app_wkr_balance(wr_wrk_allocate(a, p), Unused)
         /\ IF next = None
              THEN /\ wkr' = [Reloaded EXCEPT ![p] = [NoWkr EXCEPT !.state = "INACTIVE"]]
                   /\ UNCHANGED req
              ELSE /\ wkr' = [Reloaded EXCEPT ![p] = Serving(NoWkr, next)]
                   /\ req' = [req EXCEPT ![next] = "busy"]
         /\ LET new == Range(app'.pending) \ Range(app.pending)
            IN  /\ proc' = [q \in Pid |-> CASE q \in new -> "boot"
                                            [] q \in Discarded -> "none"
                                            [] q = p -> "up"
                                            [] OTHER -> proc[q]]
                /\ pconf' = [q \in Pid |-> IF q \in Discarded THEN None ELSE pconf[q]]
  /\ admin' = IF app.state \in {"NEW", "RESTART"} THEN Reply(admin, app.ctl) ELSE admin
  /\ UNCHANGED <<ctlApp, faults>>

(* The pid is recognised, but the head cannot connect to the worker, or     *)
(* q_workers is full: the worker is dropped and nothing is balanced.        *)
WkrAddFails(p) ==
  /\ proc[p] = "add"
  /\ Wanted(p)
  /\ \/ ~HasSlot(Inserted(p)) /\ UNCHANGED faults
     \/ Fault("connect")
  /\ app' = [Inserted(p) EXCEPT
               !.high = TOTAL_WORKER_COUNT(Inserted(p)) * MaxReqRatio]
  /\ wkr' = Reloaded
  /\ proc' = [q \in Pid |-> IF q \in Discarded \cup {p} THEN "none" ELSE proc[q]]
  /\ pconf' = [q \in Pid |-> IF q \in Discarded \cup {p} THEN None ELSE pconf[q]]
  /\ admin' = IF app.state \in {"NEW", "RESTART"} THEN Reply(admin, app.ctl) ELSE admin
  /\ UNCHANGED <<req, ctlApp>>

-----------------------------------------------------------------------------
(* wr_app_free: workers are freed, waiting requests answered, processes     *)
(* that are still starting left alone, pointers to the application kept.    *)
RemoveApp(ks) ==
  /\ app' = NoApp
  /\ wkr' = [p \in Pid |-> NoWkr]
  /\ req' = [r \in Req |-> CASE req[r] \in {"queued", "busy", "aborted"} -> "error"
                             [] req[r] = "resolved" -> "dangling"
                             [] OTHER -> req[r]]
  /\ proc' = [p \in Pid |-> IF p \in app.workers \cup ks THEN "none" ELSE proc[p]]
  /\ pconf' = [p \in Pid |-> IF p \in app.workers \cup ks THEN None ELSE pconf[p]]
  /\ ctlApp' = [c \in Ctl |-> IF ctlApp[c] = "app" THEN "stale" ELSE ctlApp[c]]

(* wr_app_add_error_msg without the response. *)
ErrorSent(a) == [a EXCEPT !.counter = 0, !.ctl = None]

(* wr_wkr_add_error_cb, wr_app_wkr_error: outside the states RESTART and    *)
(* NEW only the worker that failed is forgotten.                            *)
WkrError(p) ==
  /\ proc[p] = "err"
  /\ \/ /\ app.state = "RESTART"
        /\ app' = ErrorSent(SettleRestart(app))
        /\ admin' = Reply(admin, app.ctl)
        /\ Processes({p})
        /\ UNCHANGED <<wkr, req, ctlApp>>
     \/ /\ app.state = "NEW"
        /\ RemoveApp({p})
        /\ admin' = Reply(admin, app.ctl)
     \/ /\ app.state \notin {"RESTART", "NEW"}
        /\ app' = IF Running THEN Answered(wr_pending_worker_exist(app, p)) ELSE app
        /\ Processes({p})
        /\ UNCHANGED <<wkr, req, admin, ctlApp>>
  /\ UNCHANGED faults

(* wr_app_wkr_add_timeout_cb.  First the wait after too many failures is    *)
(* over; else the oldest or, after the last trial, every pending worker is  *)
(* killed, and what follows depends on the application's state.             *)
TimedOut ==
  IF app.counter + 1 = AddTrials
    THEN KillAll([app EXCEPT !.counter = @ + 2, !.tAddTimeout = TRUE])
    ELSE LET b == KillFirst([app EXCEPT !.counter = @ + 1])
         IN  [b EXCEPT !.tAddTimeout = b.pending # <<>>]

Killed == Range(app.pending) \ Range(TimedOut.pending)

WaitOver ==
  /\ app.tAddTimeout
  /\ app.counter + 1 > AddTrials
  /\ app' = [app EXCEPT !.tAddTimeout = FALSE, !.counter = 0]
  /\ UNCHANGED <<wkr, req, proc, pconf, admin, ctlApp, faults>>

AddTimeout ==
  /\ app.tAddTimeout
  /\ app.counter + 1 <= AddTrials
  /\ \/ /\ app.state = "RESTART"
        /\ app' = ErrorSent(SettleRestart(TimedOut))
        /\ admin' = Reply(admin, app.ctl)
        /\ Processes(Killed)
        /\ UNCHANGED <<wkr, req, ctlApp>>
     \/ /\ app.state = "NEW" /\ TimedOut.pending = <<>>
        /\ RemoveApp(Killed)
        /\ admin' = Reply(admin, app.ctl)
     \/ /\ app.state = "NEW" /\ TimedOut.pending # <<>>
        /\ app' = TimedOut
        /\ Processes(Killed)
        /\ UNCHANGED <<wkr, req, admin, ctlApp>>
     \/ /\ app.state \in {"ACTIVE", "RESTARTING"}
        /\ app' \in wr_app_wkr_balance(TimedOut, Unused)
        /\ Processes(Killed)
        /\ UNCHANGED <<wkr, req, admin, ctlApp>>
  /\ UNCHANGED faults

(* wr_app_wkr_add_cb: the load has been high for a while. *)
AddCb ==
  /\ app.tAdd
  /\ LET a == [app EXCEPT !.tAdd = FALSE]
     IN  IF TOTAL_WORKER_COUNT(a) < MaxWorker[a.conf]
           THEN app' \in wr_app_wkr_add(a, Unused)
           ELSE app' = a
  /\ Processes({})
  /\ UNCHANGED <<wkr, req, admin, ctlApp, faults>>

(* wr_app_wkr_remove_cb: the load has been low for a while.  ps names the   *)
(* live worker with the largest resident set; it is removed if it is free   *)
(* and expires after its request otherwise.                                 *)
RemoveCb ==
  /\ app.tRemove
  /\ LET live == {p \in app.workers : proc[p] \in {"up", "hung"}}
         left == QCount(app) - 1
         Again(n) == [app EXCEPT !.tRemove = n > MinWorker[app.conf]]
     IN  IF QCount(app) > MinWorker[app.conf] /\ live # {}
           THEN \E p \in live :
                  IF p \in Range(app.free)
                    THEN /\ app' = wr_wkr_free(Again(left), p)
                         /\ FreeWorker(p)
                         /\ Processes({p})
                    ELSE /\ app' = Again(left)
                         /\ wkr' = [wkr EXCEPT ![p].state = "EXPIRED"]
                         /\ UNCHANGED <<req, proc, pconf>>
           ELSE app' = Again(QCount(app)) /\ UNCHANGED <<wkr, req, proc, pconf>>
  /\ UNCHANGED <<admin, ctlApp, faults>>

-----------------------------------------------------------------------------
(* Administrators *)

(* A command the head refuses: the application runs already, is unknown, or *)
(* its configuration cannot be read (wr_conf_app_read).                     *)
Refused(c, link) ==
  /\ admin[c] = "idle"
  /\ admin' = [admin EXCEPT ![c] = "answered"]
  /\ ctlApp' = [ctlApp EXCEPT ![c] = link]
  /\ UNCHANGED <<app, wkr, req, proc, pconf, faults>>

(* wr_app_insert for an administrator. *)
Insert(c, cf) ==
  /\ admin[c] = "idle" /\ ~Running
  /\ app' \in wr_app_wkr_balance(wr_app_new(cf, c), Unused)
  /\ Processes({})
  /\ admin' = [admin EXCEPT ![c] = "waiting"]
  /\ ctlApp' = [ctlApp EXCEPT ![c] = "app"]
  /\ UNCHANGED <<wkr, req, faults>>

wr_app_add_cb(c) ==
  \/ Running /\ Refused(c, "app")
  \/ ~Running /\ Refused(c, "none")
  \/ \E cf \in Conf : Insert(c, cf)

(* wr_app_reload_cb: the pending workers are forgotten, not killed. *)
Mutant_Restarted(c, cf) ==
  [app EXCEPT !.state = "RESTART", !.ctl = c, !.new = cf]
Restarted(c, cf) ==
  [app EXCEPT !.state = "RESTART", !.counter = 0, !.pending = <<>>,
              !.ctl = c, !.new = cf]

wr_app_reload_cb(c) ==
  \/ Refused(c, "none")
  \/ \E cf \in Conf :
       /\ admin[c] = "idle" /\ Running
       /\ app' \in wr_app_wkr_add(Restarted(c, cf), Unused)
       /\ Processes({})
       /\ admin' = [admin EXCEPT ![c] = "waiting"]
       /\ UNCHANGED <<wkr, req, ctlApp, faults>>
  \/ \E cf \in Conf : Insert(c, cf)

wr_app_remove_cb(c) ==
  \/ ~Running /\ Refused(c, "none")
  \/ /\ admin[c] = "idle" /\ Running
     /\ RemoveApp({})
     /\ admin' = [admin EXCEPT ![c] = "answered"]
     /\ UNCHANGED faults

(* The administrator disconnects: wr_ctl_free.  Through a stale ctl->app it *)
(* writes to freed memory; no effect on a live object is modelled.          *)
AdmClose(c) ==
  /\ admin[c] \in {"waiting", "answered"}
  /\ admin' = [admin EXCEPT ![c] = "closed"]
  /\ app' = IF ctlApp[c] = "app" THEN [app EXCEPT !.ctl = None] ELSE app
  /\ ctlApp' = [ctlApp EXCEPT ![c] = "none"]
  /\ UNCHANGED <<wkr, req, proc, pconf, faults>>

-----------------------------------------------------------------------------
Client(r) == ReqHeaders(r) \/ ReqComplete(r) \/ ReqAbort(r)

Worker(p) ==
  \/ ReqSent(p) \/ RespChunk(p) \/ RespDone(p) \/ RespError(p)
  \/ CtlClosed(p) \/ WaitTimeout(p) \/ PingReply(p)
  \/ ConfReq(p) \/ Loaded(p) \/ WkrRejected(p) \/ WkrAdd(p) \/ WkrError(p)

Failure(p) == LoadFailed(p) \/ BootDies(p) \/ Crash(p) \/ Hang(p) \/ WkrAddFails(p)

AppTimer == WaitOver \/ AddTimeout \/ AddCb \/ RemoveCb

Admin(c) ==
  wr_app_add_cb(c) \/ wr_app_reload_cb(c) \/ wr_app_remove_cb(c) \/ AdmClose(c)

Next ==
  \/ \E r \in Req : Client(r)
  \/ \E p \in Pid : Worker(p) \/ Failure(p)
  \/ AppTimer
  \/ \E c \in Ctl : Admin(c)

Spec == Init /\ [][Next]_vars

(* libev runs the callback of a timer that stays armed: each expires.       *)
(* Nothing is assumed of worker processes, clients or administrators.       *)
Fairness ==
  /\ \A p \in Pid : WF_vars(WaitTimeout(p))
  /\ WF_vars(WaitOver \/ AddTimeout)

FairSpec == Spec /\ Fairness

-----------------------------------------------------------------------------
(* Properties *)

(* No request waits in q_messages while a worker is free: neither           *)
(* wr_wkr_dispatch_req nor wr_wrk_allocate misses a match.                  *)
WorkConserving == app.messages = <<>> \/ app.free = <<>>

OnceIn(x, s) == Cardinality({i \in DOMAIN s : s[i] = x}) = 1

(* q_workers, q_free_workers and the workers' own state agree: a worker is  *)
(* in the free queue, once, and has no request, or it is not and has one.   *)
(* In particular an expired worker has a request to finish, after which it  *)
(* leaves, and no worker that was freed is still referred to.               *)
WorkersAccounted ==
  /\ Range(app.free) \subseteq app.workers
  /\ \A p \in Pid :
       IF p \notin app.workers THEN wkr[p] = NoWkr
       ELSE IF p \in Range(app.free)
         THEN OnceIn(p, app.free) /\ wkr[p].state = "INACTIVE" /\ wkr[p].req = None
       ELSE wkr[p].state \in {"ACTIVE", "PINGING", "EXPIRED"} /\ wkr[p].req # None

(* A request the head has accepted is in exactly one place: once in         *)
(* q_messages, or with one worker.  None is answered twice or forgotten.    *)
RequestsAccounted ==
  \A r \in Req :
    LET holders == {p \in Pid : wkr[p].req = r}
    IN  /\ IF req[r] = "queued" THEN OnceIn(r, app.messages)
           ELSE r \notin Range(app.messages)
        /\ Cardinality(holders) = IF req[r] \in {"busy", "aborted"} THEN 1 ELSE 0

(* Both accounts at once: freeing a worker, by any of five callbacks, drops *)
(* or answers its request, and dispatching takes both from their queues.    *)
Accounted == WorkersAccounted /\ RequestsAccounted

(* The refinement: dispatching, aborts, losses of workers, reloads and      *)
(* removals give every request a life WrReqLife allows, the same that the   *)
(* connection it came from (WrConn) counts on when it decides what to free. *)
LifeOf(r) == IF req[r] \in {"done", "error"} THEN "none" ELSE req[r]

Life(r) == INSTANCE WrReqLife WITH life <- LifeOf(r)

RequestsLive ==
  /\ \A r \in Req : Life(r)!Init
  /\ [][\A r \in Req : Life(r)!Next \/ UNCHANGED LifeOf(r)]_vars

(* A worker that has been forked and not heard of is under the add timer,   *)
(* and none is left pending when forking is suspended.                      *)
PendingWatched ==
  app.pending # <<>> => app.tAddTimeout /\ app.counter < AddTrials

(* A worker that has been sent a request is under the idle timer until its  *)
(* response is complete, whatever PINGs and answers cross in between.       *)
SentWatched ==
  \A p \in Pid : wkr[p].phase \in {"wait", "body"} <=> wkr[p].tWait

(* There is a new configuration exactly while a reload is undecided.  It is *)
(* what wr_app_conf_req_cb dereferences in the state RESTART.               *)
RestartHasConf == app.state = "RESTART" <=> app.new # None

(* The queues never refuse an element whose insertion is not checked:       *)
(* q_free_workers has as many slots as q_workers.                           *)
QueuesFit ==
  /\ QCount(app) <= WorkerMax + 1
  /\ Len(app.free) <= WorkerMax + 1
  /\ Len(app.pending) <= PendingCap
  /\ Len(app.messages) <= MsgQueueSize

(* Without reloads, load and failures never drive an application beyond     *)
(* max_worker processes, those still starting included.                     *)
AtMostMax == Running => Len(app.pending) + QCount(app) <= MaxWorker[app.conf]

(* Once a reload has taken effect, a worker that may be given requests runs *)
(* the configuration of that reload: neither a worker of the old version    *)
(* nor one of an earlier, superseded reload is let in.                      *)
ReloadIsUniform ==
  app.state = "RESTARTING" =>
    \A p \in app.workers : wkr[p].state # "EXPIRED" => pconf[p] = app.conf

(* Hang-ups, deaths and processes that never register do not shrink a pool  *)
(* below min_worker: there is a replacement in the same step, unless        *)
(* forking has been suspended or the worker died serving a request, which   *)
(* the head may notice on the request socket first.                         *)
Full(a) == a.state = "ACTIVE" /\ TOTAL_WORKER_COUNT(a) >= MinWorker[a.conf]
LostServing ==
  \E p \in app.workers \ app'.workers : proc[p] = "dead" /\ wkr[p].req # None
PoolKept ==
  [][Full(app) /\ app'.state = "ACTIVE" =>
       Full(app') \/ app'.counter >= AddTrials \/ LostServing]_vars

(* A request that was sent to a worker is answered or given up, even if the *)
(* worker hangs, or answers every PING and never finishes.                  *)
SentIsAnswered ==
  \A p \in Pid : wkr[p].phase = "wait" ~> wkr[p].phase \notin {"wait", "body"}

(* Every start and every reload is decided. *)
Decided == app.state \in {"NEW", "RESTART"} ~> app.state \notin {"NEW", "RESTART"}

(* Whoever app->ctl names is told how the command ended, whichever callback *)
(* ends it.  The code forgets an administrator in two ways.  A step of      *)
(* another one may overwrite or clear app->ctl, or remove the application:  *)
(* wr_app_reload_cb, wr_app_remove_cb and wr_ctl_free.  And when a worker   *)
(* hangs while a reload is undecided and min_worker others are left,        *)
(* wr_app_wkr_balance settles the reload and answers nobody.  NotForgotten  *)
(* says that nothing else takes app->ctl from an administrator who waits,   *)
(* AdminAnswered that one who keeps it is answered, but for the silent end. *)
Overtaken(c) == \E d \in Ctl \ {c} : admin'[d] # admin[d]
Awaits(c) == admin[c] = "waiting" /\ app.ctl = c
SettledSilently(c) == app.ctl = c /\ app.state = "ACTIVE"

NotForgotten ==
  [][\A c \in Ctl : Awaits(c) /\ app'.ctl # c =>
                      admin'[c] # "waiting" \/ Overtaken(c)]_vars

AdminAnswered ==
  NotForgotten /\ \A c \in Ctl : Awaits(c) ~> ~Awaits(c) \/ SettledSilently(c)

-----------------------------------------------------------------------------
(* What the documentation says and the code does not do. *)

(* "The server would always ensure at least these many worker processes     *)
(* run for this application" (user-guide.html): a running application whose *)
(* forking is not suspended has min_worker workers, registered or starting. *)
MinEnsured ==
  app.state = "ACTIVE" /\ app.counter = 0 =>
    TOTAL_WORKER_COUNT(app) >= MinWorker[app.conf]
=============================================================================
