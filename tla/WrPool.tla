------------------------------- MODULE WrPool -------------------------------
(***************************************************************************)
(* The worker pool of one application: the fields of wr_app_t              *)
(* (src/src/head/wr_application.h) as a record, and the functions of       *)
(* wr_application.c and wr_worker.c that only touch those fields, as       *)
(* operators from record to record.  A function that forks returns a set   *)
(* of records, one for each choice the operating system may make.  The     *)
(* callbacks that call these functions are the actions of WrHead.          *)
(***************************************************************************)
EXTENDS Integers, Sequences, FiniteSets, Functions

CONSTANTS
  Pid,            \* process ids; fork fails when all are in use
  Req,            \* HTTP requests
  Ctl,            \* control connections of administrators
  Conf,           \* application configurations
  MinWorker,      \* [Conf -> Nat]: min_worker
  MaxWorker,      \* [Conf -> Nat]: max_worker
  WorkerMax,      \* Config->Server.Worker.max
  PendingCap,     \* Config->Server.Worker.pending
  MsgQueueSize,   \* Config->Application.msg_queue_size
  AddTrials,      \* Config->Server.Worker.add_trials
  PingTrials,     \* Config->Server.Worker.ping_trials
  MaxReqRatio,    \* Config->Application.max_req_ratio
  MinReqRatio,    \* Config->Application.min_req_ratio
  None            \* the null pointer

ASSUME PoolAssumption ==
  /\ IsFiniteSet(Pid)
  /\ MinWorker \in [Conf -> Nat] /\ MaxWorker \in [Conf -> Nat]
  /\ \A c \in Conf : /\ 1 <= MinWorker[c]
                     /\ MinWorker[c] <= MaxWorker[c]
                     /\ MaxWorker[c] <= WorkerMax
  /\ WorkerMax \in Nat /\ PendingCap \in Nat /\ MsgQueueSize \in Nat
  /\ AddTrials \in Nat /\ PingTrials \in Nat
  /\ MaxReqRatio \in Nat /\ MinReqRatio \in Nat
  /\ None \notin Pid \cup Req \cup Ctl \cup Conf

(* NONE stands for an application that is not on the server's list. *)
AppState == {"NONE", "NEW", "ACTIVE", "RESTART", "RESTARTING"}

AppType ==
  [state : AppState, conf : Conf \cup {None}, new : Conf \cup {None},
   ctl : Ctl \cup {None}, counter : 0..(AddTrials + 1),
   pending : Seq(Pid), workers : SUBSET Pid, free : Seq(Pid), messages : Seq(Req),
   high : Nat, low : Nat, tAdd : BOOLEAN, tRemove : BOOLEAN, tAddTimeout : BOOLEAN]

NoApp ==
  [state |-> "NONE", conf |-> None, new |-> None, ctl |-> None, counter |-> 0,
   pending |-> <<>>, workers |-> {}, free |-> <<>>, messages |-> <<>>,
   high |-> 0, low |-> 0, tAdd |-> FALSE, tRemove |-> FALSE, tAddTimeout |-> FALSE]

(* wr_app_insert, up to its call of wr_app_wkr_balance. *)
wr_app_new(c, ctl) == [NoApp EXCEPT !.state = "NEW", !.conf = c, !.ctl = ctl]

(* Where the search of wr_queue_remove and wr_pending_worker_exist stops;   *)
(* the elements of these queues are distinct.                               *)
IndexOf(s, x) == CHOOSE i \in DOMAIN s : s[i] = x

wr_queue_remove(s, x) ==
  IF x \notin Range(s) THEN s
  ELSE SubSeq(s, 1, IndexOf(s, x) - 1) \o SubSeq(s, IndexOf(s, x) + 1, Len(s))

QCount(a) == Cardinality(a.workers)
Mutant_TOTAL(a) == QCount(a)
TOTAL_WORKER_COUNT(a) == Len(a.pending) + QCount(a)

-----------------------------------------------------------------------------
(* What k calls of wr_app_wkr_add in a row can fork when pids are unused:   *)
(* nothing while the application is being punished for timed-out workers,   *)
(* else as many processes as the pending queue and the process table allow. *)
ForkRoom(a, k) ==
  LET room == PendingCap - Len(a.pending)
  IN  IF a.counter >= AddTrials \/ k < 0 \/ room < 0 THEN 0
      ELSE IF k < room THEN k ELSE room

ForkSeqs(a, k, pids) ==
  {s \in UNION {[1..n -> pids] : n \in 0..ForkRoom(a, k)} :
     /\ \A i, j \in DOMAIN s : s[i] = s[j] => i = j
     /\ Len(s) < ForkRoom(a, k) => Range(s) = pids}

Mutant_Forked(a, s) ==
  [a EXCEPT !.pending = @ \o s,
            !.high = (TOTAL_WORKER_COUNT(a) + Len(s)) * MaxReqRatio]
Forked(a, s) ==
  IF s = <<>> THEN a
  ELSE [a EXCEPT !.pending = @ \o s,
                 !.high = (TOTAL_WORKER_COUNT(a) + Len(s)) * MaxReqRatio,
                 !.tAddTimeout = TRUE]

wr_app_wkr_add(a, pids) == {Forked(a, s) : s \in ForkSeqs(a, 1, pids)}

(* Leaving the state RESTART drops the new configuration. *)
Mutant_SettleRestart(a) == [a EXCEPT !.state = "ACTIVE"]
SettleRestart(a) == [a EXCEPT !.state = "ACTIVE", !.new = None]

wr_app_wkr_balance(a, pids) ==
  LET Added(s) ==
        IF s = <<>> THEN a
        ELSE [Forked(a, s) EXCEPT
                !.low = (TOTAL_WORKER_COUNT(a) + Len(s)) * MinReqRatio]
      Settled(b) ==
        IF b.state = "RESTART" /\ QCount(b) >= MinWorker[b.conf]
          THEN SettleRestart(b) ELSE b
  IN  {Settled(Added(s)) :
         s \in ForkSeqs(a, MinWorker[a.conf] - TOTAL_WORKER_COUNT(a), pids)}

-----------------------------------------------------------------------------
(* wr_pending_worker_exist: pid found leaves the queue, which the search    *)
(* has rotated; not found leaves the queue as it was.                       *)
wr_pending_worker_exist(a, p) ==
  IF p \notin Range(a.pending) THEN a
  ELSE [a EXCEPT !.pending = SubSeq(@, IndexOf(@, p) + 1, Len(@))
                                \o SubSeq(@, 1, IndexOf(@, p) - 1)]

(* wr_app_kill_pending_wkr, with flag (only the front) and without (all). *)
KillFirst(a) ==
  LET rest == IF a.pending = <<>> THEN <<>> ELSE Tail(a.pending)
  IN  [a EXCEPT !.pending = rest, !.high = (Len(rest) + QCount(a)) * MaxReqRatio]
KillAll(a) == [a EXCEPT !.pending = <<>>, !.high = QCount(a) * MaxReqRatio]

(* The common end of wr_app_wkr_insert and wr_app_wkr_error: the counter is *)
(* cleared and the add timer stops when nothing is pending any more.        *)
Answered(a) ==
  [a EXCEPT !.counter = 0, !.tAddTimeout = @ /\ a.pending # <<>>]

(* What wr_wkr_free does to the application of worker p. *)
Ratios(a) == [a EXCEPT !.high = TOTAL_WORKER_COUNT(a) * MaxReqRatio,
                       !.low = QCount(a) * MinReqRatio]

Mutant_wr_wkr_free(a, p) == Ratios([a EXCEPT !.workers = @ \ {p}])
wr_wkr_free(a, p) ==
  Ratios([a EXCEPT !.workers = @ \ {p}, !.free = wr_queue_remove(@, p)])

wr_app_chk_load_to_add_wkr(a) ==
  IF TOTAL_WORKER_COUNT(a) < MaxWorker[a.conf]
    THEN [a EXCEPT !.tAdd = Len(a.messages) > a.high] ELSE a

wr_app_chk_load_to_remove_wkr(a) ==
  IF QCount(a) > MinWorker[a.conf]
    THEN [a EXCEPT !.tRemove = Len(a.messages) < a.low] ELSE a

(* wr_app_reload: the new configuration takes effect and every free worker  *)
(* is removed; the busy ones are marked expired by the caller.              *)
Mutant_DropFree(a) == Ratios([a EXCEPT !.workers = @ \ Range(a.free)])
DropFree(a) ==
  IF a.free = <<>> THEN a
  ELSE Ratios([a EXCEPT !.workers = @ \ Range(a.free), !.free = <<>>])

wr_app_reload(a) ==
  [DropFree(a) EXCEPT !.conf = a.new, !.new = None, !.state = "RESTARTING"]

(* wr_wrk_allocate for worker p of application a: the oldest waiting        *)
(* request (None if there is none) and the application without it, or with  *)
(* p among the free workers.                                                *)
AllocReq(a) == IF a.messages = <<>> THEN None ELSE Head(a.messages)
wr_wrk_allocate(a, p) ==
  LET b == wr_app_chk_load_to_remove_wkr(a)
  IN  IF b.messages = <<>>
        THEN [b EXCEPT !.free = Append(@, p)]
        ELSE [b EXCEPT !.messages = Tail(@)]
=============================================================================
