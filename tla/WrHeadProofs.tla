----------------------------- MODULE WrHeadProofs ---------------------------
(***************************************************************************)
(* The head's callbacks keep their data well-typed and the pool sound, for *)
(* every number of processes, requests, administrators and configurations  *)
(* and every failure; every worker and every request is accounted for;     *)
(* which version of the application a worker runs after a reload; and who  *)
(* is answered.                                                            *)
(***************************************************************************)
EXTENDS WrHead, FiniteSetTheorems, TLAPS

-----------------------------------------------------------------------------
(* What the functions of WrPool preserve.  Sound(a) is the part of the     *)
(* invariant that speaks of the application alone; there is one lemma per  *)
(* function.                                                               *)

(* A running application has a configuration, a new one exactly while it    *)
(* is being restarted, a timer on its pending workers, and no free worker   *)
(* while a request waits.                                                   *)
Sound(a) ==
  /\ a \in AppType
  /\ a.state # "NONE" => a.conf \in Conf
  /\ a.state = "RESTART" <=> a.new # None
  /\ a.pending # <<>> => a.tAddTimeout /\ a.counter < AddTrials
  /\ a.messages = <<>> \/ a.free = <<>>

LEMMA QCountType ==
  ASSUME NEW a \in AppType
  PROVE  /\ QCount(a) \in Nat
         /\ TOTAL_WORKER_COUNT(a) \in Nat
  <1>1. IsFiniteSet(a.workers)
    <2>1. a.workers \in SUBSET Pid
      BY DEF AppType
    <2> QED BY <2>1, FS_Subset, PoolAssumption
  <1>2. Cardinality(a.workers) \in Nat
    BY <1>1, FS_CardinalityType
  <1>3. Len(a.pending) \in Nat
    BY DEF AppType
  <1> QED BY <1>2, <1>3 DEF QCount, TOTAL_WORKER_COUNT

LEMMA NoAppSound == Sound(NoApp)
  BY PoolAssumption DEF Sound, NoApp, AppType, AppState

LEMMA NewAppSound ==
  ASSUME NEW c \in Conf, NEW ctl \in Ctl \cup {None}
  PROVE  /\ Sound(wr_app_new(c, ctl))
         /\ wr_app_new(c, ctl).state = "NEW"
  <1>1. NoApp \in AppType
    BY NoAppSound DEF Sound
  <1>2. wr_app_new(c, ctl) \in AppType
    BY <1>1 DEF wr_app_new, AppType, AppState
  <1>3. /\ wr_app_new(c, ctl).state = "NEW" /\ wr_app_new(c, ctl).conf = c
        /\ wr_app_new(c, ctl).new = None /\ wr_app_new(c, ctl).pending = <<>>
        /\ wr_app_new(c, ctl).messages = <<>>
    BY DEF wr_app_new, NoApp
  <1> QED BY <1>2, <1>3 DEF Sound

LEMMA IndexOfType ==
  ASSUME NEW S, NEW s \in Seq(S), NEW x \in Range(s)
  PROVE  IndexOf(s, x) \in 1..Len(s) /\ s[IndexOf(s, x)] = x
  BY DEF Range, IndexOf

LEMMA RemoveType ==
  ASSUME NEW S, NEW s \in Seq(S), NEW x
  PROVE  /\ wr_queue_remove(s, x) \in Seq(S)
         /\ s = <<>> => wr_queue_remove(s, x) = <<>>
  <1>1. CASE x \notin Range(s)
    BY <1>1 DEF wr_queue_remove
  <1>2. CASE x \in Range(s)
    <2>1. IndexOf(s, x) \in 1..Len(s)
      BY <1>2, IndexOfType
    <2>2. s # <<>>
      BY <2>1
    <2>3. /\ SubSeq(s, 1, IndexOf(s, x) - 1) \in Seq(S)
          /\ SubSeq(s, IndexOf(s, x) + 1, Len(s)) \in Seq(S)
      BY <2>1
    <2> QED BY <1>2, <2>2, <2>3 DEF wr_queue_remove
  <1> QED BY <1>1, <1>2

LEMMA PendingExistSound ==
  ASSUME NEW a, Sound(a), NEW p
  PROVE  /\ Sound(wr_pending_worker_exist(a, p))
         /\ wr_pending_worker_exist(a, p).state = a.state
  <1>1. CASE p \notin Range(a.pending)
    BY <1>1 DEF wr_pending_worker_exist
  <1>2. CASE p \in Range(a.pending)
    <2>1. a.pending \in Seq(Pid)
      BY DEF Sound, AppType
    <2>2. IndexOf(a.pending, p) \in 1..Len(a.pending)
      BY <1>2, <2>1, IndexOfType
    <2>3. a.pending # <<>>
      BY <2>1, <2>2
    <2> DEFINE rest == SubSeq(a.pending, IndexOf(a.pending, p) + 1, Len(a.pending))
                          \o SubSeq(a.pending, 1, IndexOf(a.pending, p) - 1)
    <2>4. rest \in Seq(Pid)
      BY <2>1, <2>2
    <2>5. wr_pending_worker_exist(a, p) = [a EXCEPT !.pending = rest]
      BY <1>2 DEF wr_pending_worker_exist
    <2> HIDE DEF rest
    <2> QED BY <2>3, <2>4, <2>5 DEF Sound, AppType
  <1> QED BY <1>1, <1>2

LEMMA ForkSeqsType ==
  ASSUME NEW a, Sound(a), NEW k \in Int, NEW pids \in SUBSET Pid,
         NEW s \in ForkSeqs(a, k, pids)
  PROVE  /\ s \in Seq(Pid)
         /\ s # <<>> => a.counter < AddTrials
  <1>1. Len(a.pending) \in Nat /\ a.counter \in Nat
    BY PoolAssumption DEF Sound, AppType
  <1>2. ForkRoom(a, k) \in Nat /\ (a.counter >= AddTrials => ForkRoom(a, k) = 0)
    BY <1>1, PoolAssumption DEF ForkRoom
  <1>3. PICK n \in 0..ForkRoom(a, k) : s \in [1..n -> pids]
    BY DEF ForkSeqs
  <1>4. s \in Seq(Pid) /\ Len(s) = n
    BY <1>2, <1>3
  <1> QED BY <1>1, <1>2, <1>3, <1>4, PoolAssumption

LEMMA ForkedSound ==
  ASSUME NEW a, Sound(a), NEW s \in Seq(Pid), s # <<>> => a.counter < AddTrials
  PROVE  /\ Sound(Forked(a, s))
         /\ Forked(a, s).state = a.state
         /\ Forked(a, s).conf = a.conf
  <1>1. CASE s = <<>>
    BY <1>1 DEF Forked
  <1>2. CASE s # <<>>
    <2>1. (TOTAL_WORKER_COUNT(a) + Len(s)) * MaxReqRatio \in Nat
      BY QCountType, PoolAssumption DEF Sound
    <2>2. a.pending \o s \in Seq(Pid)
      BY DEF Sound, AppType
    <2> QED BY <1>2, <2>1, <2>2 DEF Forked, Sound, AppType
  <1> QED BY <1>1, <1>2

LEMMA WkrAddSound ==
  ASSUME NEW a, Sound(a), NEW pids \in SUBSET Pid, NEW b \in wr_app_wkr_add(a, pids)
  PROVE  Sound(b) /\ b.state = a.state
  <1>1. PICK s \in ForkSeqs(a, 1, pids) : b = Forked(a, s)
    BY DEF wr_app_wkr_add
  <1>2. s \in Seq(Pid) /\ (s # <<>> => a.counter < AddTrials)
    BY ForkSeqsType
  <1> QED BY <1>1, <1>2, ForkedSound

LEMMA SettleSound ==
  ASSUME NEW a, Sound(a), a.state = "RESTART"
  PROVE  Sound(SettleRestart(a)) /\ SettleRestart(a).state = "ACTIVE"
  BY DEF Sound, SettleRestart, AppType, AppState

LEMMA BalanceSound ==
  ASSUME NEW a, Sound(a), a.state # "NONE", NEW pids \in SUBSET Pid,
         NEW b \in wr_app_wkr_balance(a, pids)
  PROVE  Sound(b) /\ b.state # "NONE"
  <1>1. MinWorker[a.conf] - TOTAL_WORKER_COUNT(a) \in Int
    BY QCountType, PoolAssumption DEF Sound
  <1> DEFINE k == MinWorker[a.conf] - TOTAL_WORKER_COUNT(a)
             Added(s) == IF s = <<>> THEN a
                         ELSE [Forked(a, s) EXCEPT
                                 !.low = (TOTAL_WORKER_COUNT(a) + Len(s)) * MinReqRatio]
  <1>2. PICK s \in ForkSeqs(a, k, pids) :
          b = IF Added(s).state = "RESTART" /\ QCount(Added(s)) >= MinWorker[Added(s).conf]
                THEN SettleRestart(Added(s)) ELSE Added(s)
    BY DEF wr_app_wkr_balance
  <1>3. s \in Seq(Pid) /\ (s # <<>> => a.counter < AddTrials)
    BY <1>1, ForkSeqsType
  <1>4. Sound(Forked(a, s)) /\ Forked(a, s).state = a.state
    BY <1>3, ForkedSound
  <1>5. (TOTAL_WORKER_COUNT(a) + Len(s)) * MinReqRatio \in Nat
    BY <1>3, QCountType, PoolAssumption DEF Sound
  <1>6. Sound(Added(s)) /\ Added(s).state = a.state
    <2>1. CASE s = <<>>
      BY <2>1
    <2>2. CASE s # <<>>
      BY <1>4, <1>5, <2>2 DEF Sound, AppType
    <2> QED BY <2>1, <2>2
  <1> HIDE DEF Added
  <1>7. CASE b = Added(s)
    BY <1>6, <1>7
  <1>8. CASE Added(s).state = "RESTART" /\ b = SettleRestart(Added(s))
    BY <1>6, <1>8, SettleSound
  <1> QED BY <1>2, <1>7, <1>8

LEMMA KillSound ==
  ASSUME NEW a, Sound(a)
  PROVE  /\ Sound(KillFirst(a)) /\ KillFirst(a).state = a.state
         /\ Sound(KillAll(a)) /\ KillAll(a).state = a.state
         /\ KillAll(a).pending = <<>>
  <1>1. QCount(a) \in Nat /\ a.pending \in Seq(Pid)
    BY QCountType DEF Sound, AppType
  <1> DEFINE rest == IF a.pending = <<>> THEN <<>> ELSE Tail(a.pending)
  <1>2. rest \in Seq(Pid) /\ Len(rest) \in Nat /\ (rest # <<>> => a.pending # <<>>)
    BY <1>1
  <1>3. KillFirst(a) = [a EXCEPT !.pending = rest,
                                 !.high = (Len(rest) + QCount(a)) * MaxReqRatio]
    BY DEF KillFirst
  <1> HIDE DEF rest
  <1>4. (Len(rest) + QCount(a)) * MaxReqRatio \in Nat /\ QCount(a) * MaxReqRatio \in Nat
    BY <1>1, <1>2, PoolAssumption
  <1>5. Sound(KillFirst(a)) /\ KillFirst(a).state = a.state
    BY <1>2, <1>3, <1>4 DEF Sound, AppType
  <1>6. Sound(KillAll(a)) /\ KillAll(a).state = a.state /\ KillAll(a).pending = <<>>
    <2>1. <<>> \in Seq(Pid)
      OBVIOUS
    <2>2. KillAll(a) \in AppType
      BY <1>4, <2>1 DEF Sound, AppType, KillAll
    <2> QED BY <2>2 DEF Sound, AppType, KillAll
  <1> QED BY <1>5, <1>6

LEMMA AnsweredSound ==
  ASSUME NEW a, Sound(a)
  PROVE  Sound(Answered(a)) /\ Answered(a).state = a.state
  <1>1. 0 \in 0..(AddTrials + 1) /\ (a.tAddTimeout /\ a.pending # <<>>) \in BOOLEAN
    BY PoolAssumption
  <1>2. a.pending # <<>> => a.tAddTimeout /\ 0 < AddTrials
    BY PoolAssumption DEF Sound, AppType
  <1>3. Answered(a) \in AppType
    BY <1>1 DEF Sound, Answered, AppType
  <1>4. /\ Answered(a).state = a.state /\ Answered(a).conf = a.conf
        /\ Answered(a).new = a.new /\ Answered(a).pending = a.pending
        /\ Answered(a).messages = a.messages /\ Answered(a).free = a.free
        /\ Answered(a).counter = 0
        /\ Answered(a).tAddTimeout = (a.tAddTimeout /\ a.pending # <<>>)
    BY DEF Sound, Answered, AppType
  <1> QED BY <1>2, <1>3, <1>4 DEF Sound

LEMMA RatiosSound ==
  ASSUME NEW a, Sound(a)
  PROVE  /\ Sound(Ratios(a)) /\ Ratios(a).state = a.state
         /\ Ratios(a).conf = a.conf /\ Ratios(a).new = a.new
         /\ Ratios(a).free = a.free
  <1>1. TOTAL_WORKER_COUNT(a) * MaxReqRatio \in Nat /\ QCount(a) * MinReqRatio \in Nat
    BY QCountType, PoolAssumption DEF Sound
  <1> QED BY <1>1 DEF Sound, Ratios, AppType

LEMMA WkrFreeSound ==
  ASSUME NEW a, Sound(a), NEW p
  PROVE  Sound(wr_wkr_free(a, p)) /\ wr_wkr_free(a, p).state = a.state
  <1> DEFINE f == wr_queue_remove(a.free, p)
             b == [a EXCEPT !.workers = @ \ {p}, !.free = f]
  <1>1. f \in Seq(Pid) /\ (a.free = <<>> => f = <<>>)
    <2>1. a.free \in Seq(Pid)
      BY DEF Sound, AppType
    <2> QED BY <2>1, RemoveType
  <1>2. wr_wkr_free(a, p) = Ratios(b)
    BY DEF wr_wkr_free
  <1> HIDE DEF f
  <1>3. Sound(b) /\ b.state = a.state
    BY <1>1 DEF Sound, AppType
  <1> HIDE DEF b
  <1> QED BY <1>2, <1>3, RatiosSound

LEMMA ChkAddSound ==
  ASSUME NEW a \in AppType
  PROVE  /\ wr_app_chk_load_to_add_wkr(a) \in AppType
         /\ \/ wr_app_chk_load_to_add_wkr(a) = a
            \/ \E t \in BOOLEAN : wr_app_chk_load_to_add_wkr(a) = [a EXCEPT !.tAdd = t]
  <1>1. (Len(a.messages) > a.high) \in BOOLEAN
    OBVIOUS
  <1> QED BY <1>1 DEF wr_app_chk_load_to_add_wkr, AppType

LEMMA AllocateSound ==
  ASSUME NEW a, Sound(a), NEW p \in Pid
  PROVE  /\ Sound(wr_wrk_allocate(a, p)) /\ wr_wrk_allocate(a, p).state = a.state
         /\ AllocReq(a) \in Req \cup {None}
  <1> DEFINE b == wr_app_chk_load_to_remove_wkr(a)
  <1>1. Sound(b) /\ b.state = a.state /\ b.messages = a.messages
    <2>1. (Len(a.messages) < a.low) \in BOOLEAN
      OBVIOUS
    <2> QED BY <2>1 DEF wr_app_chk_load_to_remove_wkr, Sound, AppType
  <1>2. wr_wrk_allocate(a, p) = IF b.messages = <<>>
                                  THEN [b EXCEPT !.free = Append(@, p)]
                                  ELSE [b EXCEPT !.messages = Tail(@)]
    BY DEF wr_wrk_allocate
  <1> HIDE DEF b
  <1>3. CASE b.messages = <<>>
    <2>1. Append(b.free, p) \in Seq(Pid)
      BY <1>1 DEF Sound, AppType
    <2> QED BY <1>1, <1>2, <1>3, <2>1, ZenonT(40) DEF Sound, AppType, AllocReq
  <1>4. CASE b.messages # <<>>
    <2>1. Tail(b.messages) \in Seq(Req) /\ Head(b.messages) \in Req
      BY <1>1, <1>4 DEF Sound, AppType
    <2> QED BY <1>1, <1>2, <1>4, <2>1, ZenonT(40) DEF Sound, AppType, AllocReq
  <1> QED BY <1>3, <1>4

LEMMA ReloadSound ==
  ASSUME NEW a, Sound(a), a.state = "RESTART"
  PROVE  Sound(wr_app_reload(a)) /\ wr_app_reload(a).state = "RESTARTING"
  <1>1. Sound(DropFree(a)) /\ DropFree(a).new = a.new
    <2>1. CASE a.free = <<>>
      BY <2>1 DEF DropFree
    <2>2. CASE a.free # <<>>
      <3> DEFINE b == [a EXCEPT !.workers = @ \ Range(a.free), !.free = <<>>]
      <3>1. Sound(b) /\ b.new = a.new
        <4>1. <<>> \in Seq(Pid) /\ a.workers \ Range(a.free) \in SUBSET Pid
          BY DEF Sound, AppType
        <4>2. b \in AppType
          BY <4>1 DEF Sound, AppType
        <4> QED BY <4>2 DEF Sound, AppType
      <3>2. DropFree(a) = Ratios(b)
        BY <2>2 DEF DropFree
      <3> HIDE DEF b
      <3> QED BY <3>1, <3>2, RatiosSound
    <2> QED BY <2>1, <2>2
  <1>2. a.new \in Conf
    BY DEF Sound, AppType
  <1> QED BY <1>1, <1>2 DEF wr_app_reload, Sound, AppType, AppState

-----------------------------------------------------------------------------
(* The callbacks. *)

(* An application that is not on the server's list has left nothing behind  *)
(* that a callback could still reach it by.                                 *)
Gone ==
  app.state = "NONE" =>
    /\ app = NoApp
    /\ \A p \in Pid : wkr[p] = NoWkr
    /\ \A r \in Req : req[r] \notin {"resolved", "queued"}

EnvType ==
  /\ proc \in [Pid -> ProcState]
  /\ pconf \in [Pid -> Conf \cup {None}]
  /\ admin \in [Ctl -> AdminState]
  /\ ctlApp \in [Ctl -> {"none", "app", "stale"}]
  /\ faults \in 0..FaultBudget

HeadInv ==
  /\ Sound(app)
  /\ wkr \in [Pid -> WkrType]
  /\ req \in [Req -> ReqState]
  /\ EnvType
  /\ Gone

LEMMA NoWkrType == NoWkr \in WkrType
  BY PoolAssumption DEF NoWkr, WkrType, WkrState

LEMMA ServingType ==
  ASSUME NEW w \in WkrType, NEW r \in Req
  PROVE  Serving(w, r) \in WkrType
  BY DEF Serving, WkrType, WkrState

LEMMA WatchedType ==
  ASSUME NEW w \in WkrType, NEW ph \in {"wait", "body"}
  PROVE  [Watched(w) EXCEPT !.phase = ph] \in WkrType
  <1>1. 0 \in 0..PingTrials
    BY PoolAssumption
  <1>2. Watched(w) \in WkrType
    BY <1>1 DEF Watched, WkrType, WkrState
  <1> QED BY <1>2 DEF WkrType

LEMMA ReleasedType ==
  ASSUME NEW w \in WkrType
  PROVE  Released(w) \in WkrType
  BY DEF Released, WkrType, WkrState

LEMMA PongedType ==
  ASSUME NEW w \in WkrType
  PROVE  Ponged(w) \in WkrType
  BY DEF Ponged, WkrType, WkrState

LEMMA UnusedType == Unused \in SUBSET Pid
  BY DEF Unused

LEMMA ProcessesType ==
  ASSUME EnvType, NEW ks, Processes(ks)
  PROVE  proc' \in [Pid -> ProcState] /\ pconf' \in [Pid -> Conf \cup {None}]
  BY DEF EnvType, Processes, ProcState

LEMMA FreeWorkerType ==
  ASSUME HeadInv, NEW p \in Pid, FreeWorker(p)
  PROVE  wkr' \in [Pid -> WkrType] /\ req' \in [Req -> ReqState]
  BY NoWkrType DEF HeadInv, FreeWorker, ReqState

LEMMA ReplyType ==
  ASSUME NEW adm \in [Ctl -> AdminState], NEW c
  PROVE  Reply(adm, c) \in [Ctl -> AdminState]
  BY DEF Reply, AdminState

(* A worker exists only while its application does. *)
LEMMA AliveRunning ==
  ASSUME HeadInv, NEW p \in Pid, wkr[p] # NoWkr
  PROVE  Running
  BY DEF HeadInv, Gone, Running

LEMMA FaultType ==
  ASSUME EnvType, NEW kind, Fault(kind)
  PROVE  faults' \in 0..FaultBudget
  BY HeadAssumption DEF EnvType, Fault

LEMMA InitInv == Init => HeadInv
  <1> SUFFICES ASSUME Init PROVE HeadInv
    OBVIOUS
  <1>1. PICK c \in Conf : app \in wr_app_wkr_balance(wr_app_new(c, None), Pid)
    BY DEF Init
  <1>2. Sound(wr_app_new(c, None)) /\ wr_app_new(c, None).state # "NONE"
    BY NewAppSound
  <1>3. Sound(app) /\ app.state # "NONE"
    BY <1>1, <1>2, BalanceSound
  <1>4. wkr \in [Pid -> WkrType] /\ req \in [Req -> ReqState]
    BY NoWkrType DEF Init, ReqState
  <1>5. EnvType
    BY HeadAssumption DEF Init, EnvType, ProcState, AdminState
  <1> QED BY <1>3, <1>4, <1>5 DEF HeadInv, Gone

LEMMA HeadersInv ==
  ASSUME HeadInv, NEW r \in Req, ReqHeaders(r)
  PROVE  HeadInv'
  BY DEF HeadInv, ReqHeaders, Gone, EnvType, ReqState, Running, Sound

LEMMA CompleteInv ==
  ASSUME HeadInv, NEW r \in Req, ReqComplete(r)
  PROVE  HeadInv'
  <1>1. Running /\ app \in AppType
    BY DEF HeadInv, ReqComplete, Gone, Running, Sound
  <1>2. EnvType'
    BY DEF HeadInv, ReqComplete, EnvType
  <1>3. CASE Len(app.messages) >= MsgQueueSize
    BY <1>1, <1>2, <1>3 DEF HeadInv, ReqComplete, Gone, ReqState, Running, Sound
  <1>4. CASE ~(Len(app.messages) >= MsgQueueSize)
    <2> DEFINE m == [app EXCEPT !.messages = Append(@, r)]
               a == wr_app_chk_load_to_add_wkr(m)
    <2>0. /\ app.messages \in Seq(Req) /\ Append(app.messages, r) \in Seq(Req)
          /\ Append(app.messages, r) # <<>>
      BY <1>1 DEF AppType
    <2>1. m \in AppType
      BY <1>1, <2>0 DEF AppType
    <2>2. a \in AppType /\ (a = m \/ \E t \in BOOLEAN : a = [m EXCEPT !.tAdd = t])
      BY <2>1, ChkAddSound
    <2>3. /\ a.state = app.state /\ a.conf = app.conf /\ a.new = app.new
          /\ a.pending = app.pending /\ a.tAddTimeout = app.tAddTimeout
          /\ a.counter = app.counter /\ a.free = app.free
          /\ a.messages = Append(app.messages, r)
      BY <1>1, <2>2 DEF AppType
    <2> HIDE DEF a
    <2>4. a.messages # <<>> /\ a.messages \in Seq(Req) /\ a.free \in Seq(Pid)
      BY <1>1, <2>0, <2>3 DEF AppType
    <2>5. CASE Dispatch(a)
      <3>1. /\ app' = [a EXCEPT !.messages = Tail(@), !.free = Tail(@)]
            /\ wkr' = [wkr EXCEPT ![Head(a.free)] = Serving(@, Head(a.messages))]
            /\ req' = [[req EXCEPT ![r] = "queued"] EXCEPT ![Head(a.messages)] = "busy"]
        BY <1>4, <2>5 DEF ReqComplete, a
      <3>2. /\ Head(a.messages) \in Req /\ Head(a.free) \in Pid
            /\ Tail(a.messages) \in Seq(Req) /\ Tail(a.free) \in Seq(Pid)
        BY <2>4, <2>5 DEF Dispatch
      <3>3. wkr' \in [Pid -> WkrType]
        BY <3>1, <3>2, ServingType DEF HeadInv
      <3>4. req' \in [Req -> ReqState]
        BY <3>1, <3>2 DEF HeadInv, ReqState
      <3>5. app.messages = <<>> /\ app.messages \in Seq(Req)
        BY <1>1, <2>3, <2>5 DEF HeadInv, Sound, Dispatch, AppType
      <3>6. Tail(a.messages) = <<>>
        BY <2>3, <3>5
      <3>7. app' \in AppType
        BY <2>2, <3>1, <3>2 DEF AppType
      <3>8. /\ app'.state = app.state /\ app'.conf = app.conf /\ app'.new = app.new
            /\ app'.pending = app.pending /\ app'.tAddTimeout = app.tAddTimeout
            /\ app'.counter = app.counter /\ app'.messages = <<>>
        BY <2>2, <2>3, <3>1, <3>6 DEF AppType
      <3> QED BY <1>1, <1>2, <3>3, <3>4, <3>7, <3>8 DEF HeadInv, Sound, Gone, Running
    <2>6. CASE ~Dispatch(a)
      <3>1. app' = a /\ req' = [req EXCEPT ![r] = "queued"] /\ wkr' = wkr
        BY <1>4, <2>6 DEF ReqComplete, a
      <3>2. a.free = <<>>
        BY <2>4, <2>6 DEF Dispatch
      <3>3. req' \in [Req -> ReqState]
        BY <3>1 DEF HeadInv, ReqState
      <3> QED BY <1>1, <1>2, <2>2, <2>3, <3>1, <3>2, <3>3 DEF HeadInv, Sound, Gone, Running
    <2> QED BY <2>5, <2>6
  <1> QED BY <1>3, <1>4

LEMMA AbortInv ==
  ASSUME HeadInv, NEW r \in Req, ReqAbort(r)
  PROVE  HeadInv'
  <1>1. EnvType' /\ wkr' = wkr
    BY DEF HeadInv, ReqAbort, EnvType
  <1>2. req' \in [Req -> ReqState]
    BY DEF HeadInv, ReqAbort, ReqState
  <1>3. CASE req[r] \in {"resolved", "queued"} /\ app' = Unqueue(r)
    <2>1. Running
      BY <1>3 DEF HeadInv, Gone, Running
    <2> DEFINE m == wr_queue_remove(app.messages, r)
    <2>2. m \in Seq(Req) /\ (app.messages = <<>> => m = <<>>)
      <3>1. app.messages \in Seq(Req)
        BY DEF HeadInv, Sound, AppType
      <3> QED BY <3>1, RemoveType
    <2>3. app' = [app EXCEPT !.messages = m]
      BY <1>3 DEF Unqueue
    <2> HIDE DEF m
    <2>4. Sound(app') /\ app'.state = app.state
      BY <2>2, <2>3 DEF HeadInv, Sound, AppType
    <2> QED BY <1>1, <1>2, <2>1, <2>4 DEF HeadInv, Gone, Running
  <1>4. CASE app' = app /\ req' = [req EXCEPT ![r] = "aborted"]
    BY <1>1, <1>2, <1>4 DEF HeadInv, Gone
  <1> QED BY <1>3, <1>4 DEF ReqAbort

(* What is left to show of a step after which the application exists.       *)
LEMMA AliveInv ==
  ASSUME Sound(app'), app'.state # "NONE",
         wkr' \in [Pid -> WkrType], req' \in [Req -> ReqState], EnvType'
  PROVE  HeadInv'
  BY DEF HeadInv, Gone

LEMMA EnvTypeStep ==
  ASSUME EnvType, proc' \in [Pid -> ProcState], pconf' \in [Pid -> Conf \cup {None}],
         admin' = admin, ctlApp' = ctlApp, faults' = faults
  PROVE  EnvType'
  BY DEF EnvType

LEMMA SentInv ==
  ASSUME HeadInv, NEW p \in Pid, ReqSent(p) \/ RespChunk(p)
  PROVE  HeadInv'
  <1>1. Running
    BY AliveRunning DEF ReqSent, RespChunk, NoWkr
  <1>2. wkr[p] \in WkrType
    BY DEF HeadInv
  <1>3. PICK ph \in {"wait", "body"} : wkr' = [wkr EXCEPT ![p] = [Watched(wkr[p]) EXCEPT !.phase = ph]]
    BY DEF ReqSent, RespChunk
  <1>4. wkr' \in [Pid -> WkrType]
    BY <1>2, <1>3, WatchedType DEF HeadInv
  <1>5. EnvType' /\ app' = app /\ req' = req
    BY DEF ReqSent, RespChunk, HeadInv, EnvType
  <1> QED BY <1>1, <1>4, <1>5, AliveInv DEF HeadInv, Running

LEMMA RespDoneInv ==
  ASSUME HeadInv, NEW p \in Pid, RespDone(p)
  PROVE  HeadInv'
  <1> DEFINE answered == [req EXCEPT ![wkr[p].req] = IF @ = "aborted" THEN "error" ELSE "done"]
  <1>1. Running
    BY AliveRunning DEF RespDone, NoWkr
  <1>2. answered \in [Req -> ReqState]
    BY DEF HeadInv, ReqState
  <1>3. CASE wkr[p].state = "EXPIRED"
    <2>1. /\ app' = wr_wkr_free(app, p) /\ wkr' = [wkr EXCEPT ![p] = NoWkr]
          /\ req' = answered /\ Processes({p})
          /\ admin' = admin /\ ctlApp' = ctlApp /\ faults' = faults
      BY <1>3 DEF RespDone
    <2>2. Sound(app') /\ app'.state # "NONE"
      BY <1>1, <2>1, WkrFreeSound DEF HeadInv, Running
    <2>3. wkr' \in [Pid -> WkrType]
      BY <2>1, NoWkrType DEF HeadInv
    <2>4. EnvType'
      BY <2>1, ProcessesType, EnvTypeStep DEF HeadInv
    <2> QED BY <1>2, <2>1, <2>2, <2>3, <2>4, AliveInv
  <1>4. CASE wkr[p].state # "EXPIRED"
    <2> DEFINE next == AllocReq(app)
    <2>1. /\ app' = wr_wrk_allocate(app, p)
          /\ IF next = None
               THEN wkr' = [wkr EXCEPT ![p] = Released(wkr[p])] /\ req' = answered
               ELSE /\ wkr' = [wkr EXCEPT ![p] = Serving(Released(wkr[p]), next)]
                    /\ req' = [answered EXCEPT ![next] = "busy"]
          /\ EnvType'
      BY <1>4 DEF RespDone, HeadInv, EnvType
    <2>2. Sound(app') /\ app'.state # "NONE" /\ next \in Req \cup {None}
      BY <1>1, <2>1, AllocateSound DEF HeadInv, Running
    <2>3. Released(wkr[p]) \in WkrType
      BY ReleasedType DEF HeadInv
    <2> HIDE DEF next, answered
    <2>4. wkr' \in [Pid -> WkrType] /\ req' \in [Req -> ReqState]
      <3>1. CASE next = None
        BY <1>2, <2>1, <2>3, <3>1 DEF HeadInv
      <3>2. CASE next \in Req /\ next # None
        <4>1. Serving(Released(wkr[p]), next) \in WkrType
          BY <2>3, <3>2, ServingType
        <4>2. "busy" \in ReqState
          BY DEF ReqState
        <4> QED BY <1>2, <2>1, <3>2, <4>1, <4>2 DEF HeadInv
      <3> QED BY <2>2, <3>1, <3>2
    <2> QED BY <2>1, <2>2, <2>4, AliveInv
  <1> QED BY <1>3, <1>4

(* The steps that free one worker: an error on its request socket, the end  *)
(* of its control connection, a hang-up.                                    *)
LEMMA LossInv ==
  ASSUME HeadInv, NEW p \in Pid, Running, FreeWorker(p), Processes({p}),
         admin' = admin, ctlApp' = ctlApp, faults' = faults,
         \/ app' = wr_wkr_free(app, p)
         \/ app' \in wr_app_wkr_balance(wr_wkr_free(app, p), Unused)
  PROVE  HeadInv'
  <1>1. Sound(wr_wkr_free(app, p)) /\ wr_wkr_free(app, p).state # "NONE"
    BY WkrFreeSound DEF HeadInv, Running
  <1>2. Sound(app') /\ app'.state # "NONE"
    BY <1>1, BalanceSound, UnusedType
  <1>3. wkr' \in [Pid -> WkrType] /\ req' \in [Req -> ReqState]
    BY FreeWorkerType
  <1>4. EnvType'
    BY ProcessesType, EnvTypeStep DEF HeadInv
  <1> QED BY <1>2, <1>3, <1>4, AliveInv

LEMMA RespErrorInv ==
  ASSUME HeadInv, NEW p \in Pid, RespError(p)
  PROVE  HeadInv'
  <1>1. Running
    BY AliveRunning DEF RespError, NoWkr
  <1> QED BY <1>1, LossInv DEF RespError

LEMMA CtlClosedInv ==
  ASSUME HeadInv, NEW p \in Pid, CtlClosed(p)
  PROVE  HeadInv'
  <1>1. Running
    BY DEF CtlClosed, HeadInv, Gone, Running, NoApp
  <1>2. \/ app' = wr_wkr_free(app, p)
        \/ app' \in wr_app_wkr_balance(wr_wkr_free(app, p), Unused)
    BY DEF CtlClosed, AfterLoss
  <1> QED BY <1>1, <1>2, LossInv DEF CtlClosed

LEMMA WaitTimeoutInv ==
  ASSUME HeadInv, NEW p \in Pid, WaitTimeout(p)
  PROVE  HeadInv'
  <1>1. Running
    BY AliveRunning DEF WaitTimeout, NoWkr
  <1>2. CASE /\ MorePings(wkr[p])
             /\ wkr' = [wkr EXCEPT ![p] = Pinged(@)]
             /\ UNCHANGED <<app, req, proc, pconf>>
    <2>1. wkr[p] \in WkrType
      BY DEF HeadInv
    <2>2. wkr[p].trials + 1 \in 0..PingTrials
      BY <1>2, <2>1, PoolAssumption DEF MorePings, WkrType
    <2>3. Pinged(wkr[p]) \in WkrType
      BY <2>1, <2>2 DEF Pinged, WkrType, WkrState
    <2>4. wkr' \in [Pid -> WkrType]
      BY <1>2, <2>3 DEF HeadInv
    <2>5. EnvType'
      BY <1>2 DEF WaitTimeout, HeadInv, EnvType
    <2> QED BY <1>1, <1>2, <2>4, <2>5, AliveInv DEF HeadInv, Running
  <1>3. CASE /\ app' \in wr_app_wkr_balance(wr_wkr_free(app, p), Unused)
             /\ FreeWorker(p) /\ Processes({p})
    BY <1>1, <1>3, LossInv DEF WaitTimeout
  <1>4. CASE app' = wr_wkr_free(app, p) /\ FreeWorker(p) /\ Processes({p})
    BY <1>1, <1>4, LossInv DEF WaitTimeout
  <1> QED BY <1>2, <1>3, <1>4 DEF WaitTimeout

LEMMA PingReplyInv ==
  ASSUME HeadInv, NEW p \in Pid, PingReply(p)
  PROVE  HeadInv'
  <1>1. Running
    BY AliveRunning DEF PingReply, NoWkr
  <1>2. wkr' \in [Pid -> WkrType]
    BY PongedType DEF PingReply, HeadInv
  <1>3. EnvType' /\ app' = app /\ req' = req
    BY DEF PingReply, HeadInv, EnvType
  <1> QED BY <1>1, <1>2, <1>3, AliveInv DEF HeadInv, Running

-----------------------------------------------------------------------------
(* Steps of a starting process, and failures that the head does not see.    *)
LEMMA ProcessInv ==
  ASSUME HeadInv, UNCHANGED <<app, wkr, req>>, EnvType'
  PROVE  HeadInv'
  BY DEF HeadInv, Gone

LEMMA ConfReqInv ==
  ASSUME HeadInv, NEW p \in Pid, ConfReq(p)
  PROVE  HeadInv'
  <1>1. app.new \in Conf \cup {None} /\ app.conf \in Conf \cup {None}
    BY DEF HeadInv, Sound, AppType
  <1>2. EnvType'
    BY <1>1 DEF ConfReq, HeadInv, EnvType, ProcState
  <1> QED BY <1>2, ProcessInv DEF ConfReq

LEMMA QuietInv ==
  ASSUME HeadInv, NEW p \in Pid,
         Loaded(p) \/ WkrRejected(p) \/ LoadFailed(p) \/ BootDies(p) \/ Crash(p) \/ Hang(p)
  PROVE  HeadInv'
  <1>1. UNCHANGED <<app, wkr, req, admin, ctlApp>>
    BY DEF Loaded, WkrRejected, LoadFailed, BootDies, Crash, Hang
  <1>2. faults' \in 0..FaultBudget
    BY FaultType DEF Loaded, WkrRejected, LoadFailed, BootDies, Crash, Hang, HeadInv, EnvType
  <1>3. proc' \in [Pid -> ProcState] /\ pconf' \in [Pid -> Conf \cup {None}]
    BY DEF Loaded, WkrRejected, LoadFailed, BootDies, Crash, Hang, HeadInv, EnvType, ProcState
  <1>4. EnvType'
    BY <1>1, <1>2, <1>3 DEF HeadInv, EnvType
  <1> QED BY <1>1, <1>4, ProcessInv

(* Clearing app->ctl changes nothing else.                                  *)
LEMMA NoCtlSound ==
  ASSUME NEW a, Sound(a)
  PROVE  Sound([a EXCEPT !.ctl = None]) /\ [a EXCEPT !.ctl = None].state = a.state
  BY DEF Sound, AppType

LEMMA InsertedSound ==
  ASSUME HeadInv, Running, NEW p \in Pid
  PROVE  Sound(Inserted(p)) /\ Inserted(p).state # "NONE"
  <1> DEFINE a == Answered(wr_pending_worker_exist(app, p))
  <1>1. Sound(wr_pending_worker_exist(app, p)) /\ wr_pending_worker_exist(app, p).state = app.state
    BY PendingExistSound DEF HeadInv
  <1>2. Sound(a) /\ a.state # "NONE"
    BY <1>1, AnsweredSound DEF Running
  <1>3. Inserted(p) = CASE a.state = "RESTART" -> [wr_app_reload(a) EXCEPT !.ctl = None]
                        [] a.state = "NEW"     -> [a EXCEPT !.state = "ACTIVE", !.ctl = None]
                        [] OTHER               -> a
    BY DEF Inserted
  <1> HIDE DEF a
  <1>4. CASE a.state = "RESTART"
    <2>1. Sound(wr_app_reload(a)) /\ wr_app_reload(a).state = "RESTARTING"
      BY <1>2, <1>4, ReloadSound
    <2>2. Inserted(p) = [wr_app_reload(a) EXCEPT !.ctl = None]
      BY <1>3, <1>4
    <2> QED BY <2>1, <2>2, NoCtlSound
  <1>5. CASE a.state = "NEW"
    <2>1. Inserted(p) = [a EXCEPT !.state = "ACTIVE", !.ctl = None]
      BY <1>3, <1>5
    <2> QED BY <1>2, <1>5, <2>1 DEF Sound, AppType, AppState
  <1>6. CASE a.state # "RESTART" /\ a.state # "NEW"
    BY <1>2, <1>3, <1>6
  <1> QED BY <1>4, <1>5, <1>6

LEMMA ReloadedType ==
  ASSUME HeadInv
  PROVE  Reloaded \in [Pid -> WkrType]
  <1>1. \A q \in Pid : [wkr[q] EXCEPT !.state = "EXPIRED"] \in WkrType
    BY DEF HeadInv, WkrType, WkrState
  <1> QED BY <1>1, NoWkrType DEF Reloaded, HeadInv

LEMMA WkrAddInv ==
  ASSUME HeadInv, NEW p \in Pid, WkrAdd(p)
  PROVE  HeadInv'
  <1> DEFINE i == Inserted(p)
             a == [i EXCEPT !.workers = @ \cup {p},
                            !.low = (QCount(i) + 1) * MinReqRatio]
             next == AllocReq(a)
  <1>1. Running
    BY DEF WkrAdd, Wanted
  <1>2. Sound(i) /\ i.state # "NONE"
    BY <1>1, InsertedSound
  <1>3. /\ app' \in wr_app_wkr_balance(wr_wrk_allocate(a, p), Unused)
        /\ IF next = None
             THEN /\ wkr' = [Reloaded EXCEPT ![p] = [NoWkr EXCEPT !.state = "INACTIVE"]]
                  /\ req' = req
             ELSE /\ wkr' = [Reloaded EXCEPT ![p] = Serving(NoWkr, next)]
                  /\ req' = [req EXCEPT ![next] = "busy"]
    BY DEF WkrAdd
  <1>4. Sound(a) /\ a.state # "NONE"
    <2>1. QCount(i) \in Nat
      BY <1>2, QCountType DEF Sound
    <2>2. (QCount(i) + 1) * MinReqRatio \in Nat
      BY <2>1, PoolAssumption
    <2> HIDE DEF i
    <2>3. a \in AppType
      BY <1>2, <2>2 DEF Sound, AppType
    <2> QED BY <1>2, <2>3 DEF Sound, AppType
  <1> HIDE DEF a, i
  <1>5. /\ Sound(wr_wrk_allocate(a, p)) /\ wr_wrk_allocate(a, p).state # "NONE"
        /\ next \in Req \cup {None}
    BY <1>4, AllocateSound
  <1>6. Sound(app') /\ app'.state # "NONE"
    BY <1>3, <1>5, BalanceSound, UnusedType
  <1> HIDE DEF next
  <1>7. wkr' \in [Pid -> WkrType] /\ req' \in [Req -> ReqState]
    <2>1. CASE next = None
      <3>1. [NoWkr EXCEPT !.state = "INACTIVE"] \in WkrType
        BY NoWkrType DEF WkrType, WkrState
      <3> QED BY <1>3, <2>1, <3>1, ReloadedType DEF HeadInv
    <2>2. CASE next # None
      <3>1. Serving(NoWkr, next) \in WkrType
        BY <1>5, <2>2, NoWkrType, ServingType
      <3>2. "busy" \in ReqState
        BY DEF ReqState
      <3> QED BY <1>3, <2>2, <3>1, <3>2, ReloadedType DEF HeadInv
    <2> QED BY <2>1, <2>2
  <1>8. EnvType'
    <2>1. /\ proc' \in [Pid -> ProcState]
          /\ pconf' \in [Pid -> Conf \cup {None}]
      BY DEF WkrAdd, HeadInv, EnvType, ProcState
    <2>2. admin' \in [Ctl -> AdminState]
      BY ReplyType DEF WkrAdd, HeadInv, EnvType
    <2>3. ctlApp' = ctlApp /\ faults' = faults
      BY DEF WkrAdd
    <2> QED BY <2>1, <2>2, <2>3 DEF HeadInv, EnvType
  <1> QED BY <1>6, <1>7, <1>8, AliveInv

LEMMA WkrAddFailsInv ==
  ASSUME HeadInv, NEW p \in Pid, WkrAddFails(p)
  PROVE  HeadInv'
  <1> DEFINE i == Inserted(p)
  <1>1. Running
    BY DEF WkrAddFails, Wanted
  <1>2. Sound(i) /\ i.state # "NONE"
    BY <1>1, InsertedSound
  <1>3. app' = [i EXCEPT !.high = TOTAL_WORKER_COUNT(i) * MaxReqRatio]
        /\ wkr' = Reloaded /\ req' = req
    BY DEF WkrAddFails
  <1>4. TOTAL_WORKER_COUNT(i) * MaxReqRatio \in Nat
    <2>1. TOTAL_WORKER_COUNT(i) \in Nat
      BY <1>2, QCountType DEF Sound
    <2> QED BY <2>1, PoolAssumption
  <1> HIDE DEF i
  <1>5. Sound(app') /\ app'.state # "NONE"
    <2>1. app' \in AppType
      BY <1>2, <1>3, <1>4 DEF Sound, AppType
    <2> QED BY <1>2, <1>3, <2>1 DEF Sound, AppType
  <1>6. EnvType'
    <2>1. /\ proc' \in [Pid -> ProcState]
          /\ pconf' \in [Pid -> Conf \cup {None}]
      BY DEF WkrAddFails, HeadInv, EnvType, ProcState
    <2>2. admin' \in [Ctl -> AdminState]
      BY ReplyType DEF WkrAddFails, HeadInv, EnvType
    <2>3. ctlApp' = ctlApp /\ faults' \in 0..FaultBudget
      BY FaultType DEF WkrAddFails, HeadInv, EnvType
    <2> QED BY <2>1, <2>2, <2>3 DEF HeadInv, EnvType
  <1> QED BY <1>3, <1>5, <1>6, ReloadedType, AliveInv DEF HeadInv

-----------------------------------------------------------------------------
(* wr_app_free leaves nothing behind.                                       *)
LEMMA RemoveAppInv ==
  ASSUME HeadInv, NEW ks, RemoveApp(ks),
         admin' \in [Ctl -> AdminState], faults' = faults
  PROVE  HeadInv'
  <1>1. Sound(app') /\ app' = NoApp
    BY NoAppSound DEF RemoveApp
  <1>2. wkr' \in [Pid -> WkrType] /\ \A p \in Pid : wkr'[p] = NoWkr
    BY NoWkrType DEF RemoveApp
  <1>3. req' \in [Req -> ReqState] /\ \A r \in Req : req'[r] \notin {"resolved", "queued"}
    BY DEF RemoveApp, HeadInv, ReqState
  <1>4. EnvType'
    BY DEF RemoveApp, HeadInv, EnvType, ProcState
  <1> QED BY <1>1, <1>2, <1>3, <1>4 DEF HeadInv, Gone

LEMMA ErrorSentSound ==
  ASSUME NEW a, Sound(a)
  PROVE  Sound(ErrorSent(a)) /\ ErrorSent(a).state = a.state
  <1>1. 0 \in 0..(AddTrials + 1)
    BY PoolAssumption
  <1>2. a.pending # <<>> => 0 < AddTrials
    BY PoolAssumption DEF Sound, AppType
  <1>3. ErrorSent(a) \in AppType
    BY <1>1 DEF Sound, ErrorSent, AppType
  <1>4. /\ ErrorSent(a).state = a.state /\ ErrorSent(a).conf = a.conf
        /\ ErrorSent(a).new = a.new /\ ErrorSent(a).pending = a.pending
        /\ ErrorSent(a).tAddTimeout = a.tAddTimeout /\ ErrorSent(a).counter = 0
        /\ ErrorSent(a).messages = a.messages /\ ErrorSent(a).free = a.free
    BY <1>1 DEF Sound, ErrorSent, AppType
  <1> QED BY <1>2, <1>3, <1>4 DEF Sound

LEMMA WkrErrorInv ==
  ASSUME HeadInv, NEW p \in Pid, WkrError(p)
  PROVE  HeadInv'
  <1>0. faults' = faults /\ Sound(app) /\ EnvType
    BY DEF WkrError, HeadInv
  <1>1. Reply(admin, app.ctl) \in [Ctl -> AdminState]
    BY ReplyType DEF HeadInv, EnvType
  <1>2. CASE /\ app.state = "RESTART"
             /\ app' = ErrorSent(SettleRestart(app))
             /\ admin' = Reply(admin, app.ctl)
             /\ Processes({p})
             /\ UNCHANGED <<wkr, req, ctlApp>>
    <2>1. Sound(app') /\ app'.state # "NONE"
      BY <1>0, <1>2, SettleSound, ErrorSentSound
    <2>2. EnvType'
      BY <1>0, <1>1, <1>2, ProcessesType DEF EnvType
    <2> QED BY <1>2, <2>1, <2>2, AliveInv DEF HeadInv
  <1>3. CASE RemoveApp({p}) /\ admin' = Reply(admin, app.ctl)
    BY <1>0, <1>1, <1>3, RemoveAppInv
  <1>4. CASE /\ app' = IF Running THEN Answered(wr_pending_worker_exist(app, p)) ELSE app
             /\ Processes({p})
             /\ UNCHANGED <<wkr, req, admin, ctlApp>>
    <2>1. EnvType'
      BY <1>0, <1>4, ProcessesType, EnvTypeStep
    <2>2. CASE Running
      <3>1. /\ Sound(wr_pending_worker_exist(app, p))
            /\ wr_pending_worker_exist(app, p).state # "NONE"
        BY <1>0, <2>2, PendingExistSound DEF Running
      <3>2. Sound(app') /\ app'.state # "NONE"
        BY <1>4, <2>2, <3>1, AnsweredSound
      <3> QED BY <1>4, <2>1, <3>2, AliveInv DEF HeadInv
    <2>3. CASE ~Running
      BY <1>4, <2>1, <2>3, ProcessInv
    <2> QED BY <2>2, <2>3
  <1> QED BY <1>2, <1>3, <1>4 DEF WkrError

(* The trial that ran out is the last one, and nothing stays pending, or it *)
(* is not, and the timer runs on exactly while something is.                *)
LEMMA TimedOutSound ==
  ASSUME Sound(app), app.counter + 1 <= AddTrials, app.tAddTimeout
  PROVE  Sound(TimedOut) /\ TimedOut.state = app.state
  <1>0. app.counter \in Nat /\ AddTrials \in Nat
    BY PoolAssumption DEF Sound, AppType
  <1>1. CASE app.counter + 1 = AddTrials
    <2> DEFINE a == [app EXCEPT !.counter = @ + 2, !.tAddTimeout = TRUE]
               h == QCount(a) * MaxReqRatio
    <2>1. app.counter + 2 \in 0..(AddTrials + 1) /\ <<>> \in Seq(Pid)
      BY <1>0, <1>1
    <2>2. a \in AppType
      BY <2>1 DEF Sound, AppType
    <2>3. h \in Nat
      BY <2>2, QCountType, PoolAssumption
    <2>4. TimedOut = [a EXCEPT !.pending = <<>>, !.high = h]
      BY <1>1 DEF TimedOut, KillAll
    <2>5. /\ a.state = app.state /\ a.conf = app.conf /\ a.new = app.new
          /\ a.messages = app.messages /\ a.free = app.free
      BY DEF Sound, AppType
    <2> HIDE DEF a, h
    <2>6. TimedOut \in AppType
      BY <2>1, <2>2, <2>3, <2>4 DEF AppType
    <2>7. /\ TimedOut.state = a.state /\ TimedOut.conf = a.conf /\ TimedOut.new = a.new
          /\ TimedOut.messages = a.messages /\ TimedOut.free = a.free
          /\ TimedOut.pending = <<>>
      BY <2>1, <2>2, <2>3, <2>4 DEF AppType
    <2> QED BY <2>5, <2>6, <2>7 DEF Sound
  <1>2. CASE app.counter + 1 # AddTrials
    <2> DEFINE a == [app EXCEPT !.counter = @ + 1]
               b == KillFirst(a)
    <2>1. app.counter + 1 \in 0..(AddTrials + 1) /\ app.counter + 1 < AddTrials
      BY <1>0, <1>2
    <2>2. a \in AppType
      BY <2>1 DEF Sound, AppType
    <2>3. /\ a.state = app.state /\ a.conf = app.conf /\ a.new = app.new
          /\ a.messages = app.messages /\ a.free = app.free /\ a.pending = app.pending
          /\ a.tAddTimeout = app.tAddTimeout /\ a.counter = app.counter + 1
      BY DEF Sound, AppType
    <2>4. TimedOut = [b EXCEPT !.tAddTimeout = b.pending # <<>>]
      BY <1>2 DEF TimedOut
    <2> HIDE DEF a
    <2>5. Sound(a)
      BY <2>1, <2>2, <2>3 DEF Sound
    <2>6. Sound(b) /\ b.state = a.state
      BY <2>5, KillSound
    <2> HIDE DEF b
    <2>7. (b.pending # <<>>) \in BOOLEAN
      OBVIOUS
    <2>8. TimedOut \in AppType
      BY <2>4, <2>6, <2>7, ZenonT(40) DEF Sound, AppType
    <2>9. /\ TimedOut.state = b.state /\ TimedOut.conf = b.conf /\ TimedOut.new = b.new
          /\ TimedOut.messages = b.messages /\ TimedOut.free = b.free
          /\ TimedOut.pending = b.pending /\ TimedOut.counter = b.counter
          /\ TimedOut.tAddTimeout = (b.pending # <<>>)
      BY <2>4, <2>6 DEF Sound, AppType
    <2> QED BY <2>3, <2>6, <2>8, <2>9 DEF Sound
  <1> QED BY <1>1, <1>2

LEMMA WaitOverInv ==
  ASSUME HeadInv, WaitOver
  PROVE  HeadInv'
  <1>1. Running /\ Sound(app)
    BY DEF WaitOver, HeadInv, Gone, Running, NoApp
  <1>2. app.pending = <<>>
    BY <1>1, PoolAssumption DEF WaitOver, Sound, AppType
  <1>3. 0 \in 0..(AddTrials + 1)
    BY PoolAssumption
  <1>4. app' \in AppType
    BY <1>1, <1>3 DEF WaitOver, Sound, AppType
  <1>5. Sound(app') /\ app'.state # "NONE"
    BY <1>1, <1>2, <1>3, <1>4 DEF WaitOver, Sound, AppType, Running
  <1>6. EnvType' /\ wkr' = wkr /\ req' = req
    BY DEF WaitOver, HeadInv, EnvType
  <1> QED BY <1>5, <1>6, AliveInv DEF HeadInv

LEMMA AddTimeoutInv ==
  ASSUME HeadInv, AddTimeout
  PROVE  HeadInv'
  <1>0. faults' = faults /\ Sound(app) /\ EnvType
    BY DEF AddTimeout, HeadInv
  <1>1. Sound(TimedOut) /\ TimedOut.state = app.state
    BY <1>0, TimedOutSound DEF AddTimeout
  <1>2. Reply(admin, app.ctl) \in [Ctl -> AdminState]
    BY ReplyType DEF HeadInv, EnvType
  <1>3. CASE /\ app.state = "RESTART"
             /\ app' = ErrorSent(SettleRestart(TimedOut))
             /\ admin' = Reply(admin, app.ctl)
             /\ Processes(Killed)
             /\ UNCHANGED <<wkr, req, ctlApp>>
    <2>1. Sound(app') /\ app'.state # "NONE"
      BY <1>1, <1>3, SettleSound, ErrorSentSound
    <2>2. EnvType'
      BY <1>0, <1>2, <1>3, ProcessesType DEF EnvType
    <2> QED BY <1>3, <2>1, <2>2, AliveInv DEF HeadInv
  <1>4. CASE RemoveApp(Killed) /\ admin' = Reply(admin, app.ctl)
    BY <1>0, <1>2, <1>4, RemoveAppInv
  <1>5. CASE /\ app.state \in {"NEW", "ACTIVE", "RESTARTING"}
             /\ app' = TimedOut \/ app' \in wr_app_wkr_balance(TimedOut, Unused)
             /\ Processes(Killed)
             /\ UNCHANGED <<wkr, req, admin, ctlApp>>
    <2>1. Sound(app') /\ app'.state # "NONE"
      BY <1>1, <1>5, BalanceSound, UnusedType
    <2>2. EnvType'
      BY <1>0, <1>5, ProcessesType, EnvTypeStep
    <2> QED BY <1>5, <2>1, <2>2, AliveInv DEF HeadInv
  <1> QED BY <1>3, <1>4, <1>5 DEF AddTimeout

LEMMA AddCbInv ==
  ASSUME HeadInv, AddCb
  PROVE  HeadInv'
  <1> DEFINE a == [app EXCEPT !.tAdd = FALSE]
  <1>1. Running /\ Sound(app)
    BY DEF AddCb, HeadInv, Gone, Running, NoApp
  <1>2. Sound(a) /\ a.state # "NONE"
    BY <1>1 DEF Sound, AppType, Running
  <1>3. app' \in wr_app_wkr_add(a, Unused) \/ app' = a
    BY DEF AddCb
  <1> HIDE DEF a
  <1>4. Sound(app') /\ app'.state # "NONE"
    BY <1>2, <1>3, WkrAddSound, UnusedType
  <1>5. EnvType' /\ wkr' = wkr /\ req' = req
    BY ProcessesType, EnvTypeStep DEF AddCb, HeadInv
  <1> QED BY <1>4, <1>5, AliveInv DEF HeadInv

LEMMA RemoveCbInv ==
  ASSUME HeadInv, RemoveCb
  PROVE  HeadInv'
  <1> DEFINE Again(n) == [app EXCEPT !.tRemove = n > MinWorker[app.conf]]
  <1>1. Running /\ Sound(app) /\ app.workers \in SUBSET Pid
    BY DEF RemoveCb, HeadInv, Gone, Running, NoApp, Sound, AppType
  <1>2. ASSUME NEW n PROVE Sound(Again(n)) /\ Again(n).state # "NONE"
    <2>1. (n > MinWorker[app.conf]) \in BOOLEAN
      OBVIOUS
    <2> QED BY <1>1, <2>1 DEF Sound, AppType, Running
  <1> HIDE DEF Again
  <1>3. ASSUME NEW p \in Pid, NEW n, app' = wr_wkr_free(Again(n), p), FreeWorker(p), Processes({p})
        PROVE  HeadInv'
    <2>1. Sound(app') /\ app'.state # "NONE"
      BY <1>2, <1>3, WkrFreeSound
    <2>2. wkr' \in [Pid -> WkrType] /\ req' \in [Req -> ReqState]
      BY <1>3, FreeWorkerType
    <2>3. EnvType'
      BY <1>3, ProcessesType, EnvTypeStep DEF RemoveCb, HeadInv
    <2> QED BY <2>1, <2>2, <2>3, AliveInv
  <1>4. ASSUME NEW p \in Pid, NEW n, app' = Again(n),
               wkr' = [wkr EXCEPT ![p].state = "EXPIRED"] \/ wkr' = wkr,
               UNCHANGED <<req, proc, pconf>>
        PROVE  HeadInv'
    <2>1. Sound(app') /\ app'.state # "NONE"
      BY <1>2, <1>4
    <2>2. wkr' \in [Pid -> WkrType]
      BY <1>4 DEF HeadInv, WkrType, WkrState
    <2>3. EnvType'
      BY <1>4 DEF RemoveCb, HeadInv, EnvType
    <2> QED BY <1>4, <2>1, <2>2, <2>3, AliveInv DEF HeadInv
  <1>5. ASSUME NEW n, app' = Again(n), UNCHANGED <<wkr, req, proc, pconf>>
        PROVE  HeadInv'
    <2>1. Sound(app') /\ app'.state # "NONE"
      BY <1>2, <1>5
    <2>2. EnvType'
      BY <1>5 DEF RemoveCb, HeadInv, EnvType
    <2> QED BY <1>5, <2>1, <2>2, AliveInv DEF HeadInv
  <1> QED BY <1>1, <1>3, <1>4, <1>5 DEF RemoveCb, Again

-----------------------------------------------------------------------------
LEMMA RefusedInv ==
  ASSUME HeadInv, NEW c \in Ctl, NEW link \in {"none", "app"}, Refused(c, link)
  PROVE  HeadInv'
  <1>1. EnvType'
    BY DEF Refused, HeadInv, EnvType, AdminState
  <1> QED BY <1>1, ProcessInv DEF Refused

LEMMA InsertInv ==
  ASSUME HeadInv, NEW c \in Ctl, NEW cf \in Conf, Insert(c, cf)
  PROVE  HeadInv'
  <1>1. Sound(wr_app_new(cf, c)) /\ wr_app_new(cf, c).state # "NONE"
    BY NewAppSound
  <1>2. Sound(app') /\ app'.state # "NONE"
    BY <1>1, BalanceSound, UnusedType DEF Insert
  <1>3. EnvType'
    <2>1. proc' \in [Pid -> ProcState] /\ pconf' \in [Pid -> Conf \cup {None}]
      BY ProcessesType DEF Insert, HeadInv
    <2> QED BY <2>1 DEF Insert, HeadInv, EnvType, AdminState
  <1> QED BY <1>2, <1>3, AliveInv DEF Insert, HeadInv

(* The restarted application forgets its pending workers, so that the timer *)
(* may be left as it is.                                                    *)
LEMMA RestartedSound ==
  ASSUME Sound(app), Running, NEW c \in Ctl, NEW cf \in Conf
  PROVE  Sound(Restarted(c, cf)) /\ Restarted(c, cf).state = "RESTART"
  <1>1. 0 \in 0..(AddTrials + 1) /\ <<>> \in Seq(Pid)
    BY PoolAssumption
  <1>2. Restarted(c, cf) \in AppType
    BY <1>1 DEF Restarted, Sound, AppType, AppState
  <1>3. /\ Restarted(c, cf).state = "RESTART" /\ Restarted(c, cf).conf = app.conf
        /\ Restarted(c, cf).new = cf /\ Restarted(c, cf).pending = <<>>
        /\ Restarted(c, cf).messages = app.messages /\ Restarted(c, cf).free = app.free
    BY <1>1 DEF Restarted, Sound, AppType
  <1>4. cf # None
    BY PoolAssumption
  <1> QED BY <1>2, <1>3, <1>4 DEF Sound, Running

LEMMA AdminInv ==
  ASSUME HeadInv, NEW c \in Ctl, Admin(c)
  PROVE  HeadInv'
  <1>1. CASE wr_app_add_cb(c)
    BY <1>1, RefusedInv, InsertInv DEF wr_app_add_cb
  <1>2. ASSUME NEW cf \in Conf, Running,
               app' \in wr_app_wkr_add(Restarted(c, cf), Unused),
               Processes({}), admin' = [admin EXCEPT ![c] = "waiting"],
               UNCHANGED <<wkr, req, ctlApp, faults>>
        PROVE  HeadInv'
    <2>1. Sound(Restarted(c, cf)) /\ Restarted(c, cf).state = "RESTART"
      BY <1>2, RestartedSound DEF HeadInv
    <2>2. Sound(app') /\ app'.state # "NONE"
      BY <1>2, <2>1, WkrAddSound, UnusedType
    <2>3. proc' \in [Pid -> ProcState] /\ pconf' \in [Pid -> Conf \cup {None}]
      BY <1>2, ProcessesType DEF HeadInv
    <2>4. EnvType'
      BY <1>2, <2>3 DEF HeadInv, EnvType, AdminState
    <2> QED BY <1>2, <2>2, <2>4, AliveInv DEF HeadInv
  <1>3. CASE wr_app_reload_cb(c)
    BY <1>2, <1>3, RefusedInv, InsertInv DEF wr_app_reload_cb
  <1>4. CASE wr_app_remove_cb(c)
    <2>1. ASSUME RemoveApp({}), admin' = [admin EXCEPT ![c] = "answered"], faults' = faults
          PROVE  HeadInv'
      <3>1. admin' \in [Ctl -> AdminState]
        BY <2>1 DEF HeadInv, EnvType, AdminState
      <3> QED BY <2>1, <3>1, RemoveAppInv
    <2> QED BY <1>4, <2>1, RefusedInv DEF wr_app_remove_cb
  <1>5. CASE AdmClose(c)
    <2>1. EnvType' /\ wkr' = wkr /\ req' = req
      BY <1>5 DEF AdmClose, HeadInv, EnvType, AdminState
    <2>2. app' = [app EXCEPT !.ctl = None] \/ app' = app
      BY <1>5 DEF AdmClose
    <2>3. Sound(app') /\ app'.state = app.state
      BY <2>2, NoCtlSound DEF HeadInv
    <2>4. app = NoApp => app' = NoApp
      BY <2>2 DEF NoApp
    <2> QED BY <2>1, <2>3, <2>4 DEF HeadInv, Gone
  <1> QED BY <1>1, <1>3, <1>4, <1>5 DEF Admin

LEMMA StepInv == HeadInv /\ [Next]_vars => HeadInv'
  <1> SUFFICES ASSUME HeadInv, [Next]_vars PROVE HeadInv'
    OBVIOUS
  <1>1. ASSUME NEW r \in Req, Client(r) PROVE HeadInv'
    BY <1>1, HeadersInv, CompleteInv, AbortInv DEF Client
  <1>2. ASSUME NEW p \in Pid, Worker(p) PROVE HeadInv'
    BY <1>2, SentInv, RespDoneInv, RespErrorInv, CtlClosedInv, WaitTimeoutInv,
       PingReplyInv, ConfReqInv, QuietInv, WkrAddInv, WkrErrorInv DEF Worker
  <1>3. ASSUME NEW p \in Pid, Failure(p) PROVE HeadInv'
    BY <1>3, QuietInv, WkrAddFailsInv DEF Failure
  <1>4. CASE AppTimer
    BY <1>4, WaitOverInv, AddTimeoutInv, AddCbInv, RemoveCbInv DEF AppTimer
  <1>5. ASSUME NEW c \in Ctl, Admin(c) PROVE HeadInv'
    BY <1>5, AdminInv
  <1>6. CASE UNCHANGED vars
    BY <1>6, ProcessInv DEF vars, HeadInv, EnvType
  <1> QED BY <1>1, <1>2, <1>3, <1>4, <1>5, <1>6 DEF Next

(* The inductive invariant: a sound pool, typed data, and nothing left of an *)
(* application that wr_app_free has removed.                                *)
THEOREM HeadInvariant == Spec => []HeadInv
  BY InitInv, StepInv, PTL DEF Spec

-----------------------------------------------------------------------------
(* Every field of the application, of its workers and of their requests     *)
(* keeps its range: the counters of failed starts and of PINGs never run    *)
(* past their limits, however callbacks, failures and commands interleave.  *)
THEOREM HeadTypeCorrect == Spec => []TypeOK
  <1>1. HeadInv => TypeOK
    BY DEF HeadInv, TypeOK, EnvType, Sound
  <1> QED BY <1>1, HeadInvariant, PTL

(* wr_wkr_dispatch_req and wr_wrk_allocate never leave a request waiting    *)
(* beside a free worker.                                                    *)
THEOREM HeadConservesWork == Spec => []WorkConserving
  <1>1. HeadInv => WorkConserving
    BY DEF HeadInv, WorkConserving, Sound
  <1> QED BY <1>1, HeadInvariant, PTL

(* Every forked worker that has not been heard of is under the add timer.   *)
THEOREM HeadWatchesPending == Spec => []PendingWatched
  <1>1. HeadInv => PendingWatched
    BY DEF HeadInv, PendingWatched, Sound
  <1> QED BY <1>1, HeadInvariant, PTL

(* wr_app_conf_req_cb finds a new configuration whenever it looks for one.  *)
THEOREM HeadRestartHasConf == Spec => []RestartHasConf
  <1>1. HeadInv => RestartHasConf
    BY DEF HeadInv, RestartHasConf, Sound
  <1> QED BY <1>1, HeadInvariant, PTL
-----------------------------------------------------------------------------
(* Every worker and every request of the head is accounted for.            *)

(* A sequence without repetitions, as q_free_workers, q_messages and the    *)
(* pending queue are: what its ends and the removal of an element do to it. *)
LEMMA AppendDistinct ==
  ASSUME NEW S, NEW s \in Seq(S), NEW x \in S
  PROVE  /\ Range(Append(s, x)) = Range(s) \cup {x}
         /\ IsInjective(s) /\ x \notin Range(s) => IsInjective(Append(s, x))
  <1> DEFINE t == Append(s, x)
  <1>1. /\ Len(t) = Len(s) + 1 /\ Len(s) \in Nat /\ DOMAIN t = 1..Len(t)
        /\ DOMAIN s = 1..Len(s) /\ t[Len(s) + 1] = x
        /\ \A i \in 1..Len(s) : t[i] = s[i]
    OBVIOUS
  <1> HIDE DEF t
  <1>2. Range(t) = Range(s) \cup {x}
    <2>1. Range(t) \subseteq Range(s) \cup {x}
      BY <1>1 DEF Range
    <2>2. x \in Range(t)
      <3>1. Len(s) + 1 \in DOMAIN t
        BY <1>1
      <3> QED BY <1>1, <3>1 DEF Range
    <2>3. Range(s) \subseteq Range(t)
      BY <1>1 DEF Range
    <2> QED BY <2>1, <2>2, <2>3
  <1>3. ASSUME IsInjective(s), x \notin Range(s) PROVE IsInjective(t)
    <2>1. \A i \in 1..Len(s) : t[i] # x
      BY <1>1, <1>3 DEF Range
    <2> QED BY <1>1, <1>3, <2>1 DEF IsInjective
  <1> QED BY <1>2, <1>3 DEF t

LEMMA TailDistinct ==
  ASSUME NEW S, NEW s \in Seq(S), s # <<>>
  PROVE  /\ Head(s) \in Range(s) /\ Range(Tail(s)) \subseteq Range(s)
         /\ Len(Tail(s)) = Len(s) - 1
         /\ IsInjective(s) => /\ IsInjective(Tail(s))
                              /\ Range(Tail(s)) = Range(s) \ {Head(s)}
  <1> DEFINE t == Tail(s)
  <1>1. /\ Len(s) \in Nat /\ Len(s) > 0 /\ Len(t) = Len(s) - 1
        /\ DOMAIN t = 1..Len(t) /\ DOMAIN s = 1..Len(s)
        /\ \A i \in 1..Len(t) : t[i] = s[i + 1]
        /\ Head(s) = s[1]
    OBVIOUS
  <1> HIDE DEF t
  <1>2. Head(s) \in Range(s) /\ Range(t) \subseteq Range(s)
    BY <1>1 DEF Range
  <1>3. \A y \in Range(s) : y = Head(s) \/ y \in Range(t)
    <2> SUFFICES ASSUME NEW i \in 1..Len(s), i # 1 PROVE s[i] \in Range(t)
      BY <1>1 DEF Range
    <2>1. i - 1 \in 1..Len(t) /\ t[i - 1] = s[i]
      BY <1>1
    <2> QED BY <1>1, <2>1 DEF Range
  <1>4. ASSUME IsInjective(s) PROVE IsInjective(t) /\ Head(s) \notin Range(t)
    <2>1. ASSUME NEW i \in 1..Len(t), NEW j \in 1..Len(t), t[i] = t[j] PROVE i = j
      <3>1. i + 1 \in DOMAIN s /\ j + 1 \in DOMAIN s /\ s[i + 1] = s[j + 1]
        BY <1>1, <2>1
      <3>2. i + 1 = j + 1
        BY <1>4, <3>1 DEF IsInjective
      <3> QED BY <3>2
    <2>2. ASSUME NEW i \in 1..Len(t) PROVE t[i] # Head(s)
      <3>1. i + 1 \in DOMAIN s /\ 1 \in DOMAIN s /\ i + 1 # 1
        BY <1>1
      <3> QED BY <1>1, <1>4, <3>1 DEF IsInjective
    <2> QED BY <1>1, <2>1, <2>2 DEF IsInjective, Range
  <1> QED BY <1>1, <1>2, <1>3, <1>4 DEF t

LEMMA ConcatDistinct ==
  ASSUME NEW S, NEW s \in Seq(S), NEW t \in Seq(S)
  PROVE  /\ Range(s \o t) = Range(s) \cup Range(t)
         /\ Len(s \o t) = Len(s) + Len(t)
         /\ IsInjective(s) /\ IsInjective(t) /\ Range(s) \cap Range(t) = {}
              => IsInjective(s \o t)
  <1> DEFINE u == s \o t
  <1>1. /\ Len(u) = Len(s) + Len(t) /\ Len(s) \in Nat /\ Len(t) \in Nat
        /\ DOMAIN u = 1..Len(u) /\ DOMAIN s = 1..Len(s) /\ DOMAIN t = 1..Len(t)
        /\ \A i \in 1..Len(s) : u[i] = s[i]
        /\ \A i \in 1..Len(u) : i > Len(s) => u[i] = t[i - Len(s)]
    OBVIOUS
  <1> HIDE DEF u
  <1>2. Range(u) \subseteq Range(s) \cup Range(t)
    <2> SUFFICES ASSUME NEW i \in 1..Len(u) PROVE u[i] \in Range(s) \cup Range(t)
      BY <1>1 DEF Range
    <2>1. CASE i \in 1..Len(s)
      BY <1>1, <2>1 DEF Range
    <2>2. CASE i > Len(s)
      <3>1. i - Len(s) \in DOMAIN t
        BY <1>1, <2>2
      <3> QED BY <1>1, <2>2, <3>1 DEF Range
    <2> QED BY <1>1, <2>1, <2>2
  <1>3. Range(s) \subseteq Range(u)
    BY <1>1 DEF Range
  <1>4. Range(t) \subseteq Range(u)
    <2> SUFFICES ASSUME NEW i \in 1..Len(t) PROVE t[i] \in Range(u)
      BY <1>1 DEF Range
    <2>1. i + Len(s) \in DOMAIN u /\ u[i + Len(s)] = t[i]
      <3>1. /\ i + Len(s) \in 1..Len(u) /\ i + Len(s) > Len(s) /\ (i + Len(s)) - Len(s) = i
            /\ DOMAIN u = 1..Len(u)
        BY <1>1
      <3> QED BY <1>1, <3>1, Zenon
    <2> QED BY <2>1 DEF Range
  <1>5. ASSUME IsInjective(s), IsInjective(t), Range(s) \cap Range(t) = {}
        PROVE  IsInjective(u)
    <2> SUFFICES ASSUME NEW i \in 1..Len(u), NEW j \in 1..Len(u), u[i] = u[j]
                 PROVE  i = j
      BY <1>1 DEF IsInjective
    <2>1. CASE i \in 1..Len(s) /\ j \in 1..Len(s)
      BY <1>1, <1>5, <2>1 DEF IsInjective
    <2>2. CASE i > Len(s) /\ j > Len(s)
      <3>1. i - Len(s) \in DOMAIN t /\ j - Len(s) \in DOMAIN t
        BY <1>1, <2>2
      <3>2. i - Len(s) = j - Len(s)
        <4>1. t[i - Len(s)] = t[j - Len(s)]
          BY <1>1, <2>2, Zenon
        <4> QED BY <1>5, <3>1, <4>1, Zenon DEF IsInjective
      <3> QED BY <1>1, <3>2
    <2>3. ASSUME NEW k \in 1..Len(s), NEW l \in 1..Len(u), l > Len(s), u[k] = u[l]
          PROVE  FALSE
      <3>1. l - Len(s) \in DOMAIN t
        BY <1>1, <2>3
      <3> QED BY <1>1, <1>5, <2>3, <3>1 DEF Range
    <2> QED BY <1>1, <2>1, <2>2, <2>3
  <1> QED BY <1>1, <1>2, <1>3, <1>4, <1>5 DEF u

LEMMA SplitDistinct ==
  ASSUME NEW S, NEW s \in Seq(S), IsInjective(s), NEW x \in Range(s)
  PROVE  LET i == IndexOf(s, x)
             l == SubSeq(s, 1, i - 1)
             r == SubSeq(s, i + 1, Len(s))
         IN  /\ l \in Seq(S) /\ r \in Seq(S) /\ IsInjective(l) /\ IsInjective(r)
             /\ Range(l) \cap Range(r) = {} /\ Range(l) \cup Range(r) = Range(s) \ {x}
             /\ Len(l) + Len(r) = Len(s) - 1
  <1> DEFINE i == IndexOf(s, x)
             l == SubSeq(s, 1, i - 1)
             r == SubSeq(s, i + 1, Len(s))
  <1>1. i \in 1..Len(s) /\ s[i] = x
    BY IndexOfType
  <1> HIDE DEF i
  <1>2. /\ l \in Seq(S) /\ Len(l) = i - 1 /\ DOMAIN l = 1..(i - 1)
        /\ \A k \in 1..(i - 1) : l[k] = s[k]
    BY <1>1
  <1>3. /\ r \in Seq(S) /\ Len(r) = Len(s) - i /\ DOMAIN r = 1..(Len(s) - i)
        /\ \A k \in 1..(Len(s) - i) : r[k] = s[i + k]
    BY <1>1
  <1>4. DOMAIN s = 1..Len(s) /\ Len(s) \in Nat
    OBVIOUS
  <1> HIDE DEF l, r
  <1>0. ASSUME NEW j \in 1..Len(s), NEW k \in 1..Len(s), s[j] = s[k] PROVE j = k
    BY <1>0, <1>4 DEF IsInjective
  <1>a. ASSUME NEW k \in 1..(Len(s) - i) PROVE i + k \in 1..Len(s) /\ r[k] = s[i + k]
    BY <1>1, <1>3, <1>4
  <1>b. ASSUME NEW k \in 1..(i - 1) PROVE k \in 1..Len(s) /\ l[k] = s[k]
    BY <1>1, <1>2, <1>4
  <1>5. IsInjective(l) /\ IsInjective(r)
    <2>1. ASSUME NEW j \in 1..(i - 1), NEW k \in 1..(i - 1), l[j] = l[k] PROVE j = k
      BY <1>0, <1>b, <2>1
    <2>2. ASSUME NEW j \in 1..(Len(s) - i), NEW k \in 1..(Len(s) - i), r[j] = r[k]
          PROVE  j = k
      <3>1. i + j = i + k
        BY <1>0, <1>a, <2>2
      <3> QED BY <1>1, <3>1
    <2> QED BY <1>2, <1>3, <2>1, <2>2 DEF IsInjective
  <1>6. ASSUME NEW j \in 1..(i - 1), NEW k \in 1..(Len(s) - i) PROVE l[j] # r[k]
    <2>1. j # i + k
      BY <1>1, <1>4
    <2> QED BY <1>0, <1>a, <1>b, <2>1
  <1>7. Range(l) \cup Range(r) \subseteq Range(s) \ {x}
    <2>1. ASSUME NEW j \in 1..(i - 1) PROVE l[j] \in Range(s) /\ l[j] # x
      BY <1>0, <1>1, <1>b, <1>4 DEF Range
    <2>2. ASSUME NEW k \in 1..(Len(s) - i) PROVE r[k] \in Range(s) /\ r[k] # x
      <3>1. i + k # i
        BY <1>1
      <3> QED BY <1>0, <1>1, <1>a, <1>4, <3>1 DEF Range
    <2> QED BY <1>2, <1>3, <2>1, <2>2 DEF Range
  <1>8. Range(s) \ {x} \subseteq Range(l) \cup Range(r)
    <2> SUFFICES ASSUME NEW k \in 1..Len(s), k # i PROVE s[k] \in Range(l) \cup Range(r)
      BY <1>1, <1>4 DEF Range
    <2>1. CASE k < i
      BY <1>1, <1>2, <2>1 DEF Range
    <2>2. CASE k > i
      <3>1. k - i \in DOMAIN r /\ r[k - i] = s[k]
        BY <1>1, <1>3, <1>4, <2>2
      <3> QED BY <3>1 DEF Range
    <2> QED BY <1>1, <2>1, <2>2
  <1>9. Range(l) \cap Range(r) = {}
    BY <1>2, <1>3, <1>6 DEF Range
  <1>10. Len(l) + Len(r) = Len(s) - 1
    BY <1>1, <1>2, <1>3, <1>4
  <1> QED BY <1>2, <1>3, <1>5, <1>7, <1>8, <1>9, <1>10 DEF i, l, r

(* wr_queue_remove *)
LEMMA RemoveDistinct ==
  ASSUME NEW S, NEW s \in Seq(S), IsInjective(s), NEW x
  PROVE  /\ IsInjective(wr_queue_remove(s, x))
         /\ Range(wr_queue_remove(s, x)) = Range(s) \ {x}
         /\ Len(wr_queue_remove(s, x)) <= Len(s)
  <1>1. CASE x \notin Range(s)
    BY <1>1 DEF wr_queue_remove
  <1>2. CASE x \in Range(s)
    <2> DEFINE l == SubSeq(s, 1, IndexOf(s, x) - 1)
               r == SubSeq(s, IndexOf(s, x) + 1, Len(s))
    <2>1. /\ l \in Seq(S) /\ r \in Seq(S) /\ IsInjective(l) /\ IsInjective(r)
          /\ Range(l) \cap Range(r) = {} /\ Range(l) \cup Range(r) = Range(s) \ {x}
          /\ Len(l) + Len(r) = Len(s) - 1
      BY <1>2, SplitDistinct
    <2>2. wr_queue_remove(s, x) = l \o r
      BY <1>2 DEF wr_queue_remove
    <2> HIDE DEF l, r
    <2>3. /\ Range(l \o r) = Range(l) \cup Range(r) /\ IsInjective(l \o r)
          /\ Len(l \o r) = Len(l) + Len(r)
      BY <2>1, ConcatDistinct
    <2> QED BY <2>1, <2>2, <2>3
  <1> QED BY <1>1, <1>2

(* The rotation of wr_pending_worker_exist. *)
LEMMA RotateDistinct ==
  ASSUME NEW S, NEW s \in Seq(S), IsInjective(s), NEW x \in Range(s)
  PROVE  LET t == SubSeq(s, IndexOf(s, x) + 1, Len(s)) \o SubSeq(s, 1, IndexOf(s, x) - 1)
         IN  IsInjective(t) /\ Range(t) = Range(s) \ {x} /\ Len(t) = Len(s) - 1
  <1> DEFINE l == SubSeq(s, 1, IndexOf(s, x) - 1)
             r == SubSeq(s, IndexOf(s, x) + 1, Len(s))
  <1>1. /\ l \in Seq(S) /\ r \in Seq(S) /\ IsInjective(l) /\ IsInjective(r)
        /\ Range(l) \cap Range(r) = {} /\ Range(l) \cup Range(r) = Range(s) \ {x}
        /\ Len(l) + Len(r) = Len(s) - 1
    BY SplitDistinct
  <1> HIDE DEF l, r
  <1>2. /\ Range(r \o l) = Range(r) \cup Range(l) /\ IsInjective(r \o l)
        /\ Len(r \o l) = Len(r) + Len(l)
    BY <1>1, ConcatDistinct
  <1>3. Len(l) \in Nat /\ Len(r) \in Nat
    BY <1>1
  <1> QED BY <1>1, <1>2, <1>3 DEF l, r

-----------------------------------------------------------------------------
(* What is true of the application's queues by themselves: no process and   *)
(* no request is in one of them twice, a free worker is a worker, a pending *)
(* one is not, and each queue keeps within its size.                        *)
Tidy(a) ==
  /\ IsInjective(a.free) /\ Range(a.free) \subseteq a.workers
  /\ IsInjective(a.pending) /\ Range(a.pending) \cap a.workers = {}
  /\ IsInjective(a.messages)
  /\ QCount(a) <= WorkerMax + 1
  /\ Len(a.pending) <= PendingCap /\ Len(a.messages) <= MsgQueueSize

(* The fields that say which workers there are and which requests wait.     *)
SameQueues(a, b) ==
  b.workers = a.workers /\ b.free = a.free /\ b.messages = a.messages

LEMMA EmptyDistinct ==
  IsInjective(<<>>) /\ Range(<<>>) = {} /\ Len(<<>>) = 0
  BY DEF IsInjective, Range

LEMMA WorkersFinite ==
  ASSUME NEW a \in AppType
  PROVE  IsFiniteSet(a.workers) /\ QCount(a) \in Nat
  <1>1. a.workers \in SUBSET Pid
    BY DEF AppType
  <1>2. IsFiniteSet(a.workers)
    BY <1>1, FS_Subset, PoolAssumption
  <1> QED BY <1>2, FS_CardinalityType DEF QCount

LEMMA ForkSeqsDistinct ==
  ASSUME NEW a, Sound(a), NEW k \in Int, NEW pids \in SUBSET Pid,
         NEW s \in ForkSeqs(a, k, pids)
  PROVE  /\ s \in Seq(Pid) /\ IsInjective(s) /\ Range(s) \subseteq pids
         /\ Len(a.pending) <= PendingCap => Len(a.pending) + Len(s) <= PendingCap
         /\ IF k < 0 THEN Len(s) = 0 ELSE Len(s) <= k
  <1>1. Len(a.pending) \in Nat /\ a.counter \in Nat
    BY PoolAssumption DEF Sound, AppType
  <1>2. PICK n \in 0..ForkRoom(a, k) : s \in [1..n -> pids]
    BY DEF ForkSeqs
  <1>3. ForkRoom(a, k) \in Nat
    BY <1>1, PoolAssumption DEF ForkRoom
  <1>4. s \in Seq(Pid) /\ Len(s) = n /\ DOMAIN s = 1..n
    BY <1>2, <1>3
  <1>5. IsInjective(s)
    BY DEF ForkSeqs, IsInjective
  <1>6. Range(s) \subseteq pids
    BY <1>2 DEF Range
  <1>7. Len(a.pending) <= PendingCap => Len(a.pending) + n <= PendingCap
    BY <1>1, <1>2, PoolAssumption DEF ForkRoom
  <1>8. IF k < 0 THEN n = 0 ELSE n <= k
    BY <1>1, <1>2, PoolAssumption DEF ForkRoom
  <1> QED BY <1>4, <1>5, <1>6, <1>7, <1>8

(* What a step that may fork does to the application: the new pids are at   *)
(* the end of the pending queue, at most k of them.                         *)
Grown(a, b, k, pids) ==
  /\ SameQueues(a, b) /\ b.conf = a.conf
  /\ \E s \in Seq(Pid) :
       /\ IsInjective(s) /\ Range(s) \subseteq pids /\ b.pending = a.pending \o s
       /\ Len(a.pending) <= PendingCap => Len(a.pending) + Len(s) <= PendingCap
       /\ IF k < 0 THEN Len(s) = 0 ELSE Len(s) <= k

LEMMA ForkedGrows ==
  ASSUME NEW a, Sound(a), NEW s \in Seq(Pid)
  PROVE  /\ SameQueues(a, Forked(a, s)) /\ Forked(a, s).pending = a.pending \o s
         /\ Forked(a, s).conf = a.conf /\ Forked(a, s).state = a.state
         /\ Forked(a, s).new = a.new
  <1>1. CASE s = <<>>
    <2>1. a.pending \o s = a.pending
      BY <1>1 DEF Sound, AppType
    <2> QED BY <1>1, <2>1 DEF Forked, SameQueues
  <1>2. CASE s # <<>>
    BY <1>2 DEF Forked, SameQueues, Sound, AppType
  <1> QED BY <1>1, <1>2

LEMMA WkrAddGrows ==
  ASSUME NEW a, Sound(a), NEW pids \in SUBSET Pid, NEW b \in wr_app_wkr_add(a, pids)
  PROVE  Grown(a, b, 1, pids) /\ b.state = a.state /\ b.new = a.new
  <1>1. PICK s \in ForkSeqs(a, 1, pids) : b = Forked(a, s)
    BY DEF wr_app_wkr_add
  <1>2. /\ s \in Seq(Pid) /\ IsInjective(s) /\ Range(s) \subseteq pids
        /\ Len(a.pending) <= PendingCap => Len(a.pending) + Len(s) <= PendingCap
        /\ Len(s) <= 1
    BY ForkSeqsDistinct
  <1>3. /\ SameQueues(a, b) /\ b.pending = a.pending \o s /\ b.conf = a.conf
        /\ b.state = a.state /\ b.new = a.new
    BY <1>1, <1>2, ForkedGrows
  <1> QED BY <1>2, <1>3 DEF Grown

LEMMA BalanceGrows ==
  ASSUME NEW a, Sound(a), a.state # "NONE", NEW pids \in SUBSET Pid,
         NEW b \in wr_app_wkr_balance(a, pids)
  PROVE  /\ Grown(a, b, MinWorker[a.conf] - TOTAL_WORKER_COUNT(a), pids)
         /\ \/ b.state = a.state /\ b.new = a.new
            \/ a.state = "RESTART" /\ b.state = "ACTIVE" /\ b.new = None
  <1> DEFINE k == MinWorker[a.conf] - TOTAL_WORKER_COUNT(a)
             Added(s) == IF s = <<>> THEN a
                         ELSE [Forked(a, s) EXCEPT
                                 !.low = (TOTAL_WORKER_COUNT(a) + Len(s)) * MinReqRatio]
  <1>1. k \in Int
    BY QCountType, PoolAssumption DEF Sound
  <1>2. PICK s \in ForkSeqs(a, k, pids) :
          b = IF Added(s).state = "RESTART" /\ QCount(Added(s)) >= MinWorker[Added(s).conf]
                THEN SettleRestart(Added(s)) ELSE Added(s)
    BY DEF wr_app_wkr_balance
  <1>3. /\ s \in Seq(Pid) /\ IsInjective(s) /\ Range(s) \subseteq pids
        /\ Len(a.pending) <= PendingCap => Len(a.pending) + Len(s) <= PendingCap
        /\ IF k < 0 THEN Len(s) = 0 ELSE Len(s) <= k
    BY <1>1, ForkSeqsDistinct
  <1>4. s # <<>> => a.counter < AddTrials
    BY <1>1, ForkSeqsType
  <1>5. Forked(a, s) \in AppType
    BY <1>3, <1>4, ForkedSound DEF Sound
  <1>6. /\ SameQueues(a, Added(s)) /\ Added(s).pending = a.pending \o s
        /\ Added(s).conf = a.conf /\ Added(s).state = a.state /\ Added(s).new = a.new
        /\ Added(s) \in AppType
    <2>1. CASE s = <<>>
      <3>1. Added(s) = a /\ Forked(a, s) = a
        BY <2>1 DEF Forked
      <3> QED BY <1>3, <1>5, <3>1, ForkedGrows
    <2>2. CASE s # <<>>
      <3>1. /\ SameQueues(a, Forked(a, s)) /\ Forked(a, s).pending = a.pending \o s
            /\ Forked(a, s).conf = a.conf /\ Forked(a, s).state = a.state
            /\ Forked(a, s).new = a.new
        BY <1>3, ForkedGrows
      <3>2. (TOTAL_WORKER_COUNT(a) + Len(s)) * MinReqRatio \in Nat
        BY <1>3, QCountType, PoolAssumption DEF Sound
      <3> QED BY <1>5, <2>2, <3>1, <3>2 DEF SameQueues, AppType
    <2> QED BY <2>1, <2>2
  <1> HIDE DEF Added, k
  <1>7. CASE b = Added(s)
    BY <1>3, <1>6, <1>7 DEF Grown, k
  <1>8. CASE Added(s).state = "RESTART" /\ b = SettleRestart(Added(s))
    <2>1. /\ SameQueues(Added(s), b) /\ b.pending = Added(s).pending
          /\ b.conf = Added(s).conf /\ b.state = "ACTIVE" /\ b.new = None
      BY <1>6, <1>8 DEF SettleRestart, SameQueues, AppType
    <2>2. SameQueues(a, b)
      BY <1>6, <2>1 DEF SameQueues
    <2> QED BY <1>3, <1>6, <1>8, <2>1, <2>2 DEF Grown, k
  <1> QED BY <1>2, <1>7, <1>8

(* Forking keeps the queues tidy if the pids are new. *)
LEMMA GrownTidy ==
  ASSUME NEW a, NEW b, Sound(a), Tidy(a), NEW k, NEW pids \in SUBSET Pid,
         Grown(a, b, k, pids), pids \cap (a.workers \cup Range(a.pending)) = {}
  PROVE  /\ Tidy(b) /\ Range(a.pending) \subseteq Range(b.pending)
         /\ Range(b.pending) \subseteq Range(a.pending) \cup pids
  <1>1. PICK s \in Seq(Pid) :
          /\ IsInjective(s) /\ Range(s) \subseteq pids /\ b.pending = a.pending \o s
          /\ Len(a.pending) <= PendingCap => Len(a.pending) + Len(s) <= PendingCap
    BY DEF Grown
  <1>2. a.pending \in Seq(Pid)
    BY DEF Sound, AppType
  <1>3. /\ Range(b.pending) = Range(a.pending) \cup Range(s)
        /\ Len(b.pending) = Len(a.pending) + Len(s)
        /\ IsInjective(b.pending)
    <2>1. Range(a.pending) \cap Range(s) = {}
      BY <1>1
    <2> QED BY <1>1, <1>2, <2>1, ConcatDistinct DEF Tidy
  <1>4. b.workers = a.workers /\ b.free = a.free /\ b.messages = a.messages
    BY DEF Grown, SameQueues
  <1>5. QCount(b) = QCount(a)
    BY <1>4 DEF QCount
  <1>6. Range(b.pending) \cap b.workers = {}
    BY <1>1, <1>3, <1>4 DEF Tidy
  <1> QED BY <1>1, <1>3, <1>4, <1>5, <1>6 DEF Tidy

(* Functions that touch nothing but timers, counters and ratios.            *)
SamePool(a, b) ==
  /\ SameQueues(a, b) /\ b.pending = a.pending
  /\ b.state = a.state /\ b.conf = a.conf /\ b.new = a.new

LEMMA SameTidy ==
  ASSUME NEW a, NEW b, Tidy(a), SamePool(a, b)
  PROVE  Tidy(b)
  BY DEF Tidy, SamePool, SameQueues, QCount

LEMMA AnsweredSame ==
  ASSUME NEW a, Sound(a)
  PROVE  SamePool(a, Answered(a))
  <1>1. (a.tAddTimeout /\ a.pending # <<>>) \in BOOLEAN
    OBVIOUS
  <1> QED BY <1>1 DEF SamePool, SameQueues, Answered, Sound, AppType

LEMMA RatiosSame ==
  ASSUME NEW a, Sound(a)
  PROVE  SamePool(a, Ratios(a))
  BY DEF SamePool, SameQueues, Ratios, Sound, AppType

LEMMA ErrorSentSame ==
  ASSUME NEW a, Sound(a)
  PROVE  SamePool(a, ErrorSent(a))
  BY DEF SamePool, SameQueues, ErrorSent, Sound, AppType

LEMMA SettleEffect ==
  ASSUME NEW a, Sound(a)
  PROVE  /\ SameQueues(a, SettleRestart(a)) /\ SettleRestart(a).pending = a.pending
         /\ SettleRestart(a).conf = a.conf
  BY DEF SameQueues, SettleRestart, Sound, AppType

(* wr_wkr_free takes the worker from q_workers and from q_free_workers.     *)
LEMMA WkrFreeEffect ==
  ASSUME NEW a, Sound(a), Tidy(a), NEW p
  PROVE  LET b == wr_wkr_free(a, p)
         IN  /\ Tidy(b) /\ b.workers = a.workers \ {p}
             /\ Range(b.free) = Range(a.free) \ {p}
             /\ b.messages = a.messages /\ b.pending = a.pending
             /\ b.state = a.state /\ b.conf = a.conf /\ b.new = a.new
  <1> DEFINE f == wr_queue_remove(a.free, p)
             m == [a EXCEPT !.workers = @ \ {p}, !.free = f]
             b == wr_wkr_free(a, p)
  <1>1. a.free \in Seq(Pid) /\ IsFiniteSet(a.workers) /\ QCount(a) \in Nat
    BY WorkersFinite DEF Sound, AppType
  <1>2. /\ f \in Seq(Pid) /\ (a.free = <<>> => f = <<>>)
        /\ IsInjective(f) /\ Range(f) = Range(a.free) \ {p}
    BY <1>1, RemoveType, RemoveDistinct DEF Tidy
  <1>3. b = Ratios(m)
    BY DEF wr_wkr_free
  <1> HIDE DEF f, b
  <1>4. Sound(m)
    BY <1>2 DEF Sound, AppType
  <1>5. /\ m.workers = a.workers \ {p} /\ m.free = f /\ m.messages = a.messages
        /\ m.pending = a.pending /\ m.state = a.state /\ m.conf = a.conf /\ m.new = a.new
    BY DEF Sound, AppType
  <1> HIDE DEF m
  <1>6. SamePool(m, b)
    BY <1>3, <1>4, RatiosSame
  <1>7. QCount(m) <= QCount(a) /\ QCount(m) \in Nat
    <2>1. a.workers \ {p} \in SUBSET a.workers
      OBVIOUS
    <2>2. /\ Cardinality(a.workers \ {p}) <= Cardinality(a.workers)
          /\ Cardinality(a.workers \ {p}) \in Nat
      BY <1>1, <2>1, FS_Subset, FS_CardinalityType
    <2> QED BY <1>5, <2>2 DEF QCount
  <1>8. QCount(m) <= WorkerMax + 1
    BY <1>1, <1>7, PoolAssumption DEF Tidy
  <1>9. Tidy(m)
    BY <1>2, <1>5, <1>8 DEF Tidy
  <1>10. Tidy(b)
    BY <1>6, <1>9, SameTidy
  <1> QED BY <1>2, <1>5, <1>6, <1>10 DEF SamePool, SameQueues, b

(* wr_pending_worker_exist takes the pid it finds from the pending queue.   *)
LEMMA PendingExistEffect ==
  ASSUME NEW a, Sound(a), Tidy(a), NEW p
  PROVE  LET b == wr_pending_worker_exist(a, p)
         IN  /\ Tidy(b) /\ SameQueues(a, b)
             /\ Range(b.pending) = Range(a.pending) \ {p}
             /\ p \in Range(a.pending) => Len(b.pending) = Len(a.pending) - 1
             /\ b.state = a.state /\ b.conf = a.conf /\ b.new = a.new
  <1>1. CASE p \notin Range(a.pending)
    BY <1>1 DEF wr_pending_worker_exist, SameQueues
  <1>2. CASE p \in Range(a.pending)
    <2> DEFINE rest == SubSeq(a.pending, IndexOf(a.pending, p) + 1, Len(a.pending))
                          \o SubSeq(a.pending, 1, IndexOf(a.pending, p) - 1)
               b == wr_pending_worker_exist(a, p)
    <2>1. a.pending \in Seq(Pid) /\ Len(a.pending) \in Nat
      BY DEF Sound, AppType
    <2>2. /\ IsInjective(rest) /\ Range(rest) = Range(a.pending) \ {p}
          /\ Len(rest) = Len(a.pending) - 1
      BY <1>2, <2>1, RotateDistinct DEF Tidy
    <2>3. b = [a EXCEPT !.pending = rest]
      BY <1>2 DEF wr_pending_worker_exist
    <2> HIDE DEF rest, b
    <2>4. /\ SameQueues(a, b) /\ b.pending = rest
          /\ b.state = a.state /\ b.conf = a.conf /\ b.new = a.new
      BY <2>3 DEF SameQueues, Sound, AppType
    <2>5. Len(rest) <= PendingCap
      BY <2>1, <2>2, PoolAssumption DEF Tidy
    <2>6. Tidy(b)
      BY <2>2, <2>4, <2>5 DEF Tidy, SameQueues, QCount
    <2> QED BY <2>2, <2>4, <2>6 DEF b
  <1> QED BY <1>1, <1>2

(* wr_app_reload takes the free workers away. *)
LEMMA ReloadEffect ==
  ASSUME NEW a, Sound(a), Tidy(a)
  PROVE  LET b == wr_app_reload(a)
         IN  /\ Tidy(b) /\ b.workers = a.workers \ Range(a.free) /\ b.free = <<>>
             /\ b.messages = a.messages /\ b.pending = a.pending
             /\ b.conf = a.new /\ b.new = None
  <1> DEFINE m == [a EXCEPT !.workers = @ \ Range(a.free), !.free = <<>>]
             d == DropFree(a)
             b == wr_app_reload(a)
  <1>0. /\ <<>> \in Seq(Pid) /\ IsInjective(<<>>) /\ Range(<<>>) = {}
        /\ IsFiniteSet(a.workers) /\ QCount(a) \in Nat
    BY EmptyDistinct, WorkersFinite DEF Sound
  <1>1. Sound(m)
    <2>1. m \in AppType
      BY <1>0 DEF Sound, AppType
    <2> QED BY <2>1 DEF Sound, AppType
  <1>2. /\ m.workers = a.workers \ Range(a.free) /\ m.free = <<>> /\ m.messages = a.messages
        /\ m.pending = a.pending
    BY DEF Sound, AppType
  <1>3. d.workers = a.workers \ Range(a.free) /\ d.free = <<>> /\ d.messages = a.messages
        /\ d.pending = a.pending /\ d \in AppType
    <2>1. CASE a.free = <<>>
      BY <1>0, <2>1 DEF DropFree, Sound
    <2>2. CASE a.free # <<>>
      <3>1. d = Ratios(m)
        BY <2>2 DEF DropFree
      <3> HIDE DEF m, d
      <3> QED BY <1>1, <1>2, <3>1, RatiosSame, RatiosSound DEF SamePool, SameQueues, Sound
    <2> QED BY <2>1, <2>2
  <1>4. b = [d EXCEPT !.conf = a.new, !.new = None, !.state = "RESTARTING"]
    BY DEF wr_app_reload
  <1> HIDE DEF d, b, m
  <1>5. /\ b.workers = a.workers \ Range(a.free) /\ b.free = <<>>
        /\ b.messages = a.messages /\ b.pending = a.pending /\ b.conf = a.new /\ b.new = None
    BY <1>3, <1>4 DEF AppType
  <1>6. QCount(b) <= WorkerMax + 1
    <2>1. a.workers \ Range(a.free) \in SUBSET a.workers
      OBVIOUS
    <2>2. /\ Cardinality(a.workers \ Range(a.free)) <= Cardinality(a.workers)
          /\ Cardinality(a.workers \ Range(a.free)) \in Nat
      BY <1>0, <2>1, FS_Subset, FS_CardinalityType
    <2> QED BY <1>0, <1>5, <2>2, PoolAssumption DEF QCount, Tidy
  <1>7. Tidy(b)
    BY <1>0, <1>5, <1>6 DEF Tidy
  <1> QED BY <1>5, <1>7 DEF b

(* wr_wrk_allocate gives the worker the oldest request or makes it free.    *)
LEMMA AllocateEffect ==
  ASSUME NEW a, Sound(a), Tidy(a), NEW p \in a.workers, p \in Pid, p \notin Range(a.free)
  PROVE  LET b == wr_wrk_allocate(a, p)
         IN  /\ Tidy(b) /\ b.workers = a.workers /\ b.pending = a.pending
             /\ b.state = a.state /\ b.conf = a.conf /\ b.new = a.new
             /\ AllocReq(a) = None =>
                  /\ Range(b.free) = Range(a.free) \cup {p}
                  /\ Range(a.messages) = {} /\ Range(b.messages) = {}
             /\ AllocReq(a) # None =>
                  /\ b.free = a.free /\ AllocReq(a) \in Range(a.messages)
                  /\ Range(b.messages) = Range(a.messages) \ {AllocReq(a)}
  <1> DEFINE c == wr_app_chk_load_to_remove_wkr(a)
             b == wr_wrk_allocate(a, p)
  <1>1. SamePool(a, c) /\ c \in AppType
    <2>1. (Len(a.messages) < a.low) \in BOOLEAN
      OBVIOUS
    <2> QED BY <2>1 DEF wr_app_chk_load_to_remove_wkr, SamePool, SameQueues, Sound, AppType
  <1>2. b = IF c.messages = <<>> THEN [c EXCEPT !.free = Append(@, p)]
            ELSE [c EXCEPT !.messages = Tail(@)]
    BY DEF wr_wrk_allocate
  <1>3. /\ a.messages \in Seq(Req) /\ a.free \in Seq(Pid) /\ None \notin Req
        /\ c.messages = a.messages /\ c.free = a.free
    BY <1>1, PoolAssumption DEF Sound, AppType, SamePool, SameQueues
  <1> HIDE DEF c, b
  <1>4. CASE a.messages = <<>>
    <2>1. /\ b.free = Append(a.free, p) /\ b.messages = <<>> /\ b.workers = a.workers
          /\ b.pending = a.pending /\ b.state = a.state /\ b.conf = a.conf /\ b.new = a.new
      BY <1>1, <1>2, <1>3, <1>4 DEF SamePool, SameQueues, AppType
    <2>2. Range(b.free) = Range(a.free) \cup {p} /\ IsInjective(b.free)
      BY <1>3, <2>1, AppendDistinct DEF Tidy
    <2>3. Tidy(b)
      BY <1>4, <2>1, <2>2 DEF Tidy, QCount
    <2>4. AllocReq(a) = None
      BY <1>4 DEF AllocReq
    <2> QED BY <1>4, <2>1, <2>2, <2>3, <2>4, EmptyDistinct DEF b
  <1>5. CASE a.messages # <<>>
    <2>1. /\ b.free = a.free /\ b.messages = Tail(a.messages) /\ b.workers = a.workers
          /\ b.pending = a.pending /\ b.state = a.state /\ b.conf = a.conf /\ b.new = a.new
      BY <1>1, <1>2, <1>3, <1>5 DEF SamePool, SameQueues, AppType
    <2>2. /\ Head(a.messages) \in Range(a.messages) /\ IsInjective(b.messages)
          /\ Range(b.messages) = Range(a.messages) \ {Head(a.messages)}
          /\ Len(b.messages) = Len(a.messages) - 1
      BY <1>3, <1>5, <2>1, TailDistinct DEF Tidy
    <2>3. Len(b.messages) <= MsgQueueSize
      BY <1>3, <2>2, PoolAssumption DEF Tidy
    <2>4. Tidy(b)
      BY <2>1, <2>2, <2>3 DEF Tidy, QCount
    <2>5. AllocReq(a) = Head(a.messages) /\ AllocReq(a) # None
      BY <1>3, <1>5 DEF AllocReq
    <2> QED BY <2>1, <2>2, <2>4, <2>5 DEF b
  <1> QED BY <1>4, <1>5

-----------------------------------------------------------------------------
(* The books of the head.  W, F and M are the workers, the free ones and    *)
(* the waiting requests; w and q the workers' and the requests' own state;  *)
(* S the workers a callback has in hand: registered, without a request and  *)
(* not in the free queue.  Between callbacks S is empty.                    *)
Idle(x) == x.state = "INACTIVE" /\ x.req = None /\ x.phase = "idle" /\ ~x.tWait
InUse(x) ==
  /\ x.state \in {"ACTIVE", "PINGING", "EXPIRED"} /\ x.req # None /\ x.phase # "idle"
  /\ x.tWait <=> x.phase \in {"wait", "body"}
  /\ x.state = "PINGING" => x.tWait

WorkerBook(W, F, w, S) ==
  \A p \in Pid : /\ p \notin W => w[p] = NoWkr
                 /\ p \in F \cup S => Idle(w[p])
                 /\ p \in W \ (F \cup S) => InUse(w[p])

RequestBook(M, w, q) ==
  /\ \A r \in Req : q[r] = "queued" <=> r \in M
  /\ \A p \in Pid : w[p].req # None => q[w[p].req] \in {"busy", "aborted"}
  /\ \A r \in Req : q[r] \in {"busy", "aborted"} => \E p \in Pid : w[p].req = r
  /\ \A p1, p2 \in Pid : w[p1].req = w[p2].req /\ w[p1].req # None => p1 = p2

Books(W, F, M, w, q, S) ==
  /\ W \subseteq Pid /\ F \subseteq W /\ S \subseteq W \ F /\ M \subseteq Req
  /\ w \in [Pid -> WkrType] /\ q \in [Req -> ReqState]
  /\ WorkerBook(W, F, w, S)
  /\ RequestBook(M, w, q)

LEMMA NoWkrIdle ==
  /\ NoWkr.req = None /\ NoWkr.phase = "idle" /\ NoWkr.tWait = FALSE /\ NoWkr.state = "FREED"
  BY DEF NoWkr

(* Whoever has a request is a worker that is neither free nor in hand. *)
LEMMA HolderInUse ==
  ASSUME NEW W, NEW F, NEW M, NEW w, NEW q, NEW S, Books(W, F, M, w, q, S),
         NEW p \in Pid, w[p].req # None
  PROVE  p \in W \ (F \cup S) /\ w[p].req \in Req /\ InUse(w[p])
  <1>1. w[p] \in WkrType
    BY DEF Books
  <1> QED BY <1>1, NoWkrIdle DEF Books, WorkerBook, Idle, WkrType

(* A worker in hand takes the request at the front of the queue. *)
LEMMA HandOut ==
  ASSUME NEW W, NEW F, NEW M, NEW w, NEW q, NEW p \in Pid, NEW r \in M,
         Books(W, F, M, w, q, {p})
  PROVE  Books(W, F, M \ {r}, [w EXCEPT ![p] = Serving(w[p], r)],
               [q EXCEPT ![r] = "busy"], {})
  <1> DEFINE x == Serving(w[p], r)
             v == [w EXCEPT ![p] = x]
             u == [q EXCEPT ![r] = "busy"]
  <1>1. /\ p \in W \ F /\ r \in Req /\ w[p] \in WkrType /\ r # None /\ Idle(w[p])
        /\ q[r] = "queued"
    BY PoolAssumption DEF Books, WorkerBook, RequestBook
  <1>2. x \in WkrType
    BY <1>1, ServingType
  <1>3. /\ x.req = r /\ x.state = "ACTIVE" /\ x.phase = "send" /\ x.tWait = w[p].tWait
    BY <1>1 DEF Serving, WkrType
  <1>4. InUse(x)
    BY <1>1, <1>3 DEF InUse, Idle
  <1> HIDE DEF x
  <1>5. v \in [Pid -> WkrType] /\ u \in [Req -> ReqState] /\ v[p] = x /\ u[r] = "busy"
        /\ (\A o \in Pid : o # p => v[o] = w[o]) /\ (\A o \in Req : o # r => u[o] = q[o])
    BY <1>1, <1>2 DEF Books, ReqState
  <1> HIDE DEF v, u
  <1>6. WorkerBook(W, F, v, {})
    BY <1>1, <1>4, <1>5 DEF Books, WorkerBook
  <1>0. \A o \in Pid : w[o].req # None => o # p /\ w[o].req \in Req
    BY HolderInUse
  <1>7. \A o \in Pid : w[o].req # None => w[o].req # r /\ o # p /\ w[o].req \in Req
    BY <1>0, <1>1 DEF Books, RequestBook
  <1>8. RequestBook(M \ {r}, v, u)
    <2>1. \A o \in Req : u[o] = "queued" <=> o \in M \ {r}
      BY <1>1, <1>5 DEF Books, RequestBook
    <2>2. \A o \in Pid : v[o].req # None => u[v[o].req] \in {"busy", "aborted"}
      BY <1>1, <1>3, <1>5, <1>7 DEF Books, RequestBook
    <2>3. ASSUME NEW o \in Req, u[o] \in {"busy", "aborted"}
          PROVE  \E k \in Pid : v[k].req = o
      <3>1. CASE o = r
        BY <1>3, <1>5, <3>1
      <3>2. CASE o # r
        <4>1. PICK k \in Pid : w[k].req = o
          BY <1>5, <2>3, <3>2 DEF Books, RequestBook
        <4>2. k # p
          BY <1>1, <4>1, PoolAssumption DEF Idle
        <4> QED BY <1>5, <4>1, <4>2
      <3> QED BY <3>1, <3>2
    <2>4. ASSUME NEW k \in Pid, NEW l \in Pid, v[k].req = v[l].req, v[k].req # None
          PROVE  k = l
      BY <1>3, <1>5, <1>7, <2>4 DEF Books, RequestBook
    <2> QED BY <2>1, <2>2, <2>3, <2>4 DEF RequestBook
  <1> QED BY <1>1, <1>5, <1>6, <1>8 DEF Books, x, v, u

(* A worker in hand goes to the free queue. *)
LEMMA PutAside ==
  ASSUME NEW W, NEW F, NEW M, NEW w, NEW q, NEW p \in Pid, Books(W, F, M, w, q, {p})
  PROVE  Books(W, F \cup {p}, M, w, q, {})
  BY DEF Books, WorkerBook

(* A worker answers its request: the request is over, the worker in hand.   *)
LEMMA TakeBack ==
  ASSUME NEW W, NEW F, NEW M, NEW w, NEW q, NEW p \in Pid, w[p].req # None,
         Books(W, F, M, w, q, {}), NEW e \in {"done", "error"}
  PROVE  Books(W, F, M, [w EXCEPT ![p] = Released(w[p])], [q EXCEPT ![w[p].req] = e], {p})
  <1> DEFINE x == Released(w[p])
             r == w[p].req
             v == [w EXCEPT ![p] = x]
             u == [q EXCEPT ![r] = e]
  <1>0. \A o \in Pid : w[o].req # None => o \in W \ F /\ w[o].req \in Req
    BY HolderInUse
  <1>1. /\ p \in W \ F /\ r \in Req /\ w[p] \in WkrType /\ q[r] \in {"busy", "aborted"}
    BY <1>0 DEF Books, RequestBook
  <1>2. x \in WkrType
    BY <1>1, ReleasedType
  <1>3. Idle(x)
    BY <1>1 DEF Released, WkrType, Idle
  <1> HIDE DEF x
  <1>5. v \in [Pid -> WkrType] /\ u \in [Req -> ReqState] /\ v[p] = x /\ u[r] = e
        /\ (\A o \in Pid : o # p => v[o] = w[o]) /\ (\A o \in Req : o # r => u[o] = q[o])
    BY <1>1, <1>2 DEF Books, ReqState
  <1> HIDE DEF v, u
  <1>6. WorkerBook(W, F, v, {p})
    BY <1>1, <1>3, <1>5 DEF Books, WorkerBook
  <1>7. \A o \in Pid : w[o].req # None /\ o # p => w[o].req # r /\ w[o].req \in Req
    BY <1>0, <1>1 DEF Books, RequestBook
  <1>8. RequestBook(M, v, u)
    <2>1. \A o \in Req : u[o] = "queued" <=> o \in M
      BY <1>1, <1>5 DEF Books, RequestBook
    <2>2. \A o \in Pid : v[o].req # None => u[v[o].req] \in {"busy", "aborted"}
      BY <1>1, <1>3, <1>5, <1>7 DEF Books, RequestBook, Idle
    <2>3. ASSUME NEW o \in Req, u[o] \in {"busy", "aborted"}
          PROVE  \E k \in Pid : v[k].req = o
      <3>1. o # r
        BY <1>5, <2>3
      <3>2. PICK k \in Pid : w[k].req = o
        BY <1>5, <2>3, <3>1 DEF Books, RequestBook
      <3> QED BY <1>5, <3>1, <3>2 DEF r
    <2>4. ASSUME NEW k \in Pid, NEW l \in Pid, v[k].req = v[l].req, v[k].req # None
          PROVE  k = l
      BY <1>3, <1>5, <1>7, <2>4 DEF Books, RequestBook, Idle
    <2> QED BY <2>1, <2>2, <2>3, <2>4 DEF RequestBook
  <1> QED BY <1>1, <1>5, <1>6, <1>8 DEF Books, x, v, u, r

(* A worker is gone, and its request, if it has one, is over. *)
LEMMA Loss ==
  ASSUME NEW W, NEW F, NEW M, NEW w, NEW q, NEW p \in Pid,
         Books(W, F, M, w, q, {}), NEW u \in [Req -> ReqState],
         \A r \in Req : IF w[p].req = r THEN u[r] \in {"done", "error"} ELSE u[r] = q[r]
  PROVE  Books(W \ {p}, F \ {p}, M, [w EXCEPT ![p] = NoWkr], u, {})
  <1> DEFINE v == [w EXCEPT ![p] = NoWkr]
  <1>0. \A o \in Pid : w[o].req # None => w[o].req \in Req
    BY HolderInUse
  <1>1. /\ v \in [Pid -> WkrType] /\ v[p] = NoWkr /\ (\A o \in Pid : o # p => v[o] = w[o])
        /\ NoWkr.req = None
    BY NoWkrType, NoWkrIdle DEF Books
  <1> HIDE DEF v
  <1>2. WorkerBook(W \ {p}, F \ {p}, v, {})
    BY <1>1 DEF Books, WorkerBook
  <1>3. RequestBook(M, v, u)
    <2>1. \A o \in Req : u[o] = "queued" <=> o \in M
      <3> TAKE o \in Req
      <3>1. CASE w[p].req = o
        <4>1. o # None
          BY PoolAssumption
        <4> QED BY <3>1, <4>1 DEF Books, RequestBook
      <3>2. CASE w[p].req # o
        BY <3>2 DEF Books, RequestBook
      <3> QED BY <3>1, <3>2
    <2>2. ASSUME NEW o \in Pid, v[o].req # None
          PROVE  u[v[o].req] \in {"busy", "aborted"}
      <3>1. o # p /\ v[o] = w[o] /\ w[o].req \in Req
        BY <1>0, <1>1, <2>2
      <3>2. w[p].req # w[o].req
        BY <2>2, <3>1 DEF Books, RequestBook
      <3> QED BY <2>2, <3>1, <3>2 DEF Books, RequestBook
    <2>3. ASSUME NEW o \in Req, u[o] \in {"busy", "aborted"}
          PROVE  \E k \in Pid : v[k].req = o
      <3>1. w[p].req # o /\ u[o] = q[o]
        BY <2>3
      <3>2. PICK k \in Pid : w[k].req = o
        BY <2>3, <3>1 DEF Books, RequestBook
      <3> QED BY <1>1, <3>1, <3>2
    <2>4. ASSUME NEW k \in Pid, NEW l \in Pid, v[k].req = v[l].req, v[k].req # None
          PROVE  k = l
      BY <1>1, <2>4 DEF Books, RequestBook
    <2> QED BY <2>1, <2>2, <2>3, <2>4 DEF RequestBook
  <1> QED BY <1>1, <1>2, <1>3 DEF Books, v

(* Workers change their own state and keep their requests; D is the set of  *)
(* free workers that are dropped.                                           *)
LEMMA Retouch ==
  ASSUME NEW W, NEW F, NEW M, NEW w, NEW q, NEW D \in SUBSET F,
         Books(W, F, M, w, q, {}), NEW v \in [Pid -> WkrType],
         \A p \in Pid :
           /\ p \in D => v[p] = NoWkr
           /\ p \notin W => v[p] = w[p]
           /\ p \notin D => /\ v[p].req = w[p].req
                            /\ Idle(w[p]) => Idle(v[p])
                            /\ InUse(w[p]) => InUse(v[p])
  PROVE  Books(W \ D, F \ D, M, v, q, {})
  <1>1. \A p \in Pid : v[p].req = w[p].req
    BY NoWkrIdle DEF Books, WorkerBook, Idle
  <1>2. WorkerBook(W \ D, F \ D, v, {})
    BY DEF Books, WorkerBook
  <1>3. RequestBook(M, v, q)
    BY <1>1 DEF Books, RequestBook
  <1> QED BY <1>2, <1>3 DEF Books

(* A new worker registers. *)
LEMMA Enlist ==
  ASSUME NEW W, NEW F, NEW M, NEW w, NEW q, NEW p \in Pid, p \notin W,
         Books(W, F, M, w, q, {})
  PROVE  Books(W \cup {p}, F, M, [w EXCEPT ![p] = [NoWkr EXCEPT !.state = "INACTIVE"]],
               q, {p})
  <1> DEFINE x == [NoWkr EXCEPT !.state = "INACTIVE"]
             v == [w EXCEPT ![p] = x]
  <1>1. x \in WkrType /\ Idle(x) /\ w[p] = NoWkr
    BY NoWkrType DEF WkrType, WkrState, Idle, NoWkr, Books, WorkerBook
  <1> HIDE DEF x
  <1>2. v \in [Pid -> WkrType] /\ v[p] = x /\ (\A o \in Pid : o # p => v[o] = w[o])
    BY <1>1 DEF Books
  <1> HIDE DEF v
  <1>3. \A o \in Pid : v[o].req = w[o].req
    BY <1>1, <1>2, NoWkrIdle DEF Idle
  <1>4. WorkerBook(W \cup {p}, F, v, {p})
    BY <1>1, <1>2 DEF Books, WorkerBook
  <1>5. RequestBook(M, v, q)
    BY <1>3 DEF Books, RequestBook
  <1> QED BY <1>2, <1>4, <1>5 DEF Books, x, v

(* The first free worker is taken in hand. *)
LEMMA TakeFree ==
  ASSUME NEW W, NEW F, NEW M, NEW w, NEW q, NEW p \in F, Books(W, F, M, w, q, {})
  PROVE  Books(W, F \ {p}, M, w, q, {p})
  BY DEF Books, WorkerBook

(* A request that no worker has changes its state; M gains or loses it.     *)
LEMMA Requeue ==
  ASSUME NEW W, NEW F, NEW M, NEW w, NEW q, NEW r \in Req, NEW S,
         Books(W, F, M, w, q, S), q[r] \notin {"busy", "aborted"},
         NEW e \in ReqState \ {"busy", "aborted"}
  PROVE  Books(W, F, IF e = "queued" THEN M \cup {r} ELSE M \ {r}, w,
               [q EXCEPT ![r] = e], S)
  <1> DEFINE N == IF e = "queued" THEN M \cup {r} ELSE M \ {r}
             u == [q EXCEPT ![r] = e]
  <1>0. \A o \in Pid : w[o].req # None => w[o].req \in Req
    BY HolderInUse
  <1>1. u \in [Req -> ReqState] /\ u[r] = e /\ (\A o \in Req : o # r => u[o] = q[o])
    BY DEF Books
  <1> HIDE DEF u
  <1>2. RequestBook(N, w, u)
    <2>1. \A o \in Req : u[o] = "queued" <=> o \in N
      BY <1>1 DEF Books, RequestBook
    <2>2. \A o \in Pid : w[o].req # None => u[w[o].req] \in {"busy", "aborted"}
      BY <1>0, <1>1 DEF Books, RequestBook
    <2>3. \A o \in Req : u[o] \in {"busy", "aborted"} => \E k \in Pid : w[k].req = o
      BY <1>1 DEF Books, RequestBook
    <2> QED BY <2>1, <2>2, <2>3 DEF Books, RequestBook
  <1>3. N \subseteq Req
    BY DEF Books
  <1> QED BY <1>1, <1>2, <1>3 DEF Books, u

LEMMA AbortBusy ==
  ASSUME NEW W, NEW F, NEW M, NEW w, NEW q, NEW r \in Req,
         Books(W, F, M, w, q, {}), q[r] = "busy"
  PROVE  Books(W, F, M, w, [q EXCEPT ![r] = "aborted"], {})
  <1> DEFINE u == [q EXCEPT ![r] = "aborted"]
  <1>1. u \in [Req -> ReqState] /\ u[r] = "aborted" /\ (\A o \in Req : o # r => u[o] = q[o])
    BY DEF Books, ReqState
  <1>0. \A o \in Pid : w[o].req # None => w[o].req \in Req
    BY HolderInUse
  <1> HIDE DEF u
  <1>2. RequestBook(M, w, u)
    BY <1>0, <1>1 DEF Books, RequestBook
  <1> QED BY <1>1, <1>2 DEF Books, u

-----------------------------------------------------------------------------
BooksOf(a, w, q, S) == Books(a.workers, Range(a.free), Range(a.messages), w, q, S)

(* The inductive invariant of the accounts: tidy queues and balanced books. *)
Ledger == HeadInv /\ Tidy(app) /\ BooksOf(app, wkr, req, {})

LEMMA UnusedFresh == Unused \cap (app.workers \cup Range(app.pending)) = {}
  BY DEF Unused

LEMMA LedgerInit == Init => Ledger
  <1> SUFFICES ASSUME Init PROVE Ledger
    OBVIOUS
  <1>1. PICK c \in Conf : app \in wr_app_wkr_balance(wr_app_new(c, None), Pid)
    BY DEF Init
  <1> DEFINE n == wr_app_new(c, None)
  <1>2. Sound(n) /\ n.state # "NONE"
    BY NewAppSound
  <1>3. /\ n.workers = {} /\ n.free = <<>> /\ n.messages = <<>> /\ n.pending = <<>>
    BY DEF wr_app_new, NoApp
  <1> HIDE DEF n
  <1>4. Tidy(n)
    <2>1. QCount(n) = 0
      BY <1>3, FS_EmptySet DEF QCount
    <2> QED BY <1>3, <2>1, EmptyDistinct, PoolAssumption DEF Tidy
  <1>5. \E k : Grown(n, app, k, Pid)
    BY <1>1, <1>2, BalanceGrows DEF n
  <1>6. Tidy(app)
    BY <1>2, <1>3, <1>4, <1>5, GrownTidy, EmptyDistinct
  <1>7. app.workers = {} /\ app.free = <<>> /\ app.messages = <<>>
    BY <1>3, <1>5 DEF Grown, SameQueues
  <1>8. Books({}, {}, {}, wkr, req, {})
    <2>1. wkr \in [Pid -> WkrType] /\ req \in [Req -> ReqState]
      BY InitInv DEF HeadInv
    <2>2. (\A p \in Pid : wkr[p] = NoWkr) /\ (\A r \in Req : req[r] = "done")
      BY DEF Init
    <2> QED BY <2>1, <2>2, NoWkrIdle DEF Books, WorkerBook, RequestBook
  <1> QED BY <1>6, <1>7, <1>8, EmptyDistinct, InitInv DEF Ledger, BooksOf

(* Steps that leave the workers, their queue, the requests and their queue. *)
LEMMA KeptLedger ==
  ASSUME Ledger, HeadInv', Tidy(app'), SameQueues(app, app'), wkr' = wkr, req' = req
  PROVE  Ledger'
  BY DEF Ledger, SameQueues, BooksOf

LEMMA HeadersLedger ==
  ASSUME Ledger, NEW r \in Req, ReqHeaders(r)
  PROVE  Ledger'
  <1>1. HeadInv' /\ app' = app /\ wkr' = wkr
    BY HeadersInv DEF Ledger, ReqHeaders
  <1>2. PICK e \in {"resolved", "error"} : req' = [req EXCEPT ![r] = e]
    BY DEF ReqHeaders
  <1>3. e \in ReqState \ {"busy", "aborted"} /\ e # "queued" /\ req[r] \notin {"busy", "aborted"}
        /\ req[r] # "queued"
    BY DEF ReqHeaders, ReqState
  <1>4. Books(app.workers, Range(app.free), Range(app.messages) \ {r}, wkr, req', {})
    BY <1>2, <1>3, Requeue DEF Ledger, BooksOf
  <1>5. Range(app.messages) \ {r} = Range(app.messages)
    BY <1>3 DEF Ledger, BooksOf, Books, RequestBook
  <1> QED BY <1>1, <1>4, <1>5 DEF Ledger, BooksOf

LEMMA CompleteLedger ==
  ASSUME Ledger, NEW r \in Req, ReqComplete(r)
  PROVE  Ledger'
  <1>1. HeadInv' /\ Running /\ Sound(app) /\ app \in AppType /\ Tidy(app)
    BY CompleteInv DEF Ledger, HeadInv, ReqComplete, Gone, Running, Sound
  <1>2. /\ req[r] = "resolved" /\ r \notin Range(app.messages)
        /\ app.messages \in Seq(Req) /\ app.free \in Seq(Pid) /\ Len(app.messages) \in Nat
    BY <1>1 DEF ReqComplete, Ledger, BooksOf, Books, RequestBook, AppType
  <1>3. CASE Len(app.messages) >= MsgQueueSize
    <2>1. req' = [req EXCEPT ![r] = "error"] /\ app' = app /\ wkr' = wkr
      BY <1>3 DEF ReqComplete
    <2>2. Books(app.workers, Range(app.free), Range(app.messages) \ {r}, wkr, req', {})
      BY <1>2, <2>1, Requeue DEF Ledger, BooksOf, ReqState
    <2>3. Range(app.messages) \ {r} = Range(app.messages)
      BY <1>2
    <2> QED BY <1>1, <2>1, <2>2, <2>3 DEF Ledger, BooksOf
  <1>4. CASE ~(Len(app.messages) >= MsgQueueSize)
    <2> DEFINE m == [app EXCEPT !.messages = Append(@, r)]
               a == wr_app_chk_load_to_add_wkr(m)
               q == [req EXCEPT ![r] = "queued"]
    <2>0. Append(app.messages, r) \in Seq(Req)
      BY <1>2
    <2>1. m \in AppType
      BY <1>1, <2>0 DEF AppType
    <2>2. a \in AppType /\ (a = m \/ \E t \in BOOLEAN : a = [m EXCEPT !.tAdd = t])
      BY <2>1, ChkAddSound
    <2>3. /\ a.state = app.state /\ a.conf = app.conf /\ a.new = app.new
          /\ a.pending = app.pending /\ a.workers = app.workers /\ a.free = app.free
          /\ a.messages = Append(app.messages, r)
      BY <1>1, <2>2 DEF AppType
    <2> HIDE DEF a, m
    <2>4. /\ Range(a.messages) = Range(app.messages) \cup {r} /\ IsInjective(a.messages)
          /\ Len(a.messages) <= MsgQueueSize /\ a.messages \in Seq(Req) /\ a.messages # <<>>
      <3>1. /\ Range(a.messages) = Range(app.messages) \cup {r}
            /\ IsInjective(a.messages)
        BY <1>1, <1>2, <2>3, AppendDistinct DEF Tidy
      <3>2. Len(a.messages) = Len(app.messages) + 1 /\ a.messages # <<>>
        BY <1>2, <2>3
      <3> QED BY <1>2, <1>4, <2>0, <2>3, <3>1, <3>2, PoolAssumption
    <2>5. Tidy(a)
      BY <1>1, <2>3, <2>4 DEF Tidy, QCount
    <2>6. Books(a.workers, Range(a.free), Range(a.messages), wkr, q, {})
      <3>1. "queued" \in ReqState \ {"busy", "aborted"} /\ req[r] \notin {"busy", "aborted"}
        BY <1>2 DEF ReqState
      <3>2. Books(app.workers, Range(app.free), Range(app.messages) \cup {r}, wkr, q, {})
        BY <3>1, Requeue DEF Ledger, BooksOf
      <3> QED BY <2>3, <2>4, <3>2
    <2>7. CASE Dispatch(a)
      <3> DEFINE p == Head(a.free)
                 h == Head(a.messages)
      <3>1. /\ app' = [a EXCEPT !.messages = Tail(@), !.free = Tail(@)]
            /\ wkr' = [wkr EXCEPT ![p] = Serving(wkr[p], h)]
            /\ req' = [q EXCEPT ![h] = "busy"]
        BY <1>4, <2>7 DEF ReqComplete, a, m
      <3>2. /\ a.free # <<>> /\ a.free \in Seq(Pid)
        BY <1>2, <2>3, <2>7 DEF Dispatch
      <3>3. /\ p \in Range(a.free) /\ Range(Tail(a.free)) = Range(a.free) \ {p}
            /\ IsInjective(Tail(a.free)) /\ p \in Pid
        BY <2>5, <3>2, TailDistinct DEF Tidy
      <3>4. /\ h \in Range(a.messages) /\ Range(Tail(a.messages)) = Range(a.messages) \ {h}
            /\ IsInjective(Tail(a.messages)) /\ Len(Tail(a.messages)) = Len(a.messages) - 1
        BY <2>4, TailDistinct
      <3> HIDE DEF p, h
      <3>5. /\ app'.workers = a.workers /\ app'.free = Tail(a.free) /\ app'.pending = a.pending
            /\ app'.messages = Tail(a.messages)
        BY <2>2, <3>1 DEF AppType
      <3>6. Len(app'.messages) <= MsgQueueSize
        BY <2>4, <3>4, <3>5, PoolAssumption
      <3>7. Tidy(app')
        BY <2>5, <3>3, <3>4, <3>5, <3>6 DEF Tidy, QCount
      <3>8. Books(a.workers, Range(a.free) \ {p}, Range(a.messages), wkr, q, {p})
        BY <2>6, <3>3, TakeFree
      <3>9. Books(a.workers, Range(a.free) \ {p}, Range(a.messages) \ {h}, wkr', req', {})
        BY <3>1, <3>3, <3>4, <3>8, HandOut
      <3> QED BY <1>1, <3>3, <3>4, <3>5, <3>7, <3>9 DEF Ledger, BooksOf
    <2>8. CASE ~Dispatch(a)
      <3>1. app' = a /\ req' = q /\ wkr' = wkr
        BY <1>4, <2>8 DEF ReqComplete, a, m
      <3> QED BY <1>1, <2>5, <2>6, <3>1 DEF Ledger, BooksOf
    <2> QED BY <2>7, <2>8
  <1> QED BY <1>3, <1>4

LEMMA AbortLedger ==
  ASSUME Ledger, NEW r \in Req, ReqAbort(r)
  PROVE  Ledger'
  <1>1. HeadInv' /\ wkr' = wkr /\ Sound(app) /\ Tidy(app)
    BY AbortInv DEF Ledger, HeadInv, ReqAbort
  <1>2. CASE /\ req[r] \in {"resolved", "queued"} /\ app' = Unqueue(r)
             /\ req' = [req EXCEPT ![r] = "error"]
    <2> DEFINE m == wr_queue_remove(app.messages, r)
    <2>1. app.messages \in Seq(Req) /\ Len(app.messages) \in Nat
      BY <1>1 DEF Sound, AppType
    <2>2. /\ IsInjective(m) /\ Range(m) = Range(app.messages) \ {r}
          /\ Len(m) <= Len(app.messages) /\ m \in Seq(Req)
      BY <1>1, <2>1, RemoveDistinct, RemoveType DEF Tidy
    <2>3. app' = [app EXCEPT !.messages = m]
      BY <1>2 DEF Unqueue
    <2> HIDE DEF m
    <2>4. /\ app'.messages = m /\ app'.workers = app.workers /\ app'.free = app.free
          /\ app'.pending = app.pending
      BY <1>1, <2>3 DEF Sound, AppType
    <2>5. Len(m) <= MsgQueueSize
      BY <1>1, <2>1, <2>2, PoolAssumption DEF Tidy
    <2>6. Tidy(app')
      BY <1>1, <2>2, <2>4, <2>5 DEF Tidy, QCount
    <2>7. Books(app.workers, Range(app.free), Range(app.messages) \ {r}, wkr, req', {})
      BY <1>2, Requeue DEF Ledger, BooksOf, ReqState
    <2> QED BY <1>1, <2>2, <2>4, <2>6, <2>7 DEF Ledger, BooksOf
  <1>3. CASE req[r] = "busy" /\ app' = app /\ req' = [req EXCEPT ![r] = "aborted"]
    BY <1>1, <1>3, AbortBusy DEF Ledger, BooksOf
  <1> QED BY <1>2, <1>3 DEF ReqAbort

(* Steps that change one worker and leave it its request. *)
LEMMA OneLedger ==
  ASSUME Ledger, HeadInv', Tidy(app'), SameQueues(app, app'), req' = req,
         NEW p \in Pid, wkr[p] # NoWkr, NEW x \in WkrType,
         wkr' = [wkr EXCEPT ![p] = x], x.req = wkr[p].req,
         Idle(wkr[p]) => Idle(x), InUse(wkr[p]) => InUse(x)
  PROVE  Ledger'
  <1>1. wkr' \in [Pid -> WkrType] /\ wkr'[p] = x /\ (\A o \in Pid : o # p => wkr'[o] = wkr[o])
    BY DEF Ledger, HeadInv
  <1>2. p \in app.workers
    BY DEF Ledger, BooksOf, Books, WorkerBook
  <1>3. Books(app.workers \ {}, Range(app.free) \ {}, Range(app.messages), wkr', req, {})
    BY <1>1, <1>2, Retouch DEF Ledger, BooksOf
  <1> QED BY <1>3 DEF Ledger, BooksOf, SameQueues

LEMMA SentLedger ==
  ASSUME Ledger, NEW p \in Pid, ReqSent(p) \/ RespChunk(p)
  PROVE  Ledger'
  <1>1. HeadInv' /\ app' = app /\ req' = req /\ wkr[p] \in WkrType /\ wkr[p] # NoWkr
        /\ ~Idle(wkr[p])
    BY SentInv DEF Ledger, ReqSent, RespChunk, NoWkr, HeadInv, Idle
  <1>2. PICK ph \in {"wait", "body"} : wkr' = [wkr EXCEPT ![p] = [Watched(wkr[p]) EXCEPT !.phase = ph]]
    BY DEF ReqSent, RespChunk
  <1> DEFINE x == [Watched(wkr[p]) EXCEPT !.phase = ph]
  <1>3. x \in WkrType
    BY <1>1, WatchedType
  <1>4. /\ x.req = wkr[p].req /\ x.phase = ph /\ x.tWait = TRUE
        /\ x.state = IF wkr[p].state \in {"INACTIVE", "PINGING"} THEN "ACTIVE" ELSE wkr[p].state
    BY <1>1 DEF Watched, WkrType
  <1> HIDE DEF x
  <1>5. InUse(wkr[p]) => InUse(x)
    BY <1>4 DEF InUse
  <1>6. SameQueues(app, app')
    BY <1>1 DEF SameQueues
  <1> QED BY <1>1, <1>2, <1>3, <1>4, <1>5, <1>6, OneLedger DEF Ledger, x

LEMMA PingReplyLedger ==
  ASSUME Ledger, NEW p \in Pid, PingReply(p)
  PROVE  Ledger'
  <1>1. HeadInv' /\ app' = app /\ req' = req /\ wkr[p] \in WkrType /\ wkr[p] # NoWkr
        /\ wkr' = [wkr EXCEPT ![p] = Ponged(wkr[p])]
    <2>1. HeadInv' /\ wkr[p] \in WkrType /\ wkr[p].pinged
      BY PingReplyInv DEF Ledger, PingReply, HeadInv
    <2>2. NoWkr.pinged = FALSE
      BY DEF NoWkr
    <2> QED BY <2>1, <2>2 DEF PingReply
  <1> DEFINE x == Ponged(wkr[p])
  <1>2. x \in WkrType
    BY <1>1, PongedType
  <1>3. /\ x.req = wkr[p].req /\ x.phase = wkr[p].phase
        /\ x.tWait = (wkr[p].tWait \/ wkr[p].state = "PINGING")
        /\ x.state = IF wkr[p].state = "PINGING" THEN "ACTIVE" ELSE wkr[p].state
    BY <1>1 DEF Ponged, WkrType
  <1> HIDE DEF x
  <1>4. (InUse(wkr[p]) => InUse(x)) /\ (Idle(wkr[p]) => Idle(x))
    BY <1>3 DEF InUse, Idle
  <1>5. SameQueues(app, app')
    BY <1>1 DEF SameQueues
  <1> QED BY <1>1, <1>2, <1>3, <1>4, <1>5, OneLedger DEF Ledger, x

(* The application after a worker is freed and, perhaps, others are forked. *)
LEMMA FreedTidy ==
  ASSUME Ledger, Running, NEW p \in Pid, NEW b,
         \/ b = wr_wkr_free(app, p)
         \/ b \in wr_app_wkr_balance(wr_wkr_free(app, p), Unused)
  PROVE  /\ Tidy(b) /\ b.workers = app.workers \ {p}
         /\ Range(b.free) = Range(app.free) \ {p} /\ b.messages = app.messages
  <1> DEFINE a == wr_wkr_free(app, p)
  <1>1. /\ Tidy(a) /\ a.workers = app.workers \ {p}
        /\ Range(a.free) = Range(app.free) \ {p} /\ a.messages = app.messages
        /\ a.pending = app.pending
    BY WkrFreeEffect DEF Ledger, HeadInv
  <1>2. Sound(a) /\ a.state # "NONE"
    BY WkrFreeSound DEF Ledger, HeadInv, Running
  <1> HIDE DEF a
  <1>3. CASE b = a
    BY <1>1, <1>3
  <1>4. CASE b \in wr_app_wkr_balance(a, Unused)
    <2>1. PICK k : Grown(a, b, k, Unused)
      BY <1>2, <1>4, BalanceGrows, UnusedType
    <2>2. Unused \cap (a.workers \cup Range(a.pending)) = {}
      BY <1>1, UnusedFresh
    <2>3. Tidy(b)
      BY <1>1, <1>2, <2>1, <2>2, GrownTidy, UnusedType
    <2> QED BY <1>1, <2>1, <2>3 DEF Grown, SameQueues
  <1> QED BY <1>3, <1>4 DEF a

LEMMA LossLedger ==
  ASSUME Ledger, Running, HeadInv', NEW p \in Pid, FreeWorker(p),
         \/ app' = wr_wkr_free(app, p)
         \/ app' \in wr_app_wkr_balance(wr_wkr_free(app, p), Unused)
  PROVE  Ledger'
  <1>1. /\ Tidy(app') /\ app'.workers = app.workers \ {p}
        /\ Range(app'.free) = Range(app.free) \ {p} /\ app'.messages = app.messages
    BY FreedTidy
  <1>2. /\ wkr' = [wkr EXCEPT ![p] = NoWkr]
        /\ \A r \in Req : IF wkr[p].req = r THEN req'[r] \in {"done", "error"}
                          ELSE req'[r] = req[r]
    BY DEF FreeWorker
  <1>3. Books(app.workers \ {p}, Range(app.free) \ {p}, Range(app.messages), wkr', req', {})
    BY <1>2, Loss DEF Ledger, BooksOf, HeadInv
  <1> QED BY <1>1, <1>3 DEF Ledger, BooksOf

LEMMA RespDoneLedger ==
  ASSUME Ledger, NEW p \in Pid, RespDone(p)
  PROVE  Ledger'
  <1>1. HeadInv' /\ Running /\ Sound(app) /\ Tidy(app)
    BY RespDoneInv, AliveRunning DEF RespDone, NoWkr, Ledger, HeadInv
  <1>2. /\ wkr[p].req # None /\ p \in app.workers /\ p \notin Range(app.free)
        /\ req \in [Req -> ReqState] /\ wkr[p].req \in Req
    <2>1. wkr[p].phase # "idle"
      BY DEF RespDone
    <2>2. wkr[p].req # None
      BY <2>1, NoWkrIdle DEF Ledger, BooksOf, Books, WorkerBook, Idle, InUse
    <2> QED BY <2>2, HolderInUse DEF Ledger, BooksOf, HeadInv
  <1>3. PICK e \in {"done", "error"} :
          [req EXCEPT ![wkr[p].req] = IF @ = "aborted" THEN "error" ELSE "done"]
            = [req EXCEPT ![wkr[p].req] = e]
    <2>1. CASE req[wkr[p].req] = "aborted"
      BY <2>1
    <2>2. CASE req[wkr[p].req] # "aborted"
      BY <2>2
    <2> QED BY <2>1, <2>2
  <1> DEFINE answered == [req EXCEPT ![wkr[p].req] = e]
             v == [wkr EXCEPT ![p] = Released(wkr[p])]
  <1>4. CASE wkr[p].state = "EXPIRED"
    <2>1. /\ app' = wr_wkr_free(app, p) /\ wkr' = [wkr EXCEPT ![p] = NoWkr] /\ req' = answered
      BY <1>3, <1>4 DEF RespDone
    <2>2. /\ Tidy(app') /\ app'.workers = app.workers \ {p}
          /\ Range(app'.free) = Range(app.free) \ {p} /\ app'.messages = app.messages
      BY <1>1, <2>1, FreedTidy
    <2>3. \A r \in Req : IF wkr[p].req = r THEN req'[r] \in {"done", "error"}
                         ELSE req'[r] = req[r]
      BY <1>2, <2>1
    <2>4. Books(app.workers \ {p}, Range(app.free) \ {p}, Range(app.messages), wkr', req', {})
      BY <1>1, <2>1, <2>3, Loss DEF Ledger, BooksOf, HeadInv
    <2> QED BY <1>1, <2>2, <2>4 DEF Ledger, BooksOf
  <1>5. CASE wkr[p].state # "EXPIRED"
    <2> DEFINE next == AllocReq(app)
    <2>1. /\ app' = wr_wrk_allocate(app, p)
          /\ IF next = None
               THEN wkr' = v /\ req' = answered
               ELSE /\ wkr' = [wkr EXCEPT ![p] = Serving(Released(wkr[p]), next)]
                    /\ req' = [answered EXCEPT ![next] = "busy"]
      BY <1>3, <1>5 DEF RespDone
    <2>2. Books(app.workers, Range(app.free), Range(app.messages), v, answered, {p})
      BY <1>2, TakeBack DEF Ledger, BooksOf
    <2>3. /\ Tidy(app') /\ app'.workers = app.workers
          /\ next = None => /\ Range(app'.free) = Range(app.free) \cup {p}
                            /\ Range(app.messages) = {} /\ Range(app'.messages) = {}
          /\ next # None => /\ app'.free = app.free /\ next \in Range(app.messages)
                            /\ Range(app'.messages) = Range(app.messages) \ {next}
      BY <1>1, <1>2, <2>1, AllocateEffect
    <2>4. wkr \in [Pid -> WkrType]
      BY DEF Ledger, HeadInv
    <2> HIDE DEF next, answered
    <2>5. CASE next = None
      <3>1. Books(app.workers, Range(app.free) \cup {p}, Range(app.messages), wkr', req', {})
        BY <2>1, <2>2, <2>5, PutAside
      <3> QED BY <1>1, <2>3, <2>5, <3>1 DEF Ledger, BooksOf
    <2>6. CASE next # None
      <3>1. v[p] = Released(wkr[p]) /\ wkr' = [v EXCEPT ![p] = Serving(v[p], next)]
        BY <2>1, <2>4, <2>6
      <3> HIDE DEF v
      <3>2. Books(app.workers, Range(app.free), Range(app.messages) \ {next}, wkr', req', {})
        <4>1. next \in Range(app.messages) /\ req' = [answered EXCEPT ![next] = "busy"]
          BY <2>1, <2>3, <2>6
        <4> QED BY <2>2, <3>1, <4>1, HandOut
      <3> QED BY <1>1, <2>3, <2>6, <3>2 DEF Ledger, BooksOf
    <2> QED BY <2>5, <2>6
  <1> QED BY <1>4, <1>5

LEMMA WorkerLostLedger ==
  ASSUME Ledger, NEW p \in Pid, RespError(p) \/ CtlClosed(p) \/ WaitTimeout(p)
  PROVE  Ledger'
  <1>1. HeadInv' /\ Running
    <2>1. HeadInv'
      BY RespErrorInv, CtlClosedInv, WaitTimeoutInv DEF Ledger
    <2>2. CASE RespError(p) \/ WaitTimeout(p)
      BY <2>1, <2>2, AliveRunning DEF RespError, WaitTimeout, NoWkr, Ledger
    <2>3. CASE CtlClosed(p)
      BY <2>1, <2>3 DEF CtlClosed, Ledger, HeadInv, Gone, Running, NoApp
    <2> QED BY <2>1, <2>2, <2>3
  <1>2. CASE RespError(p)
    BY <1>1, <1>2, LossLedger DEF RespError
  <1>3. CASE CtlClosed(p)
    <2>1. \/ app' = wr_wkr_free(app, p)
          \/ app' \in wr_app_wkr_balance(wr_wkr_free(app, p), Unused)
      BY <1>3 DEF CtlClosed, AfterLoss
    <2> QED BY <1>1, <1>3, <2>1, LossLedger DEF CtlClosed
  <1>4. CASE WaitTimeout(p)
    <2>1. CASE /\ MorePings(wkr[p])
               /\ wkr' = [wkr EXCEPT ![p] = Pinged(@)]
               /\ UNCHANGED <<app, req, proc, pconf>>
      <3> DEFINE x == Pinged(wkr[p])
      <3>1. wkr[p] \in WkrType /\ wkr[p].tWait = TRUE
        BY <1>4 DEF Ledger, HeadInv, WaitTimeout, WkrType
      <3>2. wkr[p].trials + 1 \in 0..PingTrials
        BY <2>1, <3>1, PoolAssumption DEF MorePings, WkrType
      <3>3. x \in WkrType
        BY <3>1, <3>2 DEF Pinged, WkrType, WkrState
      <3>4. x.req = wkr[p].req /\ x.phase = wkr[p].phase /\ x.tWait = TRUE /\ x.state = "PINGING"
        BY <3>1 DEF Pinged, WkrType
      <3>5. wkr[p] # NoWkr /\ ~Idle(wkr[p])
        BY <3>1, NoWkrIdle DEF Idle
      <3> HIDE DEF x
      <3>6. InUse(wkr[p]) => InUse(x)
        BY <3>1, <3>4 DEF InUse
      <3>7. SameQueues(app, app') /\ Tidy(app')
        BY <2>1 DEF SameQueues, Ledger
      <3> QED BY <1>1, <2>1, <3>3, <3>4, <3>5, <3>6, <3>7, OneLedger DEF x
    <2>2. CASE /\ app' \in wr_app_wkr_balance(wr_wkr_free(app, p), Unused)
               /\ FreeWorker(p) /\ Processes({p})
      BY <1>1, <2>2, LossLedger
    <2>3. CASE app' = wr_wkr_free(app, p) /\ FreeWorker(p) /\ Processes({p})
      BY <1>1, <2>3, LossLedger
    <2> QED BY <1>4, <2>1, <2>2, <2>3 DEF WaitTimeout
  <1> QED BY <1>2, <1>3, <1>4

-----------------------------------------------------------------------------
LEMMA StartingLedger ==
  ASSUME Ledger, NEW p \in Pid,
         \/ ConfReq(p) \/ Loaded(p) \/ WkrRejected(p)
         \/ LoadFailed(p) \/ BootDies(p) \/ Crash(p) \/ Hang(p)
  PROVE  Ledger'
  <1>1. HeadInv'
    BY ConfReqInv, QuietInv DEF Ledger
  <1>2. app' = app /\ wkr' = wkr /\ req' = req
    BY DEF ConfReq, Loaded, WkrRejected, LoadFailed, BootDies, Crash, Hang
  <1>3. SameQueues(app, app') /\ Tidy(app')
    BY <1>2 DEF SameQueues, Ledger
  <1> QED BY <1>1, <1>2, <1>3, KeptLedger

(* wr_app_wkr_insert: the pid is no longer pending, and a reload that this  *)
(* worker decides drops the free workers.                                   *)
LEMMA InsertedEffect ==
  ASSUME Ledger, Running, NEW p \in Range(app.pending)
  PROVE  LET b == Inserted(p)
         IN  /\ Tidy(b) /\ b.workers = app.workers \ Discarded
             /\ Range(b.free) = Range(app.free) \ Discarded /\ b.messages = app.messages
             /\ Range(b.pending) = Range(app.pending) \ {p}
             /\ Len(b.pending) = Len(app.pending) - 1
             /\ IF app.state = "RESTART"
                  THEN b.state = "RESTARTING" /\ b.conf = app.new /\ b.new = None
                  ELSE /\ b.conf = app.conf /\ b.new = app.new
                       /\ b.state = IF app.state = "NEW" THEN "ACTIVE" ELSE app.state
  <1> DEFINE e == wr_pending_worker_exist(app, p)
             a == Answered(e)
             b == Inserted(p)
  <1>1. /\ Tidy(e) /\ SameQueues(app, e) /\ Range(e.pending) = Range(app.pending) \ {p}
        /\ Len(e.pending) = Len(app.pending) - 1
        /\ e.state = app.state /\ e.conf = app.conf /\ e.new = app.new /\ Sound(e)
    BY PendingExistEffect, PendingExistSound DEF Ledger, HeadInv
  <1> HIDE DEF e
  <1>2. SamePool(e, a) /\ Sound(a) /\ Tidy(a)
    BY <1>1, AnsweredSame, AnsweredSound, SameTidy
  <1>3. b = CASE a.state = "RESTART" -> [wr_app_reload(a) EXCEPT !.ctl = None]
              [] a.state = "NEW"     -> [a EXCEPT !.state = "ACTIVE", !.ctl = None]
              [] OTHER               -> a
    BY DEF Inserted, e
  <1> HIDE DEF a, b
  <1>4. /\ a.workers = app.workers /\ a.free = app.free /\ a.messages = app.messages
        /\ Range(a.pending) = Range(app.pending) \ {p} /\ Len(a.pending) = Len(app.pending) - 1
        /\ a.state = app.state /\ a.conf = app.conf /\ a.new = app.new
    BY <1>1, <1>2 DEF SamePool, SameQueues
  <1>5. CASE app.state = "RESTART"
    <2> DEFINE c == wr_app_reload(a)
    <2>1. /\ Tidy(c) /\ c.workers = a.workers \ Range(a.free) /\ c.free = <<>>
          /\ c.messages = a.messages /\ c.pending = a.pending /\ c.conf = a.new /\ c.new = None
          /\ Sound(c) /\ c.state = "RESTARTING"
      BY <1>2, <1>4, <1>5, ReloadEffect, ReloadSound
    <2>2. b = [c EXCEPT !.ctl = None]
      BY <1>3, <1>4, <1>5
    <2> HIDE DEF c
    <2>3. SamePool(c, b)
      BY <2>1, <2>2 DEF SamePool, SameQueues, Sound, AppType
    <2>4. Tidy(b)
      BY <2>1, <2>3, SameTidy
    <2>5. Range(b.free) = {}
      BY <2>1, <2>3, EmptyDistinct DEF SamePool, SameQueues
    <2>6. Discarded = Range(app.free)
      BY <1>5 DEF Discarded
    <2> QED BY <1>4, <1>5, <2>1, <2>3, <2>4, <2>5, <2>6 DEF SamePool, SameQueues, b
  <1>6. CASE app.state # "RESTART"
    <2>1. Discarded = {}
      BY <1>6 DEF Discarded
    <2>2. CASE app.state = "NEW"
      <3>1. b = [a EXCEPT !.state = "ACTIVE", !.ctl = None]
        BY <1>3, <1>4, <2>2
      <3>2. /\ SameQueues(a, b) /\ b.pending = a.pending /\ b.conf = a.conf
            /\ b.new = a.new /\ b.state = "ACTIVE"
        BY <1>2, <3>1 DEF SameQueues, Sound, AppType
      <3>3. Tidy(b)
        BY <1>2, <3>2 DEF Tidy, SameQueues, QCount
      <3> QED BY <1>4, <2>1, <2>2, <3>2, <3>3 DEF SameQueues, b
    <2>3. CASE app.state # "NEW"
      <3>1. b = a
        BY <1>3, <1>4, <1>6, <2>3
      <3> QED BY <1>2, <1>4, <1>6, <2>1, <2>3, <3>1 DEF b
    <2> QED BY <2>2, <2>3
  <1> QED BY <1>5, <1>6

LEMMA ReloadedBooks ==
  ASSUME Ledger
  PROVE  Books(app.workers \ Discarded, Range(app.free) \ Discarded, Range(app.messages),
               Reloaded, req, {})
  <1> DEFINE v == Reloaded
  <1>1. v \in [Pid -> WkrType]
    BY ReloadedType DEF Ledger
  <1>2. Discarded \in SUBSET Range(app.free)
    BY DEF Discarded
  <1>3. \A q \in Pid :
          v[q] = IF q \in Discarded THEN NoWkr
                 ELSE IF app.state = "RESTART" /\ q \in app.workers
                   THEN [wkr[q] EXCEPT !.state = "EXPIRED"]
                 ELSE wkr[q]
    BY DEF Reloaded
  <1> HIDE DEF v
  <1>4. ASSUME NEW q \in Pid
        PROVE  /\ q \in Discarded => v[q] = NoWkr
               /\ q \notin app.workers => v[q] = wkr[q]
               /\ q \notin Discarded => /\ v[q].req = wkr[q].req
                                        /\ Idle(wkr[q]) => Idle(v[q])
                                        /\ InUse(wkr[q]) => InUse(v[q])
    <2>1. wkr[q] \in WkrType /\ Range(app.free) \subseteq app.workers
      BY DEF Ledger, HeadInv, Tidy
    <2>2. CASE app.state = "RESTART" /\ q \in app.workers /\ q \notin Discarded
      <3> DEFINE x == [wkr[q] EXCEPT !.state = "EXPIRED"]
      <3>1. /\ x.state = "EXPIRED" /\ x.req = wkr[q].req /\ x.phase = wkr[q].phase
            /\ x.tWait = wkr[q].tWait
        BY <2>1 DEF WkrType
      <3> HIDE DEF x
      <3>2. v[q] = x
        BY <1>3, <2>2 DEF x
      <3>3. InUse(wkr[q])
        BY <2>2 DEF Discarded, Ledger, BooksOf, Books, WorkerBook
      <3>4. ~Idle(wkr[q]) /\ InUse(x)
        BY <3>1, <3>3 DEF InUse, Idle
      <3> QED BY <2>2, <3>1, <3>2, <3>4
    <2>3. CASE ~(app.state = "RESTART" /\ q \in app.workers) /\ q \notin Discarded
      BY <1>3, <2>3
    <2>4. CASE q \in Discarded
      BY <1>2, <1>3, <2>1, <2>4
    <2> QED BY <2>2, <2>3, <2>4
  <1> QED BY <1>1, <1>2, <1>4, Retouch DEF Ledger, BooksOf, v

LEMMA WkrAddFailsLedger ==
  ASSUME Ledger, NEW p \in Pid, WkrAddFails(p)
  PROVE  Ledger'
  <1> DEFINE i == Inserted(p)
  <1>1. HeadInv' /\ Running /\ p \in Range(app.pending) /\ wkr' = Reloaded /\ req' = req
    BY WkrAddFailsInv DEF Ledger, WkrAddFails, Wanted
  <1>2. /\ Tidy(i) /\ i.workers = app.workers \ Discarded
        /\ Range(i.free) = Range(app.free) \ Discarded /\ i.messages = app.messages
    BY <1>1, InsertedEffect
  <1>3. Sound(i)
    BY <1>1, InsertedSound DEF Ledger
  <1>4. app' = [i EXCEPT !.high = TOTAL_WORKER_COUNT(i) * MaxReqRatio]
    BY DEF WkrAddFails
  <1> HIDE DEF i
  <1>5. SamePool(i, app')
    BY <1>3, <1>4 DEF SamePool, SameQueues, Sound, AppType
  <1>6. Tidy(app')
    BY <1>2, <1>5, SameTidy
  <1> QED BY <1>1, <1>2, <1>5, <1>6, ReloadedBooks DEF Ledger, BooksOf, SamePool, SameQueues

(* The application with the new worker registered, before it is allocated.  *)
LEMMA EnlistedEffect ==
  ASSUME Ledger, Running, NEW p \in Pid, p \in Range(app.pending), HasSlot(Inserted(p))
  PROVE  LET i == Inserted(p)
             a == [i EXCEPT !.workers = @ \cup {p}, !.low = (QCount(i) + 1) * MinReqRatio]
         IN  /\ Sound(a) /\ Tidy(a) /\ a.workers = i.workers \cup {p} /\ p \notin i.workers
             /\ a.free = i.free /\ a.messages = i.messages /\ a.pending = i.pending
             /\ a.state = i.state /\ a.conf = i.conf /\ a.new = i.new
             /\ QCount(a) = QCount(i) + 1 /\ QCount(i) \in Nat
  <1> DEFINE i == Inserted(p)
             a == [i EXCEPT !.workers = @ \cup {p}, !.low = (QCount(i) + 1) * MinReqRatio]
  <1>1. Sound(i) /\ i.state # "NONE"
    BY InsertedSound DEF Ledger
  <1>2. /\ Tidy(i) /\ i.workers = app.workers \ Discarded
        /\ Range(i.pending) = Range(app.pending) \ {p}
    BY InsertedEffect
  <1>3. QCount(i) \in Nat /\ IsFiniteSet(i.workers) /\ i.workers \subseteq Pid
    BY <1>1, WorkersFinite DEF Sound, AppType
  <1>4. (QCount(i) + 1) * MinReqRatio \in Nat
    BY <1>3, PoolAssumption
  <1>5. HasSlot(i)
    OBVIOUS
  <1> HIDE DEF i
  <1>6. a \in AppType
    BY <1>1, <1>4 DEF Sound, AppType
  <1>7. /\ a.workers = i.workers \cup {p} /\ a.free = i.free /\ a.messages = i.messages
        /\ a.pending = i.pending /\ a.state = i.state /\ a.conf = i.conf /\ a.new = i.new
        /\ a.counter = i.counter /\ a.tAddTimeout = i.tAddTimeout
    BY <1>1, <1>4 DEF Sound, AppType
  <1> HIDE DEF a
  <1>8. Sound(a)
    BY <1>1, <1>6, <1>7 DEF Sound
  <1>9. p \notin i.workers
    BY <1>2 DEF Ledger, Tidy
  <1>10. QCount(a) = QCount(i) + 1
    BY <1>3, <1>7, <1>9, FS_AddElement DEF QCount
  <1>11. QCount(a) <= WorkerMax + 1
    BY <1>3, <1>5, <1>10, PoolAssumption DEF HasSlot
  <1>12. Tidy(a)
    BY <1>2, <1>7, <1>11 DEF Tidy
  <1> QED BY <1>3, <1>7, <1>8, <1>9, <1>10, <1>12 DEF a, i

LEMMA WkrAddLedger ==
  ASSUME Ledger, NEW p \in Pid, WkrAdd(p)
  PROVE  Ledger'
  <1> DEFINE i == Inserted(p)
             a == [i EXCEPT !.workers = @ \cup {p}, !.low = (QCount(i) + 1) * MinReqRatio]
             b == wr_wrk_allocate(a, p)
             next == AllocReq(a)
             v == [Reloaded EXCEPT ![p] = [NoWkr EXCEPT !.state = "INACTIVE"]]
  <1>1. HeadInv' /\ Running /\ p \in Range(app.pending) /\ HasSlot(Inserted(p))
    BY WkrAddInv DEF Ledger, WkrAdd, Wanted
  <1>2. /\ app' \in wr_app_wkr_balance(b, Unused)
        /\ IF next = None
             THEN wkr' = v /\ req' = req
             ELSE /\ wkr' = [Reloaded EXCEPT ![p] = Serving(NoWkr, next)]
                  /\ req' = [req EXCEPT ![next] = "busy"]
    BY DEF WkrAdd
  <1>3. /\ Tidy(i) /\ i.workers = app.workers \ Discarded
        /\ Range(i.free) = Range(app.free) \ Discarded /\ i.messages = app.messages
        /\ Range(i.pending) = Range(app.pending) \ {p}
    BY <1>1, InsertedEffect
  <1>4. /\ Sound(a) /\ Tidy(a) /\ a.workers = i.workers \cup {p} /\ p \notin i.workers
        /\ a.free = i.free /\ a.messages = i.messages /\ a.pending = i.pending
        /\ a.state = i.state
    BY <1>1, EnlistedEffect
  <1>5. a.state # "NONE"
    BY <1>1, <1>4, InsertedSound DEF Ledger
  <1> HIDE DEF i, a
  <1>6. /\ Sound(b) /\ b.state # "NONE" /\ next \in Req \cup {None}
    BY <1>4, <1>5, AllocateSound
  <1>7. p \notin Range(a.free)
    BY <1>3, <1>4 DEF Tidy
  <1>8. /\ Tidy(b) /\ b.workers = a.workers /\ b.pending = a.pending
        /\ next = None => /\ Range(b.free) = Range(a.free) \cup {p}
                          /\ Range(a.messages) = {} /\ Range(b.messages) = {}
        /\ next # None => /\ b.free = a.free /\ next \in Range(a.messages)
                          /\ Range(b.messages) = Range(a.messages) \ {next}
    BY <1>4, <1>7, AllocateEffect
  <1> HIDE DEF next, b
  <1>9. /\ Tidy(app') /\ app'.workers = b.workers /\ app'.free = b.free
        /\ app'.messages = b.messages
    <2>1. PICK k : Grown(b, app', k, Unused)
      BY <1>2, <1>6, BalanceGrows, UnusedType
    <2>2. Unused \cap (b.workers \cup Range(b.pending)) = {}
      BY <1>1, <1>3, <1>4, <1>8, UnusedFresh
    <2>3. Tidy(app')
      BY <1>6, <1>8, <2>1, <2>2, GrownTidy, UnusedType
    <2> QED BY <2>1, <2>3 DEF Grown, SameQueues
  <1>10. Books(i.workers, Range(i.free), Range(i.messages), Reloaded, req, {})
    BY <1>3, ReloadedBooks
  <1>11. Books(a.workers, Range(a.free), Range(a.messages), v, req, {p})
    BY <1>4, <1>10, Enlist
  <1>12. CASE next = None
    <2>1. Books(a.workers, Range(a.free) \cup {p}, Range(a.messages), wkr', req', {})
      BY <1>2, <1>11, <1>12, PutAside
    <2> QED BY <1>1, <1>8, <1>9, <1>12, <2>1 DEF Ledger, BooksOf
  <1>13. CASE next # None
    <2>1. Reloaded \in [Pid -> WkrType] /\ next \in Range(a.messages)
          /\ req' = [req EXCEPT ![next] = "busy"]
      BY <1>2, <1>8, <1>13, ReloadedType DEF Ledger
    <2>2. Serving([NoWkr EXCEPT !.state = "INACTIVE"], next) = Serving(NoWkr, next)
      BY DEF Serving, NoWkr
    <2>3. wkr' = [v EXCEPT ![p] = Serving(v[p], next)]
      BY <1>2, <1>13, <2>1, <2>2
    <2> HIDE DEF v
    <2>4. Books(a.workers, Range(a.free), Range(a.messages) \ {next}, wkr', req', {})
      BY <1>11, <2>1, <2>3, HandOut
    <2> QED BY <1>1, <1>8, <1>9, <1>13, <2>4 DEF Ledger, BooksOf
  <1> QED BY <1>12, <1>13

-----------------------------------------------------------------------------
(* wr_app_free empties both books. *)
LEMMA RemoveAppLedger ==
  ASSUME Ledger, HeadInv', NEW ks, RemoveApp(ks)
  PROVE  Ledger'
  <1>1. /\ app'.workers = {} /\ app'.free = <<>> /\ app'.messages = <<>> /\ app'.pending = <<>>
    BY DEF RemoveApp, NoApp
  <1>2. QCount(app') = 0
    BY <1>1, FS_EmptySet DEF QCount
  <1>3. Tidy(app')
    BY <1>1, <1>2, EmptyDistinct, PoolAssumption DEF Tidy
  <1>4. \A p \in Pid : wkr'[p] = NoWkr
    BY DEF RemoveApp
  <1>5. \A r \in Req : req'[r] \notin {"queued", "busy", "aborted"}
    BY DEF RemoveApp
  <1>6. Books({}, {}, {}, wkr', req', {})
    BY <1>4, <1>5, NoWkrIdle DEF Books, WorkerBook, RequestBook, HeadInv
  <1> QED BY <1>1, <1>3, <1>6, EmptyDistinct DEF Ledger, BooksOf

LEMMA TimedOutEffect ==
  ASSUME Sound(app), Tidy(app), app.counter + 1 <= AddTrials, app.tAddTimeout
  PROVE  /\ Tidy(TimedOut) /\ SameQueues(app, TimedOut)
         /\ Range(TimedOut.pending) \subseteq Range(app.pending)
         /\ Len(TimedOut.pending) <= Len(app.pending)
         /\ TimedOut.state = app.state /\ TimedOut.conf = app.conf /\ TimedOut.new = app.new
  <1>0. app.pending \in Seq(Pid) /\ Len(app.pending) \in Nat
    BY DEF Sound, AppType
  <1>1. PICK s \in Seq(Pid) :
          /\ TimedOut.pending = s /\ SameQueues(app, TimedOut)
          /\ TimedOut.state = app.state /\ TimedOut.conf = app.conf /\ TimedOut.new = app.new
          /\ s = <<>> \/ (app.pending # <<>> /\ s = Tail(app.pending))
    <2>1. CASE app.counter + 1 = AddTrials
      <3>1. TimedOut = KillAll([app EXCEPT !.counter = @ + 2, !.tAddTimeout = TRUE])
        BY <2>1 DEF TimedOut
      <3> QED BY <3>1 DEF KillAll, SameQueues, Sound, AppType
    <2>2. CASE app.counter + 1 # AddTrials
      <3> DEFINE a == [app EXCEPT !.counter = @ + 1]
                 b == KillFirst(a)
                 s == IF a.pending = <<>> THEN <<>> ELSE Tail(a.pending)
      <3>1. TimedOut = [b EXCEPT !.tAddTimeout = b.pending # <<>>]
        BY <2>2 DEF TimedOut
      <3>2. b = [a EXCEPT !.pending = s, !.high = (Len(s) + QCount(a)) * MaxReqRatio]
        BY DEF KillFirst
      <3>3. a.pending = app.pending /\ s \in Seq(Pid)
        BY <1>0 DEF Sound, AppType
      <3>4. /\ b.pending = s /\ SameQueues(app, b) /\ b.state = app.state
            /\ b.conf = app.conf /\ b.new = app.new
        BY <3>2 DEF SameQueues, Sound, AppType
      <3>5. /\ TimedOut.pending = b.pending /\ SameQueues(b, TimedOut)
            /\ TimedOut.state = b.state /\ TimedOut.conf = b.conf /\ TimedOut.new = b.new
        <4> HIDE DEF b
        <4>1. b = [a EXCEPT !.pending = s, !.high = (Len(s) + QCount(a)) * MaxReqRatio]
          BY <3>2
        <4> QED BY <3>1, <4>1 DEF SameQueues, Sound, AppType
      <3>6. s = <<>> \/ (app.pending # <<>> /\ s = Tail(app.pending))
        BY <3>3
      <3> HIDE DEF a, b, s
      <3> QED BY <3>3, <3>4, <3>5, <3>6 DEF SameQueues
    <2> QED BY <2>1, <2>2
  <1>2. IsInjective(s) /\ Range(s) \subseteq Range(app.pending) /\ Len(s) <= Len(app.pending)
    <2>1. CASE s = <<>>
      BY <1>0, <2>1, EmptyDistinct
    <2>2. CASE app.pending # <<>> /\ s = Tail(app.pending)
      <3>1. /\ IsInjective(Tail(app.pending)) /\ Range(Tail(app.pending)) \subseteq Range(app.pending)
            /\ Len(Tail(app.pending)) = Len(app.pending) - 1
        BY <1>0, <2>2, TailDistinct DEF Tidy
      <3> QED BY <1>0, <2>2, <3>1
    <2> QED BY <1>1, <2>1, <2>2
  <1>3. Len(s) <= PendingCap
    BY <1>0, <1>2, PoolAssumption DEF Tidy
  <1>4. Tidy(TimedOut)
    BY <1>1, <1>2, <1>3 DEF Tidy, SameQueues, QCount
  <1> QED BY <1>1, <1>2, <1>4

LEMMA WkrErrorLedger ==
  ASSUME Ledger, NEW p \in Pid, WkrError(p)
  PROVE  Ledger'
  <1>1. HeadInv' /\ Sound(app) /\ Tidy(app)
    BY WkrErrorInv DEF Ledger, HeadInv
  <1>2. CASE /\ app.state = "RESTART" /\ app' = ErrorSent(SettleRestart(app))
             /\ UNCHANGED <<wkr, req, ctlApp>>
    <2> DEFINE s == SettleRestart(app)
    <2>1. Sound(s) /\ SameQueues(app, s) /\ s.pending = app.pending
      BY <1>1, <1>2, SettleSound, SettleEffect
    <2>2. SamePool(s, app')
      BY <1>2, <2>1, ErrorSentSame
    <2> HIDE DEF s
    <2>3. SameQueues(app, app') /\ app'.pending = app.pending
      BY <2>1, <2>2 DEF SamePool, SameQueues
    <2>4. Tidy(app')
      BY <1>1, <2>3 DEF Tidy, SameQueues, QCount
    <2> QED BY <1>1, <1>2, <2>3, <2>4, KeptLedger
  <1>3. CASE RemoveApp({p})
    BY <1>1, <1>3, RemoveAppLedger
  <1>4. CASE /\ app' = IF Running THEN Answered(wr_pending_worker_exist(app, p)) ELSE app
             /\ UNCHANGED <<wkr, req, admin, ctlApp>>
    <2> DEFINE e == wr_pending_worker_exist(app, p)
    <2>1. Tidy(e) /\ SameQueues(app, e) /\ Sound(e)
      BY <1>1, PendingExistEffect, PendingExistSound
    <2> HIDE DEF e
    <2>2. SamePool(e, Answered(e))
      BY <2>1, AnsweredSame
    <2>3. app' = Answered(e) \/ app' = app
      BY <1>4 DEF e
    <2>4. Tidy(app') /\ SameQueues(app, app')
      BY <1>1, <2>1, <2>2, <2>3, SameTidy DEF SamePool, SameQueues
    <2> QED BY <1>1, <1>4, <2>4, KeptLedger
  <1> QED BY <1>2, <1>3, <1>4 DEF WkrError

LEMMA WaitOverLedger ==
  ASSUME Ledger, WaitOver
  PROVE  Ledger'
  <1>1. HeadInv' /\ Sound(app) /\ Tidy(app)
    BY WaitOverInv DEF Ledger, HeadInv
  <1>2. SamePool(app, app') /\ wkr' = wkr /\ req' = req
    BY <1>1 DEF WaitOver, SamePool, SameQueues, Sound, AppType
  <1> QED BY <1>1, <1>2, SameTidy, KeptLedger DEF SamePool

LEMMA AddTimeoutLedger ==
  ASSUME Ledger, AddTimeout
  PROVE  Ledger'
  <1>1. HeadInv' /\ Sound(app) /\ Tidy(app)
    BY AddTimeoutInv DEF Ledger, HeadInv
  <1>2. /\ Tidy(TimedOut) /\ SameQueues(app, TimedOut)
        /\ Range(TimedOut.pending) \subseteq Range(app.pending)
        /\ TimedOut.state = app.state /\ Sound(TimedOut)
    BY <1>1, TimedOutEffect, TimedOutSound DEF AddTimeout
  <1>3. CASE app.state = "RESTART" /\ app' = ErrorSent(SettleRestart(TimedOut))
             /\ UNCHANGED <<wkr, req, ctlApp>>
    <2> DEFINE s == SettleRestart(TimedOut)
    <2>1. Sound(s) /\ SameQueues(TimedOut, s) /\ s.pending = TimedOut.pending
      BY <1>2, <1>3, SettleSound, SettleEffect
    <2>2. SamePool(s, app')
      BY <1>3, <2>1, ErrorSentSame
    <2> HIDE DEF s
    <2>3. SameQueues(TimedOut, app') /\ app'.pending = TimedOut.pending
      BY <2>1, <2>2 DEF SamePool, SameQueues
    <2>4. Tidy(app') /\ SameQueues(app, app')
      BY <1>2, <2>3 DEF Tidy, SameQueues, QCount
    <2> QED BY <1>1, <1>3, <2>4, KeptLedger
  <1>4. CASE RemoveApp(Killed)
    BY <1>1, <1>4, RemoveAppLedger
  <1>5. CASE /\ app.state \in {"NEW", "ACTIVE", "RESTARTING"}
             /\ app' = TimedOut \/ app' \in wr_app_wkr_balance(TimedOut, Unused)
             /\ UNCHANGED <<wkr, req, admin, ctlApp>>
    <2>1. Tidy(app') /\ SameQueues(app, app')
      <3>1. CASE app' = TimedOut
        BY <1>2, <3>1
      <3>2. CASE app' \in wr_app_wkr_balance(TimedOut, Unused)
        <4>1. PICK k : Grown(TimedOut, app', k, Unused)
          BY <1>2, <1>5, <3>2, BalanceGrows, UnusedType
        <4>2. Unused \cap (TimedOut.workers \cup Range(TimedOut.pending)) = {}
          BY <1>2, UnusedFresh DEF SameQueues
        <4>3. Tidy(app')
          BY <1>2, <4>1, <4>2, GrownTidy, UnusedType
        <4> QED BY <1>2, <4>1, <4>3 DEF Grown, SameQueues
      <3> QED BY <1>5, <3>1, <3>2
    <2> QED BY <1>1, <1>5, <2>1, KeptLedger
  <1> QED BY <1>3, <1>4, <1>5 DEF AddTimeout

LEMMA AddCbLedger ==
  ASSUME Ledger, AddCb
  PROVE  Ledger'
  <1> DEFINE a == [app EXCEPT !.tAdd = FALSE]
  <1>1. HeadInv' /\ Sound(app) /\ Tidy(app) /\ wkr' = wkr /\ req' = req
    BY AddCbInv DEF Ledger, HeadInv, AddCb
  <1>2. Sound(a) /\ SamePool(app, a)
    BY <1>1 DEF Sound, AppType, SamePool, SameQueues
  <1>3. app' \in wr_app_wkr_add(a, Unused) \/ app' = a
    BY DEF AddCb
  <1> HIDE DEF a
  <1>4. Tidy(a)
    BY <1>1, <1>2, SameTidy
  <1>5. CASE app' \in wr_app_wkr_add(a, Unused)
    <2>1. Grown(a, app', 1, Unused)
      BY <1>2, <1>5, WkrAddGrows, UnusedType
    <2>2. Unused \cap (a.workers \cup Range(a.pending)) = {}
      BY <1>2, UnusedFresh DEF SamePool, SameQueues
    <2>3. Tidy(app')
      BY <1>2, <1>4, <2>1, <2>2, GrownTidy, UnusedType
    <2>4. SameQueues(app, app')
      BY <1>2, <2>1 DEF Grown, SamePool, SameQueues
    <2> QED BY <1>1, <2>3, <2>4, KeptLedger
  <1>6. CASE app' = a
    BY <1>1, <1>2, <1>4, <1>6, KeptLedger DEF SamePool
  <1> QED BY <1>3, <1>5, <1>6

LEMMA RemoveCbLedger ==
  ASSUME Ledger, RemoveCb
  PROVE  Ledger'
  <1> DEFINE Again(n) == [app EXCEPT !.tRemove = n > MinWorker[app.conf]]
  <1>1. HeadInv' /\ Sound(app) /\ Tidy(app) /\ app.workers \subseteq Pid
    BY RemoveCbInv DEF Ledger, HeadInv, Sound, AppType
  <1>2. ASSUME NEW n PROVE Sound(Again(n)) /\ SamePool(app, Again(n)) /\ Tidy(Again(n))
    <2>1. (n > MinWorker[app.conf]) \in BOOLEAN
      OBVIOUS
    <2>2. Sound(Again(n)) /\ SamePool(app, Again(n))
      BY <1>1, <2>1 DEF Sound, AppType, SamePool, SameQueues
    <2> QED BY <1>1, <2>2, SameTidy
  <1> HIDE DEF Again
  <1>3. ASSUME NEW p \in Pid, NEW n, app' = wr_wkr_free(Again(n), p), FreeWorker(p)
        PROVE  Ledger'
    <2>1. /\ Tidy(app') /\ app'.workers = Again(n).workers \ {p}
          /\ Range(app'.free) = Range(Again(n).free) \ {p}
          /\ app'.messages = Again(n).messages
      BY <1>2, <1>3, WkrFreeEffect
    <2>2. SameQueues(app, Again(n))
      BY <1>2 DEF SamePool
    <2>3. /\ wkr' = [wkr EXCEPT ![p] = NoWkr]
          /\ \A r \in Req : IF wkr[p].req = r THEN req'[r] \in {"done", "error"}
                            ELSE req'[r] = req[r]
      BY <1>3 DEF FreeWorker
    <2>4. Books(app.workers \ {p}, Range(app.free) \ {p}, Range(app.messages), wkr', req', {})
      BY <1>1, <2>3, Loss DEF Ledger, BooksOf, HeadInv
    <2> QED BY <1>1, <2>1, <2>2, <2>4 DEF Ledger, BooksOf, SameQueues
  <1>4. ASSUME NEW p \in app.workers, p \notin Range(app.free), NEW n, app' = Again(n),
               wkr' = [wkr EXCEPT ![p].state = "EXPIRED"], req' = req
        PROVE  Ledger'
    <2> DEFINE x == [wkr[p] EXCEPT !.state = "EXPIRED"]
    <2>1. wkr[p] \in WkrType /\ p \in Pid /\ InUse(wkr[p])
      BY <1>1, <1>4 DEF Ledger, HeadInv, BooksOf, Books, WorkerBook
    <2>2. wkr' = [wkr EXCEPT ![p] = x]
      BY <1>4, <2>1
    <2>3. x \in WkrType /\ x.req = wkr[p].req /\ x.state = "EXPIRED"
          /\ x.phase = wkr[p].phase /\ x.tWait = wkr[p].tWait
      BY <2>1 DEF WkrType, WkrState
    <2> HIDE DEF x
    <2>4. InUse(x) /\ ~Idle(wkr[p]) /\ wkr[p] # NoWkr
      BY <2>1, <2>3, NoWkrIdle DEF InUse, Idle
    <2>5. Tidy(app') /\ SameQueues(app, app')
      BY <1>2, <1>4 DEF SamePool
    <2> QED BY <1>1, <1>4, <2>1, <2>2, <2>3, <2>4, <2>5, OneLedger
  <1>5. ASSUME NEW n, app' = Again(n), wkr' = wkr, req' = req
        PROVE  Ledger'
    BY <1>1, <1>2, <1>5, KeptLedger DEF SamePool
  <1> QED BY <1>1, <1>3, <1>4, <1>5 DEF RemoveCb, Again

LEMMA AdminLedger ==
  ASSUME Ledger, NEW c \in Ctl, Admin(c)
  PROVE  Ledger'
  <1>1. HeadInv' /\ Sound(app) /\ Tidy(app)
    BY AdminInv DEF Ledger, HeadInv
  <1>2. ASSUME NEW l, Refused(c, l) PROVE Ledger'
    <2>1. app' = app /\ wkr' = wkr /\ req' = req
      BY <1>2 DEF Refused
    <2> QED BY <1>1, <2>1, KeptLedger DEF SameQueues
  <1>3. ASSUME NEW cf \in Conf, Insert(c, cf) PROVE Ledger'
    <2> DEFINE n == wr_app_new(cf, c)
    <2>1. Sound(n) /\ n.state # "NONE"
      BY NewAppSound
    <2>2. n.workers = {} /\ n.free = <<>> /\ n.messages = <<>> /\ n.pending = <<>>
      BY DEF wr_app_new, NoApp
    <2>3. app' \in wr_app_wkr_balance(n, Unused) /\ wkr' = wkr /\ req' = req /\ ~Running
      BY <1>3 DEF Insert
    <2> HIDE DEF n
    <2>4. app.workers = {} /\ app.free = <<>> /\ app.messages = <<>>
      BY <2>3 DEF Ledger, HeadInv, Gone, Running, NoApp
    <2>5. Tidy(n)
      <3>1. QCount(n) = 0
        BY <2>2, FS_EmptySet DEF QCount
      <3> QED BY <2>2, <3>1, EmptyDistinct, PoolAssumption DEF Tidy
    <2>6. PICK k : Grown(n, app', k, Unused)
      BY <2>1, <2>3, BalanceGrows, UnusedType
    <2>7. Tidy(app')
      BY <2>1, <2>2, <2>5, <2>6, GrownTidy, UnusedType, EmptyDistinct
    <2>8. SameQueues(app, app')
      BY <2>2, <2>4, <2>6 DEF Grown, SameQueues
    <2> QED BY <1>1, <2>3, <2>7, <2>8, KeptLedger
  <1>4. ASSUME NEW cf \in Conf, Running, UNCHANGED <<wkr, req>>,
               app' \in wr_app_wkr_add(Restarted(c, cf), Unused)
        PROVE  Ledger'
    <2> DEFINE a == Restarted(c, cf)
    <2>1. Sound(a)
      BY <1>1, <1>4, RestartedSound
    <2>2. SameQueues(app, a) /\ a.pending = <<>>
      BY <1>1 DEF Restarted, SameQueues, Sound, AppType
    <2> HIDE DEF a
    <2>3. Tidy(a)
      BY <1>1, <2>2, EmptyDistinct, PoolAssumption DEF Tidy, SameQueues, QCount
    <2>4. Grown(a, app', 1, Unused)
      BY <1>4, <2>1, WkrAddGrows, UnusedType DEF a
    <2>5. Unused \cap (a.workers \cup Range(a.pending)) = {}
      BY <2>2, UnusedFresh, EmptyDistinct DEF SameQueues
    <2>6. Tidy(app')
      BY <2>1, <2>3, <2>4, <2>5, GrownTidy, UnusedType
    <2>7. SameQueues(app, app')
      BY <2>2, <2>4 DEF Grown, SameQueues
    <2> QED BY <1>1, <1>4, <2>6, <2>7, KeptLedger
  <1>5. CASE wr_app_add_cb(c)
    BY <1>2, <1>3, <1>5 DEF wr_app_add_cb
  <1>6. CASE wr_app_reload_cb(c)
    BY <1>2, <1>3, <1>4, <1>6 DEF wr_app_reload_cb
  <1>7. CASE wr_app_remove_cb(c)
    BY <1>1, <1>2, <1>7, RemoveAppLedger DEF wr_app_remove_cb
  <1>8. CASE AdmClose(c)
    <2>1. app' = [app EXCEPT !.ctl = None] \/ app' = app
      BY <1>8 DEF AdmClose
    <2>2. SamePool(app, app') /\ wkr' = wkr /\ req' = req
      BY <1>1, <1>8, <2>1 DEF AdmClose, SamePool, SameQueues, Sound, AppType
    <2> QED BY <1>1, <2>2, SameTidy, KeptLedger DEF SamePool
  <1> QED BY <1>5, <1>6, <1>7, <1>8 DEF Admin

LEMMA LedgerStep == Ledger /\ [Next]_vars => Ledger'
  <1> SUFFICES ASSUME Ledger, [Next]_vars PROVE Ledger'
    OBVIOUS
  <1>1. ASSUME NEW r \in Req, Client(r) PROVE Ledger'
    BY <1>1, HeadersLedger, CompleteLedger, AbortLedger DEF Client
  <1>2. ASSUME NEW p \in Pid, Worker(p) PROVE Ledger'
    BY <1>2, SentLedger, RespDoneLedger, WorkerLostLedger, PingReplyLedger,
       StartingLedger, WkrAddLedger, WkrErrorLedger DEF Worker
  <1>3. ASSUME NEW p \in Pid, Failure(p) PROVE Ledger'
    BY <1>3, StartingLedger, WkrAddFailsLedger DEF Failure
  <1>4. CASE AppTimer
    BY <1>4, WaitOverLedger, AddTimeoutLedger, AddCbLedger, RemoveCbLedger DEF AppTimer
  <1>5. ASSUME NEW c \in Ctl, Admin(c) PROVE Ledger'
    BY <1>5, AdminLedger
  <1>6. CASE UNCHANGED vars
    <2>1. HeadInv'
      BY <1>6, StepInv DEF Ledger
    <2> QED BY <1>6, <2>1, KeptLedger DEF vars, SameQueues, Ledger
  <1> QED BY <1>1, <1>2, <1>3, <1>4, <1>5, <1>6 DEF Next

(* The inductive invariant of the accounts: after every callback the queues *)
(* of the application and the records of its workers and requests agree.    *)
THEOREM LedgerInvariant == Spec => []Ledger
  BY LedgerInit, LedgerStep, PTL DEF Spec

-----------------------------------------------------------------------------
(* In a sequence without repetitions an element is in one place. *)
LEMMA DistinctOnce ==
  ASSUME NEW S, NEW s \in Seq(S), IsInjective(s), NEW x \in Range(s)
  PROVE  OnceIn(x, s)
  <1>1. PICK i \in DOMAIN s : s[i] = x
    BY DEF Range
  <1>2. {j \in DOMAIN s : s[j] = x} = {i}
    BY <1>1 DEF IsInjective
  <1> QED BY <1>2, FS_Singleton DEF OnceIn

(* ... and it is no longer than the set its elements come from is large.    *)
LEMMA DistinctFits ==
  ASSUME NEW S, NEW s \in Seq(S), IsInjective(s), NEW T, IsFiniteSet(T),
         Range(s) \subseteq T
  PROVE  Len(s) <= Cardinality(T)
  <1>1. Len(s) \in Nat /\ DOMAIN s = 1..Len(s)
    OBVIOUS
  <1>2. s \in [1..Len(s) -> T]
    BY <1>1 DEF Range
  <1>3. s \in Injection(1..Len(s), T)
    BY <1>1, <1>2 DEF Injection, IsInjective
  <1>4. Cardinality(1..Len(s)) <= Cardinality(T)
    BY <1>3, FS_Injection
  <1>5. Cardinality(1..Len(s)) = Len(s)
    BY <1>1, FS_Interval
  <1> QED BY <1>4, <1>5

(* Every worker is free, once, or serves one request; every request the     *)
(* head has accepted is in q_messages, once, or with exactly one worker.    *)
THEOREM HeadAccounts == Spec => []Accounted
  <1>1. Ledger => WorkersAccounted
    <2> SUFFICES ASSUME Ledger PROVE WorkersAccounted
      OBVIOUS
    <2>1. app.free \in Seq(Pid) /\ IsInjective(app.free) /\ Range(app.free) \subseteq app.workers
      BY DEF Ledger, Tidy, HeadInv, Sound, AppType
    <2>2. \A p \in Range(app.free) : OnceIn(p, app.free)
      BY <2>1, DistinctOnce
    <2>3. WorkerBook(app.workers, Range(app.free), wkr, {})
      BY DEF Ledger, BooksOf, Books
    <2> QED BY <2>1, <2>2, <2>3 DEF WorkersAccounted, WorkerBook, Idle, InUse
  <1>2. Ledger => RequestsAccounted
    <2> SUFFICES ASSUME Ledger, NEW r \in Req
                 PROVE  LET holders == {p \in Pid : wkr[p].req = r}
                        IN  /\ IF req[r] = "queued" THEN OnceIn(r, app.messages)
                               ELSE r \notin Range(app.messages)
                            /\ Cardinality(holders) =
                                 IF req[r] \in {"busy", "aborted"} THEN 1 ELSE 0
      BY DEF RequestsAccounted
    <2> DEFINE holders == {p \in Pid : wkr[p].req = r}
    <2>1. app.messages \in Seq(Req) /\ IsInjective(app.messages) /\ r # None
      BY PoolAssumption DEF Ledger, Tidy, HeadInv, Sound, AppType
    <2>2. RequestBook(Range(app.messages), wkr, req)
      BY DEF Ledger, BooksOf, Books
    <2>3. IF req[r] = "queued" THEN OnceIn(r, app.messages) ELSE r \notin Range(app.messages)
      BY <2>1, <2>2, DistinctOnce DEF RequestBook
    <2>4. CASE req[r] \in {"busy", "aborted"}
      <3>1. PICK p \in Pid : wkr[p].req = r
        BY <2>2, <2>4 DEF RequestBook
      <3>2. holders = {p}
        BY <2>1, <2>2, <3>1 DEF RequestBook
      <3> QED BY <2>3, <2>4, <3>2, FS_Singleton
    <2>5. CASE req[r] \notin {"busy", "aborted"}
      <3>1. holders = {}
        BY <2>1, <2>2, <2>5 DEF RequestBook
      <3> QED BY <2>3, <2>5, <3>1, FS_EmptySet
    <2> QED BY <2>4, <2>5
  <1> QED BY <1>1, <1>2, LedgerInvariant, PTL DEF Accounted

(* From the moment a request has been sent until its response is complete   *)
(* the idle timer of the worker runs.                                       *)
THEOREM HeadWatchesSent == Spec => []SentWatched
  <1>1. Ledger => SentWatched
    BY NoWkrIdle DEF Ledger, BooksOf, Books, WorkerBook, Idle, InUse, SentWatched
  <1> QED BY <1>1, LedgerInvariant, PTL

(* No wr_queue_insert whose result the head does not look at finds its      *)
(* queue full: workers, free workers, pending workers and waiting requests  *)
(* never outnumber the slots wr_app_new gave them.                          *)
THEOREM HeadQueuesFit == Spec => []QueuesFit
  <1>1. Ledger => QueuesFit
    <2> SUFFICES ASSUME Ledger PROVE QueuesFit
      OBVIOUS
    <2>1. /\ app.free \in Seq(Pid) /\ IsFiniteSet(app.workers) /\ QCount(app) \in Nat
          /\ Len(app.free) \in Nat
      BY WorkersFinite DEF Ledger, HeadInv, Sound, AppType
    <2>2. Len(app.free) <= QCount(app)
      BY <2>1, DistinctFits DEF Ledger, Tidy, QCount
    <2>3. Len(app.free) <= WorkerMax + 1
      BY <2>1, <2>2, PoolAssumption DEF Ledger, Tidy
    <2> QED BY <2>3 DEF QueuesFit, Ledger, Tidy
  <1> QED BY <1>1, LedgerInvariant, PTL

-----------------------------------------------------------------------------
(* The moves WrReqLife allows a request, in terms of req. *)
Over == {"done", "error"}
Moves(x, y) ==
  \/ x = y
  \/ x \in Over /\ y \in Over \cup {"resolved"}
  \/ x = "resolved" /\ y \in Over \cup {"queued", "busy", "dangling"}
  \/ x = "queued" /\ y \in Over \cup {"busy"}
  \/ x = "busy" /\ y \in Over \cup {"aborted"}
  \/ x = "aborted" /\ y \in Over

LEMMA FreeMoves ==
  ASSUME Ledger, NEW p \in Pid, FreeWorker(p), NEW r \in Req
  PROVE  Moves(req[r], req'[r])
  <1>1. wkr[p].req = r => req[r] \in {"busy", "aborted"}
    BY PoolAssumption DEF Ledger, BooksOf, Books, RequestBook
  <1> QED BY <1>1 DEF FreeWorker, Moves, Over

LEMMA ClientMoves ==
  ASSUME Ledger, NEW o \in Req, Client(o), NEW r \in Req
  PROVE  Moves(req[r], req'[r])
  <1>0. req \in [Req -> ReqState]
    BY DEF Ledger, HeadInv
  <1>1. CASE ReqHeaders(o)
    BY <1>0, <1>1 DEF ReqHeaders, Moves, Over
  <1>2. CASE ReqAbort(o)
    BY <1>0, <1>2 DEF ReqAbort, Moves, Over
  <1>3. CASE ReqComplete(o)
    <2>1. CASE Len(app.messages) >= MsgQueueSize
      BY <1>0, <1>3, <2>1 DEF ReqComplete, Moves, Over
    <2>2. CASE ~(Len(app.messages) >= MsgQueueSize)
      <3> DEFINE m == [app EXCEPT !.messages = Append(@, o)]
                 a == wr_app_chk_load_to_add_wkr(m)
                 h == Head(a.messages)
      <3>1. app.messages \in Seq(Req) /\ app \in AppType
        BY DEF Ledger, HeadInv, Sound, AppType
      <3>2. Append(app.messages, o) \in Seq(Req) /\ Append(app.messages, o) # <<>>
        BY <3>1
      <3>3. m \in AppType /\ m.messages = Append(app.messages, o)
        BY <3>1, <3>2 DEF AppType
      <3>4. a.messages = Append(app.messages, o)
        BY <3>3, ChkAddSound DEF AppType
      <3>5. /\ req[o] = "resolved"
            /\ \/ req' = [req EXCEPT ![o] = "queued"]
               \/ req' = [[req EXCEPT ![o] = "queued"] EXCEPT ![h] = "busy"]
        BY <1>3, <2>2 DEF ReqComplete
      <3> HIDE DEF a, m
      <3>6. h \in Range(app.messages) \cup {o} /\ h \in Req
        BY <3>1, <3>2, <3>4, AppendDistinct, TailDistinct
      <3>7. h # o => req[h] = "queued"
        BY <3>6 DEF Ledger, BooksOf, Books, RequestBook
      <3> HIDE DEF h
      <3> QED BY <1>0, <3>5, <3>6, <3>7 DEF Moves, Over
    <2> QED BY <2>1, <2>2
  <1> QED BY <1>1, <1>2, <1>3 DEF Client

LEMMA RespDoneMoves ==
  ASSUME Ledger, NEW p \in Pid, RespDone(p), NEW r \in Req
  PROVE  Moves(req[r], req'[r])
  <1> DEFINE answered == [req EXCEPT ![wkr[p].req] = IF @ = "aborted" THEN "error" ELSE "done"]
             next == AllocReq(app)
  <1>0. req \in [Req -> ReqState] /\ app.messages \in Seq(Req) /\ None \notin Req
    BY PoolAssumption DEF Ledger, HeadInv, Sound, AppType
  <1>1. req' = answered \/ (next # None /\ req' = [answered EXCEPT ![next] = "busy"])
    BY DEF RespDone
  <1>2. wkr[p].req = r => req[r] \in {"busy", "aborted"}
    BY <1>0 DEF Ledger, BooksOf, Books, RequestBook
  <1>3. next # None => next \in Req /\ req[next] = "queued"
    <2>1. CASE app.messages # <<>>
      <3>1. Head(app.messages) \in Range(app.messages) /\ Head(app.messages) \in Req
        BY <1>0, <2>1, TailDistinct
      <3> QED BY <2>1, <3>1 DEF AllocReq, Ledger, BooksOf, Books, RequestBook
    <2>2. CASE app.messages = <<>>
      BY <2>2 DEF AllocReq
    <2> QED BY <2>1, <2>2
  <1> HIDE DEF next
  <1>4. Moves(req[r], answered[r]) /\ answered[r] \in Over \cup {req[r]}
    BY <1>0, <1>2 DEF Moves, Over
  <1>5. answered \in [Req -> ReqState]
    BY <1>0 DEF ReqState
  <1> HIDE DEF answered
  <1>6. CASE req' = answered
    BY <1>4, <1>6
  <1>7. CASE next # None /\ req' = [answered EXCEPT ![next] = "busy"]
    <2>1. CASE r = next
      BY <1>3, <1>5, <1>7, <2>1 DEF Moves
    <2>2. CASE r # next
      BY <1>4, <1>5, <1>7, <2>2
    <2> QED BY <2>1, <2>2
  <1> QED BY <1>1, <1>6, <1>7

LEMMA WkrAddMoves ==
  ASSUME Ledger, NEW p \in Pid, WkrAdd(p), NEW r \in Req
  PROVE  Moves(req[r], req'[r])
  <1> DEFINE i == Inserted(p)
             a == [i EXCEPT !.workers = @ \cup {p}, !.low = (QCount(i) + 1) * MinReqRatio]
             next == AllocReq(a)
  <1>1. Running /\ p \in Range(app.pending) /\ HasSlot(Inserted(p))
        /\ (req' = req \/ (next # None /\ req' = [req EXCEPT ![next] = "busy"]))
    BY DEF WkrAdd, Wanted
  <1>2. i.messages = app.messages
    BY <1>1, InsertedEffect
  <1>3. a.messages = app.messages
    BY <1>1, <1>2, EnlistedEffect
  <1> HIDE DEF a, i
  <1>4. app.messages \in Seq(Req) /\ req \in [Req -> ReqState]
    BY DEF Ledger, HeadInv, Sound, AppType
  <1>5. next # None => next \in Req /\ req[next] = "queued"
    <2>1. CASE app.messages # <<>>
      <3>1. Head(app.messages) \in Range(app.messages) /\ Head(app.messages) \in Req
        BY <1>4, <2>1, TailDistinct
      <3> QED BY <1>3, <2>1, <3>1 DEF AllocReq, Ledger, BooksOf, Books, RequestBook
    <2>2. CASE app.messages = <<>>
      BY <1>3, <2>2 DEF AllocReq
    <2> QED BY <2>1, <2>2
  <1> HIDE DEF next
  <1> QED BY <1>1, <1>4, <1>5 DEF Moves

LEMMA RemoveMoves ==
  ASSUME Ledger, NEW ks, RemoveApp(ks), NEW r \in Req
  PROVE  Moves(req[r], req'[r])
  <1>1. req[r] \in ReqState
    BY DEF Ledger, HeadInv
  <1> QED BY <1>1 DEF RemoveApp, Moves, Over, ReqState

LEMMA StepMoves ==
  ASSUME Ledger, [Next]_vars, NEW r \in Req
  PROVE  Moves(req[r], req'[r])
  <1>1. CASE req' = req
    BY <1>1 DEF Moves
  <1>2. ASSUME NEW p \in Pid, Worker(p) PROVE Moves(req[r], req'[r])
    <2>1. CASE RespDone(p)
      BY <2>1, RespDoneMoves
    <2>2. CASE RespError(p) \/ CtlClosed(p) \/ WaitTimeout(p)
      BY <1>1, <2>2, FreeMoves DEF RespError, CtlClosed, WaitTimeout
    <2>3. CASE WkrAdd(p)
      BY <2>3, WkrAddMoves
    <2>4. CASE WkrError(p)
      BY <1>1, <2>4, RemoveMoves DEF WkrError
    <2>5. CASE ReqSent(p) \/ RespChunk(p) \/ PingReply(p) \/ ConfReq(p) \/ Loaded(p) \/ WkrRejected(p)
      BY <1>1, <2>5 DEF ReqSent, RespChunk, PingReply, ConfReq, Loaded, WkrRejected
    <2> QED BY <1>2, <2>1, <2>2, <2>3, <2>4, <2>5 DEF Worker
  <1>3. ASSUME NEW p \in Pid, Failure(p) PROVE Moves(req[r], req'[r])
    BY <1>1, <1>3 DEF Failure, LoadFailed, BootDies, Crash, Hang, WkrAddFails
  <1>4. CASE AppTimer
    <2>1. CASE WaitOver \/ AddCb
      BY <1>1, <2>1 DEF WaitOver, AddCb
    <2>2. CASE AddTimeout
      BY <1>1, <2>2, RemoveMoves DEF AddTimeout
    <2>3. CASE RemoveCb
      <3>1. app.workers \subseteq Pid
        BY DEF Ledger, BooksOf, Books
      <3> QED BY <1>1, <2>3, <3>1, FreeMoves DEF RemoveCb
    <2> QED BY <1>4, <2>1, <2>2, <2>3 DEF AppTimer
  <1>5. ASSUME NEW c \in Ctl, Admin(c) PROVE Moves(req[r], req'[r])
    <2>1. CASE wr_app_add_cb(c) \/ wr_app_reload_cb(c) \/ AdmClose(c)
      BY <1>1, <2>1 DEF wr_app_add_cb, wr_app_reload_cb, AdmClose, Refused, Insert
    <2>2. CASE wr_app_remove_cb(c)
      BY <1>1, <2>2, RemoveMoves DEF wr_app_remove_cb, Refused
    <2> QED BY <1>5, <2>1, <2>2 DEF Admin
  <1>6. CASE UNCHANGED vars
    BY <1>1, <1>6 DEF vars
  <1> QED BY <1>2, <1>3, <1>4, <1>5, <1>6, ClientMoves DEF Next

(* Dispatching, aborts by the client, losses of workers, reloads and        *)
(* removals give every request a life WrReqLife allows, the one on which    *)
(* wr_connection.c counts when it frees a request.                          *)
THEOREM HeadImplementsReqLife == Spec => RequestsLive
  <1>1. Init => \A r \in Req : Life(r)!Init
    BY DEF Init, Life!Init, LifeOf
  <1>2. Ledger /\ [Next]_vars => \A r \in Req : Life(r)!Next \/ UNCHANGED LifeOf(r)
    <2> SUFFICES ASSUME Ledger, [Next]_vars, NEW r \in Req
                 PROVE  Life(r)!Next \/ UNCHANGED LifeOf(r)
      OBVIOUS
    <2>1. Moves(req[r], req'[r])
      BY StepMoves
    <2> QED BY <2>1 DEF Moves, Over, Life!Next, Life!Step, LifeOf
  <1> QED BY <1>1, <1>2, LedgerInvariant, PTL DEF Spec, RequestsLive
-----------------------------------------------------------------------------
(* Which version of the application a worker runs after a reload, and how  *)
(* many workers there are without one.                                     *)

(* The configuration a step leaves in force, except that it may end or      *)
(* forget a reload.                                                         *)
SameVersion(a, b) ==
  \/ b.state \in {"NONE", "NEW", "ACTIVE"}
  \/ b.state = a.state /\ b.conf = a.conf /\ b.new = a.new

(* No more processes than before, or no more than wr_app_wkr_balance wants. *)
Capped(a, b) ==
  /\ b.conf = a.conf
  /\ \/ TOTAL_WORKER_COUNT(b) <= TOTAL_WORKER_COUNT(a)
     \/ TOTAL_WORKER_COUNT(b) <= MinWorker[a.conf]

LEMMA CappedTwice ==
  ASSUME NEW a \in AppType, NEW b \in AppType, NEW c \in AppType, Capped(a, b), Capped(b, c),
         a.conf \in Conf
  PROVE  Capped(a, c)
  <1>1. /\ TOTAL_WORKER_COUNT(a) \in Nat /\ TOTAL_WORKER_COUNT(b) \in Nat
        /\ TOTAL_WORKER_COUNT(c) \in Nat /\ MinWorker[a.conf] \in Nat
    BY QCountType, PoolAssumption
  <1> HIDE DEF TOTAL_WORKER_COUNT
  <1> QED BY <1>1 DEF Capped

LEMMA LeanCapped ==
  ASSUME NEW a \in AppType, NEW b \in AppType, b.conf = a.conf,
         b.workers \subseteq a.workers, Len(b.pending) <= Len(a.pending)
  PROVE  Capped(a, b)
  <1>1. IsFiniteSet(a.workers) /\ QCount(a) \in Nat /\ QCount(b) \in Nat
        /\ Len(a.pending) \in Nat /\ Len(b.pending) \in Nat
    BY WorkersFinite DEF AppType
  <1>2. QCount(b) <= QCount(a)
    BY <1>1, FS_Subset DEF QCount
  <1> QED BY <1>1, <1>2 DEF Capped, TOTAL_WORKER_COUNT

LEMMA BalancedEffect ==
  ASSUME NEW a, Sound(a), a.state # "NONE", NEW pids \in SUBSET Pid,
         NEW b \in wr_app_wkr_balance(a, pids)
  PROVE  /\ SameQueues(a, b) /\ SameVersion(a, b) /\ Capped(a, b)
         /\ b.state \in {a.state, "ACTIVE"}
  <1> DEFINE k == MinWorker[a.conf] - TOTAL_WORKER_COUNT(a)
  <1>1. /\ Grown(a, b, k, pids)
        /\ \/ b.state = a.state /\ b.new = a.new
           \/ a.state = "RESTART" /\ b.state = "ACTIVE" /\ b.new = None
    BY BalanceGrows
  <1>2. PICK s \in Seq(Pid) :
          b.pending = a.pending \o s /\ IF k < 0 THEN Len(s) = 0 ELSE Len(s) <= k
    BY <1>1 DEF Grown
  <1>3. SameQueues(a, b) /\ b.conf = a.conf
    BY <1>1 DEF Grown
  <1>4. /\ a.pending \in Seq(Pid) /\ QCount(a) \in Nat /\ MinWorker[a.conf] \in Nat
        /\ TOTAL_WORKER_COUNT(a) \in Nat
    BY QCountType, PoolAssumption DEF Sound, AppType
  <1>5. Len(b.pending) = Len(a.pending) + Len(s) /\ QCount(b) = QCount(a)
    BY <1>2, <1>3, <1>4 DEF SameQueues, QCount
  <1>6. TOTAL_WORKER_COUNT(b) = TOTAL_WORKER_COUNT(a) + Len(s)
    BY <1>4, <1>5 DEF TOTAL_WORKER_COUNT
  <1> HIDE DEF TOTAL_WORKER_COUNT
  <1>7. Capped(a, b)
    BY <1>2, <1>3, <1>4, <1>6 DEF Capped
  <1> QED BY <1>1, <1>3, <1>7 DEF SameVersion

(* What losing a worker, with or without a replacement, does. *)
LEMMA FreedEffect ==
  ASSUME Ledger, Running, NEW p \in Pid, NEW m, SamePool(app, m), Sound(m), NEW b,
         b = wr_wkr_free(m, p) \/ b \in wr_app_wkr_balance(wr_wkr_free(m, p), Unused)
  PROVE  /\ b.workers = app.workers \ {p} /\ SameVersion(app, b) /\ Capped(app, b)
         /\ b.state \in {app.state, "ACTIVE"}
  <1> DEFINE a == wr_wkr_free(m, p)
  <1>0. Sound(app) /\ Tidy(m) /\ app.conf \in Conf /\ m.state # "NONE"
    BY SameTidy DEF Ledger, HeadInv, Sound, Running, SamePool
  <1>1. /\ a.workers = m.workers \ {p} /\ a.pending = m.pending
        /\ a.state = m.state /\ a.conf = m.conf /\ a.new = m.new
        /\ Sound(a)
    BY <1>0, WkrFreeEffect, WkrFreeSound
  <1> HIDE DEF a
  <1>2. /\ a.workers = app.workers \ {p} /\ a.pending = app.pending
        /\ a.state = app.state /\ a.conf = app.conf /\ a.new = app.new
    BY <1>1 DEF SamePool, SameQueues
  <1>3. Capped(app, a)
    <2>1. Len(a.pending) <= Len(app.pending)
      BY <1>0, <1>2 DEF Sound, AppType
    <2> QED BY <1>0, <1>1, <1>2, <2>1, LeanCapped DEF Sound
  <1>4. CASE b = a
    BY <1>2, <1>3, <1>4 DEF SameVersion
  <1>5. CASE b \in wr_app_wkr_balance(a, Unused)
    <2>1. /\ SameQueues(a, b) /\ SameVersion(a, b) /\ Capped(a, b)
          /\ b.state \in {a.state, "ACTIVE"} /\ Sound(b)
      BY <1>0, <1>1, <1>2, <1>5, BalancedEffect, BalanceSound, UnusedType DEF Running
    <2>2. Capped(app, b)
      BY <1>0, <1>1, <1>3, <2>1, CappedTwice DEF Sound
    <2> QED BY <1>2, <2>1, <2>2 DEF SameQueues, SameVersion
  <1> QED BY <1>4, <1>5 DEF a

-----------------------------------------------------------------------------
(* Why a reload is uniform: a worker that has registered was up at some     *)
(* time, and a process that is still starting has asked for the             *)
(* configuration that the reload under way, or the last one, brings.        *)
Asked == {"conf", "add", "err"}
Versions ==
  /\ \A p \in app.workers : proc[p] \in {"up", "hung", "dead"}
  /\ ReloadIsUniform
  /\ \A p \in Range(app.pending) : proc[p] \in Asked =>
       /\ app.state = "RESTARTING" => pconf[p] = app.conf
       /\ app.state = "RESTART" => pconf[p] = app.new

LEMMA VersionsKept ==
  ASSUME Versions, SameVersion(app, app'),
         \A p \in app'.workers :
           /\ p \in app.workers /\ proc'[p] \in {"up", "hung", "dead"}
           /\ pconf'[p] = pconf[p]
           /\ wkr'[p].state # "EXPIRED" => wkr[p].state # "EXPIRED",
         \A p \in Range(app'.pending) : proc'[p] \in Asked =>
           p \in Range(app.pending) /\ proc[p] \in Asked /\ pconf'[p] = pconf[p]
  PROVE  Versions'
  BY DEF Versions, SameVersion, ReloadIsUniform

(* Steps that kill ks and fork what has become pending. *)
LEMMA ProcessesVersions ==
  ASSUME Versions, Ledger, Ledger', SameVersion(app, app'), NEW ks, Processes(ks),
         app'.workers \subseteq app.workers \ ks,
         \A p \in app'.workers : wkr'[p].state # "EXPIRED" => wkr[p].state # "EXPIRED"
  PROVE  Versions'
  <1>1. /\ Range(app'.pending) \cap app'.workers = {} /\ app'.workers \subseteq Pid
        /\ Range(app'.pending) \subseteq Pid
    <2>1. app'.pending \in Seq(Pid) /\ app'.workers \subseteq Pid
      BY DEF Ledger, HeadInv, Sound, AppType
    <2> QED BY <2>1 DEF Ledger, Tidy, Range
  <1>2. ASSUME NEW p \in app'.workers
        PROVE  /\ p \in app.workers /\ proc'[p] \in {"up", "hung", "dead"}
               /\ pconf'[p] = pconf[p]
    <2>1. p \in Pid /\ p \notin Range(app'.pending) /\ p \notin ks /\ p \in app.workers
      BY <1>1
    <2>2. proc'[p] = proc[p] /\ pconf'[p] = pconf[p]
      BY <2>1 DEF Processes
    <2> QED BY <2>1, <2>2 DEF Versions
  <1>3. ASSUME NEW p \in Range(app'.pending), proc'[p] \in Asked
        PROVE  p \in Range(app.pending) /\ proc[p] \in Asked /\ pconf'[p] = pconf[p]
    <2>1. p \in Pid
      BY <1>1
    <2>2. p \in Range(app.pending) /\ p \notin ks
      BY <1>3, <2>1 DEF Processes, Asked
    <2> QED BY <1>3, <2>1, <2>2 DEF Processes
  <1> QED BY <1>2, <1>3, VersionsKept

(* Steps that leave the processes, the pending queue and the version alone. *)
LEMMA HeldVersions ==
  ASSUME Versions, SameVersion(app, app'), proc' = proc, pconf' = pconf,
         app'.pending = app.pending, app'.workers \subseteq app.workers,
         \A p \in app'.workers : wkr'[p].state # "EXPIRED" => wkr[p].state # "EXPIRED"
  PROVE  Versions'
  BY VersionsKept DEF Versions

LEMMA ClientVersions ==
  ASSUME Versions, Ledger, Ledger', NEW r \in Req, Client(r)
  PROVE  Versions'
  <1>0. /\ proc' = proc /\ pconf' = pconf /\ wkr \in [Pid -> WkrType] /\ app \in AppType
        /\ app.workers \subseteq Pid
    BY DEF Client, ReqHeaders, ReqComplete, ReqAbort, Ledger, HeadInv, Sound, AppType
  <1>1. CASE app' = app /\ wkr' = wkr
    BY <1>0, <1>1, HeldVersions DEF SameVersion
  <1>2. CASE ReqAbort(r) /\ app' = Unqueue(r)
    <2>1. wkr' = wkr
      BY <1>2 DEF ReqAbort
    <2>2. /\ app'.workers = app.workers /\ app'.pending = app.pending
          /\ app'.state = app.state /\ app'.conf = app.conf /\ app'.new = app.new
      BY <1>0, <1>2 DEF Unqueue, AppType
    <2> QED BY <1>0, <2>1, <2>2, HeldVersions DEF SameVersion
  <1>3. CASE ReqComplete(r) /\ ~(Len(app.messages) >= MsgQueueSize)
    <2> DEFINE m == [app EXCEPT !.messages = Append(@, r)]
               a == wr_app_chk_load_to_add_wkr(m)
    <2>0. app.messages \in Seq(Req) /\ Append(app.messages, r) \in Seq(Req)
      BY <1>0 DEF AppType
    <2>1. m \in AppType
      BY <1>0, <2>0 DEF AppType
    <2>2. a \in AppType /\ (a = m \/ \E t \in BOOLEAN : a = [m EXCEPT !.tAdd = t])
      BY <2>1, ChkAddSound
    <2>3. /\ a.state = app.state /\ a.conf = app.conf /\ a.new = app.new
          /\ a.pending = app.pending /\ a.workers = app.workers /\ a.free = app.free
      BY <1>0, <2>2 DEF AppType
    <2>4. \/ app' = a /\ wkr' = wkr
          \/ /\ app' = [a EXCEPT !.messages = Tail(@), !.free = Tail(@)]
             /\ wkr' = [wkr EXCEPT ![Head(a.free)] = Serving(@, Head(a.messages))]
             /\ a.free # <<>>
      BY <1>3 DEF ReqComplete, Dispatch
    <2> HIDE DEF a, m
    <2>5. /\ app'.workers = app.workers /\ app'.pending = app.pending
          /\ app'.state = app.state /\ app'.conf = app.conf /\ app'.new = app.new
      BY <2>2, <2>3, <2>4 DEF AppType
    <2>6. \A p \in app.workers : wkr'[p].state # "EXPIRED" => wkr[p].state # "EXPIRED"
      <3>1. CASE wkr' = wkr
        BY <3>1
      <3>2. CASE /\ wkr' = [wkr EXCEPT ![Head(a.free)] = Serving(@, Head(a.messages))]
                 /\ a.free # <<>>
        <4>1. app.free \in Seq(Pid) /\ app.free # <<>>
          BY <1>0, <2>3, <3>2 DEF AppType
        <4>2. Head(a.free) \in Range(app.free)
          BY <2>3, <4>1, TailDistinct
        <4>3. wkr[Head(a.free)].state = "INACTIVE"
          BY <4>1, <4>2 DEF Ledger, BooksOf, Books, WorkerBook, Idle
        <4> QED BY <1>0, <3>2, <4>3
      <3> QED BY <2>4, <3>1, <3>2
    <2> QED BY <1>0, <2>5, <2>6, HeldVersions DEF SameVersion
  <1> QED BY <1>1, <1>2, <1>3 DEF Client, ReqHeaders, ReqComplete, ReqAbort

LEMMA ServingVersions ==
  ASSUME Versions, Ledger, Ledger', NEW p \in Pid,
         ReqSent(p) \/ RespChunk(p) \/ PingReply(p)
  PROVE  Versions'
  <1>1. app' = app /\ proc' = proc /\ pconf' = pconf /\ wkr \in [Pid -> WkrType]
        /\ app.workers \subseteq Pid
    BY DEF ReqSent, RespChunk, PingReply, Ledger, HeadInv, Sound, AppType
  <1>2. wkr[p].state = "EXPIRED" => wkr'[p].state = "EXPIRED"
    BY <1>1, ZenonT(40) DEF ReqSent, RespChunk, PingReply, Watched, Ponged, WkrType
  <1>3. \A q \in Pid : q # p => wkr'[q] = wkr[q]
    BY <1>1 DEF ReqSent, RespChunk, PingReply
  <1> QED BY <1>1, <1>2, <1>3, HeldVersions DEF SameVersion

LEMMA LossVersions ==
  ASSUME Versions, Ledger, Ledger', Running, NEW p \in Pid, Processes({p}),
         wkr' = [wkr EXCEPT ![p] = NoWkr], NEW m, SamePool(app, m), Sound(m),
         app' = wr_wkr_free(m, p) \/ app' \in wr_app_wkr_balance(wr_wkr_free(m, p), Unused)
  PROVE  Versions'
  <1>1. app'.workers = app.workers \ {p} /\ SameVersion(app, app')
    BY FreedEffect
  <1>2. \A q \in app'.workers : wkr'[q] = wkr[q]
    BY <1>1 DEF Ledger, HeadInv, Sound, AppType
  <1> QED BY <1>1, <1>2, ProcessesVersions

LEMMA SamePoolSelf == ASSUME NEW a PROVE SamePool(a, a)
  BY DEF SamePool, SameQueues

LEMMA RespDoneVersions ==
  ASSUME Versions, Ledger, Ledger', NEW p \in Pid, RespDone(p)
  PROVE  Versions'
  <1>1. /\ Running /\ Sound(app) /\ Tidy(app) /\ app.workers \subseteq Pid
        /\ wkr \in [Pid -> WkrType]
    BY AliveRunning, SMTT(30) DEF RespDone, NoWkr, Ledger, HeadInv, Sound, AppType
  <1>2. p \in app.workers /\ p \notin Range(app.free)
    <2>1. wkr[p].phase # "idle"
      BY DEF RespDone
    <2> QED BY <2>1, NoWkrIdle DEF Ledger, BooksOf, Books, WorkerBook, Idle
  <1>3. CASE wkr[p].state = "EXPIRED"
    BY <1>1, <1>3, LossVersions, SamePoolSelf DEF RespDone
  <1>4. CASE wkr[p].state # "EXPIRED"
    <2>1. app' = wr_wrk_allocate(app, p) /\ proc' = proc /\ pconf' = pconf
          /\ \A q \in Pid : q # p => wkr'[q] = wkr[q]
      BY <1>1, <1>4 DEF RespDone
    <2>2. /\ app'.workers = app.workers /\ app'.pending = app.pending
          /\ app'.state = app.state /\ app'.conf = app.conf /\ app'.new = app.new
      BY <1>1, <1>2, <2>1, AllocateEffect
    <2> QED BY <1>1, <1>4, <2>1, <2>2, HeldVersions DEF SameVersion
  <1> QED BY <1>3, <1>4

LEMMA LostVersions ==
  ASSUME Versions, Ledger, Ledger', NEW p \in Pid,
         RespError(p) \/ CtlClosed(p) \/ WaitTimeout(p)
  PROVE  Versions'
  <1>1. Running /\ Sound(app) /\ SamePool(app, app)
    <2>1. CASE RespError(p) \/ WaitTimeout(p)
      BY <2>1, AliveRunning, SamePoolSelf DEF RespError, WaitTimeout, NoWkr, Ledger, HeadInv
    <2>2. CASE CtlClosed(p)
      BY <2>2, SamePoolSelf DEF CtlClosed, Ledger, HeadInv, Gone, Running, NoApp
    <2> QED BY <2>1, <2>2
  <1>2. CASE /\ Processes({p}) /\ FreeWorker(p)
             /\ \/ app' = wr_wkr_free(app, p)
                \/ app' \in wr_app_wkr_balance(wr_wkr_free(app, p), Unused)
    BY <1>1, <1>2, LossVersions DEF FreeWorker
  <1>3. CASE /\ wkr[p].state \in {"ACTIVE", "PINGING"} /\ wkr' = [wkr EXCEPT ![p] = Pinged(@)]
             /\ UNCHANGED <<app, proc, pconf>>
    <2>1. \A q \in app.workers : wkr'[q].state # "EXPIRED" => wkr[q].state # "EXPIRED"
      BY <1>3 DEF Ledger, HeadInv, Sound, AppType
    <2> QED BY <1>3, <2>1, HeldVersions DEF SameVersion
  <1> QED BY <1>2, <1>3 DEF RespError, CtlClosed, AfterLoss, WaitTimeout

LEMMA StartingVersions ==
  ASSUME Versions, Ledger, NEW p \in Pid,
         \/ ConfReq(p) \/ Loaded(p) \/ WkrRejected(p)
         \/ LoadFailed(p) \/ BootDies(p) \/ Crash(p) \/ Hang(p)
  PROVE  Versions'
  <1>1. /\ app' = app /\ wkr' = wkr /\ proc \in [Pid -> ProcState]
        /\ pconf \in [Pid -> Conf \cup {None}] /\ app.workers \subseteq Pid
        /\ Range(app.pending) \subseteq Pid
    <2>1. app.pending \in Seq(Pid) /\ app.workers \subseteq Pid
      BY DEF Ledger, HeadInv, Sound, AppType
    <2>2. app' = app /\ wkr' = wkr
      BY DEF ConfReq, Loaded, WkrRejected, LoadFailed, BootDies, Crash, Hang
    <2> QED BY <2>1, <2>2 DEF Ledger, HeadInv, EnvType, Range
  <1>2. \A q \in Pid : q # p => proc'[q] = proc[q] /\ pconf'[q] = pconf[q]
    BY <1>1 DEF ConfReq, Loaded, WkrRejected, LoadFailed, BootDies, Crash, Hang
  <1>3. CASE Crash(p) \/ Hang(p)
    <2>1. proc'[p] \in {"dead", "hung"} /\ pconf' = pconf
      BY <1>1, <1>3 DEF Crash, Hang
    <2> QED BY <1>1, <1>2, <2>1, VersionsKept DEF SameVersion, Versions, Asked
  <1>4. CASE ConfReq(p) \/ Loaded(p) \/ WkrRejected(p) \/ LoadFailed(p) \/ BootDies(p)
    <2>1. p \notin app.workers
      BY <1>4 DEF Versions, ConfReq, Loaded, WkrRejected, LoadFailed, BootDies
    <2>2. CASE ConfReq(p) /\ Running
      <3>1. /\ proc'[p] = "conf"
            /\ pconf'[p] = IF app.state = "RESTART" THEN app.new ELSE app.conf
        BY <1>1, <2>2 DEF ConfReq
      <3>2. \A q \in app.workers : proc'[q] = proc[q] /\ pconf'[q] = pconf[q]
        BY <1>1, <1>2, <2>1
      <3>3. ReloadIsUniform'
        BY <1>1, <3>2 DEF Versions, ReloadIsUniform
      <3>4. \A q \in Range(app.pending) : proc'[q] \in Asked =>
              /\ app.state = "RESTARTING" => pconf'[q] = app.conf
              /\ app.state = "RESTART" => pconf'[q] = app.new
        BY <1>1, <1>2, <3>1 DEF Versions
      <3> QED BY <1>1, <3>2, <3>3, <3>4 DEF Versions
    <2>3. CASE ~(ConfReq(p) /\ Running)
      <3>1. proc'[p] \in Asked => proc[p] \in Asked /\ pconf'[p] = pconf[p]
        BY <1>1, <1>4, <2>3
           DEF ConfReq, Loaded, WkrRejected, LoadFailed, BootDies, Asked
      <3>2. \A q \in app.workers : proc'[q] = proc[q] /\ pconf'[q] = pconf[q]
        BY <1>1, <1>2, <2>1
      <3>3. \A q \in Range(app.pending) :
              proc'[q] \in Asked => proc[q] \in Asked /\ pconf'[q] = pconf[q]
        BY <1>1, <1>2, <3>1
      <3>4. \A q \in app.workers : proc'[q] \in {"up", "hung", "dead"}
        BY <3>2 DEF Versions
      <3>5. SameVersion(app, app')
        BY <1>1 DEF SameVersion
      <3> QED BY <1>1, <3>2, <3>3, <3>4, <3>5, VersionsKept
    <2> QED BY <2>2, <2>3
  <1> QED BY <1>3, <1>4

(* What the registration of p leaves: a reload that it decides is in force, *)
(* the workers of the old version are gone or expired, and whatever is      *)
(* still pending asked for the new one.                                     *)
LEMMA InsertedVersions ==
  ASSUME Versions, Ledger, NEW p \in Range(app.pending), Running, proc[p] = "add"
  PROVE  LET i == Inserted(p)
         IN  /\ i.state = "RESTARTING" =>
                  /\ pconf[p] = i.conf
                  /\ \A q \in i.workers : Reloaded[q].state # "EXPIRED" => pconf[q] = i.conf
                  /\ \A q \in Range(i.pending) : proc[q] \in Asked => pconf[q] = i.conf
             /\ i.state # "RESTART"
             /\ Discarded \subseteq app.workers /\ p \notin app.workers
  <1> DEFINE i == Inserted(p)
  <1>1. /\ i.workers = app.workers \ Discarded
        /\ Range(i.pending) = Range(app.pending) \ {p}
        /\ IF app.state = "RESTART"
             THEN i.state = "RESTARTING" /\ i.conf = app.new
             ELSE /\ i.conf = app.conf
                  /\ i.state = IF app.state = "NEW" THEN "ACTIVE" ELSE app.state
    BY InsertedEffect
  <1>2. /\ Discarded \subseteq app.workers /\ app.workers \subseteq Pid
        /\ wkr \in [Pid -> WkrType]
    BY DEF Ledger, BooksOf, Books, Discarded
  <1>3. p \notin app.workers
    BY DEF Versions
  <1> HIDE DEF i
  <1>4. CASE app.state = "RESTART"
    <2>1. \A q \in i.workers : Reloaded[q].state = "EXPIRED"
      BY <1>1, <1>2, <1>4 DEF Reloaded, WkrType
    <2>2. \A q \in Range(app.pending) : proc[q] \in Asked => pconf[q] = i.conf
      BY <1>1, <1>4 DEF Versions
    <2>3. pconf[p] = i.conf
      BY <2>2 DEF Asked
    <2> QED BY <1>1, <1>2, <1>3, <1>4, <2>1, <2>2, <2>3 DEF i
  <1>5. CASE app.state = "RESTARTING"
    <2>1. \A q \in i.workers : Reloaded[q] = wkr[q]
      BY <1>1, <1>2, <1>5 DEF Reloaded, Discarded
    <2>2. \A q \in Range(app.pending) : proc[q] \in Asked => pconf[q] = i.conf
      BY <1>1, <1>5 DEF Versions
    <2>3. pconf[p] = i.conf
      BY <2>2 DEF Asked
    <2>4. \A q \in i.workers : Reloaded[q].state # "EXPIRED" => pconf[q] = i.conf
      BY <1>1, <1>5, <2>1 DEF Versions, ReloadIsUniform
    <2> QED BY <1>1, <1>2, <1>3, <1>5, <2>2, <2>3, <2>4 DEF i
  <1>6. CASE app.state \notin {"RESTART", "RESTARTING"}
    BY <1>1, <1>2, <1>3, <1>6 DEF i
  <1> QED BY <1>4, <1>5, <1>6

LEMMA WkrAddFailsVersions ==
  ASSUME Versions, Ledger, Ledger', NEW p \in Pid, WkrAddFails(p)
  PROVE  Versions'
  <1> DEFINE i == Inserted(p)
  <1>1. Running /\ p \in Range(app.pending) /\ proc[p] = "add" /\ wkr' = Reloaded
    BY DEF WkrAddFails, Wanted
  <1>2. /\ i.state = "RESTARTING" =>
             /\ \A q \in i.workers : Reloaded[q].state # "EXPIRED" => pconf[q] = i.conf
             /\ \A q \in Range(i.pending) : proc[q] \in Asked => pconf[q] = i.conf
        /\ i.state # "RESTART" /\ p \notin app.workers
    BY <1>1, InsertedVersions
  <1>3. /\ i.workers = app.workers \ Discarded /\ Range(i.pending) = Range(app.pending) \ {p}
        /\ Sound(i)
    BY <1>1, InsertedEffect, InsertedSound DEF Ledger
  <1>4. app' = [i EXCEPT !.high = TOTAL_WORKER_COUNT(i) * MaxReqRatio]
    BY DEF WkrAddFails
  <1> HIDE DEF i
  <1>5. SamePool(i, app')
    BY <1>3, <1>4 DEF SamePool, SameQueues, Sound, AppType
  <1>6. app.workers \subseteq Pid /\ i.pending \in Seq(Pid)
    BY <1>3 DEF Ledger, BooksOf, Books, Sound, AppType
  <1>7. \A q \in app'.workers : proc'[q] = proc[q] /\ pconf'[q] = pconf[q] /\ q \in app.workers
    BY <1>2, <1>3, <1>5, <1>6 DEF WkrAddFails, SamePool, SameQueues
  <1>8. \A q \in Range(app'.pending) : proc'[q] \in Asked => proc[q] \in Asked /\ pconf'[q] = pconf[q]
    <2>1. Range(app'.pending) \subseteq Pid /\ p \notin Range(app'.pending)
      BY <1>3, <1>5, <1>6, SMTT(30) DEF SamePool, Range
    <2> QED BY <2>1 DEF WkrAddFails, Asked
  <1> QED BY <1>1, <1>2, <1>5, <1>7, <1>8 DEF Versions, ReloadIsUniform, SamePool, SameQueues

LEMMA WkrAddVersions ==
  ASSUME Versions, Ledger, Ledger', NEW p \in Pid, WkrAdd(p)
  PROVE  Versions'
  <1> DEFINE i == Inserted(p)
             a == [i EXCEPT !.workers = @ \cup {p}, !.low = (QCount(i) + 1) * MinReqRatio]
             b == wr_wrk_allocate(a, p)
             new == Range(app'.pending) \ Range(app.pending)
  <1>1. /\ Running /\ p \in Range(app.pending) /\ proc[p] = "add" /\ HasSlot(Inserted(p))
        /\ app' \in wr_app_wkr_balance(b, Unused)
        /\ proc' = [q \in Pid |-> CASE q \in new -> "boot"
                                    [] q \in Discarded -> "none"
                                    [] q = p -> "up"
                                    [] OTHER -> proc[q]]
        /\ pconf' = [q \in Pid |-> IF q \in Discarded THEN None ELSE pconf[q]]
    BY DEF WkrAdd, Wanted
  <1>2. /\ i.state = "RESTARTING" =>
             /\ pconf[p] = i.conf
             /\ \A q \in i.workers : Reloaded[q].state # "EXPIRED" => pconf[q] = i.conf
             /\ \A q \in Range(i.pending) : proc[q] \in Asked => pconf[q] = i.conf
        /\ i.state # "RESTART" /\ Discarded \subseteq app.workers /\ p \notin app.workers
    BY <1>1, InsertedVersions
  <1>3. /\ i.workers = app.workers \ Discarded /\ Range(i.pending) = Range(app.pending) \ {p}
        /\ i.state # "NONE"
    BY <1>1, InsertedEffect, InsertedSound DEF Ledger
  <1>4. /\ Sound(a) /\ Tidy(a) /\ a.workers = i.workers \cup {p} /\ a.pending = i.pending
        /\ a.state = i.state /\ a.conf = i.conf /\ a.new = i.new
        /\ p \notin i.workers /\ a.free = i.free
    BY <1>1, EnlistedEffect
  <1>5. Tidy(i)
    BY <1>1, InsertedEffect
  <1>6. \A q \in Pid : q # p => wkr'[q] = Reloaded[q]
    BY ReloadedType DEF WkrAdd, Ledger
  <1> HIDE DEF i, a
  <1>7. p \notin Range(a.free) /\ p \in a.workers
    BY <1>4, <1>5 DEF Tidy
  <1>8. /\ b.workers = a.workers /\ b.pending = a.pending /\ b.state = a.state
        /\ b.conf = a.conf /\ Sound(b)
    BY <1>4, <1>7, AllocateEffect, AllocateSound
  <1> HIDE DEF b
  <1>9. /\ SameQueues(b, app') /\ app'.conf = b.conf /\ app'.state \in {b.state, "ACTIVE"}
    BY <1>1, <1>3, <1>4, <1>8, BalancedEffect, UnusedType DEF Capped
  <1>10. app'.workers = i.workers \cup {p} /\ app'.conf = i.conf /\ app'.state \in {i.state, "ACTIVE"}
    BY <1>4, <1>8, <1>9 DEF SameQueues
  <1>11. Range(app'.pending) \cap app'.workers = {} /\ app'.workers \subseteq Pid
         /\ Range(app'.pending) \subseteq Pid
    <2>1. app'.pending \in Seq(Pid) /\ app'.workers \subseteq Pid
      BY DEF Ledger, HeadInv, Sound, AppType
    <2> QED BY <2>1 DEF Ledger, Tidy, Range
  <1>12. \A q \in app'.workers : q \in Pid /\ q \notin new /\ q \notin Discarded
    BY <1>2, <1>3, <1>10, <1>11
  <1>13. \A q \in app'.workers : pconf'[q] = pconf[q]
    BY <1>1, <1>12
  <1>14. proc'[p] = "up" /\ \A q \in i.workers : proc'[q] = proc[q]
    BY <1>1, <1>2, <1>3, <1>10, <1>12
  <1>15. \A q \in Range(app'.pending) : proc'[q] \in Asked =>
           q \in Range(i.pending) /\ proc[q] \in Asked /\ pconf'[q] = pconf[q]
    <2> SUFFICES ASSUME NEW q \in Range(app'.pending), proc'[q] \in Asked
                 PROVE  q \in Range(i.pending) /\ proc[q] \in Asked /\ pconf'[q] = pconf[q]
      OBVIOUS
    <2>1. q \in Pid /\ q # p
      BY <1>10, <1>11
    <2>2. q \notin new
      BY <1>1, <2>1 DEF Asked
    <2>3. q \in Range(app.pending) /\ q \notin Discarded
      BY <1>1, <2>1, <2>2 DEF Asked
    <2> QED BY <1>1, <1>3, <2>1, <2>2, <2>3
  <1>16. \A q \in app'.workers : proc'[q] \in {"up", "hung", "dead"}
    BY <1>3, <1>10, <1>14 DEF Versions
  <1>17. ReloadIsUniform'
    BY <1>2, <1>6, <1>10, <1>11, <1>13, <1>4 DEF ReloadIsUniform
  <1> QED BY <1>2, <1>10, <1>15, <1>16, <1>17 DEF Versions

LEMMA RemoveAppVersions ==
  ASSUME NEW ks, RemoveApp(ks)
  PROVE  Versions'
  <1>1. app'.state = "NONE" /\ app'.workers = {} /\ Range(app'.pending) = {}
    BY EmptyDistinct DEF RemoveApp, NoApp
  <1> QED BY <1>1 DEF Versions, ReloadIsUniform

LEMMA WkrErrorVersions ==
  ASSUME Versions, Ledger, Ledger', NEW p \in Pid, WkrError(p)
  PROVE  Versions'
  <1>1. Sound(app) /\ Tidy(app) /\ p \notin app.workers
    BY DEF Ledger, HeadInv, Versions, WkrError
  <1>2. CASE /\ app.state = "RESTART" /\ app' = ErrorSent(SettleRestart(app))
             /\ wkr' = wkr /\ Processes({p})
    <2> DEFINE s == SettleRestart(app)
    <2>1. Sound(s) /\ SameQueues(app, s) /\ s.state = "ACTIVE"
      BY <1>1, <1>2, SettleSound, SettleEffect
    <2>2. SamePool(s, app')
      BY <1>2, <2>1, ErrorSentSame
    <2> HIDE DEF s
    <2>3. SameVersion(app, app') /\ app'.workers = app.workers
      BY <2>1, <2>2 DEF SamePool, SameQueues, SameVersion
    <2> QED BY <1>1, <1>2, <2>3, ProcessesVersions
  <1>3. CASE RemoveApp({p})
    BY <1>3, RemoveAppVersions
  <1>4. CASE /\ app' = IF Running THEN Answered(wr_pending_worker_exist(app, p)) ELSE app
             /\ Processes({p}) /\ wkr' = wkr
    <2> DEFINE e == wr_pending_worker_exist(app, p)
    <2>1. SameQueues(app, e) /\ Sound(e) /\ e.state = app.state /\ e.conf = app.conf
          /\ e.new = app.new
      BY <1>1, PendingExistEffect, PendingExistSound
    <2> HIDE DEF e
    <2>2. SamePool(e, Answered(e))
      BY <2>1, AnsweredSame
    <2>3. app' = Answered(e) \/ app' = app
      BY <1>4 DEF e
    <2>4. app'.workers = app.workers /\ SameVersion(app, app')
      BY <2>1, <2>2, <2>3 DEF SamePool, SameQueues, SameVersion
    <2> QED BY <1>1, <1>4, <2>4, ProcessesVersions
  <1> QED BY <1>2, <1>3, <1>4 DEF WkrError

LEMMA AddTimeoutVersions ==
  ASSUME Versions, Ledger, Ledger', AddTimeout
  PROVE  Versions'
  <1>1. Sound(app) /\ Tidy(app)
    BY DEF Ledger, HeadInv
  <1>2. /\ SameQueues(app, TimedOut) /\ TimedOut.state = app.state
        /\ TimedOut.conf = app.conf /\ TimedOut.new = app.new /\ Sound(TimedOut)
    BY <1>1, TimedOutEffect, TimedOutSound DEF AddTimeout
  <1>3. Killed \cap app.workers = {}
    BY <1>1 DEF Killed, Tidy
  <1>4. CASE app.state = "RESTART" /\ app' = ErrorSent(SettleRestart(TimedOut))
             /\ wkr' = wkr /\ Processes(Killed)
    <2> DEFINE s == SettleRestart(TimedOut)
    <2>1. Sound(s) /\ SameQueues(TimedOut, s) /\ s.state = "ACTIVE"
      BY <1>2, <1>4, SettleSound, SettleEffect
    <2>2. SamePool(s, app')
      BY <1>4, <2>1, ErrorSentSame
    <2> HIDE DEF s
    <2>3. SameVersion(app, app') /\ app'.workers = app.workers
      BY <1>2, <2>1, <2>2 DEF SamePool, SameQueues, SameVersion
    <2> QED BY <1>3, <1>4, <2>3, ProcessesVersions
  <1>5. CASE RemoveApp(Killed)
    BY <1>5, RemoveAppVersions
  <1>6. CASE /\ app.state \in {"NEW", "ACTIVE", "RESTARTING"}
             /\ app' = TimedOut \/ app' \in wr_app_wkr_balance(TimedOut, Unused)
             /\ wkr' = wkr /\ Processes(Killed)
    <2>1. app'.workers = app.workers /\ SameVersion(app, app')
      <3>1. CASE app' = TimedOut
        BY <1>2, <3>1 DEF SameQueues, SameVersion
      <3>2. CASE app' \in wr_app_wkr_balance(TimedOut, Unused)
        <4>1. SameQueues(TimedOut, app') /\ SameVersion(TimedOut, app')
          BY <1>2, <1>6, <3>2, BalancedEffect, UnusedType
        <4> QED BY <1>2, <4>1 DEF SameQueues, SameVersion
      <3> QED BY <1>6, <3>1, <3>2
    <2> QED BY <1>3, <1>6, <2>1, ProcessesVersions
  <1> QED BY <1>4, <1>5, <1>6 DEF AddTimeout

LEMMA TimerVersions ==
  ASSUME Versions, Ledger, Ledger', WaitOver \/ AddCb \/ RemoveCb
  PROVE  Versions'
  <1>1. Sound(app) /\ Tidy(app) /\ app.workers \subseteq Pid /\ wkr \in [Pid -> WkrType]
    BY DEF Ledger, HeadInv, Sound, AppType
  <1>2. CASE WaitOver
    <2>1. SamePool(app, app') /\ wkr' = wkr /\ proc' = proc /\ pconf' = pconf
      BY <1>1, <1>2 DEF WaitOver, SamePool, SameQueues, Sound, AppType
    <2> QED BY <2>1, HeldVersions DEF SamePool, SameQueues, SameVersion
  <1>3. CASE AddCb
    <2> DEFINE a == [app EXCEPT !.tAdd = FALSE]
    <2>1. Sound(a) /\ SamePool(app, a)
      BY <1>1 DEF Sound, AppType, SamePool, SameQueues
    <2>2. /\ app' \in wr_app_wkr_add(a, Unused) \/ app' = a
          /\ Processes({}) /\ wkr' = wkr
      BY <1>3 DEF AddCb
    <2> HIDE DEF a
    <2>3. app'.workers = app.workers /\ SameVersion(app, app')
      <3>1. CASE app' \in wr_app_wkr_add(a, Unused)
        <4>1. Grown(a, app', 1, Unused) /\ app'.state = a.state /\ app'.new = a.new
          BY <2>1, <3>1, WkrAddGrows, UnusedType
        <4> QED BY <2>1, <4>1 DEF Grown, SamePool, SameQueues, SameVersion
      <3>2. CASE app' = a
        BY <2>1, <3>2 DEF SamePool, SameQueues, SameVersion
      <3> QED BY <2>2, <3>1, <3>2
    <2> QED BY <2>2, <2>3, ProcessesVersions
  <1>4. CASE RemoveCb
    <2> DEFINE Again(n) == [app EXCEPT !.tRemove = n > MinWorker[app.conf]]
    <2>1. ASSUME NEW n PROVE Sound(Again(n)) /\ SamePool(app, Again(n))
      <3>1. (n > MinWorker[app.conf]) \in BOOLEAN
        OBVIOUS
      <3> QED BY <1>1, <3>1 DEF Sound, AppType, SamePool, SameQueues
    <2>2. Running
      BY <1>4 DEF RemoveCb, Ledger, HeadInv, Gone, Running, NoApp
    <2> HIDE DEF Again
    <2>3. ASSUME NEW p \in Pid, NEW n, app' = wr_wkr_free(Again(n), p), FreeWorker(p), Processes({p})
          PROVE  Versions'
      BY <2>1, <2>2, <2>3, LossVersions DEF FreeWorker
    <2>4. ASSUME NEW n, app' = Again(n), UNCHANGED <<proc, pconf>>,
                 \/ wkr' = wkr
                 \/ \E p \in app.workers : wkr' = [wkr EXCEPT ![p].state = "EXPIRED"]
          PROVE  Versions'
      <3>1. \A q \in app.workers : wkr'[q].state # "EXPIRED" => wkr[q].state # "EXPIRED"
        <4>1. CASE wkr' = wkr
          BY <4>1
        <4>2. ASSUME NEW p \in app.workers, wkr' = [wkr EXCEPT ![p].state = "EXPIRED"]
              PROVE  \A q \in app.workers : wkr'[q].state # "EXPIRED" => wkr[q].state # "EXPIRED"
          <5>1. \A q \in Pid : q # p => wkr'[q] = wkr[q]
            BY <1>1, <4>2
          <5>2. wkr'[p] = [wkr[p] EXCEPT !.state = "EXPIRED"] /\ wkr[p] \in WkrType
            BY <1>1, <4>2
          <5>3. wkr'[p].state = "EXPIRED"
            BY <5>2 DEF WkrType
          <5> QED BY <1>1, <5>1, <5>3
        <4> QED BY <2>4, <4>1, <4>2
      <3>2. SamePool(app, app')
        BY <2>1, <2>4
      <3> QED BY <2>4, <3>1, <3>2, HeldVersions DEF SamePool, SameQueues, SameVersion
    <2> QED BY <1>1, <1>4, <2>3, <2>4 DEF RemoveCb, Again
  <1> QED BY <1>2, <1>3, <1>4

LEMMA AdminVersions ==
  ASSUME Versions, Ledger, Ledger', NEW c \in Ctl, Admin(c)
  PROVE  Versions'
  <1>1. Sound(app)
    BY DEF Ledger, HeadInv
  <1>2. ASSUME NEW l, Refused(c, l) PROVE Versions'
    BY <1>2, HeldVersions DEF Refused, SameVersion
  <1>3. ASSUME NEW cf \in Conf, Insert(c, cf) PROVE Versions'
    <2> DEFINE n == wr_app_new(cf, c)
    <2>1. Sound(n) /\ n.state = "NEW" /\ n.workers = {}
      BY NewAppSound DEF wr_app_new, NoApp
    <2>2. app' \in wr_app_wkr_balance(n, Unused)
      BY <1>3 DEF Insert
    <2> HIDE DEF n
    <2>3. SameQueues(n, app') /\ app'.state \in {"NEW", "ACTIVE"}
      BY <2>1, <2>2, BalancedEffect, UnusedType
    <2>4. app'.workers = {}
      BY <2>1, <2>3 DEF SameQueues
    <2> QED BY <2>3, <2>4 DEF Versions, ReloadIsUniform
  <1>4. ASSUME NEW cf \in Conf, Running, Processes({}), wkr' = wkr,
               app' \in wr_app_wkr_add(Restarted(c, cf), Unused)
        PROVE  Versions'
    <2> DEFINE a == Restarted(c, cf)
    <2>1. Sound(a) /\ a.state = "RESTART"
      BY <1>1, <1>4, RestartedSound
    <2>2. SameQueues(app, a) /\ a.pending = <<>>
      BY <1>1 DEF Restarted, SameQueues, Sound, AppType
    <2> HIDE DEF a
    <2>3. Grown(a, app', 1, Unused) /\ app'.state = "RESTART"
      BY <1>4, <2>1, WkrAddGrows, UnusedType DEF a
    <2>4. app'.workers = app.workers /\ Range(app'.pending) \subseteq Unused
      <3>1. PICK s \in Seq(Pid) : Range(s) \subseteq Unused /\ app'.pending = a.pending \o s
        BY <2>3 DEF Grown
      <3>2. app'.pending = s
        BY <2>2, <3>1
      <3> QED BY <2>2, <2>3, <3>1, <3>2 DEF Grown, SameQueues
    <2>5. \A q \in Range(app'.pending) : proc'[q] = "boot"
      <3>1. Range(app'.pending) \subseteq Pid /\ Range(app'.pending) \cap Range(app.pending) = {}
        BY <2>4, UnusedFresh, UnusedType
      <3> QED BY <1>4, <3>1 DEF Processes
    <2>6. \A q \in app'.workers : proc'[q] = proc[q]
      <3>1. app'.workers \subseteq Pid /\ Range(app'.pending) \cap app'.workers = {}
        BY DEF Ledger, BooksOf, Books, Tidy
      <3> QED BY <1>4, <3>1 DEF Processes
    <2> QED BY <2>3, <2>4, <2>5, <2>6 DEF Versions, ReloadIsUniform, Asked
  <1>5. CASE wr_app_add_cb(c)
    BY <1>2, <1>3, <1>5 DEF wr_app_add_cb
  <1>6. CASE wr_app_reload_cb(c)
    BY <1>2, <1>3, <1>4, <1>6 DEF wr_app_reload_cb
  <1>7. CASE wr_app_remove_cb(c)
    BY <1>2, <1>7, RemoveAppVersions DEF wr_app_remove_cb
  <1>8. CASE AdmClose(c)
    <2>1. app' = [app EXCEPT !.ctl = None] \/ app' = app
      BY <1>8 DEF AdmClose
    <2>2. SamePool(app, app') /\ wkr' = wkr /\ proc' = proc /\ pconf' = pconf
      BY <1>1, <1>8, <2>1 DEF AdmClose, SamePool, SameQueues, Sound, AppType
    <2> QED BY <2>2, HeldVersions DEF SamePool, SameQueues, SameVersion
  <1> QED BY <1>5, <1>6, <1>7, <1>8 DEF Admin

LEMMA VersionsInit == Init => Versions
  <1> SUFFICES ASSUME Init PROVE Versions
    OBVIOUS
  <1>1. PICK c \in Conf : app \in wr_app_wkr_balance(wr_app_new(c, None), Pid)
    BY DEF Init
  <1> DEFINE n == wr_app_new(c, None)
  <1>2. Sound(n) /\ n.state = "NEW" /\ n.workers = {}
    BY NewAppSound DEF wr_app_new, NoApp
  <1> HIDE DEF n
  <1>3. SameQueues(n, app) /\ app.state \in {"NEW", "ACTIVE"}
    BY <1>1, <1>2, BalancedEffect DEF n
  <1> QED BY <1>2, <1>3 DEF Versions, ReloadIsUniform, SameQueues

LEMMA VersionsStep == Versions /\ Ledger /\ Ledger' /\ [Next]_vars => Versions'
  <1> SUFFICES ASSUME Versions, Ledger, Ledger', [Next]_vars PROVE Versions'
    OBVIOUS
  <1>1. ASSUME NEW r \in Req, Client(r) PROVE Versions'
    BY <1>1, ClientVersions
  <1>2. ASSUME NEW p \in Pid, Worker(p) PROVE Versions'
    BY <1>2, ServingVersions, RespDoneVersions, LostVersions, StartingVersions,
       WkrAddVersions, WkrErrorVersions DEF Worker
  <1>3. ASSUME NEW p \in Pid, Failure(p) PROVE Versions'
    BY <1>3, StartingVersions, WkrAddFailsVersions DEF Failure
  <1>4. CASE AppTimer
    BY <1>4, TimerVersions, AddTimeoutVersions DEF AppTimer
  <1>5. ASSUME NEW c \in Ctl, Admin(c) PROVE Versions'
    BY <1>5, AdminVersions
  <1>6. CASE UNCHANGED vars
    BY <1>6, HeldVersions DEF vars, SameVersion
  <1> QED BY <1>1, <1>2, <1>3, <1>4, <1>5, <1>6 DEF Next

(* Once a reload has taken effect, every worker that may be given requests  *)
(* has been started with the configuration of that reload.                  *)
THEOREM HeadReloadsUniformly == Spec => []ReloadIsUniform
  <1>1. Versions => ReloadIsUniform
    BY DEF Versions
  <1> QED BY <1>1, VersionsInit, VersionsStep, LedgerInvariant, PTL DEF Spec

-----------------------------------------------------------------------------
(* An application that is not reloaded, whatever else is done to it.        *)
NoReload == app.state # "RESTART"

MaxInv == app.state # "RESTARTING" /\ AtMostMax

LEMMA CappedMax ==
  ASSUME MaxInv, Ledger, Ledger', Running, Capped(app, app'), app'.state # "RESTARTING"
  PROVE  MaxInv'
  <1>1. /\ TOTAL_WORKER_COUNT(app) \in Nat /\ TOTAL_WORKER_COUNT(app') \in Nat
        /\ app.conf \in Conf
    BY QCountType DEF Ledger, HeadInv, Sound, Running
  <1>2. /\ MinWorker[app.conf] \in Nat /\ MaxWorker[app.conf] \in Nat
        /\ MinWorker[app.conf] <= MaxWorker[app.conf]
    BY <1>1, PoolAssumption
  <1>3. TOTAL_WORKER_COUNT(app) <= MaxWorker[app.conf]
    BY DEF MaxInv, AtMostMax, TOTAL_WORKER_COUNT
  <1> HIDE DEF TOTAL_WORKER_COUNT
  <1>4. TOTAL_WORKER_COUNT(app') <= MaxWorker[app.conf] /\ app'.conf = app.conf
    BY <1>1, <1>2, <1>3 DEF Capped
  <1>5. app'.state # "NONE" => Len(app'.pending) + QCount(app') <= MaxWorker[app'.conf]
    BY <1>4 DEF TOTAL_WORKER_COUNT
  <1> QED BY <1>5 DEF MaxInv, AtMostMax, Running, QCount

LEMMA SameMax ==
  ASSUME MaxInv, app'.state = app.state, app'.conf = app.conf, app'.pending = app.pending,
         app'.workers = app.workers
  PROVE  MaxInv'
  BY DEF MaxInv, AtMostMax, Running, QCount

LEMMA LeanMax ==
  ASSUME MaxInv, Ledger, Ledger', Running, app'.conf = app.conf, app'.state # "RESTARTING",
         app'.workers \subseteq app.workers, Len(app'.pending) <= Len(app.pending)
  PROVE  MaxInv'
  <1>1. app \in AppType /\ app' \in AppType
    BY DEF Ledger, HeadInv, Sound
  <1> QED BY <1>1, LeanCapped, CappedMax

LEMMA RemoveAppMax ==
  ASSUME NEW ks, RemoveApp(ks)
  PROVE  MaxInv'
  BY DEF RemoveApp, NoApp, MaxInv, AtMostMax, Running

LEMMA ClientMax ==
  ASSUME MaxInv, Ledger, NEW r \in Req, Client(r)
  PROVE  MaxInv'
  <1>0. app \in AppType /\ app.messages \in Seq(Req)
    BY DEF Ledger, HeadInv, Sound, AppType
  <1>1. CASE app' = app
    BY <1>1, SameMax
  <1>2. CASE app' = Unqueue(r)
    <2>1. /\ app'.workers = app.workers /\ app'.pending = app.pending
          /\ app'.state = app.state /\ app'.conf = app.conf
      BY <1>0, <1>2 DEF Unqueue, AppType
    <2> QED BY <2>1, SameMax
  <1>3. CASE ReqComplete(r) /\ ~(Len(app.messages) >= MsgQueueSize)
    <2> DEFINE m == [app EXCEPT !.messages = Append(@, r)]
               a == wr_app_chk_load_to_add_wkr(m)
    <2>0. Append(app.messages, r) \in Seq(Req)
      BY <1>0
    <2>1. m \in AppType
      BY <1>0, <2>0 DEF AppType
    <2>2. a \in AppType /\ (a = m \/ \E t \in BOOLEAN : a = [m EXCEPT !.tAdd = t])
      BY <2>1, ChkAddSound
    <2>3. /\ a.state = app.state /\ a.conf = app.conf
          /\ a.pending = app.pending /\ a.workers = app.workers
      BY <1>0, <2>2 DEF AppType
    <2>4. app' = a \/ app' = [a EXCEPT !.messages = Tail(@), !.free = Tail(@)]
      BY <1>3 DEF ReqComplete
    <2> HIDE DEF a, m
    <2>5. /\ app'.workers = app.workers /\ app'.pending = app.pending
          /\ app'.state = app.state /\ app'.conf = app.conf
      BY <2>2, <2>3, <2>4 DEF AppType
    <2> QED BY <2>5, SameMax
  <1> QED BY <1>1, <1>2, <1>3 DEF Client, ReqHeaders, ReqComplete, ReqAbort

LEMMA LossMax ==
  ASSUME MaxInv, Ledger, Ledger', Running, NEW p \in Pid, NEW m, SamePool(app, m), Sound(m),
         app' = wr_wkr_free(m, p) \/ app' \in wr_app_wkr_balance(wr_wkr_free(m, p), Unused)
  PROVE  MaxInv'
  <1>1. Capped(app, app') /\ app'.state \in {app.state, "ACTIVE"}
    BY FreedEffect
  <1> QED BY <1>1, CappedMax DEF MaxInv

LEMMA RespDoneMax ==
  ASSUME MaxInv, Ledger, Ledger', NEW p \in Pid, RespDone(p)
  PROVE  MaxInv'
  <1>1. Running /\ Sound(app) /\ Tidy(app)
    BY AliveRunning DEF RespDone, NoWkr, Ledger, HeadInv
  <1>2. p \in app.workers /\ p \notin Range(app.free)
    <2>1. wkr[p].phase # "idle"
      BY DEF RespDone
    <2> QED BY <2>1, NoWkrIdle DEF Ledger, BooksOf, Books, WorkerBook, Idle
  <1>3. CASE app' = wr_wkr_free(app, p)
    BY <1>1, <1>3, LossMax, SamePoolSelf
  <1>4. CASE app' = wr_wrk_allocate(app, p)
    <2>1. /\ app'.workers = app.workers /\ app'.pending = app.pending
          /\ app'.state = app.state /\ app'.conf = app.conf
      BY <1>1, <1>2, <1>4, AllocateEffect
    <2> QED BY <2>1, SameMax
  <1> QED BY <1>3, <1>4 DEF RespDone

LEMMA LostMax ==
  ASSUME MaxInv, Ledger, Ledger', NEW p \in Pid,
         RespError(p) \/ CtlClosed(p) \/ WaitTimeout(p)
  PROVE  MaxInv'
  <1>1. Running /\ Sound(app) /\ SamePool(app, app)
    <2>1. CASE RespError(p) \/ WaitTimeout(p)
      BY <2>1, AliveRunning, SamePoolSelf DEF RespError, WaitTimeout, NoWkr, Ledger, HeadInv
    <2>2. CASE CtlClosed(p)
      BY <2>2, SamePoolSelf DEF CtlClosed, Ledger, HeadInv, Gone, Running, NoApp
    <2> QED BY <2>1, <2>2
  <1>2. CASE \/ app' = wr_wkr_free(app, p)
             \/ app' \in wr_app_wkr_balance(wr_wkr_free(app, p), Unused)
    BY <1>1, <1>2, LossMax
  <1>3. CASE app' = app
    BY <1>3, SameMax
  <1> QED BY <1>2, <1>3 DEF RespError, CtlClosed, AfterLoss, WaitTimeout

(* A worker that registers was pending before: the number stays the same.   *)
LEMMA WkrAddMax ==
  ASSUME MaxInv, NoReload, Ledger, Ledger', NEW p \in Pid, WkrAdd(p) \/ WkrAddFails(p)
  PROVE  MaxInv'
  <1> DEFINE i == Inserted(p)
             a == [i EXCEPT !.workers = @ \cup {p}, !.low = (QCount(i) + 1) * MinReqRatio]
             b == wr_wrk_allocate(a, p)
  <1>1. Running /\ p \in Range(app.pending) /\ Sound(app)
    BY DEF WkrAdd, WkrAddFails, Wanted, Ledger, HeadInv
  <1>2. Discarded = {}
    BY DEF Discarded, NoReload
  <1>3. /\ i.workers = app.workers /\ Len(i.pending) = Len(app.pending) - 1
        /\ i.conf = app.conf /\ i.state \in {app.state, "ACTIVE"} /\ Tidy(i)
    BY <1>1, <1>2, InsertedEffect DEF NoReload
  <1>4. Sound(i) /\ i.state # "NONE"
    BY <1>1, InsertedSound DEF Ledger
  <1>5. CASE WkrAddFails(p)
    <2>1. app' = [i EXCEPT !.high = TOTAL_WORKER_COUNT(i) * MaxReqRatio]
      BY <1>5 DEF WkrAddFails
    <2> HIDE DEF i
    <2>2. SamePool(i, app')
      BY <1>4, <2>1 DEF SamePool, SameQueues, Sound, AppType
    <2>3. Len(app'.pending) <= Len(app.pending) /\ app'.workers \subseteq app.workers
          /\ app'.conf = app.conf /\ app'.state # "RESTARTING"
      BY <1>1, <1>3, <2>2 DEF SamePool, SameQueues, Sound, AppType, MaxInv
    <2> QED BY <1>1, <2>3, LeanMax
  <1>6. CASE WkrAdd(p)
    <2>1. HasSlot(i) /\ app' \in wr_app_wkr_balance(b, Unused)
      BY <1>6 DEF WkrAdd
    <2>2. /\ Sound(a) /\ Tidy(a) /\ a.workers = i.workers \cup {p} /\ a.pending = i.pending
          /\ a.state = i.state /\ a.conf = i.conf /\ p \notin i.workers /\ a.free = i.free
          /\ QCount(a) = QCount(i) + 1 /\ QCount(i) \in Nat
      BY <1>1, <2>1, EnlistedEffect
    <2> HIDE DEF i, a
    <2>3. p \notin Range(a.free) /\ p \in a.workers
      BY <1>3, <2>2 DEF Tidy
    <2>4. /\ b.workers = a.workers /\ b.pending = a.pending /\ b.state = a.state
          /\ b.conf = a.conf /\ Sound(b)
      BY <2>2, <2>3, AllocateEffect, AllocateSound
    <2> HIDE DEF b
    <2>5. Capped(b, app') /\ app'.state \in {b.state, "ACTIVE"} /\ Sound(app')
      BY <1>4, <2>1, <2>2, <2>4, BalancedEffect, BalanceSound, UnusedType
    <2>6. TOTAL_WORKER_COUNT(b) = TOTAL_WORKER_COUNT(app)
      <3>1. QCount(b) = QCount(a) /\ QCount(i) = QCount(app)
        BY <1>3, <2>4 DEF QCount
      <3>2. Len(app.pending) \in Nat
        BY <1>1 DEF Sound, AppType
      <3> QED BY <1>3, <2>2, <2>4, <3>1, <3>2 DEF TOTAL_WORKER_COUNT
    <2>7. Capped(app, b)
      <3>1. TOTAL_WORKER_COUNT(app) \in Nat
        BY <1>1, QCountType DEF Sound
      <3> QED BY <1>3, <2>2, <2>4, <2>6, <3>1 DEF Capped
    <2>8. Capped(app, app')
      BY <1>1, <2>4, <2>5, <2>7, CappedTwice DEF Sound, Running
    <2>9. app'.state # "RESTARTING"
      BY <1>3, <2>2, <2>4, <2>5 DEF MaxInv
    <2> QED BY <1>1, <2>8, <2>9, CappedMax
  <1> QED BY <1>5, <1>6

LEMMA WkrErrorMax ==
  ASSUME MaxInv, NoReload, Ledger, Ledger', NEW p \in Pid, WkrError(p)
  PROVE  MaxInv'
  <1>1. Sound(app) /\ Tidy(app)
    BY DEF Ledger, HeadInv
  <1>2. CASE RemoveApp({p})
    BY <1>2, RemoveAppMax
  <1>3. CASE app' = app
    BY <1>3, SameMax
  <1>4. CASE Running /\ app' = Answered(wr_pending_worker_exist(app, p))
    <2> DEFINE e == wr_pending_worker_exist(app, p)
    <2>1. /\ SameQueues(app, e) /\ Sound(e) /\ e.state = app.state /\ e.conf = app.conf
          /\ p \in Range(app.pending) => Len(e.pending) = Len(app.pending) - 1
          /\ p \notin Range(app.pending) => e = app
      BY <1>1, PendingExistEffect, PendingExistSound DEF wr_pending_worker_exist
    <2> HIDE DEF e
    <2>2. SamePool(e, app')
      BY <1>4, <2>1, AnsweredSame DEF e
    <2>3. Len(app'.pending) <= Len(app.pending)
      BY <1>1, <2>1, <2>2 DEF SamePool, Sound, AppType
    <2>4. app'.workers = app.workers /\ app'.conf = app.conf /\ app'.state # "RESTARTING"
      BY <2>1, <2>2 DEF SamePool, SameQueues, MaxInv
    <2> QED BY <1>4, <2>3, <2>4, LeanMax
  <1> QED BY <1>2, <1>3, <1>4 DEF WkrError, NoReload

LEMMA TimerMax ==
  ASSUME MaxInv, NoReload, Ledger, Ledger', AppTimer
  PROVE  MaxInv'
  <1>1. Sound(app) /\ Tidy(app) /\ app.workers \subseteq Pid
    BY DEF Ledger, HeadInv, Sound, AppType
  <1>2. Running
    BY DEF AppTimer, WaitOver, AddTimeout, AddCb, RemoveCb, Ledger, HeadInv, Gone, Running, NoApp
  <1>3. CASE WaitOver
    <2>1. SamePool(app, app')
      BY <1>1, <1>3 DEF WaitOver, SamePool, SameQueues, Sound, AppType
    <2> QED BY <2>1, SameMax DEF SamePool, SameQueues
  <1>4. CASE AddTimeout
    <2>1. /\ SameQueues(app, TimedOut) /\ TimedOut.state = app.state
          /\ Len(TimedOut.pending) <= Len(app.pending)
          /\ TimedOut.conf = app.conf /\ Sound(TimedOut)
      BY <1>1, <1>4, TimedOutEffect, TimedOutSound DEF AddTimeout
    <2>2. Capped(app, TimedOut)
      BY <1>1, <2>1, LeanCapped DEF SameQueues, Sound
    <2>3. CASE RemoveApp(Killed)
      BY <2>3, RemoveAppMax
    <2>4. CASE app' = TimedOut
      BY <1>2, <2>1, <2>2, <2>4, CappedMax DEF MaxInv
    <2>5. CASE app' \in wr_app_wkr_balance(TimedOut, Unused)
      <3>1. Capped(TimedOut, app') /\ app'.state \in {app.state, "ACTIVE"} /\ Sound(app')
        BY <1>2, <2>1, <2>5, BalancedEffect, BalanceSound, UnusedType DEF Running
      <3>2. Capped(app, app')
        BY <1>1, <1>2, <2>1, <2>2, <3>1, CappedTwice DEF Sound, Running
      <3> QED BY <1>2, <3>1, <3>2, CappedMax DEF MaxInv
    <2> QED BY <1>4, <2>3, <2>4, <2>5 DEF AddTimeout, NoReload
  <1>5. CASE AddCb
    <2> DEFINE a == [app EXCEPT !.tAdd = FALSE]
    <2>1. Sound(a) /\ SamePool(app, a) /\ TOTAL_WORKER_COUNT(a) \in Nat
      <3>1. Sound(a) /\ SamePool(app, a)
        BY <1>1 DEF Sound, AppType, SamePool, SameQueues
      <3> QED BY <3>1, QCountType DEF Sound
    <2>2. \/ app' \in wr_app_wkr_add(a, Unused) /\ TOTAL_WORKER_COUNT(a) < MaxWorker[a.conf]
          \/ app' = a
      BY <1>5 DEF AddCb
    <2> HIDE DEF a
    <2>3. CASE app' = a
      BY <2>1, <2>3, SameMax DEF SamePool, SameQueues
    <2>4. CASE app' \in wr_app_wkr_add(a, Unused) /\ TOTAL_WORKER_COUNT(a) < MaxWorker[a.conf]
      <3>1. Grown(a, app', 1, Unused) /\ app'.state = a.state
        BY <2>1, <2>4, WkrAddGrows, UnusedType
      <3>2. PICK s \in Seq(Pid) : app'.pending = a.pending \o s /\ Len(s) <= 1
        BY <3>1 DEF Grown
      <3>3. a.pending \in Seq(Pid) /\ QCount(a) \in Nat /\ MaxWorker[a.conf] \in Nat
        BY <1>2, <2>1, QCountType, PoolAssumption DEF Sound, AppType, SamePool, Running
      <3>4. Len(app'.pending) = Len(a.pending) + Len(s) /\ QCount(app') = QCount(a)
            /\ app'.conf = a.conf
        BY <3>1, <3>2, <3>3 DEF Grown, SameQueues, QCount
      <3>5. Len(app'.pending) + QCount(app') <= MaxWorker[app'.conf]
        BY <2>4, <3>2, <3>3, <3>4 DEF TOTAL_WORKER_COUNT
      <3> QED BY <2>1, <3>1, <3>5 DEF MaxInv, AtMostMax, SamePool, Running, QCount
    <2> QED BY <2>2, <2>3, <2>4
  <1>6. CASE RemoveCb
    <2> DEFINE Again(n) == [app EXCEPT !.tRemove = n > MinWorker[app.conf]]
    <2>1. ASSUME NEW n PROVE Sound(Again(n)) /\ SamePool(app, Again(n))
      <3>1. (n > MinWorker[app.conf]) \in BOOLEAN
        OBVIOUS
      <3> QED BY <1>1, <3>1 DEF Sound, AppType, SamePool, SameQueues
    <2> HIDE DEF Again
    <2>2. ASSUME NEW p \in Pid, NEW n, app' = wr_wkr_free(Again(n), p)
          PROVE  MaxInv'
      BY <1>2, <2>1, <2>2, LossMax
    <2>3. ASSUME NEW n, app' = Again(n)
          PROVE  MaxInv'
      BY <2>1, <2>3, SameMax DEF SamePool, SameQueues
    <2> QED BY <1>1, <1>6, <2>2, <2>3 DEF RemoveCb, Again
  <1> QED BY <1>3, <1>4, <1>5, <1>6 DEF AppTimer

(* A new application starts with nothing and is given min_worker processes. *)
LEMMA NewMax ==
  ASSUME NEW cf \in Conf, NEW c \in Ctl \cup {None}, NEW pids \in SUBSET Pid,
         NEW b \in wr_app_wkr_balance(wr_app_new(cf, c), pids)
  PROVE  /\ b.state # "RESTARTING"
         /\ Len(b.pending) + QCount(b) <= MaxWorker[b.conf]
  <1> DEFINE n == wr_app_new(cf, c)
  <1>1. Sound(n) /\ n.state = "NEW"
    BY NewAppSound
  <1>2. n.workers = {} /\ n.pending = <<>> /\ n.conf = cf
    BY DEF wr_app_new, NoApp
  <1> HIDE DEF n
  <1>3. Capped(n, b) /\ b.state \in {"NEW", "ACTIVE"} /\ Sound(b)
    BY <1>1, BalancedEffect, BalanceSound DEF n
  <1>4. TOTAL_WORKER_COUNT(n) = 0
    BY <1>2, FS_EmptySet DEF TOTAL_WORKER_COUNT, QCount
  <1>5. TOTAL_WORKER_COUNT(b) \in Nat
    BY <1>3, QCountType DEF Sound
  <1>6. /\ MinWorker[cf] \in Nat /\ MaxWorker[cf] \in Nat /\ MinWorker[cf] <= MaxWorker[cf]
    BY PoolAssumption
  <1>7. TOTAL_WORKER_COUNT(b) <= MaxWorker[cf] /\ b.conf = cf
    <2> HIDE DEF TOTAL_WORKER_COUNT
    <2> QED BY <1>2, <1>3, <1>4, <1>5, <1>6 DEF Capped
  <1> QED BY <1>3, <1>7 DEF TOTAL_WORKER_COUNT

LEMMA AdminMax ==
  ASSUME MaxInv, NoReload', Ledger, NEW c \in Ctl, Admin(c)
  PROVE  MaxInv'
  <1>1. Sound(app)
    BY DEF Ledger, HeadInv
  <1>2. ASSUME NEW l, Refused(c, l) PROVE MaxInv'
    BY <1>2, SameMax DEF Refused
  <1>3. ASSUME NEW cf \in Conf, Insert(c, cf) PROVE MaxInv'
    <2>1. app' \in wr_app_wkr_balance(wr_app_new(cf, c), Unused)
      BY <1>3 DEF Insert
    <2>2. /\ app'.state # "RESTARTING"
          /\ Len(app'.pending) + QCount(app') <= MaxWorker[app'.conf]
      BY <2>1, NewMax, UnusedType
    <2> QED BY <2>2 DEF MaxInv, AtMostMax, QCount
  <1>4. ASSUME NEW cf \in Conf, Running, app' \in wr_app_wkr_add(Restarted(c, cf), Unused)
        PROVE  FALSE
    <2>1. Sound(Restarted(c, cf)) /\ Restarted(c, cf).state = "RESTART"
      BY <1>1, <1>4, RestartedSound
    <2>2. app'.state = "RESTART"
      BY <1>4, <2>1, WkrAddSound, UnusedType
    <2> QED BY <2>2 DEF NoReload
  <1>5. CASE wr_app_add_cb(c)
    BY <1>2, <1>3, <1>5 DEF wr_app_add_cb
  <1>6. CASE wr_app_reload_cb(c)
    BY <1>2, <1>3, <1>4, <1>6 DEF wr_app_reload_cb
  <1>7. CASE wr_app_remove_cb(c)
    BY <1>2, <1>7, RemoveAppMax DEF wr_app_remove_cb
  <1>8. CASE AdmClose(c)
    <2>1. app' = [app EXCEPT !.ctl = None] \/ app' = app
      BY <1>8 DEF AdmClose
    <2>2. SamePool(app, app')
      BY <1>1, <2>1 DEF SamePool, SameQueues, Sound, AppType
    <2> QED BY <2>2, SameMax DEF SamePool, SameQueues
  <1> QED BY <1>5, <1>6, <1>7, <1>8 DEF Admin

LEMMA MaxStep ==
  MaxInv /\ NoReload /\ NoReload' /\ Ledger /\ Ledger' /\ [Next]_vars => MaxInv'
  <1> SUFFICES ASSUME MaxInv, NoReload, NoReload', Ledger, Ledger', [Next]_vars PROVE MaxInv'
    OBVIOUS
  <1>1. ASSUME NEW r \in Req, Client(r) PROVE MaxInv'
    BY <1>1, ClientMax
  <1>2. CASE app' = app
    BY <1>2, SameMax
  <1>3. ASSUME NEW p \in Pid, Worker(p) \/ Failure(p) PROVE MaxInv'
    <2>1. CASE \/ ReqSent(p) \/ RespChunk(p) \/ PingReply(p) \/ ConfReq(p) \/ Loaded(p)
               \/ WkrRejected(p) \/ LoadFailed(p) \/ BootDies(p) \/ Crash(p) \/ Hang(p)
      BY <1>2, <2>1 DEF ReqSent, RespChunk, PingReply, ConfReq, Loaded, WkrRejected,
                        LoadFailed, BootDies, Crash, Hang
    <2> QED BY <1>3, <2>1, RespDoneMax, LostMax, WkrAddMax, WkrErrorMax DEF Worker, Failure
  <1>4. CASE AppTimer
    BY <1>4, TimerMax
  <1>5. ASSUME NEW c \in Ctl, Admin(c) PROVE MaxInv'
    BY <1>5, AdminMax
  <1>6. CASE UNCHANGED vars
    BY <1>2, <1>6 DEF vars
  <1> QED BY <1>1, <1>3, <1>4, <1>5, <1>6 DEF Next

(* As long as an application is not reloaded, load, failures, starts and    *)
(* removals never drive it beyond max_worker processes.                     *)
THEOREM HeadAtMostMax == Spec /\ []NoReload => []AtMostMax
  <1>1. Init => MaxInv
    BY NewMax DEF Init, MaxInv, AtMostMax, QCount
  <1>2. MaxInv => AtMostMax
    BY DEF MaxInv
  <1> QED BY <1>1, <1>2, MaxStep, LedgerInvariant, PTL DEF Spec

-----------------------------------------------------------------------------
(* A pool that is full stays full, while the head can fork and connect.     *)

(* Applications load, the head can connect to the workers, and the pending  *)
(* queue has room for a whole pool.                                         *)
Reliable ==
  /\ {"load", "connect"} \cap Faults = {}
  /\ \A c \in Conf : MinWorker[c] <= PendingCap

(* fork succeeds, and no worker is leaving because the load was low: such a *)
(* worker may be one too many to lose when its request is over.             *)
Forkable == Unused # {} /\ \A p \in Pid : wkr[p].state # "EXPIRED"

Loads == \A p \in Pid : proc[p] # "err"

Refilled == Full(app') \/ app'.counter >= AddTrials \/ LostServing

(* One missing worker is forked by wr_app_wkr_balance. *)
LEMMA BalanceRefills ==
  ASSUME NEW a, Sound(a), a.state = "ACTIVE", NEW pids \in SUBSET Pid, pids # {},
         MinWorker[a.conf] <= PendingCap,
         TOTAL_WORKER_COUNT(a) >= MinWorker[a.conf] - 1 \/ a.counter >= AddTrials,
         NEW b \in wr_app_wkr_balance(a, pids)
  PROVE  Full(b) \/ b.counter >= AddTrials
  <1> DEFINE k == MinWorker[a.conf] - TOTAL_WORKER_COUNT(a)
             Added(s) == IF s = <<>> THEN a
                         ELSE [Forked(a, s) EXCEPT
                                 !.low = (TOTAL_WORKER_COUNT(a) + Len(s)) * MinReqRatio]
  <1>1. /\ TOTAL_WORKER_COUNT(a) \in Nat /\ QCount(a) \in Nat /\ MinWorker[a.conf] \in Nat
        /\ a.pending \in Seq(Pid) /\ Len(a.pending) \in Nat /\ a.counter \in Nat
    BY QCountType, PoolAssumption DEF Sound, AppType
  <1>2. k \in Int
    BY <1>1
  <1>3. PICK s \in ForkSeqs(a, k, pids) :
          b = IF Added(s).state = "RESTART" /\ QCount(Added(s)) >= MinWorker[Added(s).conf]
                THEN SettleRestart(Added(s)) ELSE Added(s)
    BY DEF wr_app_wkr_balance
  <1>4. s \in Seq(Pid) /\ (s # <<>> => a.counter < AddTrials)
    BY <1>2, ForkSeqsType
  <1>5. /\ SameQueues(a, Forked(a, s)) /\ Forked(a, s).pending = a.pending \o s
        /\ Forked(a, s).conf = a.conf /\ Forked(a, s).state = a.state
        /\ Forked(a, s) \in AppType
    BY <1>4, ForkedGrows, ForkedSound DEF Sound
  <1>6. Forked(a, s).counter = a.counter
    BY DEF Forked, Sound, AppType
  <1>7. /\ Added(s).workers = a.workers /\ Added(s).pending = a.pending \o s
        /\ Added(s).conf = a.conf /\ Added(s).state = "ACTIVE" /\ Added(s).counter = a.counter
    <2>1. CASE s = <<>>
      <3>1. Added(s) = a /\ Forked(a, s) = a
        BY <2>1 DEF Forked
      <3> QED BY <1>5, <3>1
    <2>2. CASE s # <<>>
      BY <1>5, <1>6, <2>2 DEF SameQueues, AppType
    <2> QED BY <2>1, <2>2
  <1> HIDE DEF Added
  <1>8. /\ b.workers = a.workers /\ b.pending = a.pending \o s
        /\ b.conf = a.conf /\ b.state = "ACTIVE" /\ b.counter = a.counter
    BY <1>3, <1>7
  <1>9. TOTAL_WORKER_COUNT(b) = TOTAL_WORKER_COUNT(a) + Len(s) /\ Len(s) \in Nat
    BY <1>1, <1>4, <1>8 DEF TOTAL_WORKER_COUNT, QCount
  <1>10. CASE a.counter >= AddTrials
    BY <1>8, <1>10
  <1>11. CASE k <= 0
    <2> HIDE DEF TOTAL_WORKER_COUNT
    <2> QED BY <1>1, <1>8, <1>9, <1>11 DEF Full, k
  <1>12. CASE a.counter < AddTrials /\ k = 1
    <2>1. Len(a.pending) < PendingCap
      BY <1>1, <1>12, PoolAssumption DEF TOTAL_WORKER_COUNT, k
    <2>2. ForkRoom(a, k) = 1
      <3> HIDE DEF k
      <3> QED BY <1>1, <1>12, <2>1, PoolAssumption DEF ForkRoom
    <2>3. Len(s) < ForkRoom(a, k) => Range(s) = pids
      BY DEF ForkSeqs
    <2>4. s # <<>>
      BY <2>2, <2>3, EmptyDistinct
    <2>5. Len(s) >= 1
      BY <1>4, <2>4
    <2> HIDE DEF TOTAL_WORKER_COUNT
    <2> QED BY <1>1, <1>8, <1>9, <1>12, <2>5 DEF Full, k
  <1>13. k <= 0 \/ k = 1 \/ a.counter >= AddTrials
    <2> HIDE DEF TOTAL_WORKER_COUNT
    <2> QED BY <1>1 DEF k
  <1> QED BY <1>1, <1>10, <1>11, <1>12, <1>13, PoolAssumption

LEMMA SameFull ==
  ASSUME NEW a, NEW b, Full(a), b.state = a.state, b.conf = a.conf, b.pending = a.pending,
         b.workers = a.workers
  PROVE  Full(b)
  BY DEF Full, TOTAL_WORKER_COUNT, QCount

(* Forking, whether it succeeds or not, takes nothing away. *)
LEMMA GrownFull ==
  ASSUME NEW a, Sound(a), Full(a), NEW b, NEW k, NEW pids, Grown(a, b, k, pids),
         b.state = a.state
  PROVE  Full(b)
  <1>1. PICK s \in Seq(Pid) : b.pending = a.pending \o s
    BY DEF Grown
  <1>2. b.workers = a.workers /\ b.conf = a.conf
    BY DEF Grown, SameQueues
  <1>3. /\ a.pending \in Seq(Pid) /\ QCount(a) \in Nat /\ MinWorker[a.conf] \in Nat
        /\ QCount(b) = QCount(a)
    BY <1>2, QCountType, PoolAssumption DEF Sound, AppType, Full, QCount
  <1>4. Len(b.pending) >= Len(a.pending) /\ Len(b.pending) \in Nat /\ Len(a.pending) \in Nat
    BY <1>1, <1>3
  <1> QED BY <1>2, <1>3, <1>4 DEF Full, TOTAL_WORKER_COUNT

(* Losing one worker leaves at most one missing. *)
LEMMA FreedTotal ==
  ASSUME NEW a, Sound(a), Tidy(a), NEW p
  PROVE  TOTAL_WORKER_COUNT(wr_wkr_free(a, p)) >= TOTAL_WORKER_COUNT(a) - 1
  <1> DEFINE b == wr_wkr_free(a, p)
  <1>1. b.workers = a.workers \ {p} /\ b.pending = a.pending
    BY WkrFreeEffect
  <1>2. IsFiniteSet(a.workers) /\ QCount(a) \in Nat /\ Len(a.pending) \in Nat
    BY WorkersFinite DEF Sound, AppType
  <1>3. Cardinality(a.workers \ {p}) >= Cardinality(a.workers) - 1
        /\ Cardinality(a.workers \ {p}) \in Nat
    <2>1. Cardinality(a.workers \ {p}) =
            IF p \in a.workers THEN Cardinality(a.workers) - 1 ELSE Cardinality(a.workers)
      BY <1>2, FS_RemoveElement
    <2>2. IsFiniteSet(a.workers \ {p})
      BY <1>2, FS_Subset
    <2> QED BY <1>2, <2>1, <2>2, FS_CardinalityType DEF QCount
  <1> HIDE DEF b
  <1>4. TOTAL_WORKER_COUNT(b) >= TOTAL_WORKER_COUNT(a) - 1
    BY <1>1, <1>2, <1>3 DEF TOTAL_WORKER_COUNT, QCount
  <1> QED BY <1>4 DEF b

LEMMA LossRefilled ==
  ASSUME Reliable, Forkable, Ledger, Full(app), NEW p \in Pid,
         app' \in wr_app_wkr_balance(wr_wkr_free(app, p), Unused)
  PROVE  Refilled
  <1> DEFINE a == wr_wkr_free(app, p)
  <1>1. Sound(app) /\ Tidy(app) /\ app.state = "ACTIVE" /\ app.conf \in Conf
    BY DEF Ledger, HeadInv, Full, Sound
  <1>2. a.state = "ACTIVE" /\ a.conf = app.conf /\ Sound(a)
    BY <1>1, WkrFreeEffect, WkrFreeSound
  <1>3. TOTAL_WORKER_COUNT(a) >= TOTAL_WORKER_COUNT(app) - 1
    BY <1>1, FreedTotal
  <1>4. /\ TOTAL_WORKER_COUNT(a) \in Nat /\ TOTAL_WORKER_COUNT(app) \in Nat
        /\ MinWorker[app.conf] \in Nat
    BY <1>1, <1>2, QCountType, PoolAssumption DEF Sound
  <1> HIDE DEF a, TOTAL_WORKER_COUNT
  <1>5. TOTAL_WORKER_COUNT(a) >= MinWorker[a.conf] - 1
    BY <1>2, <1>3, <1>4 DEF Full
  <1>6. MinWorker[a.conf] <= PendingCap
    BY <1>1, <1>2 DEF Reliable
  <1>7. app' \in wr_app_wkr_balance(a, Unused)
    BY DEF a
  <1>8. Full(app') \/ app'.counter >= AddTrials
    BY <1>2, <1>5, <1>6, <1>7, BalanceRefills, UnusedType DEF Forkable
  <1> QED BY <1>8 DEF Refilled

LEMMA ClientRefilled ==
  ASSUME Ledger, Full(app), NEW r \in Req, Client(r)
  PROVE  Refilled
  <1>0. app \in AppType /\ app.messages \in Seq(Req)
    BY DEF Ledger, HeadInv, Sound, AppType
  <1>1. CASE app' = app
    BY <1>1, SameFull DEF Refilled
  <1>2. CASE app' = Unqueue(r)
    <2>1. /\ app'.workers = app.workers /\ app'.pending = app.pending
          /\ app'.state = app.state /\ app'.conf = app.conf
      BY <1>0, <1>2 DEF Unqueue, AppType
    <2> QED BY <2>1, SameFull DEF Refilled
  <1>3. CASE ReqComplete(r) /\ ~(Len(app.messages) >= MsgQueueSize)
    <2> DEFINE m == [app EXCEPT !.messages = Append(@, r)]
               a == wr_app_chk_load_to_add_wkr(m)
    <2>0. Append(app.messages, r) \in Seq(Req)
      BY <1>0
    <2>1. m \in AppType
      BY <1>0, <2>0 DEF AppType
    <2>2. a \in AppType /\ (a = m \/ \E t \in BOOLEAN : a = [m EXCEPT !.tAdd = t])
      BY <2>1, ChkAddSound
    <2>3. /\ a.state = app.state /\ a.conf = app.conf
          /\ a.pending = app.pending /\ a.workers = app.workers
      BY <1>0, <2>2 DEF AppType
    <2>4. app' = a \/ app' = [a EXCEPT !.messages = Tail(@), !.free = Tail(@)]
      BY <1>3 DEF ReqComplete
    <2> HIDE DEF a, m
    <2>5. /\ app'.workers = app.workers /\ app'.pending = app.pending
          /\ app'.state = app.state /\ app'.conf = app.conf
      BY <2>2, <2>3, <2>4 DEF AppType
    <2> QED BY <2>5, SameFull DEF Refilled
  <1> QED BY <1>1, <1>2, <1>3 DEF Client, ReqHeaders, ReqComplete, ReqAbort

LEMMA RespDoneRefilled ==
  ASSUME Forkable, Ledger, Full(app), NEW p \in Pid, RespDone(p)
  PROVE  Refilled
  <1>1. Sound(app) /\ Tidy(app)
    BY DEF Ledger, HeadInv
  <1>2. p \in app.workers /\ p \notin Range(app.free)
    <2>1. wkr[p].phase # "idle"
      BY DEF RespDone
    <2> QED BY <2>1, NoWkrIdle DEF Ledger, BooksOf, Books, WorkerBook, Idle
  <1>3. app' = wr_wrk_allocate(app, p)
    BY DEF RespDone, Forkable
  <1>4. /\ app'.workers = app.workers /\ app'.pending = app.pending
        /\ app'.state = app.state /\ app'.conf = app.conf
    BY <1>1, <1>2, <1>3, AllocateEffect
  <1> QED BY <1>4, SameFull DEF Refilled

(* A worker that hangs, or whose control connection closes, is replaced; a  *)
(* dead one that was serving may be noticed on its request socket instead.  *)
LEMMA LostRefilled ==
  ASSUME Reliable, Forkable, Ledger, Full(app), NEW p \in Pid,
         RespError(p) \/ CtlClosed(p) \/ WaitTimeout(p)
  PROVE  Refilled
  <1>1. Sound(app) /\ Tidy(app) /\ app.state = "ACTIVE"
    BY DEF Ledger, HeadInv, Full
  <1>2. wr_wkr_free(app, p).state = "ACTIVE" /\ wr_wkr_free(app, p).workers = app.workers \ {p}
    BY <1>1, WkrFreeEffect
  <1>3. CASE RespError(p)
    <2>1. wkr[p].phase # "idle" /\ proc[p] = "dead" /\ app'.workers = app.workers \ {p}
      BY <1>2, <1>3 DEF RespError
    <2>2. p \in app.workers /\ p \notin Range(app.free)
      BY <2>1, NoWkrIdle DEF Ledger, BooksOf, Books, WorkerBook, Idle
    <2>3. wkr[p].req # None
      BY <2>2 DEF Ledger, BooksOf, Books, WorkerBook, InUse
    <2> QED BY <2>1, <2>2, <2>3 DEF LostServing, Refilled
  <1>4. CASE CtlClosed(p)
    <2>1. app' \in wr_app_wkr_balance(wr_wkr_free(app, p), Unused)
      BY <1>2, <1>4 DEF CtlClosed, AfterLoss
    <2> QED BY <2>1, LossRefilled
  <1>5. CASE WaitTimeout(p)
    <2>1. CASE app' = app
      BY <2>1, SameFull DEF Refilled
    <2>2. CASE app' \in wr_app_wkr_balance(wr_wkr_free(app, p), Unused)
      BY <2>2, LossRefilled
    <2> QED BY <1>5, <2>1, <2>2 DEF WaitTimeout, Forkable
  <1> QED BY <1>3, <1>4, <1>5

(* A worker that registers was pending before, and max_worker never exceeds *)
(* the slots of q_workers: it is not dropped.                               *)
LEMMA WkrAddRefilled ==
  ASSUME Reliable, Ledger, Full(app), NEW p \in Pid, WkrAdd(p) \/ WkrAddFails(p)
  PROVE  Refilled
  <1> DEFINE i == Inserted(p)
             a == [i EXCEPT !.workers = @ \cup {p}, !.low = (QCount(i) + 1) * MinReqRatio]
             b == wr_wrk_allocate(a, p)
  <1>1. Running /\ p \in Range(app.pending) /\ Sound(app) /\ app.state = "ACTIVE"
    BY DEF WkrAdd, WkrAddFails, Wanted, Ledger, HeadInv, Full
  <1>2. Discarded = {}
    BY <1>1 DEF Discarded
  <1>3. /\ i.workers = app.workers /\ Len(i.pending) = Len(app.pending) - 1
        /\ i.conf = app.conf /\ i.state = "ACTIVE" /\ Tidy(i)
    BY <1>1, <1>2, InsertedEffect
  <1>4. HasSlot(i)
    <2>1. MaxWorker[app.conf] > QCount(app) /\ app.conf \in Conf /\ QCount(app) \in Nat
      BY <1>1, QCountType DEF WkrAdd, WkrAddFails, Wanted, Sound
    <2>2. QCount(i) = QCount(app)
      BY <1>3 DEF QCount
    <2> HIDE DEF i
    <2> QED BY <2>1, <2>2, PoolAssumption DEF HasSlot
  <1>5. app' \in wr_app_wkr_balance(b, Unused)
    BY <1>4 DEF WkrAdd, WkrAddFails, Fault, Reliable
  <1>6. /\ Sound(a) /\ Tidy(a) /\ a.workers = i.workers \cup {p} /\ a.pending = i.pending
        /\ a.state = i.state /\ a.conf = i.conf /\ p \notin i.workers /\ a.free = i.free
        /\ QCount(a) = QCount(i) + 1 /\ QCount(i) \in Nat
    BY <1>1, <1>4, EnlistedEffect
  <1> HIDE DEF i, a
  <1>7. p \notin Range(a.free) /\ p \in a.workers
    BY <1>3, <1>6 DEF Tidy
  <1>8. /\ b.workers = a.workers /\ b.pending = a.pending /\ b.state = a.state
        /\ b.conf = a.conf /\ Sound(b)
    BY <1>6, <1>7, AllocateEffect, AllocateSound
  <1> HIDE DEF b
  <1>9. TOTAL_WORKER_COUNT(b) = TOTAL_WORKER_COUNT(app)
    <2>1. QCount(b) = QCount(a) /\ QCount(i) = QCount(app)
      BY <1>3, <1>8 DEF QCount
    <2>2. Len(app.pending) \in Nat
      BY <1>1 DEF Sound, AppType
    <2> QED BY <1>3, <1>6, <1>8, <2>1, <2>2 DEF TOTAL_WORKER_COUNT
  <1>10. Full(b)
    BY <1>3, <1>6, <1>8, <1>9 DEF Full
  <1>11. Full(app')
    BY <1>3, <1>5, <1>6, <1>8, <1>10, GrownFull, BalanceGrows, UnusedType
  <1> QED BY <1>11 DEF Refilled

(* A process that is killed for not registering is replaced, unless it was  *)
(* the last trial.                                                          *)
LEMMA AddTimeoutRefilled ==
  ASSUME Reliable, Forkable, Ledger, Full(app), AddTimeout
  PROVE  Refilled
  <1>1. /\ Sound(app) /\ Tidy(app) /\ app.state = "ACTIVE" /\ app.conf \in Conf
        /\ app.counter + 1 <= AddTrials /\ app.tAddTimeout
    BY DEF Ledger, HeadInv, Full, Sound, AddTimeout
  <1>2. /\ SameQueues(app, TimedOut) /\ TimedOut.state = "ACTIVE"
        /\ TimedOut.conf = app.conf /\ Sound(TimedOut)
    BY <1>1, TimedOutEffect, TimedOutSound
  <1>3. /\ QCount(app) \in Nat /\ app.pending \in Seq(Pid) /\ app.counter \in Nat
        /\ TimedOut.pending \in Seq(Pid) /\ MinWorker[app.conf] \in Nat
        /\ QCount(TimedOut) = QCount(app)
    <2>1. app \in AppType /\ TimedOut \in AppType
      BY <1>1, <1>2 DEF Sound
    <2>2. QCount(app) \in Nat /\ QCount(TimedOut) = QCount(app)
      BY <1>2, <2>1, QCountType DEF SameQueues, QCount
    <2>3. app.pending \in Seq(Pid) /\ app.counter \in Nat /\ TimedOut.pending \in Seq(Pid)
      <3> HIDE DEF TimedOut
      <3> QED BY <2>1, PoolAssumption DEF AppType
    <2>4. MinWorker[app.conf] \in Nat
      BY <1>1, PoolAssumption
    <2> QED BY <2>2, <2>3, <2>4
  <1>4. \/ TOTAL_WORKER_COUNT(TimedOut) >= MinWorker[TimedOut.conf] - 1
        \/ TimedOut.counter >= AddTrials
    <2>1. CASE app.counter + 1 = AddTrials
      <3>1. TimedOut = KillAll([app EXCEPT !.counter = @ + 2, !.tAddTimeout = TRUE])
        BY <2>1 DEF TimedOut
      <3>2. TimedOut.counter = app.counter + 2
        BY <1>1, <3>1 DEF KillAll, Sound, AppType
      <3> QED BY <1>3, <2>1, <3>2, PoolAssumption
    <2>2. CASE app.counter + 1 # AddTrials
      <3> DEFINE a == [app EXCEPT !.counter = @ + 1]
                 b == KillFirst(a)
                 s == IF app.pending = <<>> THEN <<>> ELSE Tail(app.pending)
      <3>1. TimedOut = [b EXCEPT !.tAddTimeout = b.pending # <<>>]
        BY <2>2 DEF TimedOut
      <3>2. TimedOut.pending = s
        BY <1>1, <3>1 DEF KillFirst, Sound, AppType
      <3>3. Len(s) >= Len(app.pending) - 1 /\ Len(s) \in Nat /\ Len(app.pending) \in Nat
        BY <1>3
      <3> HIDE DEF s
      <3> QED BY <1>2, <1>3, <3>2, <3>3 DEF TOTAL_WORKER_COUNT, Full
    <2> QED BY <2>1, <2>2
  <1>5. MinWorker[TimedOut.conf] <= PendingCap
    BY <1>1, <1>2 DEF Reliable
  <1>6. app' \in wr_app_wkr_balance(TimedOut, Unused)
    BY <1>1 DEF AddTimeout
  <1>7. Full(app') \/ app'.counter >= AddTrials
    BY <1>2, <1>4, <1>5, <1>6, BalanceRefills, UnusedType DEF Forkable
  <1> QED BY <1>7 DEF Refilled

(* Low load takes a worker only while more than min_worker are registered.  *)
LEMMA RemoveCbRefilled ==
  ASSUME Ledger, Full(app), RemoveCb
  PROVE  Refilled
  <1> DEFINE Again(n) == [app EXCEPT !.tRemove = n > MinWorker[app.conf]]
  <1>1. Sound(app) /\ Tidy(app) /\ app.workers \subseteq Pid
    BY DEF Ledger, HeadInv, Sound, AppType
  <1>2. ASSUME NEW n PROVE Sound(Again(n)) /\ SamePool(app, Again(n)) /\ Tidy(Again(n))
    <2>1. (n > MinWorker[app.conf]) \in BOOLEAN
      OBVIOUS
    <2>2. Sound(Again(n)) /\ SamePool(app, Again(n))
      BY <1>1, <2>1 DEF Sound, AppType, SamePool, SameQueues
    <2> QED BY <1>1, <2>2, SameTidy
  <1> HIDE DEF Again
  <1>3. ASSUME NEW p \in Pid, NEW n, app' = wr_wkr_free(Again(n), p),
               QCount(app) > MinWorker[app.conf]
        PROVE  Refilled
    <2> DEFINE m == Again(n)
    <2>1. Sound(m) /\ SamePool(app, m) /\ Tidy(m)
      BY <1>2
    <2> HIDE DEF m
    <2>2. /\ app'.workers = app.workers \ {p} /\ app'.pending = app.pending
          /\ app'.state = app.state /\ app'.conf = app.conf
      BY <1>3, <2>1, WkrFreeEffect DEF m, SamePool, SameQueues
    <2>3. /\ IsFiniteSet(app.workers) /\ QCount(app) \in Nat /\ Len(app.pending) \in Nat
          /\ MinWorker[app.conf] \in Nat
      BY <1>1, WorkersFinite, PoolAssumption DEF Sound, AppType, Full
    <2>4. QCount(app') >= QCount(app) - 1 /\ QCount(app') \in Nat
      <3>1. Cardinality(app.workers \ {p}) =
              IF p \in app.workers THEN Cardinality(app.workers) - 1
                                   ELSE Cardinality(app.workers)
        BY <2>3, FS_RemoveElement
      <3>2. IsFiniteSet(app.workers \ {p})
        BY <2>3, FS_Subset
      <3> QED BY <2>2, <2>3, <3>1, <3>2, FS_CardinalityType DEF QCount
    <2>5. Full(app')
      BY <1>3, <2>2, <2>3, <2>4 DEF Full, TOTAL_WORKER_COUNT
    <2> QED BY <2>5 DEF Refilled
  <1>4. ASSUME NEW n, app' = Again(n)
        PROVE  Refilled
    BY <1>2, <1>4, SameFull DEF SamePool, SameQueues, Refilled
  <1> QED BY <1>1, <1>3, <1>4 DEF RemoveCb, Again

LEMMA TimerRefilled ==
  ASSUME Reliable, Forkable, Ledger, Full(app), AppTimer
  PROVE  Refilled
  <1>1. Sound(app) /\ app.state = "ACTIVE"
    BY DEF Ledger, HeadInv, Full
  <1>2. CASE WaitOver
    <2>1. SamePool(app, app')
      BY <1>1, <1>2 DEF WaitOver, SamePool, SameQueues, Sound, AppType
    <2> QED BY <2>1, SameFull DEF SamePool, SameQueues, Refilled
  <1>3. CASE AddCb
    <2> DEFINE a == [app EXCEPT !.tAdd = FALSE]
    <2>1. Sound(a) /\ SamePool(app, a)
      BY <1>1 DEF Sound, AppType, SamePool, SameQueues
    <2>2. app' \in wr_app_wkr_add(a, Unused) \/ app' = a
      BY <1>3 DEF AddCb
    <2> HIDE DEF a
    <2>3. Full(a)
      BY <2>1, SameFull DEF SamePool, SameQueues
    <2>4. CASE app' \in wr_app_wkr_add(a, Unused)
      BY <2>1, <2>3, <2>4, WkrAddGrows, GrownFull, UnusedType DEF Refilled
    <2> QED BY <2>2, <2>3, <2>4 DEF Refilled
  <1> QED BY <1>2, <1>3, AddTimeoutRefilled, RemoveCbRefilled DEF AppTimer

LEMMA AdminRefilled ==
  ASSUME Ledger, Full(app), NEW c \in Ctl, Admin(c), app'.state = "ACTIVE"
  PROVE  Refilled
  <1>1. Sound(app) /\ app.state = "ACTIVE" /\ Running
    BY DEF Ledger, HeadInv, Full, Running
  <1>2. CASE app' = app
    BY <1>2, SameFull DEF Refilled
  <1>3. ASSUME NEW cf \in Conf, app' \in wr_app_wkr_add(Restarted(c, cf), Unused)
        PROVE  FALSE
    <2>1. Sound(Restarted(c, cf)) /\ Restarted(c, cf).state = "RESTART"
      BY <1>1, RestartedSound
    <2> QED BY <1>3, <2>1, WkrAddSound, UnusedType
  <1>4. CASE wr_app_add_cb(c)
    BY <1>1, <1>2, <1>4 DEF wr_app_add_cb, Refused, Insert
  <1>5. CASE wr_app_reload_cb(c)
    BY <1>1, <1>2, <1>3, <1>5 DEF wr_app_reload_cb, Refused, Insert
  <1>6. CASE wr_app_remove_cb(c)
    BY <1>1, <1>6 DEF wr_app_remove_cb, RemoveApp, NoApp
  <1>7. CASE AdmClose(c)
    <2>1. app' = [app EXCEPT !.ctl = None] \/ app' = app
      BY <1>7 DEF AdmClose
    <2>2. SamePool(app, app')
      BY <1>1, <2>1 DEF SamePool, SameQueues, Sound, AppType
    <2> QED BY <2>2, SameFull DEF SamePool, SameQueues, Refilled
  <1> QED BY <1>4, <1>5, <1>6, <1>7 DEF Admin

LEMMA PoolStep ==
  ASSUME Reliable, Forkable, Loads, Ledger, [Next]_vars, Full(app), app'.state = "ACTIVE"
  PROVE  Refilled
  <1>1. ASSUME NEW r \in Req, Client(r) PROVE Refilled
    BY <1>1, ClientRefilled
  <1>2. CASE app' = app
    BY <1>2, SameFull DEF Refilled
  <1>3. ASSUME NEW p \in Pid, Worker(p) \/ Failure(p) PROVE Refilled
    <2>1. CASE \/ ReqSent(p) \/ RespChunk(p) \/ PingReply(p) \/ ConfReq(p) \/ Loaded(p)
               \/ WkrRejected(p) \/ LoadFailed(p) \/ BootDies(p) \/ Crash(p) \/ Hang(p)
      BY <1>2, <2>1 DEF ReqSent, RespChunk, PingReply, ConfReq, Loaded, WkrRejected,
                        LoadFailed, BootDies, Crash, Hang
    <2>2. ~WkrError(p)
      BY DEF WkrError, Loads
    <2> QED BY <1>3, <2>1, <2>2, RespDoneRefilled, LostRefilled, WkrAddRefilled
            DEF Worker, Failure
  <1>4. CASE AppTimer
    BY <1>4, TimerRefilled
  <1>5. ASSUME NEW c \in Ctl, Admin(c) PROVE Refilled
    BY <1>5, AdminRefilled
  <1>6. CASE UNCHANGED vars
    BY <1>2, <1>6 DEF vars
  <1> QED BY <1>1, <1>3, <1>4, <1>5, <1>6 DEF Next

(* Without "load" among the failures no process reports an error. *)
LEMMA ProcessesLoad ==
  ASSUME Loads, NEW ks, Processes(ks)
  PROVE  Loads'
  BY DEF Loads, Processes

LEMMA LoadsStep ==
  ASSUME Reliable, Loads, Ledger, [Next]_vars
  PROVE  Loads'
  <1>0. proc \in [Pid -> ProcState]
    BY DEF Ledger, HeadInv, EnvType
  <1>1. CASE UNCHANGED proc
    BY <1>1 DEF Loads
  <1>2. ASSUME NEW ks, RemoveApp(ks) PROVE Loads'
    BY <1>2 DEF RemoveApp, Loads
  <1>3. ASSUME NEW p \in Pid, Worker(p) \/ Failure(p) PROVE Loads'
    <2>1. CASE \/ ReqSent(p) \/ RespChunk(p) \/ RespDone(p) \/ RespError(p) \/ CtlClosed(p)
               \/ WaitTimeout(p) \/ PingReply(p)
      BY <1>1, <2>1, ProcessesLoad
         DEF ReqSent, RespChunk, RespDone, RespError, CtlClosed, WaitTimeout, PingReply
    <2>2. CASE \/ ConfReq(p) \/ Loaded(p) \/ WkrRejected(p) \/ BootDies(p) \/ Crash(p)
               \/ Hang(p)
      BY <1>0, <2>2 DEF ConfReq, Loaded, WkrRejected, BootDies, Crash, Hang, Loads
    <2>3. CASE WkrAdd(p) \/ WkrAddFails(p)
      BY <2>3 DEF WkrAdd, WkrAddFails, Loads
    <2>4. ~WkrError(p)
      BY DEF WkrError, Loads
    <2>5. ~LoadFailed(p)
      BY DEF LoadFailed, Fault, Reliable
    <2> QED BY <1>3, <2>1, <2>2, <2>3, <2>4, <2>5 DEF Worker, Failure
  <1>4. CASE AppTimer
    BY <1>1, <1>2, <1>4, ProcessesLoad DEF AppTimer, WaitOver, AddTimeout, AddCb, RemoveCb
  <1>5. ASSUME NEW c \in Ctl, Admin(c) PROVE Loads'
    BY <1>1, <1>2, <1>5, ProcessesLoad
       DEF Admin, wr_app_add_cb, wr_app_reload_cb, wr_app_remove_cb, AdmClose, Insert, Refused
  <1>6. CASE UNCHANGED vars
    BY <1>1, <1>6 DEF vars
  <1>7. ASSUME NEW r \in Req, Client(r) PROVE Loads'
    BY <1>1, <1>7 DEF Client, ReqHeaders, ReqComplete, ReqAbort
  <1> QED BY <1>3, <1>4, <1>5, <1>6, <1>7 DEF Next

(* As long as applications load, the head can fork and connect and no       *)
(* worker is leaving for low load, crashes, hang-ups, processes that never  *)
(* register and the load itself never take a pool of an active application  *)
(* below min_worker, but for a worker lost while serving and for the wait   *)
(* after the last trial.                                                    *)
THEOREM HeadKeepsPool ==
  ASSUME Reliable
  PROVE  Spec /\ []Forkable => PoolKept
  <1>1. Init => Loads
    BY DEF Init, Loads
  <1>2. Loads /\ Ledger /\ [Next]_vars => Loads'
    BY LoadsStep
  <1>3. Forkable /\ Loads /\ Ledger /\ [Next]_vars =>
          [Full(app) /\ app'.state = "ACTIVE" =>
             Full(app') \/ app'.counter >= AddTrials \/ LostServing]_vars
    BY PoolStep DEF Refilled
  <1> QED BY <1>1, <1>2, <1>3, LedgerInvariant, PTL DEF Spec, PoolKept

-----------------------------------------------------------------------------
(***************************************************************************)
(* The administrator who waits.  app->ctl changes only where a response is *)
(* written, or in a step of an administrator.  CtlKept needs no more of an *)
(* application than that it has this field.                                *)
(***************************************************************************)
CtlKept(a, b) == "ctl" \in DOMAIN b /\ b.ctl = a.ctl

LEMMA FieldsKeptCtl ==
  ASSUME NEW a, "ctl" \in DOMAIN a, NEW p
  PROVE  /\ CtlKept(a, Ratios(a)) /\ CtlKept(a, wr_wkr_free(a, p))
         /\ CtlKept(a, SettleRestart(a)) /\ CtlKept(a, Answered(a))
         /\ CtlKept(a, wr_pending_worker_exist(a, p))
         /\ CtlKept(a, KillFirst(a)) /\ CtlKept(a, KillAll(a))
         /\ CtlKept(a, wr_app_chk_load_to_add_wkr(a))
         /\ CtlKept(a, wr_app_chk_load_to_remove_wkr(a))
  <1>1. CtlKept(a, Ratios(a))
    BY DEF CtlKept, Ratios
  <1>2. CtlKept(a, wr_wkr_free(a, p))
    BY DEF CtlKept, wr_wkr_free, Ratios
  <1>3. CtlKept(a, SettleRestart(a)) /\ CtlKept(a, Answered(a))
    BY DEF CtlKept, SettleRestart, Answered
  <1>4. CtlKept(a, wr_pending_worker_exist(a, p))
    BY DEF CtlKept, wr_pending_worker_exist
  <1>5. CtlKept(a, KillFirst(a)) /\ CtlKept(a, KillAll(a))
    BY DEF CtlKept, KillFirst, KillAll
  <1>6. /\ CtlKept(a, wr_app_chk_load_to_add_wkr(a))
        /\ CtlKept(a, wr_app_chk_load_to_remove_wkr(a))
    BY DEF CtlKept, wr_app_chk_load_to_add_wkr, wr_app_chk_load_to_remove_wkr
  <1> QED BY <1>1, <1>2, <1>3, <1>4, <1>5, <1>6

LEMMA AllocatesKeptCtl ==
  ASSUME NEW a, "ctl" \in DOMAIN a, NEW p
  PROVE  CtlKept(a, wr_wrk_allocate(a, p))
  <1>1. CtlKept(a, wr_app_chk_load_to_remove_wkr(a))
    BY FieldsKeptCtl
  <1> QED BY <1>1 DEF wr_wrk_allocate, CtlKept

LEMMA ForksKeptCtl ==
  ASSUME NEW a, "ctl" \in DOMAIN a, NEW ks
  PROVE  /\ \A b \in wr_app_wkr_add(a, ks) : CtlKept(a, b)
         /\ \A b \in wr_app_wkr_balance(a, ks) : CtlKept(a, b)
  <1>1. \A s : CtlKept(a, Forked(a, s))
    BY DEF CtlKept, Forked
  <1>2. \A b \in wr_app_wkr_add(a, ks) : CtlKept(a, b)
    BY <1>1 DEF wr_app_wkr_add
  <1> DEFINE Added(s) == IF s = <<>> THEN a
                         ELSE [Forked(a, s) EXCEPT
                                 !.low = (TOTAL_WORKER_COUNT(a) + Len(s)) * MinReqRatio]
             Settled(b) == IF b.state = "RESTART" /\ QCount(b) >= MinWorker[b.conf]
                           THEN SettleRestart(b) ELSE b
  <1>3. \A s : CtlKept(a, Added(s))
    BY <1>1 DEF CtlKept
  <1>4. \A b : CtlKept(a, b) => CtlKept(a, Settled(b))
    BY DEF CtlKept, SettleRestart
  <1>5. \A b \in wr_app_wkr_balance(a, ks) : \E s : b = Settled(Added(s))
    BY DEF wr_app_wkr_balance
  <1> HIDE DEF Added, Settled
  <1>6. \A b \in wr_app_wkr_balance(a, ks) : CtlKept(a, b)
    BY <1>3, <1>4, <1>5
  <1> QED BY <1>2, <1>6

(* What a step does to app->ctl and to the administrator it names. *)
CtlMove == app'.ctl = app.ctl \/ admin' = Reply(admin, app.ctl)

LEMMA ClientCtl ==
  ASSUME "ctl" \in DOMAIN app, NEW r \in Req, Client(r) PROVE CtlMove
  <1>1. CASE ReqHeaders(r)
    BY <1>1 DEF ReqHeaders, CtlMove
  <1>2. CASE ReqComplete(r)
    <2> DEFINE b == [app EXCEPT !.messages = Append(@, r)]
               a == wr_app_chk_load_to_add_wkr(b)
    <2>1. CtlKept(app, b)
      BY DEF CtlKept
    <2>2. CtlKept(b, a)
      BY <2>1, FieldsKeptCtl DEF CtlKept
    <2>3. CtlKept(app, a)
      BY <2>1, <2>2 DEF CtlKept
    <2>4. app' = app \/ app' = a \/ app' = [a EXCEPT !.messages = Tail(@), !.free = Tail(@)]
      BY <1>2 DEF ReqComplete
    <2> QED BY <2>3, <2>4 DEF CtlKept, CtlMove
  <1>3. CASE ReqAbort(r)
    BY <1>3 DEF ReqAbort, Unqueue, CtlMove
  <1> QED BY <1>1, <1>2, <1>3 DEF Client

LEMMA LossCtl ==
  ASSUME "ctl" \in DOMAIN app, NEW p \in Pid,
         RespDone(p) \/ RespError(p) \/ CtlClosed(p) \/ WaitTimeout(p)
  PROVE  CtlMove
  <1> DEFINE f == wr_wkr_free(app, p)
  <1>1. CtlKept(app, f) /\ CtlKept(app, wr_wrk_allocate(app, p))
    BY FieldsKeptCtl, AllocatesKeptCtl
  <1>2. \A b \in wr_app_wkr_balance(f, Unused) : CtlKept(f, b)
    BY <1>1, ForksKeptCtl DEF CtlKept
  <1>3. \/ app' = app \/ app' = f \/ app' = wr_wrk_allocate(app, p)
        \/ app' \in wr_app_wkr_balance(f, Unused)
    BY DEF RespDone, RespError, CtlClosed, WaitTimeout, AfterLoss
  <1> QED BY <1>1, <1>2, <1>3 DEF CtlKept, CtlMove

LEMMA InsertedCtl ==
  ASSUME app \in AppType, NEW p \in Pid
  PROVE  /\ "ctl" \in DOMAIN Inserted(p)
         /\ app.state \notin {"NEW", "RESTART"} => Inserted(p).ctl = app.ctl
  <1> DEFINE b == wr_pending_worker_exist(app, p)
             a == Answered(b)
             fields == {"ctl", "state"}
  <1>1. fields \subseteq DOMAIN app
    BY DEF AppType
  <1>2. fields \subseteq DOMAIN b /\ b.ctl = app.ctl /\ b.state = app.state
    BY <1>1 DEF wr_pending_worker_exist
  <1>3. fields \subseteq DOMAIN a /\ a.ctl = app.ctl /\ a.state = app.state
    BY <1>2 DEF Answered
  <1>4. "ctl" \in DOMAIN wr_app_reload(a)
    BY <1>3 DEF wr_app_reload, DropFree, Ratios
  <1>5. Inserted(p) = CASE a.state = "RESTART" -> [wr_app_reload(a) EXCEPT !.ctl = None]
                        [] a.state = "NEW"     -> [a EXCEPT !.state = "ACTIVE", !.ctl = None]
                        [] OTHER               -> a
    BY DEF Inserted
  <1> HIDE DEF a
  <1> QED BY <1>3, <1>4, <1>5

LEMMA AddCtl ==
  ASSUME app \in AppType, NEW p \in Pid, WkrAdd(p) \/ WkrAddFails(p) PROVE CtlMove
  <1>1. CASE app.state \in {"NEW", "RESTART"}
    BY <1>1 DEF WkrAdd, WkrAddFails, CtlMove
  <1>2. CASE app.state \notin {"NEW", "RESTART"}
    <2> DEFINE i == Inserted(p)
               a == [i EXCEPT !.workers = @ \cup {p}, !.low = (QCount(i) + 1) * MinReqRatio]
               b == wr_wrk_allocate(a, p)
               h == [i EXCEPT !.high = TOTAL_WORKER_COUNT(i) * MaxReqRatio]
    <2>1. CtlKept(app, i)
      BY <1>2, InsertedCtl DEF CtlKept
    <2>2. app' \in wr_app_wkr_balance(b, Unused) \/ app' = h
      BY DEF WkrAdd, WkrAddFails
    <2> HIDE DEF i
    <2>3. CtlKept(app, a) /\ CtlKept(app, h)
      BY <2>1 DEF CtlKept
    <2>4. CtlKept(a, b)
      BY <2>3, AllocatesKeptCtl DEF CtlKept
    <2> HIDE DEF a, h
    <2>5. \A x \in wr_app_wkr_balance(b, Unused) : CtlKept(b, x)
      BY <2>4, ForksKeptCtl DEF CtlKept
    <2> QED BY <2>2, <2>3, <2>4, <2>5 DEF CtlKept, CtlMove
  <1> QED BY <1>1, <1>2

LEMMA WkrErrorCtl ==
  ASSUME "ctl" \in DOMAIN app, NEW p \in Pid, WkrError(p) PROVE CtlMove
  <1> DEFINE b == wr_pending_worker_exist(app, p)
  <1>1. CtlKept(app, b) /\ CtlKept(b, Answered(b))
    BY FieldsKeptCtl DEF CtlKept
  <1>2. admin' = Reply(admin, app.ctl) \/ app' = app \/ app' = Answered(b)
    BY DEF WkrError
  <1> QED BY <1>1, <1>2 DEF CtlKept, CtlMove

LEMMA TimerCtl ==
  ASSUME "ctl" \in DOMAIN app, AppTimer PROVE CtlMove
  <1>1. CASE WaitOver
    BY <1>1 DEF WaitOver, CtlMove
  <1>2. CASE AddTimeout
    <2>1. CtlKept(app, TimedOut)
      BY DEF CtlKept, TimedOut, KillAll, KillFirst
    <2>2. \A b \in wr_app_wkr_balance(TimedOut, Unused) : CtlKept(TimedOut, b)
      BY <2>1, ForksKeptCtl DEF CtlKept
    <2>3. \/ admin' = Reply(admin, app.ctl)
          \/ app' = TimedOut \/ app' \in wr_app_wkr_balance(TimedOut, Unused)
      BY <1>2 DEF AddTimeout
    <2> QED BY <2>1, <2>2, <2>3 DEF CtlKept, CtlMove
  <1>3. CASE AddCb
    <2> DEFINE a == [app EXCEPT !.tAdd = FALSE]
    <2>1. CtlKept(app, a)
      BY DEF CtlKept
    <2>2. \A b \in wr_app_wkr_add(a, Unused) : CtlKept(a, b)
      BY <2>1, ForksKeptCtl DEF CtlKept
    <2>3. app' = a \/ app' \in wr_app_wkr_add(a, Unused)
      BY <1>3 DEF AddCb
    <2> QED BY <2>1, <2>2, <2>3 DEF CtlKept, CtlMove
  <1>4. CASE RemoveCb
    <2> DEFINE Again(n) == [app EXCEPT !.tRemove = n > MinWorker[app.conf]]
    <2>1. \A n : CtlKept(app, Again(n))
      BY DEF CtlKept
    <2>2. \A n, p : CtlKept(Again(n), wr_wkr_free(Again(n), p))
      BY <2>1, FieldsKeptCtl DEF CtlKept
    <2>3. \/ \E n : app' = Again(n)
          \/ \E n, p : app' = wr_wkr_free(Again(n), p)
      BY <1>4 DEF RemoveCb
    <2> HIDE DEF Again
    <2> QED BY <2>1, <2>2, <2>3 DEF CtlKept, CtlMove
  <1> QED BY <1>1, <1>2, <1>3, <1>4 DEF AppTimer

LEMMA HeadCtl ==
  ASSUME app \in AppType, NEW p \in Pid, Worker(p) \/ Failure(p) PROVE CtlMove
  <1>1. "ctl" \in DOMAIN app
    BY DEF AppType
  <1>2. CASE RespDone(p) \/ RespError(p) \/ CtlClosed(p) \/ WaitTimeout(p)
    BY <1>1, <1>2, LossCtl
  <1>3. CASE WkrAdd(p) \/ WkrAddFails(p)
    BY <1>3, AddCtl
  <1>4. CASE WkrError(p)
    BY <1>1, <1>4, WkrErrorCtl
  <1>5. CASE UNCHANGED app
    BY <1>5 DEF CtlMove
  <1>6. \/ RespDone(p) \/ RespError(p) \/ CtlClosed(p) \/ WaitTimeout(p)
        \/ WkrAdd(p) \/ WkrAddFails(p) \/ WkrError(p) \/ UNCHANGED app
    BY DEF Worker, Failure, ReqSent, RespChunk, PingReply, ConfReq, Loaded, WkrRejected,
           LoadFailed, BootDies, Crash, Hang
  <1> QED BY <1>2, <1>3, <1>4, <1>5, <1>6

(* Each command of an administrator changes what is known of that one: he   *)
(* was idle, and is answered or waits, or he was not, and disconnects.      *)
LEMMA AdminMoves ==
  ASSUME admin \in [Ctl -> AdminState], NEW d \in Ctl, Admin(d)
  PROVE  /\ admin'[d] # admin[d]
         /\ admin[d] = "waiting" => admin'[d] # "waiting"
  <1>1. CASE AdmClose(d)
    BY <1>1 DEF AdmClose
  <1>2. CASE ~AdmClose(d)
    <2>1. admin[d] = "idle" /\ \E s \in {"answered", "waiting"} : admin' = [admin EXCEPT ![d] = s]
      BY <1>2 DEF Admin, wr_app_add_cb, wr_app_reload_cb, wr_app_remove_cb, Refused, Insert
    <2> QED BY <2>1
  <1> QED BY <1>1, <1>2

LEMMA ForgetStep ==
  ASSUME HeadInv, [Next]_vars, NEW c \in Ctl, Awaits(c), app'.ctl # c
  PROVE  admin'[c] # "waiting" \/ Overtaken(c)
  <1>1. app \in AppType /\ admin \in [Ctl -> AdminState] /\ "ctl" \in DOMAIN app
    BY DEF HeadInv, EnvType, Sound, AppType
  <1>2. CASE CtlMove
    <2>1. admin' = Reply(admin, c)
      BY <1>2 DEF CtlMove, Awaits
    <2> QED BY <1>1, <2>1, PoolAssumption DEF Reply, Awaits
  <1>3. ASSUME NEW d \in Ctl, Admin(d) PROVE admin'[c] # "waiting" \/ Overtaken(c)
    <2>1. CASE d = c
      BY <1>1, <1>3, <2>1, AdminMoves DEF Awaits
    <2>2. CASE d # c
      BY <1>1, <1>3, <2>2, AdminMoves DEF Overtaken
    <2> QED BY <2>1, <2>2
  <1>4. CASE UNCHANGED vars
    BY <1>4 DEF vars, Awaits
  <1>5. CtlMove \/ (\E d \in Ctl : Admin(d)) \/ UNCHANGED vars
    BY <1>1, ClientCtl, HeadCtl, TimerCtl DEF Next
  <1> QED BY <1>2, <1>3, <1>4, <1>5

(* Whoever waits for an answer of the head stays the one it will answer:    *)
(* a step in which app->ctl ceases to name him answers him, or it is        *)
(* another administrator's.                                                 *)
THEOREM HeadForgetsNobody == Spec => NotForgotten
  <1>1. HeadInv /\ [Next]_vars =>
          [\A c \in Ctl : Awaits(c) /\ app'.ctl # c =>
                            admin'[c] # "waiting" \/ Overtaken(c)]_vars
    BY ForgetStep
  <1> QED BY <1>1, HeadInvariant, PTL DEF Spec, NotForgotten
=============================================================================
