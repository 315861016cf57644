------------------------------- MODULE WrConn -------------------------------
(***************************************************************************)
(* A client connection of the head: wr_conn_t with its ebb_connection and  *)
(* the wr_req_t objects made for it.  The rest of the head is seen as it   *)
(* acts on a request (assign, part of the response, end, loss of the       *)
(* worker, removal of the application).                                    *)
(*                                                                         *)
(* The functions of wr_connection.c and wr_request.c are operators on the  *)
(* record c of everything they touch; a callback is an action.  libebb     *)
(* parses one received buffer in one callback (inRecv): a buffer may hold  *)
(* the end of one request and the start of the next, and nothing else runs *)
(* in between.  What the code does after following a pointer to freed      *)
(* memory is not modelled: the step sets c.bad and is the last one.        *)
(***************************************************************************)
EXTENDS Integers, Sequences, FiniteSets

CONSTANTS NReq,            \* bound: requests on the connection
          MaxParts,        \* bound: parts of a response before its last one
          ServerKeepAlive, \* SERVER_KEEP_ALIVE in Config->Server.flag
          Environments     \* the sets of disturbances that occur together

Disturbance == {"garbage",   \* bytes that do not parse
                "reject",    \* a request the head refuses (400, 413, 414, 501)
                "upload",    \* the file for a large body cannot be opened
                "lost",      \* a worker dies or hangs up with a request
                "unsent",    \* one is found dead while headers are sent to it
                "removed",   \* the application is removed
                "close"}     \* the client closes, or a write to it fails

ASSUME ConnAssumption ==
  /\ NReq \in Nat \ {0} /\ MaxParts \in Nat
  /\ ServerKeepAlive \in BOOLEAN /\ Environments \subseteq SUBSET Disturbance

VARIABLES c, inRecv

vars == <<c, inRecv>>

Req == 1..NReq
None == 0

(* A piece of the list conn->resp: a part of the response to request r, its *)
(* end, or an error response made by the head.                              *)
Piece == [r : Req \cup {None}, part : {"some", "last", "error"}]

(* st: not made; its headers or its body arriving; in q_messages; with a    *)
(* worker; freed.  app: req->app is set.                                    *)
ReqType == [st : {"new", "head", "body", "queued", "busy", "gone"},
            app : BOOLEAN, connErr : BOOLEAN, parts : 0..MaxParts]

(* mem: the wr_conn_t.  reading, writing: the ebb_connection's watchers.    *)
(* pos, cur: the parser and its current_request.  out: what was written.    *)
(* env: the disturbances of this behaviour.                                 *)
ConnType ==
  [mem : {"live", "freed"}, open : BOOLEAN, isClosed : BOOLEAN,
   toWrite : -2..1, keepAlive : BOOLEAN, resp : Seq(Piece), req : Req \cup {None},
   reading : BOOLEAN, writing : BOOLEAN,
   pos : {"main", "head", "body", "error"}, cur : Req \cup {None},
   rq : [Req -> ReqType], out : Seq(Piece), bad : BOOLEAN, env : Environments]

TypeOK == c \in ConnType /\ inRecv \in BOOLEAN

(* wr_conn_new, on_connection. *)
Init ==
  /\ \E e \in Environments :
     c = [mem |-> "live", open |-> TRUE, isClosed |-> FALSE,
          toWrite |-> 0, keepAlive |-> FALSE, resp |-> <<>>, req |-> None,
          reading |-> TRUE, writing |-> FALSE, pos |-> "main", cur |-> None,
          rq |-> [r \in Req |-> [st |-> "new", app |-> FALSE,
                                 connErr |-> FALSE, parts |-> 0]],
          out |-> <<>>, bad |-> FALSE, env |-> e]
  /\ inRecv = FALSE

-----------------------------------------------------------------------------
(* wr_connection.c and wr_request.c *)

Bad(s) == [s EXCEPT !.bad = TRUE]

wr_conn_free(s) ==
  IF s.mem = "freed" THEN Bad(s) ELSE [s EXCEPT !.mem = "freed", !.resp = <<>>]

(* Adds a piece to the list; ebb_connection_write, which arms the write     *)
(* watcher, is called for the first one only.                               *)
wr_conn_resp_body_add(s, piece) ==
  CASE s.mem = "freed" -> Bad(s)
    [] s.mem = "live" /\ ~s.isClosed ->
         [s EXCEPT !.resp = Append(@, piece), !.writing = @ \/ s.resp = <<>>]
    [] s.mem = "live" /\ s.isClosed /\ s.toWrite = 0 -> wr_conn_free(s)
    [] OTHER -> s

wr_req_free(s, r) ==
  IF s.rq[r].st = "gone" THEN Bad(s)
  ELSE LET d == [s EXCEPT !.rq[r].st = "gone"]
           e == [d EXCEPT !.toWrite = @ - 1, !.req = None]
       IN  CASE s.rq[r].connErr -> d
             [] ~s.rq[r].connErr /\ s.mem = "freed" -> Bad(d)
             [] ~s.rq[r].connErr /\ s.mem = "live" /\ e.isClosed /\ e.toWrite = 0 ->
                  wr_conn_free(e)
             [] OTHER -> e

(* wr_conn_err_resp: an error response, and the end of the request unless a *)
(* worker still uses it.  using: req->using_wkr of a request with a worker. *)
Mutant_ErrNoRequest(s) == s
ErrNoRequest(s) == [s EXCEPT !.toWrite = @ - 1]

Mutant_ErrWithWorker(s, r) == [s EXCEPT !.rq[r].connErr = TRUE]
ErrWithWorker(s, r) == [s EXCEPT !.rq[r].connErr = TRUE, !.toWrite = @ - 1]

wr_conn_err_resp(s, using) ==
  LET d == wr_conn_resp_body_add([s EXCEPT !.keepAlive = FALSE],
                                 [r |-> s.req, part |-> "error"])
      r == d.req
  IN  CASE s.mem = "freed" \/ d.mem = "freed" -> Bad(s)
        [] d.mem = "live" /\ r = None -> ErrNoRequest(d)
        [] d.mem = "live" /\ r # None ->
             IF d.rq[r].st = "gone" THEN Bad(d)
             ELSE IF d.rq[r].st = "busy" /\ using THEN ErrWithWorker(d, r)
             ELSE wr_req_free(d, r)

(* wr_req_invalid with ebb_connection_stop_read. *)
wr_req_invalid(s) ==
  IF s.req # None /\ s.rq[s.req].st = "gone" THEN Bad(s)
  ELSE wr_conn_err_resp([s EXCEPT !.keepAlive = FALSE, !.reading = FALSE, !.cur = None,
                                  !.toWrite = IF @ = 0 THEN 1 ELSE @], TRUE)

(* close_connection and wr_conn_close_cb. *)
Mutant_NothingOwed(s) == TRUE
NothingOwed(s) == s.toWrite <= 0

wr_conn_close_cb(s) ==
  LET d == [s EXCEPT !.open = FALSE, !.reading = FALSE, !.writing = FALSE]
  IN  IF NothingOwed(d) THEN wr_conn_free(d)
      ELSE [d EXCEPT !.isClosed = TRUE, !.keepAlive = FALSE]

(* wr_conn_after_write_cb: the first piece has been written. *)
NextPiece(s) == [s EXCEPT !.writing = TRUE]

wr_conn_after_write_cb(s) ==
  LET d == [s EXCEPT !.out = Append(@, Head(s.resp)), !.resp = Tail(@), !.writing = FALSE]
  IN  CASE d.resp # <<>> /\ ~d.isClosed -> NextPiece(d)
        [] (d.resp = <<>> \/ d.isClosed) /\ d.toWrite <= 0
             /\ (~ServerKeepAlive \/ ~d.keepAlive) -> wr_conn_close_cb(d)
        [] OTHER -> d

-----------------------------------------------------------------------------
(* The parser: on_readable and the callbacks it makes *)

May(d) == d \in c.env

(* A callback of the parser runs inside on_readable, any other outside. *)
Parsing == inRecv /\ ~c.bad
Idle == ~inRecv /\ ~c.bad

Recv ==
  /\ Idle /\ c.reading
  /\ inRecv' = TRUE
  /\ UNCHANGED c

(* wr_new_req_cb: while a response is owed, a further request is skipped.   *)
Accepts(s) == s.toWrite <= 0

wr_new_req_cb ==
  /\ Parsing /\ c.pos = "main"
  /\ \/ /\ Accepts(c)
        /\ \E r \in Req :
             /\ c.rq[r].st = "new" /\ \A q \in 1..(r - 1) : c.rq[q].st # "new"
             /\ c' = [c EXCEPT !.pos = "head", !.cur = r, !.req = r, !.rq[r].st = "head"]
     \/ /\ ~Accepts(c)
        /\ c' = [c EXCEPT !.pos = "head", !.cur = None]
  /\ UNCHANGED inRecv

(* A request's line or headers are refused by one of the callbacks on its   *)
(* URI, path, query, fragment and headers, by wr_req_path_set or because of *)
(* its method.                                                              *)
HeadRejected ==
  /\ Parsing /\ c.pos = "head" /\ c.cur # None /\ May("reject")
  /\ \E p \in {"head", "main"} : c' = [wr_req_invalid(c) EXCEPT !.pos = p]
  /\ UNCHANGED inRecv

(* The headers of a request that is skipped or refused end.  Its body would *)
(* be parsed as the next request.                                           *)
HeadSkipped ==
  /\ Parsing /\ c.pos = "head" /\ c.cur = None
  /\ c' = [c EXCEPT !.pos = "main"]
  /\ UNCHANGED inRecv

(* wr_headers_complete_cb with wr_req_resolve_http_req: an application may  *)
(* be found or not.                                                         *)
wr_headers_complete_cb ==
  /\ Parsing /\ c.pos = "head" /\ c.cur # None
  /\ \/ \E app \in BOOLEAN :
          c' = [c EXCEPT !.pos = "body", !.rq[c.cur].st = "body", !.rq[c.cur].app = app]
     \/ /\ May("upload")
        /\ c' = [wr_req_free(c, c.cur) EXCEPT !.pos = "body"]
  /\ UNCHANGED inRecv

Mutant_Resolved(r) == TRUE
Resolved(r) == c.rq[r].app

(* wr_req_complete_cb: the request joins the queue of its application, or   *)
(* the queue is full or there is no application.                            *)
wr_req_complete_cb ==
  /\ Parsing /\ c.pos = "body"
  /\ \E keep \in BOOLEAN :
       LET r == c.cur
           d == [c EXCEPT !.keepAlive = keep, !.toWrite = @ + 1, !.pos = "main", !.cur = None]
       IN  \/ /\ c.rq[r].st = "gone" /\ c' = Bad(c)
           \/ /\ c.rq[r].st # "gone" /\ Resolved(r)
              /\ c' = [d EXCEPT !.rq[r].st = "queued"]
           \/ /\ c.rq[r].st # "gone" /\ c' = wr_req_invalid(d)
  /\ UNCHANGED inRecv

(* The bytes do not parse, between requests, in one, or in a chunked body.  *)
Garbage ==
  /\ Parsing /\ c.pos # "error" /\ May("garbage")
  /\ c' = [c EXCEPT !.pos = "error"]
  /\ UNCHANGED inRecv

(* on_readable returns; wr_req_parse_err_cb. *)
RecvEnds ==
  /\ Parsing
  /\ inRecv' = FALSE
  /\ c' = IF c.pos = "error" THEN wr_req_invalid(c) ELSE c

-----------------------------------------------------------------------------
(* The other callbacks of the connection *)

(* on_writable. *)
Written ==
  /\ Idle /\ c.writing
  /\ c' = wr_conn_after_write_cb(c)
  /\ UNCHANGED inRecv

(* on_readable and on_writable with an error or the end of the stream. *)
ClientGone ==
  /\ (c.reading \/ c.writing) /\ Idle /\ May("close")
  /\ c' = wr_conn_close_cb(c)
  /\ UNCHANGED inRecv

(* on_timeout and wr_conn_timeout_cb; the timer is restarted while a        *)
(* response is owed or being written.                                       *)
wr_conn_timeout_cb ==
  /\ Idle /\ c.open
  /\ c.toWrite <= 0 /\ c.resp = <<>>
  /\ c' = wr_conn_close_cb(IF c.req # None THEN wr_req_free(c, c.req) ELSE c)
  /\ UNCHANGED inRecv

-----------------------------------------------------------------------------
(* The rest of the head *)

(* wr_wkr_req_processing. *)
Assign(r) ==
  /\ Idle /\ c.rq[r].st = "queued"
  /\ c' = [c EXCEPT !.rq[r].st = "busy"]
  /\ UNCHANGED inRecv

(* A response is passed on unless the connection has been answered with an  *)
(* error.                                                                   *)
Mutant_Wanted(r) == TRUE
Wanted(r) == ~c.rq[r].connErr

(* wr_resp_len_read_cb, wr_resp_read_cb: a part of the response. *)
RespPart(r) ==
  /\ Idle /\ c.rq[r].st = "busy" /\ c.rq[r].parts < MaxParts
  /\ LET d == [c EXCEPT !.rq[r].parts = @ + 1]
     IN  c' = IF Wanted(r) THEN wr_conn_resp_body_add(d, [r |-> r, part |-> "some"]) ELSE d
  /\ UNCHANGED inRecv

(* The same callbacks at the end of the response, wr_wkr_req_processed. *)
RespLast(r) ==
  /\ Idle /\ c.rq[r].st = "busy"
  /\ c' = wr_req_free(IF Wanted(r)
                        THEN wr_conn_resp_body_add(c, [r |-> r, part |-> "last"])
                        ELSE c, r)
  /\ UNCHANGED inRecv

(* wr_wkr_free answers 500 on the connection of the request it has. *)
WkrLost(r) ==
  /\ Idle /\ c.rq[r].st = "busy" /\ May("lost")
  /\ c' = wr_conn_err_resp(c, FALSE)
  /\ UNCHANGED inRecv

(* The same out of wr_req_hearer_write_cb, which has no return after it and *)
(* goes on to read req->scgi of the request that has been freed by then.    *)
HeaderUnsent(r) ==
  /\ Idle /\ c.rq[r].st = "busy" /\ c.rq[r].parts = 0 /\ May("unsent")
  /\ c' = Bad(wr_conn_err_resp(c, FALSE))
  /\ UNCHANGED inRecv

(* wr_app_free answers 500 to a request in q_messages. *)
AppRemoved(r) ==
  /\ Idle /\ c.rq[r].st = "queued" /\ May("removed")
  /\ c' = wr_conn_err_resp(c, FALSE)
  /\ UNCHANGED inRecv

-----------------------------------------------------------------------------
Next ==
  \/ Recv \/ wr_new_req_cb \/ HeadRejected \/ HeadSkipped \/ wr_headers_complete_cb
  \/ wr_req_complete_cb \/ Garbage \/ RecvEnds
  \/ Written \/ ClientGone \/ wr_conn_timeout_cb
  \/ \E r \in Req : Assign(r) \/ RespPart(r) \/ RespLast(r) \/ WkrLost(r)
                   \/ HeaderUnsent(r) \/ AppRemoved(r)

Spec == Init /\ [][Next]_vars

(* libev runs the callback of an expired timer, and a buffer is finite.     *)
(* Nothing is assumed of the client, which need not send and need not read, *)
(* of workers, or of the pool, which may be lost with a request waiting.    *)
Fairness == WF_vars(RecvEnds) /\ WF_vars(wr_conn_timeout_cb)

FairSpec == Spec /\ Fairness

-----------------------------------------------------------------------------
(* Requests the connection still owes a response: complete, not freed and   *)
(* not already answered with an error.                                      *)
Owed == {r \in Req : c.rq[r].st \in {"queued", "busy"} /\ ~c.rq[r].connErr}

(* conn->resp_to_write counts exactly these, through errors, closes and     *)
(* losses of workers, and never more than one; wr_conn_close_cb and         *)
(* wr_req_free rely on it to decide who frees the connection: one that is   *)
(* closed and still allocated owes a response.  (A request that is freed    *)
(* because its body has no file is subtracted without having been counted.) *)
CountsOwed ==
  c.mem = "live" /\ ~May("upload") =>
    /\ c.toWrite = Cardinality(Owed) /\ c.toWrite <= 1
    /\ c.isClosed => c.toWrite > 0

(* ebb_connection_write starts the write watcher for the first piece only   *)
(* and wr_conn_after_write_cb for the following ones: an open connection is *)
(* waiting to write exactly when there is something to write, so no piece   *)
(* is forgotten in the list and libebb's assertion that something is to be  *)
(* written holds.                                                           *)
WriterArmed == c.mem = "live" /\ c.open => (c.writing <=> c.resp # <<>>)

(* What the callbacks of a connection rely on of its own fields. *)
ConnSound == TypeOK /\ CountsOwed /\ WriterArmed

(* A request with a worker is answered 400 because bytes behind it do not   *)
(* parse, and then the worker is lost: wr_wkr_free answers it once more, on *)
(* a connection that may have been freed.  The code has no guard for this.  *)
AnsweredForWorker == May("garbage") /\ (May("lost") \/ May("unsent"))

(* What the client receives: responses in the order of the requests, none   *)
(* continued after its end or after an error that replaced it, and nothing  *)
(* after an error that belongs to no request.                               *)
InOrder ==
  LET stream == c.out \o c.resp
  IN  \A i \in DOMAIN stream : \A j \in (i + 1)..Len(stream) :
        /\ stream[i].r # None
        /\ stream[j].r # None => stream[i].r <= stream[j].r
        /\ stream[i].part # "some" => stream[i].r # stream[j].r \/ AnsweredForWorker

(* close_connection: "No access to the connection past this point!  The     *)
(* user is allowed to free in the callback".  No callback follows a pointer *)
(* to a connection or a request that has been freed, and none is freed      *)
(* twice, except in the case above, when the file for a body cannot be      *)
(* opened, where the parser goes on with the request that was freed, and    *)
(* when a worker is found dead while a request's headers are sent to it     *)
(* (wr_worker.c:432).                                                       *)
NeverDangling == c.bad => AnsweredForWorker \/ May("upload") \/ May("unsent")

(* A request that the head never has done with: it waits for a pool that    *)
(* has been lost (WrHead: a lost worker that is not replaced, RESTARTING),  *)
(* or its worker neither reads nor dies.                                    *)
KeptForEver == \E r \in Req : [](c.rq[r].st \in {"queued", "busy"})

(* A connection whose socket is closed is eventually freed: the last        *)
(* request to refer to it does so (wr_conn_close_cb, wr_req_free), unless   *)
(* the head never has done with that one.                                   *)
Released == (c.mem = "live" /\ ~c.open) ~> (c.mem = "freed" \/ c.bad \/ KeptForEver)

(* After an error response the head stops reading.  Such a connection does  *)
(* not stay behind with nothing to write: it is closed after the write or   *)
(* by the timer, or a response to it is still on its way.                   *)
StoppedCloses ==
  (c.open /\ ~c.reading /\ ~inRecv /\ c.resp = <<>>)
    ~> (~c.open \/ c.resp # <<>> \/ c.bad \/ KeptForEver)

(* No connection stays behind: a closed one is freed, a stopped one closed. *)
ConnectionEnds == Released /\ StoppedCloses

(* Every request lives as WrHead expects it to. *)
LifeOf(r) ==
  CASE c.rq[r].st \in {"new", "head", "gone"} -> "none"
    [] c.rq[r].st = "body" -> IF c.rq[r].app THEN "resolved" ELSE "none"
    [] c.rq[r].st = "queued" -> "queued"
    [] c.rq[r].st = "busy" -> IF c.rq[r].connErr THEN "aborted" ELSE "busy"

Life(r) == INSTANCE WrReqLife WITH life <- LifeOf(r)

(* The refinement: what parsing, errors, timeouts and closes do to a        *)
(* request is a life WrReqLife allows, the one WrHead's steps are checked   *)
(* against too.                                                             *)
RequestsLive ==
  /\ \A r \in Req : Life(r)!Init
  /\ [][\A r \in Req : Life(r)!Next \/ UNCHANGED LifeOf(r)]_vars
=============================================================================
