------------------------------- MODULE WkrReq -------------------------------
(***************************************************************************)
(* The request connection between the head and one worker: wr_worker.c     *)
(* sends one request after the other and passes the response on to the     *)
(* client, wkr_http_request.c and wkr_http_response.c are the other end.   *)
(* Both directions are byte streams; recv returns a part of what has       *)
(* arrived, and each end is in step with the other only if both count      *)
(* these bytes alike.                                                      *)
(*                                                                         *)
(*   head   what wr_wkr_t and its wr_req_t hold: the callback that is      *)
(*          armed, the request, bytes_sent, resp_buf with bytes_received,  *)
(*          resp_buf_len                                                   *)
(*   wkr    the worker's http_t: the callback that is armed, the bytes of  *)
(*          the request it has, the response it has made; env, the         *)
(*          disturbances of this behaviour                                 *)
(*   down   bytes on their way to the worker; up: to the head              *)
(*   size   the length of each request's body and of each response's       *)
(*          content, as the client and the application choose them         *)
(*   given  what the clients have been given of the responses              *)
(***************************************************************************)
EXTENDS Naturals, Sequences

CONSTANTS NReq,      \* bound: requests sent to the worker
          ReqMsg,    \* the names of the requests
          RespMsg,   \* the names of their responses
          ReqHead,   \* the length of the SCGI header of a request
          RespHead,  \* the length of the SCGI header of a response
          HttpHead,  \* the length of the HTTP header of a response
          Bodies,    \* the lengths a request body can have
          Contents,  \* the lengths a response's content can have
          MaxBody,   \* Config->Request.max_body_size
          WkrBuf,    \* STR_SIZE10KB, the size of the worker's buffer
          RespBuf,   \* WR_RESP_BUF_SIZE
          Environments \* the sets of disturbances that occur together

Disturbance == {"split", \* the SCGI header of a response comes in pieces
                "byte",  \* a single byte comes behind that header
                "crash", \* the worker dies
                "drop"}  \* the head frees the worker: its timer, its control
                         \* connection, removal of the application

ASSUME ReqAssumption ==
  /\ NReq \in Nat \ {0} /\ ReqHead \in Nat /\ ReqHead >= 2 /\ RespHead \in Nat /\ RespHead >= 2
  /\ HttpHead \in Nat /\ HttpHead >= 2 /\ Bodies \subseteq Nat /\ Contents \subseteq Nat
  /\ MaxBody \in Nat \ {0} /\ WkrBuf \in Nat /\ WkrBuf >= 2 /\ RespBuf \in Nat
  /\ RespBuf >= RespHead + HttpHead /\ Environments \subseteq SUBSET Disturbance

(* Messages have names of their own; none is the name of no message. *)
ASSUME MsgAssumption ==
  \A q, r \in 1..NReq :
    /\ ReqMsg[q] # RespMsg[r] /\ ReqMsg[q] # "" /\ RespMsg[q] # ""
    /\ q # r => ReqMsg[q] # ReqMsg[r] /\ RespMsg[q] # RespMsg[r]

VARIABLES head, wkr, down, up, size, given

vars == <<head, wkr, down, up, size, given>>

Req == 1..NReq
MsgHead(m) == IF m \in {ReqMsg[r] : r \in Req} THEN ReqHead ELSE RespHead

INSTANCE WrScgi WITH HeaderLen <- MsgHead

(* A request with its body; a response with its HTTP header and content. *)
Request(r) == scgi_build(ReqMsg[r], size[r].body)
Response(r) == scgi_build(RespMsg[r], HttpHead + size[r].content)
Behind(bytes, n) == SubSeq(bytes, n + 1, Len(bytes))
Payload(r) == Behind(Response(r), RespHead)

ByteOf(msgs) == [msg : {msgs[r] : r \in Req}, at : Nat \ {0}]

TypeOK ==
  /\ head \in [cb : {"idle", "header", "upload", "length", "body", "lost"},
               req : 0..NReq, sent : Nat, buf : Seq(ByteOf(RespMsg)), received : Nat,
               len : {0} \cup {HttpHead + n : n \in Contents}]
  /\ wkr \in [cb : {"header", "body", "file", "app", "scgi", "http", "content", "gone"},
              req : Req, buf : Seq(ByteOf(ReqMsg)), sent : Nat, env : Environments]
  /\ down \in Seq(ByteOf(ReqMsg)) /\ up \in Seq(ByteOf(RespMsg))
  /\ size \in [Req -> [body : Bodies, content : Contents]]
  /\ given \in [Req -> Seq(ByteOf(RespMsg))]

(* The connection has been made: request_accept_cb, wr_wkr_set_ratio. *)
Init ==
  /\ head = [cb |-> "idle", req |-> 0, sent |-> 0, buf |-> <<>>, received |-> 0, len |-> 0]
  /\ \E e \in Environments :
     wkr = [cb |-> "header", req |-> 1, buf |-> <<>>, sent |-> 0, env |-> e]
  /\ down = <<>> /\ up = <<>>
  /\ size \in [Req -> [body : Bodies, content : Contents]]
  /\ given = [r \in Req |-> <<>>]

May(d) == d \in wkr.env
Alive == wkr.cb # "gone"
HeadOpen == head.cb # "lost"

-----------------------------------------------------------------------------
(* The head *)

(* wr_wkr_req_processing, with a request made by wr_req_new. *)
wr_wkr_req_processing ==
  /\ head.cb = "idle" /\ head.req < NReq
  /\ head' = [cb |-> "header", req |-> head.req + 1, sent |-> 0,
              buf |-> <<>>, received |-> 0, len |-> 0]
  /\ UNCHANGED <<wkr, down, up, size, given>>

(* WKR_ACTION_ERROR: the worker is freed, the client gets an error. *)
Lost ==
  /\ head' = [head EXCEPT !.cb = "lost"]
  /\ UNCHANGED <<wkr, down, up, size, given>>

(* A body larger than max_body_size is in a file and is not part of the     *)
(* SCGI message.                                                            *)
InFile(r) == size[r].body > MaxBody
Scgi(r) == IF InFile(r) THEN SubSeq(Request(r), 1, ReqHead) ELSE Request(r)

(* wr_req_hearer_write_cb, wr_wkr_req_sent.  There is no return after the   *)
(* loss: the code goes on to compare bytes_sent of the request that         *)
(* wr_wkr_free has freed.  What it may then start is a watcher of freed     *)
(* memory and sends no byte of a request, so that here the loss is the end; *)
(* that the pointer dangles is WrConn's HeaderUnsent.                       *)
wr_req_hearer_write_cb ==
  /\ head.cb = "header"
  /\ \/ ~Alive /\ Lost
     \/ /\ Alive
        /\ LET r == head.req
               chunk == scgi_send(Scgi(r), head.sent)
               sent == head.sent + Len(chunk)
           IN  /\ down' = down \o chunk
               /\ head' = IF sent < Len(Scgi(r)) THEN [head EXCEPT !.sent = sent]
                          ELSE [head EXCEPT !.sent = 0,
                                            !.cb = IF InFile(r) THEN "upload" ELSE "length"]
        /\ UNCHANGED <<wkr, up, size, given>>

(* wr_req_body_write_cb: at most max_body_size bytes of the file at a time. *)
Mutant_FileChunk(file, sent, end) == SubSeq(file, 1, end - sent)
FileChunk(file, sent, end) == SubSeq(file, sent + 1, end)

wr_req_body_write_cb ==
  /\ head.cb = "upload"
  /\ \/ ~Alive /\ Lost
     \/ /\ Alive
        /\ LET file == Behind(Request(head.req), ReqHead)
               end == IF head.sent + MaxBody < Len(file) THEN head.sent + MaxBody ELSE Len(file)
           IN  /\ down' = down \o FileChunk(file, head.sent, end)
               /\ head' = [head EXCEPT !.sent = end,
                                       !.cb = IF end = Len(file) THEN "length" ELSE @]
        /\ UNCHANGED <<wkr, up, size, given>>

(* What recv can return: any part of the stream that fits. *)
Pieces(stream, room) == {SubSeq(stream, 1, n) : n \in 1..(IF Len(stream) < room THEN Len(stream) ELSE room)}
Ended(stream, open, room) == (stream = <<>> /\ ~open) \/ (stream # <<>> /\ room = 0)

(* The first piece of a response, as the worker's sends make it: the SCGI   *)
(* header, alone or with the HTTP header and any part of the content.       *)
Usual(piece) == Len(piece) = RespHead \/ Len(piece) >= RespHead + HttpHead
FirstPieces(room) ==
  {p \in Pieces(up, room) :
     \/ Usual(p)
     \/ May("split") /\ (head.received > 0 \/ Len(p) # RespHead + 1)
     \/ May("byte") /\ Len(p) = RespHead + 1}

(* wr_wkr_req_processed *)
Processed(h) == [h EXCEPT !.cb = "idle"]

(* wr_wkr_set_req: what the SCGI header gives as the length of the response. *)
RespLen(r) == HttpHead + size[r].content

(* wr_resp_len_read_cb with wr_wkr_set_req.  bytes_received is assigned, not *)
(* increased, before the buffer is parsed.                                  *)
Overwrite(buf, n, piece) ==
  SubSeq(buf, 1, n) \o piece
    \o (IF n + Len(piece) < Len(buf) THEN Behind(buf, n + Len(piece)) ELSE <<>>)

wr_resp_len_read_cb ==
  /\ head.cb = "length"
  /\ \/ /\ Ended(up, Alive, RespBuf - head.received) /\ Lost
     \/ \E p \in FirstPieces(RespBuf - head.received) :
          LET buf == Overwrite(head.buf, head.received, p)
              scgi == scgi_parse(SubSeq(buf, 1, Len(p)))
              len == RespLen(head.req)
              h == [head EXCEPT !.buf = <<>>, !.received = Len(scgi.body), !.len = len]
          IN  /\ up' = Behind(up, Len(p))
              /\ IF scgi = NoScgi
                   THEN /\ head' = [head EXCEPT !.buf = buf, !.received = Len(p)]
                        /\ UNCHANGED given
                   ELSE /\ head' = IF Len(scgi.body) = len THEN Processed(h)
                                   ELSE [h EXCEPT !.cb = "body"]
                        /\ given' = [given EXCEPT ![head.req] = @ \o scgi.body]
              /\ UNCHANGED <<wkr, down, size>>

(* wr_resp_read_cb *)
Room == IF RespBuf < head.len - head.received THEN RespBuf ELSE head.len - head.received

Mutant_Complete(received) == received + 1 >= head.len
Complete(received) == received >= head.len

wr_resp_read_cb ==
  /\ head.cb = "body"
  /\ \/ Ended(up, Alive, Room) /\ Lost
     \/ \E p \in Pieces(up, Room) :
          LET h == [head EXCEPT !.received = @ + Len(p)]
          IN  /\ up' = Behind(up, Len(p))
              /\ given' = [given EXCEPT ![head.req] = @ \o p]
              /\ head' = IF Complete(h.received) THEN Processed(h) ELSE h
              /\ UNCHANGED <<wkr, down, size>>

(* wr_wkr_free by another callback. *)
wr_wkr_free == HeadOpen /\ May("drop") /\ Lost

-----------------------------------------------------------------------------
(* The worker *)

Gone ==
  /\ wkr' = [wkr EXCEPT !.cb = "gone"]
  /\ UNCHANGED <<head, down, up, size, given>>

(* http_req_header_cb with parser_req_buf.  A body that does not fit into   *)
(* the buffer behind the header is written to a file.                       *)
http_req_header_cb ==
  /\ wkr.cb = "header"
  /\ LET room == WkrBuf - Len(wkr.buf)
     IN  \/ Ended(down, HeadOpen, room) /\ Gone
         \/ \E p \in Pieces(down, room) :
              LET buf == wkr.buf \o p
                  r == CHOOSE q \in Req : ReqMsg[q] = buf[1].msg
              IN  /\ down' = Behind(down, Len(p))
                  /\ wkr' = [wkr EXCEPT
                       !.buf = buf,
                       !.req = IF HasHeader(buf) THEN r ELSE @,
                       !.cb = CASE ~HasHeader(buf) -> @
                                [] HasHeader(buf) /\ Len(buf) = Len(Request(r)) -> "app"
                                [] HasHeader(buf) /\ Len(buf) # Len(Request(r)) ->
                                     IF Len(Request(r)) > WkrBuf THEN "file" ELSE "body"]
                  /\ UNCHANGED <<head, up, size, given>>

(* http_req_body_cb: http_req_body_read_in_buff, http_req_body_read_in_file. *)
(* At the end of the connection the former leaves, the latter reads on.     *)
Mutant_Missing == Len(Request(wkr.req))
Missing == Len(Request(wkr.req)) - Len(wkr.buf)

http_req_body_cb ==
  /\ wkr.cb \in {"body", "file"}
  /\ \/ wkr.cb = "body" /\ Ended(down, HeadOpen, Missing) /\ Gone
     \/ \E p \in Pieces(down, IF wkr.cb = "file" /\ Missing > WkrBuf THEN WkrBuf ELSE Missing) :
          /\ down' = Behind(down, Len(p))
          /\ wkr' = [wkr EXCEPT !.buf = @ \o p,
                                !.cb = IF Len(p) = Missing THEN "app" ELSE @]
          /\ UNCHANGED <<head, up, size, given>>

(* http_req_process, the application, req_write_headers with http_req_set,  *)
(* req_resp_completed with http_resp_process.                               *)
http_req_process ==
  /\ wkr.cb = "app"
  /\ wkr' = [wkr EXCEPT !.cb = "scgi", !.sent = 0]
  /\ UNCHANGED <<head, down, up, size, given>>

(* One write callback: its part of the response, and the one that follows.  *)
(* A worker whose head has closed leaves.                                   *)
Write(cb, from, to, next) ==
  /\ wkr.cb = cb
  /\ IF ~HeadOpen THEN Gone
     ELSE /\ up' = up \o SubSeq(Response(wkr.req), from + 1, to)
          /\ wkr' = next
          /\ UNCHANGED <<head, down, size, given>>

(* http_resp_set: the worker waits for the next request. *)
Rested == [wkr EXCEPT !.cb = "header", !.buf = <<>>, !.sent = 0]

http_resp_scgi_write_cb == Write("scgi", 0, RespHead, [wkr EXCEPT !.cb = "http"])

http_resp_header_write_cb ==
  Write("http", RespHead, RespHead + HttpHead,
        IF size[wkr.req].content > 0 THEN [wkr EXCEPT !.cb = "content"] ELSE Rested)

(* http_resp_body_write_cb, http_resp_file_send_cb: as much as the socket    *)
(* takes at a time.                                                         *)
http_resp_body_write_cb ==
  \E n \in (wkr.sent + 1)..size[wkr.req].content :
    Write("content", RespHead + HttpHead + wkr.sent, RespHead + HttpHead + n,
          IF n = size[wkr.req].content THEN Rested ELSE [wkr EXCEPT !.sent = n])

Crash == Alive /\ May("crash") /\ Gone

-----------------------------------------------------------------------------
HeadStep ==
  \/ wr_wkr_req_processing \/ wr_req_hearer_write_cb \/ wr_req_body_write_cb
  \/ wr_resp_len_read_cb \/ wr_resp_read_cb
WkrStep ==
  \/ http_req_header_cb \/ http_req_body_cb \/ http_req_process
  \/ http_resp_scgi_write_cb \/ http_resp_header_write_cb \/ http_resp_body_write_cb

Next == HeadStep \/ WkrStep \/ wr_wkr_free \/ Crash

Spec == Init /\ [][Next]_vars

(* Both loops serve a socket that is ready; the application answers. *)
FairSpec == Spec /\ WF_vars(HeadStep) /\ WF_vars(WkrStep)

-----------------------------------------------------------------------------
(* The application is given the whole request, and only that: a worker that *)
(* starts to process has exactly the header and the body the head sent,     *)
(* through whatever pieces, buffers and files they have gone.               *)
RequestWhole == wkr.cb = "app" => wkr.buf = Request(wkr.req)

(* "Reads the response from worker, deserialize it, render it to the        *)
(* Request.": what the client has been given and what is still on the way   *)
(* continue one another: no byte of the response is passed twice, skipped   *)
(* or taken from the response to another request; what is finished is       *)
(* complete.  Two exceptions: the SCGI header comes in two pieces, of which *)
(* the first is forgotten (bytes_received =+ read), or with one byte behind *)
(* it, which the parser passes over.                                        *)
IsPrefixOf(s, t) == Len(s) <= Len(t) /\ s = SubSeq(t, 1, Len(s))
ResponseIntact ==
  ~May("split") /\ ~May("byte") =>
    /\ head.cb = "body" => IsPrefixOf(given[head.req] \o up, Payload(head.req))
    /\ \A r \in Req :
         r < head.req \/ (r = head.req /\ head.cb = "idle") => given[r] = Payload(r)

(* Requests and responses pass the connection unchanged, in any pieces. *)
BytesIntact == TypeOK /\ RequestWhole /\ ResponseIntact

(* A worker the head regards as free is ready for the next request: nothing *)
(* is left in either direction or in its buffer.                            *)
InStep ==
  head.cb = "idle" /\ Alive =>
    down = <<>> /\ up = <<>> /\ wkr.cb = "header" /\ wkr.buf = <<>>

(* Every request sent to a worker that lives is answered, and the next one  *)
(* is sent, if its SCGI header leaves room in the worker's buffer.  (A      *)
(* longer one, which the head accepts, ends the worker.)                    *)
Served ==
  \A r \in Req :
    (head.req = r /\ wkr.env = {} /\ ReqHead < WkrBuf) ~> (head.req = r /\ head.cb = "idle")

(* When the worker dies the head notices, whatever it was doing. *)
DeathNoticed == ~Alive ~> (head.cb \in {"idle", "lost"})

(* The head is never left waiting on the connection: the request is         *)
(* answered or the worker's death noticed.                                  *)
ReqEnds == Served /\ DeathNoticed
=============================================================================
