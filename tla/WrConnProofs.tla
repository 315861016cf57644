---------------------------- MODULE WrConnProofs ----------------------------
(***************************************************************************)
(* The connection's proofs, for every number of requests and every mix of  *)
(* disturbances.  The invariant is a predicate Sane(s, in) on the record   *)
(* of a connection and on whether its parser runs, so that the lemmas can  *)
(* say of each function of wr_connection.c and wr_request.c what it makes  *)
(* of a sane connection.                                                   *)
(***************************************************************************)
EXTENDS WrConn, FiniteSetTheorems, SequenceTheorems, TLAPS

Alive(s, r) == s.rq[r].st \in {"head", "body", "queued", "busy"}
Complete(s, r) == s.rq[r].st \in {"queued", "busy"}
Garbled(s) == "garbage" \in s.env
Upload(s) == "upload" \in s.env

(* The write watcher runs while there is something to write. *)
Armed(s) == s.writing <=> s.resp # <<>>

(* Who holds the connection: it is open until close_connection; then it is *)
(* freed unless a response is owed.                                        *)
Handle(s, in) ==
  /\ s.open => s.mem = "live" /\ ~s.isClosed /\ (s.writing <=> s.resp # <<>>)
  /\ ~s.open => ~s.reading /\ ~s.writing /\ ~in
  /\ s.mem = "live" /\ ~s.open => s.isClosed /\ s.toWrite = 1
  /\ s.mem = "freed" => s.resp = <<>> /\ s.toWrite <= 0

(* conn->req is the only request that is not freed or still to come, and  *)
(* the latest of all.                                                      *)
OneRequest(s) ==
  /\ \A r \in Req : Alive(s, r) \/ s.rq[r].connErr => s.req = r
  /\ \A r \in Req : s.rq[r].connErr => s.rq[r].st \in {"busy", "gone"}
  /\ s.req # None =>
       /\ Alive(s, s.req) \/ s.rq[s.req].connErr
       /\ \A q \in Req : q > s.req => s.rq[q].st = "new"
  /\ \A q, r \in Req : q < r /\ s.rq[q].st = "new" => s.rq[r].st = "new"

(* conn->resp_to_write is 1 while the request is complete and unanswered.   *)
Counted(s) ==
  /\ s.toWrite = 1 <=> s.req # None /\ Complete(s, s.req) /\ ~s.rq[s.req].connErr
  /\ s.toWrite < 0 /\ s.mem = "live" => Upload(s) /\ s.req = None

(* The parser works on conn->req while its head or its body arrives.        *)
Parser(s, in) ==
  s.mem = "live" =>
    /\ s.cur # None =>
         \/ s.pos = s.rq[s.cur].st
         \/ s.pos = "error" /\ in
         \/ s.pos = "body" /\ s.rq[s.cur].st = "gone" /\ Upload(s)
    /\ s.req # None /\ s.rq[s.req].st \in {"head", "body"} => s.cur = s.req
    /\ s.pos = "body" => s.cur # None
    /\ s.pos = "main" => s.cur = None
    /\ s.pos = "error" => Garbled(s)
    /\ s.pos = "error" /\ ~in => ~s.reading /\ s.cur = None
    /\ s.toWrite < 0 =>
         \/ s.toWrite = -1 /\ s.cur # None /\ s.rq[s.cur].st = "gone" /\ s.pos \in {"body", "error"}
         \/ s.pos = "error" /\ ~in

(* A request that was answered 400 while a worker has it is the last one,   *)
(* and the connection is closed when that answer has been written.          *)
Doomed(s, in) ==
  s.req # None /\ s.rq[s.req].connErr =>
    /\ Garbled(s) /\ s.pos = "error" /\ ~in
    /\ ~s.keepAlive /\ s.toWrite = 0
    /\ s.open => s.resp # <<>>

Stream(s) == s.out \o s.resp

(* What has been written and what is to be written. *)
Told(s, in) ==
  \A i \in DOMAIN Stream(s) : LET p == Stream(s)[i] IN
    /\ p.r # None => s.rq[p.r].st # "new"
    /\ p.r # None /\ Alive(s, p.r) /\ ~s.rq[p.r].connErr => p.part = "some"
    /\ p.r = None => s.req = None /\ s.pos = "error" /\ ~in

Excused(s) == "garbage" \in s.env /\ ("lost" \in s.env \/ "unsent" \in s.env)

(* When a pointer to freed memory may have been followed. *)
Excusable(s) ==
  Upload(s) \/ "unsent" \in s.env \/ (Excused(s) /\ s.mem = "freed")

Ordered(t, e) ==
  \A i \in DOMAIN t : \A j \in (i + 1)..Len(t) :
    /\ t[i].r # None
    /\ t[j].r # None => t[i].r <= t[j].r
    /\ t[i].part # "some" => t[i].r # t[j].r \/ e

Sane(s, in) ==
  /\ s \in ConnType /\ in \in BOOLEAN
  /\ Handle(s, in) /\ OneRequest(s) /\ Counted(s)
  /\ Parser(s, in) /\ Doomed(s, in)
  /\ Told(s, in) /\ Ordered(Stream(s), Excused(s))
  /\ s.bad => Excusable(s)

ConnInv == Sane(c, inRecv)

-----------------------------------------------------------------------------
(* The stream of pieces under the two things that happen to it: a piece is  *)
(* added at the end, and the first unwritten piece is written.              *)

LEMMA StreamAppend ==
  ASSUME NEW o \in Seq(Piece), NEW t \in Seq(Piece), NEW p \in Piece
  PROVE  o \o Append(t, p) = Append(o \o t, p)
  <1>1. <<p>> \in Seq(Piece)
    OBVIOUS
  <1>2. Append(t, p) = t \o <<p>> /\ Append(o \o t, p) = (o \o t) \o <<p>>
    BY AppendIsConcat, ConcatProperties, Zenon
  <1>3. (o \o t) \o <<p>> = o \o (t \o <<p>>)
    BY <1>1, ConcatAssociative
  <1> QED BY <1>2, <1>3, Zenon

LEMMA StreamWritten ==
  ASSUME NEW o \in Seq(Piece), NEW t \in Seq(Piece), t # <<>>
  PROVE  Append(o, Head(t)) \o Tail(t) = o \o t
  <1>1. Head(t) \in Piece /\ <<Head(t)>> \in Seq(Piece) /\ Tail(t) \in Seq(Piece)
    OBVIOUS
  <1>2. <<Head(t)>> \o Tail(t) = t
    OBVIOUS
  <1>3. Append(o, Head(t)) = o \o <<Head(t)>>
    BY <1>1, AppendIsConcat, Zenon
  <1>4. (o \o <<Head(t)>>) \o Tail(t) = o \o (<<Head(t)>> \o Tail(t))
    BY <1>1, ConcatAssociative
  <1> QED BY <1>2, <1>3, <1>4, Zenon

LEMMA InPrefix ==
  ASSUME NEW o \in Seq(Piece), NEW t \in Seq(Piece)
  PROVE  /\ \A i \in DOMAIN o : i \in DOMAIN (o \o t) /\ (o \o t)[i] = o[i]
         /\ Len(o) <= Len(o \o t) /\ Len(o) \in Nat /\ Len(o \o t) \in Nat
  OBVIOUS

LEMMA OrderedAppend ==
  ASSUME NEW t \in Seq(Piece), NEW p \in Piece, NEW e, Ordered(t, e),
         \A i \in DOMAIN t : /\ t[i].r # None
                             /\ p.r # None => t[i].r <= p.r
                             /\ t[i].part # "some" => t[i].r # p.r \/ e
  PROVE  Ordered(Append(t, p), e)
  <1> DEFINE u == Append(t, p)
  <1> SUFFICES ASSUME NEW i \in DOMAIN u, NEW j \in (i + 1)..Len(u)
               PROVE  /\ u[i].r # None
                      /\ u[j].r # None => u[i].r <= u[j].r
                      /\ u[i].part # "some" => u[i].r # u[j].r \/ e
    BY DEF Ordered
  <1>1. i \in DOMAIN t /\ u[i] = t[i] /\ j \in 1..(Len(t) + 1)
    OBVIOUS
  <1>2. CASE j = Len(t) + 1
    <2>1. u[j] = p
      BY <1>2
    <2> QED BY <1>1, <2>1
  <1>3. CASE j # Len(t) + 1
    <2>1. u[j] = t[j] /\ j \in (i + 1)..Len(t)
      BY <1>1, <1>3
    <2> QED BY <1>1, <2>1 DEF Ordered
  <1> QED BY <1>2, <1>3

LEMMA OrderedPrefix ==
  ASSUME NEW o \in Seq(Piece), NEW t \in Seq(Piece), NEW e, Ordered(o \o t, e)
  PROVE  Ordered(o, e)
  <1>1. \A i \in DOMAIN o : i \in DOMAIN (o \o t) /\ (o \o t)[i] = o[i]
    BY InPrefix
  <1>2. Len(o) <= Len(o \o t) /\ Len(o) \in Nat /\ Len(o \o t) \in Nat
    BY InPrefix
  <1> SUFFICES ASSUME NEW i \in DOMAIN o, NEW j \in (i + 1)..Len(o)
               PROVE  /\ o[i].r # None
                      /\ o[j].r # None => o[i].r <= o[j].r
                      /\ o[i].part # "some" => o[i].r # o[j].r \/ e
    BY DEF Ordered
  <1>3. j \in DOMAIN o /\ j \in (i + 1)..Len(o \o t)
    BY <1>2
  <1> QED BY <1>1, <1>3 DEF Ordered

-----------------------------------------------------------------------------
(* A connection is freed: nothing of it is reached afterwards.  Its request *)
(* stays where it is, or ends with it.                                      *)
LEMMA FreedSane ==
  ASSUME NEW s, NEW in, Sane(s, FALSE),
         NEW d \in ConnType, d.mem = "freed", ~d.open, ~d.reading, ~d.writing,
         d.resp = <<>>, d.toWrite <= 0,
         d.env = s.env, d.bad = s.bad, d.pos = s.pos, d.keepAlive => s.keepAlive,
         d.out = s.out \/ (s.resp # <<>> /\ d.out = Append(s.out, Head(s.resp))),
         \/ d.rq = s.rq /\ d.req = s.req /\ d.toWrite = s.toWrite
         \/ /\ s.req # None /\ ~s.rq[s.req].connErr /\ d.req = None
            /\ d.rq = [s.rq EXCEPT ![s.req].st = "gone"],
         in = FALSE
  PROVE  Sane(d, in)
  <1>0. s \in ConnType
    BY DEF Sane
  <1>1. Handle(d, in)
    BY DEF Handle
  <1>2. OneRequest(d)
    <2>1. OneRequest(s)
      BY DEF Sane
    <2>2. CASE d.rq = s.rq /\ d.req = s.req
      BY <2>1, <2>2 DEF OneRequest, Alive
    <2>3. CASE /\ s.req # None /\ ~s.rq[s.req].connErr /\ d.req = None
               /\ d.rq = [s.rq EXCEPT ![s.req].st = "gone"]
      <3>1. s.req \in Req /\ s.rq \in [Req -> ReqType]
        BY <1>0, <2>3 DEF ConnType
      <3>2. \A r \in Req : /\ d.rq[r].connErr = s.rq[r].connErr
                           /\ d.rq[r].st = IF r = s.req THEN "gone" ELSE s.rq[r].st
        BY <2>3, <3>1 DEF ReqType
      <3> QED BY <2>1, <2>3, <3>1, <3>2 DEF OneRequest, Alive, Req
    <2> QED BY <2>2, <2>3
  <1>3. Counted(d)
    BY <1>0 DEF Sane, Counted, Complete
  <1>4. Parser(d, in)
    BY DEF Parser
  <1>5. Doomed(d, in)
    BY DEF Doomed, Sane, Garbled
  <1>6. Stream(d) = d.out
    BY <1>0 DEF Stream, ConnType
  <1>7. \A i \in DOMAIN d.out : i \in DOMAIN Stream(s) /\ d.out[i] = Stream(s)[i]
    <2>1. s.out \in Seq(Piece) /\ s.resp \in Seq(Piece)
      BY <1>0 DEF ConnType
    <2>2. CASE d.out = s.out
      <3>1. \A i \in DOMAIN s.out : i \in DOMAIN Stream(s) /\ Stream(s)[i] = s.out[i]
        BY <2>1, InPrefix, Zenon DEF Stream
      <3> QED BY <2>2, <3>1
    <2>3. CASE s.resp # <<>> /\ d.out = Append(s.out, Head(s.resp))
      <3>1. Stream(s) = d.out \o Tail(s.resp)
        BY <2>1, <2>3, StreamWritten DEF Stream
      <3>2. d.out \in Seq(Piece) /\ Tail(s.resp) \in Seq(Piece)
        BY <2>1, <2>3
      <3>3. \A i \in DOMAIN d.out : i \in DOMAIN (d.out \o Tail(s.resp))
                                    /\ (d.out \o Tail(s.resp))[i] = d.out[i]
        BY <3>2, InPrefix, Zenon
      <3> QED BY <3>1, <3>3
    <2> QED BY <2>2, <2>3
  <1>8. Told(d, in)
    <2> SUFFICES ASSUME NEW i \in DOMAIN d.out
                 PROVE  LET p == d.out[i] IN
                        /\ p.r # None => d.rq[p.r].st # "new"
                        /\ p.r # None /\ Alive(d, p.r) /\ ~d.rq[p.r].connErr => p.part = "some"
                        /\ p.r = None => d.req = None /\ d.pos = "error" /\ ~in
      BY <1>6 DEF Told
    <2> DEFINE p == d.out[i]
    <2>1. p \in Piece
      BY DEF ConnType
    <2>2. /\ p.r # None => s.rq[p.r].st # "new"
          /\ p.r # None /\ Alive(s, p.r) /\ ~s.rq[p.r].connErr => p.part = "some"
          /\ p.r = None => s.req = None /\ s.pos = "error" /\ ~FALSE
      BY <1>7 DEF Told, Sane
    <2>3. p.r # None => p.r \in Req
      BY <2>1 DEF Piece
    <2>4. s.rq \in [Req -> ReqType] /\ s.req \in Req \cup {None}
      BY <1>0 DEF ConnType
    <2> HIDE DEF p
    <2>5. p.r # None => /\ d.rq[p.r].st # "new"
                        /\ Alive(d, p.r) /\ ~d.rq[p.r].connErr => p.part = "some"
      BY <2>2, <2>3, <2>4, SMTT(30) DEF Alive, ReqType
    <2> QED BY <2>2, <2>5 DEF p
  <1>9. Ordered(Stream(d), Excused(d))
    <2>1. Excused(d) = Excused(s)
      BY DEF Excused
    <2>2. Ordered(Stream(s), Excused(s)) /\ Len(d.out) <= Len(Stream(s))
          /\ Len(d.out) \in Nat /\ Len(Stream(s)) \in Nat
      BY <1>0 DEF Sane, Stream, ConnType
    <2> QED BY <1>6, <1>7, <2>1, <2>2 DEF Ordered
  <1>10. d.bad => Excusable(d)
    BY DEF Sane, Upload, Excused, Excusable
  <1> QED BY <1>1, <1>2, <1>3, <1>4, <1>5, <1>8, <1>9, <1>10 DEF Sane

-----------------------------------------------------------------------------
(* A step from s to d that revives no request and leaves what Told says of  *)
(* a piece without a request.                                               *)
Follows(s, in, d, in2) ==
  /\ d.env = s.env
  /\ \A q \in Req : s.rq[q].st # "new" =>
       /\ d.rq[q].st # "new"
       /\ Alive(d, q) /\ ~d.rq[q].connErr => Alive(s, q) /\ ~s.rq[q].connErr
  /\ s.req = None /\ s.pos = "error" /\ ~in => d.req = None /\ d.pos = "error" /\ ~in2

LEMMA StreamPieces ==
  ASSUME NEW s \in ConnType
  PROVE  Stream(s) \in Seq(Piece)
  BY DEF Stream, ConnType

(* Nothing is added to the stream. *)
LEMMA StreamKept ==
  ASSUME NEW s, NEW in, Sane(s, in), NEW d, NEW in2, Follows(s, in, d, in2),
         Stream(d) = Stream(s)
  PROVE  Told(d, in2) /\ Ordered(Stream(d), Excused(d))
  <1>1. Told(d, in2)
    <2> SUFFICES ASSUME NEW i \in DOMAIN Stream(s)
                 PROVE  LET p == Stream(s)[i] IN
                        /\ p.r # None => d.rq[p.r].st # "new"
                        /\ p.r # None /\ Alive(d, p.r) /\ ~d.rq[p.r].connErr => p.part = "some"
                        /\ p.r = None => d.req = None /\ d.pos = "error" /\ ~in2
      BY DEF Told
    <2> DEFINE p == Stream(s)[i]
    <2>1. p \in Piece
      BY StreamPieces DEF Sane
    <2>2. /\ p.r # None => s.rq[p.r].st # "new"
          /\ p.r # None /\ Alive(s, p.r) /\ ~s.rq[p.r].connErr => p.part = "some"
          /\ p.r = None => s.req = None /\ s.pos = "error" /\ ~in
      BY DEF Told, Sane
    <2>3. p.r # None => p.r \in Req
      BY <2>1 DEF Piece
    <2> HIDE DEF p
    <2> QED BY <2>2, <2>3 DEF Follows, p
  <1>2. Excused(d) = Excused(s)
    BY DEF Follows, Excused
  <1> QED BY <1>1, <1>2 DEF Sane

(* A piece about conn->req is added. *)
Grows(s, in, d, in2, p) ==
  /\ Sane(s, in) /\ Follows(s, in, d, in2)
  /\ s.req # None /\ p \in Piece /\ p.r = s.req
  /\ Stream(d) = Append(Stream(s), p)
  /\ s.rq[s.req].connErr => Excused(s)
  /\ Alive(d, s.req) /\ ~d.rq[s.req].connErr => p.part = "some"

LEMMA StreamGrows ==
  ASSUME NEW s, NEW in, NEW d, NEW in2, NEW p, Grows(s, in, d, in2, p)
  PROVE  Told(d, in2) /\ Ordered(Stream(d), Excused(d))
  <1> USE DEF Grows
  <1> DEFINE t == Stream(s)
  <1>0. s \in ConnType /\ s.req \in Req /\ t \in Seq(Piece)
    BY StreamPieces DEF Sane, ConnType
  <1>1. \A i \in DOMAIN t : t[i] \in Piece
    BY <1>0
  <1>2. \A i \in DOMAIN t : /\ t[i].r # None
                            /\ s.rq[t[i].r].st # "new"
                            /\ Alive(s, t[i].r) /\ ~s.rq[t[i].r].connErr => t[i].part = "some"
    BY DEF Told, Sane
  <1>3. \A i \in DOMAIN t : t[i].r \in Req
    BY <1>1, <1>2 DEF Piece
  <1>4. s.rq[s.req].st # "new"
    BY <1>0 DEF Sane, OneRequest, Alive
  <1>5. \A i \in DOMAIN t : t[i].r <= s.req
    BY <1>0, <1>2, <1>3 DEF Sane, OneRequest, Req
  <1>6. ~s.rq[s.req].connErr => Alive(s, s.req)
    BY DEF Sane, OneRequest
  <1>7. \A i \in DOMAIN t : t[i].part # "some" => t[i].r # p.r \/ Excused(s)
    BY <1>2, <1>6
  <1>8. Excused(d) = Excused(s)
    BY DEF Follows, Excused
  <1>9. Ordered(Stream(d), Excused(d))
    <2>1. Ordered(t, Excused(s))
      BY DEF Sane
    <2> HIDE DEF t
    <2>2. Ordered(Append(t, p), Excused(s))
      BY <1>0, <1>2, <1>5, <1>7, <2>1, OrderedAppend
    <2> QED BY <1>8, <2>2 DEF t
  <1>10. Told(d, in2)
    <2> HIDE DEF t
    <2> SUFFICES ASSUME NEW i \in DOMAIN Append(t, p)
                 PROVE  LET u == Append(t, p)[i] IN
                        /\ u.r # None => d.rq[u.r].st # "new"
                        /\ u.r # None /\ Alive(d, u.r) /\ ~d.rq[u.r].connErr => u.part = "some"
                        /\ u.r = None => d.req = None /\ d.pos = "error" /\ ~in2
      BY DEF Told, t
    <2>1. CASE i \in DOMAIN t
      <3>1. Append(t, p)[i] = t[i]
        BY <1>0, <2>1
      <3> QED BY <1>2, <1>3, <2>1, <3>1 DEF Follows
    <2>2. CASE i \notin DOMAIN t
      <3>1. Append(t, p)[i] = p
        BY <1>0, <2>2
      <3> QED BY <1>0, <1>4, <3>1 DEF Follows
    <2> QED BY <2>1, <2>2
  <1> QED BY <1>9, <1>10

(* An error that belongs to no request is added, at the end of a buffer. *)
LEMMA StreamEnds ==
  ASSUME NEW s, Sane(s, TRUE), NEW d, Follows(s, TRUE, d, FALSE),
         NEW p \in Piece, p.r = None, Stream(d) = Append(Stream(s), p),
         d.req = None, d.pos = "error"
  PROVE  Told(d, FALSE) /\ Ordered(Stream(d), Excused(d))
  <1> DEFINE t == Stream(s)
  <1>0. s \in ConnType /\ t \in Seq(Piece)
    BY StreamPieces DEF Sane
  <1>1. \A i \in DOMAIN t : t[i] \in Piece
    BY <1>0
  <1>2. \A i \in DOMAIN t : /\ t[i].r # None
                            /\ s.rq[t[i].r].st # "new"
                            /\ Alive(s, t[i].r) /\ ~s.rq[t[i].r].connErr => t[i].part = "some"
    BY DEF Told, Sane
  <1>3. \A i \in DOMAIN t : t[i].r \in Req
    BY <1>1, <1>2 DEF Piece
  <1>8. Excused(d) = Excused(s)
    BY DEF Follows, Excused
  <1>9. Ordered(Stream(d), Excused(d))
    <2>1. Ordered(t, Excused(s))
      BY DEF Sane
    <2> HIDE DEF t
    <2>2. Ordered(Append(t, p), Excused(s))
      BY <1>0, <1>2, <2>1, OrderedAppend
    <2> QED BY <1>8, <2>2 DEF t
  <1>10. Told(d, FALSE)
    <2> HIDE DEF t
    <2> SUFFICES ASSUME NEW i \in DOMAIN Append(t, p)
                 PROVE  LET u == Append(t, p)[i] IN
                        /\ u.r # None => d.rq[u.r].st # "new"
                        /\ u.r # None /\ Alive(d, u.r) /\ ~d.rq[u.r].connErr => u.part = "some"
                        /\ u.r = None => d.req = None /\ d.pos = "error" /\ ~FALSE
      BY DEF Told, t
    <2>1. CASE i \in DOMAIN t
      <3>1. Append(t, p)[i] = t[i]
        BY <1>0, <2>1
      <3> QED BY <1>2, <1>3, <2>1, <3>1 DEF Follows
    <2>2. CASE i \notin DOMAIN t
      <3>1. Append(t, p)[i] = p
        BY <1>0, <2>2
      <3> QED BY <3>1
    <2> QED BY <2>1, <2>2
  <1> QED BY <1>9, <1>10

-----------------------------------------------------------------------------
(* The parser's callbacks that write nothing. *)

LEMMA OpenWhileParsing ==
  ASSUME NEW s, Sane(s, TRUE)
  PROVE  s.open /\ s.mem = "live" /\ ~s.isClosed /\ Armed(s)
  BY DEF Sane, Handle, Armed

LEMMA RecvSane ==
  ASSUME ConnInv, Recv
  PROVE  Sane(c', inRecv')
  <1>0. c' = c /\ c.reading /\ inRecv = FALSE /\ inRecv' = TRUE /\ c \in ConnType
    BY DEF Recv, Idle, ConnInv, Sane
  <1>1. c.open /\ c.mem = "live"
    BY <1>0 DEF ConnInv, Sane, Handle
  <1>2. c.pos # "error"
    BY <1>0, <1>1 DEF ConnInv, Sane, Parser
  <1>3. Handle(c, TRUE)
    BY <1>0, <1>1 DEF ConnInv, Sane, Handle
  <1>4. Parser(c, TRUE) /\ Doomed(c, TRUE)
    BY <1>0, <1>1, <1>2 DEF ConnInv, Sane, Parser, Doomed
  <1>5. Follows(c, FALSE, c, TRUE)
    BY <1>2 DEF Follows
  <1>6. Told(c, TRUE)
    BY <1>0, <1>5, StreamKept DEF ConnInv
  <1> QED BY <1>0, <1>3, <1>4, <1>6 DEF ConnInv, Sane

LEMMA NewReqSane ==
  ASSUME ConnInv, wr_new_req_cb
  PROVE  Sane(c', inRecv')
  <1>0. inRecv = TRUE /\ inRecv' = TRUE /\ c \in ConnType /\ c.pos = "main" /\ ~c.bad
    BY DEF wr_new_req_cb, Parsing, ConnInv, Sane
  <1>1. c.open /\ c.mem = "live" /\ ~c.isClosed /\ Armed(c)
    BY <1>0, OpenWhileParsing DEF ConnInv
  <1>2. c.cur = None /\ c.toWrite >= 0
    BY <1>0, <1>1 DEF ConnInv, Sane, Parser, ConnType
  <1>3. CASE ~Accepts(c) /\ c' = [c EXCEPT !.pos = "head", !.cur = None]
    <2>1. /\ c' \in ConnType /\ c'.mem = c.mem /\ c'.open = c.open /\ c'.isClosed = c.isClosed
          /\ c'.toWrite = c.toWrite /\ c'.resp = c.resp /\ c'.out = c.out
          /\ c'.req = c.req /\ c'.reading = c.reading /\ c'.writing = c.writing
          /\ c'.pos = "head" /\ c'.cur = None /\ c'.rq = c.rq /\ c'.bad = c.bad
          /\ c'.env = c.env /\ c'.keepAlive = c.keepAlive
      BY <1>0, <1>3 DEF ConnType
    <2>2. c.toWrite = 1
      BY <1>0, <1>3 DEF Accepts, ConnType
    <2>3. Handle(c', TRUE)
      BY <1>0, <2>1 DEF ConnInv, Sane, Handle
    <2>4. OneRequest(c')
      BY <2>1 DEF ConnInv, Sane, OneRequest, Alive
    <2>5. Counted(c')
      BY <2>1 DEF ConnInv, Sane, Counted, Complete, Upload
    <2>6. Parser(c', TRUE)
      BY <1>0, <2>1, <2>2 DEF ConnInv, Sane, Parser, Counted, Complete
    <2>7. Doomed(c', TRUE)
      BY <1>0, <2>1 DEF ConnInv, Sane, Doomed
    <2>8. Follows(c, TRUE, c', TRUE) /\ Stream(c') = Stream(c)
      BY <2>1 DEF Follows, Alive, Stream
    <2>9. Told(c', TRUE) /\ Ordered(Stream(c'), Excused(c'))
      BY <1>0, <2>8, StreamKept DEF ConnInv
    <2> QED BY <1>0, <2>1, <2>3, <2>4, <2>5, <2>6, <2>7, <2>9 DEF Sane
  <1>4. ASSUME Accepts(c), NEW r \in Req, c.rq[r].st = "new",
               \A q \in 1..(r - 1) : c.rq[q].st # "new",
               c' = [c EXCEPT !.pos = "head", !.cur = r, !.req = r, !.rq[r].st = "head"]
        PROVE  Sane(c', inRecv')
    <2>0. [c.rq EXCEPT ![r].st = "head"] \in [Req -> ReqType]
      BY <1>0, SMTT(30) DEF ConnType, ReqType
    <2>1. /\ c' \in ConnType /\ c'.mem = c.mem /\ c'.open = c.open /\ c'.isClosed = c.isClosed
          /\ c'.toWrite = c.toWrite /\ c'.resp = c.resp /\ c'.out = c.out
          /\ c'.req = r /\ c'.reading = c.reading /\ c'.writing = c.writing
          /\ c'.pos = "head" /\ c'.cur = r /\ c'.bad = c.bad
          /\ c'.env = c.env /\ c'.keepAlive = c.keepAlive
          /\ c'.rq = [c.rq EXCEPT ![r].st = "head"]
      BY <1>0, <1>4, <2>0 DEF ConnType
    <2>2. \A q \in Req : /\ c'.rq[q].connErr = c.rq[q].connErr
                         /\ c'.rq[q].st = IF q = r THEN "head" ELSE c.rq[q].st
      BY <1>0, <2>1 DEF ConnType, ReqType
    <2>3. c.toWrite = 0 /\ r # None
      BY <1>2, <1>4, <1>0 DEF Accepts, ConnType, Req, None
    <2>4. c.req = None
      <3>1. c.req # None => ~c.rq[c.req].connErr
        BY <1>0 DEF ConnInv, Sane, Doomed
      <3>2. c.req # None => c.rq[c.req].st \in {"head", "body"}
        BY <2>3, <3>1 DEF ConnInv, Sane, OneRequest, Alive, Counted, Complete
      <3> QED BY <1>0, <1>1, <1>2, <3>2 DEF ConnInv, Sane, Parser
    <2>5. Handle(c', TRUE)
      BY <1>0, <2>1 DEF ConnInv, Sane, Handle
    <2>6. OneRequest(c')
      <3>1. OneRequest(c)
        BY DEF ConnInv, Sane
      <3>2. \A q \in Req : ~Alive(c, q) /\ ~c.rq[q].connErr
        BY <2>4, <3>1 DEF OneRequest, Req, None
      <3>3. \A q \in Req : q < r => c.rq[q].st # "new"
        BY <1>4 DEF Req
      <3>4. \A q \in Req : q > r => c.rq[q].st = "new"
        BY <1>4, <3>1 DEF OneRequest
      <3> QED BY <2>1, <2>2, <3>1, <3>2, <3>3, <3>4 DEF OneRequest, Alive, Req
    <2>7. Counted(c')
      BY <2>1, <2>2, <2>3 DEF Counted, Complete
    <2>8. Parser(c', TRUE)
      BY <2>1, <2>2, <2>3 DEF Parser
    <2>9. Doomed(c', TRUE)
      <3>1. ~c'.rq[r].connErr
        BY <2>1, <2>6, <2>2 DEF OneRequest, Alive
      <3> QED BY <2>1, <3>1 DEF Doomed
    <2>10. Follows(c, TRUE, c', TRUE) /\ Stream(c') = Stream(c)
      <3>1. Stream(c') = Stream(c)
        BY <2>1, Zenon DEF Stream
      <3>2. \A q \in Req : c.rq[q].st # "new" => q # r
        BY <1>4, Zenon
      <3>3. \A q \in Req : c.rq[q].st # "new" => c'.rq[q].st = c.rq[q].st /\ c'.rq[q].connErr = c.rq[q].connErr
        BY <2>2, <3>2, Zenon
      <3> QED BY <2>1, <3>1, <3>3, ZenonT(40) DEF Follows, Alive
    <2>11. Told(c', TRUE) /\ Ordered(Stream(c'), Excused(c'))
      BY <1>0, <2>10, StreamKept DEF ConnInv
    <2> QED BY <1>0, <2>1, <2>5, <2>6, <2>7, <2>8, <2>9, <2>11 DEF Sane
  <1> QED BY <1>3, <1>4 DEF wr_new_req_cb

(* The request whose head or body the parser reads. *)
LEMMA ParsedRequest ==
  ASSUME NEW s, Sane(s, TRUE), s.cur # None, s.pos \in {"head", "body"},
         s.rq[s.cur].st # "gone"
  PROVE  /\ s.cur \in Req /\ s.req = s.cur /\ s.rq[s.cur].st = s.pos
         /\ ~s.rq[s.cur].connErr /\ s.toWrite = 0
  <1>0. s \in ConnType /\ s.cur \in Req /\ s.mem = "live"
    BY OpenWhileParsing DEF Sane, ConnType
  <1>1. s.rq[s.cur].st = s.pos
    BY <1>0 DEF Sane, Parser
  <1>2. s.req = s.cur /\ ~s.rq[s.cur].connErr
    BY <1>0, <1>1 DEF Sane, OneRequest, Alive
  <1>3. s.toWrite # 1 /\ s.toWrite >= 0
    BY <1>0, <1>1, <1>2 DEF Sane, Counted, Complete, ConnType
  <1> QED BY <1>0, <1>1, <1>2, <1>3 DEF ConnType

LEMMA HeadSkippedSane ==
  ASSUME ConnInv, HeadSkipped
  PROVE  Sane(c', inRecv')
  <1>0. /\ inRecv = TRUE /\ inRecv' = TRUE /\ c \in ConnType /\ ~c.bad
        /\ c.pos = "head" /\ c.cur = None /\ c' = [c EXCEPT !.pos = "main"]
    BY DEF HeadSkipped, Parsing, ConnInv, Sane
  <1>1. c.open /\ c.mem = "live" /\ ~c.isClosed /\ Armed(c)
    BY <1>0, OpenWhileParsing DEF ConnInv
  <1>2. /\ c' \in ConnType /\ c'.mem = c.mem /\ c'.open = c.open /\ c'.isClosed = c.isClosed
        /\ c'.toWrite = c.toWrite /\ c'.resp = c.resp /\ c'.out = c.out
        /\ c'.req = c.req /\ c'.reading = c.reading /\ c'.writing = c.writing
        /\ c'.pos = "main" /\ c'.cur = None /\ c'.rq = c.rq /\ c'.bad = c.bad
        /\ c'.env = c.env /\ c'.keepAlive = c.keepAlive
    BY <1>0 DEF ConnType
  <1>3. Handle(c', TRUE)
    BY <1>0, <1>2 DEF ConnInv, Sane, Handle
  <1>4. OneRequest(c')
    BY <1>2 DEF ConnInv, Sane, OneRequest, Alive
  <1>5. Counted(c')
    BY <1>2 DEF ConnInv, Sane, Counted, Complete, Upload
  <1>6. Parser(c', TRUE) /\ Doomed(c', TRUE)
    BY <1>0, <1>1, <1>2 DEF ConnInv, Sane, Parser, Doomed
  <1>7. Follows(c, TRUE, c', TRUE) /\ Stream(c') = Stream(c)
    BY <1>2 DEF Follows, Alive, Stream
  <1>8. Told(c', TRUE) /\ Ordered(Stream(c'), Excused(c'))
    BY <1>0, <1>7, StreamKept DEF ConnInv
  <1> QED BY <1>0, <1>2, <1>3, <1>4, <1>5, <1>6, <1>8 DEF Sane, ConnInv

LEMMA GarbageSane ==
  ASSUME ConnInv, Garbage
  PROVE  Sane(c', inRecv')
  <1>0. /\ inRecv = TRUE /\ inRecv' = TRUE /\ c \in ConnType /\ ~c.bad
        /\ c.pos # "error" /\ c' = [c EXCEPT !.pos = "error"] /\ Garbled(c)
    BY DEF May, Garbled, Garbage, Parsing, ConnInv, Sane
  <1>1. c.open /\ c.mem = "live" /\ ~c.isClosed /\ Armed(c)
    BY <1>0, OpenWhileParsing DEF ConnInv
  <1>2. /\ c' \in ConnType /\ c'.mem = c.mem /\ c'.open = c.open /\ c'.isClosed = c.isClosed
        /\ c'.toWrite = c.toWrite /\ c'.resp = c.resp /\ c'.out = c.out
        /\ c'.req = c.req /\ c'.reading = c.reading /\ c'.writing = c.writing
        /\ c'.pos = "error" /\ c'.cur = c.cur /\ c'.rq = c.rq /\ c'.bad = c.bad
        /\ c'.env = c.env /\ c'.keepAlive = c.keepAlive
    BY <1>0 DEF ConnType
  <1>3. Handle(c', TRUE)
    BY <1>0, <1>2 DEF ConnInv, Sane, Handle
  <1>4. OneRequest(c')
    BY <1>2 DEF ConnInv, Sane, OneRequest, Alive
  <1>5. Counted(c')
    BY <1>2 DEF ConnInv, Sane, Counted, Complete, Upload
  <1>6. Parser(c', TRUE) /\ Doomed(c', TRUE)
    BY <1>0, <1>1, <1>2 DEF ConnInv, Sane, Parser, Doomed, Garbled
  <1>7. Follows(c, TRUE, c', TRUE) /\ Stream(c') = Stream(c)
    BY <1>2 DEF Follows, Alive, Stream
  <1>8. Told(c', TRUE) /\ Ordered(Stream(c'), Excused(c'))
    BY <1>0, <1>7, StreamKept DEF ConnInv
  <1> QED BY <1>0, <1>2, <1>3, <1>4, <1>5, <1>6, <1>8 DEF Sane, ConnInv

(* wr_req_free of a request that has not been answered with an error: it is *)
(* freed, and with it a closed connection that waited for it.               *)
ReqEnded(s, r, d) ==
  /\ d \in ConnType
  /\ d.rq = [s.rq EXCEPT ![r].st = "gone"]
  /\ d.toWrite = s.toWrite - 1 /\ d.req = None
  /\ d.open = s.open /\ d.isClosed = s.isClosed /\ d.keepAlive = s.keepAlive
  /\ d.reading = s.reading /\ d.writing = s.writing
  /\ d.pos = s.pos /\ d.cur = s.cur /\ d.out = s.out /\ d.bad = s.bad /\ d.env = s.env

LEMMA ReqFreeEffect ==
  ASSUME NEW s \in ConnType, NEW r \in Req, s.rq[r].st # "gone", ~s.rq[r].connErr,
         s.mem = "live", s.toWrite >= -1
  PROVE  LET d == wr_req_free(s, r)
         IN  /\ ReqEnded(s, r, d)
             /\ ~(s.isClosed /\ s.toWrite = 1) => d.mem = "live" /\ d.resp = s.resp
             /\ s.isClosed /\ s.toWrite = 1 => d.mem = "freed" /\ d.resp = <<>>
  <1> DEFINE f == [s EXCEPT !.rq[r].st = "gone"]
             e == [f EXCEPT !.toWrite = @ - 1, !.req = None]
             g == [e EXCEPT !.mem = "freed", !.resp = <<>>]
  <1>0. [s.rq EXCEPT ![r].st = "gone"] \in [Req -> ReqType]
    BY SMTT(30) DEF ConnType, ReqType
  <1>1. /\ f \in ConnType /\ f.rq = [s.rq EXCEPT ![r].st = "gone"]
        /\ f.mem = s.mem /\ f.open = s.open /\ f.isClosed = s.isClosed
        /\ f.toWrite = s.toWrite /\ f.resp = s.resp /\ f.out = s.out
        /\ f.req = s.req /\ f.reading = s.reading /\ f.writing = s.writing
        /\ f.pos = s.pos /\ f.cur = s.cur /\ f.bad = s.bad
        /\ f.env = s.env /\ f.keepAlive = s.keepAlive
    BY <1>0 DEF ConnType
  <1> HIDE DEF f
  <1>2. f.toWrite - 1 \in -2..1
    BY <1>1 DEF ConnType
  <1>3. /\ ReqEnded(s, r, e) /\ e.mem = s.mem /\ e.resp = s.resp
    BY <1>1, <1>2 DEF ConnType, ReqEnded
  <1> HIDE DEF e
  <1>4. ReqEnded(s, r, g) /\ g.mem = "freed" /\ g.resp = <<>>
    <2>1. <<>> \in Seq(Piece)
      OBVIOUS
    <2>2. e \in ConnType
      BY <1>3 DEF ReqEnded
    <2>3. g \in ConnType
      BY <2>1, <2>2 DEF ConnType
    <2> QED BY <1>3, <2>2, <2>3 DEF ConnType, ReqEnded
  <1>5. wr_req_free(s, r) = IF e.isClosed /\ e.toWrite = 0 THEN g ELSE e
    <2>1. wr_conn_free(e) = g
      BY <1>3 DEF wr_conn_free
    <2>2. wr_req_free(s, r) = CASE s.rq[r].connErr -> f
             [] ~s.rq[r].connErr /\ s.mem = "freed" -> Bad(f)
             [] ~s.rq[r].connErr /\ s.mem = "live" /\ e.isClosed /\ e.toWrite = 0 ->
                  wr_conn_free(e)
             [] OTHER -> e
      BY DEF wr_req_free, e, f
    <2> HIDE DEF g
    <2> QED BY <2>1, <2>2
  <1>6. (e.isClosed /\ e.toWrite = 0) <=> (s.isClosed /\ s.toWrite = 1)
    BY <1>3 DEF ReqEnded, ConnType
  <1> HIDE DEF g
  <1> QED BY <1>3, <1>4, <1>5, <1>6

LEMMA HeadersSane ==
  ASSUME ConnInv, wr_headers_complete_cb
  PROVE  Sane(c', inRecv')
  <1> DEFINE r == c.cur
  <1>0. inRecv = TRUE /\ inRecv' = TRUE /\ c \in ConnType /\ ~c.bad
        /\ c.pos = "head" /\ c.cur # None
    BY DEF wr_headers_complete_cb, Parsing, ConnInv, Sane
  <1>1. c.open /\ c.mem = "live" /\ ~c.isClosed /\ Armed(c)
    BY <1>0, OpenWhileParsing DEF ConnInv
  <1>2. /\ r \in Req /\ c.req = r /\ c.rq[r].st = "head"
        /\ ~c.rq[r].connErr /\ c.toWrite = 0
    <2>1. c.rq[c.cur].st # "gone"
      BY <1>0, <1>1 DEF ConnInv, Sane, Parser
    <2> QED BY <1>0, <2>1, ParsedRequest DEF ConnInv
  <1>3. OneRequest(c)
    BY DEF ConnInv, Sane
  <1> HIDE DEF r
  <1>4. ASSUME NEW app \in BOOLEAN,
               c' = [c EXCEPT !.pos = "body", !.rq[c.cur].st = "body", !.rq[c.cur].app = app]
        PROVE  Sane(c', inRecv')
    <2>0. [[c.rq EXCEPT ![r].st = "body"] EXCEPT ![r].app = app] \in [Req -> ReqType]
      <3>1. [c.rq EXCEPT ![r].st = "body"] \in [Req -> ReqType]
        BY <1>0, <1>2 DEF ConnType, ReqType
      <3> QED BY <1>2, <3>1 DEF ReqType
    <2>1. /\ c' \in ConnType /\ c'.mem = c.mem /\ c'.open = c.open /\ c'.isClosed = c.isClosed
          /\ c'.toWrite = c.toWrite /\ c'.resp = c.resp /\ c'.out = c.out
          /\ c'.req = r /\ c'.reading = c.reading /\ c'.writing = c.writing
          /\ c'.pos = "body" /\ c'.cur = r /\ c'.bad = c.bad
          /\ c'.env = c.env /\ c'.keepAlive = c.keepAlive
          /\ c'.rq = [[c.rq EXCEPT ![r].st = "body"] EXCEPT ![r].app = app]
      BY <1>0, <1>2, <1>4, <2>0 DEF ConnType, r
    <2>2. \A q \in Req : /\ c'.rq[q].connErr = c.rq[q].connErr
                         /\ c'.rq[q].st = IF q = r THEN "body" ELSE c.rq[q].st
      BY <1>0, <1>2, <2>1 DEF ConnType, ReqType
    <2>3. Handle(c', TRUE)
      BY <1>0, <2>1 DEF ConnInv, Sane, Handle
    <2>4. OneRequest(c')
      BY <1>2, <1>3, <2>1, <2>2 DEF OneRequest, Alive
    <2>5. Counted(c')
      BY <1>2, <2>1, <2>2 DEF Counted, Complete
    <2>6. Parser(c', TRUE) /\ Doomed(c', TRUE)
      BY <1>0, <1>2, <2>1, <2>2 DEF Parser, Doomed, r
    <2>7. Follows(c, TRUE, c', TRUE) /\ Stream(c') = Stream(c)
      BY <1>2, <2>1, <2>2 DEF Follows, Alive, Stream
    <2>8. Told(c', TRUE) /\ Ordered(Stream(c'), Excused(c'))
      BY <1>0, <2>7, StreamKept DEF ConnInv
    <2> QED BY <1>0, <2>1, <2>3, <2>4, <2>5, <2>6, <2>8 DEF Sane
  <1>5. CASE May("upload") /\ c' = [wr_req_free(c, c.cur) EXCEPT !.pos = "body"]
    <2>1. c.toWrite = 0 /\ c.rq[r].st # "gone" /\ c' = [wr_req_free(c, r) EXCEPT !.pos = "body"]
      BY <1>2, <1>5 DEF r
    <2>2. /\ c' \in ConnType /\ c'.mem = c.mem /\ c'.open = c.open /\ c'.isClosed = c.isClosed
          /\ c'.toWrite = -1 /\ c'.resp = c.resp /\ c'.out = c.out
          /\ c'.req = None /\ c'.reading = c.reading /\ c'.writing = c.writing
          /\ c'.pos = "body" /\ c'.cur = r /\ c'.bad = c.bad
          /\ c'.env = c.env /\ c'.keepAlive = c.keepAlive
          /\ c'.rq = [c.rq EXCEPT ![r].st = "gone"]
      <3> DEFINE e == wr_req_free(c, r)
      <3>1. ReqEnded(c, r, e) /\ e.mem = "live" /\ e.resp = c.resp
        BY <1>0, <1>1, <1>2, <2>1, ReqFreeEffect
      <3> HIDE DEF e
      <3>2. c' = [e EXCEPT !.pos = "body"]
        BY <2>1 DEF e
      <3>3. e \in ConnType
        BY <3>1 DEF ReqEnded
      <3>4. /\ c' \in ConnType /\ c'.mem = e.mem /\ c'.open = e.open /\ c'.isClosed = e.isClosed
            /\ c'.toWrite = e.toWrite /\ c'.resp = e.resp /\ c'.out = e.out
            /\ c'.req = e.req /\ c'.reading = e.reading /\ c'.writing = e.writing
            /\ c'.pos = "body" /\ c'.cur = e.cur /\ c'.bad = e.bad
            /\ c'.env = e.env /\ c'.keepAlive = e.keepAlive /\ c'.rq = e.rq
        BY <3>2, <3>3 DEF ConnType
      <3> QED BY <1>1, <1>2, <3>1, <3>4 DEF ReqEnded, r
    <2>3. \A q \in Req : /\ c'.rq[q].connErr = c.rq[q].connErr
                         /\ c'.rq[q].st = IF q = r THEN "gone" ELSE c.rq[q].st
      BY <1>0, <1>2, <2>2 DEF ConnType, ReqType
    <2>4. Handle(c', TRUE)
      BY <1>0, <1>1, <2>2 DEF ConnInv, Sane, Handle
    <2>5. OneRequest(c')
      BY <1>2, <1>3, <2>2, <2>3 DEF OneRequest, Alive
    <2>6. Counted(c')
      BY <1>5, <2>2 DEF Counted, Upload, May
    <2>7. Parser(c', TRUE) /\ Doomed(c', TRUE)
      BY <1>0, <1>2, <1>5, <2>2, <2>3 DEF Parser, Doomed, Upload, May, Req, None
    <2>8. Follows(c, TRUE, c', TRUE) /\ Stream(c') = Stream(c)
      BY <1>2, <2>2, <2>3 DEF Follows, Alive, Stream
    <2>9. Told(c', TRUE) /\ Ordered(Stream(c'), Excused(c'))
      BY <1>0, <2>8, StreamKept DEF ConnInv
    <2> QED BY <1>0, <2>2, <2>4, <2>5, <2>6, <2>7, <2>9 DEF Sane
  <1> QED BY <1>4, <1>5 DEF wr_headers_complete_cb

-----------------------------------------------------------------------------
(* Responses to an open connection: the piece is added to the list and the  *)
(* write watcher runs.                                                      *)
ErrorPiece(s) == [r |-> s.req, part |-> "error"]

Answered(s, d, piece, keep) ==
  /\ d \in ConnType /\ d.mem = s.mem /\ d.open = s.open /\ d.isClosed = s.isClosed
  /\ d.toWrite = s.toWrite /\ d.keepAlive = keep /\ d.resp = Append(s.resp, piece)
  /\ d.req = s.req /\ d.reading = s.reading /\ d.writing = TRUE
  /\ d.pos = s.pos /\ d.cur = s.cur /\ d.rq = s.rq /\ d.out = s.out
  /\ d.bad = s.bad /\ d.env = s.env

LEMMA BodyAddEffect ==
  ASSUME NEW s \in ConnType, NEW p \in Piece, s.mem = "live", s.isClosed \/ Armed(s)
  PROVE  /\ ~s.isClosed => Answered(s, wr_conn_resp_body_add(s, p), p, s.keepAlive)
         /\ s.isClosed /\ s.toWrite # 0 => wr_conn_resp_body_add(s, p) = s
  <1>1. CASE ~s.isClosed
    <2>1. wr_conn_resp_body_add(s, p) = [s EXCEPT !.resp = Append(@, p), !.writing = @ \/ s.resp = <<>>]
      BY <1>1 DEF wr_conn_resp_body_add
    <2>2. Append(s.resp, p) \in Seq(Piece)
      BY DEF ConnType
    <2>3. Answered(s, [s EXCEPT !.resp = Append(@, p), !.writing = @ \/ s.resp = <<>>], p, s.keepAlive)
      BY <1>1, <2>2 DEF ConnType, Answered, Armed
    <2> QED BY <1>1, <2>1, <2>3
  <1>2. CASE s.isClosed
    BY <1>2 DEF wr_conn_resp_body_add
  <1> QED BY <1>1, <1>2 DEF ConnType

LEMMA ErrRespOpen ==
  ASSUME NEW s \in ConnType, NEW using \in BOOLEAN, s.mem = "live", ~s.isClosed, Armed(s),
         s.req # None => s.rq[s.req].st # "gone"
  PROVE  \E a : /\ Answered(s, a, ErrorPiece(s), FALSE)
                /\ wr_conn_err_resp(s, using) =
                     IF s.req = None THEN ErrNoRequest(a)
                     ELSE IF s.rq[s.req].st = "busy" /\ using THEN ErrWithWorker(a, s.req)
                     ELSE wr_req_free(a, s.req)
  <1> DEFINE t == [s EXCEPT !.keepAlive = FALSE]
             a == wr_conn_resp_body_add(t, ErrorPiece(s))
  <1>1. /\ t \in ConnType /\ t.mem = s.mem /\ t.open = s.open /\ t.isClosed = s.isClosed
        /\ t.toWrite = s.toWrite /\ t.keepAlive = FALSE /\ t.resp = s.resp
        /\ t.req = s.req /\ t.reading = s.reading /\ t.writing = s.writing
        /\ t.pos = s.pos /\ t.cur = s.cur /\ t.rq = s.rq /\ t.out = s.out
        /\ t.bad = s.bad /\ t.env = s.env
    BY DEF ConnType
  <1>2. ErrorPiece(s) \in Piece
    BY DEF ErrorPiece, Piece, ConnType
  <1> HIDE DEF t
  <1>3. Answered(t, a, ErrorPiece(s), t.keepAlive)
    BY <1>1, <1>2, BodyAddEffect DEF Armed
  <1>4. Answered(s, a, ErrorPiece(s), FALSE)
    BY <1>1, <1>3 DEF Answered
  <1>5. a.mem = "live" /\ a.req = s.req /\ a.rq = s.rq
    BY <1>4 DEF Answered
  <1>6. wr_conn_err_resp(s, using) =
          CASE s.mem = "freed" \/ a.mem = "freed" -> Bad(s)
            [] a.mem = "live" /\ a.req = None -> ErrNoRequest(a)
            [] a.mem = "live" /\ a.req # None ->
                 IF a.rq[a.req].st = "gone" THEN Bad(a)
                 ELSE IF a.rq[a.req].st = "busy" /\ using THEN ErrWithWorker(a, a.req)
                 ELSE wr_req_free(a, a.req)
    BY DEF wr_conn_err_resp, a, t, ErrorPiece
  <1> HIDE DEF a
  <1>7. wr_conn_err_resp(s, using) =
          IF s.req = None THEN ErrNoRequest(a)
          ELSE IF s.rq[s.req].st = "busy" /\ using THEN ErrWithWorker(a, s.req)
          ELSE wr_req_free(a, s.req)
    <2>1. CASE s.req = None
      BY <1>5, <1>6, <2>1
    <2>2. CASE s.req # None
      BY <1>5, <1>6, <2>2
    <2> QED BY <2>1, <2>2
  <1> QED BY <1>4, <1>7

LEMMA ErrRespClosed ==
  ASSUME NEW s \in ConnType, s.mem = "live", s.isClosed, s.toWrite = 1,
         s.req # None, s.rq[s.req].st # "gone"
  PROVE  LET t == [s EXCEPT !.keepAlive = FALSE]
         IN  t \in ConnType /\ wr_conn_err_resp(s, FALSE) = wr_req_free(t, s.req)
  <1> DEFINE t == [s EXCEPT !.keepAlive = FALSE]
             a == wr_conn_resp_body_add(t, ErrorPiece(s))
  <1>1. t \in ConnType /\ t.mem = "live" /\ t.isClosed /\ t.toWrite = 1
        /\ t.req = s.req /\ t.rq = s.rq
    BY DEF ConnType
  <1>2. ErrorPiece(s) \in Piece
    BY DEF ErrorPiece, Piece, ConnType
  <1> HIDE DEF t
  <1>3. a = t
    BY <1>1, <1>2, BodyAddEffect
  <1>4. wr_conn_err_resp(s, FALSE) =
          CASE s.mem = "freed" \/ a.mem = "freed" -> Bad(s)
            [] a.mem = "live" /\ a.req = None -> ErrNoRequest(a)
            [] a.mem = "live" /\ a.req # None ->
                 IF a.rq[a.req].st = "gone" THEN Bad(a)
                 ELSE IF a.rq[a.req].st = "busy" /\ FALSE THEN ErrWithWorker(a, a.req)
                 ELSE wr_req_free(a, a.req)
    BY DEF wr_conn_err_resp, a, t, ErrorPiece
  <1> HIDE DEF a
  <1>5. wr_conn_err_resp(s, FALSE) = wr_req_free(t, s.req)
    BY <1>1, <1>3, <1>4
  <1> QED BY <1>1, <1>5 DEF t

(* wr_req_invalid on an open connection whose request, if it has one, is   *)
(* not answered yet.                                                        *)
Refused(s, d) ==
  /\ d \in ConnType /\ d.mem = s.mem /\ d.open = s.open /\ d.isClosed = s.isClosed
  /\ d.toWrite = (IF s.toWrite = 0 THEN 0 ELSE s.toWrite - 1)
  /\ d.keepAlive = FALSE /\ d.resp = Append(s.resp, ErrorPiece(s))
  /\ d.reading = FALSE /\ d.writing = TRUE
  /\ d.pos = s.pos /\ d.cur = None /\ d.out = s.out
  /\ d.bad = s.bad /\ d.env = s.env
  /\ \/ s.req = None /\ d.req = None /\ d.rq = s.rq
     \/ /\ s.req # None /\ s.rq[s.req].st = "busy"
        /\ d.req = s.req /\ d.rq = [s.rq EXCEPT ![s.req].connErr = TRUE]
     \/ /\ s.req # None /\ s.rq[s.req].st # "busy"
        /\ d.req = None /\ d.rq = [s.rq EXCEPT ![s.req].st = "gone"]

LEMMA InvalidEffect ==
  ASSUME NEW s \in ConnType, s.mem = "live", ~s.isClosed, Armed(s), s.toWrite >= -1,
         s.req # None => s.rq[s.req].st # "gone" /\ ~s.rq[s.req].connErr
  PROVE  Refused(s, wr_req_invalid(s))
  <1> DEFINE t == [s EXCEPT !.keepAlive = FALSE, !.reading = FALSE, !.cur = None,
                            !.toWrite = IF @ = 0 THEN 1 ELSE @]
  <1>0. /\ (IF s.toWrite = 0 THEN 1 ELSE s.toWrite) \in -1..1
        /\ (IF s.toWrite = 0 THEN 1 ELSE s.toWrite) \in -2..1
    BY DEF ConnType
  <1>1. /\ t \in ConnType /\ t.mem = s.mem /\ t.open = s.open /\ t.isClosed = s.isClosed
        /\ t.toWrite = (IF s.toWrite = 0 THEN 1 ELSE s.toWrite)
        /\ t.keepAlive = FALSE /\ t.resp = s.resp
        /\ t.req = s.req /\ t.reading = FALSE /\ t.writing = s.writing
        /\ t.pos = s.pos /\ t.cur = None /\ t.rq = s.rq /\ t.out = s.out
        /\ t.bad = s.bad /\ t.env = s.env
    BY <1>0 DEF ConnType
  <1>2. wr_req_invalid(s) = wr_conn_err_resp(t, TRUE)
    BY DEF wr_req_invalid
  <1> HIDE DEF t
  <1>3. PICK a : /\ Answered(t, a, ErrorPiece(t), FALSE)
                 /\ wr_conn_err_resp(t, TRUE) =
                      IF t.req = None THEN ErrNoRequest(a)
                      ELSE IF t.rq[t.req].st = "busy" /\ TRUE THEN ErrWithWorker(a, t.req)
                      ELSE wr_req_free(a, t.req)
    BY <1>1, ErrRespOpen DEF Armed
  <1>4. ErrorPiece(t) = ErrorPiece(s)
    BY <1>1 DEF ErrorPiece
  <1>5. /\ a \in ConnType /\ a.mem = "live" /\ a.open = s.open /\ ~a.isClosed
        /\ a.isClosed = s.isClosed /\ a.toWrite = t.toWrite /\ a.keepAlive = FALSE
        /\ a.resp = Append(s.resp, ErrorPiece(s))
        /\ a.req = s.req /\ a.reading = FALSE /\ a.writing = TRUE
        /\ a.pos = s.pos /\ a.cur = None /\ a.rq = s.rq /\ a.out = s.out
        /\ a.bad = s.bad /\ a.env = s.env
    BY <1>1, <1>3, <1>4 DEF Answered
  <1>6. /\ a.toWrite \in -1..1 /\ a.toWrite - 1 \in -2..1
        /\ a.toWrite - 1 = IF s.toWrite = 0 THEN 0 ELSE s.toWrite - 1
    BY <1>0, <1>1, <1>5 DEF ConnType
  <1>7. CASE s.req = None
    <2> DEFINE d == [a EXCEPT !.toWrite = @ - 1]
    <2>1. wr_req_invalid(s) = d
      BY <1>1, <1>2, <1>3, <1>7 DEF ErrNoRequest
    <2>2. /\ d \in ConnType /\ d.mem = a.mem /\ d.open = a.open /\ d.isClosed = a.isClosed
          /\ d.toWrite = a.toWrite - 1 /\ d.keepAlive = a.keepAlive /\ d.resp = a.resp
          /\ d.req = a.req /\ d.reading = a.reading /\ d.writing = a.writing
          /\ d.pos = a.pos /\ d.cur = a.cur /\ d.rq = a.rq /\ d.out = a.out
          /\ d.bad = a.bad /\ d.env = a.env
      BY <1>5, <1>6 DEF ConnType
    <2> HIDE DEF d
    <2>3. Refused(s, d)
      BY <1>5, <1>6, <1>7, <2>2 DEF Refused
    <2> QED BY <2>1, <2>3
  <1>8. CASE s.req # None /\ s.rq[s.req].st = "busy"
    <2> DEFINE d == [a EXCEPT !.rq[s.req].connErr = TRUE, !.toWrite = @ - 1]
    <2>0. s.req \in Req /\ a.rq \in [Req -> ReqType]
          /\ [a.rq EXCEPT ![s.req].connErr = TRUE] \in [Req -> ReqType]
      <3>1. s.req \in Req /\ a.rq \in [Req -> ReqType]
        BY <1>5, <1>8 DEF ConnType
      <3> QED BY <3>1 DEF ReqType
    <2>1. wr_req_invalid(s) = d
      BY <1>1, <1>2, <1>3, <1>8 DEF ErrWithWorker
    <2>2. /\ d \in ConnType /\ d.mem = a.mem /\ d.open = a.open /\ d.isClosed = a.isClosed
          /\ d.toWrite = a.toWrite - 1 /\ d.keepAlive = a.keepAlive /\ d.resp = a.resp
          /\ d.req = a.req /\ d.reading = a.reading /\ d.writing = a.writing
          /\ d.pos = a.pos /\ d.cur = a.cur /\ d.out = a.out
          /\ d.rq = [a.rq EXCEPT ![s.req].connErr = TRUE]
          /\ d.bad = a.bad /\ d.env = a.env
      BY <1>5, <1>6, <2>0 DEF ConnType
    <2> HIDE DEF d
    <2>3. Refused(s, d)
      BY <1>5, <1>6, <1>8, <2>2 DEF Refused
    <2> QED BY <2>1, <2>3
  <1>9. CASE s.req # None /\ s.rq[s.req].st # "busy"
    <2> DEFINE d == wr_req_free(a, s.req)
    <2>0. s.req \in Req
      BY <1>9 DEF ConnType
    <2>1. wr_req_invalid(s) = d
      BY <1>1, <1>2, <1>3, <1>9
    <2>2. ReqEnded(a, s.req, d) /\ d.mem = "live" /\ d.resp = a.resp
      BY <1>5, <1>6, <1>9, <2>0, ReqFreeEffect
    <2> HIDE DEF d
    <2>3. Refused(s, d)
      BY <1>5, <1>6, <1>9, <2>2 DEF Refused, ReqEnded
    <2> QED BY <2>1, <2>3
  <1> QED BY <1>7, <1>8, <1>9

(* The request of an open connection ends with a last piece. *)
LEMMA EndedSane ==
  ASSUME NEW s, NEW in, Sane(s, in), s.open,
         s.req # None, Alive(s, s.req), ~s.rq[s.req].connErr,
         NEW p \in Piece, p.r = s.req,
         NEW d \in ConnType, NEW in2 \in BOOLEAN,
         d.mem = s.mem, d.open = s.open, d.isClosed = s.isClosed, d.toWrite = 0,
         d.resp = Append(s.resp, p), d.out = s.out, d.writing = TRUE,
         d.req = None, d.rq = [s.rq EXCEPT ![s.req].st = "gone"],
         d.bad = s.bad, d.env = s.env,
         \/ /\ ~in /\ ~in2 /\ Complete(s, s.req)
            /\ d.pos = s.pos /\ d.cur = s.cur /\ d.reading = s.reading
         \/ /\ d.cur = None /\ d.reading = FALSE
            /\ (in2 /\ d.pos \in {"head", "main"}) \/ (~in2 /\ d.pos = "error" /\ Garbled(s))
  PROVE  Sane(d, in2)
  <1>0. s \in ConnType /\ s.req \in Req /\ s.mem = "live" /\ ~s.isClosed
    BY DEF Sane, ConnType, Handle
  <1>1. \A q \in Req : /\ d.rq[q].connErr = s.rq[q].connErr
                       /\ d.rq[q].st = IF q = s.req THEN "gone" ELSE s.rq[q].st
    BY <1>0 DEF ConnType, ReqType
  <1>2. s.resp \in Seq(Piece) /\ s.out \in Seq(Piece) /\ Append(s.resp, p) # <<>>
    BY <1>0 DEF ConnType
  <1>3. Handle(d, in2)
    BY <1>0, <1>2 DEF Handle
  <1>4. OneRequest(d)
    <2>1. OneRequest(s)
      BY DEF Sane
    <2> QED BY <1>0, <1>1, <2>1 DEF OneRequest, Alive, Req
  <1>5. Counted(d)
    BY DEF Counted
  <1>6. Parser(d, in2)
    <2>1. CASE ~in /\ ~in2 /\ Complete(s, s.req)
               /\ d.pos = s.pos /\ d.cur = s.cur /\ d.reading = s.reading
      <3>1. s.cur # None => s.pos = "body" /\ s.rq[s.cur].st = "gone" /\ Upload(s)
        <4> SUFFICES ASSUME s.cur # None PROVE s.pos = "body" /\ s.rq[s.cur].st = "gone" /\ Upload(s)
          OBVIOUS
        <4>1. s.cur \in Req /\ s.pos \in {"main", "head", "body", "error"}
              /\ s.rq[s.cur] \in ReqType
          BY <1>0 DEF ConnType
        <4>2. s.pos = s.rq[s.cur].st => s.cur = s.req
          BY <4>1, <1>0 DEF Sane, OneRequest, Alive, ReqType
        <4>3. s.pos # s.rq[s.cur].st
          BY <2>1, <4>1, <4>2 DEF Complete
        <4> QED BY <1>0, <2>1, <4>3 DEF Sane, Parser
      <3>2. s.cur # None => s.cur \in Req /\ s.cur # s.req
        BY <1>0, <3>1 DEF Alive, ConnType
      <3>3. s.pos = "error" => ~s.reading /\ s.cur = None /\ Garbled(s)
        BY <1>0, <2>1 DEF Sane, Parser
      <3>4. s.pos = "body" => s.cur # None
        BY <1>0 DEF Sane, Parser
      <3> QED BY <1>1, <2>1, <3>1, <3>2, <3>3, <3>4 DEF Parser, Upload, Garbled
    <2>2. CASE /\ d.cur = None /\ d.reading = FALSE
               /\ (in2 /\ d.pos \in {"head", "main"}) \/ (~in2 /\ d.pos = "error" /\ Garbled(s))
      BY <2>2 DEF Parser, Garbled
    <2> QED BY <2>1, <2>2
  <1>7. Doomed(d, in2)
    BY DEF Doomed
  <1>8. Follows(s, in, d, in2)
    BY <1>1 DEF Follows, Alive
  <1>9. Stream(d) = Append(Stream(s), p)
    BY <1>2, StreamAppend, ZenonT(40) DEF Stream
  <1>10. /\ s.rq[s.req].connErr => Excused(s)
         /\ Alive(d, s.req) /\ ~d.rq[s.req].connErr => p.part = "some"
    BY <1>0, <1>1 DEF Alive
  <1>11. Told(d, in2) /\ Ordered(Stream(d), Excused(d))
    <2>1. Grows(s, in, d, in2, p)
      BY <1>8, <1>9, <1>10 DEF Grows
    <2> QED BY <2>1, StreamGrows
  <1>12. d.bad => Excusable(d)
    BY DEF Sane, Upload, Excused, Excusable
  <1> QED BY <1>3, <1>4, <1>5, <1>6, <1>7, <1>11, <1>12 DEF Sane

LEMMA HeadRejectedSane ==
  ASSUME ConnInv, HeadRejected
  PROVE  Sane(c', inRecv')
  <1>0. inRecv = TRUE /\ inRecv' = TRUE /\ c \in ConnType /\ ~c.bad
        /\ c.pos = "head" /\ c.cur # None
    BY DEF HeadRejected, Parsing, ConnInv, Sane
  <1>1. c.open /\ c.mem = "live" /\ ~c.isClosed /\ Armed(c)
    BY <1>0, OpenWhileParsing DEF ConnInv
  <1>2. /\ c.req \in Req /\ c.req = c.cur /\ c.rq[c.req].st = "head"
        /\ ~c.rq[c.req].connErr /\ c.toWrite = 0 /\ c.req # None
    <2>1. c.rq[c.cur].st # "gone"
      BY <1>0, <1>1 DEF ConnInv, Sane, Parser
    <2> QED BY <1>0, <2>1, ParsedRequest DEF ConnInv
  <1>3. PICK p \in {"head", "main"} : c' = [wr_req_invalid(c) EXCEPT !.pos = p]
    BY DEF HeadRejected
  <1> DEFINE d == wr_req_invalid(c)
  <1>4. Refused(c, d)
    BY <1>0, <1>1, <1>2, InvalidEffect
  <1>5. c' = [d EXCEPT !.pos = p]
    BY <1>3
  <1> HIDE DEF d
  <1>6. /\ d \in ConnType /\ d.mem = c.mem /\ d.open = c.open /\ d.isClosed = c.isClosed
        /\ d.toWrite = 0 /\ d.resp = Append(c.resp, ErrorPiece(c))
        /\ d.reading = FALSE /\ d.writing = TRUE /\ d.cur = None /\ d.out = c.out
        /\ d.bad = c.bad /\ d.env = c.env /\ d.req = None
        /\ d.rq = [c.rq EXCEPT ![c.req].st = "gone"]
    BY <1>2, <1>4 DEF Refused
  <1>7. /\ c' \in ConnType /\ c'.mem = d.mem /\ c'.open = d.open /\ c'.isClosed = d.isClosed
        /\ c'.toWrite = d.toWrite /\ c'.resp = d.resp /\ c'.out = d.out
        /\ c'.req = d.req /\ c'.reading = d.reading /\ c'.writing = d.writing
        /\ c'.pos = p /\ c'.cur = d.cur /\ c'.rq = d.rq /\ c'.bad = d.bad
        /\ c'.env = d.env
    BY <1>5, <1>6 DEF ConnType
  <1>8. ErrorPiece(c) \in Piece /\ ErrorPiece(c).r = c.req
    BY <1>2 DEF ErrorPiece, Piece
  <1>9. Alive(c, c.req)
    BY <1>2 DEF Alive
  <1>10. Sane(c, TRUE)
    BY <1>0 DEF ConnInv
  <1>11. /\ c'.mem = c.mem /\ c'.open = c.open /\ c'.isClosed = c.isClosed
         /\ c'.toWrite = 0 /\ c'.resp = Append(c.resp, ErrorPiece(c)) /\ c'.out = c.out
         /\ c'.req = None /\ c'.writing = TRUE /\ c'.bad = c.bad /\ c'.env = c.env
         /\ c'.rq = [c.rq EXCEPT ![c.req].st = "gone"]
    BY <1>6, <1>7
  <1>12. /\ c'.cur = None /\ c'.reading = FALSE
         /\ (TRUE /\ c'.pos \in {"head", "main"}) \/ (~TRUE /\ c'.pos = "error" /\ Garbled(c))
    BY <1>6, <1>7
  <1>13. Sane(c', TRUE)
    BY <1>1, <1>2, <1>7, <1>8, <1>9, <1>10, <1>11, <1>12, EndedSane, Zenon
  <1> QED BY <1>0, <1>13

LEMMA CompleteSane ==
  ASSUME ConnInv, wr_req_complete_cb
  PROVE  Sane(c', inRecv')
  <1> DEFINE r == c.cur
  <1>0. inRecv = TRUE /\ inRecv' = TRUE /\ c \in ConnType /\ ~c.bad
        /\ c.pos = "body" /\ Sane(c, TRUE)
    BY DEF wr_req_complete_cb, Parsing, ConnInv, Sane
  <1>1. c.open /\ c.mem = "live" /\ ~c.isClosed /\ Armed(c)
    BY <1>0, OpenWhileParsing
  <1>2. r # None /\ r \in Req
    BY <1>0, <1>1 DEF Sane, Parser, ConnType
  <1>3. CASE c.rq[r].st = "gone" /\ c' = Bad(c)
    <2>1. Upload(c)
      BY <1>0, <1>1, <1>2, <1>3 DEF Sane, Parser
    <2>2. /\ c' \in ConnType /\ c'.mem = c.mem /\ c'.open = c.open /\ c'.isClosed = c.isClosed
          /\ c'.toWrite = c.toWrite /\ c'.resp = c.resp /\ c'.out = c.out
          /\ c'.req = c.req /\ c'.reading = c.reading /\ c'.writing = c.writing
          /\ c'.pos = c.pos /\ c'.cur = c.cur /\ c'.rq = c.rq
          /\ c'.env = c.env /\ c'.keepAlive = c.keepAlive
      BY <1>0, <1>3 DEF ConnType, Bad
    <2>3. Handle(c', TRUE)
      BY <1>0, <2>2 DEF Sane, Handle
    <2>4. OneRequest(c')
      BY <1>0, <2>2 DEF Sane, OneRequest, Alive
    <2>5. Counted(c')
      BY <1>0, <2>2 DEF Sane, Counted, Complete, Upload
    <2>6. Parser(c', TRUE) /\ Doomed(c', TRUE)
      BY <1>0, <2>2 DEF Sane, Parser, Doomed, Upload, Garbled
    <2>7. Follows(c, TRUE, c', TRUE) /\ Stream(c') = Stream(c)
      BY <2>2 DEF Follows, Alive, Stream
    <2>8. Told(c', TRUE) /\ Ordered(Stream(c'), Excused(c'))
      BY <1>0, <2>7, StreamKept
    <2>9. Upload(c')
      BY <2>1, <2>2 DEF Upload
    <2> QED BY <1>0, <2>2, <2>3, <2>4, <2>5, <2>6, <2>8, <2>9 DEF Sane, Excusable
  <1>4. ASSUME c.rq[r].st # "gone", NEW keep \in BOOLEAN,
               LET d == [c EXCEPT !.keepAlive = keep, !.toWrite = @ + 1, !.pos = "main", !.cur = None]
               IN  c' = [d EXCEPT !.rq[r].st = "queued"] \/ c' = wr_req_invalid(d)
        PROVE  Sane(c', inRecv')
    <2> DEFINE d == [c EXCEPT !.keepAlive = keep, !.toWrite = @ + 1, !.pos = "main", !.cur = None]
    <2>1. c.req = r /\ c.rq[r].st = "body" /\ ~c.rq[r].connErr /\ c.toWrite = 0
      BY <1>0, <1>2, <1>4, ParsedRequest
    <2>2. /\ d \in ConnType /\ d.mem = c.mem /\ d.open = c.open /\ d.isClosed = c.isClosed
          /\ d.toWrite = 1 /\ d.resp = c.resp /\ d.out = c.out
          /\ d.req = r /\ d.reading = c.reading /\ d.writing = c.writing
          /\ d.pos = "main" /\ d.cur = None /\ d.rq = c.rq /\ d.bad = c.bad
          /\ d.env = c.env
      <3>1. c.toWrite + 1 = 1 /\ c.toWrite + 1 \in -2..1 /\ None \in Req \cup {None}
        BY <2>1
      <3> HIDE DEF r
      <3>2. d \in ConnType
        BY <1>0, <3>1 DEF ConnType
      <3> QED BY <1>0, <2>1, <3>1, <3>2 DEF ConnType
    <2>3. c' = [d EXCEPT !.rq[r].st = "queued"] \/ c' = wr_req_invalid(d)
      BY <1>4
    <2> HIDE DEF d, r
    <2>4. CASE c' = [d EXCEPT !.rq[r].st = "queued"]
      <3>0. [c.rq EXCEPT ![r].st = "queued"] \in [Req -> ReqType]
        BY <1>0, <1>2, SMTT(30) DEF ConnType, ReqType
      <3>1. /\ c' \in ConnType /\ c'.mem = d.mem /\ c'.open = d.open /\ c'.isClosed = d.isClosed
            /\ c'.toWrite = d.toWrite /\ c'.resp = d.resp /\ c'.out = d.out
            /\ c'.req = d.req /\ c'.reading = d.reading /\ c'.writing = d.writing
            /\ c'.pos = d.pos /\ c'.cur = d.cur /\ c'.bad = d.bad
            /\ c'.env = d.env
            /\ c'.rq = [c.rq EXCEPT ![r].st = "queued"]
        BY <1>2, <2>2, <2>4, <3>0 DEF ConnType
      <3>2. \A q \in Req : /\ c'.rq[q].connErr = c.rq[q].connErr
                           /\ c'.rq[q].st = IF q = r THEN "queued" ELSE c.rq[q].st
        BY <1>0, <1>2, <3>1, SMTT(30) DEF ConnType, ReqType
      <3>3. Handle(c', TRUE)
        BY <1>0, <1>1, <2>2, <3>1 DEF Sane, Handle
      <3>4. OneRequest(c')
        <4>1. OneRequest(c)
          BY <1>0 DEF Sane
        <4> QED BY <1>2, <2>1, <2>2, <3>1, <3>2, <4>1 DEF OneRequest, Alive
      <3>5. Counted(c')
        BY <1>2, <2>1, <2>2, <3>1, <3>2 DEF Counted, Complete
      <3>6. Parser(c', TRUE) /\ Doomed(c', TRUE)
        BY <1>2, <2>1, <2>2, <3>1, <3>2 DEF Parser, Doomed
      <3>7. Follows(c, TRUE, c', TRUE)
        BY <2>1, <2>2, <3>1, <3>2 DEF Follows, Alive
      <3>8. Stream(c') = Stream(c)
        BY <2>2, <3>1 DEF Stream
      <3>9. Told(c', TRUE) /\ Ordered(Stream(c'), Excused(c'))
        BY <1>0, <3>7, <3>8, StreamKept
      <3> QED BY <1>0, <2>2, <3>1, <3>3, <3>4, <3>5, <3>6, <3>9 DEF Sane
    <2>5. CASE c' = wr_req_invalid(d)
      <3>1. Refused(d, c')
        BY <1>1, <1>2, <2>1, <2>2, <2>5, InvalidEffect DEF Armed
      <3>2. ErrorPiece(d) = ErrorPiece(c)
        BY <2>1, <2>2 DEF ErrorPiece
      <3>3. /\ c' \in ConnType
            /\ c'.mem = c.mem /\ c'.open = c.open /\ c'.isClosed = c.isClosed
            /\ c'.toWrite = 0 /\ c'.resp = Append(c.resp, ErrorPiece(c)) /\ c'.out = c.out
            /\ c'.req = None /\ c'.writing = TRUE /\ c'.bad = c.bad /\ c'.env = c.env
            /\ c'.rq = [c.rq EXCEPT ![c.req].st = "gone"]
        BY <1>2, <2>1, <2>2, <3>1, <3>2 DEF Refused
      <3>4. /\ c'.cur = None /\ c'.reading = FALSE
            /\ (TRUE /\ c'.pos \in {"head", "main"}) \/ (~TRUE /\ c'.pos = "error" /\ Garbled(c))
        BY <2>2, <3>1 DEF Refused
      <3>5. ErrorPiece(c) \in Piece /\ ErrorPiece(c).r = c.req
        BY <1>2, <2>1 DEF ErrorPiece, Piece
      <3>6. c.req # None /\ Alive(c, c.req) /\ ~c.rq[c.req].connErr
        BY <1>2, <2>1 DEF Alive
      <3>7. Sane(c', TRUE)
        BY <1>0, <1>1, <3>3, <3>4, <3>5, <3>6, EndedSane, Zenon
      <3> QED BY <1>0, <3>7
    <2> QED BY <2>3, <2>4, <2>5
  <1> QED BY <1>3, <1>4 DEF wr_req_complete_cb

LEMMA RecvEndsSane ==
  ASSUME ConnInv, RecvEnds
  PROVE  Sane(c', inRecv')
  <1>0. inRecv = TRUE /\ inRecv' = FALSE /\ c \in ConnType /\ Sane(c, TRUE)
    BY DEF RecvEnds, Parsing, ConnInv, Sane
  <1>1. c.open /\ c.mem = "live" /\ ~c.isClosed /\ Armed(c)
    BY <1>0, OpenWhileParsing
  <1>2. CASE c.pos # "error"
    <2>0. c' = c
      BY <1>2 DEF RecvEnds
    <2>1. Handle(c, FALSE)
      BY <1>0, <1>1 DEF Sane, Handle
    <2>2. Parser(c, FALSE) /\ Doomed(c, FALSE)
      BY <1>0, <1>1, <1>2 DEF Sane, Parser, Doomed
    <2>3. Follows(c, TRUE, c, FALSE)
      BY DEF Follows
    <2>4. Told(c, FALSE)
      BY <1>0, <2>3, StreamKept
    <2> QED BY <1>0, <2>0, <2>1, <2>2, <2>4 DEF Sane
  <1>3. CASE c.pos = "error"
    <2>0. c' = wr_req_invalid(c) /\ Garbled(c)
      BY <1>0, <1>1, <1>3 DEF RecvEnds, Sane, Parser
    <2>1. c.toWrite >= -1
      BY <1>0, <1>1 DEF Sane, Parser, ConnType
    <2>2. c.req # None => ~c.rq[c.req].connErr /\ Alive(c, c.req)
      BY <1>0 DEF Sane, Doomed, OneRequest
    <2>3. Refused(c, c')
      BY <1>0, <1>1, <2>0, <2>1, <2>2, InvalidEffect DEF Alive
    <2>4. c.resp \in Seq(Piece) /\ c.out \in Seq(Piece) /\ ErrorPiece(c) \in Piece
          /\ ErrorPiece(c).r = c.req /\ ErrorPiece(c).part = "error"
      BY <1>0 DEF ErrorPiece, Piece, ConnType
    <2>5. /\ c' \in ConnType
          /\ c'.mem = c.mem /\ c'.open = c.open /\ c'.isClosed = c.isClosed
          /\ c'.toWrite = (IF c.toWrite = 0 THEN 0 ELSE c.toWrite - 1)
          /\ c'.keepAlive = FALSE
          /\ c'.resp = Append(c.resp, ErrorPiece(c)) /\ c'.out = c.out
          /\ c'.reading = FALSE /\ c'.writing = TRUE /\ c'.cur = None
          /\ c'.pos = "error" /\ c'.bad = c.bad /\ c'.env = c.env
      BY <1>3, <2>3 DEF Refused
    <2>6. c'.resp # <<>> /\ Stream(c') = Append(Stream(c), ErrorPiece(c))
      <3>1. Append(c.resp, ErrorPiece(c)) # <<>>
        BY <2>4
      <3>2. c.out \o Append(c.resp, ErrorPiece(c)) = Append(c.out \o c.resp, ErrorPiece(c))
        BY <2>4, StreamAppend
      <3> QED BY <2>5, <3>1, <3>2 DEF Stream
    <2>7. Handle(c', FALSE)
      BY <1>1, <2>5, <2>6 DEF Handle
    <2>8. c'.bad => Excusable(c')
      BY <1>0, <2>5 DEF Sane, Upload, Excused, Excusable
    <2>9. CASE c.req = None /\ c'.req = None /\ c'.rq = c.rq
      <3>1. OneRequest(c')
        BY <1>0, <2>9 DEF Sane, OneRequest, Alive
      <3>2. c.toWrite # 1 /\ (c.toWrite < 0 => Upload(c))
        BY <1>0, <1>1, <2>9 DEF Sane, Counted
      <3>3. Counted(c')
        BY <1>0, <2>1, <2>5, <2>9, <3>2 DEF Counted, Upload, ConnType
      <3>4. Parser(c', FALSE) /\ Doomed(c', FALSE)
        BY <2>0, <2>5, <2>9 DEF Parser, Doomed, Garbled
      <3>5. Follows(c, TRUE, c', FALSE)
        BY <2>5, <2>9 DEF Follows, Alive
      <3>6. Told(c', FALSE) /\ Ordered(Stream(c'), Excused(c'))
        BY <1>0, <2>4, <2>5, <2>6, <2>9, <3>5, StreamEnds
      <3> QED BY <1>0, <2>5, <2>7, <2>8, <3>1, <3>3, <3>4, <3>6 DEF Sane
    <2>10. CASE /\ c.req # None /\ c.rq[c.req].st = "busy"
                /\ c'.req = c.req /\ c'.rq = [c.rq EXCEPT ![c.req].connErr = TRUE]
      <3>0. c.req \in Req
        BY <1>0, <2>10 DEF ConnType
      <3>1. \A q \in Req : /\ c'.rq[q].st = c.rq[q].st
                           /\ c'.rq[q].connErr <=> q = c.req \/ c.rq[q].connErr
        <4>1. c.rq \in [Req -> ReqType]
          BY <1>0 DEF ConnType
        <4> QED BY <2>10, <3>0, <4>1 DEF ReqType
      <3>2. OneRequest(c')
        <4>1. OneRequest(c)
          BY <1>0 DEF Sane
        <4> QED BY <2>10, <3>0, <3>1, <4>1 DEF OneRequest, Alive
      <3>3. c.toWrite = 1
        BY <1>0, <2>2, <2>10 DEF Sane, Counted, Complete
      <3>4. Counted(c')
        <4>1. c'.toWrite = 0 /\ c'.rq[c'.req].connErr
          <5>1. c'.toWrite = 0
            BY <2>5, <3>3
          <5>2. c'.rq[c'.req].connErr
            BY <2>10, <3>0, <3>1
          <5> QED BY <5>1, <5>2
        <4> QED BY <4>1 DEF Counted
      <3>5. Parser(c', FALSE) /\ Doomed(c', FALSE)
        BY <2>0, <2>5, <2>6, <2>10, <3>0, <3>1, <3>3 DEF Parser, Doomed, Garbled
      <3>6. Follows(c, TRUE, c', FALSE)
        BY <2>5, <2>10, <3>0, <3>1 DEF Follows, Alive
      <3>7. Grows(c, TRUE, c', FALSE, ErrorPiece(c))
        BY <1>0, <2>2, <2>4, <2>6, <2>10, <3>0, <3>1, <3>6 DEF Grows
      <3>8. Told(c', FALSE) /\ Ordered(Stream(c'), Excused(c'))
        BY <3>7, StreamGrows
      <3> QED BY <1>0, <2>5, <2>7, <2>8, <3>2, <3>4, <3>5, <3>8 DEF Sane
    <2>11. CASE /\ c.req # None /\ c.rq[c.req].st # "busy"
                /\ c'.req = None /\ c'.rq = [c.rq EXCEPT ![c.req].st = "gone"]
      <3>1. c'.toWrite = 0
        BY <1>0, <1>1, <2>1, <2>5, <2>11 DEF Sane, Counted, ConnType
      <3>2. /\ c'.cur = None /\ c'.reading = FALSE
            /\ (FALSE /\ c'.pos \in {"head", "main"}) \/ (~FALSE /\ c'.pos = "error" /\ Garbled(c))
        BY <2>0, <2>5
      <3>3. Sane(c', FALSE)
        BY <1>0, <1>1, <2>2, <2>4, <2>5, <2>11, <3>1, <3>2, EndedSane, Zenon
      <3> QED BY <1>0, <3>3
    <2> QED BY <2>3, <2>9, <2>10, <2>11 DEF Refused
  <1> QED BY <1>2, <1>3

-----------------------------------------------------------------------------
(* The end of a connection *)

Closed(s, d) ==
  /\ d \in ConnType /\ d.open = FALSE /\ d.reading = FALSE /\ d.writing = FALSE
  /\ d.toWrite = s.toWrite /\ d.req = s.req /\ d.pos = s.pos /\ d.cur = s.cur
  /\ d.rq = s.rq /\ d.out = s.out /\ d.bad = s.bad /\ d.env = s.env

LEMMA CloseEffect ==
  ASSUME NEW s \in ConnType, s.mem = "live"
  PROVE  LET d == wr_conn_close_cb(s)
         IN  /\ Closed(s, d)
             /\ s.toWrite <= 0 => d.mem = "freed" /\ d.resp = <<>> /\ d.keepAlive = s.keepAlive
             /\ s.toWrite > 0 => /\ d.mem = "live" /\ d.resp = s.resp
                                 /\ d.isClosed = TRUE /\ d.keepAlive = FALSE
  <1> DEFINE e == [s EXCEPT !.open = FALSE, !.reading = FALSE, !.writing = FALSE]
             f == [e EXCEPT !.mem = "freed", !.resp = <<>>]
             g == [e EXCEPT !.isClosed = TRUE, !.keepAlive = FALSE]
  <1>1. Closed(s, e) /\ e.mem = "live" /\ e.resp = s.resp /\ e.keepAlive = s.keepAlive
    BY DEF ConnType, Closed
  <1>2. e \in ConnType /\ e.toWrite = s.toWrite /\ s.toWrite \in -2..1
    BY <1>1 DEF Closed, ConnType
  <1>3. wr_conn_close_cb(s) = IF e.toWrite <= 0 THEN wr_conn_free(e) ELSE g
    BY DEF wr_conn_close_cb, NothingOwed
  <1> HIDE DEF e
  <1>4. Closed(s, f) /\ f.mem = "freed" /\ f.resp = <<>> /\ f.keepAlive = s.keepAlive
    <2>1. <<>> \in Seq(Piece)
      OBVIOUS
    <2>2. f \in ConnType
      BY <1>2, <2>1 DEF ConnType
    <2> QED BY <1>1, <1>2, <2>2 DEF ConnType, Closed
  <1>5. Closed(s, g) /\ g.mem = "live" /\ g.resp = s.resp /\ g.isClosed = TRUE /\ g.keepAlive = FALSE
    <2>2. g \in ConnType
      BY <1>2 DEF ConnType
    <2> QED BY <1>1, <1>2, <2>2 DEF ConnType, Closed
  <1>6. wr_conn_free(e) = f
    BY <1>1 DEF wr_conn_free
  <1> HIDE DEF f, g
  <1>7. CASE s.toWrite <= 0
    <2>1. wr_conn_close_cb(s) = f
      BY <1>2, <1>3, <1>6, <1>7
    <2> QED BY <1>2, <1>4, <1>7, <2>1
  <1>8. CASE s.toWrite > 0
    <2>1. wr_conn_close_cb(s) = g
      BY <1>2, <1>3, <1>8
    <2> QED BY <1>2, <1>5, <1>8, <2>1
  <1>9. s.toWrite <= 0 \/ s.toWrite > 0
    BY <1>2
  <1> QED BY <1>7, <1>8, <1>9

LEMMA CloseSane ==
  ASSUME NEW s, Sane(s, FALSE), s.open
  PROVE  Sane(wr_conn_close_cb(s), FALSE)
  <1> DEFINE d == wr_conn_close_cb(s)
  <1>0. s \in ConnType /\ s.mem = "live" /\ ~s.isClosed
    BY DEF Sane, Handle
  <1>1. /\ Closed(s, d)
        /\ s.toWrite <= 0 => d.mem = "freed" /\ d.resp = <<>> /\ d.keepAlive = s.keepAlive
        /\ s.toWrite > 0 => /\ d.mem = "live" /\ d.resp = s.resp
                            /\ d.isClosed = TRUE /\ d.keepAlive = FALSE
    BY <1>0, CloseEffect
  <1> HIDE DEF d
  <1>2. CASE s.toWrite <= 0
    <2>1. /\ d \in ConnType /\ d.mem = "freed" /\ ~d.open /\ ~d.reading /\ ~d.writing
          /\ d.resp = <<>> /\ d.toWrite <= 0 /\ d.env = s.env /\ d.bad = s.bad
          /\ d.pos = s.pos /\ (d.keepAlive => s.keepAlive) /\ d.out = s.out
          /\ d.rq = s.rq /\ d.req = s.req /\ d.toWrite = s.toWrite
      BY <1>1, <1>2 DEF Closed
    <2>2. Sane(d, FALSE)
      BY <2>1, FreedSane, Zenon
    <2> QED BY <2>2 DEF d
  <1>3. CASE s.toWrite > 0
    <2>1. s.toWrite = 1
      BY <1>0, <1>3 DEF ConnType
    <2>2. /\ d \in ConnType /\ d.mem = s.mem /\ ~d.open /\ ~d.reading /\ ~d.writing
          /\ d.resp = s.resp /\ d.toWrite = 1 /\ d.env = s.env /\ d.bad = s.bad /\ d.isClosed
          /\ d.pos = s.pos /\ d.out = s.out /\ d.rq = s.rq /\ d.req = s.req /\ d.cur = s.cur
      BY <1>0, <1>1, <1>3, <2>1 DEF Closed
    <2>3. Handle(d, FALSE)
      BY <1>0, <2>2 DEF Handle
    <2>4. OneRequest(d) /\ Counted(d)
      BY <2>1, <2>2 DEF Sane, OneRequest, Counted, Alive, Complete
    <2>5. Parser(d, FALSE)
      BY <1>0, <2>2 DEF Sane, Parser, Upload, Garbled
    <2>6. Doomed(d, FALSE)
      BY <2>1, <2>2 DEF Sane, Doomed
    <2>7. Follows(s, FALSE, d, FALSE) /\ Stream(d) = Stream(s)
      BY <2>2 DEF Follows, Alive, Stream
    <2>8. Told(d, FALSE) /\ Ordered(Stream(d), Excused(d))
      BY <2>7, StreamKept
    <2>9. d.bad => Excusable(d)
      BY <2>2 DEF Sane, Upload, Excused, Excusable
    <2>10. Sane(d, FALSE)
      BY <2>2, <2>3, <2>4, <2>5, <2>6, <2>8, <2>9 DEF Sane
    <2> QED BY <2>10 DEF d
  <1>4. s.toWrite <= 0 \/ s.toWrite > 0
    BY <1>0 DEF ConnType
  <1> QED BY <1>2, <1>3, <1>4

LEMMA ClientGoneSane ==
  ASSUME ConnInv, ClientGone
  PROVE  Sane(c', inRecv')
  <1>1. Sane(c, FALSE) /\ inRecv' = FALSE /\ c' = wr_conn_close_cb(c) /\ (c.reading \/ c.writing)
    BY DEF ConnInv, ClientGone, Idle, Sane
  <1>2. c.open
    BY <1>1 DEF Sane, Handle
  <1> QED BY <1>1, <1>2, CloseSane

LEMMA TimeoutSane ==
  ASSUME ConnInv, wr_conn_timeout_cb
  PROVE  Sane(c', inRecv')
  <1>0. /\ Sane(c, FALSE) /\ inRecv' = FALSE /\ c \in ConnType
        /\ c.open /\ c.toWrite <= 0 /\ c.resp = <<>> /\ c.mem = "live" /\ ~c.isClosed
        /\ c' = wr_conn_close_cb(IF c.req # None THEN wr_req_free(c, c.req) ELSE c)
    BY DEF ConnInv, wr_conn_timeout_cb, Idle, Sane, Handle
  <1>1. CASE c.req = None
    BY <1>0, <1>1, CloseSane
  <1>2. CASE c.req # None
    <2> DEFINE e == wr_req_free(c, c.req)
    <2>1. c.req \in Req /\ ~c.rq[c.req].connErr /\ Alive(c, c.req) /\ c.toWrite = 0
      BY <1>0, <1>2 DEF Sane, Doomed, OneRequest, Counted, ConnType
    <2>2. ReqEnded(c, c.req, e) /\ e.mem = "live"
      BY <1>0, <2>1, ReqFreeEffect DEF Alive
    <2> HIDE DEF e
    <2>3. c' = wr_conn_close_cb(e)
      BY <1>0, <1>2 DEF e
    <2>4. e \in ConnType /\ e.toWrite = -1
      BY <2>1, <2>2 DEF ReqEnded
    <2>5. Closed(e, c') /\ c'.mem = "freed" /\ c'.resp = <<>> /\ c'.keepAlive = e.keepAlive
      <3>1. LET d == wr_conn_close_cb(e)
            IN  /\ Closed(e, d)
                /\ e.toWrite <= 0 => d.mem = "freed" /\ d.resp = <<>> /\ d.keepAlive = e.keepAlive
        BY <2>2, <2>4, CloseEffect, Zenon
      <3>2. e.toWrite <= 0
        BY <2>4
      <3> QED BY <2>3, <3>1, <3>2
    <2>6. /\ c' \in ConnType /\ c'.mem = "freed" /\ ~c'.open /\ ~c'.reading /\ ~c'.writing
          /\ c'.resp = <<>> /\ c'.toWrite <= 0 /\ c'.env = c.env /\ c'.bad = c.bad
          /\ c'.pos = c.pos /\ (c'.keepAlive => c.keepAlive) /\ c'.out = c.out
          /\ c'.req = None /\ c'.rq = [c.rq EXCEPT ![c.req].st = "gone"]
      BY <2>2, <2>4, <2>5 DEF Closed, ReqEnded
    <2>7. Sane(c', FALSE)
      BY <1>0, <1>2, <2>1, <2>6, FreedSane, Zenon
    <2> QED BY <1>0, <2>7
  <1> QED BY <1>1, <1>2

LEMMA WrittenSane ==
  ASSUME ConnInv, Written
  PROVE  Sane(c', inRecv')
  <1> DEFINE d == [c EXCEPT !.out = Append(@, Head(c.resp)), !.resp = Tail(@), !.writing = FALSE]
  <1>0. /\ Sane(c, FALSE) /\ inRecv' = FALSE /\ c \in ConnType /\ c.writing
        /\ c' = wr_conn_after_write_cb(c)
    BY DEF ConnInv, Written, Idle, Sane
  <1>1. c.open /\ c.mem = "live" /\ ~c.isClosed /\ c.resp # <<>>
    BY <1>0 DEF Sane, Handle
  <1>2. c.resp \in Seq(Piece) /\ c.out \in Seq(Piece)
    BY <1>0 DEF ConnType
  <1>3. Append(c.out, Head(c.resp)) \in Seq(Piece) /\ Tail(c.resp) \in Seq(Piece)
    BY <1>1, <1>2
  <1>4. /\ d \in ConnType /\ d.mem = "live" /\ d.open /\ ~d.isClosed /\ ~d.writing
        /\ d.toWrite = c.toWrite /\ d.keepAlive = c.keepAlive /\ d.resp = Tail(c.resp)
        /\ d.req = c.req /\ d.reading = c.reading /\ d.pos = c.pos /\ d.cur = c.cur
        /\ d.rq = c.rq /\ d.out = Append(c.out, Head(c.resp)) /\ d.bad = c.bad /\ d.env = c.env
    BY <1>0, <1>1, <1>3 DEF ConnType
  <1>5. c' = CASE d.resp # <<>> /\ ~d.isClosed -> NextPiece(d)
               [] (d.resp = <<>> \/ d.isClosed) /\ d.toWrite <= 0
                    /\ (~ServerKeepAlive \/ ~d.keepAlive) -> wr_conn_close_cb(d)
               [] OTHER -> d
    BY <1>0 DEF wr_conn_after_write_cb
  <1> HIDE DEF d
  <1>6. CASE d.resp = <<>> /\ d.toWrite <= 0 /\ (~ServerKeepAlive \/ ~d.keepAlive)
    <2>1. c' = wr_conn_close_cb(d)
      BY <1>5, <1>6
    <2>2. Closed(d, c') /\ c'.mem = "freed" /\ c'.resp = <<>> /\ c'.keepAlive = d.keepAlive
      <3>1. LET e == wr_conn_close_cb(d)
            IN  /\ Closed(d, e)
                /\ d.toWrite <= 0 => e.mem = "freed" /\ e.resp = <<>> /\ e.keepAlive = d.keepAlive
        BY <1>4, CloseEffect, Zenon
      <3> QED BY <1>6, <2>1, <3>1
    <2>3. /\ c' \in ConnType /\ c'.mem = "freed" /\ ~c'.open /\ ~c'.reading /\ ~c'.writing
          /\ c'.resp = <<>> /\ c'.toWrite <= 0 /\ c'.env = c.env /\ c'.bad = c.bad
          /\ c'.pos = c.pos /\ (c'.keepAlive => c.keepAlive)
          /\ c'.out = Append(c.out, Head(c.resp))
          /\ c'.rq = c.rq /\ c'.req = c.req /\ c'.toWrite = c.toWrite
      BY <1>4, <1>6, <2>2 DEF Closed
    <2>4. Sane(c', FALSE)
      BY <1>0, <1>1, <2>3, FreedSane, Zenon
    <2> QED BY <1>0, <2>4
  <1>7. CASE ~(d.resp = <<>> /\ d.toWrite <= 0 /\ (~ServerKeepAlive \/ ~d.keepAlive))
    <2>1. /\ c' \in ConnType /\ c'.mem = "live" /\ c'.open /\ ~c'.isClosed
          /\ c'.toWrite = c.toWrite /\ c'.keepAlive = c.keepAlive /\ c'.resp = Tail(c.resp)
          /\ c'.req = c.req /\ c'.reading = c.reading /\ c'.pos = c.pos /\ c'.cur = c.cur
          /\ c'.rq = c.rq /\ c'.out = Append(c.out, Head(c.resp)) /\ c'.bad = c.bad /\ c'.env = c.env
          /\ c'.writing <=> Tail(c.resp) # <<>>
      <3>1. CASE d.resp # <<>>
        <4>1. c' = [d EXCEPT !.writing = TRUE]
          BY <1>4, <1>5, <3>1 DEF NextPiece
        <4> QED BY <1>4, <3>1, <4>1 DEF ConnType
      <3>2. CASE d.resp = <<>>
        <4>1. c' = d
          BY <1>4, <1>5, <1>7, <3>2
        <4> QED BY <1>4, <3>2, <4>1
      <3> QED BY <3>1, <3>2
    <2>2. Handle(c', FALSE)
      BY <2>1 DEF Handle
    <2>3. OneRequest(c') /\ Counted(c')
      BY <1>0, <1>1, <2>1 DEF Sane, OneRequest, Counted, Alive, Complete, Upload
    <2>4. Parser(c', FALSE)
      BY <1>0, <1>1, <2>1 DEF Sane, Parser, Upload, Garbled
    <2>5. Doomed(c', FALSE)
      BY <1>0, <1>4, <1>7, <2>1 DEF Sane, Doomed, Garbled
    <2>6. Follows(c, FALSE, c', FALSE)
      BY <2>1 DEF Follows, Alive
    <2>7. Stream(c') = Stream(c)
      BY <1>1, <1>2, <2>1, StreamWritten DEF Stream
    <2>8. Told(c', FALSE) /\ Ordered(Stream(c'), Excused(c'))
      BY <1>0, <2>6, <2>7, StreamKept
    <2>9. c'.bad => Excusable(c')
      BY <1>0, <1>1, <2>1 DEF Sane, Upload, Excused, Excusable
    <2>10. Sane(c', FALSE)
      BY <2>1, <2>2, <2>3, <2>4, <2>5, <2>8, <2>9 DEF Sane
    <2> QED BY <1>0, <2>10
  <1> QED BY <1>6, <1>7

-----------------------------------------------------------------------------
(* The rest of the head *)

(* The request that the rest of the head holds, unanswered: the connection  *)
(* is there.                                                                *)
LEMMA OwedRequest ==
  ASSUME NEW s, NEW in, Sane(s, in), NEW r \in Req, Complete(s, r), ~s.rq[r].connErr
  PROVE  /\ s.req = r /\ r # None /\ s.toWrite = 1 /\ s.mem = "live" /\ Alive(s, r)
         /\ s.open => ~s.isClosed /\ Armed(s)
         /\ ~s.open => s.isClosed
  <1>1. Alive(s, r) /\ s.req = r /\ r # None
    BY DEF Complete, Alive, Sane, OneRequest, Req, None
  <1>2. s.toWrite = 1
    BY <1>1 DEF Sane, Counted
  <1>3. s.mem = "live"
    BY <1>2 DEF Sane, Handle, ConnType
  <1> QED BY <1>1, <1>2, <1>3 DEF Sane, Handle, Armed

LEMMA AssignSane ==
  ASSUME ConnInv, NEW r \in Req, Assign(r)
  PROVE  Sane(c', inRecv')
  <1>0. /\ Sane(c, FALSE) /\ inRecv' = FALSE /\ c \in ConnType
        /\ c.rq[r].st = "queued" /\ c' = [c EXCEPT !.rq[r].st = "busy"]
    BY DEF ConnInv, Assign, Idle, Sane
  <1>1. ~c.rq[r].connErr
    BY <1>0 DEF Sane, OneRequest
  <1>2. c.req = r /\ r # None /\ c.toWrite = 1 /\ c.mem = "live"
    BY <1>0, <1>1, OwedRequest DEF Complete
  <1>3. [c.rq EXCEPT ![r].st = "busy"] \in [Req -> ReqType]
    BY <1>0, ZenonT(40) DEF ConnType, ReqType
  <1>4. /\ c' \in ConnType /\ c'.mem = c.mem /\ c'.open = c.open /\ c'.isClosed = c.isClosed
        /\ c'.toWrite = c.toWrite /\ c'.resp = c.resp /\ c'.out = c.out
        /\ c'.req = c.req /\ c'.reading = c.reading /\ c'.writing = c.writing
        /\ c'.pos = c.pos /\ c'.cur = c.cur /\ c'.bad = c.bad
        /\ c'.env = c.env /\ c'.keepAlive = c.keepAlive
        /\ c'.rq = [c.rq EXCEPT ![r].st = "busy"]
    BY <1>0, <1>3 DEF ConnType
  <1>5. \A q \in Req : /\ c'.rq[q].connErr = c.rq[q].connErr
                       /\ c'.rq[q].st = IF q = r THEN "busy" ELSE c.rq[q].st
    BY <1>0, <1>4, SMTT(30) DEF ConnType, ReqType
  <1>6. Handle(c', FALSE)
    BY <1>0, <1>4 DEF Sane, Handle
  <1>7. OneRequest(c')
    <2>1. OneRequest(c)
      BY <1>0 DEF Sane
    <2> QED BY <1>0, <1>2, <1>4, <1>5, <2>1 DEF OneRequest, Alive
  <1>8. Counted(c') /\ Doomed(c', FALSE)
    BY <1>1, <1>2, <1>4, <1>5 DEF Counted, Complete, Doomed
  <1>9. Parser(c', FALSE)
    <2>1. c.cur # None => c.cur \in Req
      BY <1>0 DEF ConnType
    <2>2. c.cur = r => c.pos = "body" /\ c.rq[r].st = "gone"
      BY <1>0, <1>2 DEF Sane, Parser, ConnType
    <2> QED BY <1>0, <1>2, <1>4, <1>5, <2>1, <2>2 DEF Sane, Parser, Upload, Garbled
  <1>10. Follows(c, FALSE, c', FALSE)
    <2>1. c.rq[r].st = "queued"
      BY <1>0
    <2> QED BY <1>4, <1>5, <2>1 DEF Follows, Alive
  <1>11. Told(c', FALSE) /\ Ordered(Stream(c'), Excused(c'))
    <2>1. Stream(c') = Stream(c)
      BY <1>4 DEF Stream
    <2> QED BY <1>0, <1>10, <2>1, StreamKept
  <1>12. c'.bad => Excusable(c')
    BY <1>0, <1>4 DEF Sane, Upload, Excused, Excusable
  <1> QED BY <1>0, <1>4, <1>6, <1>7, <1>8, <1>9, <1>11, <1>12 DEF Sane

(* The state of no request changes. *)
LEMMA CountedPartSane ==
  ASSUME NEW s, Sane(s, FALSE), NEW r \in Req, s.rq[r].parts < MaxParts
  PROVE  LET d == [s EXCEPT !.rq[r].parts = @ + 1]
         IN  /\ Sane(d, FALSE) /\ d.open = s.open /\ d.req = s.req /\ d.keepAlive = s.keepAlive
             /\ \A q \in Req : d.rq[q].st = s.rq[q].st /\ d.rq[q].connErr = s.rq[q].connErr
  <1> DEFINE d == [s EXCEPT !.rq[r].parts = @ + 1]
  <1>0. s \in ConnType /\ s.rq \in [Req -> ReqType]
    BY DEF Sane, ConnType
  <1>1. [s.rq EXCEPT ![r].parts = @ + 1] \in [Req -> ReqType]
    <2>1. s.rq[r] \in ReqType /\ s.rq[r].parts + 1 \in 0..MaxParts
      BY <1>0, ConnAssumption DEF ReqType
    <2> QED BY <1>0, <2>1 DEF ReqType
  <1>2. /\ d \in ConnType /\ d.mem = s.mem /\ d.open = s.open /\ d.isClosed = s.isClosed
        /\ d.toWrite = s.toWrite /\ d.resp = s.resp /\ d.out = s.out
        /\ d.req = s.req /\ d.reading = s.reading /\ d.writing = s.writing
        /\ d.pos = s.pos /\ d.cur = s.cur /\ d.bad = s.bad
        /\ d.env = s.env /\ d.keepAlive = s.keepAlive
        /\ d.rq = [s.rq EXCEPT ![r].parts = @ + 1]
    BY <1>0, <1>1 DEF ConnType
  <1> HIDE DEF d
  <1>3. \A q \in Req : d.rq[q].st = s.rq[q].st /\ d.rq[q].connErr = s.rq[q].connErr
    BY <1>0, <1>2 DEF ReqType
  <1>4. Handle(d, FALSE)
    BY <1>2 DEF Sane, Handle
  <1>5. OneRequest(d)
    <2>1. OneRequest(s) /\ (s.req # None => s.req \in Req)
      BY <1>0 DEF Sane, ConnType
    <2> QED BY <1>2, <1>3, <2>1 DEF OneRequest, Alive
  <1>6. Counted(d) /\ Doomed(d, FALSE)
    <2>1. s.req # None => s.req \in Req
      BY <1>0 DEF ConnType
    <2> QED BY <1>2, <1>3, <2>1 DEF Sane, Counted, Complete, Doomed, Garbled, Upload
  <1>7. Parser(d, FALSE)
    <2>1. (s.req # None => s.req \in Req) /\ (s.cur # None => s.cur \in Req)
      BY <1>0 DEF ConnType
    <2> QED BY <1>2, <1>3, <2>1 DEF Sane, Parser, Garbled, Upload
  <1>8. Follows(s, FALSE, d, FALSE) /\ Stream(d) = Stream(s)
    BY <1>2, <1>3 DEF Follows, Alive, Stream
  <1>9. Told(d, FALSE) /\ Ordered(Stream(d), Excused(d))
    BY <1>8, StreamKept
  <1>10. d.bad => Excusable(d)
    BY <1>2 DEF Sane, Upload, Excused, Excusable
  <1>11. Sane(d, FALSE)
    BY <1>2, <1>4, <1>5, <1>6, <1>7, <1>9, <1>10 DEF Sane
  <1> QED BY <1>2, <1>3, <1>11 DEF d

LEMMA RespPartSane ==
  ASSUME ConnInv, NEW r \in Req, RespPart(r)
  PROVE  Sane(c', inRecv')
  <1> DEFINE s == [c EXCEPT !.rq[r].parts = @ + 1]
             p == [r |-> r, part |-> "some"]
  <1>0. /\ Sane(c, FALSE) /\ inRecv' = FALSE /\ c.rq[r].st = "busy" /\ c.rq[r].parts < MaxParts
        /\ c' = IF ~c.rq[r].connErr THEN wr_conn_resp_body_add(s, p) ELSE s
    BY DEF ConnInv, RespPart, Idle, Sane, Wanted
  <1>1. /\ Sane(s, FALSE) /\ s.rq[r].st = "busy" /\ s.rq[r].connErr = c.rq[r].connErr
    BY <1>0, CountedPartSane
  <1> HIDE DEF s
  <1>2. CASE c.rq[r].connErr
    BY <1>0, <1>1, <1>2
  <1>3. CASE ~c.rq[r].connErr
    <2>0. p \in Piece /\ p.r = r /\ p.part = "some"
      BY DEF Piece
    <2>1. ~s.rq[r].connErr /\ Complete(s, r) /\ c' = wr_conn_resp_body_add(s, p) /\ s \in ConnType
      BY <1>0, <1>1, <1>3 DEF Complete, Sane
    <2> HIDE DEF p
    <2>2. /\ s.req = r /\ r # None /\ s.toWrite = 1 /\ s.mem = "live" /\ Alive(s, r)
          /\ s.open => ~s.isClosed /\ Armed(s)
          /\ ~s.open => s.isClosed
      BY <1>1, <2>1, OwedRequest
    <2>3. CASE ~s.open
      <3>1. s.isClosed /\ s.toWrite # 0
        BY <2>2, <2>3
      <3>2. wr_conn_resp_body_add(s, p) = s
        BY <2>0, <2>1, <2>2, <3>1, BodyAddEffect
      <3> QED BY <1>0, <1>1, <2>1, <3>2
    <2>4. CASE s.open
      <3>1. Answered(s, c', p, s.keepAlive)
        BY <2>0, <2>1, <2>2, <2>4, BodyAddEffect
      <3>2. /\ c' \in ConnType /\ c'.mem = s.mem /\ c'.open = s.open /\ c'.isClosed = s.isClosed
            /\ c'.toWrite = s.toWrite /\ c'.resp = Append(s.resp, p) /\ c'.out = s.out
            /\ c'.req = s.req /\ c'.reading = s.reading /\ c'.writing = TRUE
            /\ c'.pos = s.pos /\ c'.cur = s.cur /\ c'.bad = s.bad /\ c'.rq = s.rq
            /\ c'.env = s.env /\ c'.keepAlive = s.keepAlive
        BY <3>1 DEF Answered
      <3>3. c'.resp # <<>> /\ Stream(c') = Append(Stream(s), p)
        <4>1. s.resp \in Seq(Piece) /\ s.out \in Seq(Piece)
          BY <2>1 DEF ConnType
        <4>2. Append(s.resp, p) # <<>>
          BY <2>0, <4>1
        <4> QED BY <2>0, <3>2, <4>1, <4>2, StreamAppend DEF Stream
      <3>4. Handle(c', FALSE)
        BY <1>1, <2>2, <2>4, <3>2, <3>3 DEF Sane, Handle
      <3>5. OneRequest(c') /\ Counted(c')
        BY <1>1, <3>2 DEF Sane, OneRequest, Counted, Alive, Complete, Upload
      <3>6. Parser(c', FALSE) /\ Doomed(c', FALSE)
        BY <1>1, <2>1, <2>2, <3>2 DEF Sane, Parser, Doomed, Upload, Garbled
      <3>7. Follows(s, FALSE, c', FALSE)
        BY <3>2 DEF Follows, Alive
      <3>8. Grows(s, FALSE, c', FALSE, p)
        BY <1>1, <2>0, <2>1, <2>2, <3>2, <3>3, <3>7 DEF Grows
      <3>9. Told(c', FALSE) /\ Ordered(Stream(c'), Excused(c'))
        BY <3>8, StreamGrows
      <3>10. c'.bad => Excusable(c')
        BY <1>1, <3>2 DEF Sane, Upload, Excused, Excusable
      <3> QED BY <1>0, <3>2, <3>4, <3>5, <3>6, <3>9, <3>10 DEF Sane
    <2> QED BY <2>3, <2>4
  <1> QED BY <1>2, <1>3

(* The rest of the head ends a request that is still owed a response: after *)
(* a last piece on an open connection, and with a closed one.               *)
LEMMA FinishedOpen ==
  ASSUME NEW s, Sane(s, FALSE), NEW r \in Req, Complete(s, r), ~s.rq[r].connErr, s.open,
         NEW a, NEW p \in Piece, NEW k, p.r = r, Answered(s, a, p, k)
  PROVE  Sane(wr_req_free(a, r), FALSE)
  <1> DEFINE d == wr_req_free(a, r)
  <1>0. s.req = r /\ r # None /\ s.toWrite = 1 /\ s.mem = "live" /\ Alive(s, r) /\ ~s.isClosed
    BY OwedRequest
  <1>1. /\ a \in ConnType /\ a.rq = s.rq /\ a.toWrite = 1 /\ a.mem = "live" /\ ~a.isClosed
        /\ a.resp = Append(s.resp, p)
    BY <1>0 DEF Answered
  <1>2. ReqEnded(a, r, d) /\ d.mem = "live" /\ d.resp = a.resp
    BY <1>0, <1>1, ReqFreeEffect DEF Alive
  <1> HIDE DEF d
  <1>3. /\ d \in ConnType /\ d.mem = s.mem /\ d.open = s.open /\ d.isClosed = s.isClosed
        /\ d.toWrite = 0 /\ d.resp = Append(s.resp, p) /\ d.out = s.out /\ d.writing = TRUE
        /\ d.req = None /\ d.rq = [s.rq EXCEPT ![s.req].st = "gone"]
        /\ d.bad = s.bad /\ d.env = s.env
        /\ d.pos = s.pos /\ d.cur = s.cur /\ d.reading = s.reading
    BY <1>0, <1>1, <1>2 DEF Answered, ReqEnded
  <1>4. s.req # None /\ Alive(s, s.req) /\ ~s.rq[s.req].connErr /\ p.r = s.req /\ Complete(s, s.req)
    BY <1>0
  <1>5. Sane(d, FALSE)
    BY <1>3, <1>4, EndedSane, Zenon
  <1> QED BY <1>5 DEF d

LEMMA FinishedClosed ==
  ASSUME NEW s, Sane(s, FALSE), NEW r \in Req, Complete(s, r), ~s.rq[r].connErr, ~s.open,
         NEW k \in BOOLEAN, k => s.keepAlive
  PROVE  Sane(wr_req_free([s EXCEPT !.keepAlive = k], r), FALSE)
  <1> DEFINE a == [s EXCEPT !.keepAlive = k]
             d == wr_req_free(a, r)
  <1>0. s.req = r /\ r # None /\ s.toWrite = 1 /\ s.mem = "live" /\ Alive(s, r) /\ s.isClosed
    BY OwedRequest
  <1>1. /\ s \in ConnType /\ ~s.reading /\ ~s.writing
    BY DEF Sane, Handle
  <1>2. /\ a \in ConnType /\ a.mem = "live" /\ a.isClosed /\ a.toWrite = 1 /\ a.rq = s.rq
        /\ a.open = s.open /\ a.reading = s.reading /\ a.writing = s.writing /\ a.pos = s.pos
        /\ a.cur = s.cur /\ a.out = s.out /\ a.bad = s.bad /\ a.env = s.env /\ a.keepAlive = k
    BY <1>0, <1>1 DEF ConnType
  <1> HIDE DEF a
  <1>3. ReqEnded(a, r, d) /\ d.mem = "freed" /\ d.resp = <<>>
    BY <1>0, <1>2, ReqFreeEffect DEF Alive
  <1> HIDE DEF d
  <1>4. /\ d \in ConnType /\ d.mem = "freed" /\ ~d.open /\ ~d.reading /\ ~d.writing
        /\ d.resp = <<>> /\ d.toWrite <= 0 /\ d.env = s.env /\ d.bad = s.bad
        /\ d.pos = s.pos /\ (d.keepAlive => s.keepAlive) /\ d.out = s.out
        /\ d.req = None /\ d.rq = [s.rq EXCEPT ![s.req].st = "gone"]
    BY <1>0, <1>1, <1>2, <1>3 DEF ReqEnded
  <1>5. s.req # None /\ ~s.rq[s.req].connErr
    BY <1>0
  <1>6. Sane(d, FALSE)
    BY <1>4, <1>5, FreedSane, Zenon
  <1> QED BY <1>6 DEF d, a

LEMMA RespLastSane ==
  ASSUME ConnInv, NEW r \in Req, RespLast(r)
  PROVE  Sane(c', inRecv')
  <1> DEFINE p == [r |-> r, part |-> "last"]
             a == wr_conn_resp_body_add(c, p)
  <1>0. /\ Sane(c, FALSE) /\ inRecv' = FALSE /\ c \in ConnType /\ c.rq[r].st = "busy"
        /\ c' = wr_req_free(IF ~c.rq[r].connErr THEN a ELSE c, r)
    BY DEF ConnInv, RespLast, Idle, Sane, Wanted
  <1>1. p \in Piece /\ p.r = r
    BY DEF Piece
  <1> HIDE DEF p
  <1>2. CASE ~c.rq[r].connErr
    <2>1. Complete(c, r) /\ c' = wr_req_free(a, r)
      BY <1>0, <1>2 DEF Complete
    <2>2. /\ c.toWrite = 1 /\ c.mem = "live"
          /\ c.open => ~c.isClosed /\ Armed(c)
          /\ ~c.open => c.isClosed
      BY <1>0, <1>2, <2>1, OwedRequest
    <2>3. CASE c.open
      <3>1. Answered(c, a, p, c.keepAlive)
        BY <1>0, <1>1, <2>2, <2>3, BodyAddEffect
      <3> HIDE DEF a
      <3> QED BY <1>0, <1>1, <1>2, <2>1, <2>3, <3>1, FinishedOpen
    <2>4. CASE ~c.open
      <3>0. c.isClosed /\ c.toWrite # 0
        BY <2>2, <2>4
      <3>1. a = c
        BY <1>0, <1>1, <2>2, <3>0, BodyAddEffect
      <3>2. c.keepAlive \in BOOLEAN /\ [c EXCEPT !.keepAlive = c.keepAlive] = c
        BY <1>0 DEF ConnType
      <3> HIDE DEF a
      <3>3. Sane(wr_req_free([c EXCEPT !.keepAlive = c.keepAlive], r), FALSE)
        BY <1>0, <1>2, <2>1, <2>4, <3>2, FinishedClosed
      <3> QED BY <1>0, <2>1, <3>1, <3>2, <3>3
    <2> QED BY <2>3, <2>4
  <1>3. CASE c.rq[r].connErr
    <2>1. c' = [c EXCEPT !.rq[r].st = "gone"]
      BY <1>0, <1>3 DEF wr_req_free
    <2>2. [c.rq EXCEPT ![r].st = "gone"] \in [Req -> ReqType]
      BY <1>0, ZenonT(40) DEF ConnType, ReqType
    <2>3. /\ c' \in ConnType /\ c'.mem = c.mem /\ c'.open = c.open /\ c'.isClosed = c.isClosed
          /\ c'.toWrite = c.toWrite /\ c'.resp = c.resp /\ c'.out = c.out
          /\ c'.req = c.req /\ c'.reading = c.reading /\ c'.writing = c.writing
          /\ c'.pos = c.pos /\ c'.cur = c.cur /\ c'.bad = c.bad
          /\ c'.env = c.env /\ c'.keepAlive = c.keepAlive
          /\ c'.rq = [c.rq EXCEPT ![r].st = "gone"]
      BY <1>0, <2>1, <2>2 DEF ConnType
    <2>4. \A q \in Req : /\ c'.rq[q].connErr = c.rq[q].connErr
                         /\ c'.rq[q].st = IF q = r THEN "gone" ELSE c.rq[q].st
      BY <1>0, <2>3 DEF ConnType, ReqType
    <2>5. c.req = r /\ r # None
      BY <1>0, <1>3 DEF Sane, OneRequest, Req, None
    <2>6. c.toWrite = 0 /\ c.pos = "error"
      BY <1>0, <1>3, <2>5 DEF Sane, Doomed
    <2>7. Handle(c', FALSE)
      BY <1>0, <2>3 DEF Sane, Handle
    <2>8. OneRequest(c')
      <3>1. OneRequest(c)
        BY <1>0 DEF Sane
      <3> QED BY <1>0, <1>3, <2>3, <2>4, <2>5, <3>1 DEF OneRequest, Alive
    <2>9. Counted(c') /\ Doomed(c', FALSE)
      BY <1>0, <1>3, <2>3, <2>4, <2>5, <2>6 DEF Sane, Counted, Doomed, Garbled
    <2>10. Parser(c', FALSE)
      <3>1. c.mem = "live" => c.cur = None /\ ~c.reading /\ Garbled(c)
        BY <1>0, <2>6 DEF Sane, Parser
      <3> QED BY <2>3, <2>4, <2>5, <2>6, <3>1 DEF Parser, Garbled
    <2>11. Follows(c, FALSE, c', FALSE) /\ Stream(c') = Stream(c)
      BY <2>3, <2>4, <2>5 DEF Follows, Alive, Stream
    <2>12. Told(c', FALSE) /\ Ordered(Stream(c'), Excused(c'))
      BY <1>0, <2>11, StreamKept
    <2>13. c'.bad => Excusable(c')
      BY <1>0, <2>3 DEF Sane, Upload, Excused, Excusable
    <2> QED BY <1>0, <2>3, <2>7, <2>8, <2>9, <2>10, <2>12, <2>13 DEF Sane
  <1> QED BY <1>2, <1>3

LEMMA OwedLostSane ==
  ASSUME NEW s, Sane(s, FALSE), NEW r \in Req, Complete(s, r), ~s.rq[r].connErr
  PROVE  Sane(wr_conn_err_resp(s, FALSE), FALSE)
  <1>0. /\ s \in ConnType /\ s.req = r /\ r # None /\ s.toWrite = 1 /\ s.mem = "live"
        /\ s.rq[s.req].st # "gone"
        /\ s.open => ~s.isClosed /\ Armed(s)
        /\ ~s.open => s.isClosed
    BY OwedRequest DEF Alive, Sane
  <1>1. CASE s.open
    <2>1. PICK a : /\ Answered(s, a, ErrorPiece(s), FALSE)
                   /\ wr_conn_err_resp(s, FALSE) =
                        IF s.req = None THEN ErrNoRequest(a)
                        ELSE IF s.rq[s.req].st = "busy" /\ FALSE THEN ErrWithWorker(a, s.req)
                        ELSE wr_req_free(a, s.req)
      BY <1>0, <1>1, ErrRespOpen
    <2>2. wr_conn_err_resp(s, FALSE) = wr_req_free(a, r)
      BY <1>0, <2>1
    <2>3. ErrorPiece(s) \in Piece /\ ErrorPiece(s).r = r
      BY <1>0 DEF ErrorPiece, Piece
    <2> QED BY <1>1, <2>1, <2>2, <2>3, FinishedOpen
  <1>2. CASE ~s.open
    <2>1. wr_conn_err_resp(s, FALSE) = wr_req_free([s EXCEPT !.keepAlive = FALSE], r)
      BY <1>0, <1>2, ErrRespClosed
    <2>2. Sane(wr_req_free([s EXCEPT !.keepAlive = FALSE], r), FALSE)
      BY <1>2, FinishedClosed
    <2> QED BY <2>1, <2>2
  <1> QED BY <1>1, <1>2

LEMMA AppRemovedSane ==
  ASSUME ConnInv, NEW r \in Req, AppRemoved(r)
  PROVE  Sane(c', inRecv')
  <1>0. /\ Sane(c, FALSE) /\ inRecv' = FALSE /\ c.rq[r].st = "queued"
        /\ c' = wr_conn_err_resp(c, FALSE)
    BY DEF ConnInv, AppRemoved, Idle, Sane
  <1>1. ~c.rq[r].connErr /\ Complete(c, r)
    BY <1>0 DEF Sane, OneRequest, Complete
  <1> QED BY <1>0, <1>1, OwedLostSane

-----------------------------------------------------------------------------
(* Whatever the count of responses is, the functions of wr_connection.c and *)
(* wr_request.c touch at most one request: it is freed, or answered while a *)
(* worker has it.                                                           *)
Record ==
  [mem : {"live", "freed"}, open : BOOLEAN, isClosed : BOOLEAN,
   toWrite : Int, keepAlive : BOOLEAN, resp : Seq(Piece), req : Req \cup {None},
   reading : BOOLEAN, writing : BOOLEAN,
   pos : {"main", "head", "body", "error"}, cur : Req \cup {None},
   rq : [Req -> ReqType], out : Seq(Piece), bad : BOOLEAN, env : Environments]

LEMMA ConnRecord == ASSUME NEW s \in ConnType PROVE s \in Record
  BY DEF ConnType, Record

Touches(s, d) ==
  \/ d.rq = s.rq
  \/ \E q \in Req : \/ d.rq = [s.rq EXCEPT ![q].st = "gone"]
                    \/ s.rq[q].st = "busy" /\ d.rq = [s.rq EXCEPT ![q].connErr = TRUE]

LEMMA FreeTouches ==
  ASSUME NEW s \in Record
  PROVE  wr_conn_free(s) \in Record /\ wr_conn_free(s).rq = s.rq /\ wr_conn_free(s).req = s.req
         /\ wr_conn_free(s).env = s.env
  <1>1. <<>> \in Seq(Piece)
    OBVIOUS
  <1>2. CASE s.mem = "freed"
    <2>1. wr_conn_free(s) = [s EXCEPT !.bad = TRUE]
      BY <1>2 DEF wr_conn_free, Bad
    <2> QED BY <2>1 DEF Record
  <1>3. CASE s.mem # "freed"
    <2>1. wr_conn_free(s) = [s EXCEPT !.mem = "freed", !.resp = <<>>]
      BY <1>3 DEF wr_conn_free
    <2> QED BY <1>1, <2>1 DEF Record
  <1> QED BY <1>2, <1>3

LEMMA AddTouches ==
  ASSUME NEW s \in Record, NEW p \in Piece
  PROVE  LET d == wr_conn_resp_body_add(s, p)
         IN  d \in Record /\ d.rq = s.rq /\ d.req = s.req /\ d.env = s.env
  <1> DEFINE d == wr_conn_resp_body_add(s, p)
  <1>1. CASE s.mem = "freed"
    <2>1. d = [s EXCEPT !.bad = TRUE]
      BY <1>1 DEF wr_conn_resp_body_add, Bad
    <2> QED BY <2>1 DEF Record
  <1>2. CASE s.mem = "live" /\ ~s.isClosed
    <2>1. d = [s EXCEPT !.resp = Append(@, p), !.writing = @ \/ s.resp = <<>>]
      BY <1>2 DEF wr_conn_resp_body_add
    <2>2. Append(s.resp, p) \in Seq(Piece)
      BY DEF Record
    <2> QED BY <2>1, <2>2 DEF Record
  <1>3. CASE s.mem = "live" /\ s.isClosed /\ s.toWrite = 0
    <2>1. d = wr_conn_free(s)
      BY <1>3 DEF wr_conn_resp_body_add
    <2> QED BY <2>1, FreeTouches
  <1>4. CASE s.mem = "live" /\ s.isClosed /\ s.toWrite # 0
    <2>1. d = s
      BY <1>4 DEF wr_conn_resp_body_add
    <2> QED BY <2>1
  <1> QED BY <1>1, <1>2, <1>3, <1>4 DEF Record

LEMMA ReqFreeTouches ==
  ASSUME NEW s \in Record, NEW r \in Req
  PROVE  LET d == wr_req_free(s, r) IN d \in Record /\ Touches(s, d) /\ d.env = s.env
  <1> DEFINE f == [s EXCEPT !.rq[r].st = "gone"]
             e == [f EXCEPT !.toWrite = @ - 1, !.req = None]
             d == wr_req_free(s, r)
  <1>0. s.rq \in [Req -> ReqType] /\ [s.rq EXCEPT ![r].st = "gone"] \in [Req -> ReqType]
    <2>1. s.rq \in [Req -> ReqType]
      BY DEF Record
    <2> QED BY <2>1 DEF ReqType
  <1>1. f \in Record /\ f.rq = [s.rq EXCEPT ![r].st = "gone"] /\ f.env = s.env
    BY <1>0 DEF Record
  <1>2. d = IF s.rq[r].st = "gone" THEN Bad(s)
            ELSE CASE s.rq[r].connErr -> f
                   [] ~s.rq[r].connErr /\ s.mem = "freed" -> Bad(f)
                   [] ~s.rq[r].connErr /\ s.mem = "live" /\ e.isClosed /\ e.toWrite = 0 ->
                        wr_conn_free(e)
                   [] OTHER -> e
    BY DEF wr_req_free
  <1> HIDE DEF f
  <1>3. e \in Record /\ e.rq = f.rq /\ e.env = f.env
    <2>1. f.toWrite - 1 \in Int
      BY <1>1 DEF Record
    <2> QED BY <1>1, <2>1 DEF Record
  <1>4. Bad(s) \in Record /\ Bad(s).rq = s.rq /\ Bad(f) \in Record /\ Bad(f).rq = f.rq
        /\ Bad(s).env = s.env /\ Bad(f).env = f.env
    BY <1>1 DEF Record, Bad
  <1>5. wr_conn_free(e) \in Record /\ wr_conn_free(e).rq = f.rq /\ wr_conn_free(e).env = e.env
    BY <1>3, FreeTouches
  <1> HIDE DEF e
  <1>6. d \in {Bad(s), f, Bad(f), wr_conn_free(e), e}
    <2>1. CASE s.rq[r].st = "gone" BY <1>2, <2>1
    <2>2. CASE s.rq[r].st # "gone" /\ s.rq[r].connErr BY <1>2, <2>2
    <2>3. CASE s.rq[r].st # "gone" /\ ~s.rq[r].connErr BY <1>2, <2>3 DEF Record
    <2> QED BY <2>1, <2>2, <2>3
  <1> HIDE DEF d
  <1>7. d \in Record /\ (d.rq = s.rq \/ d.rq = [s.rq EXCEPT ![r].st = "gone"]) /\ d.env = s.env
    BY <1>1, <1>3, <1>4, <1>5, <1>6
  <1> QED BY <1>7 DEF Touches, d

LEMMA ErrRespTouches ==
  ASSUME NEW s \in Record, NEW using \in BOOLEAN
  PROVE  LET d == wr_conn_err_resp(s, using) IN d \in Record /\ Touches(s, d) /\ d.env = s.env
  <1> DEFINE t == [s EXCEPT !.keepAlive = FALSE]
             a == wr_conn_resp_body_add(t, ErrorPiece(s))
             d == wr_conn_err_resp(s, using)
  <1>1. t \in Record /\ t.rq = s.rq /\ t.req = s.req /\ t.env = s.env
    BY DEF Record
  <1>2. ErrorPiece(s) \in Piece
    BY DEF ErrorPiece, Piece, Record
  <1>3. d = CASE s.mem = "freed" \/ a.mem = "freed" -> Bad(s)
              [] a.mem = "live" /\ a.req = None -> ErrNoRequest(a)
              [] a.mem = "live" /\ a.req # None ->
                   IF a.rq[a.req].st = "gone" THEN Bad(a)
                   ELSE IF a.rq[a.req].st = "busy" /\ using THEN ErrWithWorker(a, a.req)
                   ELSE wr_req_free(a, a.req)
    BY DEF wr_conn_err_resp, ErrorPiece
  <1> HIDE DEF t
  <1>4. a \in Record /\ a.rq = s.rq /\ a.req = s.req /\ a.env = s.env
    BY <1>1, <1>2, AddTouches
  <1>5. s.mem = "freed" => a.mem = "freed"
    <2> SUFFICES ASSUME s.mem = "freed" PROVE a.mem = "freed"
      OBVIOUS
    <2>1. t.mem = "freed"
      BY DEF t, Record
    <2>2. a = [t EXCEPT !.bad = TRUE]
      BY <2>1 DEF wr_conn_resp_body_add, Bad
    <2> QED BY <1>1, <2>1, <2>2 DEF Record
  <1> HIDE DEF a, d
  <1>6. CASE a.mem = "freed"
    <2>1. d = Bad(s)
      BY <1>3, <1>6
    <2>2. d.rq = s.rq /\ d \in Record /\ d.env = s.env
      BY <2>1 DEF Bad, Record
    <2> QED BY <2>2 DEF Touches, d
  <1>7. CASE a.mem # "freed" /\ a.req = None
    <2>1. d = [a EXCEPT !.toWrite = @ - 1]
      BY <1>3, <1>4, <1>5, <1>7 DEF ErrNoRequest, Record
    <2>2. a \in Record /\ a.toWrite - 1 \in Int /\ a.rq = s.rq /\ a.env = s.env
      BY <1>4 DEF Record
    <2>3. d.rq = s.rq /\ d \in Record /\ d.env = s.env
      BY <2>1, <2>2 DEF Record
    <2> QED BY <2>3 DEF Touches, d
  <1>8. CASE a.mem # "freed" /\ a.req # None
    <2>0. s.req \in Req /\ a.req \in Req
      BY <1>4, <1>8 DEF Record
    <2>1. d = IF a.rq[a.req].st = "gone" THEN Bad(a)
              ELSE IF a.rq[a.req].st = "busy" /\ using THEN ErrWithWorker(a, a.req)
              ELSE wr_req_free(a, a.req)
      BY <1>3, <1>4, <1>5, <1>8 DEF Record
    <2>2. CASE d = Bad(a)
      <3>1. d.rq = s.rq /\ d \in Record /\ d.env = s.env
        BY <1>4, <2>2 DEF Bad, Record
      <3> QED BY <3>1 DEF Touches, d
    <2>3. CASE a.rq[a.req].st = "busy" /\ d = ErrWithWorker(a, a.req)
      <3>0. a.rq \in [Req -> ReqType] /\ [a.rq EXCEPT ![a.req].connErr = TRUE] \in [Req -> ReqType]
        <4>1. a.rq \in [Req -> ReqType]
          BY <1>4 DEF Record
        <4> QED BY <2>0, <4>1 DEF ReqType
      <3>a. a \in Record /\ a.toWrite - 1 \in Int /\ a.rq = s.rq /\ a.env = s.env /\ a.req = s.req
        BY <1>4 DEF Record
      <3>1. d.rq = [s.rq EXCEPT ![s.req].connErr = TRUE] /\ d \in Record /\ d.env = s.env
        BY <2>0, <2>3, <3>a, <3>0 DEF ErrWithWorker, Record
      <3> QED BY <1>4, <2>0, <2>3, <3>1 DEF Touches, d
    <2>4. CASE d = wr_req_free(a, a.req)
      <3>1. d \in Record /\ Touches(a, d) /\ d.env = a.env
        BY <1>4, <2>0, <2>4, ReqFreeTouches
      <3> QED BY <1>4, <3>1 DEF Touches, d
    <2> QED BY <2>1, <2>2, <2>3, <2>4
  <1> QED BY <1>6, <1>7, <1>8

-----------------------------------------------------------------------------
LEMMA LostSane ==
  ASSUME NEW s, Sane(s, FALSE), NEW r \in Req, s.rq[r].st = "busy",
         "lost" \in s.env \/ "unsent" \in s.env
  PROVE  Sane(wr_conn_err_resp(s, FALSE), FALSE)
  <1> DEFINE d == wr_conn_err_resp(s, FALSE)
  <1>0. Sane(s, FALSE) /\ s.rq[r].st = "busy" /\ s \in ConnType /\ d = wr_conn_err_resp(s, FALSE)
    BY DEF Sane
  <1> SUFFICES Sane(d, FALSE)
    OBVIOUS
  <1> HIDE DEF d
  <1>1. CASE ~s.rq[r].connErr
    BY <1>0, <1>1, OwedLostSane DEF Complete
  <1>2. CASE s.rq[r].connErr
    <2>0. s.req = r /\ r # None
      BY <1>0, <1>2 DEF Sane, OneRequest, Req, None
    <2>1. /\ s.toWrite = 0 /\ s.pos = "error" /\ ~s.keepAlive /\ Excused(s) /\ Garbled(s)
          /\ s.open => s.resp # <<>>
      BY <1>0, <1>2, <2>0 DEF Sane, Doomed, Excused, Garbled
    <2>2. CASE s.mem = "freed"
      <3>1. d = Bad(s)
        <4> DEFINE t == [s EXCEPT !.keepAlive = FALSE]
                   a == wr_conn_resp_body_add(t, ErrorPiece(s))
        <4>1. t \in ConnType /\ t.mem = "freed"
          BY <1>0, <2>2 DEF ConnType
        <4> HIDE DEF t
        <4>2. a = [t EXCEPT !.bad = TRUE]
          BY <4>1 DEF wr_conn_resp_body_add, Bad
        <4>3. a.mem = "freed"
          BY <4>1, <4>2 DEF ConnType
        <4>4. wr_conn_err_resp(s, FALSE) =
                CASE s.mem = "freed" \/ a.mem = "freed" -> Bad(s)
                  [] a.mem = "live" /\ a.req = None -> ErrNoRequest(a)
                  [] a.mem = "live" /\ a.req # None ->
                       IF a.rq[a.req].st = "gone" THEN Bad(a)
                       ELSE IF a.rq[a.req].st = "busy" /\ FALSE THEN ErrWithWorker(a, a.req)
                       ELSE wr_req_free(a, a.req)
          BY DEF wr_conn_err_resp, a, t, ErrorPiece
        <4> HIDE DEF a
        <4> QED BY <1>0, <2>2, <4>3, <4>4
      <3>2. /\ d \in ConnType /\ d.mem = s.mem /\ d.open = s.open /\ d.isClosed = s.isClosed
            /\ d.toWrite = s.toWrite /\ d.resp = s.resp /\ d.out = s.out
            /\ d.req = s.req /\ d.reading = s.reading /\ d.writing = s.writing
            /\ d.pos = s.pos /\ d.cur = s.cur /\ d.rq = s.rq
            /\ d.env = s.env /\ d.keepAlive = s.keepAlive
        BY <1>0, <3>1 DEF ConnType, Bad
      <3>3. Handle(d, FALSE)
        BY <1>0, <3>2 DEF Sane, Handle
      <3>4. OneRequest(d) /\ Counted(d)
        <4>1. OneRequest(d)
          <5>1. OneRequest(s)
            BY <1>0 DEF Sane
          <5>2. d.rq = s.rq /\ d.req = s.req
            BY <3>2
          <5> QED BY <5>1, <5>2 DEF OneRequest, Alive
        <4>2. Counted(d)
          BY <1>0, <3>2 DEF Sane, Counted, Complete, Upload
        <4> QED BY <4>1, <4>2
      <3>5. Parser(d, FALSE) /\ Doomed(d, FALSE)
        BY <1>0, <3>2 DEF Sane, Parser, Doomed, Upload, Garbled
      <3>6. Follows(s, FALSE, d, FALSE) /\ Stream(d) = Stream(s)
        BY <3>2 DEF Follows, Alive, Stream
      <3>7. Told(d, FALSE) /\ Ordered(Stream(d), Excused(d))
        BY <1>0, <3>6, StreamKept
      <3>8. Excused(d) /\ d.mem = "freed"
        BY <2>1, <2>2, <3>2 DEF Excused
      <3> QED BY <1>0, <3>2, <3>3, <3>4, <3>5, <3>7, <3>8 DEF Sane, Excusable
    <2>3. CASE s.mem = "live"
      <3>0. s.open /\ ~s.isClosed /\ Armed(s) /\ s.rq[s.req].st # "gone"
        BY <1>0, <2>0, <2>1, <2>3 DEF Sane, Handle, Armed
      <3>1. PICK a : /\ Answered(s, a, ErrorPiece(s), FALSE)
                     /\ wr_conn_err_resp(s, FALSE) =
                          IF s.req = None THEN ErrNoRequest(a)
                          ELSE IF s.rq[s.req].st = "busy" /\ FALSE THEN ErrWithWorker(a, s.req)
                          ELSE wr_req_free(a, s.req)
        BY <1>0, <2>3, <3>0, ErrRespOpen
      <3>2. /\ a \in ConnType /\ a.mem = "live" /\ a.open = s.open /\ a.isClosed = s.isClosed
            /\ a.toWrite = s.toWrite /\ a.keepAlive = FALSE
            /\ a.resp = Append(s.resp, ErrorPiece(s))
            /\ a.req = r /\ a.reading = s.reading /\ a.writing = TRUE
            /\ a.pos = s.pos /\ a.cur = s.cur /\ a.rq = s.rq /\ a.out = s.out
            /\ a.bad = s.bad /\ a.env = s.env
        BY <2>0, <2>3, <3>1 DEF Answered
      <3>3. d = [a EXCEPT !.rq[r].st = "gone"]
        <4>1. d = wr_req_free(a, r)
          BY <1>0, <2>0, <3>1
        <4> QED BY <1>0, <1>2, <3>2, <4>1 DEF wr_req_free
      <3>4. [s.rq EXCEPT ![r].st = "gone"] \in [Req -> ReqType]
        <4>1. s.rq \in [Req -> ReqType]
          BY <1>0 DEF ConnType
        <4> QED BY <4>1 DEF ReqType
      <3>5. /\ d \in ConnType /\ d.mem = a.mem /\ d.open = a.open /\ d.isClosed = a.isClosed
            /\ d.toWrite = a.toWrite /\ d.resp = a.resp /\ d.out = a.out
            /\ d.req = a.req /\ d.reading = a.reading /\ d.writing = a.writing
            /\ d.pos = a.pos /\ d.cur = a.cur /\ d.bad = a.bad
            /\ d.env = a.env /\ d.keepAlive = a.keepAlive
            /\ d.rq = [s.rq EXCEPT ![r].st = "gone"]
        BY <3>2, <3>3, <3>4 DEF ConnType
      <3>6. \A q \in Req : /\ d.rq[q].connErr = s.rq[q].connErr
                           /\ d.rq[q].st = IF q = r THEN "gone" ELSE s.rq[q].st
        <4>1. s.rq \in [Req -> ReqType]
          BY <1>0 DEF ConnType
        <4> QED BY <3>5, <4>1 DEF ReqType
      <3>7. ErrorPiece(s) \in Piece /\ ErrorPiece(s).r = r
        BY <2>0 DEF ErrorPiece, Piece
      <3>8. d.resp # <<>> /\ Stream(d) = Append(Stream(s), ErrorPiece(s))
        <4>1. s.resp \in Seq(Piece) /\ s.out \in Seq(Piece)
          BY <1>0 DEF ConnType
        <4>2. Append(s.resp, ErrorPiece(s)) # <<>>
          BY <3>7, <4>1
        <4>3. s.out \o Append(s.resp, ErrorPiece(s)) = Append(s.out \o s.resp, ErrorPiece(s))
          BY <3>7, <4>1, StreamAppend
        <4> QED BY <3>2, <3>5, <4>2, <4>3 DEF Stream
      <3>9. Handle(d, FALSE)
        BY <2>3, <3>0, <3>2, <3>5, <3>8 DEF Handle
      <3>10. OneRequest(d)
        <4>1. OneRequest(s)
          BY <1>0 DEF Sane
        <4>2. d.req = r /\ s.rq[r].st = "busy"
          BY <1>0, <3>2, <3>5
        <4> QED BY <1>2, <2>0, <3>6, <4>1, <4>2 DEF OneRequest, Alive
      <3>11. Counted(d) /\ Doomed(d, FALSE)
        BY <1>2, <2>0, <2>1, <3>2, <3>5, <3>6, <3>8 DEF Counted, Doomed, Garbled
      <3>12. Parser(d, FALSE)
        <4>1. s.cur = None /\ ~s.reading
          BY <1>0, <2>1, <2>3 DEF Sane, Parser
        <4> QED BY <2>0, <2>1, <3>2, <3>5, <3>6, <4>1 DEF Parser, Garbled
      <3>13. Follows(s, FALSE, d, FALSE)
        BY <2>0, <3>2, <3>5, <3>6 DEF Follows, Alive
      <3>14. Grows(s, FALSE, d, FALSE, ErrorPiece(s))
        BY <1>0, <2>0, <2>1, <3>6, <3>7, <3>8, <3>13 DEF Grows, Alive
      <3>15. Told(d, FALSE) /\ Ordered(Stream(d), Excused(d))
        BY <3>14, StreamGrows
      <3>16. d.bad => Excusable(d)
        BY <1>0, <2>3, <3>2, <3>5 DEF Sane, Upload, Excused, Excusable
      <3> QED BY <1>0, <3>5, <3>9, <3>10, <3>11, <3>12, <3>15, <3>16 DEF Sane
    <2> QED BY <1>0, <2>2, <2>3 DEF ConnType
  <1> QED BY <1>1, <1>2

LEMMA WkrLostSane ==
  ASSUME ConnInv, NEW r \in Req, WkrLost(r)
  PROVE  Sane(c', inRecv')
  <1>1. /\ Sane(c, FALSE) /\ inRecv' = FALSE /\ c.rq[r].st = "busy" /\ "lost" \in c.env
        /\ c' = wr_conn_err_resp(c, FALSE)
    BY DEF ConnInv, WkrLost, Idle, Sane, May
  <1> QED BY <1>1, LostSane

(* What is sane remains so when it is known to be misused. *)
LEMMA HeaderUnsentSane ==
  ASSUME ConnInv, NEW r \in Req, HeaderUnsent(r)
  PROVE  Sane(c', inRecv')
  <1> DEFINE d == wr_conn_err_resp(c, FALSE)
  <1>1. /\ Sane(c, FALSE) /\ inRecv' = FALSE /\ c.rq[r].st = "busy" /\ "unsent" \in c.env
        /\ c' = Bad(d) /\ c \in Record
    BY ConnRecord DEF ConnInv, HeaderUnsent, Idle, Sane, May
  <1>2. Sane(d, FALSE) /\ d \in ConnType
    BY <1>1, LostSane DEF Sane
  <1>3. d.env = c.env
    BY <1>1, ErrRespTouches
  <1> HIDE DEF d
  <1>4. /\ c' \in ConnType /\ c'.mem = d.mem /\ c'.open = d.open /\ c'.isClosed = d.isClosed
        /\ c'.toWrite = d.toWrite /\ c'.resp = d.resp /\ c'.out = d.out
        /\ c'.req = d.req /\ c'.reading = d.reading /\ c'.writing = d.writing
        /\ c'.pos = d.pos /\ c'.cur = d.cur /\ c'.rq = d.rq
        /\ c'.env = d.env /\ c'.keepAlive = d.keepAlive
    BY <1>1, <1>2 DEF ConnType, Bad
  <1>5. Handle(c', FALSE) /\ OneRequest(c') /\ Counted(c')
    <2>1. Handle(c', FALSE)
      BY <1>2, <1>4 DEF Sane, Handle
    <2>2. OneRequest(c')
      BY <1>2, <1>4 DEF Sane, OneRequest, Alive
    <2>3. Counted(c')
      BY <1>2, <1>4 DEF Sane, Counted, Complete, Upload
    <2> QED BY <2>1, <2>2, <2>3
  <1>6. Parser(c', FALSE) /\ Doomed(c', FALSE)
    BY <1>2, <1>4 DEF Sane, Parser, Doomed, Upload, Garbled
  <1>7. Follows(d, FALSE, c', FALSE) /\ Stream(c') = Stream(d)
    BY <1>4 DEF Follows, Alive, Stream
  <1>8. Told(c', FALSE) /\ Ordered(Stream(c'), Excused(c'))
    BY <1>2, <1>7, StreamKept
  <1> QED BY <1>1, <1>3, <1>4, <1>5, <1>6, <1>8 DEF Sane, Excusable

-----------------------------------------------------------------------------
LEMMA ConnInit == Init => ConnInv
  <1> SUFFICES ASSUME Init PROVE ConnInv
    OBVIOUS
  <1>1. inRecv = FALSE /\ c.mem = "live" /\ c.open /\ ~c.isClosed /\ c.toWrite = 0
        /\ c.resp = <<>> /\ c.req = None /\ ~c.writing /\ c.pos = "main" /\ c.cur = None
        /\ c.out = <<>> /\ ~c.bad
        /\ \A r \in Req : c.rq[r].st = "new" /\ ~c.rq[r].connErr
    BY DEF Init
  <1>2. c \in ConnType
    <2>1. PICK e \in Environments :
            c = [mem |-> "live", open |-> TRUE, isClosed |-> FALSE,
                 toWrite |-> 0, keepAlive |-> FALSE, resp |-> <<>>, req |-> None,
                 reading |-> TRUE, writing |-> FALSE, pos |-> "main", cur |-> None,
                 rq |-> [r \in Req |-> [st |-> "new", app |-> FALSE,
                                        connErr |-> FALSE, parts |-> 0]],
                 out |-> <<>>, bad |-> FALSE, env |-> e]
      BY DEF Init
    <2>2. [r \in Req |-> [st |-> "new", app |-> FALSE, connErr |-> FALSE, parts |-> 0]]
            \in [Req -> ReqType]
      BY ConnAssumption DEF ReqType
    <2>3. <<>> \in Seq(Piece)
      OBVIOUS
    <2> QED BY <2>1, <2>2, <2>3 DEF ConnType
  <1>3. Stream(c) = <<>>
    BY <1>1 DEF Stream
  <1>4. Handle(c, inRecv) /\ OneRequest(c) /\ Counted(c) /\ Parser(c, inRecv) /\ Doomed(c, inRecv)
    BY <1>1 DEF Handle, OneRequest, Alive, Counted, Parser, Doomed
  <1>5. Told(c, inRecv) /\ Ordered(Stream(c), Excused(c))
    BY <1>3 DEF Told, Ordered
  <1> QED BY <1>1, <1>2, <1>4, <1>5 DEF ConnInv, Sane

LEMMA ConnStep == ConnInv /\ [Next]_vars => ConnInv'
  <1> SUFFICES ASSUME ConnInv, [Next]_vars PROVE Sane(c', inRecv')
    BY DEF ConnInv
  <1>1. CASE Recv BY <1>1, RecvSane
  <1>2. CASE wr_new_req_cb BY <1>2, NewReqSane
  <1>3. CASE HeadRejected BY <1>3, HeadRejectedSane
  <1>4. CASE HeadSkipped BY <1>4, HeadSkippedSane
  <1>5. CASE wr_headers_complete_cb BY <1>5, HeadersSane
  <1>6. CASE wr_req_complete_cb BY <1>6, CompleteSane
  <1>7. CASE Garbage BY <1>7, GarbageSane
  <1>8. CASE RecvEnds BY <1>8, RecvEndsSane
  <1>9. CASE Written BY <1>9, WrittenSane
  <1>10. CASE ClientGone BY <1>10, ClientGoneSane
  <1>11. CASE wr_conn_timeout_cb BY <1>11, TimeoutSane
  <1>12. ASSUME NEW r \in Req, Assign(r) PROVE Sane(c', inRecv') BY <1>12, AssignSane
  <1>13. ASSUME NEW r \in Req, RespPart(r) PROVE Sane(c', inRecv') BY <1>13, RespPartSane
  <1>14. ASSUME NEW r \in Req, RespLast(r) PROVE Sane(c', inRecv') BY <1>14, RespLastSane
  <1>15. ASSUME NEW r \in Req, WkrLost(r) PROVE Sane(c', inRecv') BY <1>15, WkrLostSane
  <1>16. ASSUME NEW r \in Req, HeaderUnsent(r) PROVE Sane(c', inRecv') BY <1>16, HeaderUnsentSane
  <1>17. ASSUME NEW r \in Req, AppRemoved(r) PROVE Sane(c', inRecv') BY <1>17, AppRemovedSane
  <1>18. CASE UNCHANGED vars BY <1>18 DEF vars, ConnInv
  <1> QED BY <1>1, <1>2, <1>3, <1>4, <1>5, <1>6, <1>7, <1>8, <1>9, <1>10, <1>11,
             <1>12, <1>13, <1>14, <1>15, <1>16, <1>17, <1>18 DEF Next

(* The whole invariant, for every mix of disturbances. *)
THEOREM ConnInvariant == Spec => []ConnInv
  BY ConnInit, ConnStep, PTL DEF Spec

(* resp_to_write counts exactly the requests that are owed a response, the  *)
(* write watcher runs exactly when there is something to write, and every   *)
(* field keeps its type.                                                    *)
THEOREM ConnIsSound == Spec => []ConnSound
  <1>1. ConnInv => ConnSound
    <2> SUFFICES ASSUME ConnInv PROVE ConnSound
      OBVIOUS
    <2>1. TypeOK
      BY DEF ConnInv, Sane, TypeOK
    <2>2. WriterArmed
      BY DEF ConnInv, Sane, Handle, WriterArmed
    <2>3. CountsOwed
      <3> SUFFICES ASSUME c.mem = "live", ~May("upload")
                   PROVE  /\ c.toWrite = Cardinality(Owed) /\ c.toWrite <= 1
                          /\ c.isClosed => c.toWrite > 0
        BY DEF CountsOwed
      <3>1. c.toWrite \in {0, 1}
        BY <2>1 DEF ConnInv, Sane, Counted, Upload, May, TypeOK, ConnType
      <3>2. c.isClosed => c.toWrite = 1
        BY DEF ConnInv, Sane, Handle
      <3>3. CASE c.toWrite = 1
        <4>1. c.req \in Req /\ c.rq[c.req].st \in {"queued", "busy"} /\ ~c.rq[c.req].connErr
          BY <2>1, <3>3 DEF ConnInv, Sane, Counted, Complete, TypeOK, ConnType
        <4>2. \A r \in Owed : r = c.req
          BY DEF Owed, ConnInv, Sane, OneRequest, Alive
        <4>3. Owed = {c.req}
          BY <4>1, <4>2 DEF Owed
        <4>4. Cardinality(Owed) = 1
          BY <4>3, FS_Singleton
        <4> QED BY <3>2, <3>3, <4>4
      <3>4. CASE c.toWrite = 0
        <4>1. \A r \in Owed : c.req = r /\ r # None /\ Complete(c, r) /\ ~c.rq[r].connErr
          BY DEF Owed, ConnInv, Sane, OneRequest, Alive, Complete, Req, None
        <4>2. Owed = {}
          BY <3>4, <4>1 DEF ConnInv, Sane, Counted
        <4> QED BY <3>2, <3>4, <4>2, FS_EmptySet
      <3> QED BY <3>1, <3>3, <3>4
    <2> QED BY <2>1, <2>2, <2>3 DEF ConnSound
  <1> QED BY <1>1, ConnInvariant, PTL

(* A client receives the responses in the order of its requests, none       *)
(* continued after its end, and nothing behind an error without a request.  *)
THEOREM ConnInOrder == Spec => []InOrder
  <1>1. ConnInv => InOrder
    BY DEF ConnInv, Sane, Ordered, Excused, Stream, InOrder, AnsweredForWorker, May
  <1> QED BY <1>1, ConnInvariant, PTL

(* No callback follows a pointer to a connection or a request that has been *)
(* freed, but in the three cases NeverDangling names.                       *)
THEOREM ConnNeverDangles == Spec => []NeverDangling
  <1>1. ConnInv => NeverDangling
    BY DEF ConnInv, Sane, Excused, Excusable, Upload, NeverDangling, AnsweredForWorker, May
  <1> QED BY <1>1, ConnInvariant, PTL

-----------------------------------------------------------------------------
(***************************************************************************)
(* The refinement of WrReqLife, from what the functions touch.             *)
(***************************************************************************)
LEMMA CloseTouches ==
  ASSUME NEW s \in Record
  PROVE  wr_conn_close_cb(s).rq = s.rq
  <1> DEFINE e == [s EXCEPT !.open = FALSE, !.reading = FALSE, !.writing = FALSE]
  <1>1. e \in Record /\ e.rq = s.rq
    BY DEF Record
  <1>2. wr_conn_close_cb(s) = IF NothingOwed(e) THEN wr_conn_free(e)
                              ELSE [e EXCEPT !.isClosed = TRUE, !.keepAlive = FALSE]
    BY DEF wr_conn_close_cb
  <1> HIDE DEF e
  <1>3. wr_conn_free(e).rq = s.rq
    BY <1>1, FreeTouches
  <1>4. [e EXCEPT !.isClosed = TRUE, !.keepAlive = FALSE].rq = s.rq
    BY <1>1 DEF Record
  <1> QED BY <1>2, <1>3, <1>4

LEMMA InvalidTouches ==
  ASSUME NEW s \in Record
  PROVE  Touches(s, wr_req_invalid(s))
  <1> DEFINE t == [s EXCEPT !.keepAlive = FALSE, !.reading = FALSE, !.cur = None,
                            !.toWrite = IF @ = 0 THEN 1 ELSE @]
  <1>0. (IF s.toWrite = 0 THEN 1 ELSE s.toWrite) \in Int
    BY DEF Record
  <1>1. t \in Record /\ t.rq = s.rq
    BY <1>0 DEF Record
  <1>2. wr_req_invalid(s) = IF s.req # None /\ s.rq[s.req].st = "gone" THEN Bad(s)
                            ELSE wr_conn_err_resp(t, TRUE)
    BY DEF wr_req_invalid
  <1> HIDE DEF t
  <1>3. Touches(t, wr_conn_err_resp(t, TRUE))
    BY <1>1, ErrRespTouches
  <1>4. Bad(s).rq = s.rq
    BY DEF Bad, Record
  <1> QED BY <1>1, <1>2, <1>3, <1>4 DEF Touches

LEMMA AfterWriteTouches ==
  ASSUME NEW s \in Record, s.resp # <<>>
  PROVE  wr_conn_after_write_cb(s).rq = s.rq
  <1> DEFINE d == [s EXCEPT !.out = Append(@, Head(s.resp)), !.resp = Tail(@), !.writing = FALSE]
  <1>0. s.resp \in Seq(Piece) /\ s.out \in Seq(Piece)
    BY DEF Record
  <1>1. Append(s.out, Head(s.resp)) \in Seq(Piece) /\ Tail(s.resp) \in Seq(Piece)
    BY <1>0
  <1>2. d \in Record /\ d.rq = s.rq
    BY <1>1 DEF Record
  <1>3. wr_conn_after_write_cb(s) =
          CASE d.resp # <<>> /\ ~d.isClosed -> NextPiece(d)
            [] (d.resp = <<>> \/ d.isClosed) /\ d.toWrite <= 0
                 /\ (~ServerKeepAlive \/ ~d.keepAlive) -> wr_conn_close_cb(d)
            [] OTHER -> d
    BY DEF wr_conn_after_write_cb
  <1> HIDE DEF d
  <1>4. wr_conn_after_write_cb(s) \in {NextPiece(d), wr_conn_close_cb(d), d}
    BY <1>3
  <1>5. NextPiece(d).rq = d.rq /\ wr_conn_close_cb(d).rq = d.rq
    BY <1>2, CloseTouches DEF NextPiece, Record
  <1> QED BY <1>2, <1>4, <1>5

(* The moves WrReqLife allows a request, in terms of the request's record. *)
Moves(x, y) ==
  \/ y.st = x.st /\ y.app = x.app /\ y.connErr = x.connErr
  \/ y.st = "gone"
  \/ x.st = "new" /\ y.st = "head"
  \/ x.st = "head" /\ y.st = "body"
  \/ x.st = "body" /\ x.app /\ y.st = "queued"
  \/ x.st = "queued" /\ y.st = "busy" /\ ~y.connErr
  \/ x.st = "busy" /\ y.st = "busy" /\ y.connErr

LEMMA TouchMoves ==
  ASSUME NEW s \in Record, NEW d, Touches(s, d), NEW r \in Req
  PROVE  Moves(s.rq[r], d.rq[r])
  <1>0. s.rq \in [Req -> ReqType]
    BY DEF Record
  <1>1. CASE d.rq = s.rq
    BY <1>1 DEF Moves
  <1>2. ASSUME NEW q \in Req, d.rq = [s.rq EXCEPT ![q].st = "gone"]
        PROVE  Moves(s.rq[r], d.rq[r])
    BY <1>0, <1>2 DEF Moves, ReqType
  <1>3. ASSUME NEW q \in Req, s.rq[q].st = "busy", d.rq = [s.rq EXCEPT ![q].connErr = TRUE]
        PROVE  Moves(s.rq[r], d.rq[r])
    <2>1. CASE q = r
      BY <1>0, <1>3, <2>1, ZenonT(40) DEF Moves, ReqType
    <2>2. CASE q # r
      BY <1>0, <1>3, <2>2 DEF Moves
    <2> QED BY <2>1, <2>2
  <1> QED BY <1>1, <1>2, <1>3 DEF Touches

LEMMA ParserMoves ==
  ASSUME ConnInv, NEW r \in Req,
         wr_new_req_cb \/ HeadRejected \/ wr_headers_complete_cb \/ wr_req_complete_cb
  PROVE  Moves(c.rq[r], c'.rq[r])
  <1>0. inRecv = TRUE /\ Sane(c, TRUE) /\ c \in ConnType /\ c \in Record
        /\ c.rq \in [Req -> ReqType]
    <2>1. inRecv = TRUE /\ Sane(c, TRUE) /\ c \in ConnType
      BY DEF ConnInv, Sane, Parsing, wr_new_req_cb, HeadRejected, wr_headers_complete_cb,
             wr_req_complete_cb
    <2> QED BY <2>1, ConnRecord DEF ConnType
  <1>1. CASE wr_new_req_cb
    <2>1. CASE c' = [c EXCEPT !.pos = "head", !.cur = None]
      BY <1>0, <2>1 DEF ConnType, Moves
    <2>2. ASSUME NEW o \in Req, c.rq[o].st = "new",
                 c' = [c EXCEPT !.pos = "head", !.cur = o, !.req = o, !.rq[o].st = "head"]
          PROVE  Moves(c.rq[r], c'.rq[r])
      <3>1. c'.rq = [c.rq EXCEPT ![o].st = "head"]
        BY <1>0, <2>2 DEF ConnType
      <3> QED BY <1>0, <2>2, <3>1 DEF Moves, ReqType
    <2> QED BY <1>1, <2>1, <2>2 DEF wr_new_req_cb
  <1>2. CASE HeadRejected
    <2> DEFINE d == wr_req_invalid(c)
    <2>1. Refused(c, d)
      <3>0. c.pos = "head" /\ c.cur # None /\ c.mem = "live" /\ ~c.isClosed /\ Armed(c)
        BY <1>0, <1>2, OpenWhileParsing DEF HeadRejected
      <3>1. c.rq[c.cur].st # "gone"
        BY <1>0, <3>0 DEF Sane, Parser
      <3>2. /\ c.req = c.cur /\ c.rq[c.cur].st = c.pos
            /\ ~c.rq[c.cur].connErr /\ c.toWrite = 0
        BY <1>0, <3>0, <3>1, ParsedRequest
      <3> QED BY <1>0, <3>0, <3>2, InvalidEffect
    <2>2. Touches(c, d)
      BY <1>0, InvalidTouches
    <2> HIDE DEF d
    <2>3. PICK p \in {"head", "main"} : c' = [d EXCEPT !.pos = p]
      BY <1>2 DEF HeadRejected, d
    <2>4. c'.rq = d.rq
      BY <2>1, <2>3 DEF Refused, ConnType
    <2> QED BY <1>0, <2>2, <2>4, TouchMoves
  <1>3. CASE wr_headers_complete_cb
    <2>0. /\ c.pos = "head" /\ c.cur # None /\ c.mem = "live" /\ ~c.isClosed
          /\ \/ \E app \in BOOLEAN :
                  c' = [c EXCEPT !.pos = "body", !.rq[c.cur].st = "body", !.rq[c.cur].app = app]
             \/ c' = [wr_req_free(c, c.cur) EXCEPT !.pos = "body"]
      BY <1>0, <1>3, OpenWhileParsing DEF wr_headers_complete_cb
    <2>1. c.rq[c.cur].st = "head" /\ c.cur \in Req
      BY <1>0, <2>0 DEF Sane, Parser, ConnType
    <2>2. ASSUME NEW app \in BOOLEAN,
                 c' = [c EXCEPT !.pos = "body", !.rq[c.cur].st = "body", !.rq[c.cur].app = app]
          PROVE  Moves(c.rq[r], c'.rq[r])
      <3>1. c'.rq = [[c.rq EXCEPT ![c.cur].st = "body"] EXCEPT ![c.cur].app = app]
        BY <1>0, <2>1, <2>2 DEF ConnType
      <3> QED BY <1>0, <2>1, <3>1 DEF Moves, ReqType
    <2>3. CASE c' = [wr_req_free(c, c.cur) EXCEPT !.pos = "body"]
      <3> DEFINE d == wr_req_free(c, c.cur)
      <3>1. d \in Record /\ Touches(c, d)
        BY <1>0, <2>1, ReqFreeTouches
      <3> HIDE DEF d
      <3>2. c' = [d EXCEPT !.pos = "body"]
        BY <2>3 DEF d
      <3>3. c'.rq = d.rq
        BY <3>1, <3>2 DEF Record
      <3> QED BY <1>0, <3>1, <3>3, TouchMoves
    <2> QED BY <2>0, <2>2, <2>3
  <1>4. CASE wr_req_complete_cb
    <2>0. c.pos = "body" /\ c.mem = "live" /\ c.cur # None /\ c.cur \in Req
      BY <1>0, <1>4, OpenWhileParsing DEF wr_req_complete_cb, Sane, Parser, ConnType
    <2>1. CASE c' = Bad(c)
      BY <1>0, <2>1 DEF Bad, Moves, ConnType
    <2>2. ASSUME NEW keep \in BOOLEAN, c.rq[c.cur].st # "gone",
                 LET d == [c EXCEPT !.keepAlive = keep, !.toWrite = @ + 1, !.pos = "main", !.cur = None]
                 IN  \/ c.rq[c.cur].app /\ c' = [d EXCEPT !.rq[c.cur].st = "queued"]
                     \/ c' = wr_req_invalid(d)
          PROVE  Moves(c.rq[r], c'.rq[r])
      <3> DEFINE d == [c EXCEPT !.keepAlive = keep, !.toWrite = @ + 1, !.pos = "main", !.cur = None]
      <3>0. c.toWrite + 1 \in Int
        BY <1>0 DEF ConnType
      <3>1. d \in Record /\ d.rq = c.rq
        BY <1>0, <3>0 DEF Record
      <3>2. \/ c.rq[c.cur].app /\ c' = [d EXCEPT !.rq[c.cur].st = "queued"]
            \/ c' = wr_req_invalid(d)
        BY <2>2
      <3> HIDE DEF d
      <3>3. CASE c.rq[c.cur].app /\ c' = [d EXCEPT !.rq[c.cur].st = "queued"]
        <4>1. c'.rq = [c.rq EXCEPT ![c.cur].st = "queued"]
          BY <3>1, <3>3 DEF Record
        <4>2. c.rq[c.cur].st = "body"
          BY <1>0, <2>0, <2>2, ParsedRequest
        <4> QED BY <1>0, <2>0, <3>3, <4>1, <4>2 DEF Moves, ReqType
      <3>4. CASE c' = wr_req_invalid(d)
        <4>1. Touches(d, c')
          BY <3>1, <3>4, InvalidTouches
        <4> QED BY <3>1, <4>1, TouchMoves
      <3> QED BY <3>2, <3>3, <3>4
    <2> QED BY <1>4, <2>1, <2>2 DEF wr_req_complete_cb, Resolved
  <1> QED BY <1>1, <1>2, <1>3, <1>4

LEMMA HeadMoves ==
  ASSUME ConnInv, NEW r \in Req, NEW o \in Req,
         Assign(o) \/ RespPart(o) \/ RespLast(o) \/ WkrLost(o) \/ HeaderUnsent(o) \/ AppRemoved(o)
  PROVE  Moves(c.rq[r], c'.rq[r])
  <1>0. c \in ConnType /\ c \in Record /\ c.rq \in [Req -> ReqType]
    BY ConnRecord DEF ConnInv, Sane, ConnType
  <1>1. CASE Assign(o)
    <2>1. c.rq[o].st = "queued" /\ c'.rq = [c.rq EXCEPT ![o].st = "busy"]
      BY <1>0, <1>1 DEF Assign, Record
    <2>2. ~c.rq[o].connErr
      BY <2>1 DEF ConnInv, Sane, OneRequest
    <2> QED BY <1>0, <2>1, <2>2 DEF Moves, ReqType
  <1>2. CASE RespPart(o)
    <2> DEFINE d == [c EXCEPT !.rq[o].parts = @ + 1]
               p == [r |-> o, part |-> "some"]
    <2>1. c.rq[o].parts < MaxParts /\ c' \in {wr_conn_resp_body_add(d, p), d}
      BY <1>2 DEF RespPart
    <2>2. [c.rq EXCEPT ![o].parts = @ + 1] \in [Req -> ReqType]
      <3>1. c.rq[o] \in ReqType /\ c.rq[o].parts + 1 \in 0..MaxParts
        BY <1>0, <2>1, ConnAssumption DEF ReqType
      <3> QED BY <1>0, <3>1 DEF ReqType
    <2>3. d \in Record /\ d.rq = [c.rq EXCEPT ![o].parts = @ + 1]
      BY <1>0, <2>2 DEF Record
    <2>4. p \in Piece
      BY DEF Piece
    <2> HIDE DEF d, p
    <2>5. wr_conn_resp_body_add(d, p).rq = d.rq
      BY <2>3, <2>4, AddTouches
    <2>6. c'.rq = [c.rq EXCEPT ![o].parts = @ + 1]
      BY <2>1, <2>3, <2>5
    <2> QED BY <1>0, <2>6 DEF Moves, ReqType
  <1>3. CASE RespLast(o)
    <2> DEFINE p == [r |-> o, part |-> "last"]
               a == wr_conn_resp_body_add(c, p)
    <2>1. c' \in {wr_req_free(a, o), wr_req_free(c, o)}
      BY <1>3 DEF RespLast
    <2>2. p \in Piece
      BY DEF Piece
    <2> HIDE DEF p
    <2>3. a \in Record /\ a.rq = c.rq
      BY <1>0, <2>2, AddTouches
    <2> HIDE DEF a
    <2>4. Touches(a, wr_req_free(a, o)) /\ Touches(c, wr_req_free(c, o))
      BY <1>0, <2>3, ReqFreeTouches
    <2>5. Touches(c, c')
      BY <2>1, <2>3, <2>4 DEF Touches
    <2> QED BY <1>0, <2>5, TouchMoves
  <1>4. CASE WkrLost(o) \/ AppRemoved(o)
    <2>1. c' = wr_conn_err_resp(c, FALSE)
      BY <1>4 DEF WkrLost, AppRemoved
    <2>2. Touches(c, c')
      BY <1>0, <2>1, ErrRespTouches
    <2> QED BY <1>0, <2>2, TouchMoves
  <1>5. CASE HeaderUnsent(o)
    <2> DEFINE d == wr_conn_err_resp(c, FALSE)
    <2>1. d \in Record /\ Touches(c, d)
      BY <1>0, ErrRespTouches
    <2>2. c'.rq = d.rq
      BY <1>5, <2>1 DEF HeaderUnsent, Bad, Record
    <2>3. Touches(c, c')
      BY <2>1, <2>2 DEF Touches
    <2> QED BY <1>0, <2>3, TouchMoves
  <1> QED BY <1>1, <1>2, <1>3, <1>4, <1>5

LEMMA StepMoves ==
  ASSUME ConnInv, [Next]_vars, NEW r \in Req
  PROVE  Moves(c.rq[r], c'.rq[r])
  <1>0. c \in ConnType /\ c \in Record
    BY ConnRecord DEF ConnInv, Sane
  <1>1. CASE c' = c
    BY <1>1 DEF Moves
  <1>2. CASE HeadSkipped \/ Garbage
    <2>1. c'.rq = c.rq
      BY <1>0, <1>2 DEF HeadSkipped, Garbage, ConnType
    <2> QED BY <2>1 DEF Moves
  <1>3. CASE RecvEnds
    <2>1. CASE c' = wr_req_invalid(c)
      BY <1>0, <2>1, InvalidTouches, TouchMoves
    <2> QED BY <1>1, <1>3, <2>1 DEF RecvEnds
  <1>4. CASE Written
    <2>1. c.resp # <<>>
      BY <1>4 DEF Written, Idle, ConnInv, Sane, Handle
    <2>2. c'.rq = c.rq
      BY <1>0, <1>4, <2>1, AfterWriteTouches DEF Written
    <2> QED BY <2>2 DEF Moves
  <1>5. CASE ClientGone
    <2>1. c'.rq = c.rq
      BY <1>0, <1>5, CloseTouches DEF ClientGone
    <2> QED BY <2>1 DEF Moves
  <1>6. CASE wr_conn_timeout_cb
    <2>1. CASE c.req = None
      <3>1. c'.rq = c.rq
        BY <1>0, <1>6, <2>1, CloseTouches DEF wr_conn_timeout_cb
      <3> QED BY <3>1 DEF Moves
    <2>2. CASE c.req # None
      <3> DEFINE d == wr_req_free(c, c.req)
      <3>1. c' = wr_conn_close_cb(d)
        BY <1>6, <2>2 DEF wr_conn_timeout_cb
      <3>2. c.req \in Req
        BY <1>0, <2>2 DEF ConnType
      <3>3. d \in Record /\ Touches(c, d)
        BY <1>0, <3>2, ReqFreeTouches
      <3> HIDE DEF d
      <3>4. c'.rq = d.rq
        BY <3>1, <3>3, CloseTouches
      <3> QED BY <1>0, <3>3, <3>4, TouchMoves
    <2> QED BY <2>1, <2>2
  <1>7. CASE Recv \/ UNCHANGED vars
    BY <1>1, <1>7 DEF Recv, vars
  <1>8. CASE wr_new_req_cb \/ HeadRejected \/ wr_headers_complete_cb \/ wr_req_complete_cb
    BY <1>8, ParserMoves
  <1>9. ASSUME NEW o \in Req,
               Assign(o) \/ RespPart(o) \/ RespLast(o) \/ WkrLost(o) \/ HeaderUnsent(o) \/ AppRemoved(o)
        PROVE  Moves(c.rq[r], c'.rq[r])
    BY <1>9, HeadMoves
  <1> QED BY <1>2, <1>3, <1>4, <1>5, <1>6, <1>7, <1>8, <1>9 DEF Next

(* What a connection's callbacks do to a request is a life WrReqLife        *)
(* allows: the one the rest of the head counts on.                          *)
THEOREM ConnImplementsReqLife == Spec => RequestsLive
  <1>1. Init => \A r \in Req : Life(r)!Init
    BY DEF Init, Life!Init, LifeOf
  <1>2. ConnInv /\ [Next]_vars => \A r \in Req : Life(r)!Next \/ UNCHANGED LifeOf(r)
    <2> SUFFICES ASSUME ConnInv, [Next]_vars, NEW r \in Req
                 PROVE  Life(r)!Next \/ UNCHANGED LifeOf(r)
      OBVIOUS
    <2>1. Moves(c.rq[r], c'.rq[r])
      BY StepMoves
    <2>2. c.rq[r] \in ReqType
      BY DEF ConnInv, Sane, ConnType
    <2> QED BY <2>1, <2>2 DEF Moves, Life!Next, Life!Step, LifeOf, ReqType
  <1> QED BY <1>1, <1>2, ConnInvariant, PTL DEF Spec, RequestsLive
=============================================================================
