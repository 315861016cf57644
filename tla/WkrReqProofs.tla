---------------------------- MODULE WkrReqProofs ----------------------------
(***************************************************************************)
(* The request connection of a worker, for every length of headers, bodies *)
(* and buffers, every way to cut the streams and all disturbances.         *)
(*                                                                         *)
(* A part of a message is a run of its bytes (Run).  Both ends take turns: *)
(* the worker is being sent the request, has it, or has answered; what it  *)
(* has and what is on its way down continue one another, and so do what    *)
(* the client was given and what is on its way up.  When the head has lost *)
(* count of a response, it has counted too little and never finds it       *)
(* complete; so the two stay in turn even then.                            *)
(***************************************************************************)
EXTENDS WkrReq, SequenceTheorems, TLAPS

(* A run of bytes of message m, behind its first k bytes. *)
Run(s, m, k) == \A i \in 1..Len(s) : s[i] = [msg |-> m, at |-> k + i]

(* The length of a request, and of a response. *)
ReqLen(q) == ReqHead + size[q].body
AllLen(q) == RespHead + RespLen(q)

-----------------------------------------------------------------------------
LEMMA AddRest == \A a, b \in Nat : a + (b - a) = b
  OBVIOUS

(* Runs and their parts. *)
LEMMA RunJoin ==
  ASSUME NEW T, NEW s \in Seq(T), NEW t \in Seq(T), NEW m, NEW k \in Nat,
         Run(s, m, k), Run(t, m, k + Len(s))
  PROVE  /\ s \o t \in Seq(T) /\ Len(s \o t) = Len(s) + Len(t)
         /\ Run(s \o t, m, k)
  <1>1. /\ s \o t \in Seq(T) /\ Len(s \o t) = Len(s) + Len(t)
        /\ \A i \in 1..(Len(s) + Len(t)) : (s \o t)[i] = IF i <= Len(s) THEN s[i] ELSE t[i - Len(s)]
    BY ConcatProperties
  <1>2. Len(s) \in Nat /\ Len(t) \in Nat
    OBVIOUS
  <1>3. ASSUME NEW i \in 1..Len(s \o t) PROVE (s \o t)[i] = [msg |-> m, at |-> k + i]
    <2>1. CASE i <= Len(s)
      BY <1>1, <1>2, <2>1 DEF Run
    <2>2. CASE ~(i <= Len(s))
      <3>1. i - Len(s) \in 1..Len(t) /\ (s \o t)[i] = t[i - Len(s)] /\ (k + Len(s)) + (i - Len(s)) = k + i
        BY <1>1, <1>2, <2>2
      <3> QED BY <3>1 DEF Run
    <2> QED BY <2>1, <2>2
  <1> QED BY <1>1, <1>3 DEF Run

LEMMA PartType ==
  ASSUME NEW T, NEW s \in Seq(T), NEW a \in Nat, NEW b \in Nat, a <= b, b <= Len(s)
  PROVE  /\ SubSeq(s, a + 1, b) \in Seq(T) /\ Len(SubSeq(s, a + 1, b)) = b - a
         /\ \A i \in 1..(b - a) : SubSeq(s, a + 1, b)[i] = s[a + i]
  <1>1. a + 1 \in Int /\ b \in Int
    OBVIOUS
  <1>2. \A i \in (a + 1)..b : s[i] \in T
    OBVIOUS
  <1>3. /\ SubSeq(s, a + 1, b) \in Seq(T)
        /\ Len(SubSeq(s, a + 1, b)) = IF a + 1 <= b THEN b - (a + 1) + 1 ELSE 0
        /\ \A i \in 1..(b - (a + 1) + 1) : SubSeq(s, a + 1, b)[i] = s[(a + 1) + i - 1]
    BY <1>1, <1>2, SubSeqProperties
  <1>4. b - (a + 1) + 1 = b - a /\ (a + 1 <= b \/ b - a = 0)
    OBVIOUS
  <1>5. \A i \in 1..(b - a) : (a + 1) + i - 1 = a + i
    OBVIOUS
  <1> QED BY <1>3, <1>4, <1>5

LEMMA PartLen ==
  \A T : \A s \in Seq(T) : \A a, b \in Nat : a <= b /\ b <= Len(s) => Len(SubSeq(s, a + 1, b)) = b - a
  BY PartType, Zenon

LEMMA RunPart ==
  ASSUME NEW T, NEW s \in Seq(T), NEW m, NEW k \in Nat, Run(s, m, k),
         NEW a \in Nat, NEW b \in Nat, a <= b, b <= Len(s)
  PROVE  Run(SubSeq(s, a + 1, b), m, k + a)
  <1>1. /\ Len(SubSeq(s, a + 1, b)) = b - a
        /\ \A i \in 1..(b - a) : SubSeq(s, a + 1, b)[i] = s[a + i]
    BY PartType
  <1>2. ASSUME NEW i \in 1..(b - a) PROVE s[a + i] = [msg |-> m, at |-> (k + a) + i]
    <2>1. a + i \in 1..Len(s) /\ k + (a + i) = (k + a) + i
      OBVIOUS
    <2> QED BY <2>1 DEF Run
  <1> QED BY <1>1, <1>2 DEF Run

(* Two runs of the same bytes are the same. *)
LEMMA RunsEqual ==
  ASSUME NEW T, NEW s \in Seq(T), NEW t \in Seq(T), NEW m, NEW k \in Nat,
         Run(s, m, k), Run(t, m, k), Len(s) = Len(t)
  PROVE  s = t
  <1>1. \A i \in 1..Len(s) : s[i] = t[i]
    BY DEF Run
  <1> QED BY <1>1, SeqEqual

LEMMA RunPrefix ==
  ASSUME NEW T, NEW s \in Seq(T), NEW t \in Seq(T), NEW m, NEW k \in Nat,
         Run(s, m, k), Run(t, m, k), Len(s) <= Len(t)
  PROVE  IsPrefixOf(s, t)
  <1> DEFINE u == SubSeq(t, 0 + 1, Len(s))
  <1>1. Len(s) \in Nat /\ 0 \in Nat /\ 0 <= Len(s) /\ k + 0 = k /\ Len(s) - 0 = Len(s)
    OBVIOUS
  <1>2. u \in Seq(T) /\ Len(u) = Len(s) - 0
    BY <1>1, PartType
  <1>3. Run(u, m, k + 0)
    BY <1>1, RunPart
  <1> HIDE DEF u
  <1>4. s = u
    <2>1. Run(u, m, k) /\ Len(u) = Len(s)
      BY <1>1, <1>2, <1>3
    <2> QED BY <1>2, <2>1, RunsEqual
  <1>5. u = SubSeq(t, 1, Len(s))
    BY DEF u
  <1> QED BY <1>4, <1>5 DEF IsPrefixOf

LEMMA NoRun == \A m, k : Run(<<>>, m, k)
  BY DEF Run

(* What recv returns, and what it leaves. *)
LEMMA PieceIs ==
  ASSUME NEW T, NEW s \in Seq(T), NEW room \in Int, NEW p \in Pieces(s, room)
  PROVE  /\ p \in Seq(T) /\ Len(p) \in 1..Len(s) /\ Len(p) <= room /\ p = SubSeq(s, 0 + 1, Len(p))
         /\ Behind(s, Len(p)) \in Seq(T) /\ Len(Behind(s, Len(p))) = Len(s) - Len(p)
  <1>1. PICK n \in 1..(IF Len(s) < room THEN Len(s) ELSE room) : p = SubSeq(s, 1, n)
    BY DEF Pieces
  <1>2. n \in Nat /\ n >= 1 /\ n <= Len(s) /\ n <= room /\ 0 \in Nat /\ 0 <= n /\ n - 0 = n /\ Len(s) \in Nat
    BY <1>1
  <1>3. p \in Seq(T) /\ Len(p) = n
    <2>1. SubSeq(s, 0 + 1, n) \in Seq(T) /\ Len(SubSeq(s, 0 + 1, n)) = n - 0
      BY <1>2, PartType
    <2> QED BY <1>1, <1>2, <2>1
  <1>4. Behind(s, n) \in Seq(T) /\ Len(Behind(s, n)) = Len(s) - n
    <2>1. Len(s) <= Len(s)
      BY <1>2
    <2> QED BY <1>2, <2>1, PartType DEF Behind
  <1> QED BY <1>1, <1>2, <1>3, <1>4

LEMMA PieceRuns ==
  ASSUME NEW T, NEW s \in Seq(T), NEW room \in Int, NEW p \in Pieces(s, room),
         NEW m, NEW k \in Nat, Run(s, m, k)
  PROVE  Run(p, m, k) /\ Run(Behind(s, Len(p)), m, k + Len(p))
  <1>1. /\ p = SubSeq(s, 0 + 1, Len(p)) /\ Len(p) \in Nat /\ Len(p) <= Len(s) /\ Len(s) \in Nat
        /\ 0 \in Nat /\ 0 <= Len(p) /\ k + 0 = k /\ Len(s) <= Len(s)
    BY PieceIs
  <1>2. Run(SubSeq(s, 0 + 1, Len(p)), m, k + 0)
    BY <1>1, RunPart
  <1>3. Run(SubSeq(s, Len(p) + 1, Len(s)), m, k + Len(p))
    BY <1>1, RunPart
  <1> QED BY <1>1, <1>2, <1>3 DEF Behind

-----------------------------------------------------------------------------
(* The messages. *)
Sizes == size \in [Req -> [body : Bodies, content : Contents]]

LEMMA SizeIs ==
  ASSUME Sizes, NEW q \in Req
  PROVE  /\ size[q].body \in Nat /\ size[q].content \in Nat /\ size[q].content \in Contents
         /\ ReqLen(q) \in Nat /\ RespLen(q) \in Nat /\ AllLen(q) \in Nat
         /\ ReqLen(q) >= 2 /\ RespLen(q) >= 2
         /\ ReqHead \in Nat /\ RespHead \in Nat /\ HttpHead \in Nat
         /\ ReqHead >= 2 /\ RespHead >= 2 /\ HttpHead >= 2
  <1>1. size[q].body \in Bodies /\ size[q].content \in Contents
    BY DEF Sizes
  <1>2. size[q].body \in Nat /\ size[q].content \in Nat
    BY <1>1, ReqAssumption
  <1> QED BY <1>1, <1>2, ReqAssumption DEF ReqLen, RespLen, AllLen

LEMMA Messages ==
  ASSUME NEW q \in Req
  PROVE  /\ ReqMsg[q] \in {ReqMsg[r] : r \in Req} /\ MsgHead(ReqMsg[q]) = ReqHead
         /\ RespMsg[q] \in {RespMsg[r] : r \in Req} /\ MsgHead(RespMsg[q]) = RespHead
         /\ RespMsg[q] # ""
         /\ \A r \in Req : ReqMsg[r] = ReqMsg[q] => r = q
         /\ q \in Nat /\ q >= 1
  <1>1. q \in Nat /\ q >= 1
    BY ReqAssumption DEF Req
  <1>2. \A p, r \in Req : /\ ReqMsg[p] # RespMsg[r] /\ RespMsg[p] # ""
                          /\ p # r => ReqMsg[p] # ReqMsg[r]
    BY MsgAssumption, Zenon DEF Req
  <1>3. MsgHead(ReqMsg[q]) = ReqHead
    BY DEF MsgHead
  <1>4. RespMsg[q] \notin {ReqMsg[r] : r \in Req} /\ RespMsg[q] # ""
    BY <1>2
  <1>5. \A r \in Req : ReqMsg[r] = ReqMsg[q] => r = q
    BY <1>2
  <1>6. ReqMsg[q] \in {ReqMsg[r] : r \in Req} /\ RespMsg[q] \in {RespMsg[r] : r \in Req}
    OBVIOUS
  <1>7. MsgHead(RespMsg[q]) = RespHead
    BY <1>4 DEF MsgHead
  <1> QED BY <1>1, <1>3, <1>4, <1>5, <1>6, <1>7, Zenon

LEMMA RequestIs ==
  ASSUME Sizes, NEW q \in Req
  PROVE  /\ Request(q) \in Seq(ByteOf(ReqMsg)) /\ Len(Request(q)) = ReqLen(q)
         /\ Run(Request(q), ReqMsg[q], 0)
  <1>1. ReqLen(q) \in Nat /\ ReqLen(q) = ReqHead + size[q].body
    BY SizeIs DEF ReqLen
  <1>2. Request(q) = [i \in 1..ReqLen(q) |-> [msg |-> ReqMsg[q], at |-> i]]
    BY <1>1, Messages DEF Request, scgi_build
  <1>3. ASSUME NEW i \in 1..ReqLen(q) PROVE [msg |-> ReqMsg[q], at |-> i] \in ByteOf(ReqMsg)
    <2>1. i \in Nat \ {0} /\ ReqMsg[q] \in {ReqMsg[r] : r \in Req}
      BY <1>1
    <2> QED BY <2>1 DEF ByteOf
  <1>4. Request(q) \in Seq(ByteOf(ReqMsg)) /\ Len(Request(q)) = ReqLen(q)
    BY <1>1, <1>2, <1>3
  <1>5. \A i \in 1..ReqLen(q) : Request(q)[i] = [msg |-> ReqMsg[q], at |-> 0 + i]
    BY <1>1, <1>2
  <1> QED BY <1>4, <1>5 DEF Run

LEMMA ResponseIs ==
  ASSUME Sizes, NEW q \in Req
  PROVE  /\ Response(q) \in Seq(ByteOf(RespMsg)) /\ Len(Response(q)) = AllLen(q)
         /\ Run(Response(q), RespMsg[q], 0)
  <1>1. AllLen(q) \in Nat /\ AllLen(q) = RespHead + (HttpHead + size[q].content)
    BY SizeIs DEF AllLen, RespLen
  <1>2. Response(q) = [i \in 1..AllLen(q) |-> [msg |-> RespMsg[q], at |-> i]]
    BY <1>1, Messages DEF Response, scgi_build
  <1>3. ASSUME NEW i \in 1..AllLen(q) PROVE [msg |-> RespMsg[q], at |-> i] \in ByteOf(RespMsg)
    <2>1. i \in Nat \ {0} /\ RespMsg[q] \in {RespMsg[r] : r \in Req}
      BY <1>1
    <2> QED BY <2>1 DEF ByteOf
  <1>4. Response(q) \in Seq(ByteOf(RespMsg)) /\ Len(Response(q)) = AllLen(q)
    BY <1>1, <1>2, <1>3
  <1>5. \A i \in 1..AllLen(q) : Response(q)[i] = [msg |-> RespMsg[q], at |-> 0 + i]
    BY <1>1, <1>2
  <1> QED BY <1>4, <1>5 DEF Run

LEMMA PayloadIs ==
  ASSUME Sizes, NEW q \in Req
  PROVE  /\ Payload(q) \in Seq(ByteOf(RespMsg)) /\ Len(Payload(q)) = RespLen(q)
         /\ Run(Payload(q), RespMsg[q], RespHead)
  <1>1. /\ Response(q) \in Seq(ByteOf(RespMsg)) /\ Len(Response(q)) = AllLen(q)
        /\ Run(Response(q), RespMsg[q], 0)
    BY ResponseIs
  <1>2. /\ RespHead \in Nat /\ AllLen(q) \in Nat /\ RespHead <= AllLen(q) /\ AllLen(q) - RespHead = RespLen(q)
        /\ 0 \in Nat /\ 0 + RespHead = RespHead
    BY SizeIs DEF AllLen
  <1>3. AllLen(q) <= Len(Response(q)) /\ Payload(q) = SubSeq(Response(q), RespHead + 1, AllLen(q))
    BY <1>1, <1>2 DEF Payload, Behind
  <1>4. Payload(q) \in Seq(ByteOf(RespMsg)) /\ Len(Payload(q)) = AllLen(q) - RespHead
    BY <1>1, <1>2, <1>3, PartType
  <1>5. Run(Payload(q), RespMsg[q], 0 + RespHead)
    BY <1>1, <1>2, <1>3, RunPart
  <1> QED BY <1>2, <1>4, <1>5

-----------------------------------------------------------------------------
(***************************************************************************)
(* The invariant.                                                          *)
(***************************************************************************)

(* How much of the request the head has sent. *)
HeadSent ==
  CASE head.cb = "header" -> head.sent
    [] head.cb = "upload" -> ReqHead + head.sent
    [] OTHER -> ReqLen(head.req)

(* The request is coming: what the worker has and what is on its way are   *)
(* all that the head has sent of it, and the worker has not all of it.     *)
Reading == wkr.cb \in {"header", "body", "file"}
Coming ==
  /\ Reading /\ head.req \in Req /\ head.cb \in {"header", "upload", "length", "lost"}
  /\ Run(wkr.buf, ReqMsg[head.req], 0) /\ Run(down, ReqMsg[head.req], Len(wkr.buf))
  /\ Len(wkr.buf) + Len(down) <= ReqLen(head.req)
  /\ HeadOpen => Len(wkr.buf) + Len(down) = HeadSent
  /\ Len(wkr.buf) < ReqLen(head.req)
  /\ wkr.cb \in {"body", "file"} => wkr.req = head.req /\ Len(wkr.buf) >= ReqHead

(* The worker has it. *)
Has ==
  /\ wkr.cb \in {"app", "scgi", "http", "content"} /\ head.cb \in {"length", "body", "lost"}
  /\ wkr.req = head.req /\ down = <<>>
  /\ wkr.cb = "app" => Run(wkr.buf, ReqMsg[head.req], 0) /\ Len(wkr.buf) = ReqLen(head.req)
  /\ wkr.cb \in {"scgi", "http"} => wkr.sent = 0
  /\ wkr.cb = "content" => wkr.sent < size[wkr.req].content

(* The worker has answered, or has not been asked. *)
Over ==
  /\ wkr.cb = "header" /\ wkr.buf = <<>> /\ down = <<>>
  /\ head.cb \in {"length", "body", "idle", "lost"}

Turn == Alive => Coming \/ Has \/ Over

(* How much of the response the worker has sent, if it lives, and how much *)
(* of it the head has passed by, at least.                                 *)
WkrSent ==
  CASE ~Alive \/ Over -> AllLen(head.req)
    [] Alive /\ ~Over /\ wkr.cb = "http" -> RespHead
    [] Alive /\ ~Over /\ wkr.cb = "content" -> RespHead + HttpHead + wkr.sent
    [] OTHER -> 0
Heard == IF head.cb = "body" THEN RespHead + head.received ELSE 0

(* The head's request. *)
Asking ==
  /\ head.cb \in {"header", "upload", "length", "body"} => head.req \in Req
  /\ head.cb = "header" => head.sent \in {0, ReqHead} /\ head.sent < Len(Scgi(head.req))
  /\ head.cb = "upload" => InFile(head.req) /\ head.sent < size[head.req].body
  /\ head.cb \in {"header", "upload"} => head.received = 0 /\ head.buf = <<>>

(* Its response: as much as is missing is still to come, or less. *)
Hearing ==
  /\ head.cb = "length" => head.received <= Len(head.buf)
  /\ head.cb = "body" => head.len = RespLen(head.req) /\ head.received < head.len
  /\ head.cb \in {"idle", "header", "upload"} => up = <<>>
  /\ head.cb \in {"length", "body"} => Heard + Len(up) <= WkrSent

(* And, undisturbed, exactly as much, the very bytes. *)
Counted == ~May("split") /\ ~May("byte")
Passed(q) == Run(given[q], RespMsg[q], RespHead) /\ Len(given[q]) = RespLen(q)
Intact ==
  Counted =>
    /\ head.cb = "length" => Run(up, RespMsg[head.req], 0) /\ head.received = 0 /\ head.buf = <<>>
    /\ head.cb = "body" => /\ Run(given[head.req], RespMsg[head.req], RespHead)
                           /\ Len(given[head.req]) = head.received
                           /\ Run(up, RespMsg[head.req], RespHead + head.received)
    /\ (Alive /\ head.cb \in {"length", "body"}) => Heard + Len(up) = WkrSent
    /\ head.cb \in {"header", "upload", "length"} => given[head.req] = <<>>
    /\ \A q \in Req : q > head.req => given[q] = <<>>
    /\ \A q \in Req : (q < head.req \/ (q = head.req /\ head.cb = "idle")) => Passed(q)

ReqInv == TypeOK /\ Turn /\ Asking /\ Hearing /\ Intact

(* The types, part by part. *)
HeadType == [cb : {"idle", "header", "upload", "length", "body", "lost"},
             req : 0..NReq, sent : Nat, buf : Seq(ByteOf(RespMsg)), received : Nat,
             len : {0} \cup {HttpHead + n : n \in Contents}]
WkrType == [cb : {"header", "body", "file", "app", "scgi", "http", "content", "gone"},
            req : Req, buf : Seq(ByteOf(ReqMsg)), sent : Nat, env : Environments]

LEMMA TypeParts ==
  /\ TypeOK <=> /\ head \in HeadType /\ wkr \in WkrType
                /\ down \in Seq(ByteOf(ReqMsg)) /\ up \in Seq(ByteOf(RespMsg))
                /\ Sizes /\ given \in [Req -> Seq(ByteOf(RespMsg))]
  /\ TypeOK' <=> /\ head' \in HeadType /\ wkr' \in WkrType
                 /\ down' \in Seq(ByteOf(ReqMsg)) /\ up' \in Seq(ByteOf(RespMsg))
                 /\ Sizes' /\ given' \in [Req -> Seq(ByteOf(RespMsg))]
  BY DEF TypeOK, HeadType, WkrType, Sizes

LEMMA Typed ==
  ASSUME TypeOK
  PROVE  /\ wkr.buf \in Seq(ByteOf(ReqMsg)) /\ down \in Seq(ByteOf(ReqMsg)) /\ up \in Seq(ByteOf(RespMsg))
         /\ head.buf \in Seq(ByteOf(RespMsg)) /\ Sizes /\ wkr.sent \in Nat /\ head.sent \in Nat
         /\ head.received \in Nat /\ head.req \in 0..NReq /\ wkr.req \in Req
         /\ Len(wkr.buf) \in Nat /\ Len(down) \in Nat /\ Len(up) \in Nat /\ Len(head.buf) \in Nat
         /\ head.cb \in {"idle", "header", "upload", "length", "body", "lost"}
         /\ wkr.cb \in {"header", "body", "file", "app", "scgi", "http", "content", "gone"}
  <1>1. /\ wkr.buf \in Seq(ByteOf(ReqMsg)) /\ down \in Seq(ByteOf(ReqMsg)) /\ up \in Seq(ByteOf(RespMsg))
        /\ head.buf \in Seq(ByteOf(RespMsg))
    BY DEF TypeOK
  <1>2. /\ Sizes /\ wkr.sent \in Nat /\ head.sent \in Nat
        /\ head.received \in Nat /\ head.req \in 0..NReq /\ wkr.req \in Req
        /\ head.cb \in {"idle", "header", "upload", "length", "body", "lost"}
        /\ wkr.cb \in {"header", "body", "file", "app", "scgi", "http", "content", "gone"}
    BY DEF TypeOK, Sizes
  <1>3. Len(wkr.buf) \in Nat /\ Len(down) \in Nat /\ Len(up) \in Nat /\ Len(head.buf) \in Nat
    BY <1>1
  <1> QED BY <1>1, <1>2, <1>3

(* WkrSent, by turns. *)
LEMMA SentIs ==
  ASSUME TypeOK, Turn, head.req \in Req
  PROVE  /\ WkrSent \in Nat /\ WkrSent <= AllLen(head.req)
         /\ (~Alive \/ Over) => WkrSent = AllLen(head.req)
         /\ (Alive /\ Coming /\ head.cb = "length") => WkrSent = 0
         /\ (Alive /\ Has) => WkrSent < AllLen(head.req)
         /\ (Alive /\ Has /\ wkr.cb \in {"app", "scgi"}) => WkrSent = 0
         /\ (Alive /\ Has /\ wkr.cb = "http") => WkrSent = RespHead
         /\ (Alive /\ Has /\ wkr.cb = "content") => WkrSent = RespHead + HttpHead + wkr.sent
  <1>1. /\ Sizes /\ wkr.sent \in Nat
        /\ wkr.cb \in {"header", "body", "file", "app", "scgi", "http", "content", "gone"}
    BY Typed
  <1>2. /\ AllLen(head.req) \in Nat /\ AllLen(head.req) = RespHead + HttpHead + size[head.req].content
        /\ AllLen(head.req) > 0 /\ RespHead \in Nat /\ HttpHead \in Nat /\ HttpHead >= 2 /\ size[head.req].content \in Nat
        /\ ReqLen(head.req) > 0
    BY <1>1, SizeIs DEF AllLen, RespLen
  <1>3. CASE ~Alive \/ Over
    <2>1. WkrSent = AllLen(head.req)
      BY <1>3 DEF WkrSent
    <2>2. (Alive /\ Coming /\ head.cb = "length") => FALSE
      <3> SUFFICES ASSUME Alive, Coming, head.cb = "length", Over PROVE FALSE
        BY <1>3
      <3>1. HeadSent = ReqLen(head.req) /\ Len(wkr.buf) + Len(down) = HeadSent
        BY DEF Coming, HeadOpen, HeadSent
      <3>2. Len(wkr.buf) = 0 /\ Len(down) = 0
        BY DEF Over
      <3> QED BY <1>2, <3>1, <3>2
    <2>3. (Alive /\ Has) => FALSE
      BY <1>3 DEF Has, Over
    <2> QED BY <1>2, <2>1, <2>2, <2>3
  <1>4. CASE Alive /\ ~Over
    <2>1. CASE Coming
      <3>1. WkrSent = 0 /\ ~Has
        BY <1>4, <2>1 DEF Coming, Reading, Has, WkrSent
      <3> QED BY <1>2, <1>4, <3>1
    <2>2. CASE Has
      <3>1. ~Coming
        BY <2>2 DEF Has, Coming, Reading
      <3>2. CASE wkr.cb = "content"
        <4>1. WkrSent = RespHead + HttpHead + wkr.sent /\ wkr.sent < size[head.req].content
          BY <1>4, <2>2, <3>2 DEF WkrSent, Has
        <4>2. WkrSent \in Nat /\ WkrSent < AllLen(head.req)
          BY <1>1, <1>2, <4>1
        <4>3. WkrSent <= AllLen(head.req)
          BY <1>2, <4>2
        <4> QED BY <1>4, <3>1, <3>2, <4>1, <4>2, <4>3
      <3>3. CASE wkr.cb = "http"
        <4>1. WkrSent = RespHead
          BY <1>4, <3>3 DEF WkrSent
        <4>2. RespHead < AllLen(head.req)
          BY <1>2
        <4> QED BY <1>2, <1>4, <3>1, <3>3, <4>1, <4>2
      <3>4. CASE wkr.cb \in {"app", "scgi"}
        <4>1. WkrSent = 0
          BY <1>4, <3>4 DEF WkrSent
        <4> QED BY <1>2, <1>4, <3>1, <3>4, <4>1
      <3> QED BY <2>2, <3>2, <3>3, <3>4 DEF Has
    <2> QED BY <1>4, <2>1, <2>2 DEF Turn
  <1> QED BY <1>3, <1>4

(* And in the next state. *)
SentFacts ==
  /\ WkrSent \in Nat /\ WkrSent <= AllLen(head.req)
  /\ (~Alive \/ Over) => WkrSent = AllLen(head.req)
  /\ (Alive /\ Coming /\ head.cb = "length") => WkrSent = 0
  /\ (Alive /\ Has) => WkrSent < AllLen(head.req)
  /\ (Alive /\ Has /\ wkr.cb \in {"app", "scgi"}) => WkrSent = 0
  /\ (Alive /\ Has /\ wkr.cb = "http") => WkrSent = RespHead
  /\ (Alive /\ Has /\ wkr.cb = "content") => WkrSent = RespHead + HttpHead + wkr.sent
SentBasis == TypeOK /\ Turn /\ head.req \in Req

LEMMA SentNow == SentBasis => SentFacts
  BY SentIs DEF SentBasis, SentFacts

LEMMA SentThen == SentBasis' => SentFacts'
  BY SentNow, PTL

LEMMA InitReq == Init => ReqInv
  <1> SUFFICES ASSUME Init PROVE ReqInv
    OBVIOUS
  <1>1. PICK e \in Environments :
           wkr = [cb |-> "header", req |-> 1, buf |-> <<>>, sent |-> 0, env |-> e]
    BY DEF Init
  <1>2. /\ head = [cb |-> "idle", req |-> 0, sent |-> 0, buf |-> <<>>, received |-> 0, len |-> 0]
        /\ down = <<>> /\ up = <<>> /\ size \in [Req -> [body : Bodies, content : Contents]]
        /\ given = [r \in Req |-> <<>>]
    BY DEF Init
  <1>3. 1 \in Req /\ 0 \in 0..NReq /\ \A q \in Req : ~(q < 0) /\ q # 0
    BY ReqAssumption DEF Req
  <1>4. TypeOK
    BY <1>1, <1>2, <1>3 DEF TypeOK
  <1>5. Turn /\ Asking /\ Hearing
    BY <1>1, <1>2 DEF Turn, Over, Asking, Hearing
  <1>6. Intact
    BY <1>2, <1>3 DEF Intact
  <1> QED BY <1>4, <1>5, <1>6 DEF ReqInv

(* What the runs check follows. *)
LEMMA InvIsWhole == ReqInv => RequestWhole
  <1> SUFFICES ASSUME ReqInv, wkr.cb = "app" PROVE wkr.buf = Request(wkr.req)
    BY DEF RequestWhole
  <1>1. Has
    BY DEF ReqInv, Turn, Alive, Coming, Reading, Over
  <1>2. TypeOK /\ Sizes /\ wkr.req \in Req /\ wkr.buf \in Seq(ByteOf(ReqMsg))
    BY Typed DEF ReqInv
  <1>3. Run(wkr.buf, ReqMsg[wkr.req], 0) /\ Len(wkr.buf) = ReqLen(wkr.req)
    BY <1>1 DEF Has
  <1>4. /\ Request(wkr.req) \in Seq(ByteOf(ReqMsg)) /\ Len(Request(wkr.req)) = ReqLen(wkr.req)
        /\ Run(Request(wkr.req), ReqMsg[wkr.req], 0)
    BY <1>2, RequestIs
  <1> QED BY <1>2, <1>3, <1>4, RunsEqual

LEMMA PassedIs ==
  ASSUME TypeOK, NEW q \in Req, Passed(q)
  PROVE  given[q] = Payload(q)
  <1>1. Sizes /\ given[q] \in Seq(ByteOf(RespMsg)) /\ RespHead \in Nat
    BY Typed, ReqAssumption DEF TypeOK
  <1>2. /\ Payload(q) \in Seq(ByteOf(RespMsg)) /\ Len(Payload(q)) = RespLen(q)
        /\ Run(Payload(q), RespMsg[q], RespHead)
    BY <1>1, PayloadIs
  <1> QED BY <1>1, <1>2, RunsEqual DEF Passed

LEMMA InvIsIntact == ReqInv => ResponseIntact
  <1> SUFFICES ASSUME ReqInv, Counted PROVE ResponseIntact
    BY DEF ResponseIntact, Counted
  <1>1. TypeOK
    BY DEF ReqInv
  <1>2. ASSUME head.cb = "body" PROVE IsPrefixOf(given[head.req] \o up, Payload(head.req))
    <2> DEFINE r == head.req
               T == ByteOf(RespMsg)
    <2>1. r \in Req
      BY <1>2 DEF ReqInv, Asking
    <2>2. Sizes /\ given[r] \in Seq(T) /\ up \in Seq(T) /\ RespHead \in Nat /\ head.received \in Nat /\ Len(up) \in Nat
      BY <1>1, <2>1, Typed, ReqAssumption DEF TypeOK
    <2>3. /\ Run(given[r], RespMsg[r], RespHead) /\ Len(given[r]) = head.received
          /\ Run(up, RespMsg[r], RespHead + head.received)
      BY <1>2 DEF ReqInv, Intact
    <2>4. /\ Payload(r) \in Seq(T) /\ Len(Payload(r)) = RespLen(r)
          /\ Run(Payload(r), RespMsg[r], RespHead)
      BY <2>1, <2>2, PayloadIs
    <2> HIDE DEF r, T
    <2>5. /\ given[r] \o up \in Seq(T) /\ Len(given[r] \o up) = Len(given[r]) + Len(up)
          /\ Run(given[r] \o up, RespMsg[r], RespHead)
      BY <2>2, <2>3, RunJoin
    <2>6. head.received + Len(up) <= RespLen(r)
      <3>1. RespHead + head.received + Len(up) <= WkrSent /\ WkrSent <= AllLen(r) /\ WkrSent \in Nat
        BY <1>1, <1>2, <2>1, SentIs DEF r, ReqInv, Hearing, Heard
      <3>2. RespLen(r) \in Nat /\ AllLen(r) = RespHead + RespLen(r)
        BY <2>1, <2>2, SizeIs DEF AllLen
      <3> QED BY <2>2, <3>1, <3>2
    <2>7. Len(given[r] \o up) <= Len(Payload(r))
      BY <2>3, <2>4, <2>5, <2>6
    <2> QED BY <2>2, <2>4, <2>5, <2>7, RunPrefix DEF r
  <1>3. \A q \in Req : q < head.req \/ (q = head.req /\ head.cb = "idle") => given[q] = Payload(q)
    BY <1>1, PassedIs DEF ReqInv, Intact
  <1> QED BY <1>2, <1>3 DEF ResponseIntact

LEMMA InvIsInStep == ReqInv => InStep
  BY DEF ReqInv, Turn, Coming, Has, Over, Hearing, InStep

-----------------------------------------------------------------------------
(* The head takes the next request, or loses the worker. *)

(* The SCGI message: a large body is not in it. *)
LEMMA ScgiIs ==
  ASSUME Sizes, NEW q \in Req
  PROVE  /\ Scgi(q) \in Seq(ByteOf(ReqMsg)) /\ Run(Scgi(q), ReqMsg[q], 0)
         /\ Len(Scgi(q)) = IF InFile(q) THEN ReqHead ELSE ReqLen(q)
         /\ Len(Scgi(q)) \in Nat /\ Len(Scgi(q)) >= ReqHead
  <1>1. /\ Request(q) \in Seq(ByteOf(ReqMsg)) /\ Len(Request(q)) = ReqLen(q)
        /\ Run(Request(q), ReqMsg[q], 0)
    BY RequestIs
  <1>2. /\ ReqHead \in Nat /\ ReqLen(q) \in Nat /\ ReqHead <= ReqLen(q) /\ ReqHead >= 2
        /\ 0 \in Nat /\ 0 <= ReqHead /\ 0 + 0 = 0 /\ ReqHead - 0 = ReqHead
    BY SizeIs DEF ReqLen
  <1>3. CASE InFile(q)
    <2>1. Scgi(q) = SubSeq(Request(q), 0 + 1, ReqHead)
      <3>1. Scgi(q) = SubSeq(Request(q), 1, ReqHead)
        BY <1>3, Zenon DEF Scgi
      <3>2. 1 = 0 + 1
        OBVIOUS
      <3> QED BY <3>1, <3>2, Zenon
    <2>2. Scgi(q) \in Seq(ByteOf(ReqMsg)) /\ Len(Scgi(q)) = ReqHead - 0
      BY <1>1, <1>2, <2>1, PartType
    <2>3. Run(Scgi(q), ReqMsg[q], 0 + 0)
      BY <1>1, <1>2, <2>1, RunPart
    <2> QED BY <1>2, <1>3, <2>2, <2>3
  <1>4. CASE ~InFile(q)
    <2>1. Scgi(q) = Request(q)
      BY <1>4 DEF Scgi
    <2> QED BY <1>1, <1>2, <1>4, <2>1
  <1> QED BY <1>3, <1>4

(* What depends on the sizes alone. *)
LEMMA SizesStay ==
  ASSUME size' = size, NEW q
  PROVE  /\ ReqLen(q)' = ReqLen(q) /\ AllLen(q)' = AllLen(q) /\ RespLen(q)' = RespLen(q)
         /\ Scgi(q)' = Scgi(q) /\ InFile(q)' = InFile(q) /\ Request(q)' = Request(q)
  <1>1. /\ ReqLen(q)' = ReqLen(q) /\ AllLen(q)' = AllLen(q) /\ RespLen(q)' = RespLen(q)
        /\ InFile(q)' = InFile(q)
    BY DEF ReqLen, AllLen, RespLen, InFile
  <1>2. Request(q)' = Request(q)
    BY DEF Request
  <1>3. Scgi(q)' = Scgi(q)
    BY <1>1, <1>2 DEF Scgi
  <1> QED BY <1>1, <1>2, <1>3

LEMMA LostStep ==
  ASSUME ReqInv, Lost
  PROVE  ReqInv'
  <1>1. /\ head' = [head EXCEPT !.cb = "lost"]
        /\ wkr' = wkr /\ down' = down /\ up' = up /\ size' = size /\ given' = given
    BY DEF Lost
  <1>2. TypeOK /\ head \in HeadType
    BY TypeParts DEF ReqInv
  <1>3. head' \in HeadType /\ head'.cb = "lost" /\ head'.req = head.req
    BY <1>1, <1>2 DEF HeadType
  <1>4. TypeOK'
    BY <1>1, <1>2, <1>3, TypeParts DEF Sizes
  <1>5. Turn'
    <2>1. Alive' = Alive /\ (Coming => Coming') /\ (Has => Has') /\ (Over => Over')
      BY <1>1, <1>3 DEF Alive, Coming, Reading, Has, Over, HeadOpen, ReqLen
    <2> QED BY <2>1 DEF ReqInv, Turn
  <1>6. Asking' /\ Hearing'
    BY <1>3 DEF Asking, Hearing
  <1>7. Intact'
    <2>1. Counted' = Counted /\ \A q \in Req : Passed(q) => Passed(q)'
      BY <1>1 DEF Counted, May, Passed, RespLen
    <2> QED BY <1>1, <1>3, <2>1 DEF ReqInv, Intact
  <1> QED BY <1>4, <1>5, <1>6, <1>7 DEF ReqInv

LEMMA GoneStep ==
  ASSUME ReqInv, Gone
  PROVE  ReqInv'
  <1>1. /\ wkr' = [wkr EXCEPT !.cb = "gone"]
        /\ head' = head /\ down' = down /\ up' = up /\ size' = size /\ given' = given
    BY DEF Gone
  <1>2. TypeOK /\ wkr \in WkrType
    BY TypeParts DEF ReqInv
  <1>3. wkr' \in WkrType /\ wkr'.cb = "gone" /\ wkr'.env = wkr.env
    BY <1>1, <1>2 DEF WkrType
  <1>4. TypeOK'
    BY <1>1, <1>2, <1>3, TypeParts DEF Sizes
  <1>5. ~Alive'
    BY <1>3 DEF Alive
  <1>6. Turn'
    BY <1>5 DEF Turn
  <1>7. Asking'
    BY <1>1, SizesStay DEF ReqInv, Asking
  <1>8. Hearing'
    <2>1. ASSUME head.cb \in {"length", "body"} PROVE Heard' + Len(up') <= WkrSent'
      <3>1. head.req \in Req
        BY <2>1 DEF ReqInv, Asking
      <3>2. WkrSent \in Nat /\ WkrSent <= AllLen(head.req) /\ Heard + Len(up) <= WkrSent
        BY <1>2, <2>1, <3>1, SentIs DEF ReqInv, Hearing
      <3>3. WkrSent' = AllLen(head.req) /\ Heard' = Heard
        BY <1>1, <1>5 DEF WkrSent, AllLen, RespLen, Heard
      <3>4. AllLen(head.req) \in Nat /\ Heard \in Nat /\ Len(up) \in Nat
        <4>1. Sizes /\ head.received \in Nat /\ Len(up) \in Nat
          BY <1>2, Typed
        <4>2. AllLen(head.req) \in Nat /\ RespHead \in Nat
          BY <3>1, <4>1, SizeIs
        <4> QED BY <4>1, <4>2 DEF Heard
      <3> QED BY <1>1, <3>2, <3>3, <3>4
    <2>2. RespLen(head.req)' = RespLen(head.req)
      BY <1>1 DEF RespLen
    <2> QED BY <1>1, <2>1, <2>2 DEF ReqInv, Hearing
  <1>9. Intact'
    <2>1. Counted' = Counted /\ \A q \in Req : Passed(q) => Passed(q)'
      BY <1>1, <1>3 DEF Counted, May, Passed, RespLen
    <2> QED BY <1>1, <1>5, <2>1 DEF ReqInv, Intact
  <1> QED BY <1>4, <1>6, <1>7, <1>8, <1>9 DEF ReqInv

LEMMA ProcessingStep ==
  ASSUME ReqInv, wr_wkr_req_processing
  PROVE  ReqInv'
  <1>1. /\ head' = [cb |-> "header", req |-> head.req + 1, sent |-> 0,
                    buf |-> <<>>, received |-> 0, len |-> 0]
        /\ wkr' = wkr /\ down' = down /\ up' = up /\ size' = size /\ given' = given
        /\ head.cb = "idle" /\ head.req < NReq
    BY DEF wr_wkr_req_processing
  <1>2. TypeOK /\ Sizes /\ head.req \in 0..NReq
    BY Typed DEF ReqInv
  <1>3. head.req + 1 \in Req /\ head.req \in Nat /\ head.req + 1 \in 0..NReq
    BY <1>1, <1>2, ReqAssumption DEF Req
  <1>4. head' \in HeadType
    BY <1>1, <1>3 DEF HeadType
  <1>5. TypeOK'
    BY <1>1, <1>2, <1>4, TypeParts DEF Sizes
  <1> PICK r \in Req : r = head.req + 1
    BY <1>3
  <1>6. /\ head'.cb = "header" /\ head'.req = r /\ head'.sent = 0 /\ head'.buf = <<>> /\ head'.received = 0
    BY <1>1
  <1>7. ReqLen(r) \in Nat /\ ReqLen(r) >= 2 /\ Len(Scgi(r)) \in Nat /\ Len(Scgi(r)) >= 2
    BY <1>2, <1>3, SizeIs, ScgiIs
  <1>8. /\ ReqLen(r)' = ReqLen(r) /\ Scgi(r)' = Scgi(r)
    BY <1>1, SizesStay
  <1>9. Turn'
    <2> SUFFICES ASSUME Alive' PROVE Coming'
      BY DEF Turn
    <2>1. Over
      BY <1>1 DEF ReqInv, Turn, Coming, Has, Alive
    <2>2. wkr'.cb = "header" /\ wkr'.buf = <<>> /\ down' = <<>> /\ Len(<<>>) = 0
      BY <1>1, <2>1 DEF Over
    <2>3. ReqLen(head.req)' = ReqLen(r)
      BY <1>6, <1>8 DEF ReqLen
    <2>4. HeadSent' = 0
      BY <1>6 DEF HeadSent
    <2>5. Run(wkr'.buf, ReqMsg[head'.req], 0) /\ Run(down', ReqMsg[head'.req], Len(wkr'.buf))
      BY <2>2, NoRun
    <2> QED BY <1>6, <1>7, <2>2, <2>3, <2>4, <2>5 DEF Coming, Reading
  <1>10. Asking'
    <2>1. Scgi(head.req)' = Scgi(r)
      BY <1>6, <1>8 DEF Scgi, InFile, Request
    <2>2. 0 < Len(Scgi(r)) /\ r \in Req
      BY <1>3, <1>7
    <2> QED BY <1>6, <2>1, <2>2 DEF Asking
  <1>11. Hearing'
    BY <1>1 DEF ReqInv, Hearing
  <1>12. Intact'
    <2> SUFFICES ASSUME Counted' PROVE Intact'
      BY DEF Intact
    <2>1. Counted
      BY <1>1 DEF Counted, May
    <2>2. \A q \in Req : Passed(q) => Passed(q)'
      BY <1>1 DEF Passed, RespLen
    <2>3. \A q \in Req : q \in Nat /\ (q < r => q < head.req \/ q = head.req) /\ (q > r => q > head.req)
      BY <1>3 DEF Req
    <2>4. r \in Req /\ r > head.req
      BY <1>3
    <2>5. /\ \A q \in Req : q > head.req => given[q] = <<>>
          /\ \A q \in Req : (q < head.req \/ q = head.req) => Passed(q)
      BY <1>1, <2>1 DEF ReqInv, Intact
    <2>6. \A q \in Req : q > r => given'[q] = <<>>
      BY <1>1, <2>3, <2>5
    <2>7. \A q \in Req : q < r => Passed(q)'
      BY <2>2, <2>3, <2>5
    <2>8. given'[r] = <<>>
      BY <1>1, <2>4, <2>5
    <2> QED BY <1>6, <2>6, <2>7, <2>8 DEF Intact
  <1> QED BY <1>5, <1>9, <1>10, <1>11, <1>12 DEF ReqInv

-----------------------------------------------------------------------------
(* The head sends the request. *)

(* The next bytes of the request are added to the stream. *)
LEMMA SendStep ==
  ASSUME ReqInv, Coming, head.cb \in {"header", "upload"},
         NEW chunk \in Seq(ByteOf(ReqMsg)), Run(chunk, ReqMsg[head.req], HeadSent),
         down' = down \o chunk, wkr' = wkr, up' = up, size' = size, given' = given,
         head' \in HeadType, head'.req = head.req, head'.received = head.received, head'.buf = head.buf,
         head'.cb \in {"header", "upload", "length"}, HeadSent \in Nat,
         HeadSent' = HeadSent + Len(chunk), HeadSent' <= ReqLen(head.req), Asking'
  PROVE  ReqInv'
  <1>1. PICK r \in Req : r = head.req
    BY DEF Coming
  <1> DEFINE T == ByteOf(ReqMsg)
  <1>2. /\ TypeOK /\ Sizes /\ wkr.buf \in Seq(T) /\ down \in Seq(T)
        /\ Len(wkr.buf) \in Nat /\ Len(down) \in Nat
    BY Typed DEF ReqInv
  <1>3. /\ Run(down, ReqMsg[r], Len(wkr.buf)) /\ Len(wkr.buf) + Len(down) = HeadSent /\ HeadOpen
    BY <1>1 DEF Coming, HeadOpen
  <1>4. /\ down' \in Seq(T) /\ Len(down') = Len(down) + Len(chunk) /\ Run(down', ReqMsg[r], Len(wkr.buf))
    BY <1>1, <1>2, <1>3, RunJoin
  <1>5. Len(chunk) \in Nat /\ Len(down') \in Nat
    BY <1>4
  <1> HIDE DEF T
  <1>6. TypeOK'
    BY <1>2, <1>4, TypeParts DEF T, Sizes
  <1>7. ReqLen(head.req)' = ReqLen(r) /\ ReqLen(r) \in Nat /\ ReqLen(r) >= 2
    BY <1>1, <1>2, SizeIs DEF ReqLen
  <1>8. Coming'
    <2>1. Len(wkr.buf) + Len(down') = HeadSent'
      <3>1. (Len(wkr.buf) + Len(down)) + Len(chunk) = Len(wkr.buf) + (Len(down) + Len(chunk))
        <4> DEFINE x == Len(wkr.buf)
                   y == Len(down)
                   z == Len(chunk)
        <4>1. x \in Nat /\ y \in Nat /\ z \in Nat
          BY <1>2, <1>5, Zenon
        <4> HIDE DEF x, y, z
        <4>2. (x + y) + z = x + (y + z)
          BY <4>1
        <4> QED BY <4>2, Zenon DEF x, y, z
      <3> QED BY <1>3, <1>4, <3>1, Zenon
    <2> QED BY <1>1, <1>3, <1>4, <1>7, <2>1 DEF Coming, Reading
  <1>9. Turn'
    BY <1>8 DEF Turn
  <1>10. up = <<>> /\ Len(up) = 0 /\ head.received = 0 /\ head.buf = <<>> /\ Len(head.buf) = 0
    BY DEF ReqInv, Hearing, Asking
  <1>11. Alive'
    BY DEF Coming, Reading, Alive
  <1>12. head'.cb = "length" => WkrSent' = 0
    <2>1. SentFacts'
      BY <1>1, <1>6, <1>9, SentThen DEF SentBasis
    <2> QED BY <1>8, <1>11, <2>1 DEF SentFacts
  <1>13. Heard' = 0
    BY DEF Heard
  <1>14. Hearing'
    BY <1>10, <1>12, <1>13 DEF Hearing
  <1>15. Intact'
    <2> SUFFICES ASSUME Counted' PROVE Intact'
      BY DEF Intact
    <2>1. Counted
      BY DEF Counted, May
    <2>2. \A q \in Req : Passed(q) => Passed(q)'
      BY DEF Passed, RespLen
    <2>3. /\ given[head.req] = <<>> /\ \A q \in Req : q > head.req => given[q] = <<>>
          /\ \A q \in Req : q < head.req => Passed(q)
      BY <2>1 DEF ReqInv, Intact
    <2>4. Run(up', RespMsg[head'.req], 0)
      BY <1>10, NoRun
    <2> QED BY <1>10, <1>12, <1>13, <2>2, <2>3, <2>4 DEF Intact
  <1> QED BY <1>6, <1>9, <1>14, <1>15 DEF ReqInv

(* The worker of a head that sends a request reads it. *)
LEMMA SendingComing ==
  ASSUME ReqInv, Alive, head.cb \in {"header", "upload"}
  PROVE  Coming
  BY DEF ReqInv, Turn, Has, Over

LEMMA HeaderWriteStep ==
  ASSUME ReqInv, wr_req_hearer_write_cb
  PROVE  ReqInv'
  <1> SUFFICES ASSUME Alive PROVE ReqInv'
    BY LostStep DEF wr_req_hearer_write_cb
  <1>1. head.cb = "header"
    BY DEF wr_req_hearer_write_cb
  <1>2. Coming
    BY <1>1, SendingComing
  <1>3. PICK r \in Req : r = head.req
    BY <1>2 DEF Coming
  <1> DEFINE s == Scgi(r)
             chunk == scgi_send(s, head.sent)
             sent == head.sent + Len(chunk)
  <1>4. /\ down' = down \o chunk
        /\ head' = IF sent < Len(s) THEN [head EXCEPT !.sent = sent]
                   ELSE [head EXCEPT !.sent = 0, !.cb = IF InFile(r) THEN "upload" ELSE "length"]
        /\ wkr' = wkr /\ up' = up /\ size' = size /\ given' = given
    BY <1>3 DEF wr_req_hearer_write_cb
  <1>5. /\ TypeOK /\ Sizes /\ head \in HeadType
    BY Typed, TypeParts DEF ReqInv
  <1>6. /\ s \in Seq(ByteOf(ReqMsg)) /\ Run(s, ReqMsg[r], 0)
        /\ Len(s) = (IF InFile(r) THEN ReqHead ELSE ReqLen(r)) /\ Len(s) \in Nat /\ Len(s) >= ReqHead
        /\ ReqHead \in Nat /\ ReqHead >= 2 /\ ReqLen(r) \in Nat /\ ReqLen(r) >= ReqHead
        /\ ReqLen(r) = ReqHead + size[r].body /\ size[r].body \in Nat
    BY <1>5, ScgiIs, SizeIs DEF ReqLen
  <1>7. /\ head.sent \in {0, ReqHead} /\ head.sent < Len(s) /\ head.sent \in Nat
        /\ head.received = 0 /\ head.buf = <<>> /\ HeadSent = head.sent
    BY <1>1, <1>3, <1>6 DEF ReqInv, Asking, HeadSent
  (* The header goes out by one send, what is behind it by another. *)
  <1>8. PICK end \in Nat : /\ head.sent < end /\ end <= Len(s) /\ end \in {ReqHead, Len(s)}
                           /\ chunk = SubSeq(s, head.sent + 1, end)
    <2> HIDE DEF s
    <2>1. 1 \in 1..Len(s)
      BY <1>6
    <2>2. s[1].msg = ReqMsg[r] /\ MsgHead(s[1].msg) = ReqHead
      <3>1. s[1] = [msg |-> ReqMsg[r], at |-> 0 + 1]
        BY <1>6, <2>1, Zenon DEF Run
      <3>2. s[1].msg = ReqMsg[r]
        BY <3>1
      <3> QED BY <3>2, Messages
    <2>3. CASE head.sent = 0
      <3>1. chunk = SubSeq(s, head.sent + 1, ReqHead)
        BY <1>6, <2>2, <2>3 DEF scgi_send
      <3> QED BY <1>6, <2>3, <3>1
    <2>4. CASE head.sent = ReqHead
      <3>1. chunk = SubSeq(s, head.sent + 1, Len(s))
        BY <1>6, <2>2, <2>4, SMTT(30) DEF scgi_send
      <3>2. Len(s) \in Nat /\ head.sent < Len(s) /\ Len(s) <= Len(s) /\ Len(s) \in {ReqHead, Len(s)}
        BY <1>6, <1>7
      <3> QED BY <3>1, <3>2, Zenon
    <2> QED BY <1>7, <2>3, <2>4
  <1> HIDE DEF s, chunk
  <1>9. chunk \in Seq(ByteOf(ReqMsg)) /\ Len(chunk) = end - head.sent
    <2>1. head.sent <= end
      BY <1>7, <1>8
    <2> QED BY <1>6, <1>7, <1>8, <2>1, PartType, SMTT(30)
  <1>10. Run(chunk, ReqMsg[r], HeadSent)
    <2>1. head.sent <= end /\ 0 + head.sent = head.sent /\ 0 \in Nat
      BY <1>7, <1>8
    <2>2. Run(chunk, ReqMsg[r], 0 + head.sent)
      BY <1>6, <1>7, <1>8, <2>1, RunPart
    <2> QED BY <1>7, <2>1, <2>2
  <1>11. sent = end
    BY <1>7, <1>8, <1>9
  <1> HIDE DEF sent
  <1>12. /\ ReqLen(head.req)' = ReqLen(r) /\ Scgi(r)' = s /\ InFile(r)' = InFile(r)
         /\ head'.req = head.req /\ head'.buf = head.buf /\ head'.received = head.received
    BY <1>3, <1>4, <1>5, SizesStay DEF HeadType, ReqLen, s
  <1>12a. head.sent + (end - head.sent) = end /\ end <= ReqLen(r)
    <2>1. head.sent + (end - head.sent) = end
      BY <1>7, AddRest, Zenon
    <2>2. Len(s) <= ReqLen(r)
      BY <1>6
    <2> QED BY <1>6, <1>8, <2>1, <2>2
  <1>13. CASE end < Len(s)
    <2>1. /\ head' = [head EXCEPT !.sent = end] /\ end = ReqHead
      BY <1>4, <1>8, <1>11, <1>13
    <2>2. head' \in HeadType /\ head'.cb = "header" /\ head'.sent = end
      BY <1>1, <1>5, <2>1 DEF HeadType
    <2>3. HeadSent' = end
      BY <2>2 DEF HeadSent
    <2>4. Asking'
      <3>1. Scgi(head.req)' = s
        BY <1>3, <1>12
      <3> QED BY <1>3, <1>7, <1>12, <1>13, <2>1, <2>2, <3>1 DEF Asking
    <2>5. HeadSent' = HeadSent + Len(chunk) /\ HeadSent' <= ReqLen(head.req)
      BY <1>3, <1>7, <1>9, <1>12a, <2>3, Zenon
    <2> QED BY <1>1, <1>2, <1>3, <1>4, <1>7, <1>9, <1>10, <1>12, <2>2, <2>4, <2>5, SendStep
  <1>14. CASE end = Len(s)
    <2>1. head' = [head EXCEPT !.sent = 0, !.cb = IF InFile(r) THEN "upload" ELSE "length"]
      BY <1>4, <1>6, <1>11, <1>14
    <2>2. /\ head' \in HeadType /\ head'.cb = (IF InFile(r) THEN "upload" ELSE "length") /\ head'.sent = 0
      BY <1>5, <2>1 DEF HeadType
    <2>3. HeadSent' = end
      <3>1. CASE InFile(r)
        BY <1>6, <1>14, <2>2, <3>1 DEF HeadSent
      <3>2. CASE ~InFile(r)
        <4>1. HeadSent' = ReqLen(head.req)'
          BY <2>2, <3>2 DEF HeadSent
        <4> QED BY <1>6, <1>12, <1>14, <3>2, <4>1
      <3> QED BY <3>1, <3>2
    <2>4. Asking'
      <3>1. head'.cb = "upload" => InFile(head.req)' /\ 0 < size'[head'.req].body
        <4> SUFFICES ASSUME InFile(r) PROVE InFile(head.req)' /\ 0 < size'[head'.req].body
          BY <2>2
        <4>1. size[r].body > MaxBody /\ MaxBody \in Nat
          BY ReqAssumption DEF InFile
        <4> QED BY <1>3, <1>4, <1>6, <1>12, <4>1 DEF InFile
      <3> QED BY <1>3, <1>7, <1>12, <2>2, <3>1 DEF Asking
    <2>5. HeadSent' = HeadSent + Len(chunk) /\ HeadSent' <= ReqLen(head.req)
      BY <1>3, <1>7, <1>9, <1>12a, <2>3, Zenon
    <2>6. head'.cb \in {"header", "upload", "length"}
      BY <2>2
    <2> QED BY <1>1, <1>2, <1>3, <1>4, <1>7, <1>9, <1>10, <1>12, <2>2, <2>4, <2>5, <2>6, SendStep
  <1>15. end < Len(s) \/ end = Len(s)
    BY <1>6, <1>8
  <1> QED BY <1>13, <1>14, <1>15

LEMMA BodyWriteStep ==
  ASSUME ReqInv, wr_req_body_write_cb
  PROVE  ReqInv'
  <1> SUFFICES ASSUME Alive PROVE ReqInv'
    BY LostStep DEF wr_req_body_write_cb
  <1>1. head.cb = "upload"
    BY DEF wr_req_body_write_cb
  <1>2. Coming
    BY <1>1, SendingComing
  <1>3. PICK r \in Req : r = head.req
    BY <1>2 DEF Coming
  <1> DEFINE file == Behind(Request(r), ReqHead)
             end == IF head.sent + MaxBody < Len(file) THEN head.sent + MaxBody ELSE Len(file)
             chunk == FileChunk(file, head.sent, end)
  <1>4. /\ down' = down \o chunk
        /\ head' = [head EXCEPT !.sent = end, !.cb = IF end = Len(file) THEN "length" ELSE @]
        /\ wkr' = wkr /\ up' = up /\ size' = size /\ given' = given
    BY <1>3 DEF wr_req_body_write_cb
  <1>5. /\ TypeOK /\ Sizes /\ head \in HeadType
    BY Typed, TypeParts DEF ReqInv
  <1>6. /\ ReqHead \in Nat /\ ReqLen(r) \in Nat /\ ReqLen(r) >= ReqHead
        /\ ReqLen(r) = ReqHead + size[r].body /\ ReqLen(r) - ReqHead = size[r].body
        /\ size[r].body \in Nat /\ MaxBody \in Nat /\ MaxBody > 0
    BY <1>5, SizeIs, ReqAssumption DEF ReqLen
  <1>7. file \in Seq(ByteOf(ReqMsg)) /\ Len(file) = size[r].body /\ Run(file, ReqMsg[r], ReqHead)
    <2>1. /\ Request(r) \in Seq(ByteOf(ReqMsg)) /\ Len(Request(r)) = ReqLen(r)
          /\ Run(Request(r), ReqMsg[r], 0)
      BY <1>5, RequestIs
    <2>2. /\ ReqLen(r) <= Len(Request(r)) /\ 0 \in Nat /\ 0 + ReqHead = ReqHead
          /\ file = SubSeq(Request(r), ReqHead + 1, ReqLen(r))
      BY <1>6, <2>1 DEF Behind
    <2> HIDE DEF file
    <2>3. file \in Seq(ByteOf(ReqMsg)) /\ Len(file) = ReqLen(r) - ReqHead
      BY <1>6, <2>1, <2>2, PartType, SMTT(30)
    <2>4. Run(file, ReqMsg[r], 0 + ReqHead)
      BY <1>6, <2>1, <2>2, RunPart
    <2> QED BY <1>6, <2>2, <2>3, <2>4
  <1> HIDE DEF file
  <1>8. /\ head.sent < size[r].body /\ head.sent \in Nat /\ InFile(r)
        /\ head.received = 0 /\ head.buf = <<>> /\ HeadSent = ReqHead + head.sent
    BY <1>1, <1>3, <1>5, Typed DEF ReqInv, Asking, HeadSent
  <1>9. end \in Nat /\ head.sent <= end /\ end <= Len(file) /\ chunk = SubSeq(file, head.sent + 1, end)
    BY <1>6, <1>7, <1>8, SMTT(30) DEF FileChunk
  <1> HIDE DEF end, chunk
  <1>10. chunk \in Seq(ByteOf(ReqMsg)) /\ Len(chunk) = end - head.sent
    BY <1>7, <1>8, <1>9, PartType
  <1>11. Run(chunk, ReqMsg[r], HeadSent) /\ HeadSent \in Nat
    <2>1. Run(chunk, ReqMsg[r], ReqHead + head.sent)
      BY <1>6, <1>7, <1>8, <1>9, RunPart
    <2> QED BY <1>6, <1>8, <2>1
  <1>12. /\ ReqLen(head.req)' = ReqLen(r) /\ InFile(head.req)' = InFile(r)
         /\ head'.req = head.req /\ head'.buf = head.buf /\ head'.received = head.received
    BY <1>3, <1>4, <1>5 DEF HeadType, ReqLen, InFile
  <1>13. head'.sent = end /\ head'.cb = (IF end = Len(file) THEN "length" ELSE "upload") /\ head' \in HeadType
    BY <1>1, <1>4, <1>5, <1>9 DEF HeadType
  <1>14. HeadSent' = ReqHead + end
    <2>1. CASE end = Len(file)
      <3>1. HeadSent' = ReqLen(head.req)'
        BY <1>13, <2>1 DEF HeadSent
      <3> QED BY <1>6, <1>7, <1>12, <2>1, <3>1
    <2>2. CASE end # Len(file)
      BY <1>13, <2>2 DEF HeadSent
    <2> QED BY <2>1, <2>2
  <1>15. HeadSent' = HeadSent + Len(chunk) /\ HeadSent' <= ReqLen(head.req)
    <2>1. (ReqHead + head.sent) + (end - head.sent) = ReqHead + end
      BY <1>6, <1>8, <1>9
    <2>2. ReqHead + end <= ReqLen(r)
      BY <1>6, <1>7, <1>9
    <2> QED BY <1>3, <1>8, <1>10, <1>14, <2>1, <2>2, Zenon
  <1>16. Asking'
    <2>1. end # Len(file) => end < size'[head'.req].body
      BY <1>3, <1>4, <1>7, <1>9, <1>12
    <2> QED BY <1>3, <1>8, <1>12, <1>13, <2>1 DEF Asking
  <1>17. head'.cb \in {"header", "upload", "length"}
    BY <1>13
  <1> QED BY <1>1, <1>2, <1>3, <1>4, <1>10, <1>11, <1>12, <1>13, <1>15, <1>16, <1>17, SendStep

-----------------------------------------------------------------------------
(* The worker answers. *)

(* The next bytes of the response are added to the stream. *)
LEMMA AnswerStep ==
  ASSUME ReqInv, HeadOpen, Has, NEW to \in Nat, WkrSent <= to, to <= AllLen(head.req),
         up' = up \o SubSeq(Response(wkr.req), WkrSent + 1, to),
         wkr' \in WkrType, wkr'.env = wkr.env, head' = head, down' = down, size' = size, given' = given,
         Alive', Has' \/ Over', WkrSent' = to
  PROVE  ReqInv'
  <1>1. PICK r \in Req : r = head.req /\ r = wkr.req
    BY Typed DEF ReqInv, Has
  <1>2. /\ TypeOK /\ Sizes /\ up \in Seq(ByteOf(RespMsg)) /\ Len(up) \in Nat /\ head.received \in Nat
        /\ head.cb \in {"length", "body"}
    BY Typed DEF ReqInv, Has, HeadOpen
  <1> DEFINE chunk == SubSeq(Response(r), WkrSent + 1, to)
  <1>3. WkrSent \in Nat /\ RespHead \in Nat
    BY <1>1, <1>2, SentIs, ReqAssumption DEF ReqInv
  <1>4. /\ Response(r) \in Seq(ByteOf(RespMsg)) /\ Len(Response(r)) = AllLen(r) /\ Run(Response(r), RespMsg[r], 0)
    BY <1>2, ResponseIs
  <1>5. /\ chunk \in Seq(ByteOf(RespMsg)) /\ Len(chunk) = to - WkrSent
    BY <1>1, <1>3, <1>4, PartType
  <1>6. Run(chunk, RespMsg[r], WkrSent)
    <2>1. 0 \in Nat /\ 0 + WkrSent = WkrSent
      BY <1>3
    <2>2. Run(chunk, RespMsg[r], 0 + WkrSent)
      BY <1>1, <1>3, <1>4, <2>1, RunPart
    <2> QED BY <2>1, <2>2
  <1>7. up' = up \o chunk
    BY <1>1
  <1> HIDE DEF chunk
  <1>8. up' \in Seq(ByteOf(RespMsg)) /\ Len(up') = Len(up) + Len(chunk) /\ Len(chunk) \in Nat
    <2>1. up \o chunk \in Seq(ByteOf(RespMsg)) /\ Len(up \o chunk) = Len(up) + Len(chunk)
      BY <1>2, <1>5, ConcatProperties
    <2>2. Len(chunk) \in Nat
      BY <1>5
    <2> QED BY <1>7, <2>1, <2>2, Zenon
  <1>9. TypeOK'
    BY <1>2, <1>8, TypeParts DEF Sizes
  <1>10. Turn'
    BY DEF Turn
  <1>11. Asking'
    BY SizesStay DEF ReqInv, Asking
  <1>12. Heard' = Heard /\ Heard \in Nat
    BY <1>2, <1>3 DEF Heard
  <1>13. Heard' + Len(up') = (Heard + Len(up)) + (to - WkrSent)
    BY <1>2, <1>3, <1>5, <1>8, <1>12
  <1>14. Hearing'
    <2>1. Heard + Len(up) <= WkrSent
      BY <1>2 DEF ReqInv, Hearing
    <2>2. Heard' + Len(up') <= WkrSent'
      BY <1>2, <1>3, <1>12, <1>13, <2>1
    <2>3. RespLen(head.req)' = RespLen(head.req)
      BY DEF RespLen
    <2> QED BY <1>2, <2>2, <2>3 DEF ReqInv, Hearing
  <1>15. Intact'
    <2> SUFFICES ASSUME Counted' PROVE Intact'
      BY DEF Intact
    <2>1. Counted
      BY DEF Counted, May
    <2>2. \A q \in Req : Passed(q) => Passed(q)'
      BY DEF Passed, RespLen
    <2>3. Heard + Len(up) = WkrSent
      BY <1>2, <2>1 DEF ReqInv, Intact, Has, Alive
    <2>4. Heard' + Len(up') = WkrSent'
      BY <1>3, <1>13, <2>3
    <2>5. Run(up, RespMsg[r], Heard)
      BY <1>1, <1>2, <2>1 DEF ReqInv, Intact, Heard
    <2>6. Run(up', RespMsg[r], Heard)
      <3>1. Run(chunk, RespMsg[r], Heard + Len(up))
        BY <1>6, <2>3, Zenon
      <3>2. Run(up \o chunk, RespMsg[r], Heard)
        BY <1>2, <1>5, <1>12, <2>5, <3>1, RunJoin
      <3> QED BY <1>7, <3>2, Zenon
    <2> QED BY <1>1, <1>2, <2>1, <2>2, <2>4, <2>6 DEF ReqInv, Intact, Heard
  <1> QED BY <1>9, <1>10, <1>11, <1>14, <1>15 DEF ReqInv

LEMMA AnsweringHas ==
  ASSUME ReqInv, wkr.cb \in {"app", "scgi", "http", "content"}
  PROVE  Has /\ Alive
  BY DEF ReqInv, Turn, Alive, Coming, Reading, Over

LEMMA ScgiWriteStep ==
  ASSUME ReqInv, http_resp_scgi_write_cb
  PROVE  ReqInv'
  <1>1. wkr.cb = "scgi"
    BY DEF http_resp_scgi_write_cb, Write
  <1> SUFFICES ASSUME HeadOpen PROVE ReqInv'
    BY GoneStep DEF http_resp_scgi_write_cb, Write
  <1>2. /\ up' = up \o SubSeq(Response(wkr.req), 0 + 1, RespHead) /\ wkr' = [wkr EXCEPT !.cb = "http"]
        /\ head' = head /\ down' = down /\ size' = size /\ given' = given
    BY DEF http_resp_scgi_write_cb, Write
  <1>3. Has /\ Alive /\ TypeOK /\ Turn /\ wkr \in WkrType /\ wkr.req \in Req /\ head.req \in Req /\ Sizes
    BY <1>1, AnsweringHas, TypeParts, Typed DEF ReqInv, Has
  <1>4. WkrSent = 0 /\ RespHead \in Nat /\ 0 <= RespHead /\ RespHead <= AllLen(head.req)
    BY <1>1, <1>3, SentIs, SizeIs DEF AllLen
  <1>5. /\ wkr' \in WkrType /\ wkr'.cb = "http" /\ wkr'.env = wkr.env /\ wkr'.req = wkr.req /\ wkr'.sent = wkr.sent
    BY <1>2, <1>3 DEF WkrType
  <1>6. Alive' /\ Has' /\ ~Over'
    BY <1>1, <1>2, <1>3, <1>5 DEF Alive, Has, Over
  <1>7. WkrSent' = RespHead
    BY <1>5, <1>6 DEF WkrSent
  <1> QED BY <1>2, <1>3, <1>4, <1>5, <1>6, <1>7, AnswerStep

LEMMA RestedIs ==
  ASSUME wkr \in WkrType
  PROVE  Rested \in WkrType /\ Rested.cb = "header" /\ Rested.env = wkr.env /\ Rested.buf = <<>>
  <1> DEFINE S == Seq(ByteOf(ReqMsg))
             e == <<>>
  <1>1. e \in S
    OBVIOUS
  <1>2. /\ WkrType = [cb : {"header", "body", "file", "app", "scgi", "http", "content", "gone"},
                      req : Req, buf : S, sent : Nat, env : Environments]
        /\ Rested = [wkr EXCEPT !.cb = "header", !.buf = e, !.sent = 0]
    BY Zenon DEF WkrType, Rested
  <1> HIDE DEF S, e
  <1>3. Rested \in WkrType /\ Rested.cb = "header" /\ Rested.env = wkr.env /\ Rested.buf = e
    BY <1>1, <1>2
  <1> QED BY <1>3 DEF e

LEMMA HttpWriteStep ==
  ASSUME ReqInv, http_resp_header_write_cb
  PROVE  ReqInv'
  <1>1. wkr.cb = "http"
    BY DEF http_resp_header_write_cb, Write
  <1> SUFFICES ASSUME HeadOpen PROVE ReqInv'
    BY GoneStep DEF http_resp_header_write_cb, Write
  <1>2. /\ up' = up \o SubSeq(Response(wkr.req), RespHead + 1, RespHead + HttpHead)
        /\ wkr' = IF size[wkr.req].content > 0 THEN [wkr EXCEPT !.cb = "content"] ELSE Rested
        /\ head' = head /\ down' = down /\ size' = size /\ given' = given
    BY DEF http_resp_header_write_cb, Write
  <1>3. Has /\ Alive /\ TypeOK /\ Turn /\ wkr \in WkrType /\ wkr.req \in Req /\ head.req \in Req /\ Sizes
    BY <1>1, AnsweringHas, TypeParts, Typed DEF ReqInv, Has
  <1>4. /\ RespHead \in Nat /\ HttpHead \in Nat /\ size[head.req].content \in Nat
        /\ AllLen(head.req) = RespHead + HttpHead + size[head.req].content
    BY <1>3, SizeIs DEF AllLen, RespLen
  <1> DEFINE to == RespHead + HttpHead
  <1>5. WkrSent = RespHead /\ to \in Nat /\ RespHead <= to /\ to <= AllLen(head.req)
    BY <1>1, <1>3, <1>4, SentIs
  <1>6. wkr.req = head.req /\ wkr.sent = 0 /\ down = <<>> /\ head.cb \in {"length", "body", "lost"}
    BY <1>1, <1>3 DEF Has
  <1>7. CASE size[wkr.req].content > 0
    <2>1. /\ wkr' \in WkrType /\ wkr'.cb = "content" /\ wkr'.env = wkr.env /\ wkr'.req = wkr.req /\ wkr'.sent = 0
      BY <1>2, <1>3, <1>6, <1>7 DEF WkrType
    <2>2. Alive' /\ Has' /\ ~Over'
      BY <1>2, <1>4, <1>6, <1>7, <2>1 DEF Alive, Has, Over
    <2>3. WkrSent' = to
      BY <1>4, <2>1, <2>2 DEF WkrSent
    <2> QED BY <1>2, <1>3, <1>5, <2>1, <2>2, <2>3, AnswerStep
  <1>8. CASE ~(size[wkr.req].content > 0)
    <2>1. /\ wkr' \in WkrType /\ wkr'.cb = "header" /\ wkr'.env = wkr.env /\ wkr'.buf = <<>>
      <3>1. wkr' = Rested
        BY <1>2, <1>8, Zenon
      <3> QED BY <1>3, <3>1, RestedIs, Zenon
    <2>2. Alive' /\ Over'
      BY <1>2, <1>6, <2>1 DEF Alive, Over, HeadOpen
    <2>3. WkrSent' = AllLen(head.req) /\ AllLen(head.req) = to
      <3>1. WkrSent' = AllLen(head.req)
        BY <1>2, <2>2 DEF WkrSent, AllLen, RespLen
      <3> QED BY <1>4, <1>6, <1>8, <3>1
    <2> QED BY <1>2, <1>3, <1>5, <2>1, <2>2, <2>3, AnswerStep
  <1> QED BY <1>7, <1>8

LEMMA ContentWriteStep ==
  ASSUME ReqInv, http_resp_body_write_cb
  PROVE  ReqInv'
  <1>1. PICK n \in (wkr.sent + 1)..size[wkr.req].content :
          Write("content", RespHead + HttpHead + wkr.sent, RespHead + HttpHead + n,
                IF n = size[wkr.req].content THEN Rested ELSE [wkr EXCEPT !.sent = n])
    BY DEF http_resp_body_write_cb
  <1>2. wkr.cb = "content"
    BY <1>1 DEF Write
  <1> SUFFICES ASSUME HeadOpen PROVE ReqInv'
    BY <1>1, GoneStep DEF Write
  <1>3. /\ up' = up \o SubSeq(Response(wkr.req), RespHead + HttpHead + wkr.sent + 1, RespHead + HttpHead + n)
        /\ wkr' = IF n = size[wkr.req].content THEN Rested ELSE [wkr EXCEPT !.sent = n]
        /\ head' = head /\ down' = down /\ size' = size /\ given' = given
    BY <1>1 DEF Write
  <1>4. Has /\ Alive /\ TypeOK /\ Turn /\ wkr \in WkrType /\ wkr.req \in Req /\ head.req \in Req /\ Sizes
        /\ wkr.sent \in Nat
    BY <1>2, AnsweringHas, TypeParts, Typed DEF ReqInv, Has
  <1>5. /\ RespHead \in Nat /\ HttpHead \in Nat /\ size[head.req].content \in Nat
        /\ AllLen(head.req) = RespHead + HttpHead + size[head.req].content
    BY <1>4, SizeIs DEF AllLen, RespLen
  <1> DEFINE to == RespHead + HttpHead + n
  <1>6. wkr.req = head.req /\ down = <<>> /\ head.cb \in {"length", "body", "lost"}
    BY <1>4 DEF Has
  <1>7. n \in Nat /\ wkr.sent <= n /\ n <= size[head.req].content
    BY <1>1, <1>4, <1>5, <1>6
  <1>8. WkrSent = RespHead + HttpHead + wkr.sent /\ to \in Nat /\ WkrSent <= to /\ to <= AllLen(head.req)
    BY <1>2, <1>4, <1>5, <1>7, SentIs DEF ReqInv
  <1>9. CASE n # size[wkr.req].content
    <2>1. /\ wkr' \in WkrType /\ wkr'.cb = "content" /\ wkr'.env = wkr.env /\ wkr'.req = wkr.req /\ wkr'.sent = n
      BY <1>2, <1>3, <1>4, <1>7, <1>9 DEF WkrType
    <2>2. n < size[wkr.req].content
      BY <1>5, <1>6, <1>7, <1>9
    <2>3. Alive' /\ Has' /\ ~Over'
      BY <1>3, <1>6, <2>1, <2>2 DEF Alive, Has, Over
    <2>4. WkrSent' = to
      BY <2>1, <2>3 DEF WkrSent
    <2> QED BY <1>3, <1>4, <1>8, <2>1, <2>3, <2>4, AnswerStep
  <1>10. CASE n = size[wkr.req].content
    <2>1. /\ wkr' \in WkrType /\ wkr'.cb = "header" /\ wkr'.env = wkr.env /\ wkr'.buf = <<>>
      <3>1. wkr' = Rested
        BY <1>3, <1>10, Zenon
      <3> QED BY <1>4, <3>1, RestedIs, Zenon
    <2>2. Alive' /\ Over'
      BY <1>3, <1>6, <2>1 DEF Alive, Over, HeadOpen
    <2>3. WkrSent' = AllLen(head.req) /\ AllLen(head.req) = to
      <3>1. WkrSent' = AllLen(head.req)
        BY <1>3, <2>2 DEF WkrSent, AllLen, RespLen
      <3> QED BY <1>5, <1>6, <1>10, <3>1
    <2> QED BY <1>3, <1>4, <1>8, <2>1, <2>2, <2>3, AnswerStep
  <1> QED BY <1>9, <1>10

-----------------------------------------------------------------------------
(* The worker reads the request and has it processed. *)

(* A step of the worker that sends nothing. *)
LEMMA QuietStep ==
  ASSUME ReqInv, Alive, TypeOK', Turn', Alive', wkr'.env = wkr.env,
         head' = head, up' = up, size' = size, given' = given,
         head.cb \in {"length", "body"} => WkrSent' = WkrSent
  PROVE  ReqInv'
  <1>1. Asking'
    BY SizesStay DEF ReqInv, Asking
  <1>2. Heard' = Heard /\ RespLen(head.req)' = RespLen(head.req)
    BY DEF Heard, RespLen
  <1>3. Hearing'
    BY <1>2 DEF ReqInv, Hearing
  <1>4. Intact'
    <2> SUFFICES ASSUME Counted' PROVE Intact'
      BY DEF Intact
    <2>1. Counted
      BY DEF Counted, May
    <2>2. \A q \in Req : Passed(q) => Passed(q)'
      BY DEF Passed, RespLen
    <2> QED BY <1>2, <2>1, <2>2 DEF ReqInv, Intact
  <1> QED BY <1>1, <1>3, <1>4 DEF ReqInv

LEMMA ProcessStep ==
  ASSUME ReqInv, http_req_process
  PROVE  ReqInv'
  <1>1. /\ wkr.cb = "app" /\ wkr' = [wkr EXCEPT !.cb = "scgi", !.sent = 0]
        /\ head' = head /\ down' = down /\ up' = up /\ size' = size /\ given' = given
    BY DEF http_req_process
  <1>2. Has /\ Alive /\ TypeOK /\ Turn /\ wkr \in WkrType /\ head.req \in Req
    BY <1>1, AnsweringHas, TypeParts, Typed DEF ReqInv, Has
  <1>3. wkr' \in WkrType /\ wkr'.cb = "scgi" /\ wkr'.sent = 0 /\ wkr'.req = wkr.req /\ wkr'.env = wkr.env
    BY <1>1, <1>2 DEF WkrType
  <1>4. TypeOK'
    BY <1>1, <1>2, <1>3, TypeParts DEF Sizes
  <1>5. Has' /\ Alive' /\ ~Over'
    BY <1>1, <1>2, <1>3 DEF Has, Alive, Over
  <1>6. Turn'
    BY <1>5 DEF Turn
  <1>7. WkrSent = 0
    BY <1>1, <1>2, SentIs
  <1>8. WkrSent' = 0
    BY <1>3, <1>5 DEF WkrSent
  <1> QED BY <1>1, <1>2, <1>3, <1>4, <1>5, <1>6, <1>7, <1>8, QuietStep

(* A head that is sending has not sent all. *)
LEMMA SendingLess ==
  ASSUME ReqInv, head.cb \in {"header", "upload"}
  PROVE  HeadSent < ReqLen(head.req)
  <1>1. head.req \in Req /\ Sizes /\ head.sent \in Nat
    BY Typed DEF ReqInv, Asking
  <1>2. /\ ReqLen(head.req) = ReqHead + size[head.req].body /\ size[head.req].body \in Nat /\ ReqHead \in Nat
        /\ Len(Scgi(head.req)) <= ReqLen(head.req) /\ Len(Scgi(head.req)) \in Nat
    <2>1. ReqLen(head.req) = ReqHead + size[head.req].body /\ size[head.req].body \in Nat /\ ReqHead \in Nat
      BY <1>1, SizeIs DEF ReqLen
    <2>2. Len(Scgi(head.req)) \in Nat /\ Len(Scgi(head.req)) = IF InFile(head.req) THEN ReqHead ELSE ReqLen(head.req)
      BY <1>1, ScgiIs
    <2> QED BY <2>1, <2>2
  <1>3. CASE head.cb = "header"
    <2>1. HeadSent = head.sent /\ head.sent < Len(Scgi(head.req))
      BY <1>3 DEF HeadSent, ReqInv, Asking
    <2> QED BY <1>1, <1>2, <2>1
  <1>4. CASE head.cb = "upload"
    <2>1. HeadSent = ReqHead + head.sent /\ head.sent < size[head.req].body
      BY <1>4 DEF HeadSent, ReqInv, Asking
    <2> QED BY <1>1, <1>2, <2>1
  <1> QED BY <1>3, <1>4

(* The worker has a further piece of the request. *)
LEMMA ReadFacts ==
  ASSUME ReqInv, Coming, NEW room \in Int, NEW p \in Pieces(down, room), NEW r \in Req, r = head.req
  PROVE  /\ wkr.buf \o p \in Seq(ByteOf(ReqMsg)) /\ Len(wkr.buf \o p) = Len(wkr.buf) + Len(p)
         /\ Run(wkr.buf \o p, ReqMsg[r], 0)
         /\ Behind(down, Len(p)) \in Seq(ByteOf(ReqMsg))
         /\ Run(Behind(down, Len(p)), ReqMsg[r], Len(wkr.buf \o p))
         /\ Len(wkr.buf \o p) + Len(Behind(down, Len(p))) = Len(wkr.buf) + Len(down)
         /\ Len(wkr.buf \o p) \in Nat /\ Len(p) \in Nat /\ Len(p) >= 1 /\ Len(p) <= room
         /\ Len(Behind(down, Len(p))) \in Nat
  <1> DEFINE T == ByteOf(ReqMsg)
             rest == Behind(down, Len(p))
  <1>1. wkr.buf \in Seq(T) /\ down \in Seq(T) /\ Len(wkr.buf) \in Nat /\ Len(down) \in Nat
    BY Typed DEF ReqInv
  <1>2. Run(wkr.buf, ReqMsg[r], 0) /\ Run(down, ReqMsg[r], Len(wkr.buf))
    BY DEF Coming
  <1>3. /\ p \in Seq(T) /\ Len(p) \in 1..Len(down) /\ Len(p) <= room
        /\ rest \in Seq(T) /\ Len(rest) = Len(down) - Len(p)
    BY <1>1, PieceIs
  <1>4. Run(p, ReqMsg[r], Len(wkr.buf)) /\ Run(rest, ReqMsg[r], Len(wkr.buf) + Len(p))
    BY <1>1, <1>2, PieceRuns
  <1> HIDE DEF T, rest
  <1>5. 0 + Len(wkr.buf) = Len(wkr.buf) /\ 0 \in Nat
    BY <1>1
  <1>6. Run(p, ReqMsg[r], 0 + Len(wkr.buf))
    BY <1>4, <1>5, Zenon
  <1>7. /\ wkr.buf \o p \in Seq(T) /\ Len(wkr.buf \o p) = Len(wkr.buf) + Len(p)
        /\ Run(wkr.buf \o p, ReqMsg[r], 0)
    BY <1>1, <1>2, <1>3, <1>5, <1>6, RunJoin
  <1>8. Run(rest, ReqMsg[r], Len(wkr.buf \o p))
    BY <1>4, <1>7, Zenon
  <1>9. Len(p) \in Nat /\ Len(p) >= 1 /\ Len(rest) \in Nat
    BY <1>1, <1>3
  <1>10. (Len(wkr.buf) + Len(p)) + (Len(down) - Len(p)) = Len(wkr.buf) + Len(down) /\ Len(wkr.buf) + Len(p) \in Nat
    BY <1>1, <1>9
  <1>11. Len(wkr.buf \o p) + Len(rest) = Len(wkr.buf) + Len(down) /\ Len(wkr.buf \o p) \in Nat
    BY <1>3, <1>7, <1>10, Zenon
  <1> QED BY <1>3, <1>7, <1>8, <1>9, <1>11 DEF T, rest

LEMMA ReadStep ==
  ASSUME ReqInv, Coming, NEW room \in Int, NEW p \in Pieces(down, room), NEW r \in Req, r = head.req,
         down' = Behind(down, Len(p)), wkr' \in WkrType, wkr'.buf = wkr.buf \o p, wkr'.env = wkr.env,
         head' = head, up' = up, size' = size, given' = given,
         \/ /\ Len(wkr'.buf) < ReqLen(r) /\ wkr'.cb \in {"header", "body", "file"}
            /\ wkr'.cb \in {"body", "file"} => wkr'.req = r /\ Len(wkr'.buf) >= ReqHead
         \/ Len(wkr'.buf) = ReqLen(r) /\ wkr'.cb = "app" /\ wkr'.req = r
  PROVE  ReqInv'
  <1>1. TypeOK /\ Sizes
    BY Typed DEF ReqInv
  <1>2. /\ down' \in Seq(ByteOf(ReqMsg)) /\ Run(wkr'.buf, ReqMsg[r], 0) /\ Run(down', ReqMsg[r], Len(wkr'.buf))
        /\ Len(wkr'.buf) + Len(down') = Len(wkr.buf) + Len(down) /\ Len(wkr'.buf) \in Nat /\ Len(down') \in Nat
    BY ReadFacts
  <1>3. TypeOK'
    BY <1>1, <1>2, TypeParts DEF Sizes
  <1>4. ReqLen(head.req)' = ReqLen(r) /\ ReqLen(r) \in Nat
    BY <1>1, SizeIs DEF ReqLen
  <1>5. HeadSent' = HeadSent
    BY SizesStay DEF HeadSent
  <1>6. /\ head.cb \in {"header", "upload", "length", "lost"} /\ Len(wkr.buf) + Len(down) <= ReqLen(r)
        /\ HeadOpen => Len(wkr.buf) + Len(down) = HeadSent
        /\ Alive
    BY DEF Coming, Alive, Reading
  <1>7. ASSUME wkr'.cb \in {"header", "body", "file"} PROVE Coming' /\ Alive'
    <2>1. Len(wkr'.buf) < ReqLen(r) /\ (wkr'.cb \in {"body", "file"} => wkr'.req = r /\ Len(wkr'.buf) >= ReqHead)
      BY <1>7
    <2> QED BY <1>2, <1>4, <1>5, <1>6, <1>7, <2>1 DEF Coming, Reading, HeadOpen, Alive
  <1>8. ASSUME wkr'.cb = "app" PROVE Has' /\ Alive'
    <2>1. Len(wkr'.buf) = ReqLen(r) /\ wkr'.req = r
      BY <1>8
    <2>2. Len(down') = 0
      BY <1>2, <1>4, <1>6, <2>1
    <2>3. down' = <<>>
      BY <1>2, <2>2, EmptySeq
    <2>4. head.cb \in {"length", "lost"}
      <3> SUFFICES ASSUME head.cb \in {"header", "upload"} PROVE FALSE
        BY <1>6
      <3>1. HeadSent < ReqLen(r)
        BY SendingLess
      <3>2. Len(wkr'.buf) + Len(down') = HeadSent
        BY <1>2, <1>6 DEF HeadOpen
      <3> QED BY <1>4, <2>1, <2>2, <3>1, <3>2
    <2> QED BY <1>2, <1>4, <1>8, <2>1, <2>3, <2>4 DEF Has, Alive
  <1>9. Turn' /\ Alive' /\ (Coming' \/ (Has' /\ wkr'.cb = "app"))
    BY <1>7, <1>8 DEF Turn
  <1>10. head.cb \in {"length", "body"} => WkrSent' = WkrSent
    <2> SUFFICES ASSUME head.cb = "length" PROVE WkrSent' = WkrSent
      BY <1>6
    <2>1. WkrSent = 0
      BY <1>1, <1>6, SentIs DEF ReqInv
    <2>2. SentFacts'
      BY <1>3, <1>9, SentThen DEF SentBasis
    <2>3. WkrSent' = 0
      BY <1>9, <2>2 DEF SentFacts
    <2> QED BY <2>1, <2>3
  <1> QED BY <1>3, <1>6, <1>9, <1>10, QuietStep

(* A run from the start of a request has its header if it is as long. *)
LEMMA HeaderOfRun ==
  ASSUME NEW r \in Req, NEW buf \in Seq(ByteOf(ReqMsg)), Run(buf, ReqMsg[r], 0), Len(buf) >= 1
  PROVE  /\ buf[1].msg = ReqMsg[r] /\ (HasHeader(buf) <=> Len(buf) >= ReqHead)
         /\ (CHOOSE q \in Req : ReqMsg[q] = buf[1].msg) = r
  <1>1. 1 \in 1..Len(buf) /\ Len(buf) \in Nat /\ ReqHead \in Nat
    BY ReqAssumption
  <1>2. buf[1] = [msg |-> ReqMsg[r], at |-> 0 + 1]
    BY <1>1, Zenon DEF Run
  <1>3. buf[1].msg = ReqMsg[r]
    BY <1>2
  <1>4. MsgHead(buf[1].msg) = ReqHead /\ buf # <<>>
    <2>1. MsgHead(ReqMsg[r]) = ReqHead
      BY Messages
    <2>2. buf # <<>>
      BY <1>1
    <2> QED BY <1>3, <2>1, <2>2, Zenon
  <1>5. Len(buf) >= ReqHead => \A i \in 1..ReqHead : buf[i] = [msg |-> ReqMsg[r], at |-> i]
    <2> SUFFICES ASSUME Len(buf) >= ReqHead, NEW i \in 1..ReqHead PROVE buf[i] = [msg |-> ReqMsg[r], at |-> i]
      OBVIOUS
    <2>1. i \in 1..Len(buf) /\ 0 + i = i
      BY <1>1
    <2> QED BY <2>1 DEF Run
  <1>6. HasHeader(buf) <=> Len(buf) >= ReqHead
    <2>1. HasHeader(buf) <=> /\ buf # <<>> /\ Len(buf) >= ReqHead
                             /\ \A i \in 1..ReqHead : buf[i] = [msg |-> ReqMsg[r], at |-> i]
      BY <1>3, <1>4, Zenon DEF HasHeader
    <2> QED BY <1>4, <1>5, <2>1, Zenon
  <1>7. (CHOOSE q \in Req : ReqMsg[q] = buf[1].msg) = r
    <2>1. \A q \in Req : ReqMsg[q] = buf[1].msg <=> q = r
      BY <1>3, Messages
    <2> QED BY <2>1, Zenon
  <1> QED BY <1>3, <1>6, <1>7, Zenon

LEMMA HeaderReadStep ==
  ASSUME ReqInv, http_req_header_cb
  PROVE  ReqInv'
  <1> DEFINE room == WkrBuf - Len(wkr.buf)
             Buf(p) == wkr.buf \o p
             Of(p) == CHOOSE q \in Req : ReqMsg[q] = Buf(p)[1].msg
             Cb(p) == CASE ~HasHeader(Buf(p)) -> wkr.cb
                        [] HasHeader(Buf(p)) /\ Len(Buf(p)) = Len(Request(Of(p))) -> "app"
                        [] HasHeader(Buf(p)) /\ Len(Buf(p)) # Len(Request(Of(p))) ->
                             IF Len(Request(Of(p))) > WkrBuf THEN "file" ELSE "body"
             Read(p) == /\ down' = Behind(down, Len(p))
                        /\ wkr' = [wkr EXCEPT !.buf = Buf(p),
                                              !.req = IF HasHeader(Buf(p)) THEN Of(p) ELSE @,
                                              !.cb = Cb(p)]
                        /\ UNCHANGED <<head, up, size, given>>
  <1>1. wkr.cb = "header" /\ (Gone \/ \E p \in Pieces(down, room) : Read(p))
    BY DEF http_req_header_cb
  <1>2. CASE Gone
    BY <1>2, GoneStep
  <1>3. ASSUME NEW p \in Pieces(down, room), Read(p) PROVE ReqInv'
    <2> DEFINE buf == Buf(p)
               cb == Cb(p)
    <2>1. /\ TypeOK /\ Sizes /\ wkr \in WkrType /\ down \in Seq(ByteOf(ReqMsg)) /\ Len(wkr.buf) \in Nat
      BY Typed, TypeParts DEF ReqInv
    <2>2. room \in Int
      BY <2>1, ReqAssumption
    <2>3. Coming
      <3>1. Len(p) \in 1..Len(down)
        BY <2>1, <2>2, PieceIs
      <3>2. down # <<>>
        BY <3>1
      <3> QED BY <1>1, <3>2 DEF ReqInv, Turn, Alive, Has, Over
    <2>4. PICK r \in Req : r = head.req
      BY <2>3 DEF Coming
    <2> HIDE DEF room
    <2>5. /\ buf \in Seq(ByteOf(ReqMsg)) /\ Run(buf, ReqMsg[r], 0) /\ Len(buf) \in Nat
          /\ Len(buf) = Len(wkr.buf) + Len(p) /\ Len(p) \in Nat /\ Len(p) >= 1
          /\ Len(buf) + Len(Behind(down, Len(p))) = Len(wkr.buf) + Len(down)
          /\ Len(Behind(down, Len(p))) \in Nat
      BY <2>2, <2>3, <2>4, ReadFacts
    <2>6. Len(buf) >= 1 /\ Len(buf) <= ReqLen(r) /\ ReqLen(r) \in Nat /\ ReqHead \in Nat /\ ReqHead <= ReqLen(r)
      <3>1. Len(wkr.buf) + Len(down) <= ReqLen(r)
        BY <2>3, <2>4 DEF Coming
      <3>2. ReqLen(r) \in Nat /\ ReqHead \in Nat /\ ReqHead <= ReqLen(r) /\ Len(down) \in Nat
        BY <2>1, SizeIs DEF ReqLen
      <3> HIDE DEF buf
      <3> QED BY <2>1, <2>5, <3>1, <3>2
    <2>7. Len(Request(r)) = ReqLen(r)
      BY <2>1, RequestIs
    <2>8. Of(p) = r /\ (HasHeader(buf) <=> Len(buf) >= ReqHead)
      BY <2>5, <2>6, HeaderOfRun
    <2>9. /\ wkr' = [wkr EXCEPT !.buf = buf, !.req = IF HasHeader(buf) THEN Of(p) ELSE wkr.req, !.cb = cb]
          /\ down' = Behind(down, Len(p)) /\ head' = head /\ up' = up /\ size' = size /\ given' = given
      BY <1>3
    <2>10. /\ ~HasHeader(buf) => cb = "header"
           /\ (HasHeader(buf) /\ Len(buf) = ReqLen(r)) => cb = "app"
           /\ (HasHeader(buf) /\ Len(buf) # ReqLen(r)) => cb \in {"body", "file"}
      <3> HIDE DEF buf
      <3>1. cb = CASE ~HasHeader(buf) -> "header"
                   [] HasHeader(buf) /\ Len(buf) = ReqLen(r) -> "app"
                   [] HasHeader(buf) /\ Len(buf) # ReqLen(r) -> IF ReqLen(r) > WkrBuf THEN "file" ELSE "body"
        BY <1>1, <2>7, <2>8 DEF buf
      <3> QED BY <3>1
    <2> DEFINE q == IF HasHeader(buf) THEN Of(p) ELSE wkr.req
    <2>11. q \in Req /\ (HasHeader(buf) => q = r) /\ cb \in {"header", "body", "file", "app"}
      BY <2>1, <2>8, <2>10 DEF WkrType
    <2>12. wkr' = [wkr EXCEPT !.buf = buf, !.req = q, !.cb = cb]
      BY <2>9
    <2> HIDE DEF buf, cb, q
    <2>13. wkr' \in WkrType /\ wkr'.buf = buf /\ wkr'.req = q /\ wkr'.cb = cb /\ wkr'.env = wkr.env
      BY <2>1, <2>5, <2>11, <2>12 DEF WkrType
    <2>14. \/ /\ Len(buf) < ReqLen(r) /\ cb \in {"header", "body", "file"}
              /\ cb \in {"body", "file"} => q = r /\ Len(buf) >= ReqHead
           \/ Len(buf) = ReqLen(r) /\ cb = "app" /\ q = r
      <3>1. CASE ~HasHeader(buf)
        <4>1. ~(Len(buf) >= ReqHead) /\ Len(buf) < ReqLen(r)
          BY <2>5, <2>6, <2>8, <3>1
        <4> QED BY <2>10, <3>1, <4>1
      <3>2. CASE HasHeader(buf) /\ Len(buf) = ReqLen(r)
        BY <2>10, <2>11, <3>2
      <3>3. CASE HasHeader(buf) /\ Len(buf) # ReqLen(r)
        <4>1. Len(buf) < ReqLen(r)
          BY <2>5, <2>6, <3>3
        <4>2. Len(buf) >= ReqHead
          BY <2>8, <3>3
        <4> QED BY <2>10, <2>11, <3>3, <4>1, <4>2
      <3> QED BY <3>1, <3>2, <3>3
    <2>15. wkr'.buf = wkr.buf \o p
      BY <2>13 DEF buf
    <2> QED BY <2>2, <2>3, <2>4, <2>9, <2>13, <2>14, <2>15, ReadStep
  <1> QED BY <1>1, <1>2, <1>3

LEMMA BodyReadStep ==
  ASSUME ReqInv, http_req_body_cb
  PROVE  ReqInv'
  <1> DEFINE room == IF wkr.cb = "file" /\ Missing > WkrBuf THEN WkrBuf ELSE Missing
             Read(p) == /\ down' = Behind(down, Len(p))
                        /\ wkr' = [wkr EXCEPT !.buf = @ \o p,
                                              !.cb = IF Len(p) = Missing THEN "app" ELSE @]
                        /\ UNCHANGED <<head, up, size, given>>
  <1>1. wkr.cb \in {"body", "file"} /\ (Gone \/ \E p \in Pieces(down, room) : Read(p))
    BY DEF http_req_body_cb
  <1>2. CASE Gone
    BY <1>2, GoneStep
  <1>3. ASSUME NEW p \in Pieces(down, room), Read(p) PROVE ReqInv'
    <2> DEFINE buf == wkr.buf \o p
               cb == IF Len(p) = Missing THEN "app" ELSE wkr.cb
    <2>1. /\ TypeOK /\ Sizes /\ wkr \in WkrType /\ Len(wkr.buf) \in Nat
      BY Typed, TypeParts DEF ReqInv
    <2>2. Coming
      BY <1>1 DEF ReqInv, Turn, Alive, Has, Over
    <2>3. PICK r \in Req : r = head.req
      BY <2>2 DEF Coming
    <2>4. wkr.req = r /\ Len(wkr.buf) >= ReqHead /\ ReqHead \in Nat
      BY <1>1, <2>2, <2>3, ReqAssumption DEF Coming
    <2>5. Missing = ReqLen(r) - Len(wkr.buf) /\ ReqLen(r) \in Nat
      BY <2>1, <2>4, RequestIs, SizeIs DEF Missing
    <2>6. Missing \in Int /\ room \in Int /\ room <= Missing
      BY <2>1, <2>5, ReqAssumption
    <2> HIDE DEF room
    <2>7. /\ buf \in Seq(ByteOf(ReqMsg)) /\ Len(buf) \in Nat
          /\ Len(buf) = Len(wkr.buf) + Len(p) /\ Len(p) \in Nat /\ Len(p) <= room
      BY <2>2, <2>3, <2>6, ReadFacts
    <2>8. /\ wkr' = [wkr EXCEPT !.buf = buf, !.cb = cb]
          /\ down' = Behind(down, Len(p)) /\ head' = head /\ up' = up /\ size' = size /\ given' = given
      BY <1>3
    <2>9. cb \in {"app", "body", "file"} /\ (Len(p) = Missing => cb = "app") /\ (Len(p) # Missing => cb \in {"body", "file"})
      BY <1>1
    <2> HIDE DEF buf, cb
    <2>10. wkr' \in WkrType /\ wkr'.buf = buf /\ wkr'.req = r /\ wkr'.cb = cb /\ wkr'.env = wkr.env
      BY <2>1, <2>4, <2>7, <2>8, <2>9 DEF WkrType
    <2>11. \/ /\ Len(buf) < ReqLen(r) /\ cb \in {"header", "body", "file"}
              /\ cb \in {"body", "file"} => wkr'.req = r /\ Len(buf) >= ReqHead
           \/ Len(buf) = ReqLen(r) /\ cb = "app" /\ wkr'.req = r
      <3>1. CASE Len(p) = Missing
        <4>1. Len(buf) = ReqLen(r)
          BY <2>1, <2>5, <2>7, <3>1
        <4> QED BY <2>9, <2>10, <3>1, <4>1
      <3>2. CASE Len(p) # Missing
        <4>1. Len(buf) < ReqLen(r) /\ Len(buf) >= ReqHead
          BY <2>1, <2>4, <2>5, <2>6, <2>7, <3>2
        <4> QED BY <2>9, <2>10, <3>2, <4>1
      <3> QED BY <3>1, <3>2
    <2>12. wkr'.buf = wkr.buf \o p
      BY <2>10 DEF buf
    <2> QED BY <2>2, <2>3, <2>6, <2>8, <2>10, <2>11, <2>12, ReadStep
  <1> QED BY <1>1, <1>2, <1>3

-----------------------------------------------------------------------------
(* The head reads the response. *)

(* The client is given a further piece b.  If the head finds the response  *)
(* complete, then the worker has answered and nothing is left of it.       *)
LEMMA GiveStep ==
  ASSUME ReqInv, head.cb \in {"length", "body"}, NEW r \in Req, r = head.req,
         NEW b \in Seq(ByteOf(RespMsg)), up' \in Seq(ByteOf(RespMsg)),
         wkr' = wkr, down' = down, size' = size, given' = [given EXCEPT ![r] = @ \o b],
         head' \in HeadType, head'.req = r, head'.len = RespLen(r), head'.received <= RespLen(r),
         head'.cb = (IF head'.received >= RespLen(r) THEN "idle" ELSE "body"),
         RespHead + head'.received + Len(up') <= Heard + Len(up),
         Counted => /\ RespHead + head'.received + Len(up') = Heard + Len(up)
                    /\ Run(given[r], RespMsg[r], RespHead)
                    /\ Run(b, RespMsg[r], RespHead + Len(given[r]))
                    /\ Len(given[r]) + Len(b) = head'.received
                    /\ Run(up', RespMsg[r], RespHead + head'.received)
  PROVE  ReqInv'
  <1>1. /\ TypeOK /\ Sizes /\ Len(up) \in Nat /\ head.received \in Nat /\ given[r] \in Seq(ByteOf(RespMsg))
        /\ given \in [Req -> Seq(ByteOf(RespMsg))] /\ Len(given[r]) \in Nat
    BY Typed DEF ReqInv, TypeOK
  <1>2. /\ RespLen(r) \in Nat /\ AllLen(r) = RespHead + RespLen(r) /\ RespHead \in Nat /\ RespHead >= 2
        /\ AllLen(r) \in Nat
    BY <1>1, SizeIs DEF AllLen
  <1>3. head'.received \in Nat /\ Len(up') \in Nat /\ Heard \in Nat
    <2>1. head'.received \in Nat
      BY DEF HeadType
    <2>2. Len(up') \in Nat
      OBVIOUS
    <2> QED BY <1>1, <1>2, <2>1, <2>2, SMTT(30) DEF Heard
  <1>4. WkrSent \in Nat /\ WkrSent <= AllLen(r) /\ Heard + Len(up) <= WkrSent
    BY <1>1, SentIs DEF ReqInv, Hearing
  <1>5. Alive => Has \/ Over
    <2> SUFFICES ASSUME Alive, Coming PROVE FALSE
      BY DEF ReqInv, Turn
    <2>1. head.cb = "length"
      BY DEF Coming
    <2>2. WkrSent = 0
      BY <1>1, <2>1, SentIs DEF ReqInv
    <2> QED BY <1>1, <1>2, <1>3, <1>4, <2>2
  <1>6. given' \in [Req -> Seq(ByteOf(RespMsg))] /\ given'[r] = given[r] \o b
        /\ \A q \in Req : q # r => given'[q] = given[q]
    <2>1. given[r] \o b \in Seq(ByteOf(RespMsg))
      BY <1>1, ConcatProperties
    <2> DEFINE S == Seq(ByteOf(RespMsg))
               g == given[r] \o b
    <2>2. given \in [Req -> S] /\ g \in S /\ given' = [given EXCEPT ![r] = g]
      BY <1>1, <2>1
    <2> HIDE DEF S, g
    <2>3. given' \in [Req -> S] /\ given'[r] = g /\ \A q \in Req : q # r => given'[q] = given[q]
      BY <2>2
    <2> QED BY <2>3 DEF S, g
  <1>7. TypeOK'
    BY <1>1, <1>6, TypeParts DEF Sizes
  <1>8. Counted' = Counted /\ Alive' = Alive
    BY DEF Counted, May, Alive
  <1>9. /\ Counted => /\ Run(given'[r], RespMsg[r], RespHead) /\ Len(given'[r]) = head'.received
                      /\ \A q \in Req : q > r => given'[q] = <<>>
                      /\ \A q \in Req : q < r => Passed(q)'
    <2> SUFFICES ASSUME Counted
                 PROVE  /\ Run(given'[r], RespMsg[r], RespHead) /\ Len(given'[r]) = head'.received
                        /\ \A q \in Req : q > r => given'[q] = <<>>
                        /\ \A q \in Req : q < r => Passed(q)'
      OBVIOUS
    <2>1. Run(given[r] \o b, RespMsg[r], RespHead) /\ Len(given[r] \o b) = Len(given[r]) + Len(b)
      BY <1>1, <1>2, RunJoin
    <2>2. \A q \in Req : (q > r => q # r) /\ (q < r => q # r)
      BY DEF Req
    <2>3. /\ \A q \in Req : q > r => given[q] = <<>>
          /\ \A q \in Req : q < r => Passed(q)
      BY DEF ReqInv, Intact
    <2>4. \A q \in Req : q # r /\ Passed(q) => Passed(q)'
      BY <1>6 DEF Passed, RespLen
    <2> QED BY <1>6, <2>1, <2>2, <2>3, <2>4
  <1>10. CASE head'.received < RespLen(r)
    <2>1. head'.cb = "body"
      BY <1>2, <1>3, <1>10
    <2>2. (Has => Has') /\ (Over' <=> Over)
      <3>1. ReqLen(head.req)' = ReqLen(head.req)
        BY DEF ReqLen
      <3>2. Over' <=> Over
        BY <2>1 DEF Over
      <3>3. Has => Has'
        BY <2>1, <3>1 DEF Has
      <3> QED BY <3>2, <3>3
    <2>3. Turn'
      BY <1>5, <1>8, <2>2 DEF Turn
    <2>4. Asking'
      BY <2>1 DEF Asking
    <2>5. WkrSent' = WkrSent
      BY <1>8, <2>2 DEF WkrSent, AllLen, RespLen
    <2>6. Heard' = RespHead + head'.received
      BY <2>1 DEF Heard
    <2>7. Heard' + Len(up') <= WkrSent
      BY <1>1, <1>2, <1>3, <1>4, <2>6
    <2>8. Hearing'
      <3>1. RespLen(head.req)' = RespLen(r)
        BY DEF RespLen
      <3> QED BY <1>10, <2>1, <2>5, <2>7, <3>1 DEF Hearing
    <2>9. Intact'
      <3> SUFFICES ASSUME Counted PROVE Intact'
        BY <1>8 DEF Intact
      <3>1. Alive => Heard' + Len(up') = WkrSent'
        <4>1. Alive => Heard + Len(up) = WkrSent
          BY DEF ReqInv, Intact
        <4> QED BY <2>5, <2>6, <4>1
      <3> QED BY <1>8, <1>9, <2>1, <3>1 DEF Intact
    <2> QED BY <1>7, <2>3, <2>4, <2>8, <2>9 DEF ReqInv
  <1>11. CASE head'.received = RespLen(r)
    <2>1. head'.cb = "idle"
      BY <1>2, <1>3, <1>11
    <2>2. WkrSent = AllLen(r) /\ Len(up') = 0
      BY <1>1, <1>2, <1>3, <1>4, <1>11
    <2>3. up' = <<>>
      BY <2>2, EmptySeq
    <2>4. Alive => Over
      <3> SUFFICES ASSUME Alive, Has PROVE FALSE
        BY <1>5
      <3>1. WkrSent < AllLen(r)
        BY <1>1, SentIs DEF ReqInv
      <3> QED BY <1>2, <1>4, <2>2, <3>1
    <2>5. Turn'
      BY <1>8, <2>1, <2>4 DEF Turn, Over
    <2>6. Asking' /\ Hearing'
      BY <2>1, <2>3 DEF Asking, Hearing
    <2>7. Intact'
      <3> SUFFICES ASSUME Counted PROVE Intact'
        BY <1>8 DEF Intact
      <3>1. Passed(r)'
        <4>1. RespLen(r)' = RespLen(r)
          BY DEF RespLen
        <4> QED BY <1>9, <1>11, <4>1 DEF Passed
      <3> QED BY <1>9, <2>1, <3>1 DEF Intact
    <2> QED BY <1>7, <2>5, <2>6, <2>7 DEF ReqInv
  <1> QED BY <1>2, <1>3, <1>10, <1>11

LEMMA RespReadStep ==
  ASSUME ReqInv, wr_resp_read_cb
  PROVE  ReqInv'
  <1> DEFINE H(p) == [head EXCEPT !.received = @ + Len(p)]
             Read(p) == /\ up' = Behind(up, Len(p))
                        /\ given' = [given EXCEPT ![head.req] = @ \o p]
                        /\ head' = IF Complete(H(p).received) THEN Processed(H(p)) ELSE H(p)
                        /\ UNCHANGED <<wkr, down, size>>
  <1>1. head.cb = "body" /\ (Lost \/ \E p \in Pieces(up, Room) : Read(p))
    BY DEF wr_resp_read_cb
  <1>2. CASE Lost
    BY <1>2, LostStep
  <1>3. ASSUME NEW p \in Pieces(up, Room), Read(p) PROVE ReqInv'
    <2>1. PICK r \in Req : r = head.req
      BY <1>1 DEF ReqInv, Asking
    <2>2. /\ TypeOK /\ Sizes /\ head \in HeadType /\ up \in Seq(ByteOf(RespMsg)) /\ Len(up) \in Nat
          /\ head.received \in Nat
      BY Typed, TypeParts DEF ReqInv
    <2>3. head.len = RespLen(r) /\ RespLen(r) \in Nat /\ head.received < head.len /\ RespHead \in Nat
      BY <1>1, <2>1, <2>2, SizeIs DEF ReqInv, Hearing
    <2>4. Room \in Int /\ Room <= RespLen(r) - head.received
      BY <2>2, <2>3, ReqAssumption DEF Room
    <2>5. /\ p \in Seq(ByteOf(RespMsg)) /\ Len(p) \in 1..Len(up) /\ Len(p) <= Room
          /\ Behind(up, Len(p)) \in Seq(ByteOf(RespMsg)) /\ Len(Behind(up, Len(p))) = Len(up) - Len(p)
      BY <2>2, <2>4, PieceIs
    <2> DEFINE n == head.received + Len(p)
    <2>6. n \in Nat /\ n <= RespLen(r) /\ Len(p) \in Nat
      BY <2>2, <2>3, <2>4, <2>5
    <2>7. /\ up' = Behind(up, Len(p)) /\ given' = [given EXCEPT ![r] = @ \o p]
          /\ wkr' = wkr /\ down' = down /\ size' = size
          /\ head' = IF Complete(H(p).received) THEN Processed(H(p)) ELSE H(p)
      BY <1>3, <2>1
    <2>8. H(p) = [head EXCEPT !.received = n] /\ H(p).received = n
      BY <2>2 DEF HeadType
    <2> HIDE DEF n, H
    <2>9. /\ head' \in HeadType /\ head'.req = r /\ head'.len = RespLen(r) /\ head'.received = n
          /\ head'.cb = IF n >= RespLen(r) THEN "idle" ELSE "body"
      <3>1. Complete(n) <=> n >= RespLen(r)
        BY <2>3 DEF Complete
      <3>2. head' = IF n >= RespLen(r) THEN [head EXCEPT !.received = n, !.cb = "idle"]
                    ELSE [head EXCEPT !.received = n]
        BY <2>2, <2>7, <2>8, <3>1 DEF Processed, HeadType
      <3> QED BY <1>1, <2>1, <2>2, <2>3, <2>6, <3>2 DEF HeadType
    <2>10. Heard = RespHead + head.received
      BY <1>1 DEF Heard
    <2>11. RespHead + n + Len(up') = Heard + Len(up)
      <3>1. Len(up') = Len(up) - Len(p)
        BY <2>5, <2>7, Zenon
      <3>2. RespHead + (head.received + Len(p)) + (Len(up) - Len(p)) = RespHead + head.received + Len(up)
        BY <2>2, <2>3, <2>6
      <3> QED BY <2>10, <3>1, <3>2, Zenon DEF n
    <2>12. Counted => /\ Run(given[r], RespMsg[r], RespHead)
                      /\ Run(p, RespMsg[r], RespHead + Len(given[r]))
                      /\ Len(given[r]) + Len(p) = n
                      /\ Run(up', RespMsg[r], RespHead + n)
      <3> SUFFICES ASSUME Counted
                   PROVE  /\ Run(given[r], RespMsg[r], RespHead)
                          /\ Run(p, RespMsg[r], RespHead + Len(given[r]))
                          /\ Len(given[r]) + Len(p) = n
                          /\ Run(up', RespMsg[r], RespHead + n)
        OBVIOUS
      <3>1. /\ Run(given[r], RespMsg[r], RespHead) /\ Len(given[r]) = head.received
            /\ Run(up, RespMsg[r], RespHead + head.received)
        BY <1>1, <2>1 DEF ReqInv, Intact
      <3>2. RespHead + head.received \in Nat /\ (RespHead + head.received) + Len(p) = RespHead + n
        BY <2>2, <2>3, <2>6 DEF n
      <3>3. Run(p, RespMsg[r], RespHead + head.received)
            /\ Run(Behind(up, Len(p)), RespMsg[r], (RespHead + head.received) + Len(p))
        BY <2>2, <2>4, <3>1, <3>2, PieceRuns
      <3> QED BY <2>7, <3>1, <3>2, <3>3, Zenon DEF n
    <2>13. RespHead + n + Len(up') <= Heard + Len(up)
      BY <2>2, <2>3, <2>10, <2>11
    <2>14. up' \in Seq(ByteOf(RespMsg))
      BY <2>5, <2>7
    <2> QED BY <1>1, <2>1, <2>5, <2>6, <2>7, <2>9, <2>11, <2>12, <2>13, <2>14, GiveStep
  <1> QED BY <1>1, <1>2, <1>3

(* What the buffer holds after a recv behind its first n bytes. *)
LEMMA OverwriteIs ==
  ASSUME NEW T, NEW b \in Seq(T), NEW n \in Nat, n <= Len(b), NEW p \in Seq(T)
  PROVE  Overwrite(b, n, p) \in Seq(T) /\ Len(p) <= Len(Overwrite(b, n, p))
  <1> DEFINE x == SubSeq(b, 0 + 1, n)
             y == IF n + Len(p) < Len(b) THEN Behind(b, n + Len(p)) ELSE <<>>
  <1>1. Len(b) \in Nat /\ Len(p) \in Nat /\ 0 \in Nat /\ 0 <= n /\ n - 0 = n /\ Len(b) <= Len(b) /\ n + Len(p) \in Nat
    OBVIOUS
  <1>2. x \in Seq(T) /\ Len(x) = n - 0
    BY <1>1, PartType
  <1>3. y \in Seq(T) /\ Len(y) \in Nat
    <2>1. CASE n + Len(p) < Len(b)
      <3>1. n + Len(p) <= Len(b)
        BY <1>1, <2>1
      <3>2. Behind(b, n + Len(p)) \in Seq(T)
        BY <1>1, <3>1, PartType DEF Behind
      <3> QED BY <2>1, <3>2
    <2>2. CASE ~(n + Len(p) < Len(b))
      BY <2>2
    <2> QED BY <2>1, <2>2
  <1>4. Overwrite(b, n, p) = (x \o p) \o y
    <2>1. 0 + 1 = 1
      OBVIOUS
    <2> QED BY <2>1, Zenon DEF Overwrite
  <1> HIDE DEF x, y
  <1>5. x \o p \in Seq(T) /\ Len(x \o p) = Len(x) + Len(p)
    BY <1>2, ConcatProperties
  <1>6. (x \o p) \o y \in Seq(T) /\ Len((x \o p) \o y) = Len(x \o p) + Len(y)
    BY <1>3, <1>5, ConcatProperties
  <1>7. Len(p) <= (n + Len(p)) + Len(y)
    BY <1>1, <1>3
  <1>8. Len((x \o p) \o y) = (n + Len(p)) + Len(y)
    BY <1>1, <1>2, <1>5, <1>6, Zenon
  <1> QED BY <1>4, <1>6, <1>7, <1>8, Zenon

LEMMA OverwriteNothing ==
  ASSUME NEW T, NEW p \in Seq(T)
  PROVE  Overwrite(<<>>, 0, p) = p
  <1>1. Len(<<>>) = 0 /\ Len(p) \in Nat /\ ~(0 + Len(p) < 0)
    OBVIOUS
  <1>2. SubSeq(<<>>, 1, 0) = <<>>
    OBVIOUS
  <1>3. Overwrite(<<>>, 0, p) = (<<>> \o p) \o <<>>
    BY <1>1, <1>2, Zenon DEF Overwrite
  <1>4. <<>> \o p = p /\ p \o <<>> = p
    BY ConcatEmptySeq
  <1> QED BY <1>3, <1>4, Zenon

(* What the parser makes of bytes of responses. *)
LEMMA ParseIs ==
  ASSUME NEW buf \in Seq(ByteOf(RespMsg)), scgi_parse(buf) # NoScgi
  PROVE  LET body == scgi_parse(buf).body
         IN  /\ body \in Seq(ByteOf(RespMsg)) /\ Len(body) + RespHead <= Len(buf) /\ Len(buf) >= RespHead
             /\ Len(buf) # RespHead + 1 => body = Behind(buf, RespHead)
  <1>1. HasHeader(buf)
    BY Zenon DEF scgi_parse
  <1>2. buf # <<>> /\ Len(buf) \in Nat /\ Len(buf) >= 1
    BY <1>1, EmptySeq DEF HasHeader
  <1>3. buf[1] \in ByteOf(RespMsg)
    BY <1>2
  <1>4. PICK q \in Req : buf[1].msg = RespMsg[q]
    BY <1>3 DEF ByteOf
  <1>5. MsgHead(buf[1].msg) = RespHead /\ RespHead \in Nat
    BY <1>4, Messages, ReqAssumption
  <1>6. Len(buf) >= RespHead
    BY <1>1, <1>5 DEF HasHeader
  <1> DEFINE rest == SubSeq(buf, RespHead + 1, Len(buf))
  <1>7. scgi_parse(buf).body = IF Len(buf) = RespHead + 1 THEN <<>> ELSE rest
    BY <1>1, <1>5 DEF scgi_parse
  <1>8. rest \in Seq(ByteOf(RespMsg)) /\ Len(rest) = Len(buf) - RespHead
    BY <1>2, <1>5, <1>6, PartType
  <1>9. rest = Behind(buf, RespHead)
    BY DEF Behind
  <1> HIDE DEF rest
  <1>10. CASE Len(buf) = RespHead + 1
    <2>1. scgi_parse(buf).body = <<>>
      BY <1>7, <1>10
    <2> QED BY <1>2, <1>5, <1>6, <1>10, <2>1
  <1>11. CASE Len(buf) # RespHead + 1
    <2>1. scgi_parse(buf).body = rest
      BY <1>7, <1>11
    <2>2. (Len(buf) - RespHead) + RespHead <= Len(buf)
      BY <1>2, <1>5
    <2> QED BY <1>6, <1>8, <1>9, <2>1, <2>2, Zenon
  <1> QED BY <1>10, <1>11

LEMMA ParsesRun ==
  ASSUME NEW r \in Req, NEW buf \in Seq(ByteOf(RespMsg)), Run(buf, RespMsg[r], 0), Len(buf) >= RespHead
  PROVE  scgi_parse(buf) # NoScgi
  <1>1. RespHead \in Nat /\ RespHead >= 2 /\ Len(buf) \in Nat /\ 1 \in 1..Len(buf)
    BY ReqAssumption
  <1>2. buf[1] = [msg |-> RespMsg[r], at |-> 0 + 1]
    BY <1>1, Zenon DEF Run
  <1>3. buf[1].msg = RespMsg[r]
    BY <1>2
  <1>4. MsgHead(RespMsg[r]) = RespHead /\ RespMsg[r] # ""
    BY Messages
  <1>5. ASSUME NEW i \in 1..RespHead PROVE buf[i] = [msg |-> RespMsg[r], at |-> i]
    <2>1. i \in 1..Len(buf) /\ 0 + i = i
      BY <1>1
    <2> QED BY <2>1 DEF Run
  <1>6. buf # <<>>
    BY <1>1
  <1>7. HasHeader(buf)
    BY <1>3, <1>4, <1>5, <1>6, Zenon DEF HasHeader
  <1>8. scgi_parse(buf).msg = RespMsg[r]
    BY <1>3, <1>7 DEF scgi_parse
  <1>9. NoScgi.msg = ""
    BY DEF NoScgi
  <1> QED BY <1>4, <1>8, <1>9, Zenon

(* The SCGI header is not found in what was read: the piece was not a      *)
(* usual one.                                                              *)
LEMMA UnparsedStep ==
  ASSUME ReqInv, ~Counted, head.cb = "length", NEW p \in Seq(ByteOf(RespMsg)),
         up' \in Seq(ByteOf(RespMsg)), Len(up') <= Len(up), NEW buf \in Seq(ByteOf(RespMsg)), Len(p) <= Len(buf),
         head' = [head EXCEPT !.buf = buf, !.received = Len(p)],
         wkr' = wkr, down' = down, size' = size, given' = given
  PROVE  ReqInv'
  <1>1. TypeOK /\ head \in HeadType /\ Len(up) \in Nat /\ head.req \in Req /\ Len(p) \in Nat
    BY Typed, TypeParts DEF ReqInv, Asking
  <1>2. /\ head' \in HeadType /\ head'.cb = "length" /\ head'.req = head.req /\ head'.sent = head.sent
        /\ head'.buf = buf /\ head'.received = Len(p)
    BY <1>1 DEF HeadType
  <1>3. TypeOK'
    BY <1>1, <1>2, TypeParts DEF Sizes
  <1>4. ~Counted' /\ Alive' = Alive
    BY DEF Counted, May, Alive
  <1>5. /\ ReqLen(head.req)' = ReqLen(head.req) /\ AllLen(head.req)' = AllLen(head.req)
    BY <1>2 DEF ReqLen, AllLen, RespLen
  <1>6. HeadSent' = HeadSent
    BY <1>2, <1>5 DEF HeadSent
  <1>7. (Coming => Coming') /\ (Has => Has') /\ (Over <=> Over')
    <2>1. Coming => Coming'
      BY <1>2, <1>5, <1>6 DEF Coming, Reading, HeadOpen
    <2>2. Has => Has'
      BY <1>2, <1>5 DEF Has
    <2>3. Over <=> Over'
      BY <1>2 DEF Over
    <2> QED BY <2>1, <2>2, <2>3
  <1>8. Turn'
    BY <1>4, <1>7 DEF ReqInv, Turn
  <1>9. Asking'
    BY <1>1, <1>2 DEF Asking
  <1>10. Hearing'
    <2>1. WkrSent' = WkrSent
      BY <1>4, <1>5, <1>7 DEF WkrSent
    <2>2. WkrSent \in Nat /\ 0 + Len(up) <= WkrSent
      BY <1>1, SentIs DEF ReqInv, Hearing, Heard
    <2>3. Heard' = 0 /\ Len(up') \in Nat
      BY <1>2 DEF Heard
    <2>4. Heard' + Len(up') <= WkrSent'
      BY <1>1, <2>1, <2>2, <2>3
    <2> QED BY <1>2, <2>4 DEF Hearing
  <1>11. Intact'
    BY <1>4 DEF Intact
  <1> QED BY <1>3, <1>8, <1>9, <1>10, <1>11 DEF ReqInv

LEMMA LenReadStep ==
  ASSUME ReqInv, wr_resp_len_read_cb
  PROVE  ReqInv'
  <1> DEFINE room == RespBuf - head.received
             Buf(p) == Overwrite(head.buf, head.received, p)
             Parsed(p) == scgi_parse(SubSeq(Buf(p), 1, Len(p)))
             len == RespLen(head.req)
             H(p) == [head EXCEPT !.buf = <<>>, !.received = Len(Parsed(p).body), !.len = len]
             Read(p) == /\ up' = Behind(up, Len(p))
                        /\ IF Parsed(p) = NoScgi
                             THEN /\ head' = [head EXCEPT !.buf = Buf(p), !.received = Len(p)]
                                  /\ UNCHANGED given
                             ELSE /\ head' = IF Len(Parsed(p).body) = len THEN Processed(H(p))
                                             ELSE [H(p) EXCEPT !.cb = "body"]
                                  /\ given' = [given EXCEPT ![head.req] = @ \o Parsed(p).body]
                        /\ UNCHANGED <<wkr, down, size>>
  <1>1. head.cb = "length" /\ (Lost \/ \E p \in FirstPieces(room) : Read(p))
    BY DEF wr_resp_len_read_cb
  <1>2. CASE Lost
    BY <1>2, LostStep
  <1>3. ASSUME NEW p \in FirstPieces(room), Read(p) PROVE ReqInv'
    <2> DEFINE T == ByteOf(RespMsg)
               buf == Buf(p)
               seen == SubSeq(buf, 0 + 1, Len(p))
               scgi == scgi_parse(seen)
    <2>1. PICK r \in Req : r = head.req
      BY <1>1 DEF ReqInv, Asking
    <2>2. /\ TypeOK /\ Sizes /\ head \in HeadType /\ up \in Seq(T) /\ Len(up) \in Nat
          /\ head.received \in Nat /\ head.buf \in Seq(T) /\ head.received <= Len(head.buf)
      BY <1>1, Typed, TypeParts DEF ReqInv, Hearing
    <2>3. room \in Int /\ p \in Pieces(up, room)
      BY <2>2, ReqAssumption DEF FirstPieces
    <2> HIDE DEF room
    <2>4. /\ p \in Seq(T) /\ Len(p) \in 1..Len(up)
          /\ Behind(up, Len(p)) \in Seq(T) /\ Len(Behind(up, Len(p))) = Len(up) - Len(p)
      BY <2>2, <2>3, PieceIs
    <2>5. Len(p) \in Nat /\ Len(p) >= 1 /\ Len(p) <= Len(up)
      BY <2>2, <2>4
    <2>6. buf \in Seq(T) /\ Len(p) <= Len(buf)
      BY <2>2, <2>4, OverwriteIs
    <2>7. seen \in Seq(T) /\ Len(seen) = Len(p)
      <3>1. 0 \in Nat /\ 0 <= Len(p) /\ Len(p) - 0 = Len(p)
        BY <2>5
      <3>2. seen \in Seq(T) /\ Len(seen) = Len(p) - 0
        BY <2>5, <2>6, <3>1, PartType
      <3> QED BY <3>1, <3>2, Zenon
    <2>8. Parsed(p) = scgi
      <3>1. 0 + 1 = 1
        OBVIOUS
      <3> QED BY <3>1, Zenon
    (* An undisturbed head has read the first bytes of the response. *)
    <2>9. Counted => /\ Run(p, RespMsg[r], 0) /\ Run(Behind(up, Len(p)), RespMsg[r], 0 + Len(p))
                     /\ seen = p /\ Len(p) >= RespHead /\ Len(p) # RespHead + 1 /\ given[r] = <<>>
      <3> SUFFICES ASSUME Counted
                   PROVE  /\ Run(p, RespMsg[r], 0) /\ Run(Behind(up, Len(p)), RespMsg[r], 0 + Len(p))
                          /\ seen = p /\ Len(p) >= RespHead /\ Len(p) # RespHead + 1 /\ given[r] = <<>>
        OBVIOUS
      <3>1. Run(up, RespMsg[r], 0) /\ head.received = 0 /\ head.buf = <<>> /\ given[r] = <<>>
        BY <1>1, <2>1 DEF ReqInv, Intact
      <3>2. Run(p, RespMsg[r], 0) /\ Run(Behind(up, Len(p)), RespMsg[r], 0 + Len(p))
        BY <2>2, <2>3, <3>1, PieceRuns
      <3>3. buf = p
        <4>1. Overwrite(<<>>, 0, p) = p
          BY <2>4, OverwriteNothing
        <4> QED BY <3>1, <4>1, Zenon
      <3>4. seen = p
        <4>1. SubSeq(p, 1, Len(p)) = p
          BY <2>4, SubSeqFull
        <4>2. 0 + 1 = 1
          OBVIOUS
        <4> QED BY <3>3, <4>1, <4>2, Zenon
      <3>5. Usual(p)
        BY DEF Counted, FirstPieces
      <3>6. Len(p) >= RespHead /\ Len(p) # RespHead + 1
        BY <2>5, <3>5, ReqAssumption DEF Usual
      <3> QED BY <3>1, <3>2, <3>4, <3>6, Zenon
    <2>10. /\ up' = Behind(up, Len(p)) /\ wkr' = wkr /\ down' = down /\ size' = size
           /\ scgi = NoScgi => head' = [head EXCEPT !.buf = buf, !.received = Len(p)] /\ given' = given
           /\ scgi # NoScgi =>
                /\ head' = IF Len(scgi.body) = len
                             THEN Processed([head EXCEPT !.buf = <<>>, !.received = Len(scgi.body), !.len = len])
                             ELSE [[head EXCEPT !.buf = <<>>, !.received = Len(scgi.body), !.len = len]
                                     EXCEPT !.cb = "body"]
                /\ given' = [given EXCEPT ![r] = @ \o scgi.body]
      <3> HIDE DEF scgi
      <3> QED BY <1>3, <2>1, <2>8
    <2>11. Len(up') = Len(up) - Len(p) /\ up' \in Seq(T)
      BY <2>4, <2>10
    <2>12. CASE scgi = NoScgi
      <3>1. ~Counted
        <4> SUFFICES ASSUME Counted PROVE FALSE
          OBVIOUS
        <4>1. seen = p /\ Run(p, RespMsg[r], 0) /\ Len(p) >= RespHead
          BY <2>9
        <4>2. scgi_parse(p) # NoScgi
          BY <2>4, <4>1, ParsesRun
        <4> HIDE DEF seen
        <4> QED BY <2>12, <4>1, <4>2, Zenon
      <3>2. Len(up') <= Len(up)
        BY <2>2, <2>5, <2>11
      <3> HIDE DEF scgi, buf
      <3> QED BY <1>1, <2>4, <2>6, <2>10, <2>11, <2>12, <3>1, <3>2, UnparsedStep
    <2>13. CASE scgi # NoScgi
      <3> DEFINE b == scgi.body
      <3>1. /\ b \in Seq(T) /\ Len(b) + RespHead <= Len(seen)
            /\ Len(seen) # RespHead + 1 => b = Behind(seen, RespHead)
        <4> HIDE DEF seen
        <4> QED BY <2>7, <2>13, ParseIs
      <3> HIDE DEF scgi, buf, seen, b
      <3>2. Len(b) \in Nat /\ RespHead \in Nat /\ Len(b) + RespHead <= Len(p)
        BY <2>7, <3>1, ReqAssumption
      <3>3. /\ RespLen(r) \in Nat /\ AllLen(r) = RespHead + RespLen(r) /\ len = RespLen(r)
            /\ size[r].content \in Contents /\ RespLen(r) = HttpHead + size[r].content
        BY <2>1, <2>2, SizeIs DEF AllLen, RespLen
      <3>4. Heard = 0 /\ Heard + Len(up) <= WkrSent /\ WkrSent \in Nat /\ WkrSent <= AllLen(r)
        BY <1>1, <2>1, <2>2, SentIs DEF ReqInv, Hearing, Heard
      <3>5. Len(b) <= RespLen(r)
        BY <2>2, <2>5, <3>2, <3>3, <3>4
      <3>6. head' = [head EXCEPT !.buf = <<>>, !.received = Len(b), !.len = RespLen(r),
                                 !.cb = IF Len(b) >= RespLen(r) THEN "idle" ELSE "body"]
        <4>1. Len(b) = RespLen(r) <=> Len(b) >= RespLen(r)
          BY <3>2, <3>3, <3>5
        <4>2. head' = IF Len(b) = RespLen(r)
                        THEN Processed([head EXCEPT !.buf = <<>>, !.received = Len(b), !.len = RespLen(r)])
                        ELSE [[head EXCEPT !.buf = <<>>, !.received = Len(b), !.len = RespLen(r)]
                                EXCEPT !.cb = "body"]
          BY <2>10, <2>13, <3>3, Zenon DEF b
        <4> QED BY <2>2, <4>1, <4>2 DEF Processed, HeadType
      <3>7. /\ head' \in HeadType /\ head'.req = r /\ head'.len = RespLen(r) /\ head'.received = Len(b)
            /\ head'.cb = IF Len(b) >= RespLen(r) THEN "idle" ELSE "body"
        <4> DEFINE e == <<>>
                   S == Seq(T)
                   L == {0} \cup {HttpHead + n : n \in Contents}
        <4>1. e \in S /\ RespLen(r) \in L
          BY <3>3
        <4>2. /\ HeadType = [cb : {"idle", "header", "upload", "length", "body", "lost"},
                             req : 0..NReq, sent : Nat, buf : S, received : Nat, len : L]
              /\ head' = [head EXCEPT !.buf = e, !.received = Len(b), !.len = RespLen(r),
                                      !.cb = IF Len(b) >= RespLen(r) THEN "idle" ELSE "body"]
          BY <3>6 DEF HeadType
        <4> HIDE DEF e, S, L
        <4> QED BY <2>1, <2>2, <3>2, <4>1, <4>2
      <3>8. RespHead + Len(b) + Len(up') <= Heard + Len(up)
        BY <2>2, <2>5, <2>11, <3>2, <3>4
      <3>9. Counted => /\ RespHead + Len(b) + Len(up') = Heard + Len(up)
                       /\ Run(given[r], RespMsg[r], RespHead)
                       /\ Run(b, RespMsg[r], RespHead + Len(given[r]))
                       /\ Len(given[r]) + Len(b) = Len(b)
                       /\ Run(up', RespMsg[r], RespHead + Len(b))
        <4> SUFFICES ASSUME Counted
                     PROVE  /\ RespHead + Len(b) + Len(up') = Heard + Len(up)
                            /\ Run(given[r], RespMsg[r], RespHead)
                            /\ Run(b, RespMsg[r], RespHead + Len(given[r]))
                            /\ Len(given[r]) + Len(b) = Len(b)
                            /\ Run(up', RespMsg[r], RespHead + Len(b))
          OBVIOUS
        <4>1. /\ seen = p /\ Len(p) >= RespHead /\ Len(p) # RespHead + 1 /\ given[r] = <<>>
              /\ Run(p, RespMsg[r], 0) /\ Run(Behind(up, Len(p)), RespMsg[r], 0 + Len(p))
          BY <2>9
        <4>2. b = SubSeq(p, RespHead + 1, Len(p))
          BY <3>1, <4>1 DEF Behind
        <4>3. Len(p) <= Len(p) /\ RespHead <= Len(p) /\ 0 \in Nat /\ 0 + RespHead = RespHead /\ 0 + Len(p) = Len(p)
          BY <2>5, <3>2, <4>1
        <4>4. Len(b) = Len(p) - RespHead
          <5>1. Len(SubSeq(p, RespHead + 1, Len(p))) = Len(p) - RespHead
            BY <2>4, <2>5, <3>2, <4>3, PartLen, Zenon
          <5> QED BY <4>2, <5>1, Zenon
        <4>5. Run(b, RespMsg[r], 0 + RespHead)
          BY <2>4, <2>5, <3>2, <4>1, <4>2, <4>3, RunPart
        <4>6. Len(given[r]) = 0 /\ RespHead + Len(given[r]) = RespHead /\ Len(given[r]) + Len(b) = Len(b)
          <5>1. Len(given[r]) = 0
            BY <4>1
          <5> QED BY <3>2, <5>1
        <4>7. RespHead + Len(b) = Len(p)
          BY <2>5, <3>2, <4>4
        <4>8. Run(up', RespMsg[r], RespHead + Len(b))
          BY <2>10, <4>1, <4>3, <4>7, Zenon
        <4>9. RespHead + Len(b) + Len(up') = Heard + Len(up)
          BY <2>2, <2>5, <2>11, <3>4, <4>7
        <4>10. Run(given[r], RespMsg[r], RespHead)
          BY <4>1, NoRun
        <4>11. Run(b, RespMsg[r], RespHead + Len(given[r]))
          BY <4>3, <4>5, <4>6, Zenon
        <4> QED BY <4>6, <4>8, <4>9, <4>10, <4>11, Zenon
      <3>10. given' = [given EXCEPT ![r] = @ \o b]
        BY <2>10, <2>13 DEF b
      <3>11. /\ head'.received <= RespLen(r)
             /\ head'.cb = (IF head'.received >= RespLen(r) THEN "idle" ELSE "body")
             /\ RespHead + head'.received + Len(up') <= Heard + Len(up)
             /\ Counted => /\ RespHead + head'.received + Len(up') = Heard + Len(up)
                           /\ Run(given[r], RespMsg[r], RespHead)
                           /\ Run(b, RespMsg[r], RespHead + Len(given[r]))
                           /\ Len(given[r]) + Len(b) = head'.received
                           /\ Run(up', RespMsg[r], RespHead + head'.received)
        BY <3>5, <3>7, <3>8, <3>9, Zenon
      <3>12. wkr' = wkr /\ down' = down /\ size' = size /\ head.cb \in {"length", "body"}
        BY <1>1, <2>10, Zenon
      <3>13. b \in Seq(ByteOf(RespMsg)) /\ up' \in Seq(ByteOf(RespMsg))
        BY <2>11, <3>1
      <3>14. head' \in HeadType /\ head'.req = r /\ head'.len = RespLen(r)
        BY <3>7, Zenon
      <3> HIDE DEF T
      <3> QED BY <2>1, <3>10, <3>11, <3>12, <3>13, <3>14, GiveStep
    <2> QED BY <2>12, <2>13
  <1> QED BY <1>1, <1>2, <1>3

-----------------------------------------------------------------------------
(* Every step keeps the invariant. *)
LEMMA StepReq == ReqInv /\ [Next]_vars => ReqInv'
  <1> SUFFICES ASSUME ReqInv, [Next]_vars PROVE ReqInv'
    OBVIOUS
  <1>1. CASE HeadStep
    BY <1>1, ProcessingStep, HeaderWriteStep, BodyWriteStep, LenReadStep, RespReadStep DEF HeadStep
  <1>2. CASE WkrStep
    BY <1>2, HeaderReadStep, BodyReadStep, ProcessStep, ScgiWriteStep, HttpWriteStep, ContentWriteStep DEF WkrStep
  <1>3. CASE wr_wkr_free
    BY <1>3, LostStep DEF wr_wkr_free
  <1>4. CASE Crash
    BY <1>4, GoneStep DEF Crash
  <1>5. CASE UNCHANGED vars
    <2>1. wkr' = wkr /\ head' = head /\ down' = down /\ up' = up /\ size' = size /\ given' = given
      BY <1>5 DEF vars
    <2>2. ReqInv' <=> ReqInv
      BY <2>1 DEF ReqInv, TypeOK, Turn, Alive, Coming, Reading, Has, Over, HeadOpen, HeadSent, ReqLen,
                  Asking, Scgi, InFile, Request, Hearing, Heard, WkrSent, AllLen, RespLen, Intact, Counted, May, Passed
    <2> QED BY <2>2
  <1> QED BY <1>1, <1>2, <1>3, <1>4, <1>5 DEF Next

(* Requests and responses pass the connection of wr_worker.c and           *)
(* wkr_http_request.c unchanged: whatever lengths headers, bodies, contents *)
(* and buffers have, into whatever pieces the sockets cut them, and        *)
(* whenever the worker dies or is freed, the application is given exactly  *)
(* the request that was sent, and a client is given a prefix of the        *)
(* response to its own request, the whole of it when the head regards the  *)
(* request as processed (unless the SCGI header itself is cut).            *)
THEOREM BytesStayIntact == Spec => []BytesIntact
  <1>1. ReqInv => BytesIntact
    BY InvIsWhole, InvIsIntact DEF ReqInv, BytesIntact
  <1> QED BY <1>1, InitReq, StepReq, PTL DEF Spec

(* A live worker that wr_wkr_req_processed makes free is ready for the     *)
(* next request, and nothing of the last one is left in either direction:  *)
(* also when the head has lost count of the response.                      *)
THEOREM WorkerStaysInStep == Spec => []InStep
  BY InvIsInStep, InitReq, StepReq, PTL DEF Spec
=============================================================================
