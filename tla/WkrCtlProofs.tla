---------------------------- MODULE WkrCtlProofs ----------------------------
(***************************************************************************)
(* The control connection of a worker, for every length of a configuration *)
(* and size of the buffers and with all disturbances together.             *)
(*                                                                         *)
(* The argument is that the two ends speak in turn: while both are there,  *)
(* one message at most is under way, in the worker's slot or on its way up *)
(* or in the head's slot or on its way down, and it is one that belongs to *)
(* the worker's stage.  It fails for a process that is stuck, to which the *)
(* head speaks again and again, and for one that has been let go, which    *)
(* may still have a message to read before the one that tells it to leave; *)
(* the invariant says what is left of it in both cases.                    *)
(***************************************************************************)
EXTENDS WkrCtl, SequenceTheorems, TLAPS

(* The length of a message, and the bytes under way in either direction,   *)
(* received or not.                                                        *)
MsgLen(m) == CtlHeaderLen(m) + BodyLen(m)
Rise == ctl.buf \o up
Fall == proc.buf \o down

(* A beginning of a message, and a whole one. *)
Starts(s, m) == Len(s) <= MsgLen(m) /\ \A i \in 1..Len(s) : s[i] = [msg |-> m, at |-> i]
Whole(s, m) == Len(s) = MsgLen(m) /\ Starts(s, m)

-----------------------------------------------------------------------------
(* Bytes and sequences of them. *)
LEMMA Lengths ==
  ASSUME NEW m \in ToHead \cup ToWkr
  PROVE  /\ CtlHeaderLen(m) \in Nat /\ CtlHeaderLen(m) >= 2 /\ BodyLen(m) \in {0, 2}
         /\ MsgLen(m) \in Nat /\ MsgLen(m) <= ConfLen + 2
         /\ m \in ToHead => CtlHeaderLen(m) = 2 /\ MsgLen(m) <= 4
         /\ m \in ToWkr => MsgLen(m) = CtlHeaderLen(m)
         /\ BodyLen(m) = 2 <=> m = "ERROR"
  BY CtlAssumption DEF ToHead, ToWkr, CtlHeaderLen, BodyLen, MsgLen

LEMMA BytesOf ==
  ASSUME NEW M, M \in {ToHead, ToWkr}, NEW m \in M
  PROVE  /\ Bytes(m) \in Seq(ByteOf(M)) /\ Len(Bytes(m)) = MsgLen(m)
         /\ \A i \in 1..MsgLen(m) : Bytes(m)[i] = [msg |-> m, at |-> i]
         /\ Bytes(m)[1].msg = m
  <1>1. m \in ToHead \cup ToWkr
    OBVIOUS
  <1>2. MsgLen(m) \in Nat /\ MsgLen(m) <= ConfLen + 2 /\ MsgLen(m) >= 2
    BY <1>1, Lengths DEF MsgLen
  <1>3. Bytes(m) = [i \in 1..MsgLen(m) |-> [msg |-> m, at |-> i]]
    BY DEF Bytes, scgi_build, MsgLen
  <1>4. \A i \in 1..MsgLen(m) : Bytes(m)[i] = [msg |-> m, at |-> i]
    BY <1>3
  <1>5. \A i \in 1..MsgLen(m) : [msg |-> m, at |-> i] \in ByteOf(M)
    BY <1>2, CtlAssumption DEF ByteOf
  <1>6. Bytes(m) \in Seq(ByteOf(M)) /\ Len(Bytes(m)) = MsgLen(m)
    BY <1>2, <1>3, <1>5
  <1>7. Bytes(m)[1].msg = m
    <2>1. 1 \in 1..MsgLen(m)
      BY <1>2
    <2>2. Bytes(m)[1] = [msg |-> m, at |-> 1]
      BY <1>4, <2>1
    <2> QED BY <2>2
  <1> QED BY <1>4, <1>6, <1>7

LEMMA WholeIsBytes ==
  ASSUME NEW M, M \in {ToHead, ToWkr}, NEW m \in M, NEW s \in Seq(ByteOf(M)), Whole(s, m)
  PROVE  s = Bytes(m)
  BY BytesOf DEF Whole, Starts

LEMMA BytesAreWhole ==
  ASSUME NEW M, M \in {ToHead, ToWkr}, NEW m \in M
  PROVE  Whole(Bytes(m), m) /\ Bytes(m) # <<>>
  <1>1. m \in ToHead \cup ToWkr
    OBVIOUS
  <1>2. MsgLen(m) \in Nat /\ MsgLen(m) >= 2
    BY <1>1, Lengths DEF MsgLen
  <1>3. Bytes(m) \in Seq(ByteOf(M)) /\ Len(Bytes(m)) = MsgLen(m)
    BY BytesOf
  <1>4. Bytes(m) # <<>>
    BY <1>2, <1>3
  <1>5. Whole(Bytes(m), m)
    <2>1. \A i \in 1..MsgLen(m) : Bytes(m)[i] = [msg |-> m, at |-> i]
      BY BytesOf
    <2> QED BY <1>2, <1>3, <2>1 DEF Whole, Starts
  <1> QED BY <1>4, <1>5

LEMMA Joined ==
  ASSUME NEW T, NEW a \in Seq(T), NEW x \in Seq(T), NEW y \in Seq(T)
  PROVE  (a \o x) \o y = a \o (x \o y)
  BY ConcatAssociative

(* Concatenation is associative on the sequences over any set. *)
Assoc(S) == \A a, x, y \in S : (a \o x) \o y = a \o (x \o y)
LEMMA SeqAssoc == ASSUME NEW T PROVE Assoc(Seq(T))
  BY Joined DEF Assoc
LEMMA JoinedAll == \A T : Assoc(Seq(T))
  BY SeqAssoc, Zenon

(* A recv moves bytes from the stream to the buffer and drops none.        *)
Taken(a, b, n) == a \o SubSeq(b, 1, n)
Rest(b, n) == SubSeq(b, n + 1, Len(b))
Both(a, b) == a \o b
LEMMA Received ==
  ASSUME NEW T, NEW a \in Seq(T), NEW b \in Seq(T), NEW n \in 1..Len(b)
  PROVE  /\ Taken(a, b, n) \in Seq(T) /\ Rest(b, n) \in Seq(T)
         /\ Len(Taken(a, b, n)) = Len(a) + n /\ Len(Rest(b, n)) = Len(b) - n
         /\ Both(Taken(a, b, n), Rest(b, n)) = Both(a, b)
  <1>0. Assoc(Seq(T))
    BY JoinedAll, Zenon
  <1> DEFINE x == SubSeq(b, 1, n)
             y == SubSeq(b, n + 1, Len(b))
  <1>1. x \in Seq(T) /\ Len(x) = n /\ \A i \in 1..n : x[i] = b[i]
    OBVIOUS
  <1>2. y \in Seq(T) /\ Len(y) = Len(b) - n /\ \A i \in 1..(Len(b) - n) : y[i] = b[n + i]
    OBVIOUS
  <1>3. a \o x \in Seq(T) /\ a \o b \in Seq(T) /\ Len(a \o x) = Len(a) + n
    BY <1>1
  <1> HIDE DEF x, y
  <1>6. (a \o x) \o y = a \o b
    <2>1. x \o y = SubSeq(b, 1, Len(b))
      <3>1. /\ 1 \in 1..(Len(b) + 1) /\ n \in (1 - 1)..Len(b) /\ Len(b) \in n..Len(b)
        OBVIOUS
      <3> QED BY <3>1, ConcatAdjacentSubSeq DEF x, y
    <2>2. x \o y = b
      BY <2>1, SubSeqFull
    <2>3. x \in Seq(T) /\ y \in Seq(T)
      BY <1>1, <1>2
    <2>4. (a \o x) \o y = a \o (x \o y)
      <3> DEFINE S == Seq(T)
      <3>1. a \in S /\ x \in S /\ y \in S /\ Assoc(S)
        BY <1>0, <2>3, Zenon
      <3> HIDE DEF S
      <3> QED BY <3>1 DEF Assoc
    <2> QED BY <2>2, <2>4, Zenon
  <1>7. Taken(a, b, n) = a \o x /\ Rest(b, n) = y /\ Both(a, b) = a \o b /\ Both(a \o x, y) = (a \o x) \o y
    BY DEF Taken, Rest, Both, x, y
  <1> QED BY <1>2, <1>3, <1>6, <1>7, Zenon

(* Nor does it change one, whatever the bytes are. *)
Splits(S) ==
  \A a, b \in S : \A n \in 1..Len(b) :
    /\ \A i \in 1..(Len(a) + n) : Taken(a, b, n)[i] = Both(a, b)[i]
    /\ \A i \in 1..(Len(b) - n) : Rest(b, n)[i] = Both(a, b)[Len(a) + n + i]
LEMMA SeqSplits == ASSUME NEW T PROVE Splits(Seq(T))
  <1> SUFFICES ASSUME NEW a \in Seq(T), NEW b \in Seq(T), NEW n \in 1..Len(b)
               PROVE  /\ \A i \in 1..(Len(a) + n) : Taken(a, b, n)[i] = Both(a, b)[i]
                      /\ \A i \in 1..(Len(b) - n) : Rest(b, n)[i] = Both(a, b)[Len(a) + n + i]
    BY Zenon DEF Splits
  <1> DEFINE x == SubSeq(b, 1, n)
             y == SubSeq(b, n + 1, Len(b))
  <1>1. x \in Seq(T) /\ Len(x) = n /\ \A i \in 1..n : x[i] = b[i]
    OBVIOUS
  <1>2. y \in Seq(T) /\ Len(y) = Len(b) - n /\ \A i \in 1..(Len(b) - n) : y[i] = b[n + i]
    OBVIOUS
  <1> HIDE DEF x, y
  <1>3. \A i \in 1..(Len(a) + n) : (a \o x)[i] = (a \o b)[i]
    BY <1>1
  <1>4. \A i \in 1..(Len(b) - n) : y[i] = (a \o b)[Len(a) + n + i]
    BY <1>2
  <1>5. Taken(a, b, n) = a \o x /\ Rest(b, n) = y /\ Both(a, b) = a \o b
    BY DEF Taken, Rest, Both, x, y
  <1> QED BY <1>3, <1>4, <1>5, Zenon
LEMMA SplitsAll == \A T : Splits(Seq(T))
  BY SeqSplits, Zenon

LEMMA StartsPart ==
  ASSUME NEW T, NEW a \in Seq(T), NEW b \in Seq(T), NEW m \in ToHead \cup ToWkr, Starts(a \o b, m)
  PROVE  Starts(a, m)
  <1>1. Len(a \o b) = Len(a) + Len(b) /\ Len(a) \in Nat /\ Len(b) \in Nat /\ MsgLen(m) \in Nat
    BY Lengths
  <1>2. \A i \in 1..Len(a) : (a \o b)[i] = a[i]
    OBVIOUS
  <1> QED BY <1>1, <1>2 DEF Starts

(* What a parser makes of a beginning of a message.                        *)
LEMMA StartsParse ==
  ASSUME NEW M, M \in {ToHead, ToWkr}, NEW m \in M, NEW s \in Seq(ByteOf(M)), s # <<>>, Starts(s, m)
  PROVE  /\ s[1].msg = m /\ s[1].at = 1
         /\ HasHeader(s) <=> Len(s) >= CtlHeaderLen(m)
         /\ Complete(s) => Whole(s, m)
         /\ Begins(s)
  <1>1. m \in ToHead \cup ToWkr
    OBVIOUS
  <1>2. /\ CtlHeaderLen(m) \in Nat /\ CtlHeaderLen(m) >= 2 /\ BodyLen(m) \in {0, 2}
        /\ MsgLen(m) = CtlHeaderLen(m) + BodyLen(m)
    BY <1>1, Lengths DEF MsgLen
  <1>3. Len(s) \in Nat /\ Len(s) >= 1 /\ Len(s) <= MsgLen(m)
    BY DEF Starts
  <1>4. s[1] = [msg |-> m, at |-> 1]
    BY <1>3 DEF Starts
  <1>5. HasHeader(s) <=> Len(s) >= CtlHeaderLen(m)
    BY <1>2, <1>3, <1>4 DEF HasHeader, Starts
  <1>6. Complete(s) => Whole(s, m)
    <2> SUFFICES ASSUME Complete(s) PROVE Len(s) = MsgLen(m)
      BY DEF Whole
    <2>1. HasHeader(s)
      BY DEF Complete, scgi_parse
    <2>2. scgi_parse(s) = [msg |-> m, body |-> IF Len(s) = CtlHeaderLen(m) + 1 THEN <<>>
                             ELSE SubSeq(s, CtlHeaderLen(m) + 1, Len(s))]
      BY <1>4, <2>1 DEF scgi_parse
    <2>3. Len(IF Len(s) = CtlHeaderLen(m) + 1 THEN <<>>
                ELSE SubSeq(s, CtlHeaderLen(m) + 1, Len(s))) = BodyLen(m)
      <3> DEFINE p == scgi_parse(s)
      <3>1. Len(p.body) = BodyLen(p.msg)
        BY DEF Complete
      <3>2. p.msg = m
        BY <2>2
      <3>3. p.body = IF Len(s) = CtlHeaderLen(m) + 1 THEN <<>>
                       ELSE SubSeq(s, CtlHeaderLen(m) + 1, Len(s))
        BY <2>2
      <3> HIDE DEF p
      <3> QED BY <3>1, <3>2, <3>3
    <2>4. CASE Len(s) = CtlHeaderLen(m) + 1
      <3>1. BodyLen(m) = 0
        BY <2>3, <2>4
      <3> QED BY <1>2, <1>3, <2>4, <3>1
    <2>5. CASE Len(s) # CtlHeaderLen(m) + 1
      <3>1. Len(s) >= CtlHeaderLen(m)
        BY <1>5, <2>1
      <3>2. Len(SubSeq(s, CtlHeaderLen(m) + 1, Len(s))) = Len(s) - CtlHeaderLen(m)
        BY <1>2, <1>3, <3>1
      <3> QED BY <1>2, <1>3, <2>3, <2>5, <3>2
    <2> QED BY <2>4, <2>5
  <1>7. Begins(s)
    <2>1. /\ Bytes(m) \in Seq(ByteOf(M)) /\ Len(Bytes(m)) = MsgLen(m)
          /\ \A i \in 1..MsgLen(m) : Bytes(m)[i] = [msg |-> m, at |-> i]
      BY BytesOf
    <2>2. /\ SubSeq(Bytes(m), 1, Len(s)) \in Seq(ByteOf(M))
          /\ Len(SubSeq(Bytes(m), 1, Len(s))) = Len(s)
          /\ \A i \in 1..Len(s) : SubSeq(Bytes(m), 1, Len(s))[i] = Bytes(m)[i]
      BY <1>2, <1>3, <2>1
    <2>3. \A i \in 1..Len(s) : s[i] = SubSeq(Bytes(m), 1, Len(s))[i]
      BY <1>2, <1>3, <2>1, <2>2 DEF Starts
    <2>4. s = SubSeq(Bytes(m), 1, Len(s))
      BY <2>2, <2>3
    <2> QED BY <1>4, <2>4 DEF Begins
  <1> QED BY <1>4, <1>5, <1>6, <1>7

(* What one scgi_send puts on the stream: a message of the head as a       *)
(* whole, one of the worker by its header and its body.                    *)
LEMMA HeadSends ==
  ASSUME NEW m \in ToWkr
  PROVE  scgi_send(Bytes(m), 0) = Bytes(m)
  <1>1. /\ Bytes(m) \in Seq(ByteOf(ToWkr)) /\ Len(Bytes(m)) = MsgLen(m) /\ Bytes(m)[1].msg = m
    BY BytesOf
  <1>2. CtlHeaderLen(m) = MsgLen(m) /\ CtlHeaderLen(m) > 0
    BY Lengths
  <1>3. scgi_send(Bytes(m), 0) = SubSeq(Bytes(m), 1, Len(Bytes(m)))
    BY <1>1, <1>2 DEF scgi_send
  <1> QED BY <1>1, <1>3, SubSeqFull

LEMMA WorkerSends ==
  ASSUME NEW m \in ToHead, NEW sent \in {0, 2}, sent < MsgLen(m),
         NEW s \in Seq(ByteOf(ToHead)), Len(s) = sent, Starts(s, m)
  PROVE  LET chunk == scgi_send(Bytes(m), sent)
         IN  /\ chunk \in Seq(ByteOf(ToHead)) /\ Len(chunk) = 2
             /\ s \o chunk \in Seq(ByteOf(ToHead)) /\ Len(s \o chunk) = sent + 2
             /\ Starts(s \o chunk, m)
             /\ sent + 2 >= Len(Bytes(m)) <=> sent + 2 = MsgLen(m)
  <1> DEFINE chunk == scgi_send(Bytes(m), sent)
  <1>1. /\ Bytes(m) \in Seq(ByteOf(ToHead)) /\ Len(Bytes(m)) = MsgLen(m) /\ Bytes(m)[1].msg = m
        /\ \A i \in 1..MsgLen(m) : Bytes(m)[i] = [msg |-> m, at |-> i]
    BY BytesOf
  <1>2. CtlHeaderLen(m) = 2 /\ MsgLen(m) \in {2, 4} /\ (sent = 2 => MsgLen(m) = 4)
    BY Lengths DEF MsgLen
  <1>3. chunk = SubSeq(Bytes(m), sent + 1, sent + 2)
    BY <1>1, <1>2 DEF scgi_send
  <1>4. /\ chunk \in Seq(ByteOf(ToHead)) /\ Len(chunk) = 2
        /\ \A i \in 1..2 : chunk[i] = [msg |-> m, at |-> sent + i]
    <2> HIDE DEF chunk
    <2>1. sent + 1 \in 1..MsgLen(m) /\ sent + 2 \in 1..MsgLen(m) /\ sent \in Nat
      BY <1>2
    <2>2. /\ chunk \in Seq(ByteOf(ToHead)) /\ Len(chunk) = 2
          /\ chunk[1] = Bytes(m)[sent + 1] /\ chunk[2] = Bytes(m)[sent + 2]
      <3>1. \A i \in (sent + 1)..(sent + 2) : Bytes(m)[i] \in ByteOf(ToHead)
        BY <1>1, <2>1
      <3>2. /\ SubSeq(Bytes(m), sent + 1, sent + 2) \in Seq(ByteOf(ToHead))
            /\ Len(SubSeq(Bytes(m), sent + 1, sent + 2)) =
                 IF sent + 1 <= sent + 2 THEN (sent + 2) - (sent + 1) + 1 ELSE 0
            /\ \A i \in 1..((sent + 2) - (sent + 1) + 1) :
                 SubSeq(Bytes(m), sent + 1, sent + 2)[i] = Bytes(m)[(sent + 1) + i - 1]
        <4>1. sent + 1 \in Int /\ sent + 2 \in Int
          BY <2>1
        <4> QED BY <3>1, <4>1, SubSeqProperties
      <3>3. (sent + 2) - (sent + 1) + 1 = 2 /\ sent + 1 <= sent + 2
        BY <2>1
      <3>4. (sent + 1) + 1 - 1 = sent + 1 /\ (sent + 1) + 2 - 1 = sent + 2 /\ 1 \in 1..2 /\ 2 \in 1..2
        BY <2>1
      <3>5. chunk \in Seq(ByteOf(ToHead)) /\ Len(chunk) = 2
        BY <1>3, <3>2, <3>3, Zenon
      <3>6. \A i \in 1..2 : chunk[i] = Bytes(m)[(sent + 1) + i - 1]
        BY <1>3, <3>2, <3>3, Zenon
      <3> QED BY <3>4, <3>5, <3>6, Zenon
    <2> QED BY <1>1, <2>1, <2>2
  <1> HIDE DEF chunk
  <1>5. /\ s \o chunk \in Seq(ByteOf(ToHead)) /\ Len(s \o chunk) = sent + 2
        /\ \A i \in 1..(sent + 2) : (s \o chunk)[i] = IF i <= sent THEN s[i] ELSE chunk[i - sent]
    <2>1. sent \in Nat
      OBVIOUS
    <2>2. Len(s) + Len(chunk) = sent + 2
      BY <1>4
    <2>3. /\ s \o chunk \in Seq(ByteOf(ToHead)) /\ Len(s \o chunk) = Len(s) + Len(chunk)
          /\ \A i \in 1..(Len(s) + Len(chunk)) :
               (s \o chunk)[i] = IF i <= Len(s) THEN s[i] ELSE chunk[i - Len(s)]
      BY <1>4, ConcatProperties
    <2> QED BY <2>2, <2>3
  <1>6. ASSUME NEW i \in 1..(sent + 2) PROVE (s \o chunk)[i] = [msg |-> m, at |-> i]
    <2>1. CASE i <= sent
      BY <1>5, <2>1 DEF Starts
    <2>2. CASE i > sent
      <3>1. i - sent \in 1..2 /\ sent + (i - sent) = i /\ ~(i <= sent)
        BY <2>2
      <3> QED BY <1>4, <1>5, <3>1
    <2>3. i <= sent \/ i > sent
      OBVIOUS
    <2> QED BY <2>1, <2>2, <2>3, Zenon
  <1>7. Starts(s \o chunk, m)
    BY <1>2, <1>5, <1>6 DEF Starts
  <1> QED BY <1>1, <1>2, <1>4, <1>5, <1>7 DEF chunk

-----------------------------------------------------------------------------
(***************************************************************************)
(* The invariant.                                                          *)
(***************************************************************************)

(* The stage of the worker in which a message is said, heard or answered.  *)
(* ACK finds nobody: the worker that reported an error has left.           *)
Stage(m) ==
  CASE m \in {"CONF_REQ", "CONF", "CONF_ERR"} -> "boot"
    [] m \in {"ADD", "ADD_OK", "ADD_ERR"} -> "loaded"
    [] m = "ERROR" -> "failed"
    [] m \in {"PING", "PONG"} -> "up"
    [] m \in {"ACK", "REMOVE"} -> "gone"

(* A watcher runs exactly while its slot holds a message, which a head that *)
(* writes sends as a whole, unless it cannot be sent at all.               *)
Slots ==
  /\ ctl.tx.writing <=> ctl.tx.out # None
  /\ ctl.tx.sent # 0 => ~Alive /\ ctl.tx.out # None
  /\ proc.tx.writing <=> proc.tx.out # None
  /\ proc.tx.out # None => /\ Alive /\ proc.tx.sent \in {0, 2}
                           /\ proc.tx.sent < MsgLen(proc.tx.out)

(* To the head: what is under way begins one message, the one the worker   *)
(* is still sending if it is sending, and the head says nothing meanwhile. *)
Rising ==
  ctl.open =>
    /\ \E m \in ToHead : Starts(Rise, m)
    /\ Rise # <<>> => ctl.tx.out = None /\ Fall = <<>>
    /\ proc.tx.out # None => Len(Rise) = proc.tx.sent /\ Starts(Rise, proc.tx.out)

(* To the worker: what it has kept begins a message; and if it runs, what  *)
(* is under way is one whole message, and the worker says nothing.         *)
Kept == ctl.open => \E m \in ToWkr : Starts(proc.buf, m)
Falling ==
  (ctl.open /\ Runs) =>
    /\ ctl.tx.out # None => Fall = <<>> /\ proc.tx.out = None
    /\ Fall # <<>> => proc.tx.out = None /\ \E m \in ToWkr : Whole(Fall, m)

(* The message under way belongs to the worker's stage, and the head has   *)
(* registered a worker that has loaded the application when it has decided *)
(* to say so.                                                              *)
Staged ==
  (ctl.open /\ Runs) =>
    /\ proc.tx.out # None => Stage(proc.tx.out) = proc.stage
    /\ Rise # <<>> => Stage(Rise[1].msg) = proc.stage
    /\ ctl.tx.out # None => Stage(ctl.tx.out) = proc.stage
    /\ Fall # <<>> => Stage(Fall[1].msg) = proc.stage
    /\ proc.stage = "failed" => proc.tx.out = "ERROR"
    /\ Registered <=> \/ proc.stage = "up" \/ ctl.tx.out = "ADD_OK"
                      \/ Fall # <<>> /\ Fall[1].msg = "ADD_OK"

(* A process that is stuck or gone. *)
Stuck ==
  (ctl.open /\ ~Runs) =>
    /\ (Registered /\ Rise # <<>>) => Rise[1].msg = "PONG"
    /\ Alive => Registered

(* One that left by itself was not spoken to. *)
Harmless == \A d \in {"load", "crash", "drop"} : ~May(d)
Left == (ctl.open /\ ~Alive /\ Harmless) => ctl.tx.out = None /\ Rise = <<>> /\ ~Registered

(* One that has been let go reads at most one message before REMOVE, or    *)
(* what is left of it.                                                     *)
Followed(s, m) ==
  /\ Len(s) >= MsgLen(m)
  /\ \A i \in 1..MsgLen(m) : s[i] = [msg |-> m, at |-> i]
  /\ \A i \in (MsgLen(m) + 1)..Len(s) : s[i].msg = "REMOVE"
Told(s) == \A i \in 1..Len(s) : s[i].msg = "REMOVE"
LetGo ==
  ~ctl.open =>
    /\ ~Registered
    /\ ctl.tx.out # None => ~Harmless
    /\ Runs => \/ Told(Fall)
               \/ proc.tx.out = None /\ \E m \in ToWkr : Followed(Fall, m)

(* What each disturbance is needed for. *)
Disturbed ==
  /\ wkr.state = "EXPIRED" => May("drop")
  /\ proc.stage = "failed" => May("load")
  /\ proc.hup => ~ctl.open
  /\ proc.hung => Alive
  /\ ctl.ended => ~Alive

CtlInv ==
  /\ TypeOK /\ Slots /\ Rising /\ Kept /\ Falling
  /\ Staged /\ Stuck /\ Left /\ LetGo /\ Disturbed

(* The types, record by record. *)
CtlType == [open : BOOLEAN, buf : Seq(ByteOf(ToHead)), tx : Sender(ToWkr),
            ended : BOOLEAN, told : BOOLEAN]
WkrType == [state : {"NONE", "INACTIVE", "ACTIVE", "PINGING", "EXPIRED"},
            trials : 0..PingTrials, tWait : BOOLEAN, reqs : 0..NReq]
ProcType == [stage : {"boot", "loaded", "failed", "up", "gone"},
             buf : Seq(ByteOf(ToWkr)), tx : Sender(ToHead),
             hung : BOOLEAN, hup : BOOLEAN, broken : BOOLEAN, env : Environments]

LEMMA TypeParts ==
  /\ TypeOK <=> /\ ctl \in CtlType /\ wkr \in WkrType /\ proc \in ProcType
                /\ up \in Seq(ByteOf(ToHead)) /\ down \in Seq(ByteOf(ToWkr))
  /\ TypeOK' <=> /\ ctl' \in CtlType /\ wkr' \in WkrType /\ proc' \in ProcType
                 /\ up' \in Seq(ByteOf(ToHead)) /\ down' \in Seq(ByteOf(ToWkr))
  BY DEF TypeOK, CtlType, WkrType, ProcType

LEMMA SenderTypes ==
  /\ \A M : Silent \in Sender(M)
  /\ \A M : \A m \in M : Say(m) \in Sender(M)
  BY DEF Silent, Say, Sender

LEMMA GoneType == proc \in ProcType => Gone(proc) \in ProcType
  <1>1. Silent \in Sender(ToHead)
    BY SenderTypes
  <1> QED BY <1>1 DEF Gone, ProcType

(* The types, for both buffers. *)
LEMMA Types ==
  ASSUME TypeOK
  PROVE  /\ Rise \in Seq(ByteOf(ToHead)) /\ ctl.buf \in Seq(ByteOf(ToHead)) /\ up \in Seq(ByteOf(ToHead))
         /\ Fall \in Seq(ByteOf(ToWkr)) /\ proc.buf \in Seq(ByteOf(ToWkr)) /\ down \in Seq(ByteOf(ToWkr))
         /\ Len(Rise) = Len(ctl.buf) + Len(up) /\ Len(Fall) = Len(proc.buf) + Len(down)
         /\ ctl.tx.out \in ToWkr \cup {None} /\ proc.tx.out \in ToHead \cup {None}
  <1>1. ctl.buf \in Seq(ByteOf(ToHead)) /\ up \in Seq(ByteOf(ToHead))
    BY DEF TypeOK
  <1>2. proc.buf \in Seq(ByteOf(ToWkr)) /\ down \in Seq(ByteOf(ToWkr))
    BY DEF TypeOK
  <1>3. ctl.tx.out \in ToWkr \cup {None} /\ proc.tx.out \in ToHead \cup {None}
    BY DEF TypeOK, Sender
  <1>4. Rise \in Seq(ByteOf(ToHead)) /\ Len(Rise) = Len(ctl.buf) + Len(up)
    BY <1>1 DEF Rise
  <1>5. Fall \in Seq(ByteOf(ToWkr)) /\ Len(Fall) = Len(proc.buf) + Len(down)
    BY <1>2 DEF Fall
  <1> QED BY <1>1, <1>2, <1>3, <1>4, <1>5

LEMMA InvIsSound == CtlInv => CtlSound
  <1> SUFFICES ASSUME CtlInv PROVE CtlSound
    OBVIOUS
  <1>1. TypeOK /\ Slots
    BY DEF CtlInv
  <1>2. WriterSound
    BY DEF CtlInv, Slots, LetGo, Harmless, WriterSound
  <1>3. ASSUME ctl.open PROVE Begins(proc.buf)
    <2>1. PICK m \in ToWkr : Starts(proc.buf, m)
      BY <1>3 DEF CtlInv, Kept
    <2>2. CASE proc.buf = <<>>
      BY <2>2 DEF Begins
    <2>3. CASE proc.buf # <<>>
      BY <1>1, <2>1, <2>3, Types, StartsParse
    <2> QED BY <2>2, <2>3
  <1>4. ASSUME ctl.open PROVE Begins(ctl.buf)
    <2>1. PICK m \in ToHead : Starts(Rise, m)
      BY <1>4 DEF CtlInv, Rising
    <2>2. CASE ctl.buf = <<>>
      BY <2>2 DEF Begins
    <2>3. CASE ctl.buf # <<>>
      <3>1. Starts(ctl.buf, m)
        <4>1. ctl.buf \in Seq(ByteOf(ToHead)) /\ up \in Seq(ByteOf(ToHead))
          BY <1>1, Types
        <4> QED BY <2>1, <4>1, StartsPart DEF Rise
      <3> QED BY <1>1, <2>3, <3>1, Types, StartsParse
    <2> QED BY <2>2, <2>3
  <1> QED BY <1>1, <1>2, <1>3, <1>4 DEF CtlSound, Framed

(* The first worker has asked for its configuration. *)
LEMMA InitCtl == Init => CtlInv
  <1> SUFFICES ASSUME Init PROVE CtlInv
    OBVIOUS
  <1>1. PICK e \in Environments :
           proc = [stage |-> "boot", buf |-> <<>>, tx |-> Say("CONF_REQ"),
                   hung |-> FALSE, hup |-> FALSE, broken |-> FALSE, env |-> e]
    BY DEF Init
  <1>2. /\ ctl = [open |-> TRUE, buf |-> <<>>, tx |-> Silent, ended |-> FALSE, told |-> FALSE]
        /\ wkr = [state |-> "NONE", trials |-> 0, tWait |-> FALSE, reqs |-> 0]
        /\ up = <<>> /\ down = <<>>
    BY DEF Init
  <1>3. TypeOK
    BY <1>1, <1>2, CtlAssumption DEF TypeOK, Sender, Say, Silent, ToHead
  <1>4. Rise = <<>> /\ Fall = <<>>
    BY <1>1, <1>2 DEF Rise, Fall
  <1>5. \A m \in ToHead \cup ToWkr : Starts(<<>>, m) /\ MsgLen(m) > 0
    BY Lengths DEF Starts, MsgLen
  <1>6. Slots /\ Disturbed
    BY <1>1, <1>2, <1>5 DEF Slots, Disturbed, Silent, Say, None, Alive, ToHead
  <1>7. Rising /\ Kept /\ Falling
    BY <1>1, <1>2, <1>4, <1>5 DEF Rising, Kept, Falling, Silent, Say, ToHead, ToWkr
  <1>8. Staged
    BY <1>1, <1>2, <1>4 DEF Staged, Silent, Say, Stage, Registered, None
  <1>9. Stuck /\ Left /\ LetGo
    BY <1>1, <1>2 DEF Stuck, Left, LetGo, Runs, Alive
  <1> QED BY <1>3, <1>6, <1>7, <1>8, <1>9 DEF CtlInv

-----------------------------------------------------------------------------
(* Three kinds of steps. *)

(* Steps of the head that only change what it thinks of the worker.        *)
LEMMA WkrOnly ==
  ASSUME CtlInv, UNCHANGED <<ctl, proc, up, down>>, TypeOK', Registered' <=> Registered,
         wkr'.state = "EXPIRED" => May("drop")
  PROVE  CtlInv'
  <1>1. Rise' = Rise /\ Fall' = Fall /\ (Alive' <=> Alive) /\ (Runs' <=> Runs) /\ (Harmless' <=> Harmless)
    BY DEF Rise, Fall, Alive, Runs, Harmless, May
  <1>2. Slots' /\ Rising' /\ Kept' /\ Falling'
    BY <1>1 DEF CtlInv, Slots, Rising, Kept, Falling
  <1>3. Staged' /\ Stuck' /\ Left' /\ LetGo'
    BY <1>1 DEF CtlInv, Staged, Stuck, Left, LetGo
  <1>4. Disturbed'
    BY <1>1 DEF CtlInv, Disturbed, May
  <1> QED BY <1>2, <1>3, <1>4 DEF CtlInv

(* Registered workers say nothing but PONG. *)
LEMMA OnlyPong ==
  ASSUME CtlInv, ctl.open, Registered, Rise # <<>>
  PROVE  Rise[1].msg = "PONG"
  <1>1. CASE ~Runs
    BY <1>1 DEF CtlInv, Stuck
  <1>2. CASE Runs
    <2>1. PICK m \in ToHead : Starts(Rise, m)
      BY DEF CtlInv, Rising
    <2>2. Rise[1].msg = m
      BY <2>1, Types, StartsParse DEF CtlInv
    <2>3. ctl.tx.out = None /\ Fall = <<>>
      BY DEF CtlInv, Rising
    <2>4. proc.stage = "up"
      BY <1>2, <2>3 DEF CtlInv, Staged, None
    <2>5. Stage(m) = "up"
      BY <1>2, <2>2, <2>4 DEF CtlInv, Staged
    <2> QED BY <2>2, <2>5 DEF Stage, ToHead
  <1> QED BY <1>1, <1>2

(* The process leaves or is killed while the connection stays: the head    *)
(* must not be speaking to it, unless this behaviour has a reason.         *)
LEMMA ProcLeaves ==
  ASSUME CtlInv, Alive, UNCHANGED <<ctl, wkr, up>>, TypeOK',
         proc'.stage = "gone", proc'.tx = Silent, ~proc'.hung, proc'.hup = proc.hup,
         proc'.env = proc.env, proc'.buf = proc.buf \/ proc'.buf = <<>>,
         Fall = <<>> => Fall' = <<>>,
         (ctl.open /\ Harmless) => ctl.tx.out = None /\ Rise = <<>> /\ ~Registered
  PROVE  CtlInv'
  <1>1. /\ Rise' = Rise /\ ~Alive' /\ ~Runs' /\ (Harmless' <=> Harmless)
        /\ (Registered' <=> Registered)
    BY DEF Rise, Alive, Runs, Harmless, May, Registered
  <1>2. Slots'
    BY <1>1 DEF CtlInv, Slots, Silent
  <1>3. Rising'
    BY <1>1 DEF CtlInv, Rising, Silent
  <1>4. Kept'
    <2>1. \A m \in ToWkr : Starts(<<>>, m)
      BY Lengths DEF Starts
    <2>2. "PING" \in ToWkr
      BY DEF ToWkr
    <2> QED BY <1>1, <2>1, <2>2 DEF CtlInv, Kept
  <1>5. Falling' /\ Staged' /\ LetGo'
    BY <1>1 DEF CtlInv, Falling, Staged, LetGo
  <1>6. Stuck'
    BY <1>1, OnlyPong DEF Stuck
  <1>7. Left'
    BY <1>1 DEF Left
  <1>8. Disturbed'
    BY <1>1 DEF CtlInv, Disturbed, May
  <1> QED BY <1>2, <1>3, <1>4, <1>5, <1>6, <1>7, <1>8 DEF CtlInv

(* The head lets go of the worker.  What it says last comes behind at most *)
(* one message.                                                            *)
LEMMA Farewell ==
  ASSUME NEW b \in {<<>>, Bytes("REMOVE")}
  PROVE  b \in Seq(ByteOf(ToWkr)) /\ \A i \in 1..Len(b) : b[i].msg = "REMOVE"
  <1>1. CASE b = <<>>
    BY <1>1
  <1>2. CASE b = Bytes("REMOVE")
    <2>0. "REMOVE" \in ToWkr
      BY DEF ToWkr
    <2>1. /\ b \in Seq(ByteOf(ToWkr)) /\ Len(b) = MsgLen("REMOVE")
          /\ \A i \in 1..MsgLen("REMOVE") : b[i] = [msg |-> "REMOVE", at |-> i]
      BY <1>2, <2>0, BytesOf
    <2> QED BY <2>1
  <1> QED BY <1>1, <1>2

LEMMA FollowedBy ==
  ASSUME NEW s \in Seq(ByteOf(ToWkr)), NEW m \in ToWkr, Whole(s, m),
         NEW b \in {<<>>, Bytes("REMOVE")}
  PROVE  Followed(s \o b, m)
  <1>2. b \in Seq(ByteOf(ToWkr)) /\ \A i \in 1..Len(b) : b[i].msg = "REMOVE"
    BY Farewell
  <1>3. /\ s \o b \in Seq(ByteOf(ToWkr)) /\ Len(s \o b) = Len(s) + Len(b)
        /\ \A i \in 1..(Len(s) + Len(b)) : (s \o b)[i] = IF i <= Len(s) THEN s[i] ELSE b[i - Len(s)]
    BY <1>2, ConcatProperties
  <1>4. Len(s) = MsgLen(m) /\ Len(s) \in Nat /\ Len(b) \in Nat
    BY <1>2 DEF Whole
  <1>5. \A i \in 1..MsgLen(m) : (s \o b)[i] = [msg |-> m, at |-> i]
    BY <1>3, <1>4 DEF Whole, Starts
  <1>6. \A i \in (MsgLen(m) + 1)..Len(s \o b) : (s \o b)[i].msg = "REMOVE"
    <2> SUFFICES ASSUME NEW i \in (MsgLen(m) + 1)..Len(s \o b) PROVE (s \o b)[i].msg = "REMOVE"
      OBVIOUS
    <2>1. i - Len(s) \in 1..Len(b) /\ (s \o b)[i] = b[i - Len(s)]
      BY <1>3, <1>4
    <2> QED BY <1>2, <2>1
  <1> QED BY <1>3, <1>4, <1>5, <1>6 DEF Followed

LEMMA FreedEffect ==
  ASSUME TypeOK, NEW bytes \in {<<>>, Bytes("REMOVE")}, NEW signal \in {None, "HUP", "KILL"},
         Freed(bytes, signal), UNCHANGED up
  PROVE  /\ TypeOK' /\ Fall' = Fall \o bytes
         /\ ~ctl'.open /\ ctl'.tx = ctl.tx /\ ctl'.ended = ctl.ended /\ ~Registered'
         /\ wkr'.state = "NONE"
         /\ proc'.env = proc.env /\ proc'.buf = proc.buf /\ (proc'.hung => proc.hung)
         /\ \/ proc'.stage = proc.stage /\ proc'.tx = proc.tx /\ proc'.hung = proc.hung
            \/ proc'.stage = "gone" /\ proc'.tx = Silent /\ ~proc'.hung
  <1>1. /\ ctl' = [ctl EXCEPT !.open = FALSE, !.buf = <<>>]
        /\ wkr' = [wkr EXCEPT !.state = "NONE", !.tWait = FALSE]
        /\ down' = down \o bytes
        /\ \/ proc' = proc
           \/ Alive /\ proc' = [proc EXCEPT !.hup = TRUE]
           \/ Alive /\ proc' = Gone(proc)
    BY DEF Freed, None
  <1>2. bytes \in Seq(ByteOf(ToWkr)) /\ \A i \in 1..Len(bytes) : bytes[i].msg = "REMOVE"
    BY Farewell
  <1>3. TypeOK
    OBVIOUS
  <1>4. /\ ~ctl'.open /\ ctl'.tx = ctl.tx /\ ctl'.ended = ctl.ended /\ ~Registered'
        /\ wkr'.state = "NONE"
    BY <1>1, <1>3 DEF TypeOK, Registered
  <1>5. /\ proc'.env = proc.env /\ proc'.buf = proc.buf /\ (proc'.hung => proc.hung)
        /\ \/ proc'.stage = proc.stage /\ proc'.tx = proc.tx /\ proc'.hung = proc.hung
           \/ proc'.stage = "gone" /\ proc'.tx = Silent /\ ~proc'.hung
    <2> DEFINE P == [stage : {"boot", "loaded", "failed", "up", "gone"},
                     buf : Seq(ByteOf(ToWkr)), tx : Sender(ToHead),
                     hung : BOOLEAN, hup : BOOLEAN, broken : BOOLEAN, env : Environments]
    <2>1. proc \in P
      BY <1>3, Zenon DEF TypeOK
    <2>2. CASE proc' = proc
      BY <2>2
    <2>3. CASE proc' = [proc EXCEPT !.hup = TRUE]
      BY <2>1, <2>3
    <2>4. CASE proc' = Gone(proc)
      BY <2>1, <2>4 DEF Gone
    <2> QED BY <1>1, <2>2, <2>3, <2>4, Zenon
  <1>6. TypeOK'
    <2>1. down' \in Seq(ByteOf(ToWkr))
      BY <1>1, <1>2, <1>3 DEF TypeOK
    <2>2. ctl' \in CtlType
      <3>1. ctl' = [ctl EXCEPT !.open = FALSE, !.buf = <<>>] /\ ctl \in CtlType
        BY <1>1, <1>3, TypeParts
      <3>2. <<>> \in Seq(ByteOf(ToHead))
        OBVIOUS
      <3> QED BY <3>1, <3>2 DEF CtlType
    <2>3. wkr' \in WkrType
      BY <1>1, <1>3, TypeParts DEF WkrType
    <2>4. proc' \in ProcType
      <3>1. proc \in ProcType
        BY <1>3, TypeParts
      <3>2. [proc EXCEPT !.hup = TRUE] \in ProcType
        BY <3>1 DEF ProcType
      <3> QED BY <1>1, <3>1, <3>2, GoneType
    <2> QED BY <1>3, <2>1, <2>2, <2>3, <2>4, TypeParts
  <1>7. Fall' = Fall \o bytes
    <2>1. Fall' = proc.buf \o (down \o bytes)
      BY <1>1, <1>5 DEF Fall
    <2>2. proc.buf \in Seq(ByteOf(ToWkr)) /\ down \in Seq(ByteOf(ToWkr))
      BY <1>3, Types
    <2>3. (proc.buf \o down) \o bytes = proc.buf \o (down \o bytes)
      <3>1. bytes \in Seq(ByteOf(ToWkr))
        BY <1>2
      <3> DEFINE T == Seq(ByteOf(ToWkr))
      <3>2. proc.buf \in T /\ down \in T /\ bytes \in T /\ Assoc(T)
        BY <2>2, <3>1, JoinedAll, Zenon
      <3> HIDE DEF T
      <3> QED BY <3>2 DEF Assoc
    <2> QED BY <2>1, <2>3 DEF Fall
  <1> QED BY <1>4, <1>5, <1>6, <1>7

LEMMA FreedStep ==
  ASSUME CtlInv, ctl.open, NEW bytes \in {<<>>, Bytes("REMOVE")}, NEW signal \in {None, "HUP", "KILL"},
         Freed(bytes, signal), UNCHANGED up, ctl.tx.out # None => ~Harmless
  PROVE  CtlInv'
  <1>2. bytes \in Seq(ByteOf(ToWkr)) /\ \A i \in 1..Len(bytes) : bytes[i].msg = "REMOVE"
    BY Farewell
  <1>3. TypeOK
    BY DEF CtlInv
  <1>4. /\ ~ctl'.open /\ ctl'.tx = ctl.tx /\ ctl'.ended = ctl.ended /\ ~Registered'
        /\ wkr'.state = "NONE"
    BY <1>3, FreedEffect
  <1>5. /\ proc'.env = proc.env /\ proc'.buf = proc.buf /\ (proc'.hung => proc.hung)
        /\ \/ proc'.stage = proc.stage /\ proc'.tx = proc.tx /\ proc'.hung = proc.hung
           \/ proc'.stage = "gone" /\ proc'.tx = Silent /\ ~proc'.hung
    BY <1>3, FreedEffect
  <1>6. TypeOK'
    BY <1>3, FreedEffect
  <1>7. Fall' = Fall \o bytes
    BY <1>3, FreedEffect
  <1>8. Harmless' <=> Harmless
    BY <1>5 DEF Harmless, May
  <1>9. Slots'
    BY <1>4, <1>5 DEF CtlInv, Slots, Silent, Alive
  <1>10. Rising' /\ Kept' /\ Falling' /\ Staged' /\ Stuck' /\ Left'
    BY <1>4 DEF Rising, Kept, Falling, Staged, Stuck, Left
  <1>11. LetGo'
    <2> SUFFICES ASSUME Runs'
                 PROVE  \/ Told(Fall')
                        \/ proc'.tx.out = None /\ \E m \in ToWkr : Followed(Fall', m)
      BY <1>4, <1>8 DEF LetGo
    <2>1. Runs /\ proc'.tx = proc.tx
      BY <1>5 DEF Runs, Alive
    <2>2. CASE Fall = <<>>
      <3>1. Fall' = bytes
        BY <1>2, <1>7, <2>2, ConcatEmptySeq
      <3> QED BY <1>2, <3>1 DEF Told
    <2>3. CASE Fall # <<>>
      <3>1. PICK m \in ToWkr : Whole(Fall, m) /\ proc.tx.out = None
        BY <2>1, <2>3 DEF CtlInv, Falling
      <3>2. Followed(Fall', m)
        BY <1>3, <1>7, <3>1, Types, FollowedBy
      <3> QED BY <2>1, <3>1, <3>2
    <2> QED BY <2>2, <2>3
  <1>12. Disturbed'
    <2>1. proc'.hup => ~ctl'.open
      BY <1>4
    <2>2. (proc'.stage = "failed" => May("load")') /\ (proc'.hung => Alive')
      BY <1>5 DEF CtlInv, Disturbed, May, Alive
    <2>3. ctl'.ended => ~Alive'
      BY <1>4, <1>5 DEF CtlInv, Disturbed, Alive
    <2> QED BY <1>4, <2>1, <2>2, <2>3 DEF Disturbed
  <1> QED BY <1>6, <1>9, <1>10, <1>11, <1>12 DEF CtlInv

-----------------------------------------------------------------------------
(* The head. *)
LEMMA NothingUp ==
  ASSUME TypeOK, Rise = <<>>
  PROVE  ctl.buf = <<>> /\ up = <<>>
  <1>1. ctl.buf \in Seq(ByteOf(ToHead)) /\ up \in Seq(ByteOf(ToHead))
    BY Types
  <1> QED BY <1>1, ConcatEqualIffEmpty DEF Rise

LEMMA NothingDown ==
  ASSUME TypeOK, Fall = <<>>
  PROVE  proc.buf = <<>> /\ down = <<>>
  <1>1. proc.buf \in Seq(ByteOf(ToWkr)) /\ down \in Seq(ByteOf(ToWkr))
    BY Types
  <1> QED BY <1>1, ConcatEqualIffEmpty DEF Fall

(* The head writes a message as a whole; then it is on its way down.       *)
LEMMA HeadSpeaks ==
  ASSUME CtlInv, ctl.open, ctl.tx.out # None, Alive, Sent, UNCHANGED <<proc, up>> PROVE CtlInv'
  <1> DEFINE m == ctl.tx.out
  <1>1. TypeOK /\ ctl.open /\ m \in ToWkr /\ Alive
    BY Types DEF CtlInv
  <1>2. ctl.tx.sent = 0 /\ ~ctl.ended
    BY <1>1 DEF CtlInv, Slots, Disturbed
  <1>3. /\ scgi_send(Bytes(m), 0) = Bytes(m) /\ Bytes(m) \in Seq(ByteOf(ToWkr))
        /\ Len(Bytes(m)) = MsgLen(m) /\ MsgLen(m) \in Nat /\ Bytes(m)[1].msg = m
        /\ Whole(Bytes(m), m) /\ Bytes(m) # <<>>
    BY <1>1, HeadSends, BytesOf, BytesAreWhole, Lengths
  <1>4. /\ down' = down \o Bytes(m)
        /\ ctl' = [ctl EXCEPT !.tx = Silent]
        /\ UNCHANGED <<wkr, proc, up>>
    <2> HIDE DEF m
    <2>1. 0 + MsgLen(m) >= MsgLen(m)
      BY <1>3
    <2> QED BY <1>1, <1>2, <1>3, <2>1 DEF Sent, m
  <1>5. ctl'.open /\ ctl'.tx = Silent /\ ctl'.buf = ctl.buf /\ ~ctl'.ended
    BY <1>1, <1>2, <1>4 DEF TypeOK
  <1>6. TypeOK'
    <2>1. ctl' \in CtlType
      <3>1. ctl \in CtlType /\ Silent \in Sender(ToWkr)
        BY <1>1, TypeParts, SenderTypes
      <3> QED BY <1>2, <1>4, <3>1 DEF CtlType
    <2>2. down \o Bytes(m) \in Seq(ByteOf(ToWkr))
      BY <1>1, <1>3, Types
    <2> QED BY <1>1, <1>4, <2>1, <2>2, TypeParts
  <1>7. /\ Rise' = Rise /\ (Alive' <=> Alive) /\ (Runs' <=> Runs) /\ (Harmless' <=> Harmless)
        /\ (Registered' <=> Registered)
    BY <1>4, <1>5 DEF Rise, Alive, Runs, Harmless, May, Registered
  <1>8. Rise = <<>>
    BY <1>1 DEF CtlInv, Rising, None, ToWkr
  <1>9. ASSUME Runs PROVE Fall' = Bytes(m) /\ Fall = <<>> /\ proc.tx.out = None
    <2>1. Fall = <<>> /\ proc.tx.out = None
      BY <1>1, <1>9 DEF CtlInv, Falling, None, ToWkr
    <2>2. proc.buf = <<>> /\ down = <<>>
      BY <1>1, <2>1, NothingDown
    <2>3. Fall' = <<>> \o (<<>> \o Bytes(m))
      BY <1>4, <2>2 DEF Fall
    <2> QED BY <1>3, <2>1, <2>3, ConcatEmptySeq
  <1>10. Slots'
    BY <1>4, <1>5, <1>7 DEF CtlInv, Slots, Silent
  <1>11. Rising' /\ Kept'
    BY <1>1, <1>4, <1>5, <1>7, <1>8 DEF CtlInv, Rising, Kept
  <1>12. Falling'
    BY <1>1, <1>3, <1>4, <1>5, <1>7, <1>9 DEF Falling, Silent
  <1>13. Staged'
    <2> SUFFICES ASSUME Runs PROVE Staged'
      BY <1>7 DEF Staged
    <2>1. Fall'[1].msg = m /\ Fall' # <<>> /\ Fall = <<>> /\ proc'.tx.out = None
      BY <1>3, <1>4, <1>9
    <2>2. Stage(m) = proc.stage /\ m # None
      BY <1>1 DEF CtlInv, Staged, None, ToWkr
    <2>3. Registered <=> proc.stage = "up" \/ m = "ADD_OK"
      BY <1>1, <2>1 DEF CtlInv, Staged
    <2>4. proc.stage # "failed"
      BY <1>1, <2>2 DEF Stage, ToWkr
    <2> QED BY <1>4, <1>5, <1>7, <1>8, <2>1, <2>2, <2>3, <2>4 DEF Staged, Silent, None
  <1>14. Stuck' /\ Left' /\ LetGo'
    BY <1>1, <1>5, <1>7, <1>8 DEF CtlInv, Stuck, Left, LetGo
  <1>15. Disturbed'
    BY <1>1, <1>4, <1>5, <1>7 DEF CtlInv, Disturbed, May
  <1> QED BY <1>6, <1>10, <1>11, <1>12, <1>13, <1>14, <1>15 DEF CtlInv

(* What it writes to a worker that has gone is lost, and an answer to an    *)
(* error ends the connection.                                              *)
LEMMA HeadSpeaksToNobody ==
  ASSUME CtlInv, ctl.open, ctl.tx.out # None, ~Alive, UNCHANGED <<proc, up, down>>, TypeOK',
         ctl'.tx = Silent \/ (ctl'.tx.out = ctl.tx.out /\ ctl'.tx.writing = ctl.tx.writing),
         ctl'.ended = ctl.ended,
         \/ ctl'.open /\ ctl'.buf = ctl.buf /\ UNCHANGED wkr
         \/ ~ctl'.open /\ ctl'.tx = Silent /\ wkr'.state = "NONE"
  PROVE  CtlInv'
  <1>1. /\ Fall' = Fall /\ ~Alive' /\ ~Runs' /\ ~Runs /\ (Harmless' <=> Harmless)
        /\ ctl'.open => Rise' = Rise /\ (Registered' <=> Registered)
        /\ ~ctl'.open => ~Registered'
    BY DEF Rise, Fall, Alive, Runs, Harmless, May, Registered
  <1>2. Slots'
    BY <1>1 DEF CtlInv, Slots, Silent
  <1>3. Rising' /\ Kept' /\ Falling'
    BY <1>1 DEF CtlInv, Rising, Kept, Falling, Silent
  <1>4. Staged' /\ Stuck' /\ Left' /\ LetGo'
    BY <1>1 DEF CtlInv, Staged, Stuck, Left, LetGo, Silent
  <1>5. Disturbed'
    BY <1>1 DEF CtlInv, Disturbed, May
  <1> QED BY <1>2, <1>3, <1>4, <1>5 DEF CtlInv

(* The slot and the connection after a step of the head's write callback.  *)
LEMMA ClosedType ==
  ASSUME TypeOK, Closed
  PROVE  /\ ctl' \in CtlType /\ wkr' \in WkrType
         /\ ~ctl'.open /\ ctl'.tx = Silent /\ ctl'.ended = ctl.ended
         /\ wkr'.state = "NONE" /\ ~Registered'
  <1>1. ctl \in CtlType /\ wkr \in WkrType /\ Silent \in Sender(ToWkr)
    BY TypeParts, SenderTypes
  <1>2. <<>> \in Seq(ByteOf(ToHead))
    OBVIOUS
  <1> QED BY <1>1, <1>2 DEF Closed, CtlType, WkrType, Registered

LEMMA SlotType ==
  ASSUME TypeOK, NEW k \in Nat, ctl' = [ctl EXCEPT !.tx.sent = k]
  PROVE  /\ ctl' \in CtlType /\ ctl'.open = ctl.open /\ ctl'.buf = ctl.buf /\ ctl'.ended = ctl.ended
         /\ ctl'.tx.out = ctl.tx.out /\ ctl'.tx.writing = ctl.tx.writing
  <1>1. ctl \in CtlType
    BY TypeParts
  <1>2. ctl.tx \in Sender(ToWkr)
    BY <1>1 DEF CtlType
  <1>3. [ctl.tx EXCEPT !.sent = k] \in Sender(ToWkr)
    BY <1>2 DEF Sender
  <1>4. ctl' = [ctl EXCEPT !.tx = [ctl.tx EXCEPT !.sent = k]]
    BY <1>1 DEF CtlType
  <1> QED BY <1>1, <1>2, <1>3, <1>4 DEF CtlType, Sender

LEMMA EmptiedType ==
  ASSUME TypeOK, ctl' = [ctl EXCEPT !.tx = Silent]
  PROVE  /\ ctl' \in CtlType /\ ctl'.open = ctl.open /\ ctl'.buf = ctl.buf /\ ctl'.ended = ctl.ended
         /\ ctl'.tx = Silent
  <1>1. ctl \in CtlType /\ Silent \in Sender(ToWkr)
    BY TypeParts, SenderTypes
  <1> QED BY <1>1 DEF CtlType

(* What the write callback does to the head.  It sends no byte that is not *)
(* one of the message in its slot.                                         *)
LEMMA SendsOnly ==
  ASSUME NEW m \in ToWkr, NEW sent \in Nat
  PROVE  /\ scgi_send(Bytes(m), sent) \in Seq(ByteOf(ToWkr))
         /\ sent + Len(scgi_send(Bytes(m), sent)) \in Nat
         /\ \A i \in 1..Len(scgi_send(Bytes(m), sent)) : scgi_send(Bytes(m), sent)[i].msg = m
  <1> DEFINE chunk == scgi_send(Bytes(m), sent)
             B == Bytes(m)
  <1>1. /\ B \in Seq(ByteOf(ToWkr)) /\ Len(B) = MsgLen(m) /\ B[1].msg = m
        /\ \A i \in 1..MsgLen(m) : B[i] = [msg |-> m, at |-> i]
    BY BytesOf
  <1>2. CtlHeaderLen(m) = MsgLen(m) /\ MsgLen(m) \in Nat
    BY Lengths
  <1>3. chunk = SubSeq(B, sent + 1, Len(B))
    <2> HIDE DEF B
    <2>1. scgi_send(B, sent) = SubSeq(B, sent + 1, Len(B))
      BY <1>1, <1>2 DEF scgi_send
    <2> QED BY <2>1 DEF B
  <1> HIDE DEF chunk, B
  <1>4. CASE sent + 1 <= Len(B)
    <2>1. \A i \in (sent + 1)..Len(B) : B[i] \in ByteOf(ToWkr)
      BY <1>1, <1>2
    <2>2. /\ chunk \in Seq(ByteOf(ToWkr)) /\ Len(chunk) = Len(B) - sent
          /\ \A i \in 1..(Len(B) - sent) : chunk[i] = B[sent + i]
      BY <1>1, <1>2, <1>3, <1>4, <2>1, SubSeqProperties
    <2>3. \A i \in 1..Len(chunk) : sent + i \in 1..MsgLen(m)
      BY <1>1, <1>2, <1>4, <2>2
    <2>4. \A i \in 1..Len(chunk) : chunk[i].msg = m
      BY <1>1, <2>2, <2>3
    <2> QED BY <1>2, <2>2, <2>4 DEF chunk
  <1>5. CASE ~(sent + 1 <= Len(B))
    <2>1. chunk = <<>>
      BY <1>1, <1>2, <1>3, <1>5
    <2> QED BY <2>1 DEF chunk
  <1> QED BY <1>4, <1>5

WroteTo ==
  /\ down' = down \/ (Alive /\ \E chunk \in Seq(ByteOf(ToWkr)) :
                          /\ down' = down \o chunk
                          /\ \A i \in 1..Len(chunk) : chunk[i].msg = ctl.tx.out)
  /\ \/ Closed
     \/ ctl' = [ctl EXCEPT !.tx = Silent] /\ UNCHANGED wkr
     \/ \E k \in Nat : ctl' = [ctl EXCEPT !.tx.sent = k] /\ UNCHANGED wkr

LEMMA WriteSteps ==
  ASSUME TypeOK, ctl.tx.out \in ToWkr, ctl.tx.sent \in Nat, Sent \/ Unsent
  PROVE  WroteTo
  <1> DEFINE m == ctl.tx.out
             chunk == scgi_send(Bytes(m), ctl.tx.sent)
  <1>1. /\ chunk \in Seq(ByteOf(ToWkr)) /\ ctl.tx.sent + Len(chunk) \in Nat
        /\ \A i \in 1..Len(chunk) : chunk[i].msg = m
    BY SendsOnly
  <1>2. ctl \in CtlType
    BY TypeParts
  <1>3. CASE Unsent
    <2>1. scgi_send_failed(ctl.tx.sent, SizeMax) \in Nat
      BY CtlAssumption DEF scgi_send_failed, SizeMax
    <2> QED BY <1>3, <2>1 DEF Unsent, WroteTo
  <1>4. CASE Sent
    <2>1. down' = IF Alive THEN down \o chunk ELSE down
      BY <1>4 DEF Sent
    <2>2. \/ Closed
          \/ ctl' = [ctl EXCEPT !.tx = Silent] /\ UNCHANGED wkr
          \/ ctl' = [ctl EXCEPT !.tx.sent = ctl.tx.sent + Len(chunk)] /\ UNCHANGED wkr
      BY <1>4 DEF Sent
    <2> HIDE DEF chunk
    <2> QED BY <1>1, <2>1, <2>2 DEF WroteTo
  <1> QED BY <1>3, <1>4

LEMMA HeadWrites ==
  ASSUME CtlInv, wr_ctl_msg_write_cb PROVE CtlInv'
  <1>1. TypeOK /\ ctl.open /\ ctl.tx.out # None /\ (Sent \/ Unsent) /\ UNCHANGED <<proc, up>>
    BY DEF CtlInv, Slots, wr_ctl_msg_write_cb
  <1>2. ctl.tx.out \in ToWkr /\ ctl.tx.sent \in Nat
    BY <1>1, Types DEF TypeOK, Sender
  <1>3. CASE Alive
    BY <1>1, <1>3, HeadSpeaks DEF Unsent
  <1>4. CASE ~Alive /\ Closed /\ UNCHANGED down
    <2>1. TypeOK'
      BY <1>1, <1>4, ClosedType, TypeParts
    <2> QED BY <1>1, <1>4, <2>1, ClosedType, HeadSpeaksToNobody
  <1>5. CASE ~Alive /\ ctl' = [ctl EXCEPT !.tx = Silent] /\ UNCHANGED <<wkr, down>>
    <2>1. TypeOK'
      BY <1>1, <1>5, EmptiedType, TypeParts
    <2> QED BY <1>1, <1>5, <2>1, EmptiedType, HeadSpeaksToNobody
  <1>6. ASSUME NEW k \in Nat, ~Alive, ctl' = [ctl EXCEPT !.tx.sent = k], UNCHANGED <<wkr, down>>
        PROVE  CtlInv'
    <2>1. TypeOK'
      BY <1>1, <1>6, SlotType, TypeParts
    <2> QED BY <1>1, <1>6, <2>1, SlotType, HeadSpeaksToNobody
  <1>7. WroteTo
    BY <1>1, <1>2, WriteSteps
  <1> QED BY <1>3, <1>4, <1>5, <1>6, <1>7 DEF WroteTo

(* recv returns 0 only when the worker has gone: a message always fits.    *)
LEMMA HeadHangsUp ==
  ASSUME CtlInv, ctl.open, UNCHANGED up, CtlFreed,
         \/ up = <<>> /\ ~Alive
         \/ up # <<>> /\ Len(ctl.buf) = BufSize
  PROVE  CtlInv'
  <1>1. TypeOK
    BY DEF CtlInv
  <1>2. ~(up # <<>> /\ Len(ctl.buf) = BufSize)
    <2>1. PICK m \in ToHead : Starts(Rise, m)
      BY DEF CtlInv, Rising
    <2>2. Len(Rise) = Len(ctl.buf) + Len(up) /\ up \in Seq(ByteOf(ToHead)) /\ ctl.buf \in Seq(ByteOf(ToHead))
      BY <1>1, Types
    <2>3. Len(Rise) <= 4
      <3>1. MsgLen(m) \in Nat /\ MsgLen(m) <= 4 /\ Len(Rise) \in Nat
        BY <1>1, Lengths, Types
      <3> QED BY <2>1, <3>1 DEF Starts
    <2>4. up # <<>> => Len(up) > 0
      BY <2>2
    <2> QED BY <2>2, <2>3, <2>4, CtlAssumption
  <1>3. ctl.tx.out # None => ~Harmless
    BY <1>2 DEF CtlInv, Left
  <1>4. \E signal \in {None, "HUP", "KILL"} : Freed(<<>>, signal)
    BY DEF CtlFreed
  <1> QED BY <1>3, <1>4, FreedStep

LEMMA TakenUp ==
  ASSUME TypeOK, NEW n \in 1..Len(up)
  PROVE  /\ Taken(ctl.buf, up, n) \in Seq(ByteOf(ToHead)) /\ Rest(up, n) \in Seq(ByteOf(ToHead))
         /\ Both(Taken(ctl.buf, up, n), Rest(up, n)) = Both(ctl.buf, up)
         /\ Len(Taken(ctl.buf, up, n)) = Len(ctl.buf) + n /\ Len(Rest(up, n)) = Len(up) - n
         /\ \A i \in 1..(Len(ctl.buf) + n) : Taken(ctl.buf, up, n)[i] = Rise[i]
         /\ \A i \in 1..(Len(up) - n) : Rest(up, n)[i] = Rise[Len(ctl.buf) + n + i]
  <1>1. ctl.buf \in Seq(ByteOf(ToHead)) /\ up \in Seq(ByteOf(ToHead))
    BY Types
  <1>2. Rise = Both(ctl.buf, up)
    BY DEF Rise, Both
  <1>3. Taken(ctl.buf, up, n) \in Seq(ByteOf(ToHead)) /\ Rest(up, n) \in Seq(ByteOf(ToHead))
    BY <1>1, Received
  <1>4. Both(Taken(ctl.buf, up, n), Rest(up, n)) = Both(ctl.buf, up)
    BY <1>1, Received
  <1>5. Len(Taken(ctl.buf, up, n)) = Len(ctl.buf) + n /\ Len(Rest(up, n)) = Len(up) - n
    BY <1>1, Received
  <1>6. /\ \A i \in 1..(Len(ctl.buf) + n) : Taken(ctl.buf, up, n)[i] = Both(ctl.buf, up)[i]
        /\ \A i \in 1..(Len(up) - n) : Rest(up, n)[i] = Both(ctl.buf, up)[Len(ctl.buf) + n + i]
    <2> DEFINE S == Seq(ByteOf(ToHead))
    <2>1. ctl.buf \in S /\ up \in S /\ Splits(S)
      BY <1>1, SplitsAll, Zenon
    <2> HIDE DEF S
    <2> QED BY <2>1 DEF Splits
  <1> QED BY <1>2, <1>3, <1>4, <1>5, <1>6

LEMMA TakenDown ==
  ASSUME TypeOK, NEW n \in 1..Len(down)
  PROVE  /\ Taken(proc.buf, down, n) \in Seq(ByteOf(ToWkr)) /\ Rest(down, n) \in Seq(ByteOf(ToWkr))
         /\ Both(Taken(proc.buf, down, n), Rest(down, n)) = Both(proc.buf, down)
         /\ Len(Taken(proc.buf, down, n)) = Len(proc.buf) + n /\ Len(Rest(down, n)) = Len(down) - n
         /\ \A i \in 1..(Len(proc.buf) + n) : Taken(proc.buf, down, n)[i] = Fall[i]
         /\ \A i \in 1..(Len(down) - n) : Rest(down, n)[i] = Fall[Len(proc.buf) + n + i]
  <1>1. proc.buf \in Seq(ByteOf(ToWkr)) /\ down \in Seq(ByteOf(ToWkr))
    BY Types
  <1>2. Fall = Both(proc.buf, down)
    BY DEF Fall, Both
  <1>3. Taken(proc.buf, down, n) \in Seq(ByteOf(ToWkr)) /\ Rest(down, n) \in Seq(ByteOf(ToWkr))
    BY <1>1, Received
  <1>4. Both(Taken(proc.buf, down, n), Rest(down, n)) = Both(proc.buf, down)
    BY <1>1, Received
  <1>5. Len(Taken(proc.buf, down, n)) = Len(proc.buf) + n /\ Len(Rest(down, n)) = Len(down) - n
    BY <1>1, Received
  <1>6. \A i \in 1..(Len(proc.buf) + n) : Taken(proc.buf, down, n)[i] = Both(proc.buf, down)[i]
    <2> DEFINE S == Seq(ByteOf(ToWkr))
    <2>1. proc.buf \in S /\ down \in S /\ Splits(S)
      BY <1>1, SplitsAll, Zenon
    <2> HIDE DEF S
    <2> QED BY <2>1 DEF Splits
  <1>7. \A i \in 1..(Len(down) - n) : Rest(down, n)[i] = Both(proc.buf, down)[Len(proc.buf) + n + i]
    <2> SUFFICES ASSUME NEW i \in 1..(Len(down) - n)
                 PROVE  Rest(down, n)[i] = Both(proc.buf, down)[Len(proc.buf) + n + i]
      OBVIOUS
    <2>1. Len(down) \in Nat /\ Len(proc.buf) \in Nat /\ n \in Nat
      BY <1>1
    <2>2. n + i \in 1..Len(down) /\ Rest(down, n)[i] = down[n + i]
      BY <1>1, <2>1 DEF Rest
    <2>3. (proc.buf \o down)[Len(proc.buf) + (n + i)] = down[n + i]
      <3> DEFINE j == Len(proc.buf) + (n + i)
      <3>1. j \in 1..(Len(proc.buf) + Len(down)) /\ ~(j <= Len(proc.buf)) /\ j - Len(proc.buf) = n + i
        BY <2>1, <2>2
      <3> HIDE DEF j
      <3>2. (proc.buf \o down)[j] = IF j <= Len(proc.buf) THEN proc.buf[j] ELSE down[j - Len(proc.buf)]
        BY <1>1, <3>1, ConcatProperties
      <3> QED BY <3>1, <3>2 DEF j
    <2>4. Len(proc.buf) + (n + i) = Len(proc.buf) + n + i
      BY <2>1, <2>2
    <2> QED BY <2>2, <2>3, <2>4 DEF Both
  <1> QED BY <1>2, <1>3, <1>4, <1>5, <1>6, <1>7

(* A part of a message is kept. *)
LEMMA HeadKeeps ==
  ASSUME CtlInv, ctl.open, NEW n \in 1..Len(up),
         up' = Rest(up, n), ctl' = [ctl EXCEPT !.buf = Taken(ctl.buf, up, n)],
         UNCHANGED <<wkr, proc, down>>
  PROVE  CtlInv'
  <1>1. TypeOK /\ ctl.buf \in Seq(ByteOf(ToHead)) /\ up \in Seq(ByteOf(ToHead))
    BY Types DEF CtlInv
  <1>2. /\ Taken(ctl.buf, up, n) \in Seq(ByteOf(ToHead)) /\ Rest(up, n) \in Seq(ByteOf(ToHead))
        /\ Both(Taken(ctl.buf, up, n), Rest(up, n)) = Both(ctl.buf, up)
    BY <1>1, TakenUp
  <1>3. /\ ctl'.open /\ ctl'.tx = ctl.tx /\ ctl'.ended = ctl.ended
        /\ ctl'.buf = Taken(ctl.buf, up, n)
    BY <1>1 DEF TypeOK
  <1>4. TypeOK'
    <2>1. ctl' \in CtlType
      <3>1. ctl \in CtlType
        BY <1>1, TypeParts
      <3> QED BY <1>2, <3>1 DEF CtlType
    <2> QED BY <1>1, <1>2, <2>1, TypeParts
  <1>5. /\ Rise' = Rise /\ Fall' = Fall /\ (Alive' <=> Alive) /\ (Runs' <=> Runs)
        /\ (Harmless' <=> Harmless) /\ (Registered' <=> Registered)
    BY <1>2, <1>3 DEF Rise, Both, Fall, Alive, Runs, Harmless, May, Registered
  <1>6. Slots' /\ Rising' /\ Kept' /\ Falling'
    BY <1>3, <1>5 DEF CtlInv, Slots, Rising, Kept, Falling
  <1>7. Staged' /\ Stuck' /\ Left' /\ LetGo'
    BY <1>3, <1>5 DEF CtlInv, Staged, Stuck, Left, LetGo
  <1>8. Disturbed'
    BY <1>3, <1>5 DEF CtlInv, Disturbed, May
  <1> QED BY <1>4, <1>6, <1>7, <1>8 DEF CtlInv

(* A message is complete: the head has all that is under way, the worker   *)
(* has said it all, and is in the stage to say it, or gone.                *)
LEMMA HeadHas ==
  ASSUME CtlInv, ctl.open, NEW n \in 1..Len(up), Complete(Taken(ctl.buf, up, n))
  PROVE  /\ Taken(ctl.buf, up, n)[1].msg \in ToHead
         /\ Rise # <<>> /\ Rise[1].msg = Taken(ctl.buf, up, n)[1].msg
         /\ Rest(up, n) = <<>>
         /\ ctl.tx.out = None /\ Fall = <<>> /\ proc.tx.out = None
  <1> DEFINE buf == Taken(ctl.buf, up, n)
  <1>1. TypeOK /\ Rise \in Seq(ByteOf(ToHead)) /\ Len(Rise) = Len(ctl.buf) + Len(up)
        /\ ctl.buf \in Seq(ByteOf(ToHead)) /\ up \in Seq(ByteOf(ToHead))
    BY Types DEF CtlInv
  <1>2. PICK m \in ToHead : Starts(Rise, m)
    BY DEF CtlInv, Rising
  <1>3. /\ buf \in Seq(ByteOf(ToHead)) /\ Len(buf) = Len(ctl.buf) + n
        /\ Rest(up, n) \in Seq(ByteOf(ToHead)) /\ Len(Rest(up, n)) = Len(up) - n
        /\ \A i \in 1..(Len(ctl.buf) + n) : buf[i] = Rise[i]
    BY <1>1, TakenUp
  <1>4. MsgLen(m) \in Nat /\ Len(ctl.buf) \in Nat /\ Len(up) \in Nat /\ n \in Nat /\ n >= 1 /\ n <= Len(up)
    BY <1>1, Lengths
  <1> HIDE DEF buf
  <1>5. Len(buf) \in Nat /\ Len(buf) >= 1 /\ Len(buf) <= Len(Rise)
    BY <1>1, <1>3, <1>4
  <1>6. Starts(buf, m)
    <2>1. Len(Rise) <= MsgLen(m) /\ Len(Rise) \in Nat
      BY <1>1, <1>2 DEF Starts
    <2>2. Len(buf) <= MsgLen(m)
      BY <1>4, <1>5, <2>1
    <2>3. ASSUME NEW i \in 1..Len(buf) PROVE buf[i] = [msg |-> m, at |-> i]
      <3>1. i \in 1..Len(Rise)
        BY <1>5, <2>1
      <3>2. buf[i] = Rise[i]
        BY <1>3
      <3> QED BY <1>2, <3>1, <3>2 DEF Starts
    <2> QED BY <2>2, <2>3 DEF Starts
  <1>7. buf # <<>> /\ Rise # <<>>
    BY <1>3, <1>5, <1>1
  <1>8. buf[1].msg = m /\ Rise[1].msg = m /\ Whole(buf, m)
    <2>1. buf[1].msg = m /\ Whole(buf, m)
      BY <1>3, <1>6, <1>7, StartsParse DEF buf
    <2>2. Rise[1].msg = m
      BY <1>1, <1>2, <1>7, StartsParse
    <2> QED BY <2>1, <2>2
  <1>9. Len(buf) = MsgLen(m)
    BY <1>8 DEF Whole
  <1>10. Len(Rise) = MsgLen(m)
    <2>1. Len(Rise) <= MsgLen(m) /\ Len(Rise) \in Nat
      BY <1>1, <1>2 DEF Starts
    <2> QED BY <1>4, <1>5, <1>9, <2>1
  <1>11. Rest(up, n) = <<>>
    BY <1>1, <1>3, <1>4, <1>9, <1>10
  <1>12. ctl.tx.out = None /\ Fall = <<>>
    BY <1>7 DEF CtlInv, Rising
  <1>13. proc.tx.out = None
    <2> SUFFICES ASSUME proc.tx.out # None PROVE FALSE
      OBVIOUS
    <2>1. Len(Rise) = proc.tx.sent /\ Starts(Rise, proc.tx.out) /\ proc.tx.sent < MsgLen(proc.tx.out)
      BY DEF CtlInv, Rising, Slots
    <2>2. proc.tx.out \in ToHead
      BY <1>1, Types
    <2>3. Rise[1].msg = proc.tx.out
      BY <1>1, <1>7, <2>1, <2>2, StartsParse
    <2>4. proc.tx.out = m
      BY <1>8, <2>3
    <2>5. MsgLen(m) < MsgLen(m)
      BY <1>10, <2>1, <2>4
    <2> QED BY <1>4, <2>5
  <1> QED BY <1>7, <1>8, <1>11, <1>12, <1>13 DEF buf

(* The head answers, and the answer is the only message there is.          *)
LEMMA HeadAnswers ==
  ASSUME CtlInv, ctl.open, Rise # <<>>, ctl.tx.out = None, Fall = <<>>, proc.tx.out = None,
         NEW a \in ToWkr, ctl'.tx = Say(a), ctl'.buf = <<>>, ctl'.open, TypeOK',
         up' = <<>>, UNCHANGED <<proc, down>>,
         wkr'.state = "EXPIRED" => wkr.state = "EXPIRED",
         ctl'.ended => ~Alive,
         Alive => Runs,
         Runs => /\ Stage(a) = proc.stage
                 /\ Registered' <=> (proc.stage = "up" \/ a = "ADD_OK"),
         ~Runs => (Registered' => Registered)
  PROVE  CtlInv'
  <1>1. /\ Rise' = <<>> /\ Fall' = <<>> /\ (Alive' <=> Alive) /\ (Runs' <=> Runs)
        /\ (Harmless' <=> Harmless)
    BY DEF Rise, Fall, Alive, Runs, Harmless, May
  <1>2. a # None /\ Say(a).out = a /\ Say(a).sent = 0 /\ Say(a).writing
    BY DEF Say, None, ToWkr
  <1>3. Slots'
    BY <1>1, <1>2 DEF CtlInv, Slots
  <1>4. Rising' /\ Kept'
    <2>1. \A m \in ToHead : Starts(<<>>, m)
      BY Lengths DEF Starts
    <2>2. "PONG" \in ToHead
      BY DEF ToHead
    <2> QED BY <1>1, <2>1, <2>2 DEF CtlInv, Rising, Kept
  <1>5. Falling'
    BY <1>1 DEF Falling
  <1>6. Staged'
    <2> SUFFICES ASSUME Runs PROVE Staged'
      BY <1>1 DEF Staged
    <2>1. proc.stage # "failed"
      BY DEF Stage, ToWkr
    <2>2. ctl'.tx.out = a
      BY <1>2
    <2> QED BY <1>1, <2>1, <2>2 DEF Staged
  <1>7. Stuck'
    BY <1>1 DEF Stuck
  <1>8. Left'
    <2>1. ~Alive => ~Harmless
      BY DEF CtlInv, Left
    <2> QED BY <1>1, <2>1 DEF Left
  <1>9. LetGo'
    BY DEF LetGo
  <1>10. Disturbed'
    BY <1>1 DEF CtlInv, Disturbed, May
  <1> QED BY <1>3, <1>4, <1>5, <1>6, <1>7, <1>8, <1>9, <1>10 DEF CtlInv

LEMMA HeadHears ==
  ASSUME CtlInv, ctl.open, NEW n \in 1..Len(up), up' = Rest(up, n),
         Complete(Taken(ctl.buf, up, n)), wr_ctl_msg_process(Taken(ctl.buf, up, n)[1].msg),
         UNCHANGED <<proc, down>>
  PROVE  CtlInv'
  <1> DEFINE m == Taken(ctl.buf, up, n)[1].msg
             c == [ctl EXCEPT !.buf = <<>>]
  <1>1. /\ m \in ToHead /\ Rise # <<>> /\ Rise[1].msg = m /\ up' = <<>>
        /\ ctl.tx.out = None /\ Fall = <<>> /\ proc.tx.out = None
    BY HeadHas
  <1>2. TypeOK /\ ctl \in CtlType /\ wkr \in WkrType /\ proc \in ProcType
    BY TypeParts DEF CtlInv
  <1>3. /\ c \in CtlType /\ c.buf = <<>> /\ c.open /\ c.tx = ctl.tx /\ c.ended = ctl.ended
    <2>1. <<>> \in Seq(ByteOf(ToHead))
      OBVIOUS
    <2> QED BY <1>2, <2>1 DEF CtlType
  <1>4. \A a \in ToWkr : /\ [c EXCEPT !.tx = Say(a)] \in CtlType
                         /\ [c EXCEPT !.tx = Say(a), !.ended = TRUE, !.told = TRUE] \in CtlType
    BY <1>3, SenderTypes DEF CtlType
  <1>5. up' \in Seq(ByteOf(ToHead)) /\ down' \in Seq(ByteOf(ToWkr)) /\ proc' \in ProcType
    BY <1>1, <1>2, TypeParts
  <1>6. Runs => Stage(m) = proc.stage
    BY <1>1 DEF CtlInv, Staged
  <1>7. Runs => (Registered <=> proc.stage = "up")
    BY <1>1 DEF CtlInv, Staged, None
  <1>8. (Registered => m = "PONG") /\ ((Alive /\ m # "PONG") => Runs)
    BY <1>1, OnlyPong DEF CtlInv, Stuck
  <1>9. ctl.ended => ~Alive
    BY DEF CtlInv, Disturbed
  <1> HIDE DEF m, c
  <1>10. CASE m = "CONF_REQ"
    <2>1. PICK a \in {"CONF", "CONF_ERR"} : ctl' = [c EXCEPT !.tx = Say(a)] /\ wkr' = wkr
      BY <1>10 DEF wr_ctl_msg_process, m, c
    <2>2. a \in ToWkr /\ Stage(a) = "boot" /\ Stage(m) = "boot" /\ a # "ADD_OK"
      BY <1>10 DEF ToWkr, Stage
    <2>3. ctl'.tx = Say(a) /\ ctl'.buf = <<>> /\ ctl'.open /\ ctl'.ended = ctl.ended
      BY <1>3, <2>1 DEF CtlType
    <2>4. TypeOK'
      BY <1>2, <1>4, <1>5, <2>1, <2>2, TypeParts
    <2>5. Registered' <=> Registered
      BY <2>1 DEF Registered
    <2> QED BY <1>1, <1>6, <1>7, <1>8, <1>9, <1>10, <2>1, <2>2, <2>3, <2>4, <2>5, HeadAnswers
  <1>11. CASE m = "ADD"
    <2>1. PICK a \in AddAnswers :
             /\ ctl' = [c EXCEPT !.tx = Say(a)]
             /\ IF a = "ADD_ERR" THEN UNCHANGED wkr
                ELSE \/ wkr' = [wkr EXCEPT !.state = "INACTIVE"]
                     \/ /\ wkr.reqs < NReq
                        /\ wkr' = [wkr EXCEPT !.state = "ACTIVE", !.reqs = @ + 1]
      BY <1>11 DEF wr_ctl_msg_process, m, c
    <2>2. a \in {"ADD_OK", "ADD_ERR"} /\ (a = "ADD_OK" => Alive)
      BY <2>1 DEF AddAnswers
    <2>3. a \in ToWkr /\ Stage(a) = "loaded" /\ Stage(m) = "loaded"
      BY <1>11, <2>2 DEF ToWkr, Stage
    <2>4. ctl'.tx = Say(a) /\ ctl'.buf = <<>> /\ ctl'.open /\ ctl'.ended = ctl.ended
      BY <1>3, <2>1 DEF CtlType
    <2>5. wkr' \in WkrType /\ (wkr'.state = "EXPIRED" => wkr.state = "EXPIRED")
          /\ (Registered' <=> a = "ADD_OK" \/ Registered)
      <3>1. CASE a = "ADD_ERR"
        BY <1>2, <2>1, <3>1 DEF Registered
      <3>2. CASE a # "ADD_ERR"
        <4>1. CASE wkr' = [wkr EXCEPT !.state = "INACTIVE"]
          BY <1>2, <2>2, <3>2, <4>1 DEF WkrType, Registered
        <4>2. CASE wkr.reqs < NReq /\ wkr' = [wkr EXCEPT !.state = "ACTIVE", !.reqs = @ + 1]
          <5>1. wkr.reqs + 1 \in 0..NReq
            BY <1>2, <4>2, CtlAssumption DEF WkrType
          <5> QED BY <1>2, <2>2, <3>2, <4>2, <5>1 DEF WkrType, Registered
        <4> QED BY <2>1, <3>2, <4>1, <4>2
      <3> QED BY <3>1, <3>2
    <2>6. TypeOK'
      BY <1>4, <1>5, <2>1, <2>3, <2>5, TypeParts
    <2>7. ~Registered /\ (Alive => Runs)
      BY <1>8, <1>11
    <2> QED BY <1>1, <1>6, <1>7, <1>9, <2>2, <2>3, <2>4, <2>5, <2>6, <2>7, HeadAnswers
  <1>12. CASE m = "ERROR"
    <2>1. ctl' = [c EXCEPT !.tx = Say("ACK"), !.ended = TRUE, !.told = TRUE] /\ wkr' = wkr
      BY <1>12 DEF wr_ctl_msg_process, m, c
    <2>2. "ACK" \in ToWkr
      BY DEF ToWkr
    <2>3. ctl'.tx = Say("ACK") /\ ctl'.buf = <<>> /\ ctl'.open
      BY <1>3, <2>1 DEF CtlType
    <2>4. TypeOK'
      BY <1>2, <1>4, <1>5, <2>1, <2>2, TypeParts
    <2>5. ~Runs
      <3> SUFFICES ASSUME Runs PROVE FALSE
        OBVIOUS
      <3>1. proc.stage = "failed"
        BY <1>6, <1>12 DEF Stage
      <3> QED BY <1>1, <3>1 DEF CtlInv, Staged, None
    <2>6. ~Alive /\ (Registered' <=> Registered)
      BY <1>8, <1>12, <2>1, <2>5 DEF Registered
    <2> QED BY <1>1, <2>1, <2>2, <2>3, <2>4, <2>5, <2>6, HeadAnswers
  <1>13. CASE m = "PONG"
    <2>1. ctl' = [c EXCEPT !.tx = Discarded(@)] /\ wkr' = Ponged(wkr)
      BY <1>13 DEF wr_ctl_msg_process, m, c
    <2>2. ctl.tx.sent = 0 /\ ~ctl.tx.writing /\ ctl.tx \in Sender(ToWkr)
      BY <1>1, <1>2 DEF CtlInv, Slots, CtlType
    <2>3. Discarded(ctl.tx) = ctl.tx
      BY <1>1, <2>2 DEF Discarded, Sender
    <2>4. ctl' = c
      BY <1>3, <2>1, <2>3 DEF CtlType
    <2>5. wkr' \in WkrType /\ (Registered' <=> Registered) /\ (wkr'.state = "EXPIRED" => wkr.state = "EXPIRED")
      BY <1>2, <2>1 DEF WkrType, Ponged, Registered
    <2>6. TypeOK'
      BY <1>3, <1>5, <2>4, <2>5, TypeParts
    <2>7. /\ Rise' = <<>> /\ Fall' = Fall /\ (Alive' <=> Alive) /\ (Runs' <=> Runs)
          /\ (Harmless' <=> Harmless)
      BY <1>1, <1>3, <2>4 DEF Rise, Fall, Alive, Runs, Harmless, May
    <2>8. Slots' /\ Kept' /\ Falling'
      BY <1>3, <2>4, <2>7 DEF CtlInv, Slots, Kept, Falling
    <2>9. Rising'
      <3>1. \A x \in ToHead : Starts(<<>>, x)
        BY Lengths DEF Starts
      <3> QED BY <1>1, <1>13, <2>7, <3>1 DEF Rising
    <2>10. Staged' /\ Stuck'
      BY <1>3, <2>4, <2>5, <2>7 DEF CtlInv, Staged, Stuck
    <2>11. Left' /\ LetGo'
      BY <1>1, <1>3, <2>4, <2>7 DEF CtlInv, Left, LetGo
    <2>12. Disturbed'
      BY <1>3, <2>4, <2>5, <2>7 DEF CtlInv, Disturbed, May
    <2> QED BY <2>6, <2>8, <2>9, <2>10, <2>11, <2>12 DEF CtlInv
  <1> QED BY <1>1, <1>10, <1>11, <1>12, <1>13 DEF ToHead

LEMMA HeadReads ==
  ASSUME CtlInv, wr_ctl_msg_read_cb PROVE CtlInv'
  <1>1. ctl.open
    BY DEF wr_ctl_msg_read_cb
  <1>2. CASE /\ (up = <<>> /\ ~Alive) \/ (up # <<>> /\ Len(ctl.buf) = BufSize)
             /\ CtlFreed /\ UNCHANGED up
    BY <1>1, <1>2, HeadHangsUp
  <1>3. ASSUME NEW n \in 1..Len(up),
               LET buf == ctl.buf \o SubSeq(up, 1, n)
               IN  /\ Len(buf) <= BufSize
                   /\ up' = SubSeq(up, n + 1, Len(up))
                   /\ IF Complete(buf) THEN wr_ctl_msg_process(buf[1].msg)
                      ELSE ctl' = [ctl EXCEPT !.buf = buf] /\ UNCHANGED wkr
                   /\ UNCHANGED <<proc, down>>
        PROVE  CtlInv'
    <2>1. /\ up' = Rest(up, n) /\ UNCHANGED <<proc, down>>
          /\ IF Complete(Taken(ctl.buf, up, n)) THEN wr_ctl_msg_process(Taken(ctl.buf, up, n)[1].msg)
             ELSE ctl' = [ctl EXCEPT !.buf = Taken(ctl.buf, up, n)] /\ UNCHANGED wkr
      BY <1>3 DEF Taken, Rest
    <2>2. CASE Complete(Taken(ctl.buf, up, n))
      BY <1>1, <2>1, <2>2, HeadHears
    <2>3. CASE ~Complete(Taken(ctl.buf, up, n))
      BY <1>1, <2>1, <2>3, HeadKeeps
    <2> QED BY <2>2, <2>3
  <1> QED BY <1>2, <1>3 DEF wr_ctl_msg_read_cb

LEMMA PingType ==
  ASSUME TypeOK, TrialsLeft, wkr' = [wkr EXCEPT !.state = "PINGING", !.trials = @ + 1],
         ctl' = [ctl EXCEPT !.tx = Say("PING")], UNCHANGED <<proc, up, down>>
  PROVE  /\ TypeOK' /\ ctl'.open = ctl.open /\ ctl'.tx = Say("PING") /\ ctl'.buf = ctl.buf
         /\ ctl'.ended = ctl.ended /\ Registered' /\ wkr'.state # "EXPIRED"
  <1>1. ctl \in CtlType /\ wkr \in WkrType
    BY TypeParts
  <1>2. wkr' \in WkrType
    <2>1. wkr.trials + 1 \in 0..PingTrials
      BY <1>1, CtlAssumption DEF WkrType, TrialsLeft
    <2> QED BY <1>1, <2>1 DEF WkrType
  <1>3. ctl' \in CtlType
    <2>1. Say("PING") \in Sender(ToWkr)
      BY SenderTypes DEF ToWkr
    <2> QED BY <1>1, <2>1 DEF CtlType
  <1>4. TypeOK'
    BY <1>2, <1>3, TypeParts
  <1> QED BY <1>1, <1>4 DEF CtlType, WkrType, Registered

(* A slow worker is sent a PING while another, or its answer, is under way. *)
Interrupts ==
  /\ PingOut /\ May("slow") /\ ctl.open /\ ~ctl.tx.writing /\ TrialsLeft
  /\ wkr.state \in {"ACTIVE", "PINGING"}
  /\ wkr' = [wkr EXCEPT !.state = "PINGING", !.trials = @ + 1]
  /\ ctl' = [ctl EXCEPT !.tx = Say("PING")]
  /\ UNCHANGED <<proc, up, down>>

(* A PING is sent to a worker to which nothing is on its way, if it runs.   *)
LEMMA HeadPings ==
  ASSUME CtlInv, ctl.open, ~ctl.tx.writing, wkr.state \in {"ACTIVE", "PINGING"}, TrialsLeft, ~PingOut,
         wkr' = [wkr EXCEPT !.state = "PINGING", !.trials = @ + 1],
         ctl' = [ctl EXCEPT !.tx = Say("PING")], UNCHANGED <<proc, up, down>>
  PROVE  CtlInv'
  <1>1. TypeOK /\ ctl \in CtlType /\ wkr \in WkrType
    BY TypeParts DEF CtlInv
  <1>2. Registered /\ ctl.tx.out = None
    BY DEF Registered, CtlInv, Slots
  <1>3. Rise = <<>>
    <2> SUFFICES ASSUME Rise # <<>> PROVE FALSE
      OBVIOUS
    <2>1. Rise[1].msg = "PONG"
      BY <1>2, OnlyPong
    <2>2. 1 \in DOMAIN Rise
      <3>1. Rise \in Seq(ByteOf(ToHead))
        BY <1>1, Types
      <3> QED BY <3>1
    <2> QED BY <2>1, <2>2 DEF PingOut, Rise
  <1>4. ASSUME Runs PROVE Fall = <<>> /\ proc.stage = "up" /\ proc.tx.out = None
    <2>1. down = <<>> /\ proc.buf = <<>> /\ proc.tx.out # "PONG"
      BY <1>4 DEF PingOut
    <2>2. Fall = <<>>
      BY <2>1 DEF Fall
    <2>3. proc.stage = "up"
      BY <1>2, <1>4, <2>2 DEF CtlInv, Staged, None
    <2>4. proc.tx.out # None => Stage(proc.tx.out) = "up"
      BY <1>4, <2>3 DEF CtlInv, Staged
    <2>5. proc.tx.out \in ToHead \cup {None}
      BY <1>1, Types
    <2> QED BY <2>1, <2>2, <2>3, <2>4, <2>5 DEF Stage, ToHead
  <1>5. /\ ctl'.open /\ ctl'.tx = Say("PING") /\ ctl'.buf = ctl.buf /\ ctl'.ended = ctl.ended
        /\ Registered' /\ wkr'.state # "EXPIRED"
    BY <1>1, PingType
  <1>6. TypeOK'
    BY <1>1, PingType
  <1>7. /\ Rise' = <<>> /\ Fall' = Fall /\ (Alive' <=> Alive) /\ (Runs' <=> Runs)
        /\ (Harmless' <=> Harmless)
    BY <1>3, <1>5 DEF Rise, Fall, Alive, Runs, Harmless, May
  <1>8. Say("PING").out = "PING" /\ Say("PING").sent = 0 /\ Say("PING").writing /\ "PING" # None
    BY DEF Say, None
  <1>9. Slots'
    BY <1>5, <1>7, <1>8 DEF CtlInv, Slots
  <1>10. Rising' /\ Kept'
    BY <1>3, <1>5, <1>7 DEF CtlInv, Rising, Kept
  <1>11. Falling'
    BY <1>4, <1>5, <1>7 DEF Falling
  <1>12. Staged'
    <2>1. Stage("PING") = "up"
      BY DEF Stage
    <2> QED BY <1>4, <1>5, <1>7, <1>8, <2>1 DEF Staged
  <1>13. Stuck' /\ LetGo'
    BY <1>2, <1>5, <1>7 DEF CtlInv, Stuck, LetGo
  <1>14. Left'
    BY <1>2, <1>7 DEF CtlInv, Left
  <1>15. Disturbed'
    BY <1>5, <1>7 DEF CtlInv, Disturbed, May
  <1> QED BY <1>6, <1>9, <1>10, <1>11, <1>12, <1>13, <1>14, <1>15 DEF CtlInv

LEMMA HeadWaits ==
  ASSUME CtlInv, wr_wkr_wait_cb, ~Interrupts PROVE CtlInv'
  <1>1. ctl.open /\ ctl.tx.out = None /\ UNCHANGED up
    BY DEF wr_wkr_wait_cb, CtlInv, Slots
  <1>2. CASE /\ wkr.state \in {"ACTIVE", "PINGING"} /\ TrialsLeft
             /\ ~PingOut
             /\ wkr' = [wkr EXCEPT !.state = "PINGING", !.trials = @ + 1]
             /\ ctl' = [ctl EXCEPT !.tx = Say("PING")]
             /\ UNCHANGED <<proc, down>>
    BY <1>1, <1>2, HeadPings DEF wr_wkr_wait_cb
  <1>3. CASE Freed(<<>>, HangupSignal)
    BY <1>1, <1>3, FreedStep DEF HangupSignal
  <1>4. CASE Freed(Bytes("REMOVE"), None)
    BY <1>1, <1>4, FreedStep
  <1> QED BY <1>1, <1>2, <1>3, <1>4 DEF wr_wkr_wait_cb, Interrupts, PingMay

(* The steps that concern the requests of the worker, and its dismissal.   *)
LEMMA HeadUses ==
  ASSUME CtlInv, Dispatch \/ Watch \/ Processed \/ Dismiss PROVE CtlInv'
  <1>1. TypeOK /\ wkr \in WkrType
    BY TypeParts DEF CtlInv
  <1>2. wkr.state = "EXPIRED" => May("drop")
    BY DEF CtlInv, Disturbed
  <1>3. May("drop") => ~Harmless
    BY DEF Harmless
  <1>4. CASE Dispatch
    <2>1. wkr' = [wkr EXCEPT !.state = "ACTIVE", !.reqs = @ + 1] /\ wkr.state = "INACTIVE" /\ wkr.reqs < NReq
      BY <1>4 DEF Dispatch
    <2>2. wkr.reqs + 1 \in 0..NReq
      BY <1>1, <2>1, CtlAssumption DEF WkrType
    <2>3. wkr' \in WkrType /\ Registered /\ Registered' /\ wkr'.state # "EXPIRED"
      BY <1>1, <2>1, <2>2 DEF WkrType, Registered
    <2>4. UNCHANGED <<ctl, proc, up, down>>
      BY <1>4 DEF Dispatch
    <2>5. TypeOK'
      BY <1>1, <2>3, <2>4, TypeParts
    <2> QED BY <2>3, <2>4, <2>5, WkrOnly
  <1>5. CASE Watch
    <2>1. wkr' = [wkr EXCEPT !.state = IF @ = "PINGING" THEN "ACTIVE" ELSE @, !.trials = 0, !.tWait = TRUE] /\ Busy
      BY <1>5 DEF Watch
    <2>2. 0 \in 0..PingTrials
      BY CtlAssumption
    <2>3. wkr' \in WkrType /\ Registered /\ Registered' /\ (wkr'.state = "EXPIRED" => wkr.state = "EXPIRED")
      BY <1>1, <2>1, <2>2 DEF WkrType, Registered, Busy
    <2>4. UNCHANGED <<ctl, proc, up, down>>
      BY <1>5 DEF Watch
    <2>5. TypeOK'
      BY <1>1, <2>3, <2>4, TypeParts
    <2> QED BY <1>2, <2>3, <2>4, <2>5, WkrOnly
  <1>6. CASE Processed
    <2>1. ctl.open /\ Busy /\ UNCHANGED up
      BY <1>6 DEF Processed
    <2>2. CASE wkr.state = "EXPIRED"
      <3>1. Freed(Bytes("REMOVE"), None)
        BY <1>6, <2>2 DEF Processed
      <3> QED BY <1>2, <1>3, <2>1, <2>2, <3>1, FreedStep
    <2>3. CASE wkr.state # "EXPIRED"
      <3>1. wkr' = [wkr EXCEPT !.state = "INACTIVE", !.tWait = FALSE] /\ UNCHANGED <<ctl, proc, down>>
        BY <1>6, <2>3 DEF Processed
      <3>2. wkr' \in WkrType /\ Registered /\ Registered' /\ wkr'.state # "EXPIRED"
        BY <1>1, <2>1, <3>1 DEF WkrType, Registered, Busy
      <3>3. TypeOK'
        BY <1>1, <2>1, <3>1, <3>2, TypeParts
      <3> QED BY <2>1, <3>1, <3>2, <3>3, WkrOnly
    <2> QED BY <2>2, <2>3
  <1>7. CASE Dismiss
    <2>1. ctl.open /\ May("drop") /\ UNCHANGED up /\ Registered
      BY <1>7 DEF Dismiss
    <2>2. CASE Freed(<<>>, "HUP")
      BY <1>3, <2>1, <2>2, FreedStep
    <2>3. CASE wkr' = [wkr EXCEPT !.state = "EXPIRED"] /\ UNCHANGED <<ctl, proc, down>>
      <3>1. wkr' \in WkrType /\ Registered'
        BY <1>1, <2>3 DEF WkrType, Registered
      <3>2. TypeOK'
        BY <1>1, <2>1, <2>3, <3>1, TypeParts
      <3> QED BY <2>1, <2>3, <3>1, <3>2, WkrOnly
    <2> QED BY <1>7, <2>2, <2>3 DEF Dismiss
  <1> QED BY <1>4, <1>5, <1>6, <1>7

-----------------------------------------------------------------------------
(* The worker. *)

(* It leaves for a reason of its own, or is stuck in a request.            *)
LEMMA WorkerFails ==
  ASSUME CtlInv, ctl_ack_timeout_cb \/ sigproc \/ Crash PROVE CtlInv'
  <1>1. TypeOK /\ proc \in ProcType
    BY TypeParts DEF CtlInv
  <1>2. Alive /\ proc' = Gone(proc) /\ UNCHANGED <<ctl, wkr, up, down>>
    BY DEF ctl_ack_timeout_cb, sigproc, Crash, Exits, Runs
  <1>3. /\ proc'.stage = "gone" /\ proc'.tx = Silent /\ ~proc'.hung /\ proc'.hup = proc.hup
        /\ proc'.env = proc.env /\ proc'.buf = proc.buf
    BY <1>1, <1>2 DEF Gone, ProcType
  <1>4. TypeOK'
    BY <1>1, <1>2, GoneType, TypeParts
  <1>5. Fall' = Fall
    BY <1>2, <1>3 DEF Fall
  <1>6. ctl.open => ~Harmless
    BY DEF ctl_ack_timeout_cb, sigproc, Crash, CtlInv, Disturbed, Harmless
  <1> QED BY <1>2, <1>3, <1>4, <1>5, <1>6, ProcLeaves

LEMMA WorkerHangs ==
  ASSUME CtlInv, Hang PROVE CtlInv'
  <1>1. TypeOK /\ proc \in ProcType
    BY TypeParts DEF CtlInv
  <1>2. Runs /\ Registered /\ proc' = [proc EXCEPT !.hung = TRUE] /\ UNCHANGED <<ctl, wkr, up, down>>
    BY DEF Hang, Busy, Registered
  <1>3. ctl.open
    BY <1>2 DEF CtlInv, LetGo
  <1>4. proc' \in ProcType /\ proc'.hung
    BY <1>1, <1>2 DEF ProcType
  <1>5. /\ proc'.stage = proc.stage /\ proc'.buf = proc.buf /\ proc'.tx = proc.tx
        /\ proc'.hup = proc.hup /\ proc'.env = proc.env
    BY <1>1, <1>2 DEF ProcType
  <1>6. TypeOK'
    BY <1>1, <1>2, <1>4, TypeParts
  <1>7. /\ Rise' = Rise /\ Fall' = Fall /\ Alive' /\ ~Runs' /\ Registered'
        /\ (Harmless' <=> Harmless)
    BY <1>2, <1>4, <1>5 DEF Rise, Fall, Alive, Runs, Registered, Harmless, May
  <1>8. Slots' /\ Rising' /\ Kept' /\ Falling'
    BY <1>2, <1>5, <1>7 DEF CtlInv, Runs, Slots, Rising, Kept, Falling
  <1>9. Staged' /\ Left' /\ LetGo'
    BY <1>2, <1>3, <1>7 DEF Staged, Left, LetGo
  <1>10. Stuck'
    BY <1>2, <1>3, <1>7, OnlyPong DEF Stuck
  <1>11. Disturbed'
    BY <1>2, <1>5, <1>7 DEF CtlInv, Disturbed, May, Runs
  <1> QED BY <1>6, <1>8, <1>9, <1>10, <1>11 DEF CtlInv

(* A part of the message goes up.  When it is the last one, the worker     *)
(* waits for the answer, or leaves after an error.                         *)
LEMMA WorkerWrites ==
  ASSUME CtlInv, ctl_write_cb PROVE CtlInv'
  <1> DEFINE m == proc.tx.out
             chunk == scgi_send(Bytes(m), proc.tx.sent)
             sent == proc.tx.sent + Len(chunk)
             done == sent >= Len(Bytes(m))
  <1>1. TypeOK /\ proc \in ProcType /\ Runs /\ m \in ToHead /\ m # None /\ Alive
    BY Types, TypeParts DEF CtlInv, ctl_write_cb, Runs
  <1>2. UNCHANGED <<ctl, wkr, down>>
    BY DEF ctl_write_cb
  <1>3. CASE ~ctl.open
    <2>1. proc' = Gone(proc) /\ up' = up
      BY <1>3 DEF ctl_write_cb, Exits
    <2>2. /\ proc'.stage = "gone" /\ proc'.tx = Silent /\ ~proc'.hung /\ proc'.hup = proc.hup
          /\ proc'.env = proc.env /\ proc'.buf = proc.buf
      BY <1>1, <2>1 DEF Gone, ProcType
    <2>3. TypeOK'
      BY <1>1, <1>2, <2>1, GoneType, TypeParts
    <2>4. Fall' = Fall
      BY <1>2, <2>2 DEF Fall
    <2> QED BY <1>1, <1>2, <1>3, <2>1, <2>2, <2>3, <2>4, ProcLeaves
  <1>4. CASE ctl.open
    <2>1. /\ up' = up \o chunk
          /\ \/ ~done /\ proc' = [proc EXCEPT !.tx.sent = sent]
             \/ done /\ proc.stage = "failed" /\ proc' = Gone(proc)
             \/ done /\ proc.stage # "failed" /\ proc' = [proc EXCEPT !.tx = Silent]
      BY <1>4 DEF ctl_write_cb, Exits
    <2>2. /\ proc.tx.sent \in {0, 2} /\ proc.tx.sent < MsgLen(m)
          /\ Len(Rise) = proc.tx.sent /\ Starts(Rise, m) /\ Rise \in Seq(ByteOf(ToHead))
      BY <1>1, <1>4, Types DEF CtlInv, Slots, Rising
    <2>3. /\ chunk \in Seq(ByteOf(ToHead)) /\ Len(chunk) = 2
          /\ Rise \o chunk \in Seq(ByteOf(ToHead)) /\ Len(Rise \o chunk) = proc.tx.sent + 2
          /\ Starts(Rise \o chunk, m)
          /\ proc.tx.sent + 2 >= Len(Bytes(m)) <=> proc.tx.sent + 2 = MsgLen(m)
      <3> HIDE DEF m
      <3> QED BY <1>1, <2>2, WorkerSends
    <2>4. ctl.tx.out = None /\ Fall = <<>>
      BY <1>1, <1>4 DEF CtlInv, Falling
    <2>5. Rise' = Rise \o chunk
      <3>1. Rise' = ctl.buf \o (up \o chunk)
        BY <1>2, <2>1 DEF Rise
      <3> DEFINE T == Seq(ByteOf(ToHead))
      <3>2. ctl.buf \in T /\ up \in T
        BY <1>1, Types
      <3>3. ctl.buf \in T /\ up \in T /\ chunk \in T /\ Assoc(T)
        BY <2>3, <3>2, JoinedAll, Zenon
      <3> HIDE DEF T, chunk
      <3>4. (ctl.buf \o up) \o chunk = ctl.buf \o (up \o chunk)
        BY <3>3 DEF Assoc
      <3> QED BY <3>1, <3>4 DEF Rise
    <2>6. sent = proc.tx.sent + 2 /\ (done <=> proc.tx.sent + 2 = MsgLen(m))
      BY <2>3
    <2>7. up' \in Seq(ByteOf(ToHead))
      <3> HIDE DEF chunk
      <3> QED BY <1>1, <2>1, <2>3, Types
    <2> HIDE DEF chunk, sent, done
    <2>8. Rise' # <<>> /\ Rise'[1].msg = m /\ Len(Rise') = proc.tx.sent + 2 /\ Starts(Rise', m)
      <3>1. Len(Rise') = proc.tx.sent + 2 /\ Starts(Rise', m) /\ Rise' \in Seq(ByteOf(ToHead))
        BY <2>3, <2>5
      <3>2. Rise' # <<>>
        BY <2>2, <3>1
      <3> HIDE DEF m
      <3> QED BY <1>1, <3>1, <3>2, StartsParse
    <2>9. /\ Stage(m) = proc.stage
          /\ Registered <=> proc.stage = "up"
          /\ proc.stage = "failed" => May("load")
      BY <1>1, <1>4, <2>4 DEF CtlInv, Staged, Disturbed, None
    <2>10. (Registered' <=> Registered) /\ ctl' = ctl /\ wkr' = wkr /\ down' = down
      BY <1>2 DEF Registered
    <2>11. CASE ~done
      <3>1. proc' = [proc EXCEPT !.tx.sent = sent]
        BY <2>1, <2>11
      <3>2. sent = 2 /\ 2 < MsgLen(m) /\ proc.tx.sent = 0
        <4>1. MsgLen(m) \in {2, 4}
          BY <1>1, Lengths DEF MsgLen
        <4> QED BY <2>2, <2>6, <2>11, <4>1
      <3>3. /\ proc' \in ProcType /\ proc'.stage = proc.stage /\ proc'.buf = proc.buf
            /\ proc'.hung = proc.hung /\ proc'.hup = proc.hup /\ proc'.env = proc.env
            /\ proc'.tx.out = m /\ proc'.tx.sent = 2 /\ proc'.tx.writing = proc.tx.writing
        BY <1>1, <3>1, <3>2 DEF ProcType, Sender
      <3>4. TypeOK'
        BY <1>1, <2>7, <2>10, <3>3, TypeParts
      <3>5. Fall' = <<>> /\ Alive' /\ Runs' /\ (Harmless' <=> Harmless)
        BY <1>1, <2>4, <2>10, <3>3 DEF Fall, Alive, Runs, Harmless, May
      <3>6. Slots'
        BY <1>1, <2>10, <3>2, <3>3, <3>5 DEF CtlInv, Slots
      <3>7. Rising' /\ Kept' /\ Falling'
        BY <1>1, <2>4, <2>8, <2>10, <3>2, <3>3, <3>5 DEF CtlInv, Rising, Kept, Falling
      <3>8. Staged'
        BY <1>1, <1>4, <2>4, <2>8, <2>9, <2>10, <3>3, <3>5 DEF CtlInv, Staged, None
      <3>9. Stuck' /\ Left' /\ LetGo'
        BY <1>4, <2>10, <3>5 DEF Stuck, Left, LetGo
      <3>10. Disturbed'
        BY <1>1, <2>10, <3>3, <3>5 DEF CtlInv, Disturbed, May
      <3> QED BY <3>4, <3>6, <3>7, <3>8, <3>9, <3>10 DEF CtlInv
    <2>12. CASE done /\ proc.stage = "failed" /\ proc' = Gone(proc)
      <3>1. /\ proc' \in ProcType /\ proc'.stage = "gone" /\ proc'.tx = Silent /\ ~proc'.hung
            /\ proc'.hup = proc.hup /\ proc'.env = proc.env /\ proc'.buf = proc.buf
        BY <1>1, <2>12, GoneType DEF Gone, ProcType
      <3>2. TypeOK'
        BY <1>1, <2>7, <2>10, <3>1, TypeParts
      <3>3. Fall' = <<>> /\ ~Alive' /\ ~Runs' /\ ~Harmless' /\ ~Registered'
        BY <2>4, <2>9, <2>10, <2>12, <3>1 DEF Fall, Alive, Runs, Harmless, May
      <3>4. Slots'
        BY <2>10, <3>1, <3>3 DEF CtlInv, Slots, Silent
      <3>5. Rising' /\ Kept' /\ Falling'
        BY <1>1, <2>4, <2>8, <2>10, <3>1, <3>3 DEF CtlInv, Rising, Kept, Falling, Silent
      <3>6. Staged' /\ Stuck' /\ Left' /\ LetGo'
        BY <1>4, <2>10, <3>3 DEF Staged, Stuck, Left, LetGo
      <3>7. Disturbed'
        BY <2>10, <3>1, <3>3 DEF CtlInv, Disturbed, May
      <3> QED BY <3>2, <3>4, <3>5, <3>6, <3>7 DEF CtlInv
    <2>13. CASE done /\ proc.stage # "failed" /\ proc' = [proc EXCEPT !.tx = Silent]
      <3>1. /\ proc' \in ProcType /\ proc'.stage = proc.stage /\ proc'.tx = Silent
            /\ proc'.hung = proc.hung
            /\ proc'.hup = proc.hup /\ proc'.env = proc.env /\ proc'.buf = proc.buf
        BY <1>1, <2>13, SenderTypes DEF ProcType
      <3>2. TypeOK'
        BY <1>1, <2>7, <2>10, <3>1, TypeParts
      <3>3. Fall' = <<>> /\ Alive' /\ Runs' /\ (Harmless' <=> Harmless)
        BY <1>1, <2>4, <2>10, <3>1 DEF Fall, Alive, Runs, Harmless, May
      <3>4. Slots'
        BY <1>1, <2>10, <3>1, <3>3 DEF CtlInv, Slots, Silent, Runs
      <3>5. Rising' /\ Kept' /\ Falling'
        BY <1>1, <2>4, <2>8, <2>10, <3>1, <3>3 DEF CtlInv, Rising, Kept, Falling, Silent
      <3>6. Staged'
        BY <2>4, <2>8, <2>9, <2>10, <2>13, <3>1, <3>3 DEF Staged, None, Silent
      <3>7. Stuck' /\ Left' /\ LetGo'
        BY <1>4, <2>10, <3>3 DEF Stuck, Left, LetGo
      <3>8. Disturbed'
        BY <1>1, <2>10, <3>1, <3>3 DEF CtlInv, Disturbed, May
      <3> QED BY <3>2, <3>4, <3>5, <3>6, <3>7, <3>8 DEF CtlInv
    <2> QED BY <2>1, <2>11, <2>12, <2>13
  <1> QED BY <1>3, <1>4

(* A message is on its way to a worker that runs: it is the only one, it   *)
(* belongs to its stage, and the worker is registered by ADD_OK or before. *)
LEMMA Spoken ==
  ASSUME CtlInv, ctl.open, Runs, Fall # <<>>
  PROVE  /\ ctl.tx.out = None /\ Rise = <<>> /\ proc.tx.out = None
         /\ \E m \in ToWkr : /\ Whole(Fall, m) /\ Fall[1].msg = m /\ Stage(m) = proc.stage
                             /\ m \notin {"ACK", "REMOVE"}
                             /\ Registered <=> m \in {"PING", "ADD_OK"}
  <1>1. ctl.tx.out = None /\ Rise = <<>> /\ proc.tx.out = None
    BY DEF CtlInv, Rising, Falling
  <1>2. PICK m \in ToWkr : Whole(Fall, m)
    BY DEF CtlInv, Falling
  <1>3. Fall[1].msg = m
    BY <1>2, Types, StartsParse DEF CtlInv, Whole
  <1>4. Stage(m) = proc.stage /\ (Registered <=> proc.stage = "up" \/ m = "ADD_OK")
    BY <1>1, <1>3 DEF CtlInv, Staged, None
  <1>5. m \notin {"ACK", "REMOVE"} /\ (proc.stage = "up" <=> m = "PING")
    BY <1>4 DEF Stage, ToWkr, Runs, Alive
  <1> QED BY <1>1, <1>2, <1>3, <1>4, <1>5

(* What a worker has become that has handled a message while it said       *)
(* nothing: it has left, or answers, or waits.                             *)
Went(m) ==
  /\ m \in {"ADD_ERR", "REMOVE", "ACK", "CONF_ERR", "CONF"}
  /\ proc'.stage = "gone" /\ proc'.tx = Silent /\ ~proc'.hung
  /\ proc'.buf = proc.buf \/ proc'.buf = <<>>
Stays(m) ==
  /\ proc'.buf = <<>> /\ proc'.hung = proc.hung
  /\ proc'.tx.writing <=> proc'.tx.out # None
  /\ proc'.tx.out # None => proc'.tx.sent = 0
  /\ \/ m = "ADD_OK" /\ proc'.stage = "up" /\ proc'.tx.out = None
     \/ m = "PING" /\ proc'.stage = proc.stage /\ proc'.tx.out = "PONG"
     \/ m = "CONF" /\ proc'.stage = "loaded" /\ proc'.tx.out = "ADD"
     \/ m = "CONF" /\ proc'.stage = "failed" /\ proc'.tx.out = "ERROR" /\ May("load")

LEMMA WorkerHandles ==
  ASSUME CtlInv, Runs, proc.tx.out = None, NEW m \in ToWkr, ctl_msg_process(m)
  PROVE  /\ proc' \in ProcType /\ proc'.hup = proc.hup /\ proc'.env = proc.env
         /\ Went(m) \/ Stays(m)
  <1> DEFINE p == [proc EXCEPT !.buf = <<>>, !.tx.out = None, !.tx.sent = 0]
  <1>1. proc \in ProcType /\ ~proc.tx.writing
    BY TypeParts DEF CtlInv, Slots
  <1>2. p \in ProcType
    <2>1. <<>> \in Seq(ByteOf(ToWkr))
      OBVIOUS
    <2> QED BY <1>1, <2>1 DEF ProcType, Sender
  <1>3. /\ p.buf = <<>> /\ p.hung = proc.hung /\ p.hup = proc.hup /\ p.env = proc.env
        /\ p.stage = proc.stage /\ p.tx.out = None /\ p.tx.sent = 0 /\ ~p.tx.writing
    BY <1>1 DEF ProcType, Sender
  <1>4. \A x \in ToHead : /\ Say(x) \in Sender(ToHead) /\ Say(x).out = x /\ x # None
                          /\ Say(x).sent = 0 /\ Say(x).writing
    BY SenderTypes DEF Say, None, ToHead
  <1>5. {"PONG", "ADD", "ERROR"} \subseteq ToHead
    BY DEF ToHead
  <1>6. \/ m \in {"ADD_ERR", "REMOVE", "ACK", "CONF_ERR"} /\ proc' = Gone(proc)
        \/ m = "ADD_OK" /\ proc' = [p EXCEPT !.stage = "up"]
        \/ m = "PING" /\ proc' = [p EXCEPT !.tx = Say("PONG")]
        \/ m = "CONF" /\ proc' = [p EXCEPT !.stage = "loaded", !.tx = Say("ADD")]
        \/ /\ m = "CONF" /\ May("load")
           /\ proc' = [p EXCEPT !.stage = "failed", !.tx = Say("ERROR"), !.broken = TRUE]
        \/ m = "CONF" /\ proc' = [Gone(p) EXCEPT !.broken = TRUE]
    BY DEF ctl_msg_process, application_config_read_cb, Exits
  <1> HIDE DEF p
  <1>7. CASE m \in {"ADD_ERR", "REMOVE", "ACK", "CONF_ERR"} /\ proc' = Gone(proc)
    <2>1. proc' \in ProcType
      BY <1>1, <1>7, GoneType
    <2> QED BY <1>1, <1>7, <2>1 DEF ProcType, Gone, Went
  <1>8. CASE m = "ADD_OK" /\ proc' = [p EXCEPT !.stage = "up"]
    BY <1>2, <1>3, <1>8 DEF ProcType, Stays
  <1>9. CASE m = "PING" /\ proc' = [p EXCEPT !.tx = Say("PONG")]
    BY <1>2, <1>3, <1>4, <1>5, <1>9 DEF ProcType, Stays
  <1>10. CASE m = "CONF" /\ proc' = [p EXCEPT !.stage = "loaded", !.tx = Say("ADD")]
    BY <1>2, <1>3, <1>4, <1>5, <1>10 DEF ProcType, Stays
  <1>11. CASE /\ m = "CONF" /\ May("load")
              /\ proc' = [p EXCEPT !.stage = "failed", !.tx = Say("ERROR"), !.broken = TRUE]
    BY <1>2, <1>3, <1>4, <1>5, <1>11 DEF ProcType, Stays
  <1>12. CASE m = "CONF" /\ proc' = [Gone(p) EXCEPT !.broken = TRUE]
    <2>1. Silent \in Sender(ToHead)
      BY SenderTypes
    <2>2. /\ proc' \in ProcType /\ proc'.stage = "gone" /\ proc'.tx = Silent /\ ~proc'.hung
          /\ proc'.hup = p.hup /\ proc'.env = p.env /\ proc'.buf = p.buf
      BY <1>2, <1>12, <2>1 DEF ProcType, Gone
    <2> QED BY <1>3, <1>12, <2>2 DEF Went
  <1> QED BY <1>6, <1>7, <1>8, <1>9, <1>10, <1>11, <1>12

(* The whole message has been read while the connection is up. *)
LEMMA WorkerAnswers ==
  ASSUME CtlInv, ctl.open, Runs, Fall # <<>>, ctl_msg_process(Fall[1].msg),
         down' = <<>>, UNCHANGED <<ctl, wkr, up>>
  PROVE  CtlInv'
  <1>1. PICK m \in ToWkr : /\ Fall[1].msg = m /\ Stage(m) = proc.stage
                           /\ m \notin {"ACK", "REMOVE"}
                           /\ Registered <=> m \in {"PING", "ADD_OK"}
    BY Spoken
  <1>2. ctl.tx.out = None /\ Rise = <<>> /\ proc.tx.out = None
    BY Spoken
  <1>3. /\ proc' \in ProcType /\ proc'.hup = proc.hup /\ proc'.env = proc.env
        /\ Went(m) \/ Stays(m)
    BY <1>1, <1>2, WorkerHandles
  <1>4. TypeOK'
    <2>1. <<>> \in Seq(ByteOf(ToWkr))
      OBVIOUS
    <2> QED BY <1>3, <2>1, TypeParts DEF CtlInv
  <1>5. CASE Went(m)
    <2>1. ~Registered
      BY <1>1, <1>5 DEF Went
    <2> QED BY <1>2, <1>3, <1>4, <1>5, <2>1, ProcLeaves DEF Went, Runs
  <1>6. CASE Stays(m)
    <2>1. /\ Fall' = <<>> /\ Rise' = <<>> /\ Alive' /\ Runs' /\ (Harmless' <=> Harmless)
          /\ (Registered' <=> Registered)
      BY <1>2, <1>3, <1>6 DEF Stays, Fall, Rise, Alive, Runs, Harmless, May, Registered
    <2>2. proc'.tx.out # None => proc'.tx.out \in ToHead /\ Stage(proc'.tx.out) = proc'.stage
      BY <1>1, <1>6 DEF Stays, Stage, ToHead
    <2>3. proc'.stage = "failed" => May("load") /\ proc'.tx.out = "ERROR"
      BY <1>1, <1>6 DEF Stays, Stage
    <2>4. Registered <=> proc'.stage = "up"
      BY <1>1, <1>6 DEF Stays, Stage
    <2>5. \A x \in ToHead \cup ToWkr : Starts(<<>>, x) /\ MsgLen(x) > 0
      BY Lengths DEF Starts, MsgLen
    <2>6. Slots'
      BY <1>6, <2>1, <2>2, <2>5 DEF CtlInv, Slots, Stays, Runs
    <2>7. Rising' /\ Kept' /\ Falling'
      <3>1. "PONG" \in ToHead /\ "PING" \in ToWkr
        BY DEF ToHead, ToWkr
      <3> QED BY <1>2, <1>6, <2>1, <2>2, <2>5, <3>1 DEF Rising, Kept, Falling, Stays
    <2>8. Staged'
      BY <1>2, <2>1, <2>2, <2>3, <2>4 DEF Staged, None
    <2>9. Stuck' /\ Left' /\ LetGo'
      BY <2>1 DEF Stuck, Left, LetGo
    <2>10. Disturbed'
      BY <1>3, <2>1, <2>3 DEF CtlInv, Disturbed, May, Runs
    <2> QED BY <1>4, <2>6, <2>7, <2>8, <2>9, <2>10 DEF CtlInv
  <1> QED BY <1>3, <1>5, <1>6

(* A part of a message is kept, or of what there is after the head has     *)
(* let go of the worker.                                                   *)
LEMMA WorkerKeeps ==
  ASSUME CtlInv, Runs, NEW n \in 1..Len(down), down' = Rest(down, n), UNCHANGED <<ctl, wkr, up>>,
         proc' = [proc EXCEPT !.buf = Taken(proc.buf, down, n)],
         ctl.open => \E m \in ToWkr : Starts(Taken(proc.buf, down, n), m)
  PROVE  CtlInv'
  <1>1. TypeOK /\ proc \in ProcType
    BY TypeParts DEF CtlInv
  <1>2. /\ Taken(proc.buf, down, n) \in Seq(ByteOf(ToWkr)) /\ Rest(down, n) \in Seq(ByteOf(ToWkr))
        /\ Both(Taken(proc.buf, down, n), Rest(down, n)) = Both(proc.buf, down)
    BY <1>1, TakenDown
  <1>3. /\ proc' \in ProcType /\ proc'.buf = Taken(proc.buf, down, n) /\ proc'.stage = proc.stage
        /\ proc'.tx = proc.tx /\ proc'.hung = proc.hung /\ proc'.hup = proc.hup /\ proc'.env = proc.env
    BY <1>1, <1>2 DEF ProcType
  <1>4. TypeOK'
    BY <1>1, <1>2, <1>3, TypeParts
  <1>5. /\ Rise' = Rise /\ Fall' = Fall /\ (Alive' <=> Alive) /\ (Runs' <=> Runs)
        /\ (Harmless' <=> Harmless) /\ (Registered' <=> Registered)
    BY <1>2, <1>3 DEF Rise, Both, Fall, Alive, Runs, Harmless, May, Registered
  <1>6. Slots' /\ Rising' /\ Kept' /\ Falling'
    BY <1>3, <1>5 DEF CtlInv, Slots, Rising, Kept, Falling
  <1>7. Staged' /\ Stuck' /\ Left' /\ LetGo'
    BY <1>3, <1>5 DEF CtlInv, Staged, Stuck, Left, LetGo
  <1>8. Disturbed'
    BY <1>3, <1>5 DEF CtlInv, Disturbed, May
  <1> QED BY <1>4, <1>6, <1>7, <1>8 DEF CtlInv

(* The worker leaves while it reads.  If it has not been let go, its       *)
(* buffer was full: only a configuration is as long as that.               *)
LEMMA ReaderLeaves ==
  ASSUME CtlInv, Runs, Exits, UNCHANGED <<ctl, wkr, up>>, down' \in Seq(ByteOf(ToWkr)),
         Fall = <<>> => down' = <<>>,
         ctl.open => down # <<>> /\ Len(proc.buf) = BufSize
  PROVE  CtlInv'
  <1>1. TypeOK /\ proc \in ProcType
    BY TypeParts DEF CtlInv
  <1>2. /\ proc' \in ProcType /\ proc'.stage = "gone" /\ proc'.tx = Silent /\ ~proc'.hung
        /\ proc'.hup = proc.hup /\ proc'.env = proc.env /\ proc'.buf = proc.buf
    BY <1>1, GoneType DEF Exits, Gone, ProcType
  <1>3. TypeOK'
    BY <1>1, <1>2, TypeParts
  <1>4. Fall = <<>> => Fall' = <<>>
    BY <1>1, <1>2, NothingDown DEF Fall
  <1>5. ASSUME ctl.open PROVE ctl.tx.out = None /\ Rise = <<>> /\ ~Registered
    <2>1. Len(proc.buf) = BufSize /\ Len(down) > 0 /\ Len(Fall) = Len(proc.buf) + Len(down)
      <3>1. /\ down \in Seq(ByteOf(ToWkr)) /\ down # <<>>
            /\ Len(Fall) = Len(proc.buf) + Len(down) /\ Len(proc.buf) = BufSize
        BY <1>1, <1>5, Types
      <3> QED BY <3>1
    <2>2. Len(Fall) > 4 /\ Fall # <<>>
      <3>1. Len(Fall) > 4
        BY <1>1, <2>1, Types, CtlAssumption
      <3> QED BY <1>1, <3>1, Types
    <2>3. PICK m \in ToWkr : Whole(Fall, m) /\ (Registered <=> m \in {"PING", "ADD_OK"})
      BY <1>5, <2>2, Spoken
    <2>4. m = "CONF"
      <3>1. MsgLen(m) > 4
        BY <2>2, <2>3 DEF Whole
      <3> QED BY <3>1 DEF MsgLen, CtlHeaderLen, BodyLen
    <2> QED BY <1>5, <2>2, <2>3, <2>4, Spoken
  <1> QED BY <1>2, <1>3, <1>4, <1>5, ProcLeaves DEF Runs

(* A worker that has been let go handles a message: the one it had still   *)
(* to read, after which there is nothing but REMOVE, or REMOVE itself.     *)
LEMMA ReleasedHandles ==
  ASSUME CtlInv, ~ctl.open, Runs, NEW n \in 1..Len(down), down' = Rest(down, n),
         HasHeader(Taken(proc.buf, down, n)), ctl_msg_process(Taken(proc.buf, down, n)[1].msg),
         UNCHANGED <<ctl, wkr, up>>
  PROVE  CtlInv'
  <1> DEFINE buf == Taken(proc.buf, down, n)
             b == buf[1].msg
  <1>1. TypeOK /\ proc.buf \in Seq(ByteOf(ToWkr)) /\ down \in Seq(ByteOf(ToWkr))
        /\ Fall \in Seq(ByteOf(ToWkr)) /\ Len(Fall) = Len(proc.buf) + Len(down)
    BY Types DEF CtlInv
  <1>2. /\ buf \in Seq(ByteOf(ToWkr)) /\ Rest(down, n) \in Seq(ByteOf(ToWkr))
        /\ Len(buf) = Len(proc.buf) + n /\ Len(Rest(down, n)) = Len(down) - n
    BY <1>1, TakenDown
  <1>3. /\ \A i \in 1..(Len(proc.buf) + n) : buf[i] = Fall[i]
        /\ \A i \in 1..(Len(down) - n) : Rest(down, n)[i] = Fall[Len(proc.buf) + n + i]
    BY <1>1, TakenDown
  <1>4. /\ Len(proc.buf) \in Nat /\ Len(down) \in Nat /\ n \in Nat /\ n >= 1 /\ n <= Len(down)
        /\ Len(Fall) >= 1
    BY <1>1
  <1> HIDE DEF buf
  <1>5. buf[1] = Fall[1] /\ 1 \in 1..Len(Fall) /\ b \in ToWkr
    <2>1. 1 \in 1..(Len(proc.buf) + n) /\ 1 \in 1..Len(Fall)
      BY <1>4
    <2>2. buf[1] = Fall[1] /\ Fall[1] \in ByteOf(ToWkr)
      BY <1>1, <1>3, <2>1
    <2> QED BY <2>1, <2>2 DEF ByteOf
  <1>6. Fall # <<>>
    BY <1>1, <1>5
  <1>7. CASE Told(Fall)
    <2>1. b = "REMOVE"
      BY <1>5, <1>7 DEF Told
    <2>2. Exits
      BY <2>1 DEF ctl_msg_process, buf
    <2> QED BY <1>2, <1>6, <2>2, ReaderLeaves
  <1>8. ASSUME NEW m \in ToWkr, Followed(Fall, m), proc.tx.out = None PROVE CtlInv'
    <2>1. MsgLen(m) \in Nat /\ MsgLen(m) >= 2 /\ CtlHeaderLen(m) = MsgLen(m)
      BY Lengths DEF MsgLen
    <2>2. b = m
      <3>1. Fall[1] = [msg |-> m, at |-> 1]
        BY <1>8, <2>1 DEF Followed
      <3> QED BY <1>5, <3>1
    <2>3. Len(buf) >= MsgLen(m)
      BY <2>1, <2>2 DEF HasHeader, buf
    <2>4. /\ proc' \in ProcType /\ proc'.hup = proc.hup /\ proc'.env = proc.env
          /\ Went(m) \/ Stays(m)
      BY <1>8, <2>2, WorkerHandles DEF buf
    <2>5. TypeOK'
      BY <1>1, <1>2, <2>4, TypeParts
    <2>6. CASE Went(m)
      BY <1>6, <2>4, <2>5, <2>6, ProcLeaves DEF Went, Runs
    <2>7. CASE Stays(m)
      <3>1. Fall' = Rest(down, n)
        BY <1>2, <2>7, ConcatEmptySeq DEF Stays, Fall
      <3>2. Told(Fall')
        <4> SUFFICES ASSUME NEW i \in 1..Len(Rest(down, n)) PROVE Rest(down, n)[i].msg = "REMOVE"
          BY <3>1 DEF Told
        <4>1. /\ Rest(down, n)[i] = Fall[Len(proc.buf) + n + i]
              /\ Len(proc.buf) + n + i \in (MsgLen(m) + 1)..Len(Fall)
          BY <1>1, <1>2, <1>3, <1>4, <2>1, <2>3, SMTT(30)
        <4> QED BY <1>8, <4>1 DEF Followed
      <3>3. Alive' /\ (Harmless' <=> Harmless) /\ (Registered' <=> Registered)
        BY <2>4, <2>7 DEF Stays, Alive, Runs, Harmless, May, Registered
      <3>4. Slots'
        <4>1. proc'.tx.out # None => proc'.tx.out \in ToHead
          BY <2>7 DEF Stays, ToHead
        <4>2. \A x \in ToHead : MsgLen(x) > 0
          BY Lengths DEF MsgLen
        <4> QED BY <2>7, <3>3, <4>1, <4>2 DEF CtlInv, Slots, Stays, Runs
      <3>5. Rising' /\ Kept' /\ Falling' /\ Staged' /\ Stuck' /\ Left'
        BY DEF Rising, Kept, Falling, Staged, Stuck, Left
      <3>6. LetGo'
        BY <3>2, <3>3 DEF CtlInv, LetGo
      <3>7. Disturbed'
        BY <2>4, <2>7, <3>3 DEF CtlInv, Disturbed, May, Stays, Runs
      <3> QED BY <2>5, <3>4, <3>5, <3>6, <3>7 DEF CtlInv
    <2> QED BY <2>4, <2>6, <2>7
  <1> QED BY <1>7, <1>8 DEF CtlInv, LetGo

(* While connected, what is read begins the message that is under way, and *)
(* with its header the message is complete.                                *)
LEMMA WorkerHas ==
  ASSUME CtlInv, ctl.open, Runs, NEW n \in 1..Len(down)
  PROVE  /\ Fall # <<>> /\ \E m \in ToWkr : Starts(Taken(proc.buf, down, n), m)
         /\ Taken(proc.buf, down, n)[1].at = 1
         /\ HasHeader(Taken(proc.buf, down, n)) =>
              Rest(down, n) = <<>> /\ Taken(proc.buf, down, n)[1].msg = Fall[1].msg
  <1> DEFINE buf == Taken(proc.buf, down, n)
  <1>1. TypeOK /\ proc.buf \in Seq(ByteOf(ToWkr)) /\ down \in Seq(ByteOf(ToWkr))
        /\ Fall \in Seq(ByteOf(ToWkr)) /\ Len(Fall) = Len(proc.buf) + Len(down)
    BY Types DEF CtlInv
  <1>2. /\ buf \in Seq(ByteOf(ToWkr)) /\ Rest(down, n) \in Seq(ByteOf(ToWkr))
        /\ Len(buf) = Len(proc.buf) + n /\ Len(Rest(down, n)) = Len(down) - n
        /\ \A i \in 1..(Len(proc.buf) + n) : buf[i] = Fall[i]
    BY <1>1, TakenDown
  <1>3. /\ Len(proc.buf) \in Nat /\ Len(down) \in Nat /\ n \in Nat /\ n >= 1 /\ n <= Len(down)
        /\ Len(Fall) >= 1 /\ Fall # <<>>
    BY <1>1
  <1> HIDE DEF buf
  <1>4. PICK m \in ToWkr : Whole(Fall, m) /\ Fall[1].msg = m
    BY <1>3, Spoken
  <1>5. MsgLen(m) \in Nat /\ CtlHeaderLen(m) = MsgLen(m) /\ Len(Fall) = MsgLen(m)
    BY <1>4, Lengths DEF Whole
  <1>6. Starts(buf, m)
    <2>1. Len(buf) <= MsgLen(m) /\ Len(buf) \in Nat
      BY <1>1, <1>2, <1>3, <1>5
    <2>2. ASSUME NEW i \in 1..Len(buf) PROVE buf[i] = [msg |-> m, at |-> i]
      <3>1. i \in 1..Len(Fall) /\ i \in 1..(Len(proc.buf) + n)
        BY <1>2, <1>5, <2>1
      <3> QED BY <1>2, <1>4, <3>1 DEF Whole, Starts
    <2> QED BY <2>1, <2>2 DEF Starts
  <1>7. buf # <<>>
    BY <1>2, <1>3
  <1>8. buf[1].msg = m /\ buf[1].at = 1 /\ (HasHeader(buf) <=> Len(buf) >= CtlHeaderLen(m))
    BY <1>2, <1>6, <1>7, StartsParse
  <1>9. HasHeader(buf) => Rest(down, n) = <<>>
    <2>1. HasHeader(buf) => Len(Rest(down, n)) = 0
      BY <1>1, <1>2, <1>3, <1>5, <1>8
    <2> QED BY <1>2, <2>1
  <1> QED BY <1>3, <1>4, <1>6, <1>8, <1>9 DEF buf

LEMMA WorkerReads ==
  ASSUME CtlInv, ctl_read_cb PROVE CtlInv'
  <1>1. TypeOK /\ Runs /\ UNCHANGED <<ctl, wkr, up>> /\ down \in Seq(ByteOf(ToWkr))
    BY Types DEF CtlInv, ctl_read_cb
  <1>2. CASE NothingRead /\ Exits /\ UNCHANGED down
    <2>1. Fall = <<>> => down' = <<>>
      BY <1>1, <1>2, NothingDown
    <2> QED BY <1>1, <1>2, <2>1, ReaderLeaves DEF NothingRead
  <1>3. ASSUME NEW n \in 1..Len(down),
               LET buf == proc.buf \o SubSeq(down, 1, n)
               IN  /\ Len(buf) <= BufSize
                   /\ down' = SubSeq(down, n + 1, Len(down))
                   /\ CASE HasHeader(buf) -> ctl_msg_process(buf[1].msg)
                        [] buf[1].at # 1 /\ (\E i \in DOMAIN buf : buf[i].at = 1) -> Exits
                        [] OTHER -> proc' = [proc EXCEPT !.buf = buf]
        PROVE  CtlInv'
    <2> DEFINE buf == Taken(proc.buf, down, n)
    <2>1. down' = Rest(down, n) /\ Rest(down, n) \in Seq(ByteOf(ToWkr)) /\ Fall # <<>>
      <3>1. 1 <= n /\ n <= Len(down) /\ Len(down) \in Nat /\ n \in Nat /\ down # <<>>
        BY <1>1
      <3> QED BY <1>1, <1>3, <3>1, TakenDown, NothingDown DEF Rest
    <2>2. (CASE HasHeader(buf) -> ctl_msg_process(buf[1].msg)
             [] buf[1].at # 1 /\ (\E i \in DOMAIN buf : buf[i].at = 1) -> Exits
             [] OTHER -> proc' = [proc EXCEPT !.buf = buf])
      BY <1>3 DEF Taken
    <2>3. HasHeader(buf) => buf[1].at = 1
      <3> SUFFICES ASSUME HasHeader(buf) PROVE buf[1].at = 1
        OBVIOUS
      <3> HIDE DEF buf
      <3>1. buf \in Seq(ByteOf(ToWkr)) /\ buf # <<>>
        BY <1>1, TakenDown DEF buf, HasHeader
      <3>2. buf[1].msg \in ToWkr
        <4>1. buf[1] \in ByteOf(ToWkr)
          BY <3>1
        <4> QED BY <4>1 DEF ByteOf
      <3>3. 1 \in 1..CtlHeaderLen(buf[1].msg)
        BY <3>2, Lengths
      <3>4. buf[1] = [msg |-> buf[1].msg, at |-> 1]
        BY <3>3 DEF HasHeader
      <3> QED BY <3>4
    <2> HIDE DEF buf
    <2>4. \/ HasHeader(buf) /\ ctl_msg_process(buf[1].msg)
          \/ buf[1].at # 1 /\ Exits
          \/ proc' = [proc EXCEPT !.buf = buf]
      BY <2>2, <2>3
    <2>5. CASE HasHeader(buf) /\ ctl_msg_process(buf[1].msg)
      <3>1. CASE ctl.open
        <4>1. Rest(down, n) = <<>> /\ buf[1].msg = Fall[1].msg
          BY <1>1, <2>5, <3>1, WorkerHas DEF buf
        <4> QED BY <1>1, <2>1, <2>5, <3>1, <4>1, WorkerAnswers
      <3>2. CASE ~ctl.open
        BY <1>1, <2>1, <2>5, <3>2, ReleasedHandles DEF buf
      <3> QED BY <3>1, <3>2
    <2>6. CASE buf[1].at # 1 /\ Exits
      <3>1. ~ctl.open
        BY <1>1, <2>6, WorkerHas DEF buf
      <3> QED BY <1>1, <2>1, <2>6, <3>1, ReaderLeaves
    <2>7. CASE proc' = [proc EXCEPT !.buf = buf]
      <3>1. ctl.open => \E m \in ToWkr : Starts(Taken(proc.buf, down, n), m)
        BY <1>1, WorkerHas
      <3> QED BY <1>1, <2>1, <2>7, <3>1, WorkerKeeps DEF buf
    <2> QED BY <2>4, <2>5, <2>6, <2>7
  <1> QED BY <1>2, <1>3 DEF ctl_read_cb

-----------------------------------------------------------------------------
LEMMA StepCtl == CtlInv /\ [Next]_vars /\ ~Interrupts => CtlInv'
  <1> SUFFICES ASSUME CtlInv, [Next]_vars, ~Interrupts PROVE CtlInv'
    OBVIOUS
  <1>1. CASE UNCHANGED vars
    <2>1. TypeOK'
      BY <1>1 DEF CtlInv, TypeOK, vars
    <2>2. wkr'.state = "EXPIRED" => May("drop")
      BY <1>1 DEF CtlInv, Disturbed, vars
    <2> QED BY <1>1, <2>1, <2>2, WkrOnly DEF vars, Registered
  <1>2. CASE Next
    BY <1>2, HeadWrites, HeadReads, HeadUses, HeadWaits, WorkerWrites, WorkerReads,
       WorkerFails, WorkerHangs DEF Next
  <1> QED BY <1>1, <1>2

(***************************************************************************)
(* After a PING has been sent over another, the ends are no longer in turn *)
(* and what the head keeps need not be a message.  What is left: they say  *)
(* nothing but PING and PONG, and a worker that has not yet read that it   *)
(* is registered (ADD_OK) reads that first.                                *)
(***************************************************************************)
Only(s, M) == \A i \in 1..Len(s) : s[i].msg \in M
Welcome(s) ==
  /\ Len(s) >= 2
  /\ s[1] = [msg |-> "ADD_OK", at |-> 1] /\ s[2] = [msg |-> "ADD_OK", at |-> 2]
  /\ \A i \in 3..Len(s) : s[i].msg \in {"PING", "REMOVE"}

Heard ==
  \/ /\ proc.stage = "up" /\ proc.tx.out \in {None, "PONG"}
     /\ Only(Fall, {"PING", "REMOVE"})
  \/ /\ proc.stage = "loaded" /\ proc.tx.out = None
     /\ Welcome(Fall)

Late ==
  /\ TypeOK /\ May("slow")
  /\ ctl.open <=> Registered
  /\ ctl.tx.out \in {None, "PING"}
  /\ proc.hung => Alive
  /\ proc.tx.writing <=> proc.tx.out # None
  /\ proc.tx.out # None => Alive
  /\ ctl.open => Only(Rise, {"PONG"})
  /\ Runs => Heard

LEMMA OnlyJoined ==
  ASSUME NEW T, NEW a \in Seq(T), NEW b \in Seq(T), NEW M, Only(a, M), Only(b, M)
  PROVE  Only(a \o b, M)
  <1>1. /\ Len(a \o b) = Len(a) + Len(b) /\ Len(a) \in Nat /\ Len(b) \in Nat
        /\ \A i \in 1..(Len(a) + Len(b)) : (a \o b)[i] = IF i <= Len(a) THEN a[i] ELSE b[i - Len(a)]
    BY ConcatProperties
  <1> SUFFICES ASSUME NEW i \in 1..(Len(a) + Len(b)) PROVE (a \o b)[i].msg \in M
    BY <1>1 DEF Only
  <1>2. CASE i <= Len(a)
    BY <1>1, <1>2 DEF Only
  <1>3. CASE ~(i <= Len(a))
    <2>1. i - Len(a) \in 1..Len(b)
      BY <1>1, <1>3
    <2> QED BY <1>1, <1>3, <2>1 DEF Only
  <1> QED BY <1>2, <1>3

LEMMA WelcomeJoined ==
  ASSUME NEW T, NEW a \in Seq(T), NEW b \in Seq(T), Welcome(a), Only(b, {"PING", "REMOVE"})
  PROVE  Welcome(a \o b)
  <1>1. /\ Len(a \o b) = Len(a) + Len(b) /\ Len(a) \in Nat /\ Len(b) \in Nat /\ Len(a) >= 2
        /\ \A i \in 1..(Len(a) + Len(b)) : (a \o b)[i] = IF i <= Len(a) THEN a[i] ELSE b[i - Len(a)]
    BY ConcatProperties DEF Welcome
  <1>2. (a \o b)[1] = a[1] /\ (a \o b)[2] = a[2] /\ Len(a \o b) >= 2
    BY <1>1
  <1>3. ASSUME NEW i \in 3..(Len(a) + Len(b)) PROVE (a \o b)[i].msg \in {"PING", "REMOVE"}
    <2>1. CASE i <= Len(a)
      <3>1. i \in 3..Len(a) /\ i \in 1..(Len(a) + Len(b))
        BY <1>1, <2>1
      <3> QED BY <1>1, <2>1, <3>1 DEF Welcome
    <2>2. CASE ~(i <= Len(a))
      <3>1. i - Len(a) \in 1..Len(b) /\ i \in 1..(Len(a) + Len(b))
        BY <1>1, <2>2
      <3> QED BY <1>1, <2>2, <3>1 DEF Only
    <2> QED BY <2>1, <2>2
  <1> QED BY <1>1, <1>2, <1>3 DEF Welcome

(* The first time. *)
LEMMA BecomesLate ==
  ASSUME CtlInv, Interrupts PROVE Late'
  <1>1. TypeOK /\ Registered /\ ctl.open
    BY DEF CtlInv, Interrupts, Registered
  <1>2. /\ TypeOK' /\ ctl'.open /\ ctl'.tx = Say("PING") /\ ctl'.buf = ctl.buf /\ Registered'
        /\ UNCHANGED <<proc, up, down>>
    BY <1>1, PingType DEF Interrupts
  <1>3. Rise' = Rise /\ Fall' = Fall /\ (Runs' <=> Runs) /\ (Alive' <=> Alive) /\ May("slow")'
    BY <1>2 DEF Rise, Fall, Runs, Alive, May, Interrupts
  <1>4. Only(Rise, {"PONG"})
    <2>1. PICK m \in ToHead : Starts(Rise, m)
      BY <1>1 DEF CtlInv, Rising
    <2>2. CASE Rise = <<>>
      BY <2>2 DEF Only
    <2>3. CASE Rise # <<>>
      <3>1. Rise[1].msg = "PONG" /\ Rise[1].msg = m
        BY <1>1, <2>1, <2>3, OnlyPong, Types, StartsParse
      <3>2. \A i \in 1..Len(Rise) : Rise[i].msg = m
        <4> SUFFICES ASSUME NEW i \in 1..Len(Rise) PROVE Rise[i].msg = m
          OBVIOUS
        <4>1. Rise[i] = [msg |-> m, at |-> i]
          BY <2>1 DEF Starts
        <4> QED BY <4>1
      <3> QED BY <3>1, <3>2 DEF Only
    <2> QED BY <2>2, <2>3
  <1>5. ASSUME Runs PROVE Heard
    <2>0. ctl.tx.out = None
      BY DEF CtlInv, Slots, Interrupts
    <2>1. CASE Fall = <<>>
      <3>1. proc.stage = "up"
        BY <1>1, <1>5, <2>0, <2>1 DEF CtlInv, Staged, None
      <3>2. proc.tx.out \in ToHead \cup {None} /\ (proc.tx.out # None => Stage(proc.tx.out) = "up")
        BY <1>1, <1>5, <3>1, Types DEF CtlInv, Staged
      <3>3. proc.tx.out \in {None, "PONG"}
        BY <3>2 DEF Stage, ToHead
      <3> QED BY <2>1, <3>1, <3>3 DEF Heard, Only
    <2>2. CASE Fall # <<>>
      <3>1. proc.tx.out = None
        BY <1>1, <1>5, <2>2, Spoken
      <3>2. PICK m \in ToWkr : Whole(Fall, m) /\ Stage(m) = proc.stage /\ m \in {"PING", "ADD_OK"}
        BY <1>1, <1>5, <2>2, Spoken
      <3>3. MsgLen(m) = 2
        BY <3>2 DEF MsgLen, CtlHeaderLen, BodyLen
      <3>4. Len(Fall) = 2 /\ Fall[1] = [msg |-> m, at |-> 1] /\ Fall[2] = [msg |-> m, at |-> 2]
        BY <3>2, <3>3 DEF Whole, Starts
      <3>5. CASE m = "PING"
        <4>1. \A i \in 1..2 : Fall[i].msg = "PING"
          BY <3>4, <3>5
        <4> QED BY <3>1, <3>2, <3>4, <3>5, <4>1 DEF Heard, Only, Stage
      <3>6. CASE m = "ADD_OK"
        BY <3>1, <3>2, <3>4, <3>6 DEF Heard, Welcome, Stage
      <3> QED BY <3>2, <3>5, <3>6
    <2> QED BY <2>1, <2>2
  <1>6. Heard' <=> Heard
    BY <1>2, <1>3 DEF Heard
  <1>7. proc.hung => Alive
    BY DEF CtlInv, Disturbed
  <1>8. /\ proc.tx.writing <=> proc.tx.out # None
        /\ proc.tx.out # None => Alive
    BY DEF CtlInv, Slots
  <1> QED BY <1>1, <1>2, <1>3, <1>4, <1>5, <1>6, <1>7, <1>8 DEF Late, Say

(* Steps that leave the streams alone, and the end of the process. *)
LEMMA LateWkr ==
  ASSUME Late, UNCHANGED <<ctl, proc, up, down>>, wkr' \in WkrType, Registered' <=> Registered
  PROVE  Late'
  <1>1. TypeOK'
    BY TypeParts DEF Late
  <1>2. /\ Rise' = Rise /\ Fall' = Fall /\ (Alive' <=> Alive) /\ (Runs' <=> Runs)
        /\ (May("slow")' <=> May("slow")) /\ (Heard' <=> Heard)
    BY DEF Rise, Fall, Alive, Runs, May, Heard
  <1> QED BY <1>1, <1>2 DEF Late

LEMMA LateGone ==
  ASSUME Late, Exits, UNCHANGED <<ctl, wkr, up>>, down' \in Seq(ByteOf(ToWkr))
  PROVE  Late'
  <1>1. TypeOK /\ proc \in ProcType
    BY TypeParts DEF Late
  <1>2. /\ proc' \in ProcType /\ proc'.stage = "gone" /\ proc'.tx = Silent /\ ~proc'.hung
        /\ proc'.env = proc.env
    BY <1>1, GoneType DEF Exits, Gone, ProcType
  <1>3. TypeOK'
    BY <1>1, <1>2, TypeParts
  <1>4. Rise' = Rise /\ ~Runs' /\ May("slow")' /\ (Registered' <=> Registered)
    BY <1>2 DEF Late, Rise, Alive, Runs, May, Registered
  <1> QED BY <1>2, <1>3, <1>4 DEF Late, Silent

LEMMA LateFreed ==
  ASSUME Late, NEW bytes \in {<<>>, Bytes("REMOVE")}, NEW signal \in {None, "HUP", "KILL"},
         Freed(bytes, signal), UNCHANGED up
  PROVE  Late'
  <1>1. TypeOK
    BY DEF Late
  <1>2. /\ TypeOK' /\ Fall' = Fall \o bytes
        /\ ~ctl'.open /\ ctl'.tx = ctl.tx /\ ~Registered'
        /\ proc'.env = proc.env
        /\ \/ proc'.stage = proc.stage /\ proc'.tx = proc.tx /\ proc'.hung = proc.hung
           \/ proc'.stage = "gone" /\ proc'.tx = Silent /\ ~proc'.hung
    BY <1>1, FreedEffect
  <1>3. May("slow")' /\ (Runs' => Runs /\ proc'.stage = proc.stage /\ proc'.tx = proc.tx)
    BY <1>2 DEF Late, May, Runs, Alive
  <1>4. ASSUME Runs' PROVE Heard'
    <2>1. Heard /\ proc'.stage = proc.stage /\ proc'.tx = proc.tx
      BY <1>3, <1>4 DEF Late
    <2>2. bytes \in Seq(ByteOf(ToWkr)) /\ Only(bytes, {"PING", "REMOVE"})
      BY Farewell DEF Only
    <2>3. Fall \in Seq(ByteOf(ToWkr))
      BY <1>1, Types
    <2>4. Only(Fall, {"PING", "REMOVE"}) => Only(Fall', {"PING", "REMOVE"})
      BY <1>2, <2>2, <2>3, OnlyJoined
    <2>5. Welcome(Fall) => Welcome(Fall')
      BY <1>2, <2>2, <2>3, WelcomeJoined
    <2> QED BY <2>1, <2>4, <2>5 DEF Heard
  <1> QED BY <1>2, <1>3, <1>4 DEF Late, Silent, Alive

(* The head writes, perhaps of an empty slot. *)
LEMMA LateWrites ==
  ASSUME Late, wr_ctl_msg_write_cb PROVE Late'
  <1>1. TypeOK /\ ctl.open /\ UNCHANGED <<proc, up>>
    BY DEF Late, wr_ctl_msg_write_cb
  <1>2. /\ (Alive' <=> Alive) /\ (Runs' <=> Runs) /\ May("slow")'
    BY <1>1 DEF Late, Alive, Runs, May
  <1>3. WroteTo
    <2>1. CASE ctl.tx.out # None /\ (Sent \/ Unsent)
      <3>1. ctl.tx.out \in ToWkr /\ ctl.tx.sent \in Nat
        BY <1>1, <2>1, Types DEF TypeOK, Sender
      <3> QED BY <1>1, <2>1, <3>1, WriteSteps
    <2>2. CASE Closed /\ UNCHANGED down
      BY <2>2 DEF WroteTo
    <2> QED BY <2>1, <2>2 DEF wr_ctl_msg_write_cb
  <1>4. /\ ctl' \in CtlType /\ wkr' \in WkrType /\ ctl'.tx.out \in {None, "PING"}
        /\ \/ ~ctl'.open /\ ~Registered'
           \/ ctl'.open /\ ctl'.buf = ctl.buf /\ (Registered' <=> Registered)
    <2>1. CASE Closed
      BY <1>1, <2>1, ClosedType DEF Silent
    <2>2. CASE ctl' = [ctl EXCEPT !.tx = Silent] /\ UNCHANGED wkr
      BY <1>1, <2>2, EmptiedType, TypeParts DEF Silent, Registered
    <2>3. ASSUME NEW k \in Nat, ctl' = [ctl EXCEPT !.tx.sent = k], UNCHANGED wkr
          PROVE  /\ ctl' \in CtlType /\ wkr' \in WkrType /\ ctl'.tx.out \in {None, "PING"}
                 /\ ctl'.open /\ ctl'.buf = ctl.buf /\ (Registered' <=> Registered)
      BY <1>1, <2>3, SlotType, TypeParts DEF Late, Registered
    <2> QED BY <1>3, <2>1, <2>2, <2>3 DEF WroteTo
  <1>5. down' \in Seq(ByteOf(ToWkr)) /\ (Heard => Heard')
    <2>1. proc.buf \in Seq(ByteOf(ToWkr)) /\ down \in Seq(ByteOf(ToWkr)) /\ Fall \in Seq(ByteOf(ToWkr))
      BY <1>1, Types
    <2>2. CASE down' = down
      BY <1>1, <2>1, <2>2 DEF Heard, Fall
    <2>3. ASSUME NEW chunk \in Seq(ByteOf(ToWkr)), down' = down \o chunk,
                 \A i \in 1..Len(chunk) : chunk[i].msg = ctl.tx.out, Len(chunk) > 0
          PROVE  down' \in Seq(ByteOf(ToWkr)) /\ (Heard => Heard')
      <3>1. ctl.tx.out = "PING"
        <4>1. chunk[1] \in ByteOf(ToWkr) /\ chunk[1].msg = ctl.tx.out
          BY <2>3
        <4>2. ctl.tx.out \in ToWkr
          BY <4>1 DEF ByteOf
        <4> QED BY <4>2 DEF Late, None, ToWkr
      <3>2. Only(chunk, {"PING", "REMOVE"})
        BY <2>3, <3>1 DEF Only
      <3>3. Fall' = Fall \o chunk
        <4> DEFINE T == Seq(ByteOf(ToWkr))
        <4>1. proc.buf \in T /\ down \in T /\ chunk \in T /\ Assoc(T)
          BY <2>1, <2>3, JoinedAll, Zenon
        <4>2. Fall' = proc.buf \o (down \o chunk) /\ Fall = proc.buf \o down
          BY <1>1, <2>3 DEF Fall
        <4> HIDE DEF T
        <4> QED BY <4>1, <4>2 DEF Assoc
      <3>4. Only(Fall, {"PING", "REMOVE"}) => Only(Fall', {"PING", "REMOVE"})
        BY <2>1, <2>3, <3>2, <3>3, OnlyJoined
      <3>5. Welcome(Fall) => Welcome(Fall')
        BY <2>1, <2>3, <3>2, <3>3, WelcomeJoined
      <3> QED BY <1>1, <2>1, <2>3, <3>4, <3>5 DEF Heard
    <2>4. ASSUME NEW chunk \in Seq(ByteOf(ToWkr)), down' = down \o chunk, ~(Len(chunk) > 0)
          PROVE  down' = down
      <3>1. chunk = <<>>
        BY <2>4
      <3> QED BY <2>1, <2>4, <3>1, ConcatEmptySeq
    <2> QED BY <1>3, <2>2, <2>3, <2>4 DEF WroteTo
  <1>6. TypeOK'
    BY <1>1, <1>4, <1>5, TypeParts
  <1>7. ctl'.open => Only(Rise', {"PONG"})
    BY <1>1, <1>4 DEF Late, Rise
  <1> QED BY <1>1, <1>2, <1>4, <1>5, <1>6, <1>7 DEF Late

(* It reads: nothing but the answer to a PING can be complete. *)
LEMMA LateReads ==
  ASSUME Late, wr_ctl_msg_read_cb PROVE Late'
  <1>1. TypeOK /\ ctl.open /\ ctl \in CtlType /\ wkr \in WkrType
    BY TypeParts DEF Late, wr_ctl_msg_read_cb
  <1>2. CASE CtlFreed /\ UNCHANGED up
    <2>1. \E signal \in {None, "HUP", "KILL"} : Freed(<<>>, signal)
      BY <1>2 DEF CtlFreed
    <2> QED BY <1>2, <2>1, LateFreed
  <1>3. ASSUME NEW n \in 1..Len(up), up' = Rest(up, n), UNCHANGED <<proc, down>>,
               IF Complete(Taken(ctl.buf, up, n)) THEN wr_ctl_msg_process(Taken(ctl.buf, up, n)[1].msg)
               ELSE ctl' = [ctl EXCEPT !.buf = Taken(ctl.buf, up, n)] /\ UNCHANGED wkr
        PROVE  Late'
    <2> DEFINE buf == Taken(ctl.buf, up, n)
    <2>1. /\ buf \in Seq(ByteOf(ToHead)) /\ Rest(up, n) \in Seq(ByteOf(ToHead))
          /\ Both(buf, Rest(up, n)) = Both(ctl.buf, up)
          /\ Len(buf) = Len(ctl.buf) + n /\ Len(Rest(up, n)) = Len(up) - n
          /\ \A i \in 1..(Len(ctl.buf) + n) : buf[i] = Rise[i]
      BY <1>1, TakenUp
    <2>2. /\ Len(ctl.buf) \in Nat /\ Len(up) \in Nat /\ n \in Nat /\ n >= 1 /\ n <= Len(up)
          /\ Len(Rise) = Len(ctl.buf) + Len(up) /\ Rise \in Seq(ByteOf(ToHead))
          /\ Only(Rise, {"PONG"})
      BY <1>1, Types DEF Late
    <2> HIDE DEF buf
    <2>3. buf[1].msg = "PONG"
      <3>1. 1 \in 1..(Len(ctl.buf) + n) /\ 1 \in 1..Len(Rise)
        BY <2>2
      <3> QED BY <2>1, <2>2, <3>1 DEF Only
    <2>4. Only(Rest(up, n), {"PONG"})
      <3>1. \A i \in 1..(Len(up) - n) : Rest(up, n)[i] = Rise[Len(ctl.buf) + n + i]
        BY <1>1, TakenUp
      <3>2. \A i \in 1..(Len(up) - n) : Len(ctl.buf) + n + i \in 1..Len(Rise)
        BY <2>2
      <3> QED BY <2>1, <2>2, <3>1, <3>2 DEF Only
    <2>5. /\ (Alive' <=> Alive) /\ (Runs' <=> Runs) /\ May("slow")' /\ Fall' = Fall
      BY <1>3 DEF Late, Alive, Runs, May, Fall
    <2>6. /\ ctl' \in CtlType /\ wkr' \in WkrType /\ ctl'.open /\ ctl'.tx.out \in {None, "PING"}
          /\ (Registered' <=> Registered) /\ Only(Rise', {"PONG"})
      <3>1. CASE ~Complete(buf)
        <4>1. ctl' = [ctl EXCEPT !.buf = buf] /\ UNCHANGED wkr
          BY <1>3, <3>1 DEF buf
        <4>2. ctl' \in CtlType /\ ctl'.open /\ ctl'.tx = ctl.tx /\ ctl'.buf = buf
          BY <1>1, <2>1, <4>1 DEF CtlType
        <4>3. Rise' = Rise
          BY <1>3, <2>1, <4>2 DEF Rise, Both
        <4> QED BY <1>1, <2>2, <4>1, <4>2, <4>3 DEF Late, Registered
      <3>2. CASE Complete(buf)
        <4>1. wr_ctl_msg_process("PONG")
          BY <1>3, <2>3, <3>2 DEF buf
        <4>2. /\ ctl' = [[ctl EXCEPT !.buf = <<>>] EXCEPT !.tx = Discarded(@)]
              /\ wkr' = Ponged(wkr)
          BY <4>1 DEF wr_ctl_msg_process
        <4>3. ctl.tx \in Sender(ToWkr)
          BY <1>1 DEF CtlType
        <4>4. Discarded(ctl.tx) \in Sender(ToWkr) /\ Discarded(ctl.tx).out = None
          BY <4>3 DEF Discarded, Sender
        <4>5. <<>> \in Seq(ByteOf(ToHead))
          OBVIOUS
        <4>6. ctl' \in CtlType /\ ctl'.open /\ ctl'.tx = Discarded(ctl.tx) /\ ctl'.buf = <<>>
          BY <1>1, <4>2, <4>4, <4>5 DEF CtlType
        <4>7. wkr' \in WkrType /\ (Registered' <=> Registered)
          BY <1>1, <4>2 DEF Ponged, Registered, WkrType
        <4>8. Rise' = Rest(up, n)
          BY <1>3, <2>1, <4>6, ConcatEmptySeq DEF Rise
        <4> QED BY <2>4, <4>4, <4>6, <4>7, <4>8
      <3> QED BY <3>1, <3>2
    <2>7. TypeOK'
      BY <1>1, <1>3, <2>1, <2>6, TypeParts
    <2>8. Heard' <=> Heard
      BY <1>3, <2>5 DEF Heard
    <2> QED BY <1>1, <1>3, <2>5, <2>6, <2>7, <2>8 DEF Late
  <1> QED BY <1>2, <1>3 DEF wr_ctl_msg_read_cb, Taken, Rest

LEMMA LateHead ==
  ASSUME Late, Dispatch \/ Watch \/ Processed \/ wr_wkr_wait_cb \/ Dismiss PROVE Late'
  <1>1. TypeOK /\ wkr \in WkrType
    BY TypeParts DEF Late
  <1>2. CASE /\ UNCHANGED <<ctl, proc, up, down>> /\ Registered
             /\ \/ Dispatch \/ Watch
                \/ wkr' = [wkr EXCEPT !.state = "INACTIVE", !.tWait = FALSE]
                \/ wkr' = [wkr EXCEPT !.state = "EXPIRED"]
    <2>1. CASE Dispatch
      <3>1. wkr' = [wkr EXCEPT !.state = "ACTIVE", !.reqs = @ + 1] /\ wkr.reqs < NReq
        BY <2>1 DEF Dispatch
      <3>2. wkr.reqs + 1 \in 0..NReq
        BY <1>1, <3>1, CtlAssumption DEF WkrType
      <3>3. wkr' \in WkrType /\ Registered'
        BY <1>1, <3>1, <3>2 DEF WkrType, Registered
      <3> QED BY <1>2, <3>3, LateWkr
    <2>2. CASE Watch
      <3>1. wkr' = [wkr EXCEPT !.state = IF @ = "PINGING" THEN "ACTIVE" ELSE @, !.trials = 0, !.tWait = TRUE]
        BY <2>2 DEF Watch
      <3>2. 0 \in 0..PingTrials
        BY CtlAssumption
      <3>3. wkr' \in WkrType /\ Registered'
        BY <1>1, <1>2, <3>1, <3>2 DEF WkrType, Registered
      <3> QED BY <1>2, <3>3, LateWkr
    <2>3. CASE \/ wkr' = [wkr EXCEPT !.state = "INACTIVE", !.tWait = FALSE]
               \/ wkr' = [wkr EXCEPT !.state = "EXPIRED"]
      <3>1. wkr' \in WkrType /\ Registered'
        BY <1>1, <2>3 DEF WkrType, Registered
      <3> QED BY <1>2, <3>1, LateWkr
    <2> QED BY <1>2, <2>1, <2>2, <2>3
  <1>3. CASE Freed(<<>>, "HUP") \/ Freed(<<>>, HangupSignal) \/ Freed(Bytes("REMOVE"), None)
    <2>1. UNCHANGED up
      BY DEF Dispatch, Watch, Processed, wr_wkr_wait_cb, Dismiss
    <2> QED BY <1>3, <2>1, LateFreed DEF HangupSignal
  <1>4. CASE /\ wkr' = [wkr EXCEPT !.state = "PINGING", !.trials = @ + 1] /\ TrialsLeft
             /\ ctl' = [ctl EXCEPT !.tx = Say("PING")] /\ ctl.open
             /\ UNCHANGED <<proc, up, down>>
    <2>1. /\ TypeOK' /\ ctl'.open /\ ctl'.tx = Say("PING") /\ ctl'.buf = ctl.buf /\ Registered'
      BY <1>1, <1>4, PingType
    <2>2. /\ Rise' = Rise /\ Fall' = Fall /\ (Alive' <=> Alive) /\ (Runs' <=> Runs)
          /\ (May("slow")' <=> May("slow"))
      BY <1>4, <2>1 DEF Rise, Fall, Alive, Runs, May
    <2>3. Heard' <=> Heard
      BY <1>4, <2>2 DEF Heard
    <2> QED BY <1>4, <2>1, <2>2, <2>3 DEF Late, Say
  <1>5. CASE Dispatch \/ Watch
    <2>1. Registered
      BY <1>5 DEF Dispatch, Watch, Busy, Registered
    <2> QED BY <1>2, <1>5, <2>1 DEF Dispatch, Watch
  <1>6. CASE Processed
    <2>1. Registered
      BY <1>6 DEF Processed, Busy, Registered
    <2> QED BY <1>2, <1>3, <1>6, <2>1 DEF Processed
  <1>7. CASE wr_wkr_wait_cb
    BY <1>3, <1>4, <1>7 DEF wr_wkr_wait_cb
  <1>8. CASE Dismiss
    BY <1>2, <1>3, <1>8 DEF Dismiss
  <1> QED BY <1>5, <1>6, <1>7, <1>8

LEMMA PongSends ==
  ASSUME NEW sent \in Nat
  PROVE  /\ scgi_send(Bytes("PONG"), sent) \in Seq(ByteOf(ToHead))
         /\ sent + Len(scgi_send(Bytes("PONG"), sent)) \in Nat
         /\ \A i \in 1..Len(scgi_send(Bytes("PONG"), sent)) : scgi_send(Bytes("PONG"), sent)[i].msg = "PONG"
  <1> DEFINE B == Bytes("PONG")
             chunk == scgi_send(B, sent)
  <1>0. "PONG" \in ToHead /\ CtlHeaderLen("PONG") = 2 /\ MsgLen("PONG") = 2
    BY DEF ToHead, CtlHeaderLen, MsgLen, BodyLen
  <1>1. /\ B \in Seq(ByteOf(ToHead)) /\ Len(B) = 2 /\ B[1].msg = "PONG"
        /\ \A i \in 1..2 : B[i] = [msg |-> "PONG", at |-> i]
    BY <1>0, BytesOf
  <1>3. chunk = SubSeq(B, sent + 1, Len(B))
    <2> HIDE DEF B
    <2> QED BY <1>0, <1>1 DEF scgi_send
  <1> HIDE DEF chunk, B
  <1>4. CASE sent + 1 <= Len(B)
    <2>1. \A i \in (sent + 1)..Len(B) : B[i] \in ByteOf(ToHead)
      <3>1. \A i \in 1..Len(B) : B[i] \in ByteOf(ToHead)
        BY <1>1, ElementOfSeq
      <3>2. \A i \in (sent + 1)..Len(B) : i \in 1..Len(B)
        BY <1>1
      <3> QED BY <3>1, <3>2
    <2>2. /\ chunk \in Seq(ByteOf(ToHead)) /\ Len(chunk) = Len(B) - sent
          /\ \A i \in 1..(Len(B) - sent) : chunk[i] = B[sent + i]
      BY <1>1, <1>3, <1>4, <2>1, SubSeqProperties
    <2>3. \A i \in 1..Len(chunk) : sent + i \in 1..2
      BY <1>1, <1>4, <2>2
    <2>4. \A i \in 1..Len(chunk) : chunk[i].msg = "PONG"
      BY <1>1, <2>2, <2>3
    <2> QED BY <1>1, <2>2, <2>4 DEF chunk, B
  <1>5. CASE ~(sent + 1 <= Len(B))
    <2>1. chunk = <<>>
      BY <1>1, <1>3, <1>5
    <2>2. /\ chunk \in Seq(ByteOf(ToHead)) /\ Len(chunk) = 0
          /\ \A i \in 1..Len(chunk) : chunk[i].msg = "PONG"
      BY <2>1
    <2>3. sent + Len(chunk) \in Nat
      BY <2>2
    <2> QED BY <2>2, <2>3 DEF chunk, B
  <1> QED BY <1>4, <1>5

LEMMA LateAnswers ==
  ASSUME Late, ctl_write_cb PROVE Late'
  <1>1. TypeOK /\ proc \in ProcType /\ Runs /\ proc.tx.out # None /\ UNCHANGED <<ctl, wkr, down>>
    BY TypeParts DEF Late, ctl_write_cb
  <1>2. CASE Exits /\ UNCHANGED up
    <2>1. down' \in Seq(ByteOf(ToWkr))
      BY <1>1, Types
    <2> QED BY <1>1, <1>2, <2>1, LateGone
  <1>3. CASE ctl.open
    <2>1. proc.tx.out = "PONG" /\ proc.stage = "up"
      BY <1>1 DEF Late, Heard
    <2> DEFINE chunk == scgi_send(Bytes("PONG"), proc.tx.sent)
               sent == proc.tx.sent + Len(chunk)
    <2>2. /\ up' = up \o chunk
          /\ proc' = [proc EXCEPT !.tx.sent = sent] \/ proc' = [proc EXCEPT !.tx = Silent]
      BY <1>3, <2>1 DEF ctl_write_cb
    <2>3. chunk \in Seq(ByteOf(ToHead)) /\ sent \in Nat /\ Only(chunk, {"PONG"})
      <3>1. proc.tx.sent \in Nat /\ "PONG" \in ToHead
        BY <1>1 DEF ProcType, Sender, ToHead
      <3> QED BY <3>1, PongSends DEF Only
    <2> HIDE DEF chunk, sent
    <2>4. /\ proc' \in ProcType /\ proc'.stage = proc.stage /\ proc'.hung = proc.hung
          /\ proc'.buf = proc.buf /\ proc'.env = proc.env
          /\ proc'.tx.writing <=> proc'.tx.out # None
          /\ proc'.tx.out \in {None, "PONG"}
      <3>0. proc.tx \in Sender(ToHead) /\ proc.tx.writing
        BY <1>1 DEF ProcType, Late
      <3>1. CASE proc' = [proc EXCEPT !.tx.sent = sent]
        <4>1. [proc.tx EXCEPT !.sent = sent] \in Sender(ToHead)
          BY <2>3, <3>0 DEF Sender
        <4>2. proc' = [proc EXCEPT !.tx = [proc.tx EXCEPT !.sent = sent]]
          BY <1>1, <3>1 DEF ProcType
        <4>3. /\ [proc.tx EXCEPT !.sent = sent].out = proc.tx.out
              /\ [proc.tx EXCEPT !.sent = sent].writing = proc.tx.writing
          BY <3>0 DEF Sender
        <4> QED BY <1>1, <2>1, <3>0, <4>1, <4>2, <4>3 DEF ProcType
      <3>2. CASE proc' = [proc EXCEPT !.tx = Silent]
        <4>1. Silent \in Sender(ToHead) /\ Silent.out = None /\ Silent.writing = FALSE
          BY SenderTypes DEF Silent
        <4> QED BY <1>1, <3>2, <4>1 DEF ProcType
      <3> QED BY <2>2, <3>1, <3>2
    <2>5. up \in Seq(ByteOf(ToHead)) /\ ctl.buf \in Seq(ByteOf(ToHead)) /\ Rise \in Seq(ByteOf(ToHead))
      BY <1>1, Types
    <2>6. up' \in Seq(ByteOf(ToHead)) /\ Rise' = Rise \o chunk
      <3> DEFINE T == Seq(ByteOf(ToHead))
      <3>1. ctl.buf \in T /\ up \in T /\ chunk \in T /\ Assoc(T)
        BY <2>3, <2>5, JoinedAll, Zenon
      <3>2. Rise' = ctl.buf \o (up \o chunk) /\ Rise = ctl.buf \o up
        BY <1>1, <2>2 DEF Rise
      <3>3. up' \in Seq(ByteOf(ToHead))
        BY <2>2, <2>3, <2>5
      <3> HIDE DEF T
      <3> QED BY <3>1, <3>2, <3>3 DEF Assoc
    <2>7. TypeOK'
      BY <1>1, <2>4, <2>6, TypeParts
    <2>8. Only(Rise', {"PONG"})
      BY <1>3, <2>3, <2>5, <2>6, OnlyJoined DEF Late
    <2>9. Fall' = Fall /\ (Alive' <=> Alive) /\ (Runs' <=> Runs) /\ May("slow")' /\ (Registered' <=> Registered)
      BY <1>1, <2>4 DEF Late, Fall, Alive, Runs, May, Registered
    <2>10. Only(Fall, {"PING", "REMOVE"})
      BY <1>1, <2>1 DEF Late, Heard
    <2> QED BY <1>1, <2>1, <2>4, <2>7, <2>8, <2>9, <2>10 DEF Late, Heard, Runs
  <1> QED BY <1>2, <1>3 DEF ctl_write_cb

(* The worker reads: while it has not been welcomed, that first. *)
LEMMA LateHears ==
  ASSUME Late, ctl_read_cb PROVE Late'
  <1>1. /\ TypeOK /\ proc \in ProcType /\ Runs /\ Heard /\ UNCHANGED <<ctl, wkr, up>>
        /\ proc.buf \in Seq(ByteOf(ToWkr)) /\ down \in Seq(ByteOf(ToWkr))
        /\ Fall \in Seq(ByteOf(ToWkr)) /\ Len(Fall) = Len(proc.buf) + Len(down)
    BY TypeParts, Types DEF Late, ctl_read_cb
  <1>2. CASE Exits /\ down' \in Seq(ByteOf(ToWkr))
    BY <1>1, <1>2, LateGone
  <1>3. ASSUME NEW n \in 1..Len(down), down' = Rest(down, n), ~Exits,
               \/ /\ HasHeader(Taken(proc.buf, down, n))
                  /\ ctl_msg_process(Taken(proc.buf, down, n)[1].msg)
               \/ proc' = [proc EXCEPT !.buf = Taken(proc.buf, down, n)]
        PROVE  Late'
    <2> DEFINE buf == Taken(proc.buf, down, n)
               p == [proc EXCEPT !.buf = <<>>, !.tx.out = None, !.tx.sent = 0]
    <2>1. /\ buf \in Seq(ByteOf(ToWkr)) /\ Rest(down, n) \in Seq(ByteOf(ToWkr))
          /\ Both(buf, Rest(down, n)) = Both(proc.buf, down)
          /\ Len(buf) = Len(proc.buf) + n /\ Len(Rest(down, n)) = Len(down) - n
          /\ \A i \in 1..(Len(proc.buf) + n) : buf[i] = Fall[i]
          /\ \A i \in 1..(Len(down) - n) : Rest(down, n)[i] = Fall[Len(proc.buf) + n + i]
      BY <1>1, TakenDown
    <2>2. /\ Len(proc.buf) \in Nat /\ Len(down) \in Nat /\ n \in Nat /\ n >= 1 /\ n <= Len(down)
          /\ 1 \in 1..Len(Fall) /\ 1 \in 1..(Len(proc.buf) + n)
      BY <1>1
    <2> HIDE DEF buf
    <2>3. CASE proc' = [proc EXCEPT !.buf = buf]
      <3>1. /\ proc' \in ProcType /\ proc'.buf = buf /\ proc'.stage = proc.stage
            /\ proc'.tx = proc.tx /\ proc'.hung = proc.hung /\ proc'.env = proc.env
        BY <1>1, <2>1, <2>3 DEF ProcType
      <3>2. TypeOK'
        BY <1>1, <1>3, <2>1, <3>1, TypeParts
      <3>3. /\ Rise' = Rise /\ Fall' = Fall /\ (Alive' <=> Alive) /\ (Runs' <=> Runs)
            /\ May("slow")' /\ (Registered' <=> Registered)
        BY <1>1, <1>3, <2>1, <3>1 DEF Late, Rise, Both, Fall, Alive, Runs, May, Registered
      <3>4. Heard' <=> Heard
        BY <3>1, <3>3 DEF Heard
      <3> QED BY <1>1, <3>1, <3>2, <3>3, <3>4 DEF Late
    <2>4. CASE HasHeader(buf) /\ ctl_msg_process(buf[1].msg)
      <3>1. /\ p \in ProcType /\ p.buf = <<>> /\ p.stage = proc.stage /\ p.hung = proc.hung
            /\ p.tx.writing = proc.tx.writing /\ p.tx.out = None /\ p.env = proc.env
        <4>1. proc.tx \in Sender(ToHead)
          BY <1>1 DEF ProcType
        <4>2. [proc.tx EXCEPT !.out = None, !.sent = 0] \in Sender(ToHead)
          BY <4>1 DEF Sender
        <4>3. p = [proc EXCEPT !.buf = <<>>, !.tx = [proc.tx EXCEPT !.out = None, !.sent = 0]]
          BY <1>1 DEF ProcType
        <4>4. <<>> \in Seq(ByteOf(ToWkr))
          OBVIOUS
        <4>5. /\ [proc.tx EXCEPT !.out = None, !.sent = 0].out = None
              /\ [proc.tx EXCEPT !.out = None, !.sent = 0].writing = proc.tx.writing
          BY <4>1 DEF Sender
        <4> HIDE DEF p
        <4> QED BY <1>1, <4>2, <4>3, <4>4, <4>5 DEF ProcType
      <3>2. /\ \/ proc' = [p EXCEPT !.stage = "up"] /\ proc.stage = "loaded" /\ proc.tx.out = None
               \/ proc' = [p EXCEPT !.tx = Say("PONG")] /\ proc.stage = "up"
            /\ Only(Rest(down, n), {"PING", "REMOVE"})
        <4>1. CASE proc.stage = "up" /\ Only(Fall, {"PING", "REMOVE"})
          <5>1. buf[1].msg \in {"PING", "REMOVE"}
            BY <2>1, <2>2, <4>1 DEF Only
          <5>2. proc' = [p EXCEPT !.tx = Say("PONG")]
            BY <1>3, <2>4, <5>1 DEF ctl_msg_process
          <5>3. \A i \in 1..(Len(down) - n) : Len(proc.buf) + n + i \in 1..Len(Fall)
            BY <1>1, <2>2
          <5> QED BY <2>1, <4>1, <5>2, <5>3 DEF Only
        <4>2. CASE proc.stage = "loaded" /\ proc.tx.out = None /\ Welcome(Fall)
          <5>1. buf[1].msg = "ADD_OK"
            BY <2>1, <2>2, <4>2 DEF Welcome
          <5>2. proc' = [p EXCEPT !.stage = "up"]
            BY <2>4, <5>1 DEF ctl_msg_process
          <5>3. Len(buf) >= 2
            <6>1. CtlHeaderLen("ADD_OK") = 2
              BY DEF CtlHeaderLen
            <6> QED BY <2>4, <5>1, <6>1 DEF HasHeader
          <5>4. \A i \in 1..(Len(down) - n) : Len(proc.buf) + n + i \in 3..Len(Fall)
            <6>1. Len(Fall) = Len(proc.buf) + Len(down) /\ Len(proc.buf) + n >= 2
              BY <1>1, <2>1, <5>3
            <6> QED BY <2>2, <6>1
          <5> QED BY <2>1, <4>2, <5>2, <5>4 DEF Only, Welcome
        <4> QED BY <1>1, <4>1, <4>2 DEF Heard
      <3> HIDE DEF p
      <3>3. /\ proc' \in ProcType /\ proc'.buf = <<>> /\ proc'.stage = "up" /\ proc'.hung = proc.hung
            /\ proc'.tx.writing <=> proc'.tx.out # None
            /\ proc'.tx.out \in {None, "PONG"} /\ proc'.env = proc.env
        <4>1. CASE proc' = [p EXCEPT !.stage = "up"] /\ proc.tx.out = None
          BY <3>1, <4>1 DEF ProcType, Late
        <4>2. CASE proc' = [p EXCEPT !.tx = Say("PONG")] /\ proc.stage = "up"
          <5>1. Say("PONG") \in Sender(ToHead) /\ Say("PONG").out = "PONG" /\ Say("PONG").writing
            BY SenderTypes DEF ToHead, Say
          <5> QED BY <3>1, <4>2, <5>1 DEF ProcType, None
        <4> QED BY <3>2, <4>1, <4>2
      <3>4. TypeOK'
        BY <1>1, <1>3, <2>1, <3>3, TypeParts
      <3>5. Fall' = Rest(down, n)
        BY <1>3, <2>1, <3>3, ConcatEmptySeq DEF Fall
      <3>6. Rise' = Rise /\ Alive' /\ May("slow")' /\ (Registered' <=> Registered)
        BY <1>1, <3>3 DEF Late, Rise, Alive, May, Registered
      <3>7. Heard'
        BY <3>2, <3>3, <3>5 DEF Heard
      <3> QED BY <1>1, <3>3, <3>4, <3>6, <3>7 DEF Late
    <2> QED BY <1>3, <2>3, <2>4 DEF buf
  <1>4. CASE NothingRead /\ Exits /\ UNCHANGED down
    BY <1>1, <1>2, <1>4
  <1>5. ASSUME NEW n \in 1..Len(down),
               LET buf == proc.buf \o SubSeq(down, 1, n)
               IN  /\ Len(buf) <= BufSize
                   /\ down' = SubSeq(down, n + 1, Len(down))
                   /\ CASE HasHeader(buf) -> ctl_msg_process(buf[1].msg)
                        [] buf[1].at # 1 /\ (\E i \in DOMAIN buf : buf[i].at = 1) -> Exits
                        [] OTHER -> proc' = [proc EXCEPT !.buf = buf]
        PROVE  Late'
    <2> DEFINE buf == Taken(proc.buf, down, n)
    <2>1. down' = Rest(down, n) /\ Rest(down, n) \in Seq(ByteOf(ToWkr))
      BY <1>1, <1>5, TakenDown DEF Rest
    <2>2. (CASE HasHeader(buf) -> ctl_msg_process(buf[1].msg)
             [] buf[1].at # 1 /\ (\E i \in DOMAIN buf : buf[i].at = 1) -> Exits
             [] OTHER -> proc' = [proc EXCEPT !.buf = buf])
      BY <1>5 DEF Taken
    <2>3. HasHeader(buf) => buf[1].at = 1
      <3> SUFFICES ASSUME HasHeader(buf) PROVE buf[1].at = 1
        OBVIOUS
      <3> HIDE DEF buf
      <3>1. buf \in Seq(ByteOf(ToWkr)) /\ buf # <<>>
        BY <1>1, TakenDown DEF buf, HasHeader
      <3>2. buf[1].msg \in ToWkr
        <4>1. buf[1] \in ByteOf(ToWkr)
          BY <3>1
        <4> QED BY <4>1 DEF ByteOf
      <3>3. 1 \in 1..CtlHeaderLen(buf[1].msg)
        BY <3>2, Lengths
      <3>4. buf[1] = [msg |-> buf[1].msg, at |-> 1]
        BY <3>3 DEF HasHeader
      <3> QED BY <3>4
    <2> HIDE DEF buf
    <2>4. \/ HasHeader(buf) /\ ctl_msg_process(buf[1].msg)
          \/ Exits
          \/ proc' = [proc EXCEPT !.buf = buf]
      BY <2>2, <2>3
    <2> QED BY <1>2, <1>3, <2>1, <2>4 DEF buf
  <1> QED BY <1>4, <1>5 DEF ctl_read_cb

LEMMA LateFails ==
  ASSUME Late, ctl_ack_timeout_cb \/ sigproc \/ Crash \/ Hang PROVE Late'
  <1>1. TypeOK /\ proc \in ProcType /\ UNCHANGED <<ctl, wkr, up, down>> /\ down \in Seq(ByteOf(ToWkr))
    BY TypeParts, Types DEF Late, ctl_ack_timeout_cb, sigproc, Crash, Hang
  <1>2. CASE Exits
    BY <1>1, <1>2, LateGone
  <1>3. CASE Hang
    <2>1. Runs /\ proc' = [proc EXCEPT !.hung = TRUE]
      BY <1>3 DEF Hang
    <2>2. /\ proc' \in ProcType /\ proc'.hung /\ proc'.stage = proc.stage /\ proc'.tx = proc.tx
          /\ proc'.env = proc.env
      BY <1>1, <2>1 DEF ProcType
    <2>3. TypeOK'
      BY <1>1, <2>2, TypeParts
    <2>4. Rise' = Rise /\ Alive' /\ ~Runs' /\ May("slow")' /\ (Registered' <=> Registered)
      BY <1>1, <2>1, <2>2 DEF Late, Rise, Alive, Runs, May, Registered
    <2> QED BY <1>1, <2>2, <2>3, <2>4 DEF Late
  <1> QED BY <1>2, <1>3 DEF ctl_ack_timeout_cb, sigproc, Crash

LEMMA StepLate == Late /\ [Next]_vars => Late'
  <1> SUFFICES ASSUME Late, [Next]_vars PROVE Late'
    OBVIOUS
  <1>1. CASE UNCHANGED vars
    <2>1. wkr' \in WkrType
      BY <1>1, TypeParts DEF Late, vars
    <2> QED BY <1>1, <2>1, LateWkr DEF vars, Registered
  <1>2. CASE Next
    BY <1>2, LateWrites, LateReads, LateHead, LateAnswers, LateHears, LateFails DEF Next
  <1> QED BY <1>1, <1>2

LEMMA LateIsSound == Late => CtlSound
  BY DEF Late, CtlSound, WriterSound, Framed

-----------------------------------------------------------------------------
(* The ends of the control connection speak in turn, unless a slow worker   *)
(* is sent a PING over another.                                            *)
Control == CtlInv \/ Late

LEMMA StepControl == Control /\ [Next]_vars => Control'
  BY StepCtl, StepLate, BecomesLate DEF Control

THEOREM CtlInvariant == Spec => []Control
  <1>1. Init => Control
    BY InitCtl DEF Control
  <1> QED BY <1>1, StepControl, PTL DEF Spec

(* What the callbacks of both ends of a worker's control connection rely   *)
(* on.  ctl_write_cb always has a message to send, whatever happens;       *)
(* wr_ctl_msg_write_cb has one, and what ctl_read_cb and                   *)
(* wr_ctl_msg_read_cb have kept is the beginning of one message, unless    *)
(* the worker answers a PING after its timeout; and only the disturbances  *)
(* WriterSound names let wr_ctl_free run under an active write watcher.    *)
THEOREM WorkerControlSound == Spec => []CtlSound
  <1>1. Control => CtlSound
    BY InvIsSound, LateIsSound DEF Control
  <1> QED BY <1>1, CtlInvariant, PTL

-----------------------------------------------------------------------------
(***************************************************************************)
(* The life of the worker.  Every step does one of seven things to what    *)
(* the head sees of it.                                                    *)
(***************************************************************************)
AnswerOut == ctl.tx.out # None \/ Fall # <<>>
Young == ctl.open /\ Alive /\ ~Registered

Same == (ctl'.open <=> ctl.open) /\ (Registered' <=> Registered) /\ (Alive' <=> Alive)
Quiet ==
  /\ Same /\ (proc'.hung <=> proc.hung)
  /\ Young => proc'.stage = proc.stage /\ (AnswerOut => AnswerOut')
Outside == ~ctl.open /\ ~ctl'.open /\ ~Registered /\ ~Registered'
Closes == ~ctl'.open /\ ~Registered'
Dies == (Registered' <=> Registered) /\ ~Alive'
Hangs == Same /\ Registered /\ Alive /\ ~proc.hung /\ proc'.hung
Enrols == Young /\ Registered' /\ Alive' /\ ~proc'.hung /\ proc.stage = "loaded"
Loads ==
  /\ Young /\ Young' /\ AnswerOut /\ proc.stage = "boot"
  /\ proc'.stage \in {"loaded", "failed"}
Lives == Quiet \/ Outside \/ Closes \/ Dies \/ Hangs \/ Enrols \/ Loads

(* A young worker runs, and has been answered if a message is on its way   *)
(* to it.                                                                  *)
LEMMA YoungRuns == ASSUME CtlInv, Young PROVE Runs
  BY DEF CtlInv, Stuck, Young

LEMMA AnsweredIs ==
  ASSUME CtlInv, Young, proc.stage = "boot"
  PROVE  Answered <=> AnswerOut
  <1>1. Runs /\ ctl.open
    BY YoungRuns DEF Young
  <1>2. TypeOK /\ Fall \in Seq(ByteOf(ToWkr)) /\ ctl.tx.out \in ToWkr \cup {None}
    BY Types DEF CtlInv
  <1>3. ctl.tx.out # None => ctl.tx.out \in {"CONF", "CONF_ERR"}
    <2>1. ctl.tx.out # None => Stage(ctl.tx.out) = "boot"
      BY <1>1 DEF CtlInv, Staged
    <2> QED BY <1>2, <2>1 DEF Stage, ToWkr
  <1>4. ctl.tx.out \in {"CONF", "CONF_ERR"} => ctl.tx.out # None
    BY DEF None
  <1>5. Fall # <<>> => 1 \in DOMAIN Fall /\ Fall[1].msg \in {"CONF", "CONF_ERR"}
    <2> SUFFICES ASSUME Fall # <<>> PROVE 1 \in DOMAIN Fall /\ Fall[1].msg \in {"CONF", "CONF_ERR"}
      OBVIOUS
    <2>1. 1 \in DOMAIN Fall
      BY <1>2
    <2>2. PICK m \in ToWkr : Fall[1].msg = m /\ Stage(m) = "boot"
      BY <1>1, Spoken
    <2> QED BY <2>1, <2>2 DEF Stage, ToWkr
  <1>6. (\E i \in DOMAIN Fall : TRUE) => Fall # <<>>
    BY <1>2
  <1>7. Answered <=> \/ ctl.tx.out \in {"CONF", "CONF_ERR"}
                     \/ \E m \in {"CONF", "CONF_ERR"} : \E i \in DOMAIN Fall : Fall[i].msg = m
    BY DEF Answered, Fall
  <1> QED BY <1>3, <1>4, <1>5, <1>6, <1>7 DEF AnswerOut

(* LifeOf, read off the state. *)
LifeRead ==
  /\ Registered => LifeOf = IF ~Alive THEN "dead" ELSE IF proc.hung THEN "hung" ELSE "up"
  /\ (~Registered /\ ~Young) => LifeOf = "none"
  /\ Young => LifeOf = CASE proc.stage = "boot" -> IF AnswerOut THEN "conf" ELSE "boot"
                         [] proc.stage = "failed" -> "err"
                         [] OTHER -> "add"

LEMMA LifeIs == CtlInv => LifeRead
  <1> SUFFICES ASSUME CtlInv PROVE LifeRead
    OBVIOUS
  <1>1. proc.stage \in {"boot", "loaded", "failed", "up", "gone"} /\ proc.hung \in BOOLEAN
    BY DEF CtlInv, TypeOK
  <1>2. ASSUME Registered PROVE LifeOf = IF ~Alive THEN "dead" ELSE IF proc.hung THEN "hung" ELSE "up"
    BY <1>1, <1>2 DEF LifeOf
  <1>3. ASSUME ~Registered, ~Young PROVE LifeOf = "none"
    BY <1>3 DEF LifeOf, Young
  <1>4. ASSUME Young
        PROVE  LifeOf = CASE proc.stage = "boot" -> IF AnswerOut THEN "conf" ELSE "boot"
                          [] proc.stage = "failed" -> "err"
                          [] OTHER -> "add"
    <2>1. ~Registered /\ ctl.open /\ Alive
      BY <1>4 DEF Young
    <2>2. CASE proc.stage = "boot"
      BY <1>4, <2>1, <2>2, AnsweredIs DEF LifeOf
    <2>3. CASE proc.stage = "failed"
      BY <2>1, <2>3 DEF LifeOf
    <2>4. CASE proc.stage \in {"loaded", "up"}
      BY <2>1, <2>4 DEF LifeOf
    <2> QED BY <1>1, <2>1, <2>2, <2>3, <2>4 DEF Alive
  <1> QED BY <1>2, <1>3, <1>4 DEF LifeRead

(* Each of the seven is a step of WkrLife, or none. *)
LEMMA LivesIsLife ==
  ASSUME LifeRead, LifeRead', Lives
  PROVE  [Life!Next]_LifeOf
  <1>1. /\ Registered => LifeOf = IF ~Alive THEN "dead" ELSE IF proc.hung THEN "hung" ELSE "up"
        /\ (~Registered /\ ~Young) => LifeOf = "none"
        /\ Young => LifeOf = CASE proc.stage = "boot" -> IF AnswerOut THEN "conf" ELSE "boot"
                               [] proc.stage = "failed" -> "err"
                               [] OTHER -> "add"
    BY DEF LifeRead
  <1>2. /\ Registered' => LifeOf' = IF ~Alive' THEN "dead" ELSE IF proc'.hung THEN "hung" ELSE "up"
        /\ (~Registered' /\ ~Young') => LifeOf' = "none"
        /\ Young' => LifeOf' = CASE proc'.stage = "boot" -> IF AnswerOut' THEN "conf" ELSE "boot"
                                 [] proc'.stage = "failed" -> "err"
                                 [] OTHER -> "add"
    BY DEF LifeRead
  <1>3. (Young => ~Registered) /\ (Young' => ~Registered' /\ ctl'.open /\ Alive')
    BY DEF Young
  <1>4. LifeOf \in {"none", "boot", "conf", "add", "err", "up", "hung", "dead"}
    BY <1>1
  <1>5. (Closes \/ Outside) => LifeOf' = "none"
    BY <1>2, <1>3 DEF Closes, Outside
  <1>6. CASE LifeOf' = "none"
    BY <1>4, <1>6 DEF Life!Next, Life!Step
  <1>7. CASE Dies
    <2>1. CASE Registered
      BY <1>1, <1>2, <1>7, <2>1 DEF Dies, Life!Next, Life!Step
    <2>2. CASE ~Registered
      BY <1>2, <1>3, <1>6, <1>7, <2>2 DEF Dies
    <2> QED BY <2>1, <2>2
  <1>8. CASE Hangs
    BY <1>1, <1>2, <1>8 DEF Hangs, Same, Life!Next, Life!Step
  <1>9. CASE Enrols
    BY <1>1, <1>2, <1>3, <1>9 DEF Enrols, Life!Next, Life!Step
  <1>10. CASE Loads
    BY <1>1, <1>2, <1>10 DEF Loads, Life!Next, Life!Step
  <1>11. CASE Quiet
    <2>1. CASE Registered
      BY <1>1, <1>2, <1>11, <2>1 DEF Quiet, Same
    <2>2. CASE ~Registered /\ ~Young
      <3>1. ~Young' /\ ~Registered'
        BY <1>11, <2>2 DEF Quiet, Same, Young
      <3> QED BY <1>2, <1>6, <3>1
    <2>3. CASE Young
      <3>1. Young' /\ proc'.stage = proc.stage /\ (AnswerOut => AnswerOut')
        BY <1>11, <2>3 DEF Quiet, Same, Young
      <3> QED BY <1>1, <1>2, <2>3, <3>1 DEF Life!Next, Life!Step
    <2> QED BY <2>1, <2>2, <2>3
  <1> QED BY <1>5, <1>6, <1>7, <1>8, <1>9, <1>10, <1>11 DEF Lives

(* What each step does. *)
LEMMA FreedCloses ==
  ASSUME CtlInv, NEW b, NEW s, Freed(b, s) PROVE Lives
  BY DEF CtlInv, TypeOK, Freed, Registered, Closes, Lives

LEMMA SlotAndStage ==
  ASSUME UNCHANGED <<ctl, proc, down>>, Registered' <=> Registered
  PROVE  Quiet
  BY DEF Quiet, Same, Alive, AnswerOut, Fall

LEMMA HeadLives ==
  ASSUME CtlInv,
         \/ wr_ctl_msg_write_cb \/ wr_ctl_msg_read_cb
         \/ Dispatch \/ Watch \/ Processed \/ wr_wkr_wait_cb \/ Dismiss
  PROVE  Lives
  <1>1. TypeOK /\ ctl \in CtlType /\ wkr \in WkrType /\ proc \in ProcType
    BY TypeParts DEF CtlInv
  <1>2. CASE wr_ctl_msg_write_cb
    <2> DEFINE m == ctl.tx.out
    <2>0. /\ ctl.open /\ m \in ToWkr /\ ctl.tx.sent \in Nat /\ (Sent \/ Unsent)
          /\ UNCHANGED proc
      BY <1>1, <1>2, Types DEF CtlInv, Slots, wr_ctl_msg_write_cb, CtlType, Sender
    <2>1. CASE ~Alive
      <3>1. WroteTo
        BY <1>1, <2>0, WriteSteps
      <3>2. CASE Closed
        BY <1>1, <3>2, ClosedType DEF Lives, Closes
      <3>3. CASE ctl'.open = ctl.open /\ UNCHANGED wkr
        BY <2>0, <2>1, <3>3 DEF Lives, Quiet, Same, Registered, Alive, Young
      <3>4. ctl' = [ctl EXCEPT !.tx = Silent] => ctl'.open = ctl.open
        BY <1>1, EmptiedType
      <3>5. \A k \in Nat : ctl' = [ctl EXCEPT !.tx.sent = k] => ctl'.open = ctl.open
        BY <1>1, SlotType
      <3> QED BY <3>1, <3>2, <3>3, <3>4, <3>5 DEF WroteTo
    <2>2. ASSUME Alive PROVE Sent /\ ~ctl.ended /\ ctl.tx.sent = 0
      BY <2>0, <2>2 DEF CtlInv, Disturbed, Slots, Unsent
    <2>3. ASSUME Alive PROVE ctl'.open /\ UNCHANGED wkr
      <3>1. /\ UNCHANGED wkr
            /\ \/ ctl' = [ctl EXCEPT !.tx = Silent]
               \/ \E k : ctl' = [ctl EXCEPT !.tx = [ctl.tx EXCEPT !.sent = k]]
        BY <2>2, <2>3 DEF Sent
      <3> QED BY <1>1, <2>0, <3>1 DEF CtlType
    <2>4. ASSUME Alive PROVE down' = down \o Bytes(m)
      <3> HIDE DEF m
      <3>1. scgi_send(Bytes(m), 0) = Bytes(m)
        BY <2>0, HeadSends
      <3> QED BY <2>2, <2>4, <3>1 DEF Sent, m
    <2>5. ASSUME Alive PROVE AnswerOut'
      <3> HIDE DEF m
      <3>1. Bytes(m) \in Seq(ByteOf(ToWkr)) /\ Bytes(m) # <<>>
        BY <2>0, BytesOf, BytesAreWhole
      <3>2. proc.buf \in Seq(ByteOf(ToWkr)) /\ down \in Seq(ByteOf(ToWkr))
        BY <1>1, Types
      <3>3. down' \in Seq(ByteOf(ToWkr)) /\ down' # <<>>
        <4>1. down \o Bytes(m) \in Seq(ByteOf(ToWkr)) /\ down \o Bytes(m) # <<>>
          BY <3>1, <3>2, ConcatProperties, EmptySeq
        <4>2. down' = down \o Bytes(m)
          BY <2>4, <2>5
        <4> QED BY <4>1, <4>2, Zenon
      <3>4. proc.buf \o down' # <<>>
        BY <3>2, <3>3
      <3> QED BY <2>0, <3>4 DEF AnswerOut, Fall
    <2> QED BY <2>0, <2>1, <2>3, <2>5 DEF Lives, Quiet, Same, Registered, Alive
  <1>3. CASE wr_ctl_msg_read_cb
    <2>1. CASE CtlFreed
      BY <2>1, FreedCloses DEF CtlFreed
    <2>2. ASSUME NEW n \in 1..Len(up), ctl.open, UNCHANGED <<proc, down>>,
                 IF Complete(Taken(ctl.buf, up, n)) THEN wr_ctl_msg_process(Taken(ctl.buf, up, n)[1].msg)
                 ELSE ctl' = [ctl EXCEPT !.buf = Taken(ctl.buf, up, n)] /\ UNCHANGED wkr
          PROVE  Lives
      <3>1. CASE ~Complete(Taken(ctl.buf, up, n))
        <4>1. ctl'.open = ctl.open /\ ctl'.tx = ctl.tx /\ wkr' = wkr
          BY <1>1, <2>2, <3>1 DEF CtlType
        <4> QED BY <2>2, <4>1 DEF Lives, Quiet, Same, Registered, Alive, AnswerOut, Fall
      <3>2. CASE Complete(Taken(ctl.buf, up, n))
        <4> DEFINE m == Taken(ctl.buf, up, n)[1].msg
        <4>1. /\ m \in ToHead /\ Rise # <<>> /\ Rise[1].msg = m
              /\ ctl.tx.out = None /\ Fall = <<>>
          BY <2>2, <3>2, HeadHas
        <4>2. ~AnswerOut
          BY <4>1 DEF AnswerOut
        <4>3. ctl'.open
          BY <1>1, <2>2, <3>2 DEF wr_ctl_msg_process, CtlType
        <4>4. Registered => m = "PONG"
          BY <2>2, <4>1, OnlyPong
        <4>5. CASE Registered' <=> Registered
          BY <2>2, <4>2, <4>3, <4>5 DEF Lives, Quiet, Same, Alive
        <4>6. CASE m = "PONG"
          <5>1. wkr' = Ponged(wkr)
            BY <2>2, <3>2, <4>6 DEF wr_ctl_msg_process
          <5>2. Registered' <=> Registered
            BY <1>1, <5>1 DEF Ponged, Registered, WkrType
          <5> QED BY <4>5, <5>2
        <4>7. CASE m # "PONG" /\ ~(Registered' <=> Registered)
          <5>1. ~Registered /\ Registered' /\ wkr' # wkr
            BY <4>4, <4>7 DEF Registered
          <5>2. m = "ADD" /\ Alive
            BY <2>2, <3>2, <4>7, <5>1 DEF wr_ctl_msg_process, AddAnswers
          <5>3. Young /\ Runs
            BY <2>2, <5>1, <5>2, YoungRuns DEF Young
          <5>4. proc.stage = "loaded"
            BY <2>2, <4>1, <5>2, <5>3 DEF CtlInv, Staged, Stage
          <5> QED BY <2>2, <5>1, <5>2, <5>3, <5>4 DEF Lives, Enrols, Runs, Alive
        <4> QED BY <4>5, <4>6, <4>7
      <3> QED BY <3>1, <3>2
    <2> QED BY <1>3, <2>1, <2>2 DEF wr_ctl_msg_read_cb, Taken
  <1>4. CASE Dispatch
    <2>1. Registered /\ Registered'
      BY <1>1, <1>4 DEF Dispatch, Registered, WkrType
    <2> QED BY <1>4, <2>1, SlotAndStage DEF Lives, Dispatch
  <1>5. CASE Watch
    <2>1. Registered /\ Registered'
      BY <1>1, <1>5 DEF Watch, Busy, Registered, WkrType
    <2> QED BY <1>5, <2>1, SlotAndStage DEF Lives, Watch
  <1>6. CASE Processed
    <2>1. CASE wkr.state = "EXPIRED"
      BY <1>6, <2>1, FreedCloses DEF Processed
    <2>2. CASE wkr.state # "EXPIRED"
      <3>1. Registered /\ Registered' /\ UNCHANGED <<ctl, proc, down>>
        BY <1>1, <1>6, <2>2 DEF Processed, Busy, Registered, WkrType
      <3> QED BY <3>1, SlotAndStage DEF Lives
    <2> QED BY <2>1, <2>2
  <1>7. CASE wr_wkr_wait_cb
    <2>1. CASE \E b, s : Freed(b, s)
      BY <2>1, FreedCloses
    <2>2. CASE /\ wkr.state \in {"ACTIVE", "PINGING"} /\ UNCHANGED <<proc, down>>
               /\ wkr' = [wkr EXCEPT !.state = "PINGING", !.trials = @ + 1]
               /\ ctl' = [ctl EXCEPT !.tx = Say("PING")]
      <3>1. Registered /\ Registered' /\ ctl'.open = ctl.open
        BY <1>1, <2>2 DEF Registered, WkrType, CtlType
      <3> QED BY <2>2, <3>1 DEF Lives, Quiet, Same, Young, Alive
    <2> QED BY <1>7, <2>1, <2>2 DEF wr_wkr_wait_cb
  <1>8. CASE Dismiss
    <2>1. CASE Freed(<<>>, "HUP")
      BY <2>1, FreedCloses
    <2>2. CASE wkr' = [wkr EXCEPT !.state = "EXPIRED"] /\ UNCHANGED <<ctl, proc, down>>
      <3>1. Registered /\ Registered'
        BY <1>1, <1>8, <2>2 DEF Dismiss, Registered, WkrType
      <3> QED BY <2>2, <3>1, SlotAndStage DEF Lives
    <2> QED BY <1>8, <2>1, <2>2 DEF Dismiss
  <1> QED BY <1>2, <1>3, <1>4, <1>5, <1>6, <1>7, <1>8

LEMMA WorkerIsLived ==
  ASSUME CtlInv,
         ctl_write_cb \/ ctl_read_cb \/ ctl_ack_timeout_cb \/ sigproc \/ Crash \/ Hang
  PROVE  Lives
  <1>1. TypeOK /\ proc \in ProcType /\ Gone(proc).stage = "gone"
    BY TypeParts DEF CtlInv, Gone, ProcType
  <1>2. UNCHANGED <<ctl, wkr>> /\ (Registered' <=> Registered) /\ Alive
    BY DEF ctl_write_cb, ctl_read_cb, ctl_ack_timeout_cb, sigproc, Crash, Hang, Registered, Runs
  <1>3. CASE Exits
    BY <1>1, <1>2, <1>3 DEF Exits, Lives, Dies, Alive
  <1>4. CASE ~ctl.open
    BY <1>2, <1>4 DEF CtlInv, LetGo, Lives, Outside
  <1>5. CASE Hang
    BY <1>1, <1>2, <1>5 DEF Hang, ProcType, Busy, Registered, Alive, Runs, Lives, Hangs, Same
  <1>6. CASE ctl_write_cb /\ ctl.open /\ ~Exits
    <2>1. \/ \E k : proc' = [proc EXCEPT !.tx.sent = k]
          \/ proc' = [proc EXCEPT !.tx = Silent]
      BY <1>6 DEF ctl_write_cb
    <2>2. /\ proc'.stage = proc.stage /\ proc'.hung = proc.hung /\ proc'.buf = proc.buf /\ down' = down
      BY <1>1, <1>6, <2>1 DEF ProcType, ctl_write_cb
    <2> QED BY <1>2, <2>2 DEF Lives, Quiet, Same, Alive, AnswerOut, Fall
  <1>7. CASE ctl_read_cb /\ ctl.open /\ ~Exits
    <2>1. PICK n \in 1..Len(down) :
             /\ Runs /\ down' = Rest(down, n)
             /\ \/ /\ HasHeader(Taken(proc.buf, down, n))
                   /\ ctl_msg_process(Taken(proc.buf, down, n)[1].msg)
                \/ proc' = [proc EXCEPT !.buf = Taken(proc.buf, down, n)]
      BY <1>7 DEF ctl_read_cb, Taken, Rest
    <2>2. CASE proc' = [proc EXCEPT !.buf = Taken(proc.buf, down, n)]
      <3>1. /\ proc'.stage = proc.stage /\ proc'.hung = proc.hung /\ proc'.buf = Taken(proc.buf, down, n)
        BY <1>1, <2>2 DEF ProcType
      <3>2. Both(Taken(proc.buf, down, n), Rest(down, n)) = Both(proc.buf, down)
        BY <1>1, TakenDown
      <3>3. Fall' = Fall
        BY <2>1, <3>1, <3>2 DEF Fall, Both
      <3> QED BY <1>2, <3>1, <3>3 DEF Lives, Quiet, Same, Alive, AnswerOut
    <2>3. CASE /\ HasHeader(Taken(proc.buf, down, n))
               /\ ctl_msg_process(Taken(proc.buf, down, n)[1].msg)
      <3>1. Fall # <<>> /\ Taken(proc.buf, down, n)[1].msg = Fall[1].msg
        BY <1>7, <2>1, <2>3, WorkerHas
      <3>2. PICK m \in ToWkr : /\ Fall[1].msg = m /\ Stage(m) = proc.stage
                               /\ Registered <=> m \in {"PING", "ADD_OK"}
        BY <1>7, <2>1, <3>1, Spoken
      <3>3. proc.tx.out = None
        BY <1>7, <2>1, <3>1, Spoken
      <3>4. Went(m) \/ Stays(m)
        BY <2>1, <2>3, <3>1, <3>2, <3>3, WorkerHandles
      <3>5. CASE Went(m)
        BY <1>2, <3>5 DEF Went, Lives, Dies, Alive
      <3>6. CASE Stays(m) /\ m \in {"PING", "ADD_OK"}
        BY <1>2, <3>2, <3>6 DEF Stays, Lives, Quiet, Same, Young, Alive
      <3>7. CASE Stays(m) /\ m = "CONF"
        <4>1. Young /\ AnswerOut /\ proc.stage = "boot"
          BY <1>2, <1>7, <3>1, <3>2, <3>7 DEF Young, AnswerOut, Stage
        <4>2. proc'.stage \in {"loaded", "failed"} /\ Young'
          BY <1>2, <3>7, <4>1 DEF Stays, Young, Alive
        <4> QED BY <4>1, <4>2 DEF Lives, Loads
      <3> QED BY <3>4, <3>5, <3>6, <3>7 DEF Stays
    <2> QED BY <2>1, <2>2, <2>3
  <1>8. (ctl_ack_timeout_cb \/ sigproc \/ Crash) => Exits
    BY DEF ctl_ack_timeout_cb, sigproc, Crash
  <1> QED BY <1>3, <1>4, <1>5, <1>6, <1>7, <1>8

(* A slow worker is registered until it is let go, and neither recovers    *)
(* nor returns.                                                            *)
LEMMA LateLifeIs == Late => LifeRead
  BY DEF Late, TypeOK, LifeRead, LifeOf, Young

LEMMA OnlyWorse ==
  ASSUME TypeOK, Next
  PROVE  /\ ~ctl.open => ~ctl'.open
         /\ ~Alive => ~Alive'
         /\ proc.hung => proc'.hung \/ ~Alive'
  <1> DEFINE Worse == (~Alive => ~Alive') /\ (proc.hung => proc'.hung \/ ~Alive')
             Signals == {None, "HUP", "KILL"}
  <1>1. ctl \in CtlType /\ proc \in ProcType /\ Gone(proc).stage = "gone"
    BY TypeParts DEF Gone, ProcType
  <1>2. ASSUME NEW b, NEW s \in Signals, Freed(b, s) PROVE Worse
    <2>1. \/ proc' = proc
          \/ Alive /\ proc' = [proc EXCEPT !.hup = TRUE]
          \/ proc' = Gone(proc)
      BY <1>2 DEF Freed
    <2>2. CASE proc' = proc
      BY <2>2 DEF Alive
    <2>3. CASE Alive /\ proc' = [proc EXCEPT !.hup = TRUE]
      <3>1. proc'.hung = proc.hung
        BY <1>1, <2>3 DEF ProcType
      <3> QED BY <2>3, <3>1
    <2>4. CASE proc' = Gone(proc)
      BY <1>1, <2>4 DEF Alive
    <2> QED BY <2>1, <2>2, <2>3, <2>4
  <1>3. CASE wr_ctl_msg_write_cb \/ wr_ctl_msg_read_cb
    <2>1. ctl.open
      BY <1>3 DEF wr_ctl_msg_write_cb, wr_ctl_msg_read_cb
    <2>2. UNCHANGED proc \/ CtlFreed
      BY <1>3 DEF wr_ctl_msg_write_cb, wr_ctl_msg_read_cb
    <2>3. (UNCHANGED proc) => Worse
      BY DEF Alive
    <2>4. CtlFreed => Worse
      BY <1>2 DEF CtlFreed
    <2> QED BY <2>1, <2>2, <2>3, <2>4, Zenon
  <1>4. CASE Dispatch \/ Watch \/ Processed \/ wr_wkr_wait_cb \/ Dismiss
    <2>1. ctl.open
      BY <1>4 DEF Dispatch, Watch, Processed, wr_wkr_wait_cb, Dismiss
    <2>2. (UNCHANGED proc) \/ \E b : \E s \in Signals : Freed(b, s)
      BY <1>4 DEF Dispatch, Watch, Processed, wr_wkr_wait_cb, Dismiss, HangupSignal
    <2>3. (UNCHANGED proc) => Worse
      BY DEF Alive
    <2>4. (\E b : \E s \in Signals : Freed(b, s)) => Worse
      BY <1>2, Zenon
    <2> QED BY <2>1, <2>2, <2>3, <2>4, Zenon
  <1>5. CASE ctl_write_cb \/ ctl_read_cb \/ ctl_ack_timeout_cb \/ sigproc \/ Crash \/ Hang
    <2>1. Alive /\ UNCHANGED ctl
      BY <1>5 DEF ctl_write_cb, ctl_read_cb, ctl_ack_timeout_cb, sigproc, Crash, Hang, Runs
    <2>2. proc.hung => Exits
      BY <1>5 DEF ctl_write_cb, ctl_read_cb, ctl_ack_timeout_cb, sigproc, Crash, Hang, Runs
    <2>3. Exits => ~Alive'
      BY <1>1 DEF Exits, Alive
    <2>4. (~ctl.open) => ~ctl'.open
      BY <2>1
    <2> QED BY <2>1, <2>2, <2>3, <2>4, Zenon
  <1> QED BY <1>3, <1>4, <1>5, Zenon DEF Next

LEMMA LateLives ==
  ASSUME Late, Late', Next
  PROVE  Lives
  <1>1. /\ ~ctl.open => ~ctl'.open
        /\ ~Alive => ~Alive'
        /\ proc.hung => proc'.hung \/ ~Alive'
    BY OnlyWorse DEF Late
  <1>2. /\ ctl.open <=> Registered
        /\ ctl'.open <=> Registered'
        /\ proc.hung \in BOOLEAN /\ proc'.hung \in BOOLEAN
    BY DEF Late, TypeOK
  <1>3. CASE ~ctl'.open
    BY <1>2, <1>3 DEF Lives, Closes
  <1>4. CASE ctl'.open /\ ~Alive'
    BY <1>1, <1>2, <1>4 DEF Lives, Dies
  <1>5. CASE ctl'.open /\ Alive' /\ (proc'.hung <=> proc.hung)
    BY <1>1, <1>2, <1>5 DEF Lives, Quiet, Same, Young
  <1>6. CASE ctl'.open /\ Alive' /\ proc'.hung /\ ~proc.hung
    BY <1>1, <1>2, <1>6 DEF Lives, Hangs, Same
  <1> QED BY <1>1, <1>3, <1>4, <1>5, <1>6

(* The control connection, byte by byte, implements the life of a worker   *)
(* that WrHead takes for granted: a worker is registered only after it has *)
(* been given its configuration and said that it has loaded the            *)
(* application, and one that has died or is stuck never comes back.        *)
THEOREM ControlImplementsWkrLife == Spec => WorkerLives
  <1>1. Init => Life!Init
    <2> SUFFICES ASSUME Init PROVE Life!Init
      OBVIOUS
    <2>1. CtlInv
      BY InitCtl
    <2>2. ~Registered /\ proc.stage = "boot" /\ ctl.tx.out = None /\ Fall = <<>>
      BY DEF Init, Registered, Silent, Fall
    <2>3. ~AnswerOut
      BY <2>2 DEF AnswerOut
    <2> QED BY <2>1, <2>2, <2>3, LifeIs DEF LifeRead, Life!Init
  <1>2. Control => LifeRead
    BY LifeIs, LateLifeIs DEF Control
  <1>3. Control /\ Control' /\ LifeRead /\ LifeRead' /\ [Next]_vars => [Life!Next]_LifeOf
    <2> SUFFICES ASSUME Control, Control', LifeRead, LifeRead', [Next]_vars PROVE [Life!Next]_LifeOf
      OBVIOUS
    <2>1. CASE UNCHANGED vars
      <3>1. Quiet
        BY <2>1, SlotAndStage DEF vars, Registered
      <3> QED BY <3>1, LivesIsLife DEF Lives
    <2>2. CASE Next /\ CtlInv
      BY <2>2, HeadLives, WorkerIsLived, LivesIsLife DEF Next
    <2>3. CASE Next /\ Late
      <3>1. Late'
        BY <2>3, StepLate
      <3> QED BY <2>3, <3>1, LateLives, LivesIsLife
    <2> QED BY <2>1, <2>2, <2>3 DEF Control
  <1>4. Control /\ Control' /\ [Next]_vars => [Life!Next]_LifeOf
    BY <1>2, <1>3, PTL
  <1> QED BY <1>1, <1>4, CtlInvariant, PTL DEF Spec, WorkerLives, Life!Spec
=============================================================================
