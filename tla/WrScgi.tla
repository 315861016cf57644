------------------------------- MODULE WrScgi -------------------------------
(***************************************************************************)
(* SCGI messages on a byte stream (src/src/helper/wr_scgi.c): what one     *)
(* send puts on the stream and what the parser makes of the bytes it is    *)
(* given.  A byte is the message it belongs to and its place in it: first  *)
(* the header, its length in front and a comma at its end, then the body.  *)
(***************************************************************************)
EXTENDS Naturals, Sequences

CONSTANT HeaderLen(_)   \* the length of a message's header, at least 2

(* The parser's NULL. *)
NoScgi == [msg |-> "", body |-> <<>>]

(* scgi_build: the bytes of a message with a body of n bytes. *)
scgi_build(msg, n) == [i \in 1..(HeaderLen(msg) + n) |-> [msg |-> msg, at |-> i]]

(* scgi_send: the next bytes of a message of which sent bytes have gone     *)
(* out.  The header and the body go out by separate calls.                  *)
scgi_send(bytes, sent) ==
  IF sent < HeaderLen(bytes[1].msg) THEN SubSeq(bytes, sent + 1, HeaderLen(bytes[1].msg))
  ELSE SubSeq(bytes, sent + 1, Len(bytes))

(* A send that fails returns -1, which is added to bytes_sent, a size_t: a  *)
(* message of which nothing has gone out is behind its end (SizeMax stands  *)
(* for 2^64 - 1), so that the next call sends nothing and reports success.  *)
scgi_send_failed(sent, SizeMax) == IF sent = 0 THEN SizeMax ELSE sent - 1

(* A buffer that starts with the whole header of a message. *)
HasHeader(buf) ==
  /\ buf # <<>> /\ Len(buf) >= HeaderLen(buf[1].msg)
  /\ \A i \in 1..HeaderLen(buf[1].msg) : buf[i] = [msg |-> buf[1].msg, at |-> i]

(* scgi_parse: everything behind the header is the body; a body of a single *)
(* byte is passed over (STATE_BODY).                                        *)
scgi_parse(buf) ==
  IF ~HasHeader(buf) THEN NoScgi
  ELSE LET h == HeaderLen(buf[1].msg)
       IN  [msg |-> buf[1].msg,
            body |-> IF Len(buf) = h + 1 THEN <<>> ELSE SubSeq(buf, h + 1, Len(buf))]
=============================================================================
