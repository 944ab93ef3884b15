------------------------------- MODULE Stream -------------------------------
(***************************************************************************)
(* The socket between knxd and one client: SendBuf and RecvBuf             *)
(* (common/iobuf.cpp) with the framing of ClientConnection on the daemon's *)
(* side, io.c of the C library on the client's.  A message is a payload;   *)
(* on the wire it is preceded by its length in two bytes.  The kernel      *)
(* takes and hands out any number of bytes at a time.                      *)
(*                                                                         *)
(* `down' is the way from the daemon to the client, `up' the other one.    *)
(* Message n of either way has Sizes[n] bytes, all equal to n.             *)
(***************************************************************************)
EXTENDS CArray, FiniteSetsExt

CONSTANTS
    Sizes,        \* the sizes of the messages of each way, a sequence
    Room,         \* bytes the socket buffers, each way
    Recvbuf,      \* sizeof(recvbuf): 1024 in the code
    SplitHeader,  \* a read may return one byte of the length alone
    Garbage       \* values an uninitialised byte may have

ASSUME StreamConfig ==
    /\ Sizes \in Seq(Nat) /\ \A n \in DOMAIN Sizes : Sizes[n] \in 2 .. 65535
    /\ Room \in Nat \ {0, 1} /\ Recvbuf \in Nat
    /\ SplitHeader \in BOOLEAN /\ Garbage \subseteq Byte /\ Garbage # {}

VARIABLES
    open,     \* the sides that have not closed the socket
    down, up, \* the bytes in the socket, each way
    sb,       \* the daemon's SendBuf
    rb,       \* the daemon's RecvBuf
    req,      \* the client's _EIB_SendRequest: what it has to write yet
    con,      \* the client's EIBConnection
    told,     \* history: the messages of the daemon
    heard,    \* history: ... those the client got
    asked,    \* history: the messages of the client
    seen      \* history: ... those the daemon got

vars == <<open, down, up, sb, rb, req, con, told, heard, asked, seen>>

Message(n) == [i \in 1 .. Sizes[n] |-> n]
Messages == {Message(n) : n \in DOMAIN Sizes}

SendBufs == [ sendbuf : Seq(Byte), sendpos : Nat, sendqueue : Seq(Seq(Byte)), ready : BOOLEAN ]
RecvBufs == [ buf : Seq(Byte), feeding : BOOLEAN ]
Connections == [ readlen : Nat, size : 0 .. 65535, buf : Seq(Byte) ]

Init ==
    /\ open = {"daemon", "client"} /\ down = <<>> /\ up = <<>>
    /\ sb = [sendbuf |-> <<>>, sendpos |-> 0, sendqueue |-> <<>>, ready |-> FALSE]
    /\ rb = [buf |-> <<>>, feeding |-> FALSE]
    /\ req = <<>>
    /\ con = [readlen |-> 0, size |-> 0, buf |-> <<>>]
    /\ told = <<>> /\ heard = <<>> /\ asked = <<>> /\ seen = <<>>

\* The length of a message; no message here starts with a zero.
Head2(m) == B16(Len(m))
IsHead(data) == data[1] = 0

\* What one write or read moves of n bytes: nothing, a part or all of them.
Some(n, room) == 0 .. Min({n, room})

-----------------------------------------------------------------------------
\* The daemon writes.  SendBuf::write hands the kernel what it takes; what
\* is left, and what comes later, waits for io_cb.
write(b, data, i) ==
    IF b.ready THEN [b EXCEPT !.sendqueue = Append(@, data)]
    ELSE IF i = Len(data) THEN b
    ELSE [b EXCEPT !.sendbuf = data, !.sendpos = i, !.ready = TRUE]

\* The bytes write() hands to the kernel.
Written(b, data, i) == IF b.ready THEN <<>> ELSE SubSeq(data, 1, i)

\* ClientConnection::sendmessage: the length, then the message.
sendmessage(m) ==
    /\ "daemon" \in open /\ ~rb.feeding
    /\ \E i \in IF sb.ready \/ ~SplitHeader THEN {0, 2} ELSE 0 .. 2 :
       LET b == write(sb, Head2(m), i)
           s == down \o Written(sb, Head2(m), i)
       IN /\ Len(s) =< Room
          /\ \E j \in Some(Len(m), Room - Len(s)) :
             /\ sb' = write(b, m, j)
             /\ down' = s \o Written(b, m, j)
    /\ told' = Append(told, m)
    /\ UNCHANGED <<open, up, rb, req, con, heard, asked, seen>>

\* SendBuf::io_cb, one turn of its loop.
SendBuf_io_cb ==
    /\ open = {"daemon", "client"} /\ ~rb.feeding /\ sb.ready
    /\ \E i \in Some(Len(sb.sendbuf) - sb.sendpos, Room - Len(down)) \ {0} :
       /\ SplitHeader \/ ~IsHead(sb.sendbuf) \/ i = 2
       /\ down' = down \o SubSeq(sb.sendbuf, sb.sendpos + 1, sb.sendpos + i)
       /\ sb' = IF sb.sendpos + i < Len(sb.sendbuf) THEN [sb EXCEPT !.sendpos = @ + i]
                ELSE IF sb.sendqueue # <<>>
                     THEN [sb EXCEPT !.sendbuf = Head(sb.sendqueue), !.sendqueue = Tail(@), !.sendpos = 0]
                     ELSE [sb EXCEPT !.sendbuf = <<>>, !.ready = FALSE]
    /\ UNCHANGED <<open, up, rb, req, con, told, heard, asked, seen>>

-----------------------------------------------------------------------------
\* The daemon reads: RecvBuf::io_cb fills the buffer, feed_out gives it to
\* ClientConnection::read_cb one message at a time.  Nothing else runs then.
RecvBuf_io_cb ==
    /\ "daemon" \in open /\ ~rb.feeding
    /\ \E i \in Some(Len(up), Recvbuf - Len(rb.buf)) \ {0} :
       /\ rb' = [buf |-> rb.buf \o SubSeq(up, 1, i), feeding |-> TRUE]
       /\ up' = From(up, i + 1)
    /\ UNCHANGED <<open, down, sb, req, con, told, heard, asked, seen>>

\* The length of the message at the front of the buffer, 0 if it is not all
\* there yet.
Consumed(buf) ==
    LET xlen == IF Len(buf) < 2 THEN 0 ELSE U16(buf, 1)
    IN IF Len(buf) < 2 \/ Len(buf) < xlen + 2 THEN 0 ELSE xlen + 2

\* mutant: one message a time, whatever else the buffer holds
feed_out_Once ==
    /\ rb.feeding
    /\ LET i == Consumed(rb.buf)
       IN /\ seen' = IF i = 0 THEN seen ELSE Append(seen, SubSeq(rb.buf, 3, i))
          /\ rb' = [buf |-> From(rb.buf, i + 1), feeding |-> FALSE]
          /\ open' = IF i = 0 /\ Len(rb.buf) = Recvbuf THEN open \ {"daemon"} ELSE open
    /\ UNCHANGED <<down, up, sb, req, con, told, heard, asked>>

feed_out ==
    /\ rb.feeding
    /\ LET i == Consumed(rb.buf)
       IN IF i = 0
          THEN /\ rb' = [rb EXCEPT !.feeding = FALSE]
               /\ open' = IF Len(rb.buf) = Recvbuf THEN open \ {"daemon"} ELSE open
               /\ UNCHANGED seen
          ELSE /\ seen' = Append(seen, SubSeq(rb.buf, 3, i))
               /\ rb' = [buf |-> From(rb.buf, i + 1), feeding |-> Len(rb.buf) > i]
               /\ UNCHANGED open
    /\ UNCHANGED <<down, up, sb, req, con, told, heard, asked>>

-----------------------------------------------------------------------------
\* The client writes: _EIB_SendRequest starts and returns when all of the
\* message is in the socket.  A signal may interrupt it.
_EIB_SendRequest(m) ==
    /\ "client" \in open /\ req = <<>>
    /\ req' = Head2(m) \o m
    /\ asked' = Append(asked, m)
    /\ UNCHANGED <<open, down, up, sb, rb, con, told, heard, seen>>

client_write ==
    /\ open = {"daemon", "client"} /\ req # <<>>
    /\ \E i \in Some(Len(req), Room - Len(up)) \ {0} :
       /\ up' = up \o SubSeq(req, 1, i)
       /\ req' = From(req, i + 1)
    /\ UNCHANGED <<open, down, sb, rb, con, told, heard, asked, seen>>

\* The length was cut short by a signal: ECONNRESET.
client_interrupted ==
    /\ "client" \in open /\ req # <<>> /\ Len(req) = Len(asked[Len(asked)]) + 1
    /\ open' = open \ {"client"}
    /\ UNCHANGED <<down, up, sb, rb, req, con, told, heard, asked, seen>>

-----------------------------------------------------------------------------
\* The client reads: one call of _EIB_CheckRequest.  The second byte of a
\* length of which one byte came is read to a place behind the array `head',
\* whose own second byte is whatever it was.
\* mutant: one byte too many is asked for
HeadRead_Long(c, bytes, g) ==
    [c EXCEPT !.readlen = @ + Len(bytes), !.buf = <<>>,
              !.size = IF Len(bytes) = 2 THEN U16(bytes, 1) + 1
                       ELSE IF c.readlen = 0 THEN 256 * bytes[1] + g
                       ELSE 256 * (c.size \div 256) + g]

HeadRead(c, bytes, g) ==
    [c EXCEPT !.readlen = @ + Len(bytes), !.buf = <<>>,
              !.size = IF Len(bytes) = 2 THEN U16(bytes, 1)
                       ELSE IF c.readlen = 0 THEN 256 * bytes[1] + g
                       ELSE 256 * (c.size \div 256) + g]

\* How many bytes a call asks for.
Wanted(c) == IF c.readlen < 2 THEN 2 - c.readlen ELSE c.size - (c.readlen - 2)

\* _EIB_GetRequest: the message is complete, the next call starts a new one.
Complete(c) == c.readlen >= 2 /\ c.readlen >= c.size + 2

_EIB_CheckRequest ==
    /\ "client" \in open /\ req = <<>>
    /\ \E i \in Some(Len(down), Wanted(con)) \ {0}, g \in Garbage :
       LET c == IF con.readlen < 2
                THEN HeadRead(con, SubSeq(down, 1, i), g)
                ELSE [con EXCEPT !.readlen = @ + i, !.buf = @ \o SubSeq(down, 1, i)]
       IN /\ SplitHeader \/ con.readlen >= 2 \/ i = 2
          /\ open' = IF c.size < 2 THEN open \ {"client"} ELSE open
          /\ con' = IF Complete(c) THEN [c EXCEPT !.readlen = 0] ELSE c
          /\ heard' = IF Complete(c) THEN Append(heard, c.buf) ELSE heard
          /\ down' = From(down, i + 1)
    /\ UNCHANGED <<up, sb, rb, req, told, asked, seen>>

-----------------------------------------------------------------------------
\* Either side hangs up: ClientConnection::stop, EIBClose or the end of the
\* client; or it finds, when it writes or has read all, that the other did.
hangup ==
    /\ \E side \in open : /\ side = "daemon" => ~rb.feeding
                          /\ open' = open \ {side}
    /\ UNCHANGED <<down, up, sb, rb, req, con, told, heard, asked, seen>>

NoticeHangup ==
    /\ \/ open = {"daemon"} /\ ~rb.feeding /\ (sb.ready \/ up = <<>>)
       \/ open = {"client"} /\ (req # <<>> \/ down = <<>>)
    /\ open' = {}
    /\ UNCHANGED <<down, up, sb, rb, req, con, told, heard, asked, seen>>

NextMessage(s) == Message(Len(s) + 1)

Next ==
    \/ Len(told) < Len(Sizes) /\ sendmessage(NextMessage(told))
    \/ Len(asked) < Len(Sizes) /\ _EIB_SendRequest(NextMessage(asked))
    \/ SendBuf_io_cb \/ RecvBuf_io_cb \/ feed_out
    \/ client_write \/ client_interrupted \/ _EIB_CheckRequest
    \/ hangup \/ NoticeHangup

Spec == Init /\ [][Next]_vars

Fairness ==
    /\ WF_vars(SendBuf_io_cb) /\ WF_vars(RecvBuf_io_cb) /\ WF_vars(feed_out)
    /\ WF_vars(client_write) /\ WF_vars(_EIB_CheckRequest) /\ WF_vars(NoticeHangup)

FairSpec == Spec /\ Fairness

-----------------------------------------------------------------------------
\* Every buffer has its type.
TypeOK ==
    /\ open \subseteq {"daemon", "client"} /\ down \in Seq(Byte) /\ up \in Seq(Byte) /\ req \in Seq(Byte)
    /\ sb \in SendBufs /\ rb \in RecvBufs /\ con \in Connections
    /\ Len(down) =< Room /\ Len(up) =< Room /\ Len(rb.buf) =< Recvbuf

Rest(side, s, t) == IF side \in open THEN SubSeq(s, Len(t) + 1, Len(s)) ELSE <<>>

\* Whatever parts the kernel cuts the stream into, SendBuf, the socket and
\* _EIB_CheckRequest are a first-in first-out channel of whole messages.
Down == INSTANCE FifoLink WITH Packet <- Messages, waiting <- Rest("client", told, heard), delivered <- heard
DownIsFifo == Down!Spec

\* ... and so are _EIB_SendRequest, the socket, RecvBuf and read_cb.
Up == INSTANCE FifoLink WITH Packet <- Messages, waiting <- Rest("daemon", asked, seen), delivered <- seen
UpIsFifo == Up!Spec

\* No message is left behind in a buffer: what sendmessage took reaches the
\* client, what _EIB_SendRequest took reaches read_cb, unless the connection
\* is given up.
Arrives == \A n \in DOMAIN Sizes : /\ Len(told) >= n ~> open = {} \/ Len(heard) >= n
                                   /\ Len(asked) >= n ~> open = {} \/ Len(seen) >= n
=============================================================================
