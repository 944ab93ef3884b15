------------------------------- MODULE Tpuart -------------------------------
(***************************************************************************)
(* A TPUART or NCN5120 on a serial line (backend/tpuart.cpp, ncn5120.cpp): *)
(* the link, TPUARTwrap, LLserial and the chip.                            *)
(*                                                                         *)
(* A byte with a meaning of its own is a token.  A frame is three: its     *)
(* control byte, the rest of its header and its end; header and frame are  *)
(* complete after HeaderLen and FrameLen tokens, whatever these are.  The  *)
(* loop in recv_Data handles one token after the other and nothing else    *)
(* happens in between, so that a read of one token covers longer ones.     *)
(*                                                                         *)
(* FDdriver never calls send_Next: next_free stays TRUE, and do_send_Next  *)
(* is not called.  T_start, T_in_setaddr and T_is_online are left at once. *)
(***************************************************************************)
EXTENDS LowLevel, FiniteSets

CONSTANTS
    TpCases,       \* ncn, addr (my_addr is set), monitor, stray, may, inds (frames of other devices)
    TpPackets,     \* packets the router sends to the link
    TpFaults       \* see dev.may

VARIABLES s, dev
tpVars == <<s, dev>>

HeaderLen == 2
FrameLen == 3
T == [ new |-> 0, error |-> 1, start |-> 11, in_reset |-> 12, in_setaddr |-> 13, in_getstate |-> 14,
       is_online |-> 19, wait |-> 20, wait_more |-> 21, wait_keepalive |-> 22, busmonitor |-> 30 ]

Token(t) == [t |-> t]
TpFrame(f) == << [t |-> "start", f |-> f], [t |-> "mid", f |-> f], [t |-> "end", f |-> f] >>

\* out: the packet being sent, 0 if none; old: in has held a byte before, which
\* is still there after clear().
TPUARTwrap(ncn, addr, monitor) ==
    [ ncn |-> ncn, my_addr |-> addr, monitor |-> monitor, state |-> "new", retry |-> 0, out |-> 0, in |-> <<>>,
      old |-> FALSE, send_retry |-> 0, acked |-> FALSE, recvecho |-> FALSE, skip_char |-> FALSE,
      timer |-> FALSE, sendtimer |-> FALSE ]

\* sent: packets the router has given to the link; got: what was delivered to it
TpStack(c) ==
    [ k |-> [NewLink EXCEPT !.drv = "on"], want_up |-> TRUE, local |-> {}, fd |-> FALSE, running |-> FALSE,
      io |-> FALSE, rx |-> <<>>, tx |-> <<>>, aborted |-> FALSE, tp |-> TPUARTwrap(c.ncn, c.addr, c.monitor),
      got |-> <<>>, sent |-> 0 ]

\* got: packets put on the bus; acks: frames acknowledged; ind: number of frames
\* of other devices.  stray: what a byte from within a frame is taken for.  may:
\* what may happen,
\*   "loss", "deaf"    a confirmation, or the answer to a command gets lost
\*   "torn"            the end of a frame gets lost
\*   "slow"            an answer takes longer than the timer that waits for it
\*   "nack"            a packet is not acknowledged on the bus
\*   "dead"            the chip does not answer any more
\*   "busack"          the bus monitor shows the acknowledgement of a frame
\*   "open", "eof"     the device cannot be opened, or read
\*   "stop"            the router stops
TpDevice(c) ==
    [ may |-> c.may, stray |-> c.stray, inds |-> c.inds, dead |-> FALSE, mon |-> FALSE, got |-> <<>>, acks |-> <<>>,
      ind |-> 0, faults |-> 0 ]

TpInit == \E c \in TpCases : s = TpStack(c) /\ dev = TpDevice(c)

-----------------------------------------------------------------------------
send_Data(x, t) == FDdriver_send_Data(x, Token(t))

\* TPUARTwrap::do__send_Next
do__send_Next(x) ==
    adapter_send_Next([x EXCEPT !.tp = [@ EXCEPT !.out = 0, !.send_retry = 0, !.sendtimer = FALSE]])

\* TPUARTwrap::send_again
send_again(x) ==
    IF x.tp.out = 0 \/ T[x.tp.state] <= T.is_online \/ T[x.tp.state] >= T.busmonitor THEN x
    ELSE FDdriver_send_Data([x EXCEPT !.tp.sendtimer = TRUE], [t |-> "data", n |-> x.tp.out])

\* TPUARTwrap::send_L_Data
send_L_Data(x, n) == IF x.tp.out # 0 THEN Abort(x) ELSE send_again([x EXCEPT !.tp.out = n])

\* TPUARTwrap::setstate: is_online starts the link, and a packet that is still
\* there is not sent again, as state is still the old one.
goes_online(x, new) == T[x.tp.state] < T.is_online /\ T[new] >= T.is_online
Timed(x, st) == [x EXCEPT !.tp = [@ EXCEPT !.state = st, !.timer = TRUE]]

TPUART_setstate(x, new) ==
    LET up == goes_online(x, new)
        st == IF up /\ x.tp.monitor THEN "busmonitor" ELSE new
        Entered(y) ==
         CASE st \in {"start", "in_reset"} ->
                Timed(send_Data([y EXCEPT !.tp.retry = IF x.tp.state = "in_reset" THEN @ + 1 ELSE 1], "reset"), "in_reset")
         [] st = "in_setaddr"     -> Timed(send_Data(IF x.tp.my_addr THEN send_Data(y, "addr") ELSE y, "getstate"), "in_getstate")
         [] st = "in_getstate"    -> Timed(send_Data(y, "getstate"), "in_getstate")
         [] st = "busmonitor"     -> [send_Data(y, "busmon") EXCEPT !.tp.state = st]
         [] st = "is_online"      -> [Timed(do__send_Next(y), "wait") EXCEPT !.tp.acked = FALSE, !.tp.recvecho = FALSE]
         [] st = "wait"           -> [Timed(y, st) EXCEPT !.tp.acked = FALSE, !.tp.recvecho = FALSE]
         [] st = "wait_keepalive" -> Timed(send_Data(y, "getstate"), st)
         [] st \in {"wait_more", "error"} -> Timed(y, st)
         [] OTHER                 -> [y EXCEPT !.tp.state = st]
    IN Entered(IF up THEN send_again(started(x)) ELSE x)

\* NCN5120wrap::setstate
setstate(x, new) ==
    LET addr == x.tp.ncn /\ new = "in_setaddr" /\ x.tp.my_addr
    IN TPUART_setstate(IF addr THEN send_Data(x, "addr") ELSE x, IF addr THEN "in_getstate" ELSE new)

TP_started(x) == setstate(setstate(x, "new"), "start")
TP_stopped(x) == stopped(setstate(x, "new"))
TP_stop(x) == TP_stopped(FDdriver_stop(x))

\* TPUARTwrap::RecvLPDU and NCN5120wrap::RecvLPDU
RecvLPDU(x, data) ==
    LET y == IF x.tp.ncn THEN [x EXCEPT !.tp.skip_char = TRUE] ELSE x
    IN IF x.tp.state = "busmonitor" THEN [y EXCEPT !.got = Append(@, data)]
       ELSE IF T[x.tp.state] > T.start /\ data = TpFrame(data[1].f) THEN [y EXCEPT !.got = Append(@, data)]
       ELSE y

\* TPUARTwrap::in_check.  The acknowledgement carries here the frame it is for.
AckOrEcho(x) ==
    LET in == x.tp.in
    IN IF x.tp.acked \/ x.tp.recvecho \/ x.tp.my_addr \/ T[x.tp.state] < T.is_online \/ T[x.tp.state] >= T.busmonitor
       THEN x
       ELSE IF x.tp.out # 0 /\ SubSeq(in, 1, HeaderLen) = SubSeq(TpFrame([own |-> TRUE, n |-> x.tp.out]), 1, HeaderLen)
       THEN [x EXCEPT !.tp.recvecho = TRUE]
       ELSE FDdriver_send_Data([x EXCEPT !.tp.acked = TRUE], [t |-> "ack", f |-> in[1].f])

in_check(x) ==
    LET Complete(y) ==
            IF Len(x.tp.in) < FrameLen THEN y
            ELSE [(IF y.tp.recvecho THEN y ELSE RecvLPDU(y, y.tp.in)) EXCEPT !.tp.in = <<>>]
        Done(z) ==
            IF T[z.tp.state] > T.is_online /\ T[z.tp.state] < T.busmonitor
            THEN setstate(z, IF z.tp.in = <<>> THEN "wait" ELSE "wait_more")
            ELSE z
    IN Done(Complete(IF Len(x.tp.in) >= HeaderLen THEN AckOrEcho(x) ELSE x))

\* The switch over the state when a state indication arrives
state_indication(x) ==
    CASE x.tp.state = "wait_keepalive" -> setstate(x, "wait")
      [] x.tp.state = "in_getstate"    -> setstate(x, "is_online")
      [] OTHER                         -> x

\* L_DataConfirm, positive or negative
confirmed(x) == IF x.tp.out = 0 \/ T[x.tp.state] < T.is_online THEN x ELSE do__send_Next(x)

\* A frame of one byte: it is RecvLPDU's argument that is wrong, in being empty.
\* It reads what in held before, and without that nothing that is mapped.
single_byte(x) == IF ~x.tp.old THEN Abort(x) ELSE RecvLPDU(x, <<Token("old")>>)

\* TPUARTwrap::recv_Data for one token
recv_Data(x, c) ==
    LET t == IF c.t \in {"mid", "end"} THEN dev.stray ELSE c.t
    IN IF T[x.tp.state] < T.start THEN x
       ELSE IF x.tp.in # <<>> THEN in_check([x EXCEPT !.tp.in = Append(@, c)])
       ELSE IF x.tp.skip_char THEN [x EXCEPT !.tp.skip_char = FALSE]
       ELSE CASE t = "reset_ack"       -> IF x.tp.state = "in_reset" THEN setstate(x, "in_setaddr") ELSE x
              [] t \in {"con", "nack"} -> confirmed(x)
              [] t = "fend"            -> x
              [] t = "state"           -> state_indication(x)
              [] t = "busack"          -> single_byte(x)
              [] t = "start"           -> [x EXCEPT !.tp.in = <<c>>, !.tp.old = TRUE]
              [] OTHER                 -> [x EXCEPT !.tp.acked = FALSE]

\* TPUARTwrap::sendtimer_cb
TP_sendtimer_cb(x) ==
    LET y == [x EXCEPT !.tp.sendtimer = FALSE, !.tp.send_retry = @ + 1]
    IN IF x.tp.send_retry > 3 THEN setstate(y, "error") ELSE send_again(y)

\* mutant: after the third reset nothing more is done
TP_timer_cb_GivesUp(x) ==
    LET y == [x EXCEPT !.tp.timer = FALSE]
        r == x.tp.retry
    IN CASE x.tp.state = "error"          -> TP_stop(y)
         [] x.tp.state = "in_reset"       -> IF r < 3 THEN setstate(y, "in_reset") ELSE y
         [] x.tp.state = "in_getstate"    -> setstate(y, "in_getstate")
         [] x.tp.state = "wait"           -> setstate(y, "wait_keepalive")
         [] x.tp.state = "wait_more"      -> setstate([y EXCEPT !.tp.in = <<>>], "wait")
         [] x.tp.state = "wait_keepalive" -> setstate(y, IF r < 3 THEN "in_reset" ELSE "wait_keepalive")
         [] OTHER                         -> y

\* TPUARTwrap::timer_cb
TP_timer_cb(x) ==
    LET y == [x EXCEPT !.tp.timer = FALSE]
        r == x.tp.retry
    IN CASE x.tp.state = "error"          -> TP_stop(y)
         [] x.tp.state = "in_reset"       -> setstate(y, IF r < 3 THEN "in_reset" ELSE "error")
         [] x.tp.state = "in_getstate"    -> IF r > 5 THEN setstate(errored(y), "new") ELSE setstate(y, "in_getstate")
         [] x.tp.state = "wait"           -> setstate(y, "wait_keepalive")
         [] x.tp.state = "wait_more"      -> setstate([y EXCEPT !.tp.in = <<>>], "wait")
         [] x.tp.state = "wait_keepalive" -> setstate(y, IF r < 3 THEN "in_reset" ELSE "wait_keepalive")
         [] OTHER                         -> y

-----------------------------------------------------------------------------
\* LLserial::start with TPUARTwrap::started
DriverStart(x, opens) == IF opens THEN TP_started(FDdriver_start(Called(x))) ELSE TP_stopped(Called(x))

Driver(x, opens) ==
    CASE x.k.drv = "starting" -> DriverStart(x, opens)
      [] x.k.drv = "stopping" -> TP_stop(Called(x))
      [] OTHER                -> x

Opens == IF "open" \in dev.may THEN BOOLEAN ELSE {TRUE}
Does(x) == \E opens \in Opens : s' = Driver(x, opens)
Alive == Running(s)

Router_start ==
    /\ Alive /\ s.want_up /\ s.k.state = "down"
    /\ Does(LinkState(s, "going_up"))
    /\ UNCHANGED dev

Router_stop ==
    /\ Alive /\ s.want_up /\ "stop" \in dev.may
    /\ Does(LinkState([s EXCEPT !.want_up = FALSE], "going_down"))
    /\ UNCHANGED dev

\* Router::state_trigger_cb, see module Serial
state_trigger_cb ==
    /\ Alive /\ s.k.chg
    /\ LET Again(y) == IF ~s.want_up /\ y.k.state \notin {"down", "error", "up"} THEN LinkState(y, "going_down") ELSE y
           Failed(x) == IF x.k.state \in {"up_error", "going_down_error"} THEN TP_stop(x) ELSE x
       IN Does(Again(Failed([s EXCEPT !.k.chg = FALSE])))
    /\ UNCHANGED dev

\* LinkConnect::retry_timer_cb
retry_timer_cb ==
    /\ Alive /\ s.k.timer # "off"
    /\ Does([s EXCEPT !.k = RetryTimer(TheLink, @, "later")])
    /\ UNCHANGED dev

\* LinkConnect::send_L_Data
Router_send ==
    /\ Alive /\ s.k.state = "up" /\ s.k.send_more /\ s.sent < TpPackets
    /\ s' = send_L_Data(link_send_L_Data([s EXCEPT !.sent = @ + 1]), s.sent + 1)
    /\ UNCHANGED dev

\* FDdriver::read_cb
FDdriver_read_cb ==
    /\ Alive /\ s.io /\ s.rx # <<>>
    /\ Does(recv_Data([s EXCEPT !.rx = Tail(@)], Head(s.rx)))
    /\ UNCHANGED dev

Fault(f) == f \in dev.may /\ dev.faults < TpFaults /\ dev' = [dev EXCEPT !.faults = @ + 1]

FDdriver_error ==
    /\ Alive /\ s.io /\ Fault("eof")
    /\ Does(FDdriver_error_cb(s))

\* A timer that waits for the chip fires when that has nothing left to answer, or
\* if it is slow; the others at any time.
Idle == s.rx = <<>> /\ s.tx = <<>>
Waits == s.tp.state \in {"in_reset", "in_getstate", "wait_more", "wait_keepalive"}

timer_cb ==
    /\ Alive /\ s.tp.timer
    /\ IF Idle \/ ~Waits THEN UNCHANGED dev ELSE Fault("slow")
    /\ Does(TP_timer_cb(s))
sendtimer_cb ==
    /\ Alive /\ s.tp.sendtimer
    /\ IF Idle THEN UNCHANGED dev ELSE Fault("slow")
    /\ Does(TP_sendtimer_cb(s))

-----------------------------------------------------------------------------
\* The chip
Marked(q) == IF s.tp.ncn THEN Append(q, Token("fend")) ELSE q
ToDaemon(q) == s' = [s EXCEPT !.rx = IF s.fd THEN @ \o q ELSE @, !.tx = Tail(@)]

\* It answers commands, repeats a packet it sends and confirms it.
DevTake ==
    /\ s.tx # <<>> /\ ~dev.dead
    /\ LET x == Head(s.tx)
       IN \/ /\ x.t \in {"reset", "getstate"}
             /\ ToDaemon(<<Token(IF x.t = "reset" THEN "reset_ack" ELSE "state")>>)
             /\ dev' = [dev EXCEPT !.mon = IF x.t = "reset" THEN FALSE ELSE @]
          \/ /\ x.t \in {"reset", "getstate"} /\ Fault("deaf") /\ ToDaemon(<<>>)
          \/ /\ x.t = "addr" /\ ToDaemon(<<>>) /\ UNCHANGED dev
          \/ /\ x.t = "busmon" /\ ToDaemon(<<>>) /\ dev' = [dev EXCEPT !.mon = TRUE]
          \/ /\ x.t = "ack" /\ ToDaemon(<<>>) /\ dev' = [dev EXCEPT !.acks = Append(@, x.f)]
          \/ /\ x.t = "data" /\ ToDaemon(Append(Marked(TpFrame([own |-> TRUE, n |-> x.n])), Token("con")))
             /\ dev' = [dev EXCEPT !.got = Append(@, x.n)]
          \/ /\ x.t = "data" /\ ToDaemon(Marked(TpFrame([own |-> TRUE, n |-> x.n])))
             /\ Fault("loss")
          \/ /\ x.t = "data" /\ ToDaemon(Append(Marked(TpFrame([own |-> TRUE, n |-> x.n])), Token("nack")))
             /\ Fault("nack")

\* A frame of another device; in monitor mode also its acknowledgement.
DevInd ==
    /\ s.fd /\ ~dev.dead /\ dev.ind < dev.inds
    /\ s' = [s EXCEPT !.rx = @ \o Marked(TpFrame([own |-> FALSE, n |-> dev.ind + 1]))]
    /\ dev' = [dev EXCEPT !.ind = @ + 1]
DevBusAck ==
    /\ s.fd /\ dev.mon /\ ~dev.dead /\ Fault("busack")
    /\ s' = [s EXCEPT !.rx = Append(@, Token("busack"))]

Line ==
    /\ Fault("torn")
    /\ \E i \in DOMAIN s.rx :
          s.rx[i].t = "end" /\ s' = [s EXCEPT !.rx = SubSeq(@, 1, i - 1) \o SubSeq(@, i + 1, Len(@))]

DevDies ==
    /\ "dead" \in dev.may /\ ~dev.dead
    /\ dev' = [dev EXCEPT !.dead = TRUE]
    /\ s' = [s EXCEPT !.tx = <<>>]
\* what is sent to it then is lost
DevSilent == dev.dead /\ s.tx # <<>> /\ s' = [s EXCEPT !.tx = <<>>] /\ UNCHANGED dev

TpDaemon == \/ Router_start \/ state_trigger_cb \/ retry_timer_cb \/ FDdriver_read_cb \/ FDdriver_error
            \/ timer_cb \/ sendtimer_cb

TpNext == \/ TpDaemon \/ Router_stop \/ Router_send
          \/ DevTake \/ DevInd \/ DevBusAck \/ Line \/ DevDies \/ DevSilent

TpSpec == TpInit /\ [][TpNext]_tpVars
-----------------------------------------------------------------------------
May(fs) == fs \cap dev.may # {}
Delivered == {s.got[i][1].f : i \in DOMAIN s.got}

\* Whenever the link asks for a packet, none is left in out, where send_L_Data
\* asserts that there is none.
CanTake == s.k.state = "up" /\ s.k.send_more => s.tp.out = 0

\* When the link is ready for the next packet, all of the earlier ones have been
\* on the bus, in their order and, as long as no confirmation is lost, once.
\* Excepted are a packet that was there during a reset, which do__send_Next
\* drops; the confirmation of the packet before, when that was repeated because
\* of a late confirmation; bytes of a torn frame that look like one; and a packet
\* that the bus has refused.
SentArrives ==
    ~May({"deaf", "slow", "torn", "nack", "dead"}) /\ ~s.tp.monitor =>
    /\ s.k.state = "up" /\ s.k.send_more => {dev.got[i] : i \in DOMAIN dev.got} = 1..s.sent
    /\ \A i, j \in DOMAIN dev.got : i < j => dev.got[i] <= dev.got[j]

\* A packet of the daemon's own that the chip repeats is neither delivered nor
\* acknowledged as if another device had sent it.
EchoIgnored ==
    ~May({"slow", "torn"}) /\ ~s.tp.my_addr /\ ~s.tp.monitor =>
    \A f \in Delivered \cup {dev.acks[i] : i \in DOMAIN dev.acks} : ~f.own

\* Every frame of another device that was read completely has been delivered,
\* once and in order, and acknowledged at most once.
RecvOnce ==
    /\ ~May({"torn", "busack", "slow"}) =>
         LET q == SelectSeq(s.got, LAMBDA g : ~g[1].f.own)
         IN /\ \A i \in DOMAIN q : q[i][1].f.n = i
            /\ s.k.state = "up" /\ s.rx = <<>> /\ s.tp.in = <<>> /\ s.tp.state # "error" => Len(q) = dev.ind
    /\ \A i, j \in DOMAIN dev.acks : dev.acks[i] = dev.acks[j] /\ ~dev.acks[i].own => i = j

\* No assertion fails, and no callback reaches the link in a state that setState
\* aborts in.  Excepted is the end of a reset that the keep-alive has led to: it
\* calls started(), and the link may have failed in the meantime.
NoAbort == ~May({"busack", "deaf", "slow"}) => Running(s)

\* A link that is starting, failing or stopping, or has a packet to send, waits
\* for a timer or a callback.
NeverStuck ==
    /\ Running(s) /\ s.k.state \in {"going_up", "going_down", "up_error", "going_down_error"}
       => s.k.chg \/ s.k.timer # "off" \/ s.tp.timer
    /\ Running(s) /\ s.k.state = "up" /\ s.io /\ s.tp.state # "busmonitor" => s.tp.timer
    /\ Running(s) /\ s.tp.state \in {"wait", "wait_more", "wait_keepalive"} /\ s.tp.out # 0 => s.tp.sendtimer
=============================================================================
