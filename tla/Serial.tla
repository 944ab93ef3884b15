------------------------------- MODULE Serial -------------------------------
(***************************************************************************)
(* A KNX interface on a serial line that speaks FT1.2: the whole stack of  *)
(* one link (LinkConnect, LowLevelAdapter, EMI driver, FT12wrap, LLserial) *)
(* and the device at the other end of the line.                            *)
(*                                                                         *)
(* On the line to the daemon a frame is two tokens, its head and its tail, *)
(* so that a read may end within it and either half may get lost.  Timers  *)
(* may fire at any time while they run.  The device is external: it takes  *)
(* a frame with the expected sequence bit, acknowledges it and confirms a  *)
(* packet; it repeats its own frame until that is acknowledged.            *)
(***************************************************************************)
EXTENDS Emi, FiniteSets

CONSTANTS
    Cases,         \* what is checked: EMI version, monitor and what may go wrong, see dev.may
    MaxPacket,     \* packets the router sends to the link
    MaxInd,        \* packets the device has for the daemon
    MaxFault       \* tokens lost or damaged on the line, untimely repetitions and resets

VARIABLES s, dev
serialVars == <<s, dev>>

Frame(flag, p) == << [t |-> "head", flag |-> flag, p |-> p], [t |-> "tail", flag |-> flag, p |-> p] >>
Ack == [t |-> "ack"]

\* sent: packets the router has given to the link; small: those among them that
\* were not too long.
SerialStack(ver, monitor) ==
    [ low |-> "ft12", k |-> [NewLink EXCEPT !.drv = "on"], want_up |-> TRUE, local |-> {}, fd |-> FALSE, running |-> FALSE, io |-> FALSE,
      rx |-> <<>>, tx |-> <<>>, aborted |-> FALSE, ft |-> FT12wrap, emi |-> EMI(ver, monitor),
      got |-> <<>>, sent |-> 0, small |-> {} ]

\* exp, flag: the sequence bits of the next frame to and from the device; pend:
\* its frame that is not acknowledged; todo: frames to be sent; ind: number of
\* packets sent, acked: of those acknowledged; got: packets accepted.  may: what
\* may happen in this behaviour,
\*   "loss", "early_loss"  the line loses something, also before the link is up
\*   "slow", "slow_start"  an answer takes longer than send-timeout=, or than the
\*                         timers for commands and for the reset
\*   "repeat", "give_up"   the device repeats a frame too early, or drops one
\*   "reset"               the device is reset
\*   "open", "eof"         the device cannot be opened, or read
\*   "stop", "stop_busy"   the router stops, also while the link is busy
\*   "other_links"         another link runs the router's state_trigger_cb.
Device(may) ==
    [ may |-> may, live |-> FALSE, exp |-> TRUE, flag |-> TRUE, pend |-> None, todo |-> <<>>,
      ind |-> 0, acked |-> 0, got |-> <<>>, faults |-> 0 ]

SerialInit ==
    \E c \in Cases : s = SerialStack(c.ver, c.monitor) /\ dev = Device(c.may)

-----------------------------------------------------------------------------
\* FT12wrap::process_read: what is at the front of akt, and how many tokens of
\* it are used up.  A frame whose tail got lost takes what comes next for it.
Drop(x, n) == [x EXCEPT !.ft.akt = SubSeq(@, n + 1, Len(@))]

\* mutant: a repeated frame is delivered again
GoodFrame_Again(x, flag, p) ==
    LET r == FDdriver_send_Data(x, Ack)
    IN EMI_recv_Data([r EXCEPT !.ft = [@ EXCEPT !.recvflag = flag, !.last = p]], p)

GoodFrame(x, flag, p) ==
    LET r == FDdriver_send_Data(x, Ack)
    IN IF flag = x.ft.recvflag
       THEN IF p # x.ft.last THEN [r EXCEPT !.ft.recvflag = ~@] ELSE r
       ELSE EMI_recv_Data([r EXCEPT !.ft = [@ EXCEPT !.recvflag = flag, !.last = p]], p)

\* FT12wrap::do__send_Next, which ends in EMI's send_Next
do__send_Next(x) == EMI_send_Next([x EXCEPT !.ft.out = None])

RECURSIVE read_loop(_, _)
read_loop(x, is_timeout) ==
    LET a == x.ft.akt
        h == Head(a)
    IN IF a = <<>> THEN x
       ELSE CASE h.t = "ack" /\ x.ft.send_wait ->
                     read_loop(do__send_Next([Drop(x, 1) EXCEPT !.ft.send_wait = FALSE]), is_timeout)
              [] h.t = "reset" ->
                     read_loop(Drop(EMI_recv_Data(FDdriver_send_Data(x, Ack), h), 1), is_timeout)
              [] h.t = "head" ->
                     IF Len(a) = 1 THEN x
                     ELSE IF a[2] = [h EXCEPT !.t = "tail"]
                     THEN read_loop(Drop(GoodFrame(x, h.flag, h.p), 2), is_timeout)
                     ELSE read_loop(Drop(x, 2), is_timeout)
              [] h.t = "bad_head" ->
                     IF is_timeout THEN read_loop(Drop(x, 1), is_timeout) ELSE Drop(x, 1)
              [] OTHER -> read_loop(Drop(x, 1), is_timeout)

process_read(x, is_timeout) ==
    LET Timed(r) == [r EXCEPT !.ft.timer = r.ft.akt # <<>>] IN Timed(read_loop(x, is_timeout))

-----------------------------------------------------------------------------
\* LinkConnect::start, EMI_Common::start, FT12wrap::start and LLserial::start
DriverStart(x, opens) ==
    LET r == FT12_start([Called(x) EXCEPT !.emi.state = "idle"])
    IN IF opens THEN EMI_started(FDdriver_start(r)) ELSE stopped(r)

\* What setState has called
Driver(x, opens) ==
    CASE x.k.drv = "starting" -> DriverStart(x, opens)
      [] x.k.drv = "stopping" -> EMI_stop(Called(x))
      [] OTHER                -> x

Opens == IF "open" \in dev.may THEN BOOLEAN ELSE {TRUE}

-----------------------------------------------------------------------------
\* The event loop.  Every callback ends with the calls it led setState to make.
Does(x) == \E opens \in Opens : s' = Driver(x, opens)
Alive == Running(s)

Router_start ==
    /\ Alive /\ s.want_up /\ s.k.state = "down"
    /\ Does(LinkState(s, "going_up"))
    /\ UNCHANGED dev

\* Router::stop; without "stop_busy" only while no packet is on its way
Router_stop ==
    /\ Alive /\ s.want_up
    /\ "stop_busy" \in dev.may \/ ("stop" \in dev.may /\ s.k.state = "up" /\ s.k.send_more)
    /\ Does(LinkState([s EXCEPT !.want_up = FALSE], "going_down"))
    /\ UNCHANGED dev

\* Router::state_trigger_cb: a link that has failed is stopped; if all links are
\* to go down, each is told again.
state_trigger_cb ==
    /\ Alive /\ (s.k.chg \/ "other_links" \in dev.may)
    /\ LET Again(y) == IF ~s.want_up /\ y.k.state \notin {"down", "error", "up"} THEN LinkState(y, "going_down") ELSE y
           Failed(x) == IF x.k.state \in {"up_error", "going_down_error"} THEN EMI_stop(x) ELSE x
       IN Does(Again(Failed([s EXCEPT !.k.chg = FALSE])))
    /\ UNCHANGED dev

\* LinkConnect::retry_timer_cb
retry_timer_cb ==
    /\ Alive /\ s.k.timer # "off"
    /\ Does([s EXCEPT !.k = RetryTimer(TheLink, @, "later")])
    /\ UNCHANGED dev

\* LinkConnect::send_L_Data
Router_send ==
    /\ Alive /\ s.k.state = "up" /\ s.k.send_more /\ s.sent < MaxPacket
    /\ \E big \in BOOLEAN :
          LET n == s.sent + 1
              x == [s EXCEPT !.sent = n, !.small = IF big THEN @ ELSE @ \cup {n}]
          IN s' = EMI_send_L_Data(link_send_L_Data(x), [t |-> "data", n |-> n], big)
    /\ UNCHANGED dev

ft12_trigger_cb ==
    /\ Alive /\ s.ft.trigger
    /\ s' = FT12_trigger_cb(s) /\ UNCHANGED dev

ft12_timer_cb ==
    /\ Alive /\ s.ft.timer
    /\ Does(process_read(s, TRUE)) /\ UNCHANGED dev

\* FDdriver::read_cb and FT12wrap::recv_Data
FDdriver_read_cb ==
    /\ Alive /\ s.io
    /\ \E n \in 1..Len(s.rx) :
          Does(process_read([s EXCEPT !.ft.akt = @ \o SubSeq(s.rx, 1, n), !.rx = SubSeq(@, n + 1, Len(@))], FALSE))
    /\ UNCHANGED dev

\* the device is gone
FDdriver_error ==
    /\ Alive /\ s.io /\ "eof" \in dev.may /\ dev.faults < MaxFault
    /\ s.k.state = "up" \/ "early_loss" \in dev.may
    /\ s' = FDdriver_error_cb(s) /\ dev' = [dev EXCEPT !.faults = @ + 1]

\* Without "slow" a timer that waits for the device fires only when the device
\* has nothing left to answer.
Idle == ~s.ft.trigger /\ s.rx = <<>> /\ s.tx = <<>> /\ dev.pend = None /\ dev.todo = <<>>

emi_timeout_cb ==
    /\ Alive /\ s.emi.timer /\ (Idle \/ "slow" \in dev.may)
    /\ Does(EMI_timeout_cb(s)) /\ UNCHANGED dev
emi_reset_timer_cb ==
    /\ Alive /\ s.emi.rtimer /\ (Idle \/ "slow_start" \in dev.may)
    /\ Does(EMI_reset_timer_cb(s)) /\ UNCHANGED dev
emi_local_timeout_cb ==
    /\ Alive /\ "emi" \in s.local /\ (Idle \/ "slow_start" \in dev.may)
    /\ Does(EMI_local_timeout_cb(s)) /\ UNCHANGED dev

-----------------------------------------------------------------------------
\* The device
ToDaemon(q) == s' = [s EXCEPT !.rx = IF s.fd THEN @ \o q ELSE @, !.tx = Tail(@)]

DevTake ==
    /\ s.tx # <<>>
    /\ LET x == Head(s.tx)
       IN \/ /\ x.t = "reset"
             /\ ToDaemon(<<Ack>>)
             /\ dev' = [dev EXCEPT !.live = TRUE, !.exp = TRUE, !.flag = TRUE, !.pend = None, !.todo = <<>>]
          \/ /\ x.t = "frame" /\ x.flag = dev.exp
             /\ ToDaemon(<<Ack>>)
             /\ dev' = IF x.p.t = "cmd" THEN [dev EXCEPT !.exp = ~@]
                       ELSE [dev EXCEPT !.exp = ~@, !.got = Append(@, x.p.n),
                                        !.todo = Append(@, [t |-> "con", n |-> x.p.n])]
          \/ /\ x.t = "frame" /\ x.flag # dev.exp
             /\ ToDaemon(<<Ack>>) /\ UNCHANGED dev
          \/ /\ x.t = "ack"
             /\ ToDaemon(<<>>)
             /\ dev' = IF dev.pend = None THEN dev
                       ELSE [dev EXCEPT !.pend = None, !.flag = ~@,
                                        !.acked = IF dev.pend.t = "con" THEN @ ELSE dev.pend.n]

\* nothing of the frame is left on the line
Lost == ~(\E i \in DOMAIN s.rx : s.rx[i].t \in {"head", "tail"}) /\ ~(\E i \in DOMAIN s.tx : s.tx[i] = Ack)
        /\ ~(\E i \in DOMAIN s.ft.akt : s.ft.akt[i].t = "tail")

DevSend ==
    /\ dev.live /\ s.fd
    /\ \/ /\ dev.pend = None /\ dev.todo # <<>>
          /\ dev' = [dev EXCEPT !.pend = Head(dev.todo), !.todo = Tail(@)]
       \/ /\ dev.pend = None /\ dev.ind < MaxInd
          /\ dev' = [dev EXCEPT !.ind = @ + 1,
                                !.pend = [t |-> IF s.emi.monitor THEN "busmon" ELSE "ind", n |-> dev.ind + 1]]
       \/ /\ dev.pend # None /\ Lost
          /\ UNCHANGED dev
       \/ /\ dev.pend # None /\ ~Lost /\ "repeat" \in dev.may /\ dev.faults < MaxFault
          /\ dev' = [dev EXCEPT !.faults = @ + 1]
    /\ s' = [s EXCEPT !.rx = @ \o Frame(dev.flag, dev'.pend)]

\* The device drops a frame that is never acknowledged.
DevGivesUp ==
    /\ "give_up" \in dev.may /\ dev.pend # None /\ Lost
    /\ dev' = [dev EXCEPT !.pend = None, !.flag = ~@]
    /\ UNCHANGED s

DevReset ==
    /\ "reset" \in dev.may /\ dev.faults < MaxFault /\ s.fd /\ dev.live
    /\ s' = [s EXCEPT !.rx = Append(@, [t |-> "reset"])]
    /\ dev' = [Device(dev.may) EXCEPT !.faults = dev.faults + 1, !.ind = dev.ind, !.acked = dev.acked, !.got = dev.got]

\* A token is lost, or a header damaged.
Without(q, i) == SubSeq(q, 1, i - 1) \o SubSeq(q, i + 1, Len(q))
Line ==
    /\ dev.faults < MaxFault
    /\ "early_loss" \in dev.may \/ ("loss" \in dev.may /\ s.k.state = "up")
    /\ \/ \E i \in DOMAIN s.rx : s' = [s EXCEPT !.rx = Without(@, i)]
       \/ \E i \in DOMAIN s.rx : s.rx[i].t = "head" /\ s' = [s EXCEPT !.rx[i] = [t |-> "bad_head"]]
       \/ \E i \in DOMAIN s.tx : s' = [s EXCEPT !.tx = Without(@, i)]
    /\ dev' = [dev EXCEPT !.faults = @ + 1]

Daemon == \/ Router_start \/ state_trigger_cb \/ retry_timer_cb \/ ft12_trigger_cb \/ ft12_timer_cb
          \/ FDdriver_read_cb \/ FDdriver_error \/ emi_timeout_cb \/ emi_reset_timer_cb \/ emi_local_timeout_cb

SerialNext ==
    \/ Daemon \/ Router_stop \/ Router_send
    \/ DevTake \/ DevSend \/ DevGivesUp \/ DevReset \/ Line

SerialSpec == SerialInit /\ [][SerialNext]_serialVars

-----------------------------------------------------------------------------
\* Whenever the link asks for the next packet, the driver is ready for it: a
\* packet that EMI_Common::send_L_Data finds it busy with another one, or
\* FT12wrap::do_send_Local with another frame, is dropped and never reported.
CanTake == s.k.state = "up" /\ s.k.send_more => s.emi.state = "idle" /\ s.ft.out = None

\* When the link is ready for the next packet, all of the earlier ones have
\* reached the device, in their order, except those that were too long.
SentArrives ==
    /\ s.k.state = "up" /\ s.k.send_more => s.small = {dev.got[i] : i \in DOMAIN dev.got}
    /\ \A i, j \in DOMAIN dev.got : i < j => dev.got[i] <= dev.got[j]

\* As long as the device neither gives up a frame, nor repeats one it need not
\* repeat, nor is reset, its packets are delivered once and in order, and one
\* that was acknowledged has been delivered.
RecvOnce == {"repeat", "give_up", "reset"} \cap dev.may = {} =>
    /\ s.got = [i \in 1..Len(s.got) |-> i]
    /\ dev.acked <= Len(s.got)

\* No assertion of the stack fails, no timer calls a callback that was not set,
\* and no callback reaches the link in a state that setState aborts in, unless
\* the device fails while it is started, is reset, or the link is told to stop
\* while it starts or, with EMI2, while it is being stopped.
NoAbort ==
    /\ {"early_loss", "slow_start", "reset", "stop_busy"} \cap dev.may = {}
    /\ s.emi.ver = "EMI2" => "other_links" \notin dev.may
    => Running(s)

\* A link that is starting, failing or stopping does not stay so: a callback is
\* pending or a timer runs that will take it on, a dropped command included.
NeverStuck ==
    Running(s) /\ s.k.state \in {"going_up", "going_down", "up_error", "going_down_error"}
    => s.k.chg \/ s.k.timer # "off" \/ s.local # {} \/ s.emi.timer \/ s.emi.rtimer
=============================================================================
