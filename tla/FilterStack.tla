---------------------------- MODULE FilterStack ----------------------------
(***************************************************************************)
(* The filter stack of one link: LinkConnect, the queue filter             *)
(* (backend/fqueue.cpp), the pace filter (backend/fpace.cpp) and a driver. *)
(*                                                                         *)
(* Calls between the elements are synchronous, so a chain of calls is a    *)
(* composition of operators on the record `st', which holds the members of *)
(* the three objects.  A packet is its number.                             *)
(***************************************************************************)
EXTENDS Integers, Sequences

CONSTANTS
    Queue,        \* there is a queue filter
    Pace,         \* there is a pace filter below it
    EarlyNext,    \* the driver calls send_Next() after it came up (TPUART)
    MaxPackets,   \* bound: packets sent
    MaxIncoming   \* bound: packets received, each of which may prolong a pause

VARIABLES st, sent, got, received

vars == <<st, sent, got, received>>

QSTATE == {"Q_DOWN", "Q_IDLE", "Q_BUSY", "Q_SENDING"}
PSTATE == {"P_DOWN", "P_IDLE", "P_BUSY"}
Packet == 1 .. MaxPackets

Stack == [ up        : BOOLEAN,      \* the link is L_up
           send_more : BOOLEAN,      \* LinkConnect::send_more
           q         : QSTATE,
           buf       : Seq(Packet),
           trigger   : BOOLEAN,      \* the queue's async watcher is pending
           p         : PSTATE,
           want_next : BOOLEAN,
           timer     : BOOLEAN,
           nr_in     : Nat,
           drv       : {"off", "starting", "on"},
           out       : Packet \cup {0},  \* the packet the driver works on
           overlap   : BOOLEAN,      \* history: it was handed another one then
           rushed    : BOOLEAN,      \* history: ... or during a pause
           dropped   : BOOLEAN ]     \* history: the queue dropped a packet

Init ==
    /\ st = [ up |-> FALSE, send_more |-> TRUE, q |-> "Q_DOWN", buf |-> <<>>, trigger |-> FALSE,
              p |-> "P_DOWN", want_next |-> FALSE, timer |-> FALSE, nr_in |-> 0,
              drv |-> "off", out |-> 0, overlap |-> FALSE, rushed |-> FALSE, dropped |-> FALSE ]
    /\ sent = 0 /\ got = <<>> /\ received = 0

-----------------------------------------------------------------------------
\* Towards the router: send_Next, started, stopped.
Link_send_Next(s) == [s EXCEPT !.send_more = TRUE]

Queue_send_Next(s) ==
    CASE s.q = "Q_BUSY"    -> [s EXCEPT !.q = "Q_IDLE", !.trigger = TRUE]
      [] s.q = "Q_SENDING" -> [s EXCEPT !.q = "Q_IDLE"]
      [] OTHER             -> s

AbovePace_send_Next(s) == IF Queue THEN Queue_send_Next(s) ELSE Link_send_Next(s)

Pace_send_Next(s) ==
    CASE s.p = "P_DOWN" -> [s EXCEPT !.want_next = TRUE]
      [] s.p = "P_IDLE" -> [s EXCEPT !.p = "P_BUSY", !.timer = TRUE]
      [] OTHER          -> s

send_Next(s) == IF Pace THEN Pace_send_Next(s) ELSE AbovePace_send_Next(s)

Pace_started(s) ==
    IF s.p = "P_DOWN"
    THEN [(IF s.want_next THEN AbovePace_send_Next(s) ELSE s) EXCEPT !.p = "P_IDLE"]
    ELSE s

Queue_started(s) == IF s.q = "Q_DOWN" THEN [s EXCEPT !.q = "Q_IDLE"] ELSE s

Started(s) ==
    LET p == IF Pace THEN Pace_started(s) ELSE s
        q == IF Queue THEN Queue_started(p) ELSE p
    IN [q EXCEPT !.up = TRUE]

Pace_stopped(s) == [s EXCEPT !.p = "P_DOWN", !.want_next = FALSE, !.timer = FALSE]

Queue_stopped(s) == [s EXCEPT !.q = "Q_DOWN", !.buf = <<>>]

Stopped(s) ==
    LET p == IF Pace THEN Pace_stopped(s) ELSE s
        q == IF Queue THEN Queue_stopped(p) ELSE p
    IN [q EXCEPT !.up = FALSE, !.drv = "off", !.out = 0]

\* Towards the driver.  It is done with a packet at once (calling send_Next
\* before it returns) or later.
Driver_send_L_Data(s, n, atonce) ==
    LET h == [s EXCEPT !.overlap = @ \/ s.out # 0,
                       !.rushed = @ \/ s.timer]
    IN IF atonce THEN send_Next(h) ELSE [h EXCEPT !.out = n]

Queue_send_L_Data(s, n) ==
    IF s.q = "Q_DOWN" THEN [s EXCEPT !.dropped = TRUE]
    ELSE Link_send_Next([s EXCEPT !.trigger = @ \/ s.q = "Q_IDLE", !.buf = Append(@, n)])

-----------------------------------------------------------------------------
\* PaceFilter::start and the driver's start().
start ==
    /\ st.drv = "off"
    /\ st' = [st EXCEPT !.drv = "starting", !.send_more = TRUE,
                        !.nr_in = IF Pace THEN 0 ELSE @]
    /\ UNCHANGED <<sent, got, received>>

\* The driver is up; one in EarlyNext asks for a packet in the same breath.
started ==
    /\ st.drv = "starting"
    /\ LET s == Started([st EXCEPT !.drv = "on"])
       IN st' = IF EarlyNext THEN send_Next(s) ELSE s
    /\ UNCHANGED <<sent, got, received>>

\* The driver has stopped, told to or by itself.
stopped ==
    /\ st.drv # "off"
    /\ st' = Stopped(st)
    /\ UNCHANGED <<sent, got, received>>

\* errored() passes the filters; the router stops using the link.
errored ==
    /\ st.drv = "on" /\ st.up
    /\ st' = [st EXCEPT !.up = FALSE]
    /\ UNCHANGED <<sent, got, received>>

\* LinkConnect::send_L_Data, called by the router for a link that is up and ready.
send_L_Data(atonce) ==
    /\ st.up /\ st.send_more /\ sent < MaxPackets
    /\ sent' = sent + 1
    /\ LET s == [st EXCEPT !.send_more = FALSE]
       IN IF Queue
          THEN st' = Queue_send_L_Data(s, sent') /\ UNCHANGED got
          ELSE st' = Driver_send_L_Data(s, sent', atonce) /\ got' = Append(got, sent')
    /\ UNCHANGED received

\* mutant: the queue does not remember that the driver is busy
trigger_cb_Idle(atonce) ==
    /\ Queue /\ st.trigger /\ st.buf # <<>> /\ st.q = "Q_IDLE"
    /\ st' = Driver_send_L_Data([st EXCEPT !.buf = Tail(@)], Head(st.buf), atonce)
    /\ got' = Append(got, Head(st.buf))
    /\ UNCHANGED <<sent, received>>

\* QueueFilter::trigger_cb, one round of its loop; the watcher stays on as long as
\* the loop goes on.  (Other callbacks may come between two rounds here, which
\* only adds behaviours.)
trigger_cb(atonce) ==
    /\ Queue /\ st.trigger /\ st.buf # <<>> /\ st.q = "Q_IDLE"
    /\ LET n == Head(st.buf)
           s == Driver_send_L_Data([st EXCEPT !.q = "Q_SENDING", !.buf = Tail(@)], n, atonce)
       IN /\ st' = IF s.q = "Q_SENDING" THEN [s EXCEPT !.q = "Q_BUSY", !.trigger = FALSE] ELSE s
          /\ got' = Append(got, n)
    /\ UNCHANGED <<sent, received>>

\* ... and the callback without anything to send.
trigger_cb_idle ==
    /\ Queue /\ st.trigger /\ (st.buf = <<>> \/ st.q # "Q_IDLE")
    /\ st' = [st EXCEPT !.trigger = FALSE]
    /\ UNCHANGED <<sent, got, received>>

\* The driver is done with its packet.
driver_done ==
    /\ st.drv = "on" /\ st.out # 0
    /\ st' = send_Next([st EXCEPT !.out = 0])
    /\ UNCHANGED <<sent, got, received>>

recv_L_Data ==
    /\ st.drv = "on" /\ received < MaxIncoming
    /\ received' = received + 1
    /\ st' = [st EXCEPT !.nr_in = IF Pace THEN @ + 1 ELSE @]
    /\ UNCHANGED <<sent, got>>

\* PaceFilter::timer_cb
Pause(s) ==
    IF s.nr_in > 0 THEN [s EXCEPT !.nr_in = 0]
    ELSE AbovePace_send_Next([s EXCEPT !.timer = FALSE, !.p = "P_IDLE"])

timer_cb ==
    /\ Pace /\ st.timer
    /\ st' = IF st.p = "P_BUSY" THEN Pause(st) ELSE [st EXCEPT !.timer = FALSE]
    /\ UNCHANGED <<sent, got, received>>

Next ==
    \/ start \/ started \/ stopped \/ errored
    \/ \E atonce \in BOOLEAN : send_L_Data(atonce) \/ trigger_cb(atonce)
    \/ trigger_cb_idle \/ driver_done \/ recv_L_Data \/ timer_cb

Spec == Init /\ [][Next]_vars

\* The event loop serves watchers and timers; the driver finishes every packet.
Fairness ==
    /\ WF_vars(\E atonce \in BOOLEAN : trigger_cb(atonce))
    /\ WF_vars(timer_cb) /\ WF_vars(driver_done)

FairSpec == Spec /\ Fairness

-----------------------------------------------------------------------------
TypeOK == st \in Stack /\ sent \in 0..MaxPackets /\ got \in Seq(Packet)
          /\ received \in 0..MaxIncoming

\* A driver is never handed a packet before it is done with the one it has
\* (TPUARTwrap::send_L_Data asserts that its buffer is empty), nor, with a pace
\* filter, during a pause; and the router never sends into a queue that is down,
\* which would drop the packet without a send_Next and leave the router waiting.
OneAtATime == TypeOK /\ ~st.overlap /\ (Pace => ~st.rushed) /\ ~st.dropped

\* The queue filter implements the fifo link.
Fifo == INSTANCE FifoLink WITH Packet <- Packet, waiting <- st.buf, delivered <- got
IsFifo == Fifo!Spec

\* Every packet that was sent reaches the driver unless the link fails, and the
\* link gets its send_Next: waiting for a packet, a pause or incoming traffic ends.
Drains == /\ (st.buf # <<>>) ~> (st.buf = <<>>)
          /\ (st.up /\ ~st.send_more) ~> (~st.up \/ st.send_more)
=============================================================================
