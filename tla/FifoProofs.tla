----------------------------- MODULE FifoProofs -----------------------------
(***************************************************************************)
(* What the filters of a link promise, for every combination of filters    *)
(* and any number of packets: a driver that does not call send_Next() of   *)
(* its own accord is never given a packet too early, and the queue filter  *)
(* implements the first-in first-out link.                                 *)
(***************************************************************************)
EXTENDS MCFifo, TLAPS

-----------------------------------------------------------------------------
\* The inductive invariant.  Before its driver is up a filter is down; after
\* that a pause and a packet in the driver exclude each other, and whoever may
\* hand out the next packet (the queue if there is one, else the router) knows
\* of both.
Asleep(s) == s.q = "Q_DOWN" /\ s.p = "P_DOWN" /\ s.out = 0 /\ ~s.timer /\ ~s.up /\ s.buf = <<>>

Awaken(s) == (Queue => s.q \in {"Q_IDLE", "Q_BUSY"}) /\ (Pace => s.p # "P_DOWN")

Absent(s) == /\ ~Queue => s.q = "Q_DOWN" /\ ~s.trigger /\ s.buf = <<>>
             /\ ~Pace => s.p = "P_DOWN" /\ ~s.timer

Clean(s) == ~s.want_next /\ ~s.overlap /\ ~s.rushed /\ ~s.dropped

MayHandOut(s) == IF Queue THEN s.q = "Q_IDLE" ELSE s.send_more

Spaced(s) == /\ s.timer <=> s.p = "P_BUSY"
             /\ s.timer => s.out = 0
             /\ MayHandOut(s) => s.out = 0 /\ ~s.timer

StackInv(s) == /\ s \in Q!Stack
               /\ s.drv # "on" => Asleep(s)
               /\ s.drv = "on" => Awaken(s)
               /\ Absent(s) /\ Clean(s) /\ Spaced(s)

FilterInv == /\ StackInv(st) /\ sent \in 0 .. MaxPackets /\ got \in Seq(Q!Packet)
             /\ received \in 0 .. MaxIncoming

-----------------------------------------------------------------------------
\* The initial stack is asleep.
LEMMA FilterStart == Q!Init => FilterInv
BY FilterConfig DEF Q!Init,  FilterInv, StackInv, Q!Stack, Q!QSTATE, Q!PSTATE, Asleep, Awaken, Absent, Clean, Spaced, MayHandOut

\* start() wakes the driver only.
LEMMA StartKeeps == ASSUME FilterInv, Q!start PROVE FilterInv'
<1> DEFINE n == IF Pace THEN 0 ELSE st.nr_in
<1>1. n \in Nat /\ st' = [st EXCEPT !.drv = "starting", !.send_more = TRUE, !.nr_in = n]
    BY DEF Q!start, FilterInv, StackInv, Q!Stack
<1> HIDE DEF n
<1>2. StackInv(st')
    BY <1>1, FilterConfig DEF Q!start, FilterInv, StackInv, Q!Stack, Q!QSTATE, Q!PSTATE, Asleep, Awaken, Absent, Clean, Spaced, MayHandOut
<1> QED BY <1>2 DEF FilterInv, Q!start

\* started() brings the filters up, from the driver to the link.
LEMMA StartedKeeps == ASSUME ~EarlyNext, FilterInv, Q!started PROVE FilterInv'
BY FilterConfig DEF Q!started, Q!Started, Q!Pace_started, Q!Queue_started, FilterInv, StackInv, Q!Stack, Q!QSTATE, Q!PSTATE, Asleep, Awaken, Absent, Clean, Spaced, MayHandOut

\* stopped() brings them down again.
LEMMA StoppedKeeps == ASSUME FilterInv, Q!stopped PROVE FilterInv'
<1> DEFINE p == IF Pace THEN Q!Pace_stopped(st) ELSE st
           q == IF Queue THEN Q!Queue_stopped(p) ELSE p
<1>1. /\ p \in Q!Stack /\ p.p = "P_DOWN" /\ ~p.timer /\ Absent(p) /\ Clean(p)
    BY FilterConfig, ZenonT(20) DEF Q!Pace_stopped, FilterInv, StackInv, Q!Stack, Q!PSTATE, Absent, Clean
<1> HIDE DEF p
<1>2. /\ q \in Q!Stack /\ q.p = "P_DOWN" /\ ~q.timer /\ q.q = "Q_DOWN" /\ q.buf = <<>>
      /\ Absent(q) /\ Clean(q)
    <2>1. CASE Queue
        <3>1. q = [p EXCEPT !.q = "Q_DOWN", !.buf = <<>>]
            BY <2>1 DEF Q!Queue_stopped
        <3> DEFINE e == <<>>
        <3>2. e \in Seq(Q!Packet)
            OBVIOUS
        <3>3. q = [p EXCEPT !.q = "Q_DOWN", !.buf = e] /\ e = <<>>
            BY <3>1
        <3> HIDE DEF q, e
        <3> QED BY <1>1, <3>2, <3>3, <2>1, ZenonT(20) DEF Q!Stack, Q!QSTATE, Absent, Clean
    <2>2. CASE ~Queue
        BY <1>1, <2>2 DEF Absent
    <2> QED BY <2>1, <2>2
<1>3. st' = [q EXCEPT !.up = FALSE, !.drv = "off", !.out = 0]
    BY DEF Q!stopped, Q!Stopped, p
<1> HIDE DEF q
<1>4. st' \in Q!Stack /\ Absent(st') /\ Clean(st')
    BY <1>2, <1>3, FilterConfig, ZenonT(20) DEF Q!Stack, Absent, Clean
<1>5. st'.drv = "off" /\ Asleep(st') /\ Spaced(st')
    BY <1>2, <1>3 DEF Q!Stack, Asleep, Spaced
<1>6. StackInv(st')
    BY <1>4, <1>5 DEF StackInv
<1> QED BY <1>6 DEF FilterInv, Q!stopped

\* errored() is noticed by the router only.
LEMMA ErroredKeeps == FilterInv /\ Q!errored => FilterInv'
BY FilterConfig, ZenonT(20) DEF Q!errored, FilterInv, StackInv, Q!Stack, Q!QSTATE, Q!PSTATE, Asleep, Awaken, Absent, Clean, Spaced, MayHandOut

\* send_Next() above the pace filter, from a driver that is idle.
LEMMA AboveNext ==
    ASSUME NEW s, StackInv(s), s.drv = "on", s.out = 0, ~s.timer
    PROVE  StackInv(Q!AbovePace_send_Next(s))
<1>1. CASE Queue /\ s.q = "Q_BUSY"
    <2>1. Q!AbovePace_send_Next(s) = [s EXCEPT !.q = "Q_IDLE", !.trigger = TRUE]
        BY <1>1 DEF Q!AbovePace_send_Next, Q!Queue_send_Next
    <2> QED BY <2>1, <1>1, ZenonT(20) DEF StackInv, Q!Stack, Q!QSTATE, Asleep, Awaken, Absent, Clean, Spaced, MayHandOut
<1>2. CASE Queue /\ s.q # "Q_BUSY"
    <2>1. Q!AbovePace_send_Next(s) = s
        BY <1>2 DEF Q!AbovePace_send_Next, Q!Queue_send_Next, StackInv, Awaken
    <2> QED BY <2>1
<1>3. CASE ~Queue
    <2>1. Q!AbovePace_send_Next(s) = [s EXCEPT !.send_more = TRUE]
        BY <1>3 DEF Q!AbovePace_send_Next, Q!Link_send_Next
    <2> QED BY <2>1, <1>3, ZenonT(20) DEF StackInv, Q!Stack, Asleep, Awaken, Absent, Clean, Spaced, MayHandOut
<1> QED BY <1>1, <1>2, <1>3

\* The pause of the pace filter begins, once the queue or the router waits.
LEMMA PauseBegins ==
    ASSUME NEW s, StackInv(s), s.drv = "on", s.out = 0, ~s.timer, Pace, ~MayHandOut(s)
    PROVE  StackInv(Q!Pace_send_Next(s))
<1>1. Q!Pace_send_Next(s) = [s EXCEPT !.p = "P_BUSY", !.timer = TRUE]
    BY DEF Q!Pace_send_Next, StackInv, Q!Stack, Q!PSTATE, Awaken, Spaced
<1> QED BY <1>1, ZenonT(20) DEF StackInv, Q!Stack, Q!PSTATE, Asleep, Awaken, Absent, Clean, Spaced, MayHandOut

\* The driver is done: the pause begins, or whoever waits is told.
LEMMA DoneKeeps == ASSUME FilterInv, Q!driver_done PROVE FilterInv'
<1> DEFINE s == [st EXCEPT !.out = 0]
<1>0. StackInv(st) /\ ~st.timer /\ ~MayHandOut(st) /\ st.drv = "on"
    BY DEF Q!driver_done, FilterInv, StackInv, Spaced
<1>1. s \in Q!Stack /\ s.drv = "on" /\ s.out = 0 /\ ~s.timer /\ ~MayHandOut(s)
    BY <1>0, FilterConfig DEF StackInv, Q!Stack, MayHandOut
<1>2. StackInv(s)
    BY <1>0, <1>1 DEF StackInv, Q!Stack, Awaken, Absent, Clean, Spaced
<1>3. st' = Q!send_Next(s)
    BY DEF Q!driver_done
<1> HIDE DEF s
<1>4. StackInv(st')
    BY <1>1, <1>2, <1>3, AboveNext, PauseBegins DEF Q!send_Next
<1> QED BY <1>4 DEF FilterInv, Q!driver_done

\* The pause ends, or goes on because something came in.
LEMMA TimerKeeps == ASSUME FilterInv, Q!timer_cb PROVE FilterInv'
<1>1. st.timer /\ st.p = "P_BUSY" /\ st.drv = "on" /\ st.out = 0
    BY DEF Q!timer_cb, FilterInv, StackInv, Spaced, Asleep
<1>2. CASE st.nr_in > 0
    <2>1. st' = [st EXCEPT !.nr_in = 0]
        BY <1>1, <1>2 DEF Q!timer_cb, Q!Pause
    <2>2. StackInv(st')
        BY <2>1 DEF FilterInv, StackInv, Q!Stack, Asleep, Awaken, Absent, Clean, Spaced, MayHandOut
    <2> QED BY <2>2 DEF FilterInv, Q!timer_cb
<1>3. CASE ~(st.nr_in > 0)
    <2> DEFINE s == [st EXCEPT !.timer = FALSE, !.p = "P_IDLE"]
    <2>1. StackInv(s) /\ s.drv = "on" /\ s.out = 0 /\ ~s.timer
        BY <1>1, ZenonT(20) DEF Q!timer_cb, FilterInv, StackInv, Q!Stack, Q!PSTATE, Asleep, Awaken, Absent, Clean, Spaced, MayHandOut
    <2>2. st' = Q!AbovePace_send_Next(s)
        BY <1>1, <1>3 DEF Q!timer_cb, Q!Pause
    <2> HIDE DEF s
    <2>3. StackInv(st')
        BY <2>1, <2>2, AboveNext
    <2> QED BY <2>3 DEF FilterInv, Q!timer_cb
<1> QED BY <1>2, <1>3

\* Whoever may hand out a packet finds the driver idle and no pause.
LEMMA HandedOutInTime ==
    ASSUME NEW s \in Q!Stack, Clean(s), s.out = 0, ~s.timer, NEW n, NEW atonce \in BOOLEAN
    PROVE  Q!Driver_send_L_Data(s, n, atonce) = IF atonce THEN Q!send_Next(s) ELSE [s EXCEPT !.out = n]
<1> DEFINE h == [s EXCEPT !.overlap = @ \/ s.out # 0, !.rushed = @ \/ s.timer]
<1>1. (s.overlap \/ s.out # 0) = FALSE /\ (s.rushed \/ s.timer) = FALSE
    BY DEF Clean
<1>2. s.overlap = FALSE /\ s.rushed = FALSE
    BY DEF Clean, Q!Stack
<1>3. h = s
    BY <1>1, <1>2 DEF Q!Stack
<1> QED BY <1>3 DEF Q!Driver_send_L_Data

\* The router sends to the driver itself.
LEMMA SendDirectKeeps ==
    ASSUME FilterInv, NEW atonce \in BOOLEAN, Q!send_L_Data(atonce), ~Queue
    PROVE  FilterInv'
<1> DEFINE s == [st EXCEPT !.send_more = FALSE]
<1>0. sent + 1 \in Q!Packet /\ sent' = sent + 1 /\ got' = Append(got, sent') /\ received' = received
    BY FilterConfig DEF FilterInv, Q!send_L_Data, Q!Packet
<1>1. StackInv(st) /\ st.drv = "on" /\ st.out = 0 /\ ~st.timer
    BY DEF FilterInv, StackInv, Q!send_L_Data, Asleep, Spaced, MayHandOut
<1>2. s \in Q!Stack /\ Clean(s) /\ s.out = 0 /\ ~s.timer /\ s.drv = "on" /\ ~MayHandOut(s)
    BY <1>1 DEF StackInv, Q!Stack, Clean, MayHandOut
<1>3. StackInv(s)
    BY <1>1, <1>2 DEF StackInv, Q!Stack, Awaken, Absent, Spaced
<1>4. st' = IF atonce THEN Q!send_Next(s) ELSE [s EXCEPT !.out = sent']
    <2>1. st' = Q!Driver_send_L_Data(s, sent', atonce)
        BY DEF Q!send_L_Data
    <2> HIDE DEF s
    <2> QED BY <1>2, <2>1, HandedOutInTime
<1> HIDE DEF s
<1>5. ASSUME NEW n \in Q!Packet PROVE StackInv([s EXCEPT !.out = n])
    BY <1>2, <1>3 DEF StackInv, Q!Stack, Awaken, Absent, Clean, Spaced, MayHandOut
<1>6. StackInv(Q!send_Next(s))
    BY <1>2, <1>3, AboveNext, PauseBegins DEF Q!send_Next
<1>7. StackInv(st')
    BY <1>0, <1>4, <1>5, <1>6
<1> QED BY <1>0, <1>7, FilterConfig DEF FilterInv, Q!Packet

\* The router sends into the queue, which is up as its driver is.
LEMMA SendQueuedKeeps ==
    ASSUME FilterInv, NEW atonce \in BOOLEAN, Q!send_L_Data(atonce), Queue
    PROVE  FilterInv'
<1> DEFINE t == st.trigger \/ st.q = "Q_IDLE"
           b == Append(st.buf, sent + 1)
<1>0. sent + 1 \in Q!Packet /\ sent' = sent + 1 /\ got' = got /\ received' = received
    BY FilterConfig DEF FilterInv, Q!send_L_Data, Q!Packet
<1>1. StackInv(st) /\ st.drv = "on" /\ st.q # "Q_DOWN"
    BY DEF FilterInv, StackInv, Q!send_L_Data, Asleep, Awaken
<1>2. st' = [st EXCEPT !.send_more = TRUE, !.trigger = t, !.buf = b]
    <2> DEFINE s == [st EXCEPT !.send_more = FALSE]
    <2>1. s.q = st.q /\ s.trigger = st.trigger /\ s.buf = st.buf
        BY <1>1 DEF StackInv, Q!Stack
    <2>2. st' = Q!Queue_send_L_Data(s, sent + 1)
        BY <1>0 DEF Q!send_L_Data
    <2>3. st' = [[s EXCEPT !.trigger = t, !.buf = b] EXCEPT !.send_more = TRUE]
        BY <1>1, <2>1, <2>2 DEF Q!Queue_send_L_Data, Q!Link_send_Next
    <2> QED BY <1>1, <2>3, ZenonT(20) DEF StackInv, Q!Stack
<1>3. t \in BOOLEAN /\ b \in Seq(Q!Packet)
    BY <1>0, <1>1 DEF StackInv, Q!Stack
<1> HIDE DEF t, b
<1>4. StackInv(st')
    BY <1>1, <1>2, <1>3, ZenonT(20) DEF StackInv, Q!Stack, Awaken, Absent, Clean, Spaced, MayHandOut
<1> QED BY <1>0, <1>4, FilterConfig DEF FilterInv, Q!Packet

\* The queue hands a packet to the driver.
LEMMA TriggerKeeps ==
    ASSUME FilterInv, NEW atonce \in BOOLEAN, Q!trigger_cb(atonce)
    PROVE  FilterInv'
<1> DEFINE n == Head(st.buf)
           b == Tail(st.buf)
           s == [st EXCEPT !.q = "Q_SENDING", !.buf = b]
           d == Q!Driver_send_L_Data(s, n, atonce)
<1>0. StackInv(st) /\ st.drv = "on" /\ st.out = 0 /\ ~st.timer /\ Queue /\ st.q = "Q_IDLE"
    BY DEF FilterInv, StackInv, Q!trigger_cb, Asleep, Spaced, MayHandOut
<1>1. n \in Q!Packet /\ b \in Seq(Q!Packet)
    BY <1>0 DEF Q!trigger_cb, StackInv, Q!Stack
<1>2. /\ st' = IF d.q = "Q_SENDING" THEN [d EXCEPT !.q = "Q_BUSY", !.trigger = FALSE] ELSE d
      /\ got' = Append(got, n) /\ UNCHANGED <<sent, received>>
    BY DEF Q!trigger_cb
<1> HIDE DEF n, b
<1>3. s \in Q!Stack /\ Clean(s) /\ s.out = 0 /\ ~s.timer
    BY <1>0, <1>1, ZenonT(20) DEF StackInv, Q!Stack, Q!QSTATE, Clean
<1>4. d = IF atonce THEN Q!send_Next(s) ELSE [s EXCEPT !.out = n]
    BY <1>3, HandedOutInTime
<1> HIDE DEF d
<1>5. ASSUME ~atonce PROVE StackInv(st')
    <2>1. st' = [st EXCEPT !.q = "Q_BUSY", !.buf = b, !.trigger = FALSE, !.out = n]
        BY <1>0, <1>2, <1>4, <1>5, ZenonT(20) DEF StackInv, Q!Stack
    <2> QED BY <1>0, <1>1, <1>5, <2>1, ZenonT(20) DEF StackInv, Q!Stack, Q!QSTATE, Q!Packet, Awaken, Absent, Clean, Spaced, MayHandOut
<1>6. ASSUME atonce, Pace PROVE StackInv(st')
    <2>1. s.p = "P_IDLE"
        BY <1>0, <1>6 DEF StackInv, Q!Stack, Q!PSTATE, Awaken, Spaced
    <2>2. d = [s EXCEPT !.p = "P_BUSY", !.timer = TRUE]
        BY <1>4, <1>6, <2>1 DEF Q!send_Next, Q!Pace_send_Next
    <2>3. st' = [st EXCEPT !.q = "Q_BUSY", !.buf = b, !.trigger = FALSE, !.p = "P_BUSY", !.timer = TRUE]
        BY <1>0, <1>2, <2>2, ZenonT(20) DEF StackInv, Q!Stack
    <2> QED BY <1>0, <1>1, <1>6, <2>3, ZenonT(20) DEF StackInv, Q!Stack, Q!QSTATE, Q!PSTATE, Awaken, Absent, Clean, Spaced, MayHandOut
<1>7. ASSUME atonce, ~Pace PROVE StackInv(st')
    <2>1. d = [s EXCEPT !.q = "Q_IDLE"]
        BY <1>0, <1>3, <1>4, <1>7 DEF Q!send_Next, Q!AbovePace_send_Next, Q!Queue_send_Next, StackInv, Q!Stack
    <2>2. st' = [st EXCEPT !.buf = b]
        BY <1>0, <1>2, <2>1, ZenonT(20) DEF StackInv, Q!Stack
    <2> QED BY <1>0, <1>1, <1>7, <2>2 DEF StackInv, Q!Stack, Awaken, Absent, Clean, Spaced, MayHandOut
<1>8. StackInv(st')
    BY <1>5, <1>6, <1>7, FilterConfig
<1> QED BY <1>1, <1>2, <1>8 DEF FilterInv

\* The callback finds nothing to send; a packet comes in.
LEMMA IdleKeeps == FilterInv /\ Q!trigger_cb_idle => FilterInv'
BY DEF Q!trigger_cb_idle, FilterInv, StackInv, Q!Stack, Asleep, Awaken, Absent, Clean, Spaced, MayHandOut

\* A packet from the bus passes the queue filter by (Filter::recv_L_Data).
LEMMA RecvKeeps == ASSUME FilterInv, Q!recv_L_Data PROVE FilterInv'
<1> DEFINE n == IF Pace THEN st.nr_in + 1 ELSE st.nr_in
<1>1. n \in Nat /\ st' = [st EXCEPT !.nr_in = n]
    BY DEF Q!recv_L_Data, FilterInv, StackInv, Q!Stack
<1> HIDE DEF n
<1>2. StackInv(st')
    BY <1>1 DEF FilterInv, StackInv, Q!Stack, Asleep, Awaken, Absent, Clean, Spaced, MayHandOut
<1> QED BY <1>2, FilterConfig DEF FilterInv, Q!recv_L_Data

\* Every step of the filters keeps the invariant.
LEMMA FiltersKeep == ASSUME ~EarlyNext, FilterInv, [Q!Next]_qvars PROVE FilterInv'
<1>1. CASE UNCHANGED qvars
    BY <1>1 DEF qvars, FilterInv
<1>2. ASSUME NEW atonce \in BOOLEAN, Q!send_L_Data(atonce) PROVE FilterInv'
    BY <1>2, SendDirectKeeps, SendQueuedKeeps
<1>3. ASSUME NEW atonce \in BOOLEAN, Q!trigger_cb(atonce) PROVE FilterInv'
    BY <1>3, TriggerKeeps
<1>4. CASE Q!Next
    BY <1>2, <1>3, <1>4, StartKeeps, StartedKeeps, StoppedKeeps, ErroredKeeps, IdleKeeps, DoneKeeps, RecvKeeps, TimerKeeps
    DEF Q!Next
<1> QED BY <1>1, <1>4

\* OneAtATime for every stack: with or without a queue filter, with or without a
\* pace filter, for any number of packets, no driver that waits for its packet to
\* be done before it calls send_Next() is given a second one, or one during a
\* pause, and the router never sends into a queue that is down.
THEOREM NoPacketTooEarly == ASSUME ~EarlyNext PROVE FifoSpec => []OneAtATime
<1>1. FifoInit => FilterInv
    BY FilterStart DEF FifoInit
<1>2. FilterInv /\ [FifoNext]_<<part, vars, qvars>> => FilterInv'
    BY FiltersKeep DEF FifoNext, qvars
<1>3. FilterInv => OneAtATime
    BY DEF FilterInv, StackInv, Clean, OneAtATime, Q!OneAtATime, Q!TypeOK
<1> QED BY <1>1, <1>2, <1>3, PTL DEF FifoSpec

-----------------------------------------------------------------------------
\* The refinement.  It needs the types only, whatever the driver does: a callback
\* of the driver leaves the queue's buffer alone.
SameBuf(s, t) == t \in Q!Stack /\ t.buf = s.buf

\* send_Next() on its way up.
LEMMA NextSameBuf == ASSUME NEW s \in Q!Stack PROVE SameBuf(s, Q!AbovePace_send_Next(s)) /\ SameBuf(s, Q!send_Next(s))
<1>1. SameBuf(s, Q!AbovePace_send_Next(s))
    BY ZenonT(20) DEF SameBuf, Q!Stack, Q!QSTATE, Q!AbovePace_send_Next, Q!Queue_send_Next, Q!Link_send_Next
<1>2. SameBuf(s, Q!Pace_send_Next(s))
    BY ZenonT(20) DEF SameBuf, Q!Stack, Q!PSTATE, Q!Pace_send_Next
<1> QED BY <1>1, <1>2 DEF Q!send_Next

\* A packet on its way to the driver.
LEMMA DriverSameBuf ==
    ASSUME NEW s \in Q!Stack, NEW n \in Q!Packet, NEW atonce \in BOOLEAN
    PROVE  SameBuf(s, Q!Driver_send_L_Data(s, n, atonce))
<1> DEFINE o == s.overlap \/ s.out # 0
           r == s.rushed \/ s.timer
           h == [s EXCEPT !.overlap = o, !.rushed = r]
<1>1. o \in BOOLEAN /\ r \in BOOLEAN
    OBVIOUS
<1>2. Q!Driver_send_L_Data(s, n, atonce) = IF atonce THEN Q!send_Next(h) ELSE [h EXCEPT !.out = n]
    BY DEF Q!Driver_send_L_Data
<1> HIDE DEF o, r
<1>3. h \in Q!Stack /\ h.buf = s.buf
    BY <1>1, ZenonT(20) DEF Q!Stack
<1> HIDE DEF h
<1>4. SameBuf(s, [h EXCEPT !.out = n])
    BY <1>3 DEF SameBuf, Q!Stack
<1> QED BY <1>2, <1>3, <1>4, NextSameBuf DEF SameBuf

\* The driver comes up, and may call send_Next() at once.
LEMMA StartedSameBuf == ASSUME NEW s \in Q!Stack PROVE SameBuf(s, Q!Started(s))
<1> DEFINE p == IF Pace THEN Q!Pace_started(s) ELSE s
           q == IF Queue THEN Q!Queue_started(p) ELSE p
<1>1. ASSUME NEW t, SameBuf(s, t) PROVE SameBuf(s, [t EXCEPT !.p = "P_IDLE"])
    BY <1>1 DEF SameBuf, Q!Stack, Q!PSTATE
<1>2. SameBuf(s, p)
    BY <1>1, NextSameBuf DEF Q!Pace_started, SameBuf
<1> HIDE DEF p
<1>3. SameBuf(s, [p EXCEPT !.q = "Q_IDLE"])
    BY <1>2 DEF SameBuf, Q!Stack, Q!QSTATE
<1>4. SameBuf(s, q)
    BY <1>2, <1>3 DEF Q!Queue_started
<1>5. Q!Started(s) = [q EXCEPT !.up = TRUE]
    BY DEF Q!Started, p
<1> HIDE DEF q
<1> QED BY <1>4, <1>5, ZenonT(20) DEF SameBuf, Q!Stack

\* It stops: with a queue filter every packet that waits is lost.
LEMMA StoppedEmpties == ASSUME NEW s \in Q!Stack, Queue PROVE Q!Stopped(s) \in Q!Stack /\ Q!Stopped(s).buf = <<>>
<1> DEFINE p == IF Pace THEN Q!Pace_stopped(s) ELSE s
           e == <<>>
           q == [p EXCEPT !.q = "Q_DOWN", !.buf = e]
<1>1. p \in Q!Stack
    <2>1. Q!Pace_stopped(s) \in Q!Stack
        BY ZenonT(20) DEF Q!Pace_stopped, Q!Stack, Q!PSTATE
    <2> QED BY <2>1
<1>2. Q!Stopped(s) = [q EXCEPT !.up = FALSE, !.drv = "off", !.out = 0]
    BY DEF Q!Stopped, Q!Queue_stopped
<1>3. e \in Seq(Q!Packet)
    OBVIOUS
<1>4. e = <<>>
    OBVIOUS
<1> HIDE DEF p, e
<1>5. q \in Q!Stack /\ q.buf = e
    BY <1>1, <1>3, ZenonT(20) DEF Q!Stack, Q!QSTATE
<1> HIDE DEF q
<1> QED BY <1>2, <1>4, <1>5, ZenonT(20) DEF Q!Stack

\* Every step of a stack with a queue keeps the types and is a step of FifoLink.
LEMMA FifoStep ==
    ASSUME Queue, Q!TypeOK, Q!Next
    PROVE  Q!TypeOK' /\ [Q!Fifo!Next]_<<st.buf, got>>
<1> DEFINE Same == SameBuf(st, st') /\ UNCHANGED <<sent, got>> /\ received' \in 0 .. MaxIncoming
<1>0. ASSUME Same PROVE Q!TypeOK' /\ [Q!Fifo!Next]_<<st.buf, got>>
    BY <1>0 DEF SameBuf, Q!TypeOK
<1>1. ASSUME Q!start PROVE Same
    <2> DEFINE n == IF Pace THEN 0 ELSE st.nr_in
    <2>1. n \in Nat /\ st' = [st EXCEPT !.drv = "starting", !.send_more = TRUE, !.nr_in = n]
        BY <1>1 DEF Q!start, Q!TypeOK, Q!Stack
    <2> HIDE DEF n
    <2> QED BY <1>1, <2>1, ZenonT(20) DEF Q!start, Q!TypeOK, Q!Stack, SameBuf
<1>2. ASSUME Q!started PROVE Same
    <2> DEFINE d == [st EXCEPT !.drv = "on"]
               s == Q!Started(d)
    <2>1. d \in Q!Stack /\ d.buf = st.buf
        BY DEF Q!TypeOK, Q!Stack
    <2>2. st' = IF EarlyNext THEN Q!send_Next(s) ELSE s
        BY <1>2 DEF Q!started
    <2> HIDE DEF d
    <2>3. SameBuf(st, s)
        BY <2>1, StartedSameBuf DEF SameBuf
    <2> HIDE DEF s
    <2> QED BY <1>2, <2>2, <2>3, NextSameBuf DEF Q!started, Q!TypeOK, SameBuf
<1>3. ASSUME Q!errored \/ Q!trigger_cb_idle PROVE Same
    BY <1>3, ZenonT(20) DEF Q!errored, Q!trigger_cb_idle, Q!TypeOK, Q!Stack, SameBuf
<1>4. ASSUME Q!driver_done PROVE Same
    <2> DEFINE d == [st EXCEPT !.out = 0]
    <2>1. SameBuf(st, d) /\ st' = Q!send_Next(d)
        BY <1>4 DEF Q!driver_done, Q!TypeOK, Q!Stack, SameBuf
    <2> HIDE DEF d
    <2> QED BY <1>4, <2>1, NextSameBuf DEF Q!driver_done, Q!TypeOK, SameBuf
<1>5. ASSUME Q!timer_cb PROVE Same
    <2> DEFINE d == [st EXCEPT !.timer = FALSE, !.p = "P_IDLE"]
    <2>1. SameBuf(st, d) /\ SameBuf(st, [st EXCEPT !.nr_in = 0]) /\ SameBuf(st, [st EXCEPT !.timer = FALSE])
        BY ZenonT(20) DEF Q!TypeOK, Q!Stack, Q!PSTATE, SameBuf
    <2>2. SameBuf(st, Q!AbovePace_send_Next(d))
        BY <2>1, NextSameBuf DEF SameBuf
    <2>3. SameBuf(st, st')
        BY <1>5, <2>1, <2>2 DEF Q!timer_cb, Q!Pause
    <2> QED BY <1>5, <2>3 DEF Q!timer_cb, Q!TypeOK
<1>6. ASSUME Q!recv_L_Data PROVE Same
    <2> DEFINE n == IF Pace THEN st.nr_in + 1 ELSE st.nr_in
    <2>1. n \in Nat /\ st' = [st EXCEPT !.nr_in = n]
        BY <1>6 DEF Q!recv_L_Data, Q!TypeOK, Q!Stack
    <2> HIDE DEF n
    <2>2. SameBuf(st, st')
        BY <2>1, ZenonT(20) DEF Q!TypeOK, Q!Stack, SameBuf
    <2> QED BY <1>6, <2>2, FilterConfig DEF Q!recv_L_Data, Q!TypeOK
<1>7. ASSUME Q!stopped PROVE Q!TypeOK' /\ Q!Fifo!Next
    BY <1>7, StoppedEmpties DEF Q!stopped, Q!TypeOK, Q!Fifo!Next, Q!Fifo!GoDown
<1>8. ASSUME NEW atonce \in BOOLEAN, Q!send_L_Data(atonce) PROVE Q!TypeOK' /\ [Q!Fifo!Next]_<<st.buf, got>>
    <2> DEFINE s == [st EXCEPT !.send_more = FALSE]
               t == st.trigger \/ st.q = "Q_IDLE"
               b == Append(st.buf, sent + 1)
    <2>0. /\ sent' = sent + 1 /\ sent' \in 0 .. MaxPackets /\ sent + 1 \in Q!Packet
          /\ UNCHANGED <<got, received>> /\ st' = Q!Queue_send_L_Data(s, sent + 1)
        BY <1>8, FilterConfig DEF Q!send_L_Data, Q!TypeOK, Q!Packet
    <2>1. s \in Q!Stack /\ s.q = st.q /\ s.trigger = st.trigger /\ s.buf = st.buf
        BY ZenonT(20) DEF Q!TypeOK, Q!Stack
    <2>2. t \in BOOLEAN /\ b \in Seq(Q!Packet)
        BY <2>0 DEF Q!TypeOK, Q!Stack
    <2>3. CASE s.q = "Q_DOWN"
        <3>1. st' = [s EXCEPT !.dropped = TRUE]
            BY <2>0, <2>3 DEF Q!Queue_send_L_Data
        <3> HIDE DEF s
        <3>2. st' \in Q!Stack /\ st'.buf = st.buf
            BY <2>1, <3>1, ZenonT(20) DEF Q!Stack
        <3> QED BY <2>0, <3>2 DEF Q!TypeOK
    <2>4. CASE s.q # "Q_DOWN"
        <3>1. st' = [[s EXCEPT !.trigger = t, !.buf = b] EXCEPT !.send_more = TRUE]
            BY <2>0, <2>1, <2>4 DEF Q!Queue_send_L_Data, Q!Link_send_Next
        <3> HIDE DEF s, t, b
        <3>2. st' \in Q!Stack /\ st'.buf = b
            BY <2>1, <2>2, <3>1, ZenonT(20) DEF Q!Stack
        <3>3. Q!Fifo!Accept(sent + 1)
            BY <2>0, <3>2 DEF Q!Fifo!Accept, b
        <3> QED BY <2>0, <3>2, <3>3 DEF Q!TypeOK, Q!Fifo!Next
    <2> QED BY <2>3, <2>4
<1>9. ASSUME NEW atonce \in BOOLEAN, Q!trigger_cb(atonce) PROVE Q!TypeOK' /\ Q!Fifo!Next
    <2> DEFINE n == Head(st.buf)
               b == Tail(st.buf)
               s == [st EXCEPT !.q = "Q_SENDING", !.buf = b]
               d == Q!Driver_send_L_Data(s, n, atonce)
    <2>1. st.buf # <<>> /\ n \in Q!Packet /\ b \in Seq(Q!Packet)
        BY <1>9 DEF Q!trigger_cb, Q!TypeOK, Q!Stack
    <2>2. /\ st' = IF d.q = "Q_SENDING" THEN [d EXCEPT !.q = "Q_BUSY", !.trigger = FALSE] ELSE d
          /\ got' = Append(got, n) /\ UNCHANGED <<sent, received>>
        BY <1>9 DEF Q!trigger_cb
    <2>3. s \in Q!Stack /\ s.buf = b
        BY <2>1, ZenonT(20) DEF Q!TypeOK, Q!Stack, Q!QSTATE
    <2> HIDE DEF n, b, s
    <2>4. d \in Q!Stack /\ d.buf = b
        BY <2>1, <2>3, DriverSameBuf DEF SameBuf
    <2> HIDE DEF d
    <2>5. st' \in Q!Stack /\ st'.buf = b
        BY <2>2, <2>4, ZenonT(20) DEF Q!Stack, Q!QSTATE
    <2>6. Q!Fifo!Deliver
        BY <2>1, <2>2, <2>5 DEF Q!Fifo!Deliver, n, b
    <2> QED BY <2>1, <2>2, <2>5, <2>6 DEF Q!TypeOK, Q!Fifo!Next
<1> HIDE DEF Same
<1> QED BY <1>0, <1>1, <1>2, <1>3, <1>4, <1>5, <1>6, <1>7, <1>8, <1>9 DEF Q!Next

\* The queue filter implements the first-in first-out link, above every driver:
\* packets leave in the order in which they came, each once, and are lost only
\* together, when the link goes down.
THEOREM QueueIsFifo == ASSUME Queue PROVE FifoSpec => Q!IsFifo
<1>1. FifoInit => Q!TypeOK /\ Q!Fifo!Init
    BY FilterStart DEF FifoInit, FilterInv, StackInv, Q!TypeOK, Q!Init, Q!Fifo!Init
<1>2. Q!TypeOK /\ [FifoNext]_<<part, vars, qvars>> => Q!TypeOK' /\ [Q!Fifo!Next]_<<st.buf, got>>
    <2> SUFFICES ASSUME Q!TypeOK, [FifoNext]_<<part, vars, qvars>>
                 PROVE  Q!TypeOK' /\ [Q!Fifo!Next]_<<st.buf, got>>
        OBVIOUS
    <2>1. CASE Q!Next
        BY <2>1, FifoStep
    <2>2. CASE UNCHANGED qvars
        BY <2>2 DEF qvars, Q!TypeOK
    <2> QED BY <2>1, <2>2 DEF FifoNext
<1> QED BY <1>1, <1>2, PTL DEF FifoSpec, Q!IsFifo, Q!Fifo!Spec
=============================================================================
