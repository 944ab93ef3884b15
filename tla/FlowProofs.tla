----------------------------- MODULE FlowProofs -----------------------------
(***************************************************************************)
(* Proofs about module RouterFlow: the life cycle of the links keeps its   *)
(* invariants while packets flow, and the router only takes a packet from  *)
(* its queue when every link that is up is ready for it.                   *)
(***************************************************************************)
EXTENDS RouterFlow, RouterProofs

\* A link that is on its way up has nothing to send; one that is up may take a
\* packet.
Rested(k) == k.state = "going_up" => k.send_more
Free(k) == k.state = "up" => k.send_more

\* What a callback that sends nothing does to the readiness of a link.
Keeps(k, r) ==
    /\ k.send_more => r.send_more
    /\ Rested(k) => Rested(r)
    /\ Rested(k) /\ Free(k) => Free(r)

\* The flags of the router: both ends of the chain agree and are only set when
\* all links are ready.  Before the first started() nothing was sent; after
\* RouterHigh was stopped the router is never up again.
FlowInv ==
    /\ low_send_more = high_send_more
    /\ low_send_more => \A l \in Links : Free(link[l])
    /\ \A l \in Links : Rested(link[l])
    /\ \A l \in Links \ links : link[l].state = "down"
    /\ ~running_signal => routed = 0 /\ ~low_send_more /\ \A l \in Links : link[l].send_more
    /\ is_started => running_signal
    /\ running_signal /\ ~is_started => ~want_up
    /\ phase = "setup" => ~running_signal /\ ~in_trigger_cb /\ ~want_up

KInv == FlowTypeOK /\ IInv /\ JInv /\ FlowInv

\* setState without start() and stop() sends nothing: a link that it leaves up was
\* up, or was going up.
LEMMA SettleSends ==
    ASSUME NEW l \in Links, NEW k \in LinkRec, NEW new \in {"down", "up", "error", "going_down"}
    PROVE  /\ Settle(l, k, new) \in LinkRec
           /\ Settle(l, k, new).send_more = k.send_more
           /\ Settle(l, k, new).state # "going_up"
           /\ Settle(l, k, new).state = "up" => k.state \in {"up", "going_up"}
<1> DEFINE n == Enter(k, new)
           R == Settle(l, k, new)
           G == /\ R \in LinkRec /\ R.send_more = k.send_more /\ R.state # "going_up"
                /\ R.state = "up" => k.state \in {"up", "going_up"}
<1> SUFFICES G
    OBVIOUS
<1>1. n \in LinkRec /\ n.send_more = k.send_more
    BY ZenonT(20) DEF Enter, LinkRec, LConnState
<1>2. ASSUME NEW r \in LinkRec, NEW s \in LConnState \cup {"abort"}
      PROVE  /\ Notify(r) \in LinkRec /\ Notify(r).send_more = r.send_more
             /\ Notify(r).state = r.state
             /\ In(r, s) \in LinkRec /\ In(r, s).send_more = r.send_more /\ In(r, s).state = s
    BY DEF Notify, In, LinkRec
<1>f. \/ R = k /\ k.state = new
      \/ R = Retry(l, n) /\ k.state # "up" /\ new = "down"
      \/ \E s \in LConnState \ {"wait_retry", "going_up"} :
            R = Notify(In(n, s)) /\ (s = "up" => new = "going_up" /\ k.state = "up")
      \/ R = Notify([n EXCEPT !.retries = 0]) /\ new = "up" /\ k.state = "going_up"
      \/ R = In(n, "abort")
    BY SettleForms DEF LConnState
<1> HIDE DEF n, R
<1>3. CASE R = k /\ k.state = new
    BY <1>3
<1>4. CASE R = Retry(l, n)
    <2> DEFINE w == [n EXCEPT !.state = "wait_retry", !.timer = "new"]
    <2>1. w \in LinkRec /\ w.state = "wait_retry" /\ w.send_more = n.send_more
        BY <1>1 DEF LinkRec, LConnState
    <2>2. R \in {w, Notify(In(n, "error"))}
        BY <1>4 DEF Retry
    <2> HIDE DEF w
    <2> QED BY <1>1, <1>2, <2>1, <2>2 DEF LConnState
<1>5. ASSUME NEW s \in LConnState \ {"wait_retry", "going_up"}, R = Notify(In(n, s)),
             s = "up" => k.state = "up"
      PROVE  G
    BY <1>1, <1>2, <1>5
<1>6. CASE R = Notify([n EXCEPT !.retries = 0]) /\ k.state = "going_up" /\ new = "up"
    <2> DEFINE z == [n EXCEPT !.retries = 0]
    <2>1. z \in LinkRec /\ z.send_more = n.send_more /\ z.state = n.state
        BY <1>1 DEF LinkRec
    <2>2. n.state = "up"
        BY <1>6 DEF n, Enter, LinkRec
    <2> HIDE DEF z
    <2>3. R = Notify(z)
        BY <1>6 DEF z
    <2> QED BY <1>1, <1>2, <1>6, <2>1, <2>2, <2>3 DEF LConnState
<1>7. CASE R = In(n, "abort")
    BY <1>1, <1>2, <1>7
<1> QED BY <1>f, <1>3, <1>4, <1>5, <1>6, <1>7

\* start() makes the link ready.
LEMMA StartSends ==
    ASSUME NEW l \in Links, NEW k \in LinkRec, NEW a \in Answer
    PROVE  Start(l, k, a) \in LinkRec /\ Start(l, k, a).send_more
<1> DEFINE s(d) == [[k EXCEPT !.send_more = TRUE] EXCEPT !.drv = d]
<1>1. ASSUME NEW d \in DriverState PROVE s(d) \in LinkRec /\ s(d).send_more
    BY DEF LinkRec
<1>2. Start(l, k, a) \in {s("starting"), Settle(l, s("on"), "up"), Settle(l, s("off"), "down"),
                          Settle(l, s("failed"), "error")}
    BY DEF Start
<1>3. {"starting", "on", "off", "failed"} \subseteq DriverState
    BY DEF DriverState
<1> HIDE DEF s
<1> QED BY <1>1, <1>2, <1>3, SettleSends

\* stop() leaves a link as ready as it was, and not up.
LEMMA StopSends ==
    ASSUME NEW l \in Links, NEW k \in LinkRec, NEW a, k.state \notin {"up", "going_up"}
    PROVE  /\ Stop(l, k, a) \in LinkRec
           /\ Stop(l, k, a).send_more = k.send_more
           /\ Stop(l, k, a).state \notin {"up", "going_up"}
<1> DEFINE s(d) == [k EXCEPT !.drv = d]
<1>1. ASSUME NEW d \in {"stopping", "off"}
      PROVE  s(d) \in LinkRec /\ s(d).send_more = k.send_more /\ s(d).state = k.state
    BY DEF LinkRec, DriverState
<1>2. Stop(l, k, a) \in {s("stopping"), Settle(l, s("off"), "down")}
    BY DEF Stop
<1> HIDE DEF s
<1> QED BY <1>1, <1>2, SettleSends

\* setState, as the router and the driver call it, keeps the readiness of the link.
LEMMA SetStateSends ==
    ASSUME NEW l \in Links, NEW k \in LinkRec, NEW a,
           NEW new \in {"down", "up", "error", "going_down", "going_up"},
           new = "going_up" => a \in Answer /\ k.state \in {"down", "wait_retry"}
    PROVE  /\ SetState(l, k, new, a) \in LinkRec
           /\ Keeps(k, SetState(l, k, new, a))
           /\ new = "going_up" => SetState(l, k, new, a).send_more
<1> DEFINE n == Enter(k, new)
           e == In(n, "going_down_error")
<1>1. n \in LinkRec /\ n.state = new /\ n.send_more = k.send_more
    BY ZenonT(20) DEF Enter, LinkRec, LConnState
<1>2. e \in LinkRec /\ e.state = "going_down_error" /\ e.send_more = k.send_more
    BY <1>1 DEF In, LinkRec, LConnState
<1>3. ASSUME NEW r \in LinkRec
      PROVE  /\ Notify(r) \in LinkRec /\ Notify(r).send_more = r.send_more
             /\ Notify(r).state = r.state
    BY ZenonT(20) DEF Notify, LinkRec
<1>4. \/ SetState(l, k, new, a) = Notify(Start(l, n, a)) /\ new = "going_up"
      \/ SetState(l, k, new, a) = Notify(Stop(l, n, a)) /\ new \in {"down", "going_down"}
      \/ SetState(l, k, new, a) = Notify(Stop(l, e, a)) /\ new = "going_down"
      \/ SetState(l, k, new, a) = Settle(l, k, new) /\ new # "going_up"
    BY DEF SetState
<1> HIDE DEF n, e
<1>5. CASE SetState(l, k, new, a) = Notify(Start(l, n, a)) /\ new = "going_up"
    BY <1>1, <1>3, <1>5, StartSends DEF Keeps, Rested, Free
<1>6. CASE SetState(l, k, new, a) = Notify(Stop(l, n, a)) /\ new \in {"down", "going_down"}
    BY <1>1, <1>3, <1>6, StopSends DEF Keeps, Rested, Free
<1>7. CASE SetState(l, k, new, a) = Notify(Stop(l, e, a)) /\ new = "going_down"
    BY <1>2, <1>3, <1>7, StopSends DEF Keeps, Rested, Free
<1>8. CASE SetState(l, k, new, a) = Settle(l, k, new) /\ new # "going_up"
    <2>1. k.send_more \in BOOLEAN
        BY DEF LinkRec
    <2> QED BY <1>8, <2>1, SettleSends DEF Keeps, Rested, Free
<1> QED BY <1>4, <1>5, <1>6, <1>7, <1>8

\* A change of other members before the call of setState.
LEMMA CallSends ==
    ASSUME NEW l \in Links, NEW k \in LinkRec, NEW d \in LinkRec, NEW a,
           NEW new \in {"down", "up", "error", "going_down", "going_up"},
           new = "going_up" => a \in Answer /\ k.state \in {"down", "wait_retry"},
           d.state = k.state, d.send_more = k.send_more
    PROVE  Keeps(k, SetState(l, d, new, a))
<1>1. Keeps(d, SetState(l, d, new, a))
    BY SetStateSends
<1> QED BY <1>1 DEF Keeps, Rested, Free

\* The callbacks of the driver and of the timer.
LEMMA CallbackSends ==
    ASSUME NEW l \in Links, NEW k, NEW a, Good(k)
    PROVE  /\ Keeps(k, Started(l, k)) /\ Keeps(k, Stopped(l, k, a)) /\ Keeps(k, Errored(l, k))
           /\ a \in Answer => Keeps(k, RetryTimer(l, k, a))
<1> DEFINE d(x) == [k EXCEPT !.drv = x]
           t == [k EXCEPT !.timer = "off"]
           td(x) == [t EXCEPT !.drv = x]
           r == [t EXCEPT !.retries = IF MaxRetries[l] > 0 THEN @ + 1 ELSE @]
<1>0. k \in LinkRec /\ k.send_more \in BOOLEAN
    BY DEF Good, LinkRec
<1>1. ASSUME NEW x \in DriverState
      PROVE  d(x) \in LinkRec /\ d(x).state = k.state /\ d(x).send_more = k.send_more
    BY <1>0 DEF LinkRec
<1>2. t \in LinkRec /\ t.state = k.state /\ t.send_more = k.send_more
    BY <1>0 DEF LinkRec
<1>3. ASSUME NEW x \in DriverState
      PROVE  td(x) \in LinkRec /\ td(x).state = k.state /\ td(x).send_more = k.send_more
    <2> HIDE DEF t
    <2> QED BY <1>2 DEF LinkRec
<1>4. r \in LinkRec /\ r.state = k.state /\ r.send_more = k.send_more
    <2> HIDE DEF t
    <2>1. MaxRetries[l] \in Nat
        BY LinkConfig
    <2> QED BY <1>2, <2>1 DEF LinkRec
<1>5. /\ Started(l, k) = SetState(l, d("on"), "up", "later")
      /\ Stopped(l, k, a) = SetState(l, d("off"), "down", a)
      /\ \E x \in {"failed", "stopping"} : Errored(l, k) = SetState(l, d(x), "error", "later")
      /\ \E x \in {"failed", "stopping"} : Errored(l, t) = SetState(l, td(x), "error", "later")
    BY ZenonT(20) DEF Started, Stopped, Errored
<1>6. \/ RetryTimer(l, k, a) = Errored(l, t)
      \/ RetryTimer(l, k, a) = SetState(l, r, "going_up", a) /\ k.state = "wait_retry"
      \/ RetryTimer(l, k, a) = t
    BY DEF RetryTimer
<1>7. {"on", "off", "failed", "stopping"} \subseteq DriverState
    BY DEF DriverState
<1> HIDE DEF d, t, td, r
<1>8. /\ Keeps(k, Started(l, k)) /\ Keeps(k, Stopped(l, k, a)) /\ Keeps(k, Errored(l, k))
      /\ Keeps(k, Errored(l, t))
    BY <1>0, <1>1, <1>3, <1>5, <1>7, CallSends
<1>9. Keeps(k, t)
    BY <1>0, <1>2 DEF Keeps, Rested, Free
<1>10. ASSUME a \in Answer PROVE Keeps(k, RetryTimer(l, k, a))
    <2>1. CASE RetryTimer(l, k, a) = SetState(l, r, "going_up", a) /\ k.state = "wait_retry"
        BY <1>0, <1>4, <1>10, <2>1, CallSends
    <2> QED BY <1>6, <1>8, <1>9, <2>1
<1> QED BY <1>8, <1>10

\* Keeping the readiness is transitive, and a link that is ready always keeps it.
LEMMA KeepsOn ==
    ASSUME NEW k, NEW r
    PROVE  /\ r.send_more => Keeps(k, r)
           /\ \A q : Keeps(k, r) /\ Keeps(r, q) => Keeps(k, q)
BY Zenon DEF Keeps, Rested, Free

\* The passes of state_trigger_cb.
LEMMA PassesSend ==
    ASSUME NEW l \in Links, NEW k, NEW a, Good(k)
    PROVE  /\ Keeps(k, Drain(l, k, a)) /\ Keeps(k, [k EXCEPT !.chg = FALSE])
           /\ Keeps(k, Halt(l, k, a)) /\ Keeps(k, Push(l, k, a))
           /\ k.state = "down" =>
                 /\ Drain(l, k, a).state = "down" /\ [k EXCEPT !.chg = FALSE].state = "down"
                 /\ Halt(l, k, a) = k
                 /\ l \notin links => Push(l, k, a) = k
<1> DEFINE e == [k EXCEPT !.chg = FALSE, !.timer = IF @ = "new" THEN "retry" ELSE @]
           c == [k EXCEPT !.chg = FALSE]
<1>0. k \in LinkRec /\ k.send_more \in BOOLEAN
    BY DEF Good, LinkRec
<1>1. e \in LinkRec /\ e.state = k.state /\ e.send_more = k.send_more
    BY <1>0, ZenonT(20) DEF LinkRec
<1>2. c.state = k.state /\ c.send_more = k.send_more
    BY <1>0 DEF LinkRec
<1>3. /\ \/ Drain(l, k, a) = e
         \/ Drain(l, k, a) = SetState(l, e, "going_down", a) /\ k.state # "down"
      /\ Halt(l, k, a) = k
         \/ (Halt(l, k, a) = Stop(l, k, a) /\ k.state \in {"up_error", "going_down_error"})
      /\ Push(l, k, a) = k \/ (Push(l, k, a) = SetState(l, k, "going_down", a) /\ l \in links)
    BY DEF Drain, Halt, Push, CountsGoing
<1> HIDE DEF e, c
<1>4. Keeps(k, e) /\ Keeps(k, c) /\ Keeps(k, k)
    BY <1>0, <1>1, <1>2 DEF Keeps, Rested, Free
<1>5. Keeps(k, Drain(l, k, a)) /\ Keeps(k, Push(l, k, a))
    BY <1>0, <1>1, <1>3, <1>4, CallSends
<1>6. Keeps(k, Halt(l, k, a))
    <2>1. CASE Halt(l, k, a) = Stop(l, k, a) /\ k.state \in {"up_error", "going_down_error"}
        BY <1>0, <2>1, StopSends DEF Keeps, Rested, Free
    <2> QED BY <1>3, <1>4, <2>1
<1> QED BY <1>1, <1>2, <1>3, <1>4, <1>5, <1>6 DEF c

-----------------------------------------------------------------------------
\* A step of the life cycle keeps the readiness of link l, and a link that nobody
\* registered stays down.
Calm(l) == /\ Keeps(link[l], link'[l])
           /\ l \notin links' => link'[l].state = "down"

\* One link changes by itself.
LEMMA UpdateCalm ==
    ASSUME IInv, FlowInv, NEW m \in Links, NEW k, Update(m, k), Keeps(link[m], k),
           link[m].state # "down"
    PROVE  \A l \in Links : Calm(l)
<1> SUFFICES ASSUME NEW l \in Links PROVE Calm(l)
    OBVIOUS
<1>1. links' = links /\ link' = [link EXCEPT ![m] = k]
    BY DEF Update
<1>2. link \in [Links -> LinkRec] /\ link[l].send_more \in BOOLEAN
    BY DEF IInv, TypeOK, LinkRec
<1>3. Keeps(link[l], link[l])
    BY <1>2 DEF Keeps, Rested, Free
<1>4. l \notin links => link[l].state = "down"
    BY DEF FlowInv
<1> QED BY <1>1, <1>2, <1>3, <1>4 DEF Calm

\* Router::stop_ tells every registered link to stop.
LEMMA StopAllCalm ==
    ASSUME NEW f, NEW how, NEW l \in Links, Good(f[l])
    PROVE  Keeps(f[l], StopAll(f, how)[l]) /\ (l \notin links => StopAll(f, how)[l] = f[l])
<1>1. f[l] \in LinkRec /\ f[l].send_more \in BOOLEAN
    BY DEF Good, LinkRec
<1>2. StopAll(f, how)[l] = IF l \in links THEN SetState(l, f[l], "going_down", how[l]) ELSE f[l]
    BY DEF StopAll
<1>3. Keeps(f[l], f[l])
    BY <1>1 DEF Keeps, Rested, Free
<1>4. Keeps(f[l], SetState(l, f[l], "going_down", how[l]))
    BY <1>1, SetStateSends
<1> QED BY <1>2, <1>3, <1>4

\* The router's main callback.
LEMMA TriggerCalm ==
    ASSUME IInv, FlowInv, NEW how, state_trigger_cb(how), NEW l \in Links
    PROVE  Calm(l)
<1> DEFINE drained == [m \in Links |-> Drain(m, link[m], how[m])]
           halted  == [m \in Links |-> Halt(m, [drained[m] EXCEPT !.chg = FALSE], how[m])]
           pushed  == [m \in Links |-> Push(m, halted[m], how[m])]
           k == link[l]
           d == drained[l]
           c == [d EXCEPT !.chg = FALSE]
           h == halted[l]
           p == pushed[l]
<1>1. /\ d = Drain(l, k, how[l]) /\ h = Halt(l, c, how[l]) /\ p = Push(l, h, how[l])
    OBVIOUS
<1>2. links' = links /\ (link' = pushed \/ link' = StopAll(pushed, how))
    BY DEF state_trigger_cb, DoStop
<1>3. Good(k) /\ (l \notin links => k.state = "down")
    BY DEF IInv, AllGood, FlowInv
<1> HIDE DEF drained, halted, pushed, k, d, c, h, p
<1>4. Good(d) /\ Keeps(k, d) /\ (l \notin links => d.state = "down")
    BY <1>1, <1>3, PassesGood, PassesSend, ZenonT(20)
<1>5. Good(c) /\ Keeps(d, c) /\ (l \notin links => c.state = "down")
    BY <1>4, PassesGood, PassesSend DEF c
<1>6. Good(h) /\ Keeps(c, h) /\ (l \notin links => h.state = "down")
    BY <1>1, <1>5, PassesGood, PassesSend
<1>7. Good(p) /\ Keeps(h, p) /\ (l \notin links => p.state = "down")
    BY <1>1, <1>6, PassesGood, PassesSend, ZenonT(20)
<1>8. Keeps(k, p)
    <2>1. Keeps(k, c)
        BY <1>4, <1>5, KeepsOn
    <2>2. Keeps(k, h)
        BY <1>6, <2>1, KeepsOn
    <2> QED BY <1>7, <2>2, KeepsOn
<1>9. Keeps(p, StopAll(pushed, how)[l]) /\ (l \notin links => StopAll(pushed, how)[l] = p)
    BY <1>7, StopAllCalm DEF p
<1>10. Keeps(k, StopAll(pushed, how)[l])
    BY <1>8, <1>9, KeepsOn
<1> QED BY <1>2, <1>7, <1>8, <1>9, <1>10 DEF Calm, k, p

\* Every step of the life cycle.
LEMMA LifeCalm ==
    ASSUME IInv, FlowInv, Next
    PROVE  \A l \in Links : Calm(l)
<1>0. ASSUME NEW l \in Links
      PROVE  /\ Good(link[l]) /\ Keeps(link[l], link[l])
             /\ l \notin links => link[l].state = "down"
             /\ link[l].drv # "off" \/ link[l].timer # "off" => link[l].state # "down"
    <2>1. Good(link[l]) /\ link[l] \in LinkRec /\ link[l].send_more \in BOOLEAN
        BY DEF IInv, AllGood, Good, LinkRec
    <2> QED BY <2>1 DEF FlowInv, Keeps, Rested, Free, Good, LinkRec
<1>n. NewLink \in LinkRec /\ NewLink.send_more /\ NewLink.state = "down"
    BY NewLinkGood DEF Good, NewLink
<1>u. ASSUME NEW a \in Answer, NEW l \in Links
      PROVE  Keeps(link[l], SetState(l, NewLink, "going_up", a)) /\ Keeps(link[l], NewLink)
    <2>1. SetState(l, NewLink, "going_up", a).send_more
        BY <1>n, SetStateSends
    <2> QED BY <1>n, <2>1, KeepsOn
<1>1. ASSUME NEW how \in [Links -> Answer], start(how), NEW l \in Links PROVE Calm(l)
    <2>1. link[l] = NewLink
        BY <1>1 DEF start, IInv, FreshStart
    <2>2. /\ links' = links
          /\ link'[l] = link[l] \/ (l \in links /\ link'[l] = SetState(l, NewLink, "going_up", how[l]))
        BY <1>1, <2>1 DEF start
    <2> QED BY <1>0, <1>u, <2>2 DEF Calm
<1>2. ASSUME NEW how, signal_cb(how) \/ start_timer_cb(how), NEW l \in Links PROVE Calm(l)
    <2>1. links' = links /\ (link' = link \/ link' = StopAll(link, how))
        BY <1>2 DEF signal_cb, start_timer_cb, DoStop
    <2> QED BY <1>0, <2>1, StopAllCalm DEF Calm
<1>3. ASSUME NEW how, state_trigger_cb(how), NEW l \in Links PROVE Calm(l)
    BY <1>3, TriggerCalm
<1>4. ASSUME signal_again \/ exit \/ Terminated, NEW l \in Links PROVE Calm(l)
    <2>1. links' = links /\ link' = link
        BY <1>4 DEF signal_again, exit, Terminated, vars
    <2> QED BY <1>0, <2>1 DEF Calm
<1>5. ASSUME NEW m \in Links, NEW a,
             started(m) \/ stopped(m, a) \/ errored(m) \/ (retry_timer_cb(m, a) /\ a \in Answer),
             NEW l \in Links
      PROVE  Calm(l)
    <2>1. link[m].drv # "off" \/ link[m].timer # "off"
        BY <1>5 DEF started, stopped, errored, retry_timer_cb
    <2>2. \E k : Update(m, k) /\ Keeps(link[m], k)
        BY <1>0, <1>5, CallbackSends DEF started, stopped, errored, retry_timer_cb
    <2> QED BY <1>0, <2>1, <2>2, UpdateCalm
<1>6. ASSUME NEW m \in Links, NEW a \in Answer, registerLink(m, a), NEW l \in Links PROVE Calm(l)
    <2>1. link \in [Links -> LinkRec]
        BY DEF IInv, TypeOK
    <2>2. links' = links \cup {m} /\ (link'[l] = link[l]
                                     \/ (l = m /\ link'[l] = SetState(m, NewLink, "going_up", a)))
        BY <1>6, <2>1 DEF registerLink
    <2> QED BY <1>0, <1>u, <2>2 DEF Calm
<1>7. ASSUME NEW m \in Links, unregisterLink(m), NEW l \in Links PROVE Calm(l)
    <2>1. link \in [Links -> LinkRec]
        BY DEF IInv, TypeOK
    <2>2. links' = links \ {m} /\ link'[l] = IF l = m THEN NewLink ELSE link[l]
        BY <1>7, <2>1 DEF unregisterLink
    <2>3. Keeps(link[l], NewLink)
        BY <1>u DEF Answer
    <2> QED BY <1>0, <1>n, <2>2, <2>3 DEF Calm
<1> QED BY <1>1, <1>2, <1>3, <1>4, <1>5, <1>6, <1>7 DEF Next

\* The flags in a step of the life cycle.
LEMMA LifeFlags ==
    ASSUME IInv, JInv, FlowInv, Next
    PROVE  /\ StartedOnce
           /\ want_up' => want_up \/ (~running_signal /\ phase' # "setup")
           /\ phase' = "setup" => phase = "setup"
<1>0. running_signal \in BOOLEAN /\ is_started \in BOOLEAN /\ (phase = "setup" => ~running_signal)
    BY DEF IInv, TypeOK, FlowInv
<1>1. ASSUME NEW how, state_trigger_cb(how) PROVE StartedOnce /\ (want_up' => want_up)
                                                  /\ (phase' = "setup" => phase = "setup")
    <2>1. StartedOnce
        BY <1>1, StateTriggerJInv
    <2>2. (want_up' => want_up) /\ (phase' = "setup" => phase = "setup")
        BY <1>1 DEF state_trigger_cb, DoStop
    <2> QED BY <2>1, <2>2
<1>2. CASE /\ UNCHANGED <<running_signal, is_started>>
           /\ want_up' => want_up \/ (phase = "setup" /\ phase' # "setup")
           /\ phase' = "setup" => phase = "setup"
    BY <1>0, <1>2, Zenon DEF StartedOnce
<1>3. ASSUME NEW how, start(how) PROVE UNCHANGED <<running_signal, is_started>> /\ phase = "setup"
                                       /\ phase' = "run"
    BY <1>3 DEF start
<1>4. ASSUME NEW how, signal_cb(how) \/ start_timer_cb(how)
      PROVE  /\ UNCHANGED <<running_signal, is_started>> /\ (want_up' => want_up)
             /\ phase' = "setup" => phase = "setup"
    BY <1>4 DEF signal_cb, start_timer_cb, DoStop
<1>5. CASE signal_again \/ exit \/ Terminated
    BY <1>2, <1>5 DEF signal_again, exit, Terminated, vars, flags
<1>6. ASSUME NEW l \in Links, NEW a,
             started(l) \/ stopped(l, a) \/ errored(l) \/ retry_timer_cb(l, a)
             \/ registerLink(l, a) \/ unregisterLink(l)
      PROVE  UNCHANGED <<running_signal, is_started, want_up, phase>>
    BY <1>6 DEF started, stopped, errored, retry_timer_cb, registerLink, unregisterLink,
                Update, flags
<1> QED BY <1>1, <1>2, <1>3, <1>4, <1>5, <1>6 DEF Next

\* A step of the life cycle keeps the flags right.
LEMMA LifeInv ==
    ASSUME KInv, Life(Next), EarlyNext = {}
    PROVE  KInv'
<1>0. FlowTypeOK /\ IInv /\ JInv /\ FlowInv /\ Next
    BY DEF KInv, Life
<1>1. IInv' /\ JInv' /\ TypeOK'
    <2>1. IInv' /\ JInv'
        BY <1>0, NextIInv, NextJInv
    <2> QED BY <2>1 DEF IInv
<1>2. /\ StartedOnce
      /\ want_up' => want_up \/ (~running_signal /\ phase' # "setup")
      /\ phase' = "setup" => phase = "setup"
    BY <1>0, LifeFlags
<1>3. \A l \in Links : Calm(l)
    BY <1>0, LifeCalm
<1>4. /\ UNCHANGED <<buf, in_trigger_cb, queued, routed>>
      /\ IF is_started' /\ ~is_started
         THEN low_send_more' = TRUE /\ high_send_more' = TRUE /\ trigger' = TRUE
         ELSE UNCHANGED <<low_send_more, high_send_more, trigger>>
      /\ failed' \in BOOLEAN
    <2>1. failed' \in BOOLEAN
        BY Zenon DEF Life
    <2> QED BY <2>1 DEF Life
<1>5. FlowTypeOK'
    BY <1>0, <1>1, <1>4 DEF FlowTypeOK
<1>6. (\A l \in Links : Rested(link[l])') /\ (\A l \in Links \ links' : link'[l].state = "down")
    BY <1>0, <1>3 DEF FlowInv, Calm, Keeps, Rested
<1>7. CASE is_started' /\ ~is_started
    <2>1. ~running_signal /\ running_signal' /\ phase' # "setup"
        BY <1>0, <1>2, <1>7, ZenonT(20) DEF StartedOnce, FlowInv
    <2>2. \A l \in Links : link'[l].send_more
        BY <1>0, <1>3, <2>1 DEF FlowInv, Calm, Keeps
    <2>3. FlowInv'
        BY <1>0, <1>2, <1>4, <1>6, <1>7, <2>1, <2>2 DEF FlowInv, Free
    <2> QED BY <1>1, <1>5, <2>3 DEF KInv
<1>8. CASE ~(is_started' /\ ~is_started)
    <2>0. running_signal' = running_signal /\ UNCHANGED <<low_send_more, high_send_more>>
        BY <1>0, <1>2, <1>4, <1>8 DEF StartedOnce, IInv, TypeOK
    <2>1. low_send_more => \A l \in Links : Free(link[l])'
        BY <1>0, <1>3 DEF FlowInv, Calm, Keeps, Free
    <2>2. ~running_signal => \A l \in Links : link'[l].send_more
        BY <1>0, <1>3 DEF FlowInv, Calm, Keeps
    <2>3. /\ is_started' => running_signal
          /\ running_signal /\ ~is_started' => ~want_up'
        BY <1>0, <1>2, <1>8 DEF StartedOnce, FlowInv
    <2>4. FlowInv'
        BY <1>0, <1>2, <1>4, <1>6, <2>0, <2>1, <2>2, <2>3 DEF FlowInv
    <2> QED BY <1>1, <1>5, <2>4 DEF KInv
<1> QED BY <1>7, <1>8

-----------------------------------------------------------------------------
\* What a packet or the answer to it does to a link is no news for the router's picture.
Same(k, r) == r.state = k.state /\ r.chg = k.chg /\ r.drv = k.drv

\* The life cycle keeps its invariants in a step that changes nothing but links.
LEMMA LinksKeepInv ==
    ASSUME IInv, JInv, phase # "setup",
           UNCHANGED <<links, flags, start_timer, exitcode, phase, sd_ready>>,
           link' \in [Links -> LinkRec],
           \A l \in Links : /\ Good(link'[l]) /\ Bounded(l, link'[l])
                            /\ Same(link[l], link'[l]) \/ Quiet(link[l], link'[l]),
           Notified(link') => state_trigger', state_trigger' \in BOOLEAN
    PROVE  IInv' /\ JInv'
<1>1. IInv'
    <2>1. TypeOK /\ phase' \in {"run", "shutdown", "exit", "killed"}
        BY DEF IInv, TypeOK
    <2> QED BY <2>1, ManyIInv DEF TypeOK, flags
<1>2. ASSUME NEW l \in Static PROVE Told(l)'
    <2>1. /\ l \in Links /\ Told(l)
          /\ UNCHANGED <<want_up, phase, all_running, some_running>>
          /\ link'[l].chg \in BOOLEAN /\ link[l].chg \in BOOLEAN
        BY DEF Static, JInv, flags, IInv, TypeOK, LinkRec
    <2>2. CASE Same(link[l], link'[l])
        BY <2>1, <2>2 DEF Told, Same, Required
    <2>3. CASE Quiet(link[l], link'[l])
        BY <2>1, <2>3 DEF Told, Quiet, Required
    <2> QED BY <2>1, <2>2, <2>3
<1> QED BY <1>1, <1>2 DEF JInv, Static

\* LinkConnect::send_L_Data on a link that is up.
LEMMA SendKeeps ==
    ASSUME NEW l \in Links, NEW k, NEW a, Good(k), Bounded(l, k), k.state = "up"
    PROVE  /\ Good(Send(l, k, a)) /\ Bounded(l, Send(l, k, a)) /\ Rested(Send(l, k, a))
           /\ Same(k, Send(l, k, a)) \/ Quiet(k, Send(l, k, a))
<1> DEFINE s == [k EXCEPT !.send_more = FALSE, !.timer = "send"]
           o == [s EXCEPT !.send_more = TRUE, !.timer = "off"]
<1>0. k \in LinkRec
    BY DEF Good
<1>1. s \in LinkRec /\ Same(k, s) /\ s.retries = k.retries /\ s.timer = "send"
    BY <1>0 DEF LinkRec, Same
<1>2. Good(s) /\ Bounded(l, s) /\ Rested(s) /\ s.drv # "off"
    BY <1>0, <1>1 DEF Good, Bounded, Rested, Same
<1>3. Send(l, k, a) \in {s, o, Errored(l, s)}
    BY DEF Send
<1> HIDE DEF s
<1>4. o \in LinkRec /\ Same(k, o) /\ o.retries = k.retries /\ o.timer = "off"
    BY <1>1, ZenonT(20) DEF LinkRec, Same
<1> HIDE DEF o
<1>5. Good(o) /\ Bounded(l, o) /\ Rested(o)
    BY <1>0, <1>4 DEF Good, Bounded, Rested, Same
<1>6. /\ Good(Errored(l, s)) /\ Bounded(l, Errored(l, s)) /\ Rested(Errored(l, s))
      /\ Quiet(k, Errored(l, s))
    <2>1. Good(Errored(l, s)) /\ Bounded(l, Errored(l, s)) /\ Quiet(s, Errored(l, s))
        BY <1>2, ErroredGood, DriverTells
    <2>2. Keeps(s, Errored(l, s))
        BY <1>2, CallbackSends
    <2> QED BY <1>1, <1>2, <2>1, <2>2 DEF Quiet, Same, Keeps
<1> QED BY <1>1, <1>2, <1>3, <1>4, <1>5, <1>6

\* The router hands a packet to its links.
LEMMA LoopInv ==
    ASSUME KInv, NEW how, trigger_cb_loop(how)
    PROVE  KInv'
<1> DEFINE A(l) == IF how[l] = "error" /\ l \notin Unreliable THEN "later" ELSE how[l]
           S(l) == l \in links /\ l \in Head(buf) /\ link[l].state = "up" /\ link[l].send_more
<1>0. /\ FlowTypeOK /\ IInv /\ JInv /\ FlowInv
      /\ phase # "setup" /\ running_signal
      /\ \A l \in Links : Good(link[l]) /\ Bounded(l, link[l]) /\ Rested(link[l])
      /\ in_trigger_cb /\ buf # <<>> /\ low_send_more
    BY DEF KInv, FlowInv, trigger_cb_loop, IInv, AllGood, JInv
<1>1. /\ link' = [l \in Links |-> IF S(l) THEN Send(l, link[l], A(l)) ELSE link[l]]
      /\ UNCHANGED <<links, flags, start_timer, exitcode, phase, sd_ready>>
      /\ state_trigger' = (state_trigger \/ Notified(link'))
    BY DEF trigger_cb_loop
<1> HIDE DEF A
<1>2. ASSUME NEW l \in Links
      PROVE  /\ Good(link'[l]) /\ Bounded(l, link'[l]) /\ Rested(link'[l])
             /\ Same(link[l], link'[l]) \/ Quiet(link[l], link'[l])
             /\ l \notin links => link'[l] = link[l]
    BY <1>0, <1>1, SendKeeps DEF Same
<1>3. link' \in [Links -> LinkRec]
    BY <1>1, <1>2, GoodFunction
<1>4. IInv' /\ JInv'
    <2>1. state_trigger' \in BOOLEAN /\ (Notified(link') => state_trigger')
        BY <1>0, <1>1, NotifiedBoolean DEF IInv, TypeOK
    <2> QED BY <1>0, <1>1, <1>2, <1>3, <2>1, LinksKeepInv
<1>5. /\ high_send_more' = AllReady(link') /\ low_send_more' = AllReady(link')
      /\ AllReady(link') \in BOOLEAN
      /\ UNCHANGED <<in_trigger_cb, queued>> /\ routed' = routed + 1 /\ buf' = Tail(buf)
    BY Zenon DEF trigger_cb_loop, AllReady
<1>6. FlowTypeOK'
    <2>1. trigger' \in BOOLEAN /\ failed' \in BOOLEAN
        BY Zenon DEF trigger_cb_loop
    <2>2. buf' \in Seq(SUBSET Links) /\ routed' \in Nat
        BY <1>0, <1>5 DEF FlowTypeOK
    <2> QED BY <1>0, <1>4, <1>5, <2>1, <2>2 DEF FlowTypeOK, IInv
<1>7. FlowInv'
    <2>1. ASSUME NEW l \in Links, AllReady(link') PROVE Free(link'[l])
        <3>1. l \notin links => link'[l].state = "down"
            BY <1>0, <1>2 DEF FlowInv
        <3> QED BY <2>1, <3>1 DEF AllReady, Free
    <2>2. \A l \in Links \ links : link'[l].state = "down"
        BY <1>0, <1>2 DEF FlowInv
    <2> QED BY <1>0, <1>1, <1>2, <1>5, <2>1, <2>2 DEF FlowInv, flags
<1> QED BY <1>4, <1>6, <1>7 DEF KInv

\* A driver is done with its packet.
LEMMA NextInv ==
    ASSUME KInv, NEW m \in Links, send_Next(m)
    PROVE  KInv'
<1> DEFINE k == link[m]
           r == [k EXCEPT !.send_more = TRUE, !.timer = IF k.state = "up" THEN "off" ELSE @]
           go == ~high_send_more /\ AllReady(link')
<1>0. /\ FlowTypeOK /\ IInv /\ JInv /\ FlowInv
      /\ \A l \in Links : Good(link[l]) /\ Bounded(l, link[l]) /\ Rested(link[l])
      /\ link \in [Links -> LinkRec] /\ k \in LinkRec
    BY DEF KInv, FlowInv, IInv, TypeOK, AllGood, JInv
<1>1. phase # "setup" /\ ~k.send_more /\ running_signal
    BY <1>0 DEF send_Next, InLoop, FlowInv
<1>2. /\ link' = [link EXCEPT ![m] = r]
      /\ UNCHANGED <<links, flags, state_trigger, start_timer, exitcode, phase, sd_ready>>
      /\ UNCHANGED <<buf, in_trigger_cb, queued, routed, failed>>
    BY <1>0 DEF send_Next
<1>3. /\ high_send_more' = (high_send_more \/ go)
      /\ low_send_more' = (low_send_more \/ go)
      /\ trigger' = (trigger \/ go)
    BY DEF send_Next, SendNext
<1>4. /\ r \in LinkRec /\ Same(k, r) /\ r.send_more /\ r.retries = k.retries
      /\ r.timer = k.timer \/ (r.timer = "off" /\ r.state = "up")
    BY <1>0, ZenonT(20) DEF LinkRec, Same
<1>5. link'[m] = r /\ \A l \in Links \ {m} : link'[l] = link[l]
    BY <1>0, <1>2
<1> HIDE DEF r
<1>6. Good(r) /\ Bounded(m, r)
    BY <1>0, <1>4 DEF Good, Bounded, Same
<1>7. ASSUME NEW l \in Links
      PROVE  /\ Good(link'[l]) /\ Bounded(l, link'[l]) /\ Rested(link'[l])
             /\ Same(link[l], link'[l]) /\ (Free(link[l]) => Free(link'[l]))
    <2>1. CASE l = m
        BY <1>4, <1>5, <1>6, <2>1 DEF Rested, Free
    <2>2. CASE l # m
        BY <1>0, <1>5, <2>2 DEF Same
    <2> QED BY <2>1, <2>2
<1>8. link' \in [Links -> LinkRec]
    BY <1>0, <1>2, <1>4
<1>9. IInv' /\ JInv'
    <2>1. state_trigger' \in BOOLEAN /\ (Notified(link') => state_trigger')
        BY <1>0, <1>2, <1>7 DEF IInv, TypeOK, Seen, Notified, Same
    <2> QED BY <1>0, <1>1, <1>2, <1>7, <1>8, <2>1, LinksKeepInv
<1>10. go \in BOOLEAN /\ (go => AllReady(link'))
    OBVIOUS
<1> HIDE DEF go
<1>11. FlowTypeOK'
    BY <1>0, <1>2, <1>3, <1>9, <1>10 DEF FlowTypeOK, IInv
<1>12. FlowInv'
    <2>1. ASSUME NEW l \in Links, AllReady(link') PROVE Free(link'[l])
        <3>1. l \notin links => link'[l].state = "down"
            BY <1>0, <1>7 DEF FlowInv, Same
        <3> QED BY <2>1, <3>1 DEF AllReady, Free
    <2>2. \A l \in Links \ links : link'[l].state = "down"
        BY <1>0, <1>7 DEF FlowInv, Same
    <2>3. low_send_more' = high_send_more' /\ (low_send_more' => \A l \in Links : Free(link'[l]))
        BY <1>0, <1>3, <1>7, <1>10, <2>1 DEF FlowInv
    <2> QED BY <1>0, <1>1, <1>2, <1>7, <2>2, <2>3 DEF FlowInv, flags
<1> QED BY <1>9, <1>11, <1>12 DEF KInv

\* The steps that change no link.
LEMMA QueueInv ==
    ASSUME KInv,
           \/ trigger_cb \/ trigger_cb_end \/ UNCHANGED allvars
           \/ \E l \in Links : \E dest \in SUBSET (Links \ {l}) : queue_L_Data(l, dest)
    PROVE  KInv'
<1>0. FlowTypeOK /\ IInv /\ JInv /\ FlowInv /\ running_signal \in BOOLEAN
    BY DEF KInv, IInv, TypeOK
<1>1. /\ UNCHANGED vars /\ UNCHANGED <<low_send_more, high_send_more, routed, failed>>
      /\ in_trigger_cb' => in_trigger_cb \/ phase # "setup"
    BY DEF trigger_cb, trigger_cb_end, allvars, flow, queue_L_Data, InLoop
<1>2. trigger' \in BOOLEAN /\ in_trigger_cb' \in BOOLEAN
    BY <1>0, ZenonT(20) DEF trigger_cb, trigger_cb_end, allvars, flow, queue_L_Data, FlowTypeOK
<1>3. buf' \in Seq(SUBSET Links) /\ queued' \in Nat
    <2>1. CASE UNCHANGED <<buf, queued>>
        BY <1>0, <2>1 DEF FlowTypeOK
    <2>2. CASE \E dest \in SUBSET Links : buf' = Append(buf, dest) /\ queued' = queued + 1
        BY <1>0, <2>2 DEF FlowTypeOK
    <2> QED BY <2>1, <2>2 DEF trigger_cb, trigger_cb_end, allvars, flow, queue_L_Data
<1>4. IInv' /\ JInv'
    BY <1>0, <1>1, NextIInv, NextJInv
<1>5. FlowInv'
    BY <1>0, <1>1 DEF FlowInv, vars, flags
<1>6. FlowTypeOK'
    BY <1>0, <1>1, <1>2, <1>3, <1>4 DEF FlowTypeOK, IInv
<1> QED BY <1>4, <1>5, <1>6 DEF KInv

\* The life cycle's invariants and the flags' hold in every reachable state, for any
\* number of packets, if no driver calls send_Next() when it comes up.
THEOREM FlowInductive == ASSUME EarlyNext = {} PROVE FlowSpec => []KInv
<1>1. FlowInit => KInv
    <2> SUFFICES ASSUME FlowInit PROVE KInv
        OBVIOUS
    <2>1. IInv /\ JInv /\ TypeOK
        BY InitIInv, InitJInv DEF FlowInit, IInv
    <2>2. \A l \in Links : link[l] = NewLink
        BY DEF FlowInit, Init
    <2> DEFINE D == SUBSET Links
    <2>3. <<>> \in Seq(D)
        OBVIOUS
    <2>4. FlowTypeOK
        BY <2>1, <2>3 DEF FlowInit, FlowTypeOK
    <2>5. FlowInv
        BY <2>2, ZenonT(20) DEF FlowInit, Init, FlowInv, Rested, Free, NewLink
    <2> QED BY <2>1, <2>4, <2>5 DEF KInv
<1>2. KInv /\ [FlowNext]_allvars => KInv'
    BY LifeInv, LoopInv, NextInv, QueueInv DEF FlowNext
<1> QED BY <1>1, <1>2, PTL DEF FlowSpec

\* Router::send_L_Data always finds what it asserts: it is only called when every
\* link that is up is ready for a packet, and not before the start is complete.
THEOREM RouterCanSend == ASSUME EarlyNext = {} PROVE FlowSpec => []CanSend
<1>1. KInv => CanSend
    <2> SUFFICES ASSUME KInv PROVE CanSend
        OBVIOUS
    <2>1. links \subseteq Links
        BY DEF KInv, IInv, TypeOK
    <2> QED BY <2>1 DEF KInv, FlowInv, CanSend, AllReady, Free
<1> QED BY <1>1, FlowInductive, PTL

\* Traffic does not disturb the life cycle: setState never reaches its `inval:' label,
\* the state of a link tells what its driver does, and the router's summary is right,
\* also while packets are sent, time out or make drivers fail.
THEOREM LifeUnderTraffic ==
    ASSUME EarlyNext = {}
    PROVE  FlowSpec => [](/\ NoAbort /\ DriverMatchesState /\ RetryArmed
                         /\ RetriesBounded /\ SummaryAgrees)
<1>1. KInv => NoAbort /\ DriverMatchesState /\ RetryArmed /\ RetriesBounded
    BY DEF KInv, IInv, AllGood, Good, JInv, Bounded, NoAbort, DriverMatchesState, RetryArmed,
           RetriesBounded
<1>2. KInv => SummaryAgrees
    BY SummaryFollows DEF KInv
<1> QED BY <1>1, <1>2, FlowInductive, PTL
=============================================================================
