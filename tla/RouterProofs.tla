---------------------------- MODULE RouterProofs ----------------------------
(***************************************************************************)
(* Proofs about module Router, for every set of links and every            *)
(* configuration.                                                          *)
(***************************************************************************)
EXTENDS Router, TLAPS

\* What holds of every link record at the end of every callback.
Good(k) ==
    /\ k \in LinkRec
    /\ k.state # "abort"
    /\ k.state \in {"down", "wait_retry"} => k.drv = "off"
    /\ k.state = "going_up" => k.drv = "starting"
    /\ k.state = "up" => k.drv = "on"
    /\ k.state \in {"going_down", "going_down_error"} => k.drv = "stopping"
    /\ k.state = "up_error" => k.drv \in {"failed", "stopping"}
    /\ k.state = "error" => k.drv \in {"off", "failed", "stopping"}
    /\ k.state = "wait_retry" <=> k.timer \in {"new", "retry"}
    /\ k.timer = "send" => k.state = "up"

\* Retry leaves a link good whose driver is off.
LEMMA RetryGood ==
    ASSUME NEW l \in Links, NEW k \in LinkRec, k.drv = "off", k.timer = "off"
    PROVE  Good(Retry(l, k))
BY LinkConfig, ZenonT(20) DEF Retry, Good, Notify, In, LinkRec, LConnState, DriverState

\* stopped() is legal in every state a link can be in once stop() was called.
LEMMA SettleDownGood ==
    ASSUME NEW l \in Links, NEW k \in LinkRec, k.drv = "off", k.timer = "off",
           k.state \in {"down", "going_down", "going_up", "error", "up_error",
                        "going_down_error"}
    PROVE  Good(Settle(l, k, "down"))
<1> DEFINE n == Enter(k, "down")
<1>1. n \in LinkRec /\ n.drv = "off" /\ n.timer = "off" /\ n.state = "down"
    BY ZenonT(20) DEF Enter, LinkRec, LConnState
<1>2. CASE k.state = "down"
    BY <1>2 DEF Settle, Good, LinkRec
<1>3. CASE k.state = "going_down"
    <2>1. Settle(l, k, "down") = Notify(n)
        BY <1>3 DEF Settle
    <2> QED BY <2>1, <1>1, ZenonT(20) DEF Good, Notify, LinkRec
<1>4. CASE k.state \in {"going_up", "error", "up_error", "going_down_error"}
    <2>1. Settle(l, k, "down") = Retry(l, n)
        BY <1>4 DEF Settle
    <2> QED BY <2>1, <1>1, RetryGood
<1> QED BY <1>2, <1>3, <1>4

\* started() is legal while the link is going up.
LEMMA SettleUpGood ==
    ASSUME NEW l \in Links, NEW k \in LinkRec, k.drv = "on", k.timer = "off",
           k.state = "going_up"
    PROVE  Good(Settle(l, k, "up"))
<1> DEFINE n == Enter(k, "up")
           r == [n EXCEPT !.retries = 0]
<1>1. n \in LinkRec /\ n.drv = "on" /\ n.timer = "off" /\ n.state = "up"
    BY DEF Enter, LinkRec, LConnState
<1>2. Settle(l, k, "up") = Notify(r)
    BY DEF Settle
<1> HIDE DEF n
<1>3. r \in LinkRec /\ r.drv = "on" /\ r.timer = "off" /\ r.state = "up"
    BY <1>1 DEF LinkRec
<1> HIDE DEF r
<1> QED BY <1>2, <1>3, ZenonT(20) DEF Good, Notify, LinkRec

\* errored() is legal in every state in which the driver is active.
LEMMA SettleErrorGood ==
    ASSUME NEW l \in Links, NEW k \in LinkRec, NEW a,
           k.state \in {"up", "going_up", "going_down", "error", "up_error", "going_down_error"},
           k.state # "up" => k.timer = "off",
           k.timer \notin {"new", "retry"},
           k.state \in {"going_down", "going_down_error"} => k.drv = "stopping",
           k.drv \in {"failed", "stopping"}
    PROVE  /\ SetState(l, k, "error", a) = Settle(l, k, "error")
           /\ Good(Settle(l, k, "error"))
<1> DEFINE n == Enter(k, "error")
<1>0. SetState(l, k, "error", a) = Settle(l, k, "error")
    BY DEF SetState
<1> SUFFICES Good(Settle(l, k, "error"))
    BY <1>0
<1>1. n \in LinkRec /\ n.drv = k.drv /\ n.timer = "off" /\ n.state = "error"
    BY ZenonT(20) DEF Enter, LinkRec, LConnState
<1> HIDE DEF n
<1>2. CASE k.state = "error"
    <2>1. Settle(l, k, "error") = k
        BY <1>2 DEF Settle
    <2> QED BY <1>2, <2>1 DEF Good
<1>3. CASE k.state \in {"up", "going_up"}
    <2>1. Settle(l, k, "error") = Notify(In(n, "up_error"))
        BY <1>3 DEF Settle, n
    <2> QED BY <2>1, <1>1, ZenonT(20) DEF Good, Notify, In, LinkRec, LConnState
<1>4. CASE k.state = "going_down"
    <2>1. Settle(l, k, "error") = Notify(In(n, "going_down_error"))
        BY <1>4 DEF Settle, n
    <2> QED BY <2>1, <1>1, <1>4, ZenonT(20) DEF Good, Notify, In, LinkRec, LConnState
<1>5. CASE k.state \in {"up_error", "going_down_error"}
    <2>1. Settle(l, k, "error") = Notify(n)
        BY <1>5 DEF Settle, n
    <2> QED BY <2>1, <1>1, ZenonT(20) DEF Good, Notify, LinkRec
<1> QED BY <1>2, <1>3, <1>4, <1>5

\* LinkConnect::stop in the states in which setState and the router call it.
LEMMA StopGood ==
    ASSUME NEW l \in Links, NEW k \in LinkRec, NEW a, k.timer = "off",
           \/ k.state \in {"going_down", "going_down_error", "up_error"}
           \/ k.state = "down" /\ k.drv = "off"
    PROVE  Good(Stop(l, k, a))
<1>1. CASE a = "later" /\ k.drv # "off"
    <2>1. Stop(l, k, a) = [k EXCEPT !.drv = "stopping"]
        BY <1>1 DEF Stop
    <2> QED BY <1>1, <2>1 DEF Good, LinkRec, DriverState
<1>2. CASE ~(a = "later" /\ k.drv # "off")
    <2> DEFINE d == [k EXCEPT !.drv = "off"]
    <2>1. Stop(l, k, a) = Settle(l, d, "down")
        BY <1>2 DEF Stop
    <2>2. d \in LinkRec /\ d.drv = "off" /\ d.timer = "off" /\ d.state = k.state
        BY DEF LinkRec, DriverState
    <2> HIDE DEF d
    <2> QED BY <2>1, <2>2, SettleDownGood
<1> QED BY <1>1, <1>2

\* LinkConnect::start, whatever the driver answers.
LEMMA StartGood ==
    ASSUME NEW l \in Links, NEW k \in LinkRec, NEW a \in Answer,
           k.timer = "off", k.state = "going_up"
    PROVE  Good(Start(l, k, a))
<1> DEFINE s(d) == [[k EXCEPT !.send_more = TRUE] EXCEPT !.drv = d]
<1>s. ASSUME NEW d \in DriverState
      PROVE  /\ s(d) \in LinkRec /\ s(d).drv = d /\ s(d).timer = "off"
             /\ s(d).state = "going_up"
    BY DEF LinkRec
<1>1. CASE a = "ok"
    <2>1. Start(l, k, a) = Settle(l, s("on"), "up")
        BY <1>1 DEF Start
    <2>2. s("on") \in LinkRec /\ s("on").drv = "on" /\ s("on").timer = "off"
          /\ s("on").state = "going_up"
        BY <1>s DEF DriverState
    <2> HIDE DEF s
    <2> QED BY <2>1, <2>2, SettleUpGood
<1>2. CASE a = "fail"
    <2>1. Start(l, k, a) = Settle(l, s("off"), "down")
        BY <1>2 DEF Start
    <2>2. s("off") \in LinkRec /\ s("off").drv = "off" /\ s("off").timer = "off"
          /\ s("off").state = "going_up"
        BY <1>s DEF DriverState
    <2> HIDE DEF s
    <2> QED BY <2>1, <2>2, SettleDownGood
<1>3. CASE a = "error"
    <2>1. Start(l, k, a) = Settle(l, s("failed"), "error")
        BY <1>3 DEF Start
    <2>2. s("failed") \in LinkRec /\ s("failed").drv = "failed" /\ s("failed").timer = "off"
          /\ s("failed").state = "going_up"
        BY <1>s DEF DriverState
    <2> HIDE DEF s
    <2> QED BY <2>1, <2>2, SettleErrorGood
<1>4. CASE a = "later"
    <2>1. Start(l, k, a) = s("starting")
        BY <1>4 DEF Start
    <2> QED BY <2>1, <1>s DEF Good, DriverState
<1> QED BY <1>1, <1>2, <1>3, <1>4 DEF Answer

\* Reporting a change does not harm the link.
LEMMA NotifyGood == ASSUME NEW k, Good(k) PROVE Good(Notify(k))
BY ZenonT(20) DEF Good, Notify, LinkRec

\* setState(L_going_up) on a link that is down or waits for its retry.
LEMMA GoingUpGood ==
    ASSUME NEW l \in Links, NEW k, NEW a \in Answer, Good(k),
           k.state \in {"down", "wait_retry"}
    PROVE  Good(SetState(l, k, "going_up", a))
<1> DEFINE n == Enter(k, "going_up")
<1>1. SetState(l, k, "going_up", a) = Notify(Start(l, n, a))
    BY DEF SetState
<1>2. n \in LinkRec /\ n.state = "going_up" /\ n.timer = "off"
    BY ZenonT(20) DEF Good, Enter, LinkRec, LConnState
<1> HIDE DEF n
<1> QED BY <1>1, <1>2, StartGood, NotifyGood

\* setState(L_going_down) is legal in every state.
LEMMA GoingDownGood ==
    ASSUME NEW l \in Links, NEW k, NEW a, Good(k)
    PROVE  Good(SetState(l, k, "going_down", a))
<1> DEFINE n == Enter(k, "going_down")
<1>0. k \in LinkRec /\ k.state \in LConnState
    BY DEF Good, LinkRec
<1>1. n \in LinkRec /\ n.state = "going_down" /\ n.timer = "off" /\ n.drv = k.drv
    BY <1>0, ZenonT(20) DEF Good, Enter, LinkRec, LConnState
<1> HIDE DEF n
<1>2. CASE k.state \in {"up", "going_up"}
    <2>1. SetState(l, k, "going_down", a) = Notify(Stop(l, n, a))
        BY <1>2 DEF SetState, n
    <2> QED BY <2>1, <1>1, StopGood, NotifyGood
<1>3. CASE k.state = "up_error"
    <2>1. SetState(l, k, "going_down", a) = Notify(Stop(l, In(n, "going_down_error"), a))
        BY <1>3 DEF SetState, n
    <2>2. /\ In(n, "going_down_error") \in LinkRec
          /\ In(n, "going_down_error").state = "going_down_error"
          /\ In(n, "going_down_error").timer = "off"
        BY <1>1 DEF In, LinkRec, LConnState
    <2> QED BY <2>1, <2>2, StopGood, NotifyGood
<1>4. CASE k.state \in {"down", "wait_retry"}
    <2>1. SetState(l, k, "going_down", a) = Notify(In(n, "down"))
        BY <1>4 DEF SetState, Settle, n
    <2> QED BY <2>1, <1>1, <1>4, ZenonT(20) DEF Good, Notify, In, LinkRec, LConnState
<1>5. CASE k.state = "going_down"
    BY <1>5 DEF SetState, Settle
<1>6. CASE k.state \in {"error", "going_down_error"}
    <2>1. SetState(l, k, "going_down", a) = Notify(In(n, k.state))
        BY <1>6 DEF SetState, Settle, n
    <2> QED BY <2>1, <1>0, <1>1, <1>6, ZenonT(20) DEF Good, Notify, In, LinkRec, LConnState
<1> QED BY <1>0, <1>2, <1>3, <1>4, <1>5, <1>6 DEF LConnState

\* started(), from a driver that is starting.
LEMMA StartedGood ==
    ASSUME NEW l \in Links, NEW k, Good(k), k.drv = "starting"
    PROVE  Good(Started(l, k))
<1> DEFINE d == [k EXCEPT !.drv = "on"]
<1>1. k.state = "going_up"
    BY DEF Good, LinkRec, LConnState
<1>2. d \in LinkRec /\ d.drv = "on" /\ d.timer = "off" /\ d.state = "going_up"
    BY <1>1 DEF Good, LinkRec, DriverState
<1> HIDE DEF d
<1>3. Started(l, k) = Settle(l, d, "up")
    BY <1>2 DEF Started, SetState, d
<1> QED BY <1>2, <1>3, SettleUpGood

\* stopped(), from a driver that was asked to stop or that stops by itself.
LEMMA StoppedGood ==
    ASSUME NEW l \in Links, NEW k, NEW a, Good(k), k.drv # "off"
    PROVE  Good(Stopped(l, k, a))
<1> DEFINE d == [k EXCEPT !.drv = "off"]
<1>1. k \in LinkRec /\ k.state \in LConnState \ {"down", "wait_retry"}
    BY DEF Good, LinkRec
<1>2. d \in LinkRec /\ d.drv = "off" /\ d.state = k.state /\ d.timer = k.timer
    BY <1>1 DEF LinkRec, DriverState
<1>3. k.state # "up" => d.timer = "off"
    BY <1>1, <1>2 DEF Good, LinkRec
<1> HIDE DEF d
<1>4. CASE k.state = "up"
    <2> DEFINE n == Enter(d, "down")
    <2>1. Stopped(l, k, a) = Notify(Stop(l, n, a))
        BY <1>4, <1>2 DEF Stopped, SetState, d
    <2>2. n \in LinkRec /\ n.drv = "off" /\ n.timer = "off" /\ n.state = "down"
        BY <1>2, <1>4 DEF Enter, LinkRec, LConnState
    <2> HIDE DEF n
    <2> QED BY <2>1, <2>2, StopGood, NotifyGood
<1>5. CASE k.state # "up"
    <2>1. Stopped(l, k, a) = Settle(l, d, "down")
        BY <1>5, <1>2 DEF Stopped, SetState, d
    <2> QED BY <1>1, <1>2, <1>3, <1>5, <2>1, SettleDownGood DEF LConnState
<1> QED BY <1>4, <1>5

\* errored(), from a driver that is starting or on.
LEMMA ErroredGood ==
    ASSUME NEW l \in Links, NEW k, Good(k), k.drv # "off"
    PROVE  Good(Errored(l, k))
<1> DEFINE d == [k EXCEPT !.drv = IF @ = "stopping" THEN @ ELSE "failed"]
<1>1. k \in LinkRec /\ k.state \in LConnState \ {"down", "wait_retry"}
    BY DEF Good, LinkRec
<1>2. d \in LinkRec /\ d.drv \in {"failed", "stopping"} /\ d.state = k.state /\ d.timer = k.timer
    BY <1>1 DEF LinkRec, DriverState
<1>3. k.state \in {"going_down", "going_down_error"} => d.drv = "stopping"
    BY <1>1 DEF Good, LinkRec
<1>4. (k.state # "up" => d.timer = "off") /\ d.timer \notin {"new", "retry"}
    BY <1>1, <1>2 DEF Good, LinkRec
<1> HIDE DEF d
<1>5. Errored(l, k) = SetState(l, d, "error", "later")
    BY DEF Errored, d
<1> QED BY <1>1, <1>2, <1>3, <1>4, <1>5, SettleErrorGood DEF LConnState

\* retry_timer_cb, as a restart or as a send timeout.
LEMMA RetryTimerGood ==
    ASSUME NEW l \in Links, NEW k, NEW a \in Answer, Good(k)
    PROVE  Good(RetryTimer(l, k, a))
<1> DEFINE t == [k EXCEPT !.timer = "off"]
           r == [t EXCEPT !.retries = IF MaxRetries[l] > 0 THEN @ + 1 ELSE @]
           s == Enter(r, "going_up")
<1>1. CASE k.state = "up" /\ ~k.send_more
    <2>1. RetryTimer(l, k, a) = Errored(l, t)
        BY <1>1 DEF RetryTimer
    <2>2. Good(t) /\ t.drv # "off"
        BY <1>1 DEF Good, LinkRec
    <2> QED BY <2>1, <2>2, ErroredGood
<1>2. CASE k.state = "wait_retry"
    <2>0. t \in LinkRec /\ t.state = "wait_retry" /\ t.timer = "off"
        BY <1>2 DEF Good, LinkRec
    <2> HIDE DEF t
    <2>1. r \in LinkRec /\ r.state = "wait_retry" /\ r.timer = "off"
        BY <2>0 DEF LinkRec
    <2>2. RetryTimer(l, k, a) = SetState(l, r, "going_up", a)
        BY <1>2 DEF RetryTimer, t
    <2> HIDE DEF r
    <2>3. SetState(l, r, "going_up", a) = Notify(Start(l, s, a))
        BY <2>1 DEF SetState
    <2>4. s \in LinkRec /\ s.state = "going_up" /\ s.timer = "off"
        BY <2>1 DEF Enter, LinkRec, LConnState
    <2> HIDE DEF s
    <2> QED BY <2>2, <2>3, <2>4, StartGood, NotifyGood
<1>3. CASE ~(k.state = "up" /\ ~k.send_more) /\ k.state # "wait_retry"
    <2>1. RetryTimer(l, k, a) = t
        BY <1>3 DEF RetryTimer
    <2> QED BY <2>1, <1>3 DEF Good, LinkRec
<1> QED BY <1>1, <1>2, <1>3

-----------------------------------------------------------------------------
\* The inductive invariant: every link is good, main() starts with new links,
\* and whoever is in linkChanges has sent the trigger.
AllGood == \A l \in Links : Good(link[l])
FreshStart == phase = "setup" => \A l \in Links : link[l] = NewLink
Seen == Notified(link) => state_trigger

IInv == TypeOK /\ AllGood /\ FreshStart /\ Seen

\* A new link is good.
LEMMA NewLinkGood == Good(NewLink)
BY DEF Good, NewLink, LinkRec, LConnState, DriverState

\* Functions over the links that only hold good records.
LEMMA GoodFunction ==
    ASSUME NEW f, f = [l \in Links |-> f[l]], \A l \in Links : Good(f[l])
    PROVE  f \in [Links -> LinkRec]
BY DEF Good

\* The initial states satisfy the invariant.
LEMMA InitIInv == Init => IInv
<1> SUFFICES ASSUME Init PROVE IInv
    OBVIOUS
<1> USE DEF Init
<1>1. AllGood
    BY NewLinkGood DEF AllGood
<1>2. link \in [Links -> LinkRec]
    BY NewLinkGood DEF Good
<1>3. TypeOK
    BY <1>2, RouterConfig DEF TypeOK, Static
<1>4. FreshStart
    BY DEF FreshStart
<1>5. Seen
    <2>1. ~ \E l \in Links : link[l].chg
        BY DEF NewLink
    <2> QED BY <2>1 DEF Seen, Notified
<1> QED BY <1>1, <1>3, <1>4, <1>5 DEF IInv

\* The loop of Router::stop_ keeps the links good.
LEMMA StopAllGood ==
    ASSUME NEW f, NEW how, \A l \in Links : Good(f[l])
    PROVE  /\ StopAll(f, how) \in [Links -> LinkRec]
           /\ \A l \in Links : Good(StopAll(f, how)[l])
<1>1. ASSUME NEW l \in Links PROVE Good(StopAll(f, how)[l])
    <2>1. CASE l \in links
        <3>1. StopAll(f, how)[l] = SetState(l, f[l], "going_down", how[l])
            BY <2>1 DEF StopAll
        <3> QED BY <3>1, GoingDownGood
    <2>2. CASE l \notin links
        <3>1. StopAll(f, how)[l] = f[l]
            BY <2>2 DEF StopAll
        <3> QED BY <3>1
    <2> QED BY <2>1, <2>2
<1>2. StopAll(f, how) = [l \in Links |-> StopAll(f, how)[l]]
    BY DEF StopAll
<1> HIDE DEF StopAll
<1> QED BY <1>1, <1>2, GoodFunction

\* The three passes of state_trigger_cb over one link.
LEMMA PassesGood ==
    ASSUME NEW l \in Links, NEW k, NEW a, Good(k)
    PROVE  /\ Good(Drain(l, k, a))
           /\ Good([k EXCEPT !.chg = FALSE])
           /\ Good(Halt(l, k, a))
           /\ Good(Push(l, k, a))
<1>1. Good(Drain(l, k, a))
    <2> DEFINE d == [k EXCEPT !.chg = FALSE, !.timer = IF @ = "new" THEN "retry" ELSE @]
    <2>1. Good(d)
        BY ZenonT(20) DEF Good, LinkRec
    <2> HIDE DEF d
    <2>2. Drain(l, k, a) \in {d, SetState(l, d, "going_down", a)}
        BY DEF Drain, d
    <2> QED BY <2>1, <2>2, GoingDownGood
<1>2. Good([k EXCEPT !.chg = FALSE])
    BY ZenonT(20) DEF Good, LinkRec
<1>3. Good(Halt(l, k, a))
    <2>1. CASE l \in links \ Transient /\ k.state \in {"up_error", "going_down_error"}
        <3>1. k \in LinkRec /\ k.timer = "off"
            BY <2>1 DEF Good, LinkRec
        <3> QED BY <2>1, <3>1, StopGood DEF Halt
    <2>2. CASE ~(l \in links \ Transient /\ k.state \in {"up_error", "going_down_error"})
        BY <2>2 DEF Halt
    <2> QED BY <2>1, <2>2
<1>4. Good(Push(l, k, a))
    BY GoingDownGood DEF Push
<1> QED BY <1>1, <1>2, <1>3, <1>4

\* One changed link, through linkStateChanged or not at all.
LEMMA UpdateIInv ==
    ASSUME IInv, phase # "setup", NEW l \in Links, NEW k, Good(k), Update(l, k)
    PROVE  IInv'
<1> USE DEF Update, IInv
<1>1. k \in LinkRec
    BY DEF Good
<1>2. link' \in [Links -> LinkRec]
    BY <1>1 DEF TypeOK
<1>3. AllGood'
    BY DEF AllGood, TypeOK
<1>4. Seen'
    BY DEF Seen, Notified, TypeOK
<1>5. state_trigger' \in BOOLEAN
    BY <1>1 DEF TypeOK, LinkRec
<1>6. TypeOK'
    BY <1>2, <1>5 DEF TypeOK, flags
<1>7. FreshStart'
    BY DEF FreshStart
<1> QED BY <1>3, <1>4, <1>6, <1>7

\* What an action has to show that changes any number of links at once.
LEMMA ManyIInv ==
    ASSUME IInv,
           link' \in [Links -> LinkRec], \A l \in Links : Good(link'[l]),
           phase' \in {"run", "shutdown", "exit", "killed"},
           Notified(link') => state_trigger',
           /\ Static \subseteq links' /\ links' \subseteq Links
           /\ want_up' \in BOOLEAN /\ some_running' \in BOOLEAN /\ all_running' \in BOOLEAN
           /\ running_signal' \in BOOLEAN /\ is_started' \in BOOLEAN
           /\ state_trigger' \in BOOLEAN /\ start_timer' \in BOOLEAN
           /\ exitcode' \in {0, 1} /\ sd_ready' \in BOOLEAN
    PROVE  IInv'
<1>1. TypeOK'
    BY DEF TypeOK, Static
<1>2. AllGood'
    BY DEF AllGood
<1>3. FreshStart' /\ Seen'
    BY DEF FreshStart, Seen, Notified
<1> QED BY <1>1, <1>2, <1>3 DEF IInv

\* Notified is a truth value.
LEMMA NotifiedBoolean == ASSUME NEW f PROVE Notified(f) \in BOOLEAN
BY DEF Notified

\* The router's main callback.
LEMMA StateTriggerIInv ==
    ASSUME IInv, NEW how, state_trigger_cb(how)
    PROVE  IInv'
<1> DEFINE drained == [l \in Links |-> Drain(l, link[l], how[l])]
           halted  == [l \in Links |-> Halt(l, [drained[l] EXCEPT !.chg = FALSE], how[l])]
           pushed  == [l \in Links |-> Push(l, halted[l], how[l])]
           going   == \E l \in Links : CountsGoing(l, halted[l].state)
           up      == \E l \in Links : CountsUp(l, halted[l].state)
           down    == \E l \in Links : CountsDown(l, halted[l].state)
           some    == going \/ up
           all     == up /\ ~going /\ ~down
           hard    == want_up /\ down
           high_stopped == some_running /\ ~some
           high_started == ~high_stopped /\ all /\ ~all_running
<1>1. \A l \in Links : Good(drained[l])
    BY PassesGood DEF IInv, AllGood
<1>2. \A l \in Links : Good(halted[l])
    <2> HIDE DEF drained
    <2>1. \A l \in Links : Good([drained[l] EXCEPT !.chg = FALSE])
        BY <1>1, PassesGood
    <2>2. \A l \in Links : halted[l] = Halt(l, [drained[l] EXCEPT !.chg = FALSE], how[l])
        OBVIOUS
    <2> HIDE DEF halted
    <2>3. ASSUME NEW l \in Links PROVE Good(halted[l])
        <3> DEFINE c == [drained[l] EXCEPT !.chg = FALSE]
        <3>1. Good(c) /\ halted[l] = Halt(l, c, how[l])
            BY <2>1, <2>2
        <3> HIDE DEF c
        <3> QED BY <3>1, PassesGood
    <2> QED BY <2>3
<1> HIDE DEF halted
<1>3. \A l \in Links : Good(pushed[l])
    BY <1>2, PassesGood
<1>4. pushed \in [Links -> LinkRec]
    BY <1>3 DEF Good
<1> HIDE DEF drained, pushed, going, up, down
<1>5. /\ InLoop /\ state_trigger
      /\ some_running' = some
      /\ IF hard \/ (high_stopped /\ want_up)
         THEN DoStop(pushed, how)
         ELSE want_up' = want_up /\ all_running' = all /\ link' = pushed
      /\ state_trigger' = (Notified(drained) \/ Notified(link'))
      /\ exitcode' = IF hard THEN 1 ELSE exitcode
      /\ is_started' = (~high_stopped /\ (is_started \/ high_started))
      /\ running_signal' = (running_signal \/ (high_started /\ ~is_started))
      /\ start_timer' = (start_timer /\ ~high_started)
      /\ phase' = IF high_stopped /\ (hard \/ ~want_up) THEN "shutdown" ELSE phase
      /\ UNCHANGED <<links, sd_ready>>
    BY DEF state_trigger_cb, HighStarted, StartTimer, drained, halted, pushed, going, up, down
<1>6. link' \in [Links -> LinkRec] /\ \A l \in Links : Good(link'[l])
    <2>1. CASE hard \/ (high_stopped /\ want_up)
        BY <1>3, <1>5, <2>1, StopAllGood DEF DoStop
    <2>2. CASE ~(hard \/ (high_stopped /\ want_up))
        BY <1>3, <1>4, <1>5, <2>2
    <2> QED BY <2>1, <2>2
<1>7. phase' \in {"run", "shutdown", "exit", "killed"}
    BY <1>5 DEF InLoop, IInv, TypeOK
<1>8. want_up' \in BOOLEAN /\ all_running' \in BOOLEAN
    BY <1>5 DEF DoStop, IInv, TypeOK
<1>9. state_trigger' \in BOOLEAN /\ (Notified(link') => state_trigger')
    BY <1>5, ZenonT(20)
<1>10. /\ Static \subseteq links' /\ links' \subseteq Links
       /\ exitcode' \in {0, 1} /\ sd_ready' \in BOOLEAN
    BY <1>5 DEF IInv, TypeOK
<1>11. /\ some_running' \in BOOLEAN /\ running_signal' \in BOOLEAN
       /\ is_started' \in BOOLEAN /\ start_timer' \in BOOLEAN
    BY <1>5
<1> QED BY <1>6, <1>7, <1>8, <1>9, <1>10, <1>11, ManyIInv

\* main() starts the links: they are new, so setState(L_going_up) is legal.
LEMMA StartIInv ==
    ASSUME IInv, NEW how \in [Links -> Answer], start(how)
    PROVE  IInv'
<1> USE DEF start
<1>1. ASSUME NEW l \in Links PROVE Good(link'[l])
    <2>1. link[l] = NewLink /\ Good(link[l]) /\ link[l].state = "down"
        BY NewLinkGood DEF IInv, FreshStart, NewLink
    <2>2. how[l] \in Answer
        OBVIOUS
    <2>3. link'[l] \in {link[l], SetState(l, link[l], "going_up", how[l])}
        OBVIOUS
    <2> QED BY <2>1, <2>2, <2>3, GoingUpGood
<1>2. link' = [l \in Links |-> link'[l]]
    OBVIOUS
<1>3. link' \in [Links -> LinkRec]
    BY <1>1, <1>2, GoodFunction
<1>4. state_trigger' \in BOOLEAN /\ (Notified(link') => state_trigger')
    BY NotifiedBoolean
<1>5. /\ Static \subseteq links' /\ links' \subseteq Links
      /\ want_up' \in BOOLEAN /\ some_running' \in BOOLEAN /\ all_running' \in BOOLEAN
      /\ running_signal' \in BOOLEAN /\ is_started' \in BOOLEAN
      /\ start_timer' \in BOOLEAN /\ exitcode' \in {0, 1} /\ sd_ready' \in BOOLEAN
      /\ phase' = "run"
    BY RouterConfig DEF IInv, TypeOK
<1> QED BY <1>1, <1>3, <1>4, <1>5, ManyIInv

\* A signal or the start timeout stops the router.
LEMMA StopIInv ==
    ASSUME IInv, NEW how, signal_cb(how) \/ start_timer_cb(how)
    PROVE  IInv'
<1>1. /\ IF want_up THEN DoStop(link, how) ELSE UNCHANGED <<want_up, all_running, link>>
      /\ state_trigger' = (state_trigger \/ Notified(link'))
      /\ UNCHANGED <<links, some_running, running_signal, is_started, exitcode, sd_ready>>
      /\ start_timer' \in {start_timer, FALSE}
      /\ phase # "setup" /\ phase' \in {phase, "shutdown"}
    BY DEF signal_cb, start_timer_cb, InLoop
<1>2. link' \in [Links -> LinkRec] /\ \A l \in Links : Good(link'[l])
    BY <1>1, StopAllGood DEF DoStop, IInv, AllGood, TypeOK
<1>3. state_trigger' \in BOOLEAN /\ (Notified(link') => state_trigger')
    BY <1>1
<1>4. want_up' \in BOOLEAN /\ all_running' \in BOOLEAN
    BY <1>1 DEF DoStop, IInv, TypeOK
<1>5. /\ Static \subseteq links' /\ links' \subseteq Links /\ some_running' \in BOOLEAN
      /\ running_signal' \in BOOLEAN /\ is_started' \in BOOLEAN
      /\ start_timer' \in BOOLEAN /\ exitcode' \in {0, 1} /\ sd_ready' \in BOOLEAN
      /\ phase' \in {"run", "shutdown", "exit", "killed"}
    BY <1>1, ZenonT(20) DEF IInv, TypeOK
<1> QED BY <1>2, <1>3, <1>4, <1>5, ManyIInv

\* A client link comes or goes.
LEMMA ClientIInv ==
    ASSUME IInv, NEW l \in Links, NEW a \in Answer,
           registerLink(l, a) \/ unregisterLink(l)
    PROVE  IInv'
<1> DEFINE k == SetState(l, NewLink, "going_up", a)
<1>0. Good(k) /\ k \in LinkRec
    <2>1. NewLink.state = "down"
        BY DEF NewLink
    <2>2. Good(k)
        BY <2>1, NewLinkGood, GoingUpGood
    <2> QED BY <2>2 DEF Good
<1> HIDE DEF k
<1>1. /\ InLoop /\ l \in Transient
      /\ links' \in {links \cup {l}, links \ {l}}
      /\ link' \in {link, [link EXCEPT ![l] = k], [link EXCEPT ![l] = NewLink]}
      /\ state_trigger' = TRUE \/ UNCHANGED <<state_trigger, link>>
      /\ all_running' \in {all_running, FALSE}
      /\ UNCHANGED <<want_up, some_running, running_signal, is_started, start_timer,
                     exitcode, phase, sd_ready>>
    BY DEF registerLink, unregisterLink, flags, k
<1>2. link' \in [Links -> LinkRec] /\ \A i \in Links : Good(link'[i])
    <2>1. NewLink \in LinkRec
        BY NewLinkGood DEF Good
    <2> QED BY <1>0, <1>1, <2>1, NewLinkGood DEF IInv, AllGood, TypeOK
<1>3. state_trigger' \in BOOLEAN /\ (Notified(link') => state_trigger')
    <2>1. CASE state_trigger' = TRUE
        BY <2>1
    <2>2. CASE UNCHANGED <<state_trigger, link>>
        BY <2>2 DEF IInv, Seen, TypeOK, Notified
    <2> QED BY <1>1, <2>1, <2>2, ZenonT(20)
<1>4. Static \subseteq links' /\ links' \subseteq Links
    BY <1>1, RouterConfig DEF IInv, TypeOK, Static
<1>5. /\ want_up' \in BOOLEAN /\ some_running' \in BOOLEAN /\ all_running' \in BOOLEAN
      /\ running_signal' \in BOOLEAN /\ is_started' \in BOOLEAN
      /\ start_timer' \in BOOLEAN /\ exitcode' \in {0, 1} /\ sd_ready' \in BOOLEAN
      /\ phase' \in {"run", "shutdown", "exit", "killed"}
    BY <1>1, ZenonT(20) DEF IInv, TypeOK, InLoop
<1> QED BY <1>2, <1>3, <1>4, <1>5, ManyIInv

\* Every step keeps the invariant.
LEMMA NextIInv == IInv /\ [Next]_vars => IInv'
<1> SUFFICES ASSUME IInv, [Next]_vars PROVE IInv'
    OBVIOUS
<1>0. ASSUME NEW l \in Links PROVE Good(link[l])
    BY DEF IInv, AllGood
<1>1. ASSUME NEW how \in [Links -> Answer], start(how) PROVE IInv'
    BY <1>1, StartIInv
<1>2. ASSUME NEW how, signal_cb(how) \/ start_timer_cb(how) PROVE IInv'
    BY <1>2, StopIInv
<1>3. ASSUME NEW how, state_trigger_cb(how) PROVE IInv'
    BY <1>3, StateTriggerIInv
<1>4. CASE signal_again \/ exit
    BY <1>4 DEF signal_again, exit, flags, IInv, TypeOK, AllGood, FreshStart, Seen, Notified
<1>5. CASE Terminated \/ UNCHANGED vars
    BY <1>5 DEF Terminated, vars, flags, IInv, TypeOK, AllGood, FreshStart, Seen, Notified
<1>6. ASSUME NEW l \in Links, started(l) PROVE IInv'
    BY <1>0, <1>6, StartedGood, UpdateIInv DEF started, InLoop
<1>7. ASSUME NEW l \in Links, NEW a, stopped(l, a) PROVE IInv'
    BY <1>0, <1>7, StoppedGood, UpdateIInv DEF stopped, InLoop
<1>8. ASSUME NEW l \in Links, errored(l) PROVE IInv'
    BY <1>0, <1>8, ErroredGood, UpdateIInv DEF errored, InLoop
<1>9. ASSUME NEW l \in Links, NEW a \in Answer, retry_timer_cb(l, a) PROVE IInv'
    BY <1>0, <1>9, RetryTimerGood, UpdateIInv DEF retry_timer_cb, InLoop
<1>10. ASSUME NEW l \in Links, NEW a \in Answer, registerLink(l, a) PROVE IInv'
    BY <1>10, ClientIInv
<1>11. ASSUME NEW l \in Links, unregisterLink(l) PROVE IInv'
    BY <1>11, ClientIInv DEF Answer
<1> QED BY <1>1, <1>2, <1>3, <1>4, <1>5, <1>6, <1>7, <1>8, <1>9, <1>10, <1>11 DEF Next

\* The invariant holds in every reachable state.
THEOREM Inductive == Spec => []IInv
BY InitIInv, NextIInv, PTL DEF Spec

-----------------------------------------------------------------------------
\* Type correctness of the router's state.
THEOREM TypeCorrect == Spec => []TypeOK
<1>1. IInv => TypeOK
    BY DEF IInv
<1> QED BY Inductive, <1>1, PTL

\* setState never reaches its `inval:' label, however many links there are, in
\* whatever order their drivers answer and however they are configured.
THEOREM NeverAborts == Spec => []NoAbort
<1>1. IInv => NoAbort
    BY DEF IInv, AllGood, Good, NoAbort
<1> QED BY Inductive, <1>1, PTL

\* The state of a link always tells what its driver is doing.
THEOREM StateTellsDriver == Spec => []DriverMatchesState
<1>1. IInv => DriverMatchesState
    BY DEF IInv, AllGood, Good, DriverMatchesState
<1> QED BY Inductive, <1>1, PTL

\* No restart is lost and no stale retry timer runs.
THEOREM RetryTimerRight == Spec => []RetryArmed
<1>1. IInv => RetryArmed
    BY DEF IInv, AllGood, Good, RetryArmed
<1> QED BY Inductive, <1>1, PTL

-----------------------------------------------------------------------------
(* What the router believes of its links.  These properties rest on which      *)
(* changes a link keeps to itself.                                             *)

\* The attempts of a link stay within max-retry=.
Bounded(l, k) ==
    /\ k.retries <= MaxRetries[l]
    /\ k.state = "wait_retry" /\ MaxRetries[l] > 0 => k.retries < MaxRetries[l]

\* From k to r the link either is in linkChanges afterwards, or it is not news:
\* its state is the same, or it now waits for its retry and was not up.
Quiet(k, r) ==
    \/ r.chg
    \/ ~k.chg /\ r.state = k.state /\ r.state # "up_error"
    \/ ~k.chg /\ r.state = "wait_retry" /\ k.state # "up"

\* A link that the router has not been told about is as the router thinks.
Told(l) ==
    ~link[l].chg =>
        /\ want_up /\ phase # "setup" /\ l \in Required => link[l].state \notin {"down", "error"}
        /\ all_running /\ l \in Required => link[l].state = "up"
        /\ ~some_running \/ ~want_up => link[l].state # "up"
        /\ link[l].state = "up_error" => link[l].drv = "stopping"

JInv == (\A l \in Links : Bounded(l, link[l])) /\ (\A l \in Static : Told(l))

\* What setState does without start() and stop(): nothing, a retry, a new state that
\* the router is told of, or abort().
LEMMA SettleForms ==
    ASSUME NEW l \in Links, NEW k \in LinkRec, NEW new \in LConnState \ {"wait_retry"}
    PROVE  \/ Settle(l, k, new) = k /\ k.state = new
           \/ Settle(l, k, new) = Retry(l, Enter(k, new)) /\ k.state # "up" /\ new = "down"
           \/ \E s \in LConnState \ {"wait_retry", "going_up"} :
                 /\ Settle(l, k, new) = Notify(In(Enter(k, new), s))
                 /\ s = "up" => new = "going_up" /\ k.state = "up"
           \/ /\ Settle(l, k, new) = Notify([Enter(k, new) EXCEPT !.retries = 0])
              /\ new = "up" /\ k.state = "going_up"
           \/ Settle(l, k, new) = In(Enter(k, new), "abort")
<1> DEFINE n == Enter(k, new)
<1>1. n = In(n, new)
    BY DEF Enter, In, LinkRec
<1> HIDE DEF n
<1>2. CASE new = "down"
    BY <1>1, <1>2 DEF Settle, LConnState, n
<1>3. CASE new = "error"
    BY <1>1, <1>3 DEF Settle, LConnState, n
<1>4. CASE new = "going_down"
    BY <1>1, <1>4 DEF Settle, LConnState, n
<1>5. CASE new \notin {"down", "error", "going_down"}
    BY <1>5 DEF Settle, LConnState, n
<1> QED BY <1>2, <1>3, <1>4, <1>5

\* linkStateChanged changes nothing else.
LEMMA NotifyTells ==
    ASSUME NEW r \in LinkRec
    PROVE  /\ Notify(r) \in LinkRec /\ Notify(r).chg
           /\ Notify(r).state = r.state /\ Notify(r).retries = r.retries
BY DEF Notify, LinkRec

\* ... and neither does an assignment to `state'.
LEMMA InTells ==
    ASSUME NEW r \in LinkRec, NEW s \in LConnState \cup {"abort"}
    PROVE  /\ In(r, s) \in LinkRec /\ In(r, s).state = s
           /\ In(r, s).retries = r.retries
BY DEF In, LinkRec

\* setState without start() and stop() keeps the bound of the attempts, and keeps to
\* itself only what is not news.
LEMMA SettleTells ==
    ASSUME NEW l \in Links, NEW k \in LinkRec, NEW new \in LConnState \ {"wait_retry", "up_error"}
    PROVE  /\ Settle(l, k, new) \in LinkRec
           /\ k.retries <= MaxRetries[l] => Bounded(l, Settle(l, k, new))
           /\ Settle(l, k, new).state # "abort" => Quiet(k, Settle(l, k, new))
           /\ new \notin {"up", "going_up"} => Settle(l, k, new).state # "up"
<1> DEFINE n == Enter(k, new)
<1>1. /\ n \in LinkRec /\ n.state = new /\ n.retries = k.retries /\ n.chg = k.chg
    BY DEF Enter, LinkRec
<1> HIDE DEF n
<1>2. CASE Settle(l, k, new) = k /\ k.state = new
    <2>1. k.chg \in BOOLEAN
        BY DEF LinkRec
    <2> QED BY <1>2, <2>1 DEF Quiet, Bounded
<1>3. CASE Settle(l, k, new) = Retry(l, n) /\ k.state # "up" /\ new = "down"
    <2> DEFINE w == [n EXCEPT !.state = "wait_retry", !.timer = "new"]
    <2>1. CASE Retry(l, n) = Notify(In(n, "error"))
        BY <1>1, <1>3, <2>1, InTells, NotifyTells DEF Bounded, Quiet, LConnState
    <2>2. CASE Retry(l, n) = w /\ (MaxRetries[l] > 0 => n.retries < MaxRetries[l])
        <3>1. w \in LinkRec /\ w.state = "wait_retry" /\ w.retries = k.retries /\ w.chg = k.chg
            BY <1>1, ZenonT(20) DEF LinkRec, LConnState
        <3>2. k.chg \in BOOLEAN
            BY DEF LinkRec
        <3> HIDE DEF w
        <3> QED BY <1>1, <1>3, <2>2, <3>1, <3>2 DEF Bounded, Quiet
    <2> QED BY <2>1, <2>2, <1>1, LinkConfig DEF Retry, LinkRec
<1>4. ASSUME NEW s \in LConnState \ {"wait_retry"}, Settle(l, k, new) = Notify(In(n, s)),
             s = "up" => new \in {"up", "going_up"}
      PROVE  /\ Settle(l, k, new) \in LinkRec
             /\ k.retries <= MaxRetries[l] => Bounded(l, Settle(l, k, new))
             /\ Quiet(k, Settle(l, k, new))
             /\ new \notin {"up", "going_up"} => Settle(l, k, new).state # "up"
    BY <1>1, <1>4, InTells, NotifyTells DEF Bounded, Quiet
<1>5. CASE Settle(l, k, new) = Notify([n EXCEPT !.retries = 0]) /\ new = "up"
    <2> DEFINE r == [n EXCEPT !.retries = 0]
    <2>1. r \in LinkRec /\ r.state = "up" /\ r.retries = 0
        BY <1>1, <1>5 DEF LinkRec
    <2> HIDE DEF r
    <2>2. Settle(l, k, new) = Notify(r)
        BY <1>5 DEF r
    <2> QED BY <1>5, <2>1, <2>2, LinkConfig, NotifyTells DEF Bounded, Quiet
<1>6. CASE Settle(l, k, new) = In(n, "abort")
    BY <1>1, <1>6, InTells DEF Bounded
<1> QED BY <1>2, <1>3, <1>4, <1>5, <1>6, SettleForms DEF n

\* A driver that is told to stop.
LEMMA StopTells ==
    ASSUME NEW l \in Links, NEW k \in LinkRec, NEW a, k.state \notin {"up", "wait_retry"}
    PROVE  /\ Stop(l, k, a) \in LinkRec
           /\ k.retries <= MaxRetries[l] => Bounded(l, Stop(l, k, a))
           /\ Stop(l, k, a).state # "up"
<1> DEFINE d == [k EXCEPT !.drv = "off"]
           s == [k EXCEPT !.drv = "stopping"]
<1>1. d \in LinkRec /\ d.retries = k.retries
    BY DEF Bounded, LinkRec, DriverState
<1>2. s \in LinkRec /\ (k.retries <= MaxRetries[l] => Bounded(l, s)) /\ s.state # "up"
    BY DEF Bounded, LinkRec, DriverState
<1> HIDE DEF d, s
<1>3. Stop(l, k, a) \in {s, Settle(l, d, "down")}
    BY DEF Stop, d, s
<1> QED BY <1>1, <1>2, <1>3, SettleTells DEF LConnState

\* A driver that is told to start.
LEMMA StartTells ==
    ASSUME NEW l \in Links, NEW k \in LinkRec, NEW a \in Answer, k.state # "wait_retry"
    PROVE  /\ Start(l, k, a) \in LinkRec
           /\ k.retries <= MaxRetries[l] => Bounded(l, Start(l, k, a))
<1> DEFINE s(d) == [[k EXCEPT !.send_more = TRUE] EXCEPT !.drv = d]
<1>1. ASSUME NEW d \in DriverState
      PROVE  s(d) \in LinkRec /\ (k.retries <= MaxRetries[l] => Bounded(l, s(d)))
             /\ s(d).retries = k.retries
    BY DEF Bounded, LinkRec
<1>2. Start(l, k, a) \in {s("starting"), Settle(l, s("on"), "up"), Settle(l, s("off"), "down"),
                          Settle(l, s("failed"), "error")}
    BY DEF Start
<1> HIDE DEF s
<1>3. {"starting", "on", "off", "failed"} \subseteq DriverState
    BY DEF DriverState
<1>4. {"up", "down", "error"} \subseteq LConnState \ {"wait_retry"}
    BY DEF LConnState
<1> QED BY <1>1, <1>2, <1>3, <1>4, SettleTells, ZenonT(20)

\* setState, as the router and the driver call it.
LEMMA SetStateTells ==
    ASSUME NEW l \in Links, NEW k \in LinkRec, NEW a,
           NEW new \in {"down", "up", "error", "going_down", "going_up"},
           new = "going_up" => a \in Answer
    PROVE  /\ k.retries <= MaxRetries[l] => Bounded(l, SetState(l, k, new, a))
           /\ SetState(l, k, new, a).state # "abort" => Quiet(k, SetState(l, k, new, a))
           /\ new = "going_down" => SetState(l, k, new, a).state # "up"
<1> DEFINE n == Enter(k, new)
           e == In(n, "going_down_error")
<1>1. n \in LinkRec /\ n.state = new /\ n.retries = k.retries
    BY DEF Enter, LinkRec, LConnState, Bounded
<1>2. e \in LinkRec /\ e.state = "going_down_error" /\ e.retries = k.retries
    BY <1>1 DEF In, LinkRec, LConnState, Bounded
<1>3. ASSUME NEW r \in LinkRec
      PROVE  Quiet(k, Notify(r)) /\ Notify(r).state = r.state
             /\ (Bounded(l, r) => Bounded(l, Notify(r)))
    BY NotifyTells DEF Quiet, Bounded
<1>4. \/ SetState(l, k, new, a) = Notify(Start(l, n, a)) /\ new = "going_up"
      \/ SetState(l, k, new, a) = Notify(Stop(l, n, a)) /\ new \in {"down", "going_down"}
      \/ SetState(l, k, new, a) = Notify(Stop(l, e, a))
      \/ SetState(l, k, new, a) = Settle(l, k, new)
    BY DEF SetState
<1> HIDE DEF n, e
<1>5. CASE SetState(l, k, new, a) = Notify(Start(l, n, a)) /\ new = "going_up"
    BY <1>1, <1>3, <1>5, StartTells
<1>6. CASE SetState(l, k, new, a) = Notify(Stop(l, n, a)) /\ new \in {"down", "going_down"}
    BY <1>1, <1>3, <1>6, StopTells
<1>7. CASE SetState(l, k, new, a) = Notify(Stop(l, e, a))
    BY <1>1, <1>2, <1>3, <1>7, StopTells
<1>8. CASE SetState(l, k, new, a) = Settle(l, k, new)
    BY <1>8, SettleTells DEF LConnState
<1> QED BY <1>4, <1>5, <1>6, <1>7, <1>8

\* setState, called by the link's driver or timer after a change of other members.
LEMMA CallTells ==
    ASSUME NEW l \in Links, NEW k \in LinkRec, NEW d \in LinkRec, NEW a,
           NEW new \in {"down", "up", "error", "going_up"}, new = "going_up" => a \in Answer,
           d.state = k.state, d.chg = k.chg, d.retries <= MaxRetries[l],
           Good(SetState(l, d, new, a))
    PROVE  Bounded(l, SetState(l, d, new, a)) /\ Quiet(k, SetState(l, d, new, a))
<1>1. SetState(l, d, new, a).state # "abort"
    BY DEF Good
<1>2. Bounded(l, SetState(l, d, new, a)) /\ Quiet(d, SetState(l, d, new, a))
    BY <1>1, SetStateTells
<1> QED BY <1>2 DEF Quiet

\* The three callbacks of the driver.
LEMMA DriverTells ==
    ASSUME NEW l \in Links, NEW k, NEW a, Good(k), Bounded(l, k)
    PROVE  /\ k.drv = "starting" => Bounded(l, Started(l, k)) /\ Quiet(k, Started(l, k))
           /\ k.drv # "off" => Bounded(l, Stopped(l, k, a)) /\ Quiet(k, Stopped(l, k, a))
           /\ k.drv # "off" => Bounded(l, Errored(l, k)) /\ Quiet(k, Errored(l, k))
<1> DEFINE d(x) == [k EXCEPT !.drv = x]
<1>0. k \in LinkRec /\ k.retries <= MaxRetries[l]
    BY DEF Good, Bounded
<1>1. ASSUME NEW x \in DriverState
      PROVE  /\ d(x) \in LinkRec /\ d(x).state = k.state /\ d(x).chg = k.chg
             /\ d(x).retries <= MaxRetries[l]
    BY <1>0 DEF LinkRec
<1>2. /\ Started(l, k) = SetState(l, d("on"), "up", "later")
      /\ Stopped(l, k, a) = SetState(l, d("off"), "down", a)
      /\ \/ Errored(l, k) = SetState(l, d("failed"), "error", "later")
         \/ Errored(l, k) = SetState(l, d("stopping"), "error", "later")
    BY DEF Started, Stopped, Errored
<1> HIDE DEF d
<1>3. {"on", "off", "failed", "stopping"} \subseteq DriverState
    BY DEF DriverState
<1>4. CASE k.drv = "starting"
    BY <1>0, <1>1, <1>2, <1>3, <1>4, StartedGood, StoppedGood, ErroredGood, CallTells
<1>5. CASE k.drv \notin {"off", "starting"}
    BY <1>0, <1>1, <1>2, <1>3, <1>5, StoppedGood, ErroredGood, CallTells
<1> QED BY <1>4, <1>5

\* retry_timer_cb counts an attempt only where one was left.
LEMMA TimerTells ==
    ASSUME NEW l \in Links, NEW k, NEW a \in Answer, Good(k), Bounded(l, k), k.timer # "off"
    PROVE  Bounded(l, RetryTimer(l, k, a)) /\ Quiet(k, RetryTimer(l, k, a))
<1> DEFINE t == [k EXCEPT !.timer = "off"]
           r == [t EXCEPT !.retries = IF MaxRetries[l] > 0 THEN @ + 1 ELSE @]
<1>0. k \in LinkRec /\ k.state \in {"up", "wait_retry"}
    BY DEF Good, LinkRec
<1>1. /\ t \in LinkRec /\ t.state = k.state /\ t.chg = k.chg /\ t.drv = k.drv
      /\ t.retries = k.retries /\ t.timer = "off" /\ k.retries \in Nat
    BY <1>0 DEF LinkRec
<1>2. CASE k.state = "up" /\ ~k.send_more
    <2>1. RetryTimer(l, k, a) = Errored(l, t)
        BY <1>2 DEF RetryTimer
    <2>2. Good(t) /\ t.drv # "off" /\ Bounded(l, t)
        BY <1>1, <1>2 DEF Good, Bounded
    <2> HIDE DEF t
    <2>3. Bounded(l, Errored(l, t)) /\ Quiet(t, Errored(l, t))
        BY <2>2, DriverTells
    <2> QED BY <1>1, <2>1, <2>3 DEF Quiet
<1>3. CASE k.state = "wait_retry"
    <2>1. RetryTimer(l, k, a) = SetState(l, r, "going_up", a)
        BY <1>3 DEF RetryTimer
    <2> HIDE DEF t
    <2>2. r \in LinkRec /\ r.state = k.state /\ r.chg = k.chg /\ r.retries <= MaxRetries[l]
        BY <1>1, <1>3, LinkConfig DEF Bounded, LinkRec
    <2> HIDE DEF r
    <2>3. Good(SetState(l, r, "going_up", a))
        BY <2>1, RetryTimerGood
    <2> QED BY <1>0, <2>1, <2>2, <2>3, CallTells
<1>4. CASE k.state = "up" /\ k.send_more
    <2>1. RetryTimer(l, k, a) = t
        BY <1>4 DEF RetryTimer
    <2>2. k.chg \in BOOLEAN
        BY <1>0 DEF LinkRec
    <2> QED BY <1>1, <1>4, <2>1, <2>2 DEF Bounded, Quiet
<1>5. k.send_more \in BOOLEAN
    BY <1>0 DEF LinkRec
<1> QED BY <1>0, <1>2, <1>3, <1>4, <1>5

\* One link through the three passes of state_trigger_cb.
LEMMA PassesTell ==
    ASSUME NEW l \in Links, NEW k, NEW a, Good(k), Bounded(l, k),
           NEW d, d = Drain(l, k, a), NEW h, h = Halt(l, [d EXCEPT !.chg = FALSE], a)
    PROVE  /\ Good(h) /\ Bounded(l, h) /\ Bounded(l, Push(l, h, a))
           /\ l \in links \ Transient /\ ~h.chg /\ h.state = "up_error" => h.drv = "stopping"
           /\ ~want_up /\ (~k.chg => k.state # "up") => h.state # "up"
           /\ ~want_up /\ h.state # "up" => Push(l, h, a).state # "up"
           /\ Push(l, h, a) = h
              \/ (Push(l, h, a).state = "up_error" => Push(l, h, a).chg)
<1> DEFINE e == [k EXCEPT !.chg = FALSE, !.timer = IF @ = "new" THEN "retry" ELSE @]
           c == [d EXCEPT !.chg = FALSE]
           o == [c EXCEPT !.drv = "off"]
           p == Push(l, h, a)
<1>0. k \in LinkRec /\ k.retries <= MaxRetries[l] /\ k.state \in LConnState
    BY DEF Good, Bounded, LinkRec
<1>1. e \in LinkRec /\ e.state = k.state /\ e.retries = k.retries
    BY <1>0 DEF LinkRec
<1>2. d = e \/ d = SetState(l, e, "going_down", a)
    BY DEF Drain
<1>3. ~want_up /\ k.chg /\ k.state = "up" => d = SetState(l, e, "going_down", a)
    BY DEF Drain
<1> HIDE DEF e
<1>4. Good(d) /\ d \in LinkRec
    <2>1. Good(d)
        BY PassesGood, ZenonT(20)
    <2> QED BY <2>1 DEF Good
<1>5. Bounded(l, d)
    <2>1. Bounded(l, e)
        BY <1>1 DEF Bounded
    <2> QED BY <1>0, <1>1, <1>2, <2>1, SetStateTells
<1>6. ~want_up /\ (~k.chg => k.state # "up") => d.state # "up"
    BY <1>0, <1>1, <1>2, <1>3, SetStateTells
<1>7. /\ Good(c) /\ c \in LinkRec /\ c.state = d.state /\ c.retries = d.retries
      /\ Bounded(l, c)
    <2>1. c \in LinkRec /\ c.state = d.state /\ c.retries = d.retries
        BY <1>4 DEF LinkRec
    <2>2. Good(c)
        BY <1>4, PassesGood
    <2> QED BY <1>5, <2>1, <2>2 DEF Bounded
<1> HIDE DEF c
<1>h. h = Halt(l, c, a)
    BY DEF c
<1>8. Good(h) /\ h \in LinkRec /\ h.state # "abort"
    <2>1. Good(h)
        BY <1>7, <1>h, PassesGood, ZenonT(20)
    <2> QED BY <2>1 DEF Good
<1>9. h = c \/ (c.state \in {"up_error", "going_down_error"} /\ h = Stop(l, c, a))
    BY <1>h DEF Halt
<1>10. l \in links \ Transient /\ c.state = "up_error" => h = Stop(l, c, a)
    BY <1>h DEF Halt
<1>11. Bounded(l, h) /\ (h.state = "up" => d.state = "up")
    BY <1>7, <1>9, StopTells DEF Bounded
<1>12. l \in links \ Transient /\ ~h.chg /\ h.state = "up_error" => h.drv = "stopping"
    <2> SUFFICES ASSUME l \in links \ Transient, ~h.chg, h.state = "up_error"
                 PROVE  h.drv = "stopping"
        OBVIOUS
    <2>1. h = Stop(l, c, a)
        BY <1>9, <1>10
    <2>2. CASE h = [c EXCEPT !.drv = "stopping"]
        BY <2>2, <1>7 DEF LinkRec
    <2>3. CASE h = Settle(l, o, "down")
        <3>1. o \in LinkRec
            BY <1>7 DEF LinkRec, DriverState
        <3> HIDE DEF o
        <3> QED BY <2>3, <3>1, <1>8, SettleTells DEF Quiet, LConnState
    <2> QED BY <2>1, <2>2, <2>3 DEF Stop
<1>13. p = h \/ (~want_up /\ p = SetState(l, h, "going_down", a))
    BY DEF Push
<1>14. Good(p)
    BY <1>8, PassesGood, ZenonT(20)
<1> HIDE DEF p
<1>15. h.retries <= MaxRetries[l] /\ p.state # "abort"
    BY <1>11, <1>14 DEF Bounded, Good
<1>16. p = h \/ (Bounded(l, p) /\ Quiet(h, p) /\ p.state # "up")
    BY <1>8, <1>13, <1>15, SetStateTells
<1>17. p = h \/ (p.state = "up_error" => p.chg)
    BY <1>16 DEF Quiet
<1> QED BY <1>6, <1>8, <1>11, <1>12, <1>16, <1>17 DEF p

\* One link changes by itself: the router's picture stays right.
LEMMA UpdateJInv ==
    ASSUME TypeOK, JInv, NEW l \in Links, NEW k \in LinkRec, Update(l, k),
           Bounded(l, k), Quiet(link[l], k)
    PROVE  JInv'
<1> USE DEF Update, JInv
<1>0. /\ UNCHANGED <<want_up, phase, all_running, some_running>>
      /\ link'[l] = k /\ \A i \in Links \ {l} : link'[i] = link[i]
    BY DEF TypeOK, flags
<1>1. \A i \in Links : Bounded(i, link'[i])
    BY <1>0
<1>2. ASSUME NEW i \in Static PROVE Told(i)'
    <2>1. i \in Links /\ (i # l => link'[i] = link[i])
        BY <1>0 DEF Static
    <2>2. CASE i # l
        BY <1>0, <2>1, <2>2 DEF Told
    <2>3. CASE i = l
        BY <1>0, <2>3 DEF Told, Quiet
    <2> QED BY <2>2, <2>3
<1> QED BY <1>1, <1>2

\* The initial states satisfy both.
LEMMA InitJInv == Init => JInv
<1> SUFFICES ASSUME Init PROVE JInv
    OBVIOUS
<1>1. ASSUME NEW l \in Links PROVE link[l] = NewLink /\ Bounded(l, link[l])
    BY LinkConfig DEF Init, Bounded, NewLink
<1>2. ASSUME NEW l \in Static PROVE Told(l)
    BY <1>1 DEF Init, Told, NewLink, Static
<1> QED BY <1>1, <1>2 DEF JInv

\* A new link that is started tells the router.
LEMMA FreshTells ==
    ASSUME NEW l \in Links, NEW a \in Answer
    PROVE  Bounded(l, SetState(l, NewLink, "going_up", a)) /\ SetState(l, NewLink, "going_up", a).chg
<1> DEFINE n == Enter(NewLink, "going_up")
<1>1. NewLink \in LinkRec /\ NewLink.state = "down" /\ NewLink.retries <= MaxRetries[l]
    BY NewLinkGood, LinkConfig DEF Good, NewLink
<1>2. n \in LinkRec /\ n.state = "going_up"
    BY <1>1, ZenonT(20) DEF Enter, LinkRec, LConnState
<1>3. SetState(l, NewLink, "going_up", a) = Notify(Start(l, n, a))
    BY <1>1 DEF SetState
<1> HIDE DEF n
<1>4. SetState(l, NewLink, "going_up", a).chg
    BY <1>2, <1>3, StartTells, NotifyTells
<1> QED BY <1>1, <1>4, SetStateTells

\* main() starts the links.
LEMMA StartJInv ==
    ASSUME IInv, JInv, NEW how \in [Links -> Answer], start(how)
    PROVE  JInv'
<1> USE DEF start
<1>0. /\ want_up' /\ some_running' /\ all_running' = all_running
      /\ \A l \in Links : link[l] = NewLink /\ how[l] \in Answer
      /\ Static \subseteq Links /\ Static \subseteq links /\ Required \subseteq Static
    BY DEF IInv, TypeOK, FreshStart, Static, Required
<1>1. ASSUME NEW l \in Links
      PROVE  \/ link'[l] = NewLink /\ l \notin links \ (Ignore \cup Transient)
             \/ link'[l] = SetState(l, NewLink, "going_up", how[l])
    BY <1>0
<1>2. ASSUME NEW l \in Links PROVE Bounded(l, link'[l])
    BY <1>0, <1>1, FreshTells DEF JInv
<1>3. ASSUME NEW l \in Static PROVE Told(l)'
    <2>1. CASE link'[l] = NewLink /\ l \notin links \ (Ignore \cup Transient)
        <3>1. l \notin Required /\ NewLink.state = "down"
            BY <1>0, <2>1 DEF Required, Static, NewLink
        <3> QED BY <1>0, <2>1, <3>1 DEF Told, Required, Static
    <2>2. CASE link'[l] = SetState(l, NewLink, "going_up", how[l])
        BY <1>0, <2>2, FreshTells DEF Told
    <2> QED BY <1>0, <1>1, <2>1, <2>2
<1> QED BY <1>2, <1>3 DEF JInv, Static

\* Router::stop_: afterwards no link is up without the router knowing it.
LEMMA StopAllTells ==
    ASSUME NEW f, NEW how, \A l \in Links : Good(f[l]) /\ Bounded(l, f[l]),
           NEW l \in Links
    PROVE  /\ Bounded(l, StopAll(f, how)[l])
           /\ l \in links =>
                 /\ StopAll(f, how)[l].state # "up"
                 /\ StopAll(f, how)[l].state = "up_error" => StopAll(f, how)[l].chg
<1>1. f[l] \in LinkRec /\ f[l].retries <= MaxRetries[l]
    BY DEF Good, Bounded
<1>2. Good(StopAll(f, how)[l])
    BY StopAllGood
<1>3. CASE l \in links
    <2>1. StopAll(f, how)[l] = SetState(l, f[l], "going_down", how[l])
        BY <1>3 DEF StopAll
    <2>2. SetState(l, f[l], "going_down", how[l]).state # "abort"
        BY <1>2, <2>1 DEF Good
    <2> QED BY <1>1, <2>1, <2>2, SetStateTells DEF Quiet
<1>4. CASE l \notin links
    BY <1>4 DEF StopAll
<1> QED BY <1>3, <1>4

\* What is left to show once the router has stopped.
LEMMA DoStopJInv ==
    ASSUME IInv, NEW f, NEW how, \A l \in Links : Good(f[l]) /\ Bounded(l, f[l]),
           DoStop(f, how)
    PROVE  JInv'
<1>1. \A l \in Links : Bounded(l, link'[l])
    BY StopAllTells DEF DoStop
<1>2. ASSUME NEW l \in Static PROVE Told(l)'
    <2>1. l \in Links /\ l \in links
        BY DEF IInv, TypeOK, Static
    <2>2. link'[l].state # "up" /\ (link'[l].state = "up_error" => link'[l].chg)
        BY <2>1, StopAllTells DEF DoStop
    <2> QED BY <2>2 DEF Told, DoStop
<1> QED BY <1>1, <1>2 DEF JInv, Static

\* A signal or the start timeout stops the router.
LEMMA StopJInv ==
    ASSUME IInv, JInv, NEW how, signal_cb(how) \/ start_timer_cb(how)
    PROVE  JInv'
<1>1. CASE want_up
    <2>1. DoStop(link, how)
        BY <1>1 DEF signal_cb, start_timer_cb
    <2> QED BY <2>1, DoStopJInv DEF JInv, IInv, AllGood
<1>2. CASE ~want_up
    <2>1. UNCHANGED <<want_up, all_running, link, some_running>>
        BY <1>2 DEF signal_cb, start_timer_cb
    <2> QED BY <1>2, <2>1 DEF JInv, Told, Static, Required, Bounded
<1> QED BY <1>1, <1>2 DEF IInv, TypeOK

\* Links of clients are none of the configured ones.
LEMMA ClientJInv ==
    ASSUME IInv, JInv, NEW l \in Links, NEW a \in Answer,
           registerLink(l, a) \/ unregisterLink(l)
    PROVE  JInv'
<1> DEFINE k == SetState(l, NewLink, "going_up", a)
<1>0. Bounded(l, k) /\ Bounded(l, NewLink)
    BY FreshTells, LinkConfig DEF Bounded, NewLink
<1> HIDE DEF k
<1>1. /\ l \in Transient
      /\ link' \in {link, [link EXCEPT ![l] = k], [link EXCEPT ![l] = NewLink]}
      /\ all_running' = all_running \/ ~all_running'
      /\ UNCHANGED <<want_up, some_running, phase>>
    BY DEF registerLink, unregisterLink, flags, k
<1>2. \A i \in Links : Bounded(i, link'[i])
    BY <1>0, <1>1 DEF JInv, IInv, TypeOK
<1>3. ASSUME NEW i \in Static PROVE Told(i)'
    <2>1. link'[i] = link[i]
        BY <1>1 DEF IInv, TypeOK, Static
    <2> QED BY <1>1, <2>1 DEF JInv, Told
<1> QED BY <1>2, <1>3 DEF JInv, Static

\* What it says that a link counts neither as going nor as down.
LEMMA RequiredUp ==
    ASSUME IInv, NEW l \in Required, NEW s \in LConnState, ~CountsGoing(l, s), ~CountsDown(l, s)
    PROVE  s = "up"
BY DEF CountsGoing, CountsDown, Required, Static, LConnState, IInv, TypeOK

\* RouterHigh is only started while the daemon wants to be up, and never again once
\* it was stopped; starting it raises running_signal.
StartedOnce ==
    /\ is_started' /\ ~is_started => want_up
    /\ is_started /\ ~is_started' => ~want_up'
    /\ running_signal' = (running_signal \/ (is_started' /\ ~is_started))

\* The router's main callback makes its picture right, and it only declares the daemon
\* running when all required links are up.
LEMMA StateTriggerJInv ==
    ASSUME IInv, JInv, NEW how, state_trigger_cb(how)
    PROVE  /\ JInv'
           /\ running_signal' # running_signal =>
                 running_signal' /\ want_up' /\ \A l \in Required : link'[l].state = "up"
           /\ StartedOnce
<1> DEFINE drained == [l \in Links |-> Drain(l, link[l], how[l])]
           halted  == [l \in Links |-> Halt(l, [drained[l] EXCEPT !.chg = FALSE], how[l])]
           pushed  == [l \in Links |-> Push(l, halted[l], how[l])]
           going   == \E l \in Links : CountsGoing(l, halted[l].state)
           up      == \E l \in Links : CountsUp(l, halted[l].state)
           down    == \E l \in Links : CountsDown(l, halted[l].state)
           some    == going \/ up
           all     == up /\ ~going /\ ~down
           hard    == want_up /\ down
           high_stopped == some_running /\ ~some
           high_started == ~high_stopped /\ all /\ ~all_running
<1>0. Static \subseteq Links /\ Static \subseteq links /\ Required \subseteq Static
      /\ want_up \in BOOLEAN /\ running_signal \in BOOLEAN /\ is_started \in BOOLEAN
    BY DEF IInv, TypeOK, Static, Required
<1>1. ASSUME NEW l \in Links
      PROVE  drained[l] = Drain(l, link[l], how[l])
             /\ halted[l] = Halt(l, [drained[l] EXCEPT !.chg = FALSE], how[l])
             /\ pushed[l] = Push(l, halted[l], how[l])
    OBVIOUS
<1>2. /\ some_running' = some
      /\ IF hard \/ (high_stopped /\ want_up)
         THEN DoStop(pushed, how)
         ELSE want_up' = want_up /\ all_running' = all /\ link' = pushed
      /\ running_signal' = (running_signal \/ (high_started /\ ~is_started))
      /\ is_started' = (~high_stopped /\ (is_started \/ high_started))
    BY DEF state_trigger_cb, HighStarted, StartTimer, drained, halted, pushed, going, up, down
<1> HIDE DEF drained, halted, pushed
<1>3. ASSUME NEW l \in Links PROVE Good(link[l]) /\ Bounded(l, link[l])
    BY DEF IInv, AllGood, JInv
<1>4. ASSUME NEW l \in Static
      PROVE  /\ halted[l].state \in LConnState /\ Bounded(l, pushed[l])
             /\ ~halted[l].chg /\ halted[l].state = "up_error" => halted[l].drv = "stopping"
             /\ ~want_up => halted[l].state # "up" /\ pushed[l].state # "up"
             /\ pushed[l] = halted[l] \/ (pushed[l].state = "up_error" => pushed[l].chg)
    <2>1. l \in Links /\ l \in links /\ l \notin Transient /\ Good(link[l]) /\ Bounded(l, link[l])
        BY <1>0, <1>3 DEF Static
    <2>2. ~want_up /\ ~link[l].chg => link[l].state # "up"
        BY DEF JInv, Told
    <2> DEFINE d == drained[l]
               h == halted[l]
    <2>d. d = Drain(l, link[l], how[l]) /\ h = Halt(l, [d EXCEPT !.chg = FALSE], how[l])
          /\ pushed[l] = Push(l, h, how[l])
        BY <1>1, <2>1
    <2> HIDE DEF d, h
    <2>p. /\ Good(h) /\ Bounded(l, Push(l, h, how[l]))
          /\ ~h.chg /\ h.state = "up_error" => h.drv = "stopping"
          /\ ~want_up => h.state # "up" /\ Push(l, h, how[l]).state # "up"
          /\ \/ Push(l, h, how[l]) = h
             \/ Push(l, h, how[l]).state = "up_error" => Push(l, h, how[l]).chg
        BY <2>1, <2>2, <2>d, PassesTell
    <2>3. /\ Good(halted[l]) /\ Bounded(l, pushed[l])
          /\ ~halted[l].chg /\ halted[l].state = "up_error" => halted[l].drv = "stopping"
          /\ ~want_up => halted[l].state # "up"
          /\ ~want_up => pushed[l].state # "up"
          /\ pushed[l] = halted[l] \/ (pushed[l].state = "up_error" => pushed[l].chg)
        BY <2>d, <2>p DEF h
    <2> QED BY <2>3 DEF Good, LinkRec
<1>5. ASSUME NEW l \in Links PROVE Good(pushed[l]) /\ Bounded(l, pushed[l])
    <2> DEFINE d == drained[l]
               h == halted[l]
    <2>1. d = Drain(l, link[l], how[l]) /\ h = Halt(l, [d EXCEPT !.chg = FALSE], how[l])
          /\ pushed[l] = Push(l, h, how[l])
        BY <1>1
    <2> HIDE DEF d, h
    <2>2. Good(h) /\ Bounded(l, Push(l, h, how[l]))
        BY <1>3, <2>1, PassesTell
    <2>3. Good(Push(l, h, how[l]))
        BY <2>2, PassesGood, ZenonT(20)
    <2> QED BY <2>1, <2>2, <2>3
<1>6. CASE hard \/ (high_stopped /\ want_up)
    <2>1. JInv'
        BY <1>2, <1>5, <1>6, DoStopJInv
    <2>2. running_signal' = running_signal
        BY <1>0, <1>2, <1>6
    <2>3. StartedOnce
        BY <1>0, <1>2, <1>6, Zenon DEF StartedOnce, DoStop
    <2> QED BY <2>1, <2>2, <2>3
<1>7. CASE ~(hard \/ (high_stopped /\ want_up))
    <2>1. link' = pushed /\ want_up' = want_up /\ all_running' = all
        BY <1>2, <1>7
    <2>2. ASSUME NEW l \in Required, all PROVE halted[l].state = "up"
        BY <1>0, <1>4, <2>2, RequiredUp
    <2>3. all => want_up
        <3>1. up => \E l \in Static : halted[l].state = "up"
            BY DEF CountsUp, Static
        <3> QED BY <1>4, <3>1
    <2>4. ASSUME NEW l \in Links, want_up PROVE pushed[l] = halted[l]
        BY <1>1, <2>4 DEF Push
    <2>5. ASSUME NEW l \in Static PROVE Told(l)'
        <3>0. l \in Links /\ l \in links /\ l \notin Transient
            BY <1>0 DEF Static
        <3>1. CASE ~want_up
            BY <1>4, <2>1, <2>3, <3>1 DEF Told
        <3>2. CASE want_up
            <4>1. pushed[l] = halted[l] /\ ~down
                BY <1>7, <2>4, <3>0, <3>2
            <4>2. l \in Required => halted[l].state \notin {"down", "error"}
                BY <3>0, <4>1 DEF CountsDown, Required
            <4>3. ~some => halted[l].state # "up"
                BY <3>0 DEF CountsUp
            <4> QED BY <1>2, <1>4, <2>1, <2>2, <3>2, <4>1, <4>2, <4>3 DEF Told
        <3> QED BY <1>0, <3>1, <3>2
    <2>6. JInv'
        BY <1>5, <2>1, <2>5 DEF JInv, Static
    <2>7. running_signal' # running_signal =>
             running_signal' /\ want_up' /\ \A l \in Required : link'[l].state = "up"
        BY <1>0, <1>2, <2>1, <2>2, <2>3, <2>4
    <2>8. StartedOnce
        BY <1>0, <1>2, <1>7, <2>1, <2>3, Zenon DEF StartedOnce
    <2> QED BY <2>6, <2>7, <2>8
<1> QED BY <1>6, <1>7

\* Every step keeps JInv.
LEMMA NextJInv == IInv /\ JInv /\ [Next]_vars => JInv'
<1> SUFFICES ASSUME IInv, JInv, [Next]_vars PROVE JInv'
    OBVIOUS
<1>0. /\ TypeOK
      /\ \A l \in Links : Good(link[l]) /\ Bounded(l, link[l])
    BY DEF IInv, AllGood, JInv
<1>1. ASSUME NEW how \in [Links -> Answer], start(how) PROVE JInv'
    BY <1>1, StartJInv
<1>2. ASSUME NEW how, signal_cb(how) \/ start_timer_cb(how) PROVE JInv'
    BY <1>2, StopJInv
<1>3. ASSUME NEW how, state_trigger_cb(how) PROVE JInv'
    BY <1>3, StateTriggerJInv
<1>4. CASE signal_again \/ exit \/ Terminated \/ UNCHANGED vars
    <2>1. UNCHANGED <<link, want_up, all_running, some_running>> /\ (phase = "setup" => phase' = "setup")
        BY <1>4 DEF signal_again, exit, Terminated, vars, flags
    <2>2. phase # "setup" \/ phase' = "setup"
        BY <2>1
    <2> QED BY <1>4, <2>1 DEF JInv, Told, Static, Required, Bounded, signal_again, exit, Terminated,
                              vars, flags
<1>5. ASSUME NEW l \in Links, NEW k, Good(k), Bounded(l, k), Quiet(link[l], k), Update(l, k)
      PROVE  JInv'
    <2>1. k \in LinkRec
        BY <1>5 DEF Good
    <2> QED BY <1>0, <1>5, <2>1, UpdateJInv
<1>6. ASSUME NEW l \in Links, started(l) PROVE JInv'
    BY <1>0, <1>5, <1>6, StartedGood, DriverTells DEF started
<1>7. ASSUME NEW l \in Links, NEW a, stopped(l, a) PROVE JInv'
    BY <1>0, <1>5, <1>7, StoppedGood, DriverTells DEF stopped
<1>8. ASSUME NEW l \in Links, errored(l) PROVE JInv'
    BY <1>0, <1>5, <1>8, ErroredGood, DriverTells DEF errored
<1>9. ASSUME NEW l \in Links, NEW a \in Answer, retry_timer_cb(l, a) PROVE JInv'
    BY <1>0, <1>5, <1>9, RetryTimerGood, TimerTells DEF retry_timer_cb
<1>10. ASSUME NEW l \in Links, NEW a \in Answer, registerLink(l, a) PROVE JInv'
    BY <1>10, ClientJInv
<1>11. ASSUME NEW l \in Links, unregisterLink(l) PROVE JInv'
    BY <1>11, ClientJInv DEF Answer
<1> QED BY <1>1, <1>2, <1>3, <1>4, <1>6, <1>7, <1>8, <1>9, <1>10, <1>11 DEF Next

\* Both invariants hold in every reachable state.
THEOREM InductiveBoth == Spec => [](IInv /\ JInv)
BY InitIInv, NextIInv, InitJInv, NextJInv, PTL DEF Spec

\* max-retry= bounds the attempts of every link since it was last up.
THEOREM RetriesStayBounded == Spec => []RetriesBounded
<1>1. JInv => RetriesBounded
    BY DEF JInv, Bounded, RetriesBounded
<1> QED BY InductiveBoth, <1>1, PTL

\* The two invariants imply that the router's view of its links is right.
LEMMA SummaryFollows == IInv /\ JInv => SummaryAgrees
<1> SUFFICES ASSUME IInv, JInv, InLoop PROVE SummaryAgrees
    BY DEF SummaryAgrees
<1>1. ASSUME NEW l \in Static PROVE l \in Links /\ Told(l) /\ Good(link[l])
    BY DEF JInv, IInv, AllGood, Static
<1>2. phase # "setup" /\ Required \subseteq Static
    BY DEF InLoop, Required
<1>3. ASSUME NEW l \in Static, ~state_trigger PROVE ~link[l].chg
    BY <1>1, <1>3 DEF IInv, Seen, Notified
<1>4. ASSUME NEW l \in Static, link[l].state \in {"up_error", "going_down_error"}
      PROVE  state_trigger \/ link[l].drv = "stopping"
    BY <1>1, <1>3, <1>4 DEF Told, Good
<1>5. ASSUME ~state_trigger
      PROVE  /\ want_up => \A l \in Required : link[l].state \notin {"down", "error"}
             /\ all_running => \A l \in Required : link[l].state = "up"
             /\ (\E l \in Static : link[l].state = "up") => some_running
    BY <1>1, <1>2, <1>3, <1>5 DEF Told
<1> QED BY <1>4, <1>5 DEF SummaryAgrees

\* Whenever the router has nothing left to look at, its summary of the links is
\* right, and no link that failed is forgotten.
THEOREM SummaryRight == Spec => []SummaryAgrees
BY InductiveBoth, SummaryFollows, PTL

\* The daemon declares itself running (running_signal, "all drivers up") only in a
\* step after which every required link is up, and never takes that back.
THEOREM SignalIsRight == Spec => SignalMeansAllUp
<1> DEFINE A == running_signal' # running_signal =>
                   running_signal' /\ want_up' /\ \A l \in Required : link'[l].state = "up"
<1>1. ASSUME IInv, JInv, [Next]_vars PROVE [A]_vars
    <2>1. ASSUME NEW how, state_trigger_cb(how) PROVE A
        BY <1>1, <2>1, StateTriggerJInv
    <2>2. ASSUME ~ \E how \in [Links -> StopAnswer] : state_trigger_cb(how), Next
          PROVE  running_signal' = running_signal
        BY <2>2 DEF Next, start, signal_cb, start_timer_cb, signal_again, exit, Terminated, started,
                    stopped, errored, retry_timer_cb, registerLink, unregisterLink, Update, flags, vars
    <2> QED BY <1>1, <2>1, <2>2
<1> QED BY <1>1, InductiveBoth, PTL DEF Spec, SignalMeansAllUp

-----------------------------------------------------------------------------
(* The end of main().  A link is at rest when nothing is left to stop.  If no   *)
(* driver calls errored() twice, L_error is only reached once the driver is     *)
(* off, and a router that is idle has all required links at rest.               *)
Ended(k) == k.state = "error" => k.drv = "off"
AtRest(k) == k.state \in {"down", "error"}

XInv ==
    /\ \A l \in Links : Ended(link[l])
    /\ ~some_running /\ phase # "setup" => \A l \in Required : AtRest(link[l])
    /\ phase = "exit" => ~some_running

\* setState without start() and stop() leaves the driver alone, and enters L_error
\* only when the driver stopped or failed twice.
LEMMA SettleEnds ==
    ASSUME NEW l \in Links, NEW k \in LinkRec, NEW new \in {"down", "up", "error", "going_down"},
           Ended(k), new = "down" => k.drv = "off",
           new = "error" => k.state \notin {"up_error", "going_down_error"}
    PROVE  Ended(Settle(l, k, new))
<1> DEFINE n == Enter(k, new)
           R == Settle(l, k, new)
           z == [n EXCEPT !.retries = 0]
           w == [n EXCEPT !.state = "wait_retry", !.timer = "new"]
<1>1. n \in LinkRec /\ n.drv = k.drv /\ n.state = new
    BY ZenonT(20) DEF Enter, LinkRec, LConnState
<1>2. ASSUME NEW r \in LinkRec, NEW s \in LConnState \cup {"abort"}
      PROVE  /\ Notify(r).drv = r.drv /\ Notify(r).state = r.state
             /\ In(r, s) \in LinkRec /\ In(r, s).drv = r.drv /\ In(r, s).state = s
    BY DEF Notify, In, LinkRec
<1>3. CASE new = "down"
    <2>1. R \in {k, w, Notify(n)} \/ \E s \in {"down", "error", "abort"} : R \in {Notify(In(n, s)), In(n, s)}
        BY <1>3 DEF Settle, Retry, LinkRec, LConnState
    <2>2. w.drv = n.drv
        BY <1>1 DEF LinkRec
    <2> HIDE DEF n, R, w
    <2>3. R.drv = "off"
        BY <1>1, <1>2, <1>3, <2>1, <2>2 DEF LConnState
    <2> QED BY <2>3 DEF Ended, R
<1>4. CASE new = "up"
    <2>1. R \in {k, Notify(z), In(n, "abort")}
        BY <1>4 DEF Settle, LinkRec, LConnState
    <2>2. z \in LinkRec /\ z.state = "up"
        BY <1>1, <1>4 DEF LinkRec
    <2> HIDE DEF n, R, z
    <2>3. R = k \/ R.state # "error"
        BY <1>1, <1>2, <2>1, <2>2
    <2> QED BY <2>3 DEF Ended, R
<1>5. CASE new = "error"
    <2>1. R \in {k, Notify(In(n, "going_down_error")), Notify(In(n, "up_error")), In(n, "abort")}
        BY <1>5 DEF Settle, LinkRec, LConnState
    <2> HIDE DEF n, R
    <2>2. R = k \/ R.state # "error"
        BY <1>1, <1>2, <2>1 DEF LConnState
    <2> QED BY <2>2 DEF Ended, R
<1>6. CASE new = "going_down"
    <2>1. \/ R \in {k, Notify(In(n, "down")), Notify(In(n, "going_down_error")), In(n, "abort")}
          \/ R = Notify(In(n, "error")) /\ k.state = "error"
        BY <1>6 DEF Settle, LinkRec, LConnState
    <2> HIDE DEF n, R
    <2>2. R = k \/ R.state # "error" \/ (k.state = "error" /\ R.drv = k.drv)
        BY <1>1, <1>2, <2>1 DEF LConnState
    <2> QED BY <2>2 DEF Ended, R
<1> QED BY <1>3, <1>4, <1>5, <1>6

\* setState, as the router and the driver call it.
LEMMA SetStateEnds ==
    ASSUME NEW l \in Links, NEW k \in LinkRec, NEW a,
           NEW new \in {"down", "up", "error", "going_down", "going_up"},
           Ended(k), new = "down" => k.drv = "off",
           new = "error" => k.state \notin {"up_error", "going_down_error"},
           new = "going_up" => k.state \in {"down", "wait_retry"} /\ a \in Answer
    PROVE  Ended(SetState(l, k, new, a))
<1> DEFINE n == Enter(k, new)
           e == In(n, "going_down_error")
           s(d) == [[n EXCEPT !.send_more = TRUE] EXCEPT !.drv = d]
<1>1. n \in LinkRec /\ n.state = new
    BY ZenonT(20) DEF Enter, LinkRec, LConnState
<1>2. e \in LinkRec /\ e.state = "going_down_error"
    BY <1>1 DEF In, LinkRec, LConnState
<1>3. ASSUME NEW d \in DriverState PROVE s(d) \in LinkRec /\ s(d).state = new /\ s(d).drv = d
    BY <1>1 DEF LinkRec
<1>4. \/ SetState(l, k, new, a) = Notify(Start(l, n, a)) /\ new = "going_up"
      \/ SetState(l, k, new, a) = Notify(Stop(l, n, a)) /\ new \in {"down", "going_down"}
      \/ SetState(l, k, new, a) = Notify(Stop(l, e, a))
      \/ SetState(l, k, new, a) = Settle(l, k, new) /\ new # "going_up"
    BY DEF SetState
<1>5. Start(l, n, a) \in {s("starting"), Settle(l, s("on"), "up"), Settle(l, s("off"), "down"),
                          Settle(l, s("failed"), "error")}
    BY DEF Start
<1> HIDE DEF n, e, s
<1>6. {"starting", "on", "off", "failed"} \subseteq DriverState
    BY DEF DriverState
<1>7. ASSUME NEW r \in LinkRec, Ended(r) PROVE Ended(Notify(r))
    BY <1>7 DEF Ended, Notify, LinkRec
<1>8. ASSUME NEW r \in LinkRec, r.state # "error" PROVE Stop(l, r, a) \in LinkRec /\ Ended(Stop(l, r, a))
    <2> DEFINE o(d) == [r EXCEPT !.drv = d]
    <2>1. ASSUME NEW d \in {"stopping", "off"}
          PROVE  o(d) \in LinkRec /\ o(d).state = r.state /\ o(d).drv = d
        BY <1>8 DEF LinkRec, DriverState
    <2>2. Stop(l, r, a) \in {o("stopping"), Settle(l, o("off"), "down")}
        BY DEF Stop
    <2> HIDE DEF o
    <2>3. CASE Stop(l, r, a) = o("stopping")
        BY <1>8, <2>1, <2>3 DEF Ended
    <2>4. CASE Stop(l, r, a) = Settle(l, o("off"), "down")
        <3>1. o("off") \in LinkRec /\ o("off").drv = "off" /\ Ended(o("off"))
            BY <2>1 DEF Ended
        <3>2. Settle(l, o("off"), "down") \in LinkRec
            BY <3>1, SettleTells DEF LConnState
        <3>3. Ended(Settle(l, o("off"), "down"))
            BY <3>1, SettleEnds
        <3> QED BY <2>4, <3>2, <3>3
    <2> QED BY <2>2, <2>3, <2>4
<1>9. CASE SetState(l, k, new, a) = Notify(Start(l, n, a)) /\ new = "going_up"
    <2>1. Start(l, n, a) \in LinkRec
        BY <1>1, <1>9, StartTells
    <2>2. Ended(Start(l, n, a))
        BY <1>3, <1>5, <1>6, <1>9, SettleEnds DEF Ended
    <2> QED BY <1>7, <1>9, <2>1, <2>2
<1> QED BY <1>1, <1>2, <1>4, <1>7, <1>8, <1>9, SettleEnds

\* ... and setState(L_going_down) leaves a link at rest.
LEMMA SetStateRests ==
    ASSUME NEW l \in Links, NEW k \in LinkRec, NEW a, AtRest(k)
    PROVE  AtRest(SetState(l, k, "going_down", a))
<1> DEFINE n == Enter(k, "going_down")
<1>1. n \in LinkRec
    BY ZenonT(20) DEF Enter, LinkRec, LConnState
<1>2. SetState(l, k, "going_down", a) \in {Notify(In(n, "down")), Notify(In(n, "error"))}
    BY DEF AtRest, SetState, Settle
<1> HIDE DEF n
<1> QED BY <1>1, <1>2, InTells, NotifyTells DEF AtRest, LConnState

\* The callbacks of the driver and of the timer.
LEMMA CallbackEnds ==
    ASSUME NEW l \in Links, NEW k, NEW a, Good(k), Ended(k)
    PROVE  /\ k.drv # "off" => ~AtRest(k) /\ Ended(Stopped(l, k, a))
           /\ k.drv = "starting" => Ended(Started(l, k))
           /\ k.drv # "off" /\ k.state \notin {"up_error", "going_down_error", "error"}
                 => Ended(Errored(l, k))
           /\ k.timer # "off" /\ a \in Answer => ~AtRest(k) /\ Ended(RetryTimer(l, k, a))
<1> DEFINE d(x) == [k EXCEPT !.drv = x]
           t == [k EXCEPT !.timer = "off"]
           td(x) == [t EXCEPT !.drv = x]
           r == [t EXCEPT !.retries = IF MaxRetries[l] > 0 THEN @ + 1 ELSE @]
<1>0. k \in LinkRec /\ (k.drv # "off" \/ k.timer # "off" => k.state \notin {"down", "error"})
    BY DEF Good, Ended, LinkRec
<1>1. ASSUME NEW x \in DriverState
      PROVE  d(x) \in LinkRec /\ d(x).state = k.state /\ d(x).drv = x
    BY <1>0 DEF LinkRec
<1>2. t \in LinkRec /\ t.state = k.state /\ t.drv = k.drv
    BY <1>0 DEF LinkRec
<1>3. ASSUME NEW x \in DriverState
      PROVE  td(x) \in LinkRec /\ td(x).state = k.state
    <2> HIDE DEF t
    <2> QED BY <1>2 DEF LinkRec
<1>4. r \in LinkRec /\ r.state = k.state
    <2> HIDE DEF t
    <2>1. MaxRetries[l] \in Nat
        BY LinkConfig
    <2> QED BY <1>2, <2>1 DEF LinkRec
<1>5. /\ Started(l, k) = SetState(l, d("on"), "up", "later")
      /\ Stopped(l, k, a) = SetState(l, d("off"), "down", a)
      /\ \E x \in {"failed", "stopping"} : Errored(l, k) = SetState(l, d(x), "error", "later")
      /\ \E x \in {"failed", "stopping"} : Errored(l, t) = SetState(l, td(x), "error", "later")
    BY ZenonT(20) DEF Started, Stopped, Errored
<1>6. \/ RetryTimer(l, k, a) = Errored(l, t) /\ k.state = "up"
      \/ RetryTimer(l, k, a) = SetState(l, r, "going_up", a) /\ k.state = "wait_retry"
      \/ RetryTimer(l, k, a) = t
    BY DEF RetryTimer
<1>7. {"on", "off", "failed", "stopping"} \subseteq DriverState
    BY DEF DriverState
<1> HIDE DEF d, t, td, r
<1>8. ASSUME k.drv # "off" PROVE Ended(Stopped(l, k, a))
    <2>1. Ended(d("off"))
        BY <1>1, <1>7 DEF Ended
    <2> QED BY <1>1, <1>5, <1>7, <2>1, SetStateEnds
<1>9. ASSUME k.drv = "starting" PROVE Ended(Started(l, k))
    <2>1. Ended(d("on"))
        BY <1>0, <1>1, <1>7, <1>9 DEF Ended
    <2> QED BY <1>1, <1>5, <1>7, <2>1, SetStateEnds
<1>10. ASSUME k.state \notin {"up_error", "going_down_error", "error"}
       PROVE  Ended(Errored(l, k)) /\ Ended(Errored(l, t))
    <2>1. ASSUME NEW x \in DriverState PROVE Ended(d(x)) /\ Ended(td(x))
        BY <1>1, <1>3, <1>10 DEF Ended
    <2> QED BY <1>1, <1>3, <1>5, <1>7, <1>10, <2>1, SetStateEnds
<1>11. ASSUME k.timer # "off", a \in Answer PROVE Ended(RetryTimer(l, k, a))
    <2>1. CASE RetryTimer(l, k, a) = SetState(l, r, "going_up", a) /\ k.state = "wait_retry"
        BY <1>4, <1>11, <2>1, SetStateEnds DEF Ended
    <2>2. Ended(t)
        BY <1>2 DEF Ended
    <2> QED BY <1>6, <1>10, <2>1, <2>2
<1> QED BY <1>0, <1>8, <1>9, <1>10, <1>11 DEF AtRest

\* The passes of state_trigger_cb and stop_.
LEMMA PassesEnd ==
    ASSUME NEW l \in Links, NEW k, NEW a, Good(k), Ended(k)
    PROVE  /\ Ended(Drain(l, k, a)) /\ Ended([k EXCEPT !.chg = FALSE])
           /\ Ended(Halt(l, k, a)) /\ Ended(Push(l, k, a))
           /\ Ended(SetState(l, k, "going_down", a))
           /\ AtRest(k) =>
                 /\ AtRest(Drain(l, k, a)) /\ AtRest([k EXCEPT !.chg = FALSE])
                 /\ AtRest(Halt(l, k, a)) /\ AtRest(Push(l, k, a))
                 /\ AtRest(SetState(l, k, "going_down", a))
<1> DEFINE e == [k EXCEPT !.chg = FALSE, !.timer = IF @ = "new" THEN "retry" ELSE @]
           c == [k EXCEPT !.chg = FALSE]
           o(d) == [k EXCEPT !.drv = d]
<1>0. k \in LinkRec
    BY DEF Good
<1>1. e \in LinkRec /\ e.state = k.state /\ e.drv = k.drv
    BY <1>0, ZenonT(20) DEF LinkRec
<1>2. c.state = k.state /\ c.drv = k.drv
    BY <1>0 DEF LinkRec
<1>3. ASSUME NEW d \in {"stopping", "off"}
      PROVE  o(d) \in LinkRec /\ o(d).state = k.state /\ o(d).drv = d
    BY <1>0 DEF LinkRec, DriverState
<1>4. /\ \/ Drain(l, k, a) = e
         \/ Drain(l, k, a) = SetState(l, e, "going_down", a)
      /\ Halt(l, k, a) = k
         \/ (Halt(l, k, a) = Stop(l, k, a) /\ k.state \in {"up_error", "going_down_error"})
      /\ Push(l, k, a) = k \/ Push(l, k, a) = SetState(l, k, "going_down", a)
    BY DEF Drain, Halt, Push
<1>5. Stop(l, k, a) \in {o("stopping"), Settle(l, o("off"), "down")}
    BY DEF Stop
<1> HIDE DEF e, c, o
<1>6. Ended(e) /\ Ended(c) /\ (AtRest(k) => AtRest(e) /\ AtRest(c))
    BY <1>1, <1>2 DEF Ended, AtRest
<1>7. /\ Ended(SetState(l, k, "going_down", a)) /\ Ended(SetState(l, e, "going_down", a))
      /\ AtRest(k) => AtRest(SetState(l, k, "going_down", a))
                      /\ AtRest(SetState(l, e, "going_down", a))
    BY <1>0, <1>1, <1>6, SetStateEnds, SetStateRests
<1>8. Ended(Halt(l, k, a)) /\ (AtRest(k) => Halt(l, k, a) = k)
    <2>1. CASE Halt(l, k, a) = Stop(l, k, a) /\ k.state \in {"up_error", "going_down_error"}
        BY <1>3, <1>5, <2>1, SettleEnds DEF Ended, AtRest
    <2> QED BY <1>4, <2>1
<1> QED BY <1>4, <1>6, <1>7, <1>8 DEF c

\* A required link that counts neither as up nor as going is at rest.
LEMMA RequiredRests ==
    ASSUME IInv, NEW l \in Required, NEW k, Good(k), ~CountsGoing(l, k.state), ~CountsUp(l, k.state)
    PROVE  AtRest(k)
<1>1. k.state \in LConnState /\ l \in links \ (Transient \cup MayFail)
    BY DEF Good, LinkRec, Required, Static, IInv, TypeOK
<1> QED BY <1>1 DEF CountsGoing, CountsUp, AtRest, LConnState

\* The router's main callback: it is only idle when all required links are at rest.
LEMMA TriggerXInv ==
    ASSUME IInv, XInv, NEW how, state_trigger_cb(how)
    PROVE  XInv'
<1> DEFINE drained == [l \in Links |-> Drain(l, link[l], how[l])]
           halted  == [l \in Links |-> Halt(l, [drained[l] EXCEPT !.chg = FALSE], how[l])]
           pushed  == [l \in Links |-> Push(l, halted[l], how[l])]
           going   == \E l \in Links : CountsGoing(l, halted[l].state)
           up      == \E l \in Links : CountsUp(l, halted[l].state)
<1>1. ASSUME NEW l \in Links
      PROVE  drained[l] = Drain(l, link[l], how[l])
             /\ halted[l] = Halt(l, [drained[l] EXCEPT !.chg = FALSE], how[l])
             /\ pushed[l] = Push(l, halted[l], how[l])
             /\ StopAll(pushed, how)[l] \in {pushed[l], SetState(l, pushed[l], "going_down", how[l])}
    BY DEF StopAll
<1>2. /\ some_running' = (going \/ up)
      /\ link' = pushed \/ link' = StopAll(pushed, how)
      /\ phase # "exit" /\ phase' # "exit"
    BY DEF state_trigger_cb, DoStop, InLoop
<1> HIDE DEF drained, halted, pushed
<1>3. ASSUME NEW l \in Links
      PROVE  /\ Good(halted[l]) /\ Ended(link'[l])
             /\ AtRest(halted[l]) => AtRest(link'[l])
    <2> DEFINE k == link[l]
               d == drained[l]
               c == [d EXCEPT !.chg = FALSE]
               h == halted[l]
               p == pushed[l]
    <2>0. Good(k) /\ Ended(k)
        BY DEF IInv, AllGood, XInv
    <2>1. /\ d = Drain(l, k, how[l]) /\ h = Halt(l, c, how[l]) /\ p = Push(l, h, how[l])
          /\ link'[l] \in {p, SetState(l, p, "going_down", how[l])}
        BY <1>1, <1>2
    <2> HIDE DEF k, d, c, h, p
    <2>2. Good(d) /\ Ended(d)
        BY <2>0, <2>1, PassesGood, PassesEnd
    <2>3. Good(c) /\ Ended(c)
        BY <2>2, PassesGood, PassesEnd DEF c
    <2>4. Good(h) /\ Ended(h)
        BY <2>1, <2>3, PassesGood, PassesEnd
    <2>5. Good(p) /\ Ended(p) /\ (AtRest(h) => AtRest(p))
        BY <2>1, <2>4, PassesGood, PassesEnd
    <2>6. Ended(link'[l]) /\ (AtRest(h) => AtRest(link'[l]))
        BY <2>1, <2>5, PassesEnd, ZenonT(20)
    <2> QED BY <2>4, <2>6 DEF h
<1>4. ASSUME ~(going \/ up), NEW l \in Required PROVE AtRest(link'[l])
    <2>1. l \in Links
        BY DEF Required, Static
    <2> QED BY <1>3, <1>4, <2>1, RequiredRests
<1>5. Required' = Required
    BY DEF Required, Static
<1> QED BY <1>2, <1>3, <1>4, <1>5 DEF XInv, Ended, AtRest

\* One link changes by itself.
LEMMA UpdateXInv ==
    ASSUME IInv, XInv, phase # "setup", NEW m \in Links, NEW k, Update(m, k), Ended(k),
           ~AtRest(link[m])
    PROVE  XInv'
<1>1. /\ UNCHANGED <<some_running, phase>>
      /\ link'[m] = k /\ \A l \in Links \ {m} : link'[l] = link[l]
    BY DEF Update, flags, IInv, TypeOK
<1>2. ~some_running => m \notin Required
    BY DEF XInv
<1>3. Required \subseteq Links
    BY DEF Required, Static
<1> QED BY <1>1, <1>2, <1>3 DEF XInv, Ended, AtRest

\* Every step, if no driver fails twice.
LEMMA NextXInv ==
    ASSUME ErrorTwice = FALSE, IInv, XInv, [Next]_vars
    PROVE  XInv'
<1>0. ASSUME NEW l \in Links PROVE Good(link[l]) /\ Ended(link[l])
    BY DEF IInv, AllGood, XInv
<1>r. Required \subseteq Links /\ Required \cap Transient = {}
    BY DEF Required, Static
<1>1. ASSUME NEW how \in [Links -> Answer], start(how) PROVE XInv'
    <2>1. /\ some_running' /\ phase' = "run"
          /\ \A l \in Links : link'[l] \in {NewLink, SetState(l, NewLink, "going_up", how[l])}
        BY <1>1 DEF start, IInv, FreshStart
    <2>2. NewLink \in LinkRec /\ Ended(NewLink) /\ NewLink.state = "down"
        BY NewLinkGood DEF Good, Ended, NewLink
    <2>3. ASSUME NEW l \in Links PROVE Ended(link'[l])
        BY <1>1, <2>1, <2>2, SetStateEnds
    <2> QED BY <2>1, <2>3 DEF XInv, Ended
<1>2. ASSUME NEW how, signal_cb(how) \/ start_timer_cb(how) PROVE XInv'
    <2>1. /\ phase \notin {"setup", "exit"} /\ phase' \notin {"setup", "exit"} /\ UNCHANGED some_running
          /\ link' = link \/ link' = StopAll(link, how)
        BY <1>2 DEF signal_cb, start_timer_cb, DoStop, InLoop
    <2>2. ASSUME NEW l \in Links PROVE Ended(link'[l]) /\ (AtRest(link[l]) => AtRest(link'[l]))
        <3>1. link'[l] \in {link[l], SetState(l, link[l], "going_down", how[l])}
            BY <2>1 DEF StopAll
        <3> QED BY <1>0, <3>1, PassesEnd
    <2> QED BY <1>r, <2>1, <2>2 DEF XInv, Ended, AtRest
<1>3. ASSUME NEW how, state_trigger_cb(how) PROVE XInv'
    BY <1>3, TriggerXInv
<1>4. CASE signal_again \/ exit \/ Terminated \/ UNCHANGED vars
    <2>1. /\ UNCHANGED <<link, some_running>>
          /\ phase' # "setup" => phase # "setup"
          /\ phase' = "exit" => ~some_running \/ phase = "exit"
        BY <1>4 DEF signal_again, exit, Terminated, vars, flags
    <2> QED BY <2>1 DEF XInv, Ended, AtRest, Required, Static
<1>5. ASSUME NEW l \in Links, NEW a,
             started(l) \/ stopped(l, a) \/ errored(l) \/ (retry_timer_cb(l, a) /\ a \in Answer)
      PROVE  XInv'
    <2>1. phase # "setup"
        BY <1>5 DEF started, stopped, errored, retry_timer_cb, InLoop
    <2>2. \E k : Update(l, k) /\ Ended(k) /\ ~AtRest(link[l])
        BY <1>0, <1>5, CallbackEnds DEF started, stopped, errored, retry_timer_cb
    <2> QED BY <2>1, <2>2, UpdateXInv
<1>6. ASSUME NEW m \in Links, NEW a \in Answer, registerLink(m, a) \/ unregisterLink(m) PROVE XInv'
    <2>1. link \in [Links -> LinkRec]
        BY DEF IInv, TypeOK
    <2>2. /\ m \in Transient /\ UNCHANGED <<some_running, phase>>
          /\ \A l \in Links \ {m} : link'[l] = link[l]
          /\ link'[m] \in {link[m], NewLink, SetState(m, NewLink, "going_up", a)}
        BY <1>6, <2>1 DEF registerLink, unregisterLink, flags
    <2>3. NewLink \in LinkRec /\ Ended(NewLink) /\ NewLink.state = "down"
        BY NewLinkGood DEF Good, Ended, NewLink
    <2>4. Ended(link'[m])
        BY <1>0, <2>2, <2>3, SetStateEnds
    <2> QED BY <1>r, <2>2, <2>4 DEF XInv, Ended, AtRest
<1>7. ASSUME NEW m \in Links, unregisterLink(m) PROVE XInv'
    BY <1>6, <1>7 DEF Answer
<1> QED BY <1>1, <1>2, <1>3, <1>4, <1>5, <1>6, <1>7 DEF Next

\* main() never returns while a required link still has a driver that runs, if no
\* driver calls errored() twice.
THEOREM ExitIsClean == ASSUME ErrorTwice = FALSE PROVE Spec => []ExitClean
<1>1. Init => XInv
    BY DEF Init, XInv, Ended, NewLink
<1>2. IInv /\ XInv /\ [Next]_vars => XInv'
    BY NextXInv
<1>3. IInv /\ XInv => ExitClean
    <2> SUFFICES ASSUME IInv, XInv, phase = "exit", NEW l \in Required PROVE link[l].drv = "off"
        BY DEF ExitClean
    <2>1. l \in Links /\ Good(link[l]) /\ Ended(link[l]) /\ AtRest(link[l])
        BY DEF Required, Static, IInv, AllGood, XInv
    <2> QED BY <2>1 DEF Good, Ended, AtRest
<1> QED BY <1>1, <1>2, <1>3, Inductive, PTL DEF Spec

-----------------------------------------------------------------------------
(* Who takes the daemon down.  The start timer and running_signal exclude each  *)
(* other, and a router that stops by itself has lost a required link.           *)
ToldInv ==
    /\ phase = "setup" => ~running_signal
    /\ running_signal => ~start_timer
    /\ FailureTold

\* The router's main callback stops the router only with exit code 1, or if no link is
\* required.
LEMMA TriggerTold ==
    ASSUME IInv, NEW how, state_trigger_cb(how), want_up, ~want_up'
    PROVE  exitcode' = 1 \/ Required = {}
<1> DEFINE drained == [l \in Links |-> Drain(l, link[l], how[l])]
           halted  == [l \in Links |-> Halt(l, [drained[l] EXCEPT !.chg = FALSE], how[l])]
           pushed  == [l \in Links |-> Push(l, halted[l], how[l])]
           going   == \E l \in Links : CountsGoing(l, halted[l].state)
           up      == \E l \in Links : CountsUp(l, halted[l].state)
           down    == \E l \in Links : CountsDown(l, halted[l].state)
<1>1. /\ down \/ (some_running /\ ~(going \/ up))
      /\ down => exitcode' = 1
    BY DEF state_trigger_cb, drained, halted, pushed, going, up, down
<1> SUFFICES ASSUME NEW l \in Required, ~(going \/ up) PROVE down
    BY <1>1
<1>2. l \in Links /\ l \in links \ (Transient \cup MayFail \cup Ignore)
    BY DEF Required, Static, IInv, TypeOK
<1>3. Good(halted[l])
    <2> DEFINE d == drained[l]
               c == [d EXCEPT !.chg = FALSE]
    <2>1. Good(link[l]) /\ d = Drain(l, link[l], how[l]) /\ halted[l] = Halt(l, c, how[l])
        BY <1>2 DEF IInv, AllGood
    <2> HIDE DEF drained, halted, d, c
    <2>2. Good(d)
        BY <1>2, <2>1, PassesGood
    <2>3. Good(c)
        BY <1>2, <2>2, PassesGood DEF c
    <2> QED BY <1>2, <2>1, <2>3, PassesGood
<1> HIDE DEF halted
<1>4. AtRest(halted[l])
    BY <1>2, <1>3, RequiredRests
<1> QED BY <1>2, <1>4 DEF AtRest, CountsDown

\* Every step keeps ToldInv.
LEMMA NextToldInv ==
    ASSUME IInv, JInv, ToldInv, [Next]_vars
    PROVE  ToldInv'
<1>0. /\ want_up \in BOOLEAN /\ running_signal \in BOOLEAN /\ start_timer \in BOOLEAN
      /\ Required' = Required
    BY DEF IInv, TypeOK, Required, Static
<1>1. ASSUME NEW how, start(how) PROVE ToldInv'
    BY <1>0, <1>1 DEF start, ToldInv, FailureTold
<1>2. ASSUME NEW how, signal_cb(how) PROVE ToldInv'
    BY <1>0, <1>2 DEF signal_cb, ToldInv, FailureTold
<1>3. ASSUME NEW how, start_timer_cb(how) PROVE ToldInv'
    <2>1. ~running_signal' /\ ~start_timer'
        BY <1>0, <1>3 DEF start_timer_cb, ToldInv
    <2> QED BY <2>1 DEF ToldInv, FailureTold
<1>4. ASSUME NEW how, state_trigger_cb(how) PROVE ToldInv'
    <2>1. running_signal' # running_signal => want_up'
        BY <1>4, StateTriggerJInv
    <2>2. /\ phase # "setup" /\ phase' # "setup" /\ (phase' = "run" => phase = "run")
          /\ exitcode = 1 => exitcode' = 1
          /\ running_signal' => running_signal \/ ~start_timer'
          /\ start_timer' => start_timer
          /\ running_signal' \in BOOLEAN
        BY <1>0, <1>4, Zenon DEF state_trigger_cb, StartTimer, InLoop
    <2>3. want_up /\ ~want_up' => exitcode' = 1 \/ Required = {}
        BY <1>4, TriggerTold
    <2>4. FailureTold'
        BY <1>0, <2>1, <2>2, <2>3 DEF ToldInv, FailureTold
    <2> QED BY <2>2, <2>4 DEF ToldInv
<1>5. CASE signal_again \/ exit \/ Terminated \/ UNCHANGED vars
    <2>1. /\ UNCHANGED <<want_up, running_signal, start_timer, exitcode>>
          /\ phase' \in {"killed", "exit"} \/ phase' = phase
        BY <1>5 DEF signal_again, exit, Terminated, vars, flags
    <2> QED BY <1>0, <2>1 DEF ToldInv, FailureTold
<1>6. ASSUME NEW l \in Links, NEW a,
             \/ started(l) \/ stopped(l, a) \/ errored(l) \/ retry_timer_cb(l, a)
             \/ registerLink(l, a) \/ unregisterLink(l)
      PROVE  ToldInv'
    <2>1. UNCHANGED <<want_up, running_signal, start_timer, exitcode, phase>>
        BY <1>6 DEF started, stopped, errored, retry_timer_cb, registerLink, unregisterLink, Update, flags
    <2> QED BY <1>0, <2>1 DEF ToldInv, FailureTold
<1>7. ASSUME NEW l \in Links, started(l) \/ errored(l) \/ unregisterLink(l) PROVE ToldInv'
    BY <1>6, <1>7
<1> QED BY <1>1, <1>2, <1>3, <1>4, <1>5, <1>6, <1>7 DEF Next

\* A daemon that has declared itself running is only taken down by a signal, or with
\* exit code 1 for a required link, if there is one.
THEOREM FailuresAreTold == Spec => []FailureTold
<1>1. Init => ToldInv
    BY DEF Init, ToldInv, FailureTold
<1>2. IInv /\ JInv /\ ToldInv /\ [Next]_vars => ToldInv'
    BY NextToldInv
<1>3. ToldInv => FailureTold
    BY DEF ToldInv
<1> QED BY <1>1, <1>2, <1>3, InductiveBoth, PTL DEF Spec
=============================================================================
