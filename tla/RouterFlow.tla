----------------------------- MODULE RouterFlow -----------------------------
(***************************************************************************)
(* Flow control between the router and its links: the router queue, its    *)
(* send_Next chain and the send_more flags, on top of the life cycle of    *)
(* module Router.                                                          *)
(*                                                                         *)
(* A packet is the set of links that subscribe to its destination (without *)
(* the one it came from).  The router has no global filters, so r_low and  *)
(* r_high are connected directly.                                          *)
(***************************************************************************)
EXTENDS Router, Sequences

CONSTANTS
    EarlyNext,    \* links whose driver calls send_Next() when it comes up (TPUART)
    Unreliable,   \* links whose driver may fail after it came up
    MaxPackets    \* bound: packets that arrive in a behaviour

ASSUME FlowConfig == /\ EarlyNext \subseteq Links
                     /\ Unreliable \subseteq Links
                     /\ MaxPackets \in Nat

VARIABLES
    buf,             \* Router::buf, packets waiting to be routed
    low_send_more, high_send_more,
    trigger,         \* the async watcher of trigger_cb is pending
    in_trigger_cb,   \* the loop of trigger_cb is running
    queued, routed,  \* history: packets put into buf, packets taken out
    failed           \* history: a driver failed after it came up

flow == <<buf, low_send_more, high_send_more, trigger, in_trigger_cb, queued, routed, failed>>
allvars == <<vars, flow>>

FlowInit ==
    /\ Init
    /\ buf = <<>>
    /\ low_send_more = FALSE /\ high_send_more = FALSE
    /\ trigger = FALSE /\ in_trigger_cb = FALSE
    /\ queued = 0 /\ routed = 0 /\ failed = FALSE

\* Router::send_Next gets past its early returns with links in the states f ...
AllReady(f) == \A l \in links : f[l].state = "up" => f[l].send_more

\* mutant: the first link that is ready opens the router
SendNext_First(f) ==
    /\ high_send_more' = TRUE
    /\ low_send_more' = TRUE
    /\ trigger' = (trigger \/ ~high_send_more)

\* ... and reaches RouterLow::send_Next.  Only high_send_more is tested.
SendNext(f) ==
    LET go == ~high_send_more /\ AllReady(f)
    IN /\ high_send_more' = (high_send_more \/ go)
       /\ low_send_more' = (low_send_more \/ go)
       /\ trigger' = (trigger \/ go)

-----------------------------------------------------------------------------
\* A step A of the life cycle.  Router::started() opens both flags; a driver in
\* EarlyNext calls send_Next() as soon as it has reported that it is up.
Life(A) ==
    /\ ~in_trigger_cb
    /\ A
    /\ want_up' => \A l \in Links \ Unreliable : link[l].drv = "on" => link'[l].drv = "on"
    /\ IF is_started' /\ ~is_started
       THEN low_send_more' = TRUE /\ high_send_more' = TRUE /\ trigger' = TRUE
       ELSE IF \E l \in EarlyNext : link'[l].state = "up" /\ link[l].state # "up"
       THEN SendNext(link')
       ELSE UNCHANGED <<low_send_more, high_send_more, trigger>>
    /\ failed' = (failed \/ \E l \in Unreliable : link[l].drv = "on" /\ link'[l].drv # "on")
    /\ UNCHANGED <<buf, in_trigger_cb, queued, routed>>

\* mutant: queueing does not wake the router
queue_L_Data_Silent(l, dest) ==
    /\ ~in_trigger_cb /\ InLoop
    /\ link[l].drv = "on" /\ l \in links
    /\ queued < MaxPackets
    /\ some_running \/ want_up
    /\ buf' = Append(buf, dest)
    /\ queued' = queued + 1
    /\ UNCHANGED <<vars, low_send_more, high_send_more, trigger, in_trigger_cb, routed, failed>>

\* recv_L_Data from link l, through r_high and r_low to queue_L_Data.
queue_L_Data(l, dest) ==
    /\ ~in_trigger_cb /\ InLoop
    /\ link[l].drv = "on" /\ l \in links
    /\ queued < MaxPackets
    /\ IF some_running \/ want_up
       THEN /\ buf' = Append(buf, dest)
            /\ queued' = queued + 1
            /\ trigger' = (trigger \/ running_signal)
       ELSE UNCHANGED <<buf, queued, trigger>>
    /\ UNCHANGED <<vars, low_send_more, high_send_more, in_trigger_cb, routed, failed>>

trigger_cb ==
    /\ ~in_trigger_cb /\ InLoop /\ trigger
    /\ trigger' = FALSE /\ in_trigger_cb' = TRUE
    /\ UNCHANGED <<vars, buf, low_send_more, high_send_more, queued, routed, failed>>

\* LinkConnect::send_L_Data; the driver is done at once, later, or fails.
Send(l, k, a) ==
    LET s == [k EXCEPT !.send_more = FALSE, !.timer = "send"]
    IN CASE a = "ok"    -> [s EXCEPT !.send_more = TRUE, !.timer = "off"]
         [] a = "error" -> Errored(l, s)
         [] OTHER       -> s

\* One round of the loop: Router::send_L_Data hands the packet to the links that
\* are up, ready and want it, then looks whether the next one may follow.
trigger_cb_loop(how) ==
    /\ in_trigger_cb /\ buf # <<>> /\ low_send_more
    /\ buf' = Tail(buf)
    /\ routed' = routed + 1
    /\ link' = [l \in Links |->
                  IF l \in links /\ l \in Head(buf) /\ link[l].state = "up" /\ link[l].send_more
                  THEN Send(l, link[l], IF how[l] = "error" /\ l \notin Unreliable
                                        THEN "later" ELSE how[l])
                  ELSE link[l]]
    /\ high_send_more' = AllReady(link')
    /\ low_send_more' = AllReady(link')
    /\ trigger' = (trigger \/ AllReady(link'))
    /\ state_trigger' = (state_trigger \/ Notified(link'))
    /\ failed' = (failed \/ \E l \in Links : link'[l].drv # link[l].drv)
    /\ UNCHANGED <<links, flags, start_timer, exitcode, phase, sd_ready, in_trigger_cb, queued>>

trigger_cb_end ==
    /\ in_trigger_cb
    /\ buf = <<>> \/ ~low_send_more
    /\ in_trigger_cb' = FALSE
    /\ UNCHANGED <<vars, buf, low_send_more, high_send_more, trigger, queued, routed, failed>>

\* LinkConnect::send_Next, called by a driver that is done with its packet.
send_Next(l) ==
    /\ ~in_trigger_cb /\ InLoop
    /\ link[l].drv # "off" /\ ~link[l].send_more
    /\ link' = [link EXCEPT ![l].send_more = TRUE,
                            ![l].timer = IF link[l].state = "up" THEN "off" ELSE @]
    /\ SendNext(link')
    /\ UNCHANGED <<links, flags, state_trigger, start_timer, exitcode, phase, sd_ready,
                   buf, in_trigger_cb, queued, routed, failed>>

FlowNext ==
    \/ Life(Next)
    \/ trigger_cb \/ trigger_cb_end
    \/ \E how \in [Links -> {"ok", "later", "error"}] : trigger_cb_loop(how)
    \/ \E l \in Links : \/ send_Next(l)
                        \/ \E dest \in SUBSET (Links \ {l}) : queue_L_Data(l, dest)

FlowSpec == FlowInit /\ [][FlowNext]_allvars

\* The event loop serves pending watchers and expired timers; a driver answers
\* start(), stop() and, sooner or later, every packet.
FlowFairness ==
    /\ WF_allvars(trigger_cb)
    /\ WF_allvars(trigger_cb_end)
    /\ WF_allvars(\E how \in [Links -> {"ok", "later", "error"}] : trigger_cb_loop(how))
    /\ WF_allvars(Life(\E how \in [Links -> StopAnswer] : state_trigger_cb(how)))
    /\ \A l \in Links : /\ WF_allvars(send_Next(l))
                        /\ WF_allvars(Life(Answers(l)))
                        /\ WF_allvars(Life(\E a \in Answer : retry_timer_cb(l, a)))

FairFlowSpec == FlowSpec /\ FlowFairness

-----------------------------------------------------------------------------
\* The type invariant, with the packet flow.
FlowTypeOK ==
    /\ TypeOK
    /\ buf \in Seq(SUBSET Links)
    /\ low_send_more \in BOOLEAN /\ high_send_more \in BOOLEAN
    /\ trigger \in BOOLEAN /\ in_trigger_cb \in BOOLEAN
    /\ queued \in Nat /\ routed \in Nat /\ failed \in BOOLEAN

\* Whenever the router may take a packet from its queue, Router::send_L_Data
\* finds what it asserts: high_send_more is set and every link that is up is
\* ready (has_send_more never reports its internal error), so that no link is
\* handed a second packet before it asked for one or misses one.  And none is
\* taken before the start is complete (README.md: "KNX packets will not be routed
\* until all interfaces are ready").  Both hold only without drivers that call
\* send_Next() when they come up (EarlyNext).
CanSend == /\ FlowTypeOK
           /\ low_send_more => high_send_more /\ AllReady(link)
           /\ routed > 0 => running_signal

\* A packet in the queue is routed, unless again and again some link is not up
\* (or the daemon is on its way down): the router does not get stuck while every
\* link is up, as long as no driver failed that was up.
EveryPacketRouted == (routed < queued) ~> (routed = queued \/ ~all_running \/ failed)

\* The same after a failure: a link that was restarted does not block the router.
RoutedAfterRestart == (routed < queued) ~> (routed = queued \/ ~all_running)
=============================================================================
