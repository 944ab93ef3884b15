------------------------------- MODULE Router -------------------------------
(***************************************************************************)
(* Bringing the links of the router up and down: Router::start .. stopped  *)
(* in libserver/router.cpp, RouterHigh, and the main program around it     *)
(* (server/knxd.cpp).                                                      *)
(*                                                                         *)
(* knxd is single-threaded: every action is one callback of the event      *)
(* loop, run to its end.  Links that a callback visits in a loop do not    *)
(* influence each other, so the loop becomes a function over all links;    *)
(* how[l] is what the driver of link l answers if the callback starts or   *)
(* stops it.                                                               *)
(***************************************************************************)
EXTENDS LinkConnect

CONSTANTS
    Transient,     \* the links of clients, registered while knxd runs
    Ignore,        \* ignore=true
    MayFail,       \* may-fail=true
    StartTimeout,  \* timeout= in the main section is positive
    ErrorTwice     \* a driver may call errored() again before it is stopped

ASSUME RouterConfig == /\ Transient \subseteq Links
                       /\ Ignore \subseteq Links
                       /\ MayFail \subseteq Links
                       /\ StartTimeout \in BOOLEAN
                       /\ ErrorTwice \in BOOLEAN

VARIABLES
    link,            \* [Links -> LinkRec]
    links,           \* Router::links, the registered links
    want_up, some_running, all_running, running_signal,
    is_started,      \* RouterHigh::is_started
    state_trigger,   \* the async watcher is pending
    start_timer,     \* the timer is armed
    exitcode,
    phase,           \* where main() is
    sd_ready         \* READY=1 has been sent to systemd

flags == <<want_up, some_running, all_running, running_signal, is_started>>
vars == <<link, links, flags, state_trigger, start_timer, exitcode, phase, sd_ready>>

Static == Links \ Transient

Init ==
    /\ link = [l \in Links |-> NewLink]
    /\ links = Static
    /\ want_up = FALSE /\ some_running = FALSE /\ all_running = FALSE
    /\ running_signal = FALSE /\ is_started = FALSE
    /\ state_trigger = FALSE /\ start_timer = FALSE
    /\ exitcode = 0 /\ phase = "setup" /\ sd_ready = FALSE

\* main() leaves the loop for good as soon as it finds the router idle.
InLoop == phase = "run" \/ (phase = "shutdown" /\ some_running)

\* linkStateChanged: whoever is put into linkChanges also triggers the router.
Notified(f) == \E l \in Links : f[l].chg

\* Router::stop_ , the loop over all links.
StopAll(f, how) ==
    [l \in Links |-> IF l \in links THEN SetState(l, f[l], "going_down", how[l]) ELSE f[l]]

-----------------------------------------------------------------------------
\* main(): Router::start, start_ and the first sd_notify; then ev_run.
start(how) ==
    /\ phase = "setup"
    /\ phase' = "run"
    /\ want_up' = TRUE
    /\ some_running' = TRUE
    /\ link' = [l \in Links |-> IF l \in links \ (Ignore \cup Transient)
                                THEN SetState(l, link[l], "going_up", how[l])
                                ELSE link[l]]
    /\ state_trigger' = Notified(link')
    /\ start_timer' = StartTimeout
    /\ sd_ready' = TRUE
    /\ UNCHANGED <<links, all_running, running_signal, is_started, exitcode>>

\* Router::stop when want_up, with stop_.
DoStop(f, how) ==
    /\ want_up' = FALSE
    /\ all_running' = FALSE
    /\ link' = StopAll(f, how)

\* main() after ev_run returned: Router::stop.
signal_cb(how) ==
    /\ phase = "run"
    /\ phase' = "shutdown"
    /\ IF want_up THEN DoStop(link, how) ELSE UNCHANGED <<want_up, all_running, link>>
    /\ state_trigger' = (state_trigger \/ Notified(link'))
    /\ UNCHANGED <<links, some_running, running_signal, is_started, start_timer,
                   exitcode, sd_ready>>

\* A second signal ends the wait for the links.
signal_again ==
    /\ phase = "shutdown"
    /\ phase' = "killed"
    /\ UNCHANGED <<link, links, flags, state_trigger, start_timer, exitcode, sd_ready>>

\* main(): the loop around ev_run ends when the router is idle.
exit ==
    /\ phase = "shutdown"
    /\ ~some_running
    /\ phase' = "exit"
    /\ UNCHANGED <<link, links, flags, state_trigger, start_timer, exitcode, sd_ready>>

start_timer_cb(how) ==
    /\ InLoop /\ start_timer
    /\ start_timer' = FALSE
    /\ IF want_up THEN DoStop(link, how) ELSE UNCHANGED <<want_up, all_running, link>>
    /\ state_trigger' = (state_trigger \/ Notified(link'))
    /\ UNCHANGED <<links, some_running, running_signal, is_started, exitcode, phase, sd_ready>>

-----------------------------------------------------------------------------
\* state_trigger_cb, first loop: empty linkChanges.
Drain(l, k, a) ==
    LET d == [k EXCEPT !.chg = FALSE, !.timer = IF @ = "new" THEN "retry" ELSE @]
    IN IF k.chg /\ ~want_up /\ k.state \in {"going_down", "up", "going_up"}
       THEN SetState(l, d, "going_down", a) ELSE d

\* Second loop: a static link in an error state is told to stop ...
Halt(l, k, a) ==
    IF l \in links \ Transient /\ k.state \in {"up_error", "going_down_error"}
    THEN Stop(l, k, a) ELSE k

\* mutants: a failed link, one that is stopping does not count
CountsDown_NoError(l, s) == l \in links \ (Transient \cup MayFail \cup Ignore) /\ s = "down"
CountsGoing_NoStopping(l, s) ==
    \/ /\ l \in links \ Transient
       /\ s \in {"going_up", "up_error", "going_down_error", "wait_retry"}
    \/ l \in links \cap Transient /\ ~want_up /\ s \notin {"down", "error"}

\* ... and then the state it is in counts.
CountsDown(l, s)  == l \in links \ (Transient \cup MayFail \cup Ignore) /\ s \in {"down", "error"}
CountsUp(l, s)    == l \in links \ Transient /\ s = "up"
CountsGoing(l, s) ==
    \/ /\ l \in links \ Transient
       /\ \/ s \in {"going_down", "going_up", "abort"}
          \/ s \in {"up_error", "going_down_error", "wait_retry"} /\ l \notin MayFail
    \/ l \in links \cap Transient /\ ~want_up /\ s \notin {"down", "error"}

Push(l, k, a) ==
    IF ~want_up /\ CountsGoing(l, k.state) THEN SetState(l, k, "going_down", a) ELSE k

\* mutant: the first link that comes up will do
HighStarted_Some(some, all) == some /\ ~all_running

\* r_high->started(): now all links run, and did not before.
HighStarted(some, all) == all /\ ~all_running

\* mutant: the timer goes on when all links run
StartTimer_GoesOn(high_started) == start_timer

\* Once all links run there is no start timeout any more.
StartTimer(high_started) == start_timer /\ ~high_started

state_trigger_cb(how) ==
    LET drained == [l \in Links |-> Drain(l, link[l], how[l])]
        halted  == [l \in Links |-> Halt(l, [drained[l] EXCEPT !.chg = FALSE], how[l])]
        pushed  == [l \in Links |-> Push(l, halted[l], how[l])]
        going   == \E l \in Links : CountsGoing(l, halted[l].state)
        up      == \E l \in Links : CountsUp(l, halted[l].state)
        down    == \E l \in Links : CountsDown(l, halted[l].state)
        some    == going \/ up
        all     == up /\ ~going /\ ~down
        hard    == want_up /\ down             \* a required link is down
        high_stopped == some_running /\ ~some  \* r_high->stopped()
        high_started == ~high_stopped /\ HighStarted(some, all)
    IN
    /\ InLoop /\ state_trigger
    /\ some_running' = some
    /\ IF hard \/ (high_stopped /\ want_up)
       THEN DoStop(pushed, how)
       ELSE want_up' = want_up /\ all_running' = all /\ link' = pushed
    /\ state_trigger' = (Notified(drained) \/ Notified(link'))
    /\ exitcode' = IF hard THEN 1 ELSE exitcode
    /\ is_started' = (~high_stopped /\ (is_started \/ high_started))
    /\ running_signal' = (running_signal \/ (high_started /\ ~is_started))
    /\ start_timer' = StartTimer(high_started)
    \* Router::stopped: ev_break unless it had to call stop() first
    /\ phase' = IF high_stopped /\ (hard \/ ~want_up) THEN "shutdown" ELSE phase
    /\ UNCHANGED <<links, sd_ready>>

-----------------------------------------------------------------------------
\* One link changes; the router learns of it through linkStateChanged only.
Update(l, k) ==
    /\ link' = [link EXCEPT ![l] = k]
    /\ state_trigger' = (state_trigger \/ k.chg)
    /\ UNCHANGED <<links, flags, start_timer, exitcode, phase, sd_ready>>

started(l) == InLoop /\ link[l].drv = "starting" /\ Update(l, Started(l, link[l]))

stopped(l, a) == InLoop /\ link[l].drv # "off" /\ Update(l, Stopped(l, link[l], a))

errored(l) ==
    /\ InLoop
    /\ link[l].drv # "off"
    /\ ErrorTwice \/ link[l].state \notin {"up_error", "going_down_error", "error"}
    /\ Update(l, Errored(l, link[l]))

\* A restart timer of a second or more does not overtake a trigger that was
\* pending when it was set.
retry_timer_cb(l, a) ==
    /\ InLoop
    /\ link[l].timer # "off"
    /\ link[l].timer = "new" => ~state_trigger \/ RetryDelay[l] = 0
    /\ Update(l, RetryTimer(l, link[l], a))

\* registerLink(link, true) for a client that connects.
registerLink(l, a) ==
    /\ InLoop
    /\ l \in Transient \ links
    /\ links' = links \cup {l}
    /\ IF want_up
       THEN /\ all_running' = FALSE
            /\ link' = [link EXCEPT ![l] = SetState(l, NewLink, "going_up", a)]
            /\ state_trigger' = TRUE
       ELSE UNCHANGED <<all_running, link, state_trigger>>
    /\ UNCHANGED <<want_up, some_running, running_signal, is_started, start_timer,
                   exitcode, phase, sd_ready>>

\* unregisterLink, after which the client drops the link.
unregisterLink(l) ==
    /\ InLoop
    /\ l \in Transient \cap links
    /\ links' = links \ {l}
    /\ link' = [link EXCEPT ![l] = NewLink]
    /\ state_trigger' = TRUE
    /\ UNCHANGED <<flags, start_timer, exitcode, phase, sd_ready>>

Terminated == phase \in {"exit", "killed"} /\ UNCHANGED vars

Next ==
    \/ \E how \in [Links -> Answer] : start(how)
    \/ \E how \in [Links -> StopAnswer] :
          signal_cb(how) \/ start_timer_cb(how) \/ state_trigger_cb(how)
    \/ signal_again \/ exit \/ Terminated
    \/ \E l \in Links :
          \/ started(l) \/ errored(l) \/ unregisterLink(l)
          \/ \E a \in StopAnswer : stopped(l, a)
          \/ \E a \in Answer : retry_timer_cb(l, a) \/ registerLink(l, a)

Spec == Init /\ [][Next]_vars

\* "Starting is asynchronous but must complete eventually" (link.h): a driver
\* that owes an answer gives it.
Answers(l) ==
    /\ link[l].drv \in {"starting", "stopping"}
    /\ started(l) \/ \E a \in StopAnswer : stopped(l, a)

\* The event loop serves every pending watcher and main() looks at isIdle()
\* after every round.
Fairness ==
    /\ WF_vars(\E how \in [Links -> StopAnswer] : state_trigger_cb(how))
    /\ WF_vars(exit)
    /\ \A l \in Links : /\ WF_vars(Answers(l))
                        /\ WF_vars(\E a \in Answer : retry_timer_cb(l, a))

FairSpec == Spec /\ Fairness

-----------------------------------------------------------------------------
\* The type invariant of the router and its links.
TypeOK ==
    /\ link \in [Links -> LinkRec]
    /\ Static \subseteq links /\ links \subseteq Links
    /\ want_up \in BOOLEAN /\ some_running \in BOOLEAN /\ all_running \in BOOLEAN
    /\ running_signal \in BOOLEAN /\ is_started \in BOOLEAN
    /\ state_trigger \in BOOLEAN /\ start_timer \in BOOLEAN
    /\ exitcode \in {0, 1}
    /\ phase \in {"setup", "run", "shutdown", "exit", "killed"}
    /\ sd_ready \in BOOLEAN

\* No interleaving of driver callbacks, timers and router commands makes
\* setState reach its `inval:' label, which aborts the daemon.
NoAbort == \A l \in Links : link[l].state # "abort"

\* The state of a link always tells what its driver is doing, although the
\* driver answers start() and stop() at once, late or with a failure: no start()
\* reaches a driver that is active and no stop() is left without an answer.
DriverMatchesState ==
    \A l \in Links :
        /\ link[l].state \in {"down", "wait_retry"} => link[l].drv = "off"
        /\ link[l].state = "going_up" => link[l].drv = "starting"
        /\ link[l].state = "up" => link[l].drv = "on"
        /\ link[l].state \in {"going_down", "going_down_error"} => link[l].drv = "stopping"
        /\ link[l].state = "up_error" => link[l].drv \in {"failed", "stopping"}
        /\ link[l].state = "error" => link[l].drv \in {"off", "failed", "stopping"}

\* A link waits for a restart exactly while its retry timer runs: a restart is
\* neither lost nor does a stale timer fire in another state.
RetryArmed ==
    \A l \in Links : link[l].state = "wait_retry" <=> link[l].timer \in {"new", "retry"}

\* max-retry= bounds the attempts since the link was last up (retry_timer_cb).
RetriesBounded == \A l \in Links : link[l].retries <= MaxRetries[l]

Required == Static \ (MayFail \cup Ignore)

\* When main() leaves its loop because isIdle(), no required link has a driver
\* that still runs.  This holds only if no driver calls errored() twice
\* (ErrorTwice = FALSE): the second call takes setState from L_up_error to
\* L_error, which state_trigger_cb counts as down and never stops.
ExitClean == phase = "exit" => \A l \in Required : link[l].drv = "off"

\* The daemon only declares itself running (running_signal, "all drivers up", with
\* the second READY=1; main() sends the first one right after start(), whatever the
\* links do) in a step after which every required link is up, and it never takes
\* that back.
SignalMeansAllUp ==
    [][running_signal' # running_signal =>
          running_signal' /\ want_up' /\ \A l \in Required : link'[l].state = "up"]_vars

\* The router's view of its links is never wrong for good.  A configured link
\* that failed is not forgotten: in an error state that setState cannot leave by
\* itself, either the router is about to look at it or its driver has been told to
\* stop.  And whenever nothing is left to look at, the summary agrees with the
\* links: no required link is down for good while the daemon wants to be up,
\* `all_running' means that each of them is up, and `some_running' (on which
\* isIdle() and with it the exit of main() rest) covers every link that is up.
SummaryAgrees ==
    InLoop =>
        /\ \A l \in Static : link[l].state \in {"up_error", "going_down_error"} =>
                             state_trigger \/ link[l].drv = "stopping"
        /\ ~state_trigger =>
              /\ want_up => \A l \in Required : link[l].state \notin {"down", "error"}
              /\ all_running => \A l \in Required : link[l].state = "up"
              /\ (\E l \in Static : link[l].state = "up") => some_running

\* A daemon that once had all links up is only taken down by a signal, or with exit
\* code 1 because it lost a required link: neither the start timeout, which stops it
\* with exit code 0, nor an interplay of links that are down, failing or waiting for
\* a retry does that (state_trigger_cb, start_timer_cb, Router::stopped).
FailureTold ==
    phase = "run" /\ running_signal /\ ~want_up => exitcode = 1 \/ Required = {}

\* Shutting down completes: main() returns after a signal and, if some link is
\* required, also when the start timeout or the router itself stops the router.  If
\* none is required, a router that finds no link running calls stop() instead of
\* ev_break (Router::stopped), and main() may stay in ev_run until a signal.  Two
\* more conditions keep drivers that fail from being started again and again.  Every
\* link that may be retried has a positive retry-delay: with 0 (and max-retry > 0)
\* the timer can fire before each state_trigger_cb.  And at most one of them is
\* may-fail: such a link is not stopped while it waits, and two can take turns.
StopCompletes ==
    (InLoop /\ ~want_up /\ (phase = "shutdown" \/ Required # {})) ~> phase \in {"exit", "killed"}

\* doc/inifile.rst:377 says of may-fail: "If the driver doesn't initially start up,
\* knxd will continue anyway instead of terminating with an error."  So, with
\* may-fail on every link and no start timeout, the router wants to be up until a
\* signal ends the daemon.
GoesOnAnyway == phase = "run" /\ Required = {} /\ ~StartTimeout => want_up

=============================================================================
