---------------------------- MODULE LinkConnect ----------------------------
(***************************************************************************)
(* The life cycle of one link (class LinkConnect, libserver/link.cpp).     *)
(*                                                                         *)
(* A link is a record.  Besides the members of the C++ class it holds      *)
(*   drv  what the driver below the link is doing (external: the drivers   *)
(*        are only known by the contract stated at the top of link.h)      *)
(*   chg  whether the link is in Router::linkChanges.                      *)
(*                                                                         *)
(* start() and stop() reach the driver synchronously and the driver may    *)
(* call started(), stopped() or errored() back before it returns, or only  *)
(* later.  That choice is the argument `a', the driver's answer:           *)
(*   "ok"     start(): started()   stop(): stopped()                       *)
(*   "fail"   start(): stopped()   stop(): stopped()                       *)
(*   "error"  start(): errored()   stop(): stopped()                       *)
(*   "later"  the driver returns and calls back some time later.           *)
(***************************************************************************)
EXTENDS Integers

CONSTANTS
    Links,        \* identities of all links that may ever be registered
    RetryDelay,   \* [Links -> Nat]   retry-delay=
    MaxRetries    \* [Links -> Nat]   max-retry=

ASSUME LinkConfig == /\ RetryDelay \in [Links -> Nat]
                     /\ MaxRetries \in [Links -> Nat]

LConnState == { "down", "going_down", "up", "going_up", "wait_retry",
                "error", "up_error", "going_down_error" }

DriverState == { "off", "starting", "on", "failed", "stopping" }

Answer == { "ok", "fail", "error", "later" }

StopAnswer == { "ok", "later" }

\* abort() in LinkConnect::setState is the extra state "abort".  retry_timer is
\* used for restarts and for send-timeout; "new" is a restart timer that was set
\* after the event loop last served the router's state trigger.
LinkRec == [ state     : LConnState \cup {"abort"},
             drv       : DriverState,
             retries   : Nat,
             timer     : {"off", "new", "retry", "send"},
             send_more : BOOLEAN,
             chg       : BOOLEAN ]

\* A link as its constructor and setup() leave it.
NewLink == [ state |-> "down", drv |-> "off", retries |-> 0, timer |-> "off",
             send_more |-> TRUE, chg |-> FALSE ]

\* mutant: the router is not told
Notify_Lost(k) == k

\* linkStateChanged: the link joins Router::linkChanges.
Notify(k) == [k EXCEPT !.chg = TRUE]

In(k, s) == [k EXCEPT !.state = s]

\* mutants: the state is not assigned before the driver is called; the timer of
\* the state that is left keeps running
Enter_Late(k, s) ==
    [k EXCEPT !.timer = IF k.state = "wait_retry" \/ (k.state = "up" /\ s # "up")
                        THEN "off" ELSE @]
Enter_KeepsTimer(k, s) == [k EXCEPT !.state = s]

\* The unconditional first lines of setState.
Enter(k, s) ==
    [k EXCEPT !.state = s,
              !.timer = IF k.state = "wait_retry" \/ (k.state = "up" /\ s # "up")
                        THEN "off" ELSE @]

\* mutant: one attempt too many
Retry_OneMore(l, k) ==
    IF \/ RetryDelay[l] > 0 /\ MaxRetries[l] = 0
       \/ k.retries <= MaxRetries[l]
    THEN [k EXCEPT !.state = "wait_retry", !.timer = "new"]
    ELSE Notify(In(k, "error"))

\* `retry:' -- the only path that does not always tell the router.
Retry(l, k) ==
    IF \/ RetryDelay[l] > 0 /\ MaxRetries[l] = 0
       \/ k.retries < MaxRetries[l]
    THEN [k EXCEPT !.state = "wait_retry", !.timer = "new"]
    ELSE Notify(In(k, "error"))

\* setState for the transitions that call neither start() nor stop().
Settle(l, k, new) ==
    LET o == k.state
        From(n) ==
         CASE o = new                                     -> k
         [] o \in {"down", "wait_retry"} /\ new = "going_down"
                                                          -> Notify(In(n, "down"))
         [] o = "going_down" /\ new = "down"              -> Notify(n)
         [] o = "going_down" /\ new = "error"             -> Notify(In(n, "going_down_error"))
         [] o = "up" /\ new = "going_up"                  -> Notify(In(n, "up"))
         [] o = "going_up" /\ new = "up"                  -> Notify([n EXCEPT !.retries = 0])
         [] o \in {"up", "going_up"} /\ new = "error"     -> Notify(In(n, "up_error"))
         [] o \in {"going_up", "error", "up_error", "going_down_error"} /\ new = "down"
                                                          -> Retry(l, n)
         [] o = "error" /\ new = "wait_retry"             -> Retry(l, n)
         [] o = "error" /\ new = "going_down"             -> Notify(In(n, "error"))
         [] o \in {"up_error", "going_down_error"} /\ new = "error"
                                                          -> Notify(n)
         [] o = "going_down_error" /\ new = "going_down"  -> Notify(In(n, "going_down_error"))
         [] OTHER                                         -> In(n, "abort")
    IN From(Enter(k, new))

\* What a driver does when it is told to start; `a' is its answer.
Start(l, k, a) ==
    LET s == [k EXCEPT !.send_more = TRUE]
    IN CASE a = "ok"    -> Settle(l, [s EXCEPT !.drv = "on"], "up")
         [] a = "fail"  -> Settle(l, [s EXCEPT !.drv = "off"], "down")
         [] a = "error" -> Settle(l, [s EXCEPT !.drv = "failed"], "error")
         [] OTHER       -> [s EXCEPT !.drv = "starting"]

\* mutant: the driver is not told
Stop_StaysOn(l, k, a) == k

\* What a driver does when it is told to stop.  One that has stopped already
\* has nothing left to do and calls stopped() at once.
Stop(l, k, a) ==
    IF a = "later" /\ k.drv # "off"
    THEN [k EXCEPT !.drv = "stopping"]
    ELSE Settle(l, [k EXCEPT !.drv = "off"], "down")

\* LinkConnect::setState
SetState(l, k, new, a) ==
    LET o == k.state
        n == Enter(k, new)
    IN CASE o \in {"down", "wait_retry"} /\ new = "going_up" -> Notify(Start(l, n, a))
         [] \/ o \in {"up", "going_up"} /\ new = "going_down"
            \/ o = "up" /\ new = "down"                      -> Notify(Stop(l, n, a))
         [] o = "up_error" /\ new = "going_down"
                             -> Notify(Stop(l, In(n, "going_down_error"), a))
         [] OTHER                                            -> Settle(l, k, new)

\* The driver's callbacks: LinkConnect::started, stopped, errored.
Started(l, k) == SetState(l, [k EXCEPT !.drv = "on"], "up", "later")

Stopped(l, k, a) == SetState(l, [k EXCEPT !.drv = "off"], "down", a)

Errored(l, k) ==
    SetState(l, [k EXCEPT !.drv = IF @ = "stopping" THEN @ ELSE "failed"], "error", "later")

\* LinkConnect::retry_timer_cb.  Without a limit `retries' has no effect, and is
\* not counted.
RetryTimer(l, k, a) ==
    LET t == [k EXCEPT !.timer = "off"]
    IN CASE k.state = "up" /\ ~k.send_more -> Errored(l, t)
         [] k.state = "wait_retry" ->
               SetState(l, [t EXCEPT !.retries = IF MaxRetries[l] > 0 THEN @ + 1 ELSE @],
                        "going_up", a)
         [] OTHER -> t
=============================================================================
