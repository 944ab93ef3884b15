------------------------------ MODULE LowLevel ------------------------------
(***************************************************************************)
(* What the drivers for local interfaces have in common: the link above    *)
(* them (module LinkConnect, here with one link), LowLevelAdapter and      *)
(* LowLevelIface (libserver/lowlevel.cpp) and the file descriptor          *)
(* (FDdriver, LLserial, LLtcp).                                            *)
(*                                                                         *)
(* A stack of driver objects is a record s.  A call from one object to the *)
(* next is an operator on s; a callback runs to its end.  Fields used here *)
(*   k        the link                                                     *)
(*   local    the objects with is_local, whose local_timeout is running    *)
(*   fd       sendbuf and recvbuf are in use                               *)
(*   running  recvbuf believes that it runs; io: it watches the device     *)
(*   rx, tx   what is on its way from and to the device                    *)
(*   aborted  an assertion has failed, or a callback was not set.          *)
(***************************************************************************)
EXTENDS LinkConnect, Sequences

TheLink == CHOOSE l \in Links : TRUE

Abort(s) == [s EXCEPT !.aborted = TRUE]
Running(s) == ~s.aborted /\ s.k.state # "abort"

-----------------------------------------------------------------------------
\* LowLevelAdapter: towards the link.  A driver never tells the link that it is
\* off, so that drv shows only which call setState makes of the driver; it is
\* reset when the call is made.  setState is SetState(l, k, new, "later") for
\* such a driver, with Start and Stop written out.
setState(l, k, new) ==
    LET o == k.state
        n == Enter(k, new)
    IN CASE o \in {"down", "wait_retry"} /\ new = "going_up" -> Notify([n EXCEPT !.send_more = TRUE, !.drv = "starting"])
         [] \/ o \in {"up", "going_up"} /\ new = "going_down"
            \/ o = "up" /\ new = "down"                      -> Notify([n EXCEPT !.drv = "stopping"])
         [] o = "up_error" /\ new = "going_down"             -> Notify([In(n, "going_down_error") EXCEPT !.drv = "stopping"])
         [] OTHER                                            -> Settle(l, k, new)

LinkState(s, new) == [s EXCEPT !.k = setState(TheLink, @, new)]
Called(s) == [s EXCEPT !.k.drv = "on"]

started(s) == LinkState(s, "up")
stopped(s) == LinkState(s, "down")
errored(s) == LinkState(s, "error")

\* BusDriver::send_Next and LinkConnect::send_Next
adapter_send_Next(s) ==
    [s EXCEPT !.k.send_more = TRUE, !.k.timer = IF s.k.state = "up" THEN "off" ELSE @]

\* LinkConnect::send_L_Data, before the driver's
link_send_L_Data(s) == [s EXCEPT !.k.send_more = FALSE, !.k.timer = "send"]

-----------------------------------------------------------------------------
\* LowLevelIface::send_Local of object o, before do_send_Local.
send_Local(s, o) == IF o \in s.local THEN Abort(s) ELSE [s EXCEPT !.local = @ \cup {o}]

\* send_Next and local_timeout_cb, before sendLocal_done.
local_done(s, o) == [s EXCEPT !.local = @ \ {o}]

-----------------------------------------------------------------------------
\* FDdriver::setup_buffers and start.  SendBuf::init asserts that it is not in
\* use; RecvBuf::start does not watch the device if it believes that it runs.
\* Opening the device discards what it had to tell.
FDdriver_start(s) ==
    IF s.fd THEN Abort(s)
    ELSE [s EXCEPT !.fd = TRUE, !.rx = <<>>, !.running = TRUE, !.io = ~s.running]

\* FDdriver::stop, up to stopped(): RecvBuf::stop leaves running as it is.
FDdriver_stop(s) == [s EXCEPT !.fd = FALSE, !.rx = <<>>, !.io = FALSE]

\* FDdriver::error_cb, after RecvBuf::io_cb has stopped watching the device
FDdriver_error_cb(s) == errored([s EXCEPT !.io = FALSE])

\* FDdriver::send_Data
FDdriver_send_Data(s, x) == IF s.fd THEN [s EXCEPT !.tx = Append(@, x)] ELSE s
=============================================================================
