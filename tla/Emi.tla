-------------------------------- MODULE Emi ---------------------------------
(***************************************************************************)
(* The EMI drivers: EMI_Common with EMI1Driver, EMI2Driver, CEMIDriver     *)
(* (libserver) and FT12CEMIDriver (backend/ft12.h), above FT12wrap or the  *)
(* USB converter.                                                          *)
(*                                                                         *)
(* Fields of s.emi: the members of the classes; wait is reset_ack_wait or  *)
(* after_reset, rtimer and timer whether reset_timer and timeout run.      *)
(* wait_confirm_low is never set, which leaves N_want_close and            *)
(* N_want_leave unused.  s.low is the object below, s.got what was handed  *)
(* to the link.                                                            *)
(***************************************************************************)
EXTENDS Ft12, UsbLow

CONSTANTS max_retries   \* send-retries=

Vers == {"EMI1", "EMI2", "CEMI", "FT12CEMI"}

EMI(ver, monitor) ==
    [ ver |-> ver, monitor |-> monitor, state |-> "idle", next |-> "bad", wait |-> FALSE,
      rtimer |-> FALSE, timer |-> FALSE, retries |-> 0, out |-> None ]

\* LowLevelFilter::send_Data and do_send_Local: the object below.
lower_send(s, p) == IF s.low = "ft12" THEN FT12_do_send_Local(s, p, FALSE) ELSE USB_send_Data(s, p)

\* What is to be done once a command is sent
Sends(s, next) == [s EXCEPT !.emi.next = next]

\* send_Local of a command
Cmd(s) == LET r == send_Local(s, "emi") IN lower_send(r, [t |-> "cmd"])

\* The commands of each class; the reset that EMI2 sends first, and the table that
\* EMI1 clears first, are steps of their own.
EMI1_cmdOpen(s) == Sends(s, "open")
EMI2_cmdOpen(s) == Sends(s, "open")
FT12CEMI_cmdOpen(s) == Sends(s, "up")
CEMI_cmdOpen(s) == started(s)
cmdOpen(s) ==
    IF s.emi.ver = "CEMI" THEN CEMI_cmdOpen(s)
    ELSE Cmd(CASE s.emi.ver = "EMI1" -> EMI1_cmdOpen(s) [] s.emi.ver = "EMI2" -> EMI2_cmdOpen(s)
               [] OTHER -> FT12CEMI_cmdOpen(s))

EMI1_cmdEnterMonitor(s) == Sends(s, "up")
EMI2_cmdEnterMonitor(s) == Sends(s, "enter")
CEMI_cmdEnterMonitor(s) == stopped(errored(s))
cmdEnterMonitor(s) ==
    IF s.emi.ver \notin {"EMI1", "EMI2"} THEN CEMI_cmdEnterMonitor(s)
    ELSE Cmd(IF s.emi.ver = "EMI1" THEN EMI1_cmdEnterMonitor(s) ELSE EMI2_cmdEnterMonitor(s))

\* CEMI tells the layer above that it is down, and leaves the object below alone.
EMI1_cmdClose(s) == Sends(s, "down")
EMI2_cmdClose(s) == Sends(s, "down")
CEMI_cmdClose(s) == stopped(s)
cmdClose(s) ==
    IF s.emi.ver \notin {"EMI1", "EMI2"} THEN CEMI_cmdClose(s)
    ELSE Cmd(IF s.emi.ver = "EMI1" THEN EMI1_cmdClose(s) ELSE EMI2_cmdClose(s))

EMI1_cmdLeaveMonitor(s) == Sends(s, "down")
EMI2_cmdLeaveMonitor(s) == Sends(s, "down")
CEMI_cmdLeaveMonitor(s) == stopped(errored(s))
cmdLeaveMonitor(s) ==
    IF s.emi.ver \notin {"EMI1", "EMI2"} THEN CEMI_cmdLeaveMonitor(s)
    ELSE Cmd(IF s.emi.ver = "EMI1" THEN EMI1_cmdLeaveMonitor(s) ELSE EMI2_cmdLeaveMonitor(s))

\* EMI_Common::started
Common_started(s) == IF s.emi.monitor THEN cmdEnterMonitor(s) ELSE cmdOpen(s)

\* EMI_Common::stop
EMI_stop(s) == IF s.emi.monitor THEN cmdLeaveMonitor(s) ELSE cmdClose(s)

\* LowLevelFilter::stop, and FT12wrap::stop with LLserial::stop
lower_stop(s) == IF s.low = "ft12" THEN stopped(FDdriver_stop(FT12_stop_(s))) ELSE USB_stop(s)

\* sendLocal_done_cb of the classes, after the test that all of them begin with
EMI1_sendLocal_done(s) ==
    CASE s.emi.next = "down" -> lower_stop(s)
      [] s.emi.next = "up"   -> started(s)
      [] s.emi.next = "open" -> Cmd(Sends(s, "up"))
EMI2_sendLocal_done(s) ==
    IF s.emi.next = "enter" THEN Cmd(Sends(s, "up")) ELSE EMI1_sendLocal_done(s)
CEMI_sendLocal_done(s) == started(s)
EMI_sendLocal_done(s, success) ==
    CASE ~success \/ s.emi.next = "bad" -> stopped(errored(s))
      [] success /\ s.emi.next # "bad" /\ s.emi.ver = "EMI1" -> EMI1_sendLocal_done(s)
      [] success /\ s.emi.next # "bad" /\ s.emi.ver = "EMI2" -> EMI2_sendLocal_done(s)
      [] OTHER                          -> CEMI_sendLocal_done(s)

-----------------------------------------------------------------------------
\* EMI_Common::send_Data
Common_send_Data(s, p) == lower_send([s EXCEPT !.emi = [@ EXCEPT !.state = "wait", !.timer = TRUE]], p)

\* EMI_Common::send_L_Data; big is a packet longer than maxPacketLen().
EMI_send_L_Data(s, p, big) ==
    IF s.emi.state # "idle" THEN s
    ELSE IF big THEN adapter_send_Next(s)
    ELSE Common_send_Data([s EXCEPT !.emi = [@ EXCEPT !.out = p, !.retries = 0]], p)

\* EMI_Common::do_send_Next
Common_do_send_Next(s) ==
    CASE s.emi.state = "wait"  -> [s EXCEPT !.emi.state = "wait_confirm"]
      [] s.emi.state = "idle"  -> adapter_send_Next(s)
      [] OTHER                 -> s

\* do_send_Next of the classes; for those but EMI1 the reset is acknowledged.
EMI1_do_send_Next(s) == Common_do_send_Next(s)
reset_done(s) == Common_started([s EXCEPT !.emi = [@ EXCEPT !.wait = FALSE, !.rtimer = FALSE]])
EMI_do_send_Next(s) ==
    IF s.emi.wait /\ s.emi.ver # "EMI1" THEN reset_done(s) ELSE EMI1_do_send_Next(s)

\* LowLevelIface::send_Next of the driver
EMI_send_Next(s) ==
    IF "emi" \in s.local THEN EMI_sendLocal_done(local_done(s, "emi"), TRUE) ELSE EMI_do_send_Next(s)

\* LowLevelDriver::sendReset just calls send_Next; if the USB converter waits for
\* a command of its own, that is taken for its completion.
sendReset(s) == IF s.low = "ft12" THEN FT12_sendReset(s) ELSE EMI_send_Next(local_done(s, "conv"))

\* started() of the classes: the object below is running.
EMI2_started(s) == [s EXCEPT !.emi = [@ EXCEPT !.wait = TRUE, !.rtimer = TRUE]]
CEMI_started(s) == [s EXCEPT !.emi = [@ EXCEPT !.wait = TRUE, !.rtimer = TRUE]]
EMI_started(s) ==
    IF s.emi.ver = "EMI1" THEN Common_started(s)
    ELSE sendReset(IF s.emi.ver = "EMI2" THEN EMI2_started(s) ELSE CEMI_started(s))

\* EMI_Common::timeout_cb
EMI_timeout_cb(s) ==
    LET r == [s EXCEPT !.emi.timer = FALSE]
    IN CASE s.emi.state \in {"idle", "timed_out"} -> r
         [] s.emi.state = "wait" -> errored([r EXCEPT !.emi.state = "timed_out"])
         [] s.emi.retries < max_retries -> Common_send_Data([r EXCEPT !.emi.retries = @ + 1], s.emi.out)
         [] OTHER -> adapter_send_Next([r EXCEPT !.emi.state = "idle"])

\* EMI2Driver has a reset_timer_cb, but does not set it.
EMI2_reset_timer(s) == Abort(s)
CEMI_reset_timer_cb(s) == errored([s EXCEPT !.emi.rtimer = FALSE])
EMI_reset_timer_cb(s) == IF s.emi.ver = "EMI2" THEN EMI2_reset_timer(s) ELSE CEMI_reset_timer_cb(s)

\* LowLevelIface::local_timeout_cb of the driver
EMI_local_timeout_cb(s) == EMI_sendLocal_done(local_done(s, "emi"), FALSE)

\* EMI_Common::recv_Data.  A confirmation is known by its code alone.
EMI_recv_Data(s, p) ==
    CASE p.t = "reset" -> errored(s)
      [] p.t = "con" /\ s.emi.state = "wait_confirm" ->
             adapter_send_Next([s EXCEPT !.emi = [@ EXCEPT !.state = "idle", !.timer = FALSE]])
      [] p.t = (IF s.emi.monitor THEN "busmon" ELSE "ind") -> [s EXCEPT !.got = Append(@, p.n)]
      [] OTHER -> s
=============================================================================
