------------------------------- MODULE UsbLow -------------------------------
(***************************************************************************)
(* USBLowLevelDriver (libserver/usblowlevel.cpp), as far as it does not    *)
(* call the object above; the rest is in module Usb.                       *)
(*                                                                         *)
(* A transfer is "none", "busy" (with libusb), "cancel" (busy and being    *)
(* cancelled), "unsubmitted" (libusb refused it) or ended, as "done",      *)
(* "timed_out", "failed" or "cancelled".  Fields of s.u besides the        *)
(* members: rbuf is recvbuf, stops the number of calls of stop_ that wait  *)
(* for the transfers in an event loop of their own, gone whether the       *)
(* device is unplugged.                                                    *)
(***************************************************************************)
EXTENDS LowLevel

sNone == 0
sStarted == 1
sClaimed == 2
sRunning == 3
sConnected == 4

Nothing == [t |-> "none"]

USBLowLevelDriver ==
    [ state |-> sNone, loop |-> TRUE, out |-> Nothing, sendh |-> "none", recvh |-> "none", rbuf |-> Nothing,
      send_retry |-> 0, stopping |-> FALSE, stops |-> 0, write_trigger |-> FALSE, read_trigger |-> FALSE,
      gone |-> FALSE ]

\* USBLowLevelDriver::do_send
USB_do_send(s) ==
    IF s.u.sendh # "none" \/ s.u.state < sClaimed \/ s.u.out = Nothing THEN s
    ELSE [s EXCEPT !.u.sendh = IF s.u.gone THEN "unsubmitted" ELSE "busy"]

\* USBLowLevelDriver::send_Data, below USBConverterInterface::send_Data
USB_send_Data(s, p) ==
    IF s.u.sendh # "none" THEN errored(s) ELSE USB_do_send([s EXCEPT !.u.out = p])

\* USBLowLevelDriver::StartUsbRecvTransfer
StartUsbRecvTransfer(s) ==
    IF s.u.gone THEN errored([s EXCEPT !.u.recvh = "unsubmitted"]) ELSE [s EXCEPT !.u.recvh = "busy"]

Cancel(h) == IF h = "busy" THEN "cancel" ELSE h

\* USBLowLevelDriver::stop_, up to the loop that waits for the transfers
USB_stop_(s) ==
    [s EXCEPT !.u = [@ EXCEPT !.stopping = TRUE, !.state = IF @ > sClaimed THEN sClaimed ELSE @,
                              !.sendh = Cancel(@), !.recvh = Cancel(@), !.stops = @ + 1]]

USB_idle(s) == s.u.sendh = "none" /\ s.u.recvh = "none"

\* The rest of stop_ and of stop, with USBDriver::stopped.
USB_stopped(s) ==
    stopped([s EXCEPT !.u = [@ EXCEPT !.stops = @ - 1, !.loop = FALSE, !.state = sNone],
                      !.timeout = IF s.version = "discovery" THEN FALSE ELSE @])

USB_stop(s) ==
    LET Waits(r) == IF USB_idle(r) THEN USB_stopped(r) ELSE r IN Waits(USB_stop_(s))
=============================================================================
