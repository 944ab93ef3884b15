----------------------------- MODULE MCDrivers ------------------------------
(***************************************************************************)
(* The drivers for local interfaces, each with its device: FT1.2 and EMI   *)
(* (Serial), USB (Usb) and TPUART/NCN5120 (Tpuart).  A behaviour is one of *)
(* one driver, chosen at the start together with what may go wrong in it.  *)
(***************************************************************************)
EXTENDS LinkConnect

CONSTANTS max_retries, SerialCases, MaxPacket, MaxInd, MaxFault, UsbCases, Uninit, MaxStops, TpCases

VARIABLES kind, s, dev
vars == <<kind, s, dev>>

F == INSTANCE Serial WITH Cases <- SerialCases
U == INSTANCE Usb WITH UsbPackets <- MaxPacket, UsbInds <- MaxInd, UsbFaults <- MaxFault
P == INSTANCE Tpuart WITH TpPackets <- MaxPacket, TpFaults <- MaxFault

Init == \/ kind = "ft12" /\ F!SerialInit
        \/ kind = "usb" /\ U!UsbInit
        \/ kind = "tpuart" /\ P!TpInit

Next == /\ UNCHANGED kind
        /\ \/ kind = "ft12" /\ F!SerialNext
           \/ kind = "usb" /\ U!UsbNext
           \/ kind = "tpuart" /\ P!TpNext

Spec == Init /\ [][Next]_vars

-----------------------------------------------------------------------------
\* When the link is ready for the next packet, the earlier ones have arrived; see
\* SentArrives of each driver.
DriverSends ==
    CASE kind = "ft12" -> F!SentArrives [] kind = "usb" -> U!SentArrives [] kind = "tpuart" -> P!SentArrives

\* What the device reports is delivered once and in order, and a TPUART's echo of
\* the daemon's own packets is recognised as such; see RecvOnce of each driver.
DriverReceives ==
    CASE kind = "ft12" -> F!RecvOnce [] kind = "usb" -> U!RecvOnce
      [] kind = "tpuart" -> P!RecvOnce /\ P!EchoIgnored

\* A driver always has a way on: it can take a packet whenever the link may send
\* one (CanTake), fails no assertion and calls the link in no state that has no
\* transition for it (NoAbort), and a link on its way up or down does not stay there
\* (NeverStuck), with the exceptions that each driver lists.
DriverGoesOn ==
    CASE kind = "ft12" -> F!CanTake /\ F!NoAbort /\ F!NeverStuck
      [] kind = "usb" -> U!CanTake /\ U!NoAbort /\ U!NeverStuck
      [] kind = "tpuart" -> P!CanTake /\ P!NoAbort /\ P!NeverStuck

-----------------------------------------------------------------------------
MCLinks == {"l"}
MCNoRetry == [l \in MCLinks |-> 0]

MCSerialCases ==
    { [ver |-> v, monitor |-> FALSE, may |-> {"stop", f}] : v \in {"EMI2", "FT12CEMI"},
          f \in {"loss", "slow", "open", "eof", "early_loss", "slow_start", "repeat", "give_up", "reset",
                 "stop_busy", "other_links"} }
    \cup { [ver |-> v, monitor |-> TRUE, may |-> {"stop"}] : v \in {"EMI2", "FT12CEMI"} }

UsbCase(v, fs) == { [ver |-> v, conf |-> "unknown", monitor |-> FALSE, may |-> {"stop", f}] : f \in fs }
MCUsbCases ==
    UsbCase("CEMI", {"slow", "open", "timeout", "fail", "unplug", "silent", "slow_start", "stop_busy"})
    \cup UsbCase("EMI2", {"slow", "unplug", "stop_busy"}) \cup UsbCase("EMI1", {"open", "fail"})
    \cup { [ver |-> "CEMI", conf |-> "unknown", monitor |-> FALSE, may |-> {"info"}],
           [ver |-> "EMI1", conf |-> "unknown", monitor |-> TRUE, may |-> {"stop"}],
           [ver |-> "EMI2", conf |-> "EMI2", monitor |-> FALSE, may |-> {"stop"}] }

Chip(ncn, addr, monitor, stray, may, inds) ==
    [ncn |-> ncn, addr |-> addr, monitor |-> monitor, stray |-> stray, may |-> may, inds |-> inds]
MCTpCases ==
    { Chip(FALSE, FALSE, FALSE, "other", {f}, MaxInd) : f \in {"loss", "deaf", "nack"} }
    \cup { Chip(FALSE, FALSE, FALSE, "other", {f}, 1) : f \in {"slow", "dead", "eof", "stop"} }
    \cup { Chip(TRUE, FALSE, FALSE, "other", {f}, 1) : f \in {"loss", "open"} }
    \cup { Chip(FALSE, FALSE, FALSE, x, {"torn"}, MaxInd) : x \in {"start", "con"} }
    \cup { Chip(n, TRUE, FALSE, "other", {"loss"}, 1) : n \in BOOLEAN }
    \cup { Chip(n, FALSE, TRUE, "other", {"stop", "busack"}, MaxInd) : n \in BOOLEAN }
=============================================================================
