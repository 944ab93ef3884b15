-------------------------------- MODULE Usb ---------------------------------
(***************************************************************************)
(* A KNX interface on USB: the stack of one link (LinkConnect, USBDriver,  *)
(* EMI driver, USBConverterInterface, USBLowLevelDriver), libusb and the   *)
(* device.                                                                 *)
(*                                                                         *)
(* Without version= in the configuration USBDriver asks the device for it  *)
(* and inserts the EMI driver above the converter when it has the answer;  *)
(* s.inserted says that this is done.  EMI_Common::start is then never     *)
(* called, and the state of the driver is what the memory held.  libusb    *)
(* and the device are external: transfers keep their order; one may time   *)
(* out or fail, with or without having reached the device.                 *)
(***************************************************************************)
EXTENDS Emi, FiniteSets

CONSTANTS
    UsbCases,      \* what is checked: the device's EMI version, the version configured (or "unknown"),
                   \* monitor and what may go wrong, see dev.may
    Uninit,        \* the values of an uninitialized E_state
    UsbPackets,    \* packets the router sends to the link
    UsbInds,       \* packets the device has for the daemon
    MaxStops,      \* calls of stop_ within each other: the router repeats stop() until they return
    UsbFaults      \* faults of transfers, changes of the device's bus connection

VARIABLES s, dev
usbVars == <<s, dev>>

IsEMI(v) == v \in Vers

\* version, cnt, timeout (running), wait_make: USBDriver; conv: the converter's version
USBStack(ver, monitor) ==
    [ low |-> "usb", k |-> [NewLink EXCEPT !.drv = "on"], want_up |-> TRUE, local |-> {}, aborted |-> FALSE,
      u |-> USBLowLevelDriver, emi |-> EMI(ver, monitor), inserted |-> FALSE, conv |-> "raw",
      version |-> ver, cnt |-> 0, timeout |-> FALSE, wait_make |-> FALSE,
      got |-> <<>>, sent |-> 0, small |-> {} ]

\* may:
\*   "timeout", "fail"     a transfer times out, or fails
\*   "unplug"              the device is unplugged
\*   "info"                the device tells about its connection to the bus
\*   "silent"              it does not answer the question for its version
\*   "slow", "slow_start"  it takes longer than the timers for packets, or for commands
\*   "open"                it cannot be opened
\*   "stop", "stop_busy"   the router stops, also while the link is busy.
UsbDevice(ver, may) ==
    [ may |-> may, ver |-> ver, live |-> FALSE, conn |-> FALSE, todo |-> <<>>, ind |-> 0, got |-> <<>>, faults |-> 0 ]

-----------------------------------------------------------------------------
\* USBDriver::make_EMI, with USBConverterInterface::send_Init
make_EMI(x, st) ==
    LET r == send_Local([x EXCEPT !.conv = x.version], "conv")
        t == USB_send_Data(r, [t |-> "init"])
    IN [t EXCEPT !.inserted = TRUE, !.emi = [EMI(x.version, x.emi.monitor) EXCEPT !.state = st]]

\* USBDriver::setup
Configured(c) ==
    LET x == USBStack(c.conf, c.monitor)
    IN IF IsEMI(c.conf) THEN make_EMI(x, "idle") ELSE x

UsbInit == \E c \in UsbCases : s = Configured(c) /\ dev = UsbDevice(c.ver, c.may)

\* USBDriver::xmit
xmit(x) ==
    LET r == send_Local([x EXCEPT !.timeout = TRUE], "usb") IN USB_send_Data(r, [t |-> "ask"])

\* USBDriver::started
USBDriver_started(x) ==
    IF x.version = "unknown" THEN xmit([x EXCEPT !.version = "discovery"]) ELSE started(x)

\* LowLevelFilter::started of the converter
conv_started(x) == IF x.inserted THEN EMI_started(x) ELSE USBDriver_started(x)

\* USBDriver::timeout_cb
USBDriver_timeout_cb(x) ==
    LET r == [x EXCEPT !.timeout = FALSE, !.cnt = @ + 1]
    IN IF r.cnt < 5 THEN xmit(r) ELSE errored([r EXCEPT !.version = "timeout"])

\* USBDriver::sendLocal_done_cb
USBDriver_sendLocal_done(x, success, st) ==
    CASE ~success         -> errored([x EXCEPT !.timeout = FALSE])
      [] x.wait_make      -> make_EMI([x EXCEPT !.wait_make = FALSE], st)
      [] IsEMI(x.version) -> conv_started(x)
      [] OTHER            -> x

\* USBDriver::recv_Data
USBDriver_recv_Data(x, p, st) ==
    IF x.version # "discovery" \/ p.t # "version" THEN x
    ELSE LET r == [x EXCEPT !.version = p.ver, !.timeout = FALSE]
         IN CASE ~IsEMI(p.ver)    -> errored(r)
              [] "usb" \in x.local -> [r EXCEPT !.wait_make = TRUE]
              [] OTHER             -> make_EMI(r, st)

\* LowLevelIface::send_Next of USBDriver
USBDriver_send_Next(x, st) ==
    CASE "usb" \in x.local -> USBDriver_sendLocal_done(local_done(x, "usb"), TRUE, st)
      [] IsEMI(x.version)  -> adapter_send_Next(x)
      [] OTHER             -> x

\* LowLevelIface::send_Next of the converter
conv_send_Next(x, st) ==
    CASE "conv" \in x.local -> conv_started(local_done(x, "conv"))
      [] x.inserted         -> EMI_send_Next(x)
      [] OTHER              -> USBDriver_send_Next(x, st)

\* USBConverterInterface::recv_Data.  What is not an EMI frame is deleted.
conv_recv_Data(x, p, st) ==
    CASE x.conv = "raw"                            -> USBDriver_recv_Data(x, p, st)
      [] p.t \in {"con", "ind", "busmon", "reset"} -> EMI_recv_Data(x, p)
      [] OTHER                                     -> x

-----------------------------------------------------------------------------
\* USBLowLevelDriver, the callbacks
USB_write_trigger_cb(x, st) ==
    LET r == [x EXCEPT !.u.write_trigger = FALSE]
        n == [r EXCEPT !.u.sendh = "none"]
    IN CASE x.u.sendh = "none" -> r
         [] x.u.sendh = "done" -> conv_send_Next([n EXCEPT !.u = [@ EXCEPT !.send_retry = 0, !.out = Nothing]], st)
         [] x.u.sendh = "timed_out" /\ x.u.send_retry < 2 -> USB_do_send([n EXCEPT !.u.send_retry = @ + 1])
         [] OTHER -> errored([n EXCEPT !.u.send_retry = IF x.u.sendh = "timed_out" THEN @ + 1 ELSE @])

\* USBLowLevelDriver::HandleReceiveUsb
HandleReceiveUsb(x, st) ==
    LET Then(y) ==
          IF y.u.stopping \/ x.u.rbuf.t # "info" THEN y
          ELSE CASE x.u.rbuf.on /\ y.u.state = sRunning    -> conv_started([y EXCEPT !.u.state = sConnected])
                 [] ~x.u.rbuf.on /\ y.u.state = sConnected -> USB_stop([y EXCEPT !.u.state = sRunning])
                 [] OTHER                                  -> y
    IN Then(conv_recv_Data(x, x.u.rbuf, st))

\* If HandleReceiveUsb has called stop_, that waits for recvh, which is not
\* submitted any more, and never returns.
USB_read_trigger_cb(x, st) ==
    LET r == [x EXCEPT !.u.read_trigger = FALSE]
        Then(y) ==
          CASE y.u.stops > x.u.stops              -> y
            [] y.u.state > sNone /\ ~y.u.stopping -> StartUsbRecvTransfer(y)
            [] OTHER                              -> [y EXCEPT !.u.recvh = "none"]
    IN CASE x.u.recvh = "none" -> r
         [] x.u.recvh # "done" -> errored([r EXCEPT !.u.recvh = "none"])
         [] OTHER              -> Then(HandleReceiveUsb(r, st))

\* USBLowLevelDriver::start
USB_start(x, opens) ==
    LET r == [x EXCEPT !.u.stopping = FALSE]
    IN CASE x.u.state >= sStarted   -> r
         [] ~x.u.loop \/ ~opens     -> USB_stop(r)
         [] OTHER -> conv_started(StartUsbRecvTransfer([r EXCEPT !.u.state = sRunning]))

\* LowLevelAdapter::start and stop
DriverStart(x, opens) ==
    USB_start(IF x.inserted THEN [Called(x) EXCEPT !.emi.state = "idle"] ELSE Called(x), opens)
DriverStop(x) == IF x.inserted THEN EMI_stop(x) ELSE USB_stop(x)

Driver(x, opens) ==
    CASE x.k.drv = "starting" -> DriverStart(x, opens)
      [] x.k.drv = "stopping" -> DriverStop(Called(x))
      [] OTHER                -> x

-----------------------------------------------------------------------------
\* The event loop
Opens == IF "open" \in dev.may THEN BOOLEAN ELSE {TRUE}
Does(x) == \E opens \in Opens : s' = Driver(x, opens)
\* An event loop that stop_ runs is left once there is no transfer any more.
Resuming == s.u.stops > 0 /\ USB_idle(s)
Alive == Running(s) /\ ~Resuming

Router_start == Alive /\ s.want_up /\ s.k.state = "down" /\ Does(LinkState(s, "going_up")) /\ UNCHANGED dev

\* Router::stop; without "stop_busy" only while no packet is on its way
Router_stop ==
    /\ Alive /\ s.want_up
    /\ "stop_busy" \in dev.may \/ ("stop" \in dev.may /\ s.k.state = "up" /\ s.k.send_more)
    /\ Does(LinkState([s EXCEPT !.want_up = FALSE], "going_down"))
    /\ UNCHANGED dev

\* Router::state_trigger_cb, as in module Serial
state_trigger_cb ==
    /\ Alive /\ s.k.chg /\ s.u.stops < MaxStops
    /\ LET Again(y) == IF ~s.want_up /\ y.k.state \notin {"down", "error", "up"} THEN LinkState(y, "going_down") ELSE y
           Failed(x) == IF x.k.state \in {"up_error", "going_down_error"} THEN DriverStop(x) ELSE x
       IN Does(Again(Failed([s EXCEPT !.k.chg = FALSE])))
    /\ UNCHANGED dev

retry_timer_cb ==
    Alive /\ s.k.timer # "off" /\ Does([s EXCEPT !.k = RetryTimer(TheLink, @, "later")]) /\ UNCHANGED dev

\* LinkConnect::send_L_Data; LowLevelDriver::send_L_Data drops the packet.
Router_send ==
    /\ Alive /\ s.k.state = "up" /\ s.k.send_more /\ s.sent < UsbPackets
    /\ \E big \in BOOLEAN :
          LET n == s.sent + 1
              x == link_send_L_Data([s EXCEPT !.sent = n, !.small = IF big THEN @ ELSE @ \cup {n}])
          IN s' = IF s.inserted THEN EMI_send_L_Data(x, [t |-> "data", n |-> n], big) ELSE x
    /\ UNCHANGED dev

write_trigger_cb == Alive /\ s.u.write_trigger /\ (\E st \in Uninit : Does(USB_write_trigger_cb(s, st))) /\ UNCHANGED dev
read_trigger_cb == Alive /\ s.u.read_trigger /\ (\E st \in Uninit : Does(USB_read_trigger_cb(s, st))) /\ UNCHANGED dev
stop_resumes == Running(s) /\ Resuming /\ Does(USB_stopped(s)) /\ UNCHANGED dev

\* Without "slow" a timer that waits for the device fires only when nothing is
\* left that it could wait for.
Quiet == /\ s.u.sendh \in {"none", "unsubmitted"} /\ ~s.u.write_trigger /\ ~s.u.read_trigger
         /\ dev.todo = <<>> \/ s.u.recvh # "busy"

emi_timeout_cb ==
    Alive /\ s.emi.timer /\ (Quiet \/ "slow" \in dev.may) /\ Does(EMI_timeout_cb(s)) /\ UNCHANGED dev
emi_reset_timer_cb ==
    Alive /\ s.emi.rtimer /\ (Quiet \/ "slow_start" \in dev.may) /\ Does(EMI_reset_timer_cb(s)) /\ UNCHANGED dev
\* local_timeout of the question, started at the same time, is the shorter one.
timeout_cb ==
    Alive /\ s.timeout /\ "usb" \notin s.local /\ (Quiet \/ "slow_start" \in dev.may) /\ Does(USBDriver_timeout_cb(s)) /\ UNCHANGED dev
\* The router starts the links before a timer set by setup() can fire.
local_timeout_cb ==
    /\ Alive /\ ~(s.want_up /\ s.k.state = "down") /\ (Quiet \/ "slow_start" \in dev.may)
    /\ \E o \in s.local :
          Does(CASE o = "emi"  -> EMI_local_timeout_cb(s)
                 [] o = "conv" -> errored(local_done(s, o))
                 [] o = "usb"  -> USBDriver_sendLocal_done(local_done(s, o), FALSE, "idle"))
    /\ UNCHANGED dev

-----------------------------------------------------------------------------
\* libusb and the device
Fault(f) == f \in dev.may /\ dev.faults < UsbFaults

DevTakes(d, p) ==
    CASE p.t = "ask" /\ "silent" \notin d.may -> [d EXCEPT !.todo = Append(@, [t |-> "version", ver |-> d.ver])]
      [] p.t = "init" -> [d EXCEPT !.live = TRUE]
      [] p.t = "data" -> [d EXCEPT !.got = Append(@, p.n), !.todo = Append(@, [t |-> "con", n |-> p.n])]
      [] OTHER        -> d

SendEnds(how) == s' = [s EXCEPT !.u.sendh = how, !.u.write_trigger = TRUE]
usb_complete_send ==
    \/ s.u.sendh \in {"busy", "cancel"} /\ ~s.u.gone /\ SendEnds("done") /\ dev' = DevTakes(dev, s.u.out)
    \/ s.u.sendh = "cancel" /\ SendEnds("cancelled") /\ UNCHANGED dev
    \/ s.u.sendh = "busy" /\ s.u.gone /\ SendEnds("failed") /\ UNCHANGED dev
    \/ /\ s.u.sendh = "busy"
       /\ \E f \in {"timeout", "fail"} : Fault(f) /\ SendEnds(IF f = "timeout" THEN "timed_out" ELSE "failed")
       /\ \E d \in {dev, DevTakes(dev, s.u.out)} : dev' = [d EXCEPT !.faults = @ + 1]

RecvEnds(how) == s' = [s EXCEPT !.u.recvh = how, !.u.read_trigger = TRUE]
usb_complete_recv ==
    \/ /\ s.u.recvh \in {"busy", "cancel"} /\ dev.todo # <<>> /\ ~s.u.gone
       /\ s' = [s EXCEPT !.u.recvh = "done", !.u.read_trigger = TRUE, !.u.rbuf = Head(dev.todo)]
       /\ dev' = [dev EXCEPT !.todo = Tail(@)]
    \/ s.u.recvh = "cancel" /\ RecvEnds("cancelled") /\ UNCHANGED dev
    \/ s.u.recvh = "busy" /\ s.u.gone /\ RecvEnds("failed") /\ UNCHANGED dev

Dev_ind ==
    /\ dev.live /\ dev.ind < UsbInds
    /\ dev' = [dev EXCEPT !.ind = @ + 1,
                          !.todo = Append(@, [t |-> IF s.emi.monitor THEN "busmon" ELSE "ind", n |-> dev.ind + 1])]
    /\ UNCHANGED s

Dev_info ==
    /\ Fault("info") /\ s.u.state > sNone
    /\ dev' = [dev EXCEPT !.faults = @ + 1, !.conn = ~@, !.todo = Append(@, [t |-> "info", on |-> ~dev.conn])]
    /\ UNCHANGED s

Dev_unplug ==
    /\ Fault("unplug") /\ ~s.u.gone
    /\ s' = [s EXCEPT !.u.gone = TRUE]
    /\ dev' = [dev EXCEPT !.faults = @ + 1, !.todo = <<>>, !.live = FALSE]

UsbNext ==
    \/ Router_start \/ Router_stop \/ state_trigger_cb \/ retry_timer_cb \/ Router_send
    \/ write_trigger_cb \/ read_trigger_cb \/ stop_resumes
    \/ emi_timeout_cb \/ emi_reset_timer_cb \/ timeout_cb \/ local_timeout_cb
    \/ usb_complete_send \/ usb_complete_recv \/ Dev_ind \/ Dev_info \/ Dev_unplug

UsbSpec == UsbInit /\ [][UsbNext]_usbVars

-----------------------------------------------------------------------------
\* Whenever the link asks for the next packet, there is an EMI driver that takes
\* it, and no transfer that makes USBLowLevelDriver::send_Data report an error;
\* unless the device reports its connection to the bus, which starts the stack
\* once more.
CanTake == "info" \notin dev.may /\ s.k.state = "up" /\ s.k.send_more => s.inserted /\ s.emi.state = "idle" /\ s.u.sendh = "none"

\* When the link is ready for the next packet, all of the earlier ones have
\* reached the device, in their order, except those that were too long.
SentArrives ==
    /\ s.k.state = "up" /\ s.k.send_more => s.small = {dev.got[i] : i \in DOMAIN dev.got}
    /\ \A i, j \in DOMAIN dev.got : i < j => dev.got[i] <= dev.got[j]

\* The packets from the device are delivered once and in order, and as long as
\* the link is up each one that libusb has read.
RecvOnce ==
    /\ s.got = [i \in 1..Len(s.got) |-> i]
    /\ "info" \notin dev.may /\ s.k.state = "up" /\ ~s.u.gone /\ s.u.recvh # "done" =>
         \A i \in Len(s.got) + 1..dev.ind : \E j \in DOMAIN dev.todo : dev.todo[j].t \in {"ind", "busmon"} /\ dev.todo[j].n = i

\* No assertion of the stack fails, no timer calls a callback that was not set,
\* and no callback reaches the link in a state that setState aborts in, unless
\* a transfer fails for good, an answer to a command is late, the device reports
\* its connection, or the link is told to stop while it is busy.
NoAbort ==
    {"fail", "unplug", "slow_start", "info", "stop_busy"} \cap dev.may = {} => Running(s)

\* A link that is starting, failing or stopping does not stay so: a callback is
\* pending, a timer runs or a transfer is with libusb that will take it on;
\* unless the device reports that it has lost the bus.
NeverStuck ==
    "info" \notin dev.may /\ Running(s) /\ s.k.state \in {"going_up", "going_down", "up_error", "going_down_error"}
    => \/ s.k.chg \/ s.k.timer # "off" \/ s.local # {} \/ s.emi.timer \/ s.emi.rtimer \/ s.timeout
       \/ s.u.write_trigger \/ s.u.read_trigger \/ {s.u.sendh, s.u.recvh} \cap {"busy", "cancel"} # {}
       \/ Resuming
=============================================================================
