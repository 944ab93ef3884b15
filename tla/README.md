# Verification of knxd

TLA+ models of knxd, the KNX bus daemon, beside its source in `src/`. The models
are translated from the C++ code. TLC checks them on small instances; TLAPS proves
the safety properties of the router, its packet flow, the filters, the tunnel, the
KNXnet/IP server, the group cache and the addressing for every number of links, packets,
addresses, connections and routers.

`PROJECT.json` has the lists: the parts of the system, the runs with their
properties, a mutant for each property, the source lines of each definition, the
findings, the hazards with the line where each bites, and the theorems.

## The system

knxd is one process with one libev loop. There are no threads; what makes the code
hard is that

* every callback may call, synchronously, a chain of others and be re-entered
  (`Router::state_trigger_cb` → `LinkConnect::stop` → driver → `stopped()` →
  `LinkConnect::setState` → `Router::linkStateChanged`);
* work is deferred by *triggers* (`ev::async`), which coalesce, and by timers;
  between the request and the callback anything else may run;
* devices, peers and the network answer at once, later, twice or never.

The router is in the middle. Around it are *links*, each a driver with a chain of
filters: drivers for local devices (FT1.2, EMI, TPUART, USB), for KNXnet/IP (tunnel
client, multicast), the group cache, and a link for each client of a server (a program
on a socket, or a tunnel). The router starts and stops the links and repeats
failed ones, takes packets from each and hands them to the others, one at a time: it
waits until every link has said `send_Next`. At start it builds all of this from the
configuration, which the old command line is translated to.

## Modules

| module | models | state and actions |
|---|---|---|
| `LinkConnect` | one link, `link.cpp` | operators on a record; the driver's answer to `start()` and `stop()` is an argument, so a synchronous call chain is one expression |
| `Router` | life cycle, `router.cpp` and the end of `knxd.cpp` | one action per callback; `link` maps links to records, `chg` stands for membership in `linkChanges` |
| `RouterFlow` | packet flow, `router.cpp` | extends `Router`; the loop of `trigger_cb` is one step per packet, since links may fail while it runs; `Life` adds the effect of `Router::started` to the actions of `Router` |
| `Network` | addresses, hop counts, repetitions, choice of links: `router.cpp` | several routers on shared media, an inbox for each link |
| `FilterStack` | `fqueue.cpp`, `fpace.cpp` | the two filters between a link and its driver |
| `FifoLink` | | abstract: packets leave in the order they came |
| `Stream` | `iobuf.cpp`, framing of `client.cpp`, `io.c` | the socket of a client, cut anywhere by the kernel |
| `Clients` | `server.cpp`, `client.cpp`, `connection.cpp`, `busmonitor.cpp`, `layer4.cpp`, the registrations in `router.cpp`, `client/c` | a handler is a composition of operators on the daemon's record `d` |
| `GroupCache` | `groupcache.cpp`, `groupcacheclient.cpp` | cache, waiting readers and requests |
| `Tunnel` | `eibnettunnel.cpp` and a tunnel of `eibnetserver.cpp` | two processes and a network that loses and repeats |
| `EIBnetServer` | `eibnetserver.cpp` | connections of every type and what is kept for them |
| `Routing` | `eibnetip.cpp` (socket), `eibnetrouter.cpp`, the multicast driver of `eibnetserver.cpp` | daemons on a multicast group |
| `Setup` | `inifile.cpp`, the `setup()` functions, `link.cpp` | objects on a heap that point to each other |
| `Args` | `knxd_args.cpp` | one step per option; the result is the configuration |
| `LowLevel`, `Ft12`, `Emi`, `Serial` | `lowlevel.cpp`, `ft12.cpp`, `emi_common.cpp`, `emi1.cpp`, `emi2.cpp`, `cemi.cpp` | a stack of driver objects is a record, a call an operator on it; `Serial` adds the line and the device |
| `Tpuart` | `tpuart.cpp`, `ncn5120.cpp` | the chip's states, with tokens for bytes |
| `UsbLow`, `Usb` | `usb.cpp`, `usblowlevel.cpp` | transfers of libusb and the device |
| `CArray`, `Apdu`, `Tpdu`, `Lpdu`, `EIBnetIP`, `Wire`, `Frames` | the codecs: `apdu.cpp`, `tpdu.cpp`, `lpdu.cpp`, `emi.cpp`, `eibnetip.cpp` | encoders and decoders as operators on byte sequences; `Frames` sends units over one medium after another |
| `MCRouter`, `MCRouterFlow`, `MCNetwork`, `MCTunnel`, `MCCache` | | instances for TLC |
| `MCFifo`, `MCClients`, `MCDrivers`, `MCServer` | | compositions: a behaviour is one of one part, chosen at the start |
| `RouterProofs`, `FlowProofs`, `FifoProofs`, `CacheProofs`, `NetworkProofs`, `TunnelSteps`, `TunnelProofs`, `ServerProofs` | | theorems and the lemmas they rest on; `TunnelSteps` holds the invariant of the tunnel and the first half of its steps |

A definition whose comment begins with *mutant* is a faulty variant of the definition
after it. No specification uses it; it serves to see that a property notices the fault.

### Correspondence and abstractions

* **Drivers** are known to `Router` by the contract at the top of `link.h`. `start()`
  ends in `started()`, `stopped()` or `errored()`, at once or later; after `errored()` a
  driver only calls `errored()` or `stopped()`. A driver that is off answers `stop()` at once.
  Within one callback of the router a driver answers all calls of `stop()` alike. The
  run `drivers` shows where the drivers themselves differ from that.
* **Links of clients** (`transient`) are registered and unregistered at any time; an
  unregistered one becomes a new link.
* Loops over all links are functional updates: what happens to one link does not depend
  on the others within the loop, which the code shows for each of these loops.
* `RouterFlow` has no filters on the router itself; a packet's route is an arbitrary set
  of links. `Network` says which; there every link is up and takes each telegram.
* `FilterStack` abstracts delays to the order of events.
* **Tunnel**: UDP keeps the order. A request carries the port of its socket, so answers
  to a closed socket get lost. Both ends are used through the queue filter that `setup()`
  forces. The two-minute timer of a connection may fire at any time. Socket errors make the
  link stop and are part of `stop`. `heartbeat-timer` is taken to be positive.
* **EIBnetServer**: a handler is a composition of operators on a connection or on the daemon; where the code
  goes through all connections, what it does to one does not depend on the others, so the lists are sets. At most one
  request and one acknowledgement of a connection are under way; a later one replaces it, which is a loss. An ended
  connection's number is not used again, which bounds a behaviour to `MaxConn` connections. What a request carries is
`L_Data.req`, `L_Data.ind` or anything else; an acknowledgement may report an error.
* **GroupCache**: `Age` makes all entries old at once. Readers do not depend on
  each other, so the order in which an update reaches them is left out.
* **Clients**: a socket is a channel of whole messages, which `Stream` justifies.
* **Frames**: what knxd never composes itself (a connect, a NACK, numbered data) comes from clients that write transport
  units.
* **Setup** starts from the sections of the file, already read; an address can be read or not, and numbers are in or out of the range
  that `setup()` accepts; **Args** from options
  that getopt has separated. Values matter as far as the code tells them apart.
* **Serial, Tpuart, Usb**: frames are two or three tokens, so that a read may end within
  them. Timers may fire whenever they run, unless the case says that answers are in time. `dev.may`
  lists what may go wrong in a behaviour.
* **Codecs** work on the bytes the code works on.
* Devices, the kernel, libusb, the network and getopt are external.

## Runs

| run | instance | shows |
|---|---|---|
| `router` | links a, b and client link c; a retries without limit, b once; start timeout; `errored()` may come twice | `NoAbort`, `DriverMatchesState`, `RetryArmed`, `RetriesBounded`: `setState` under every interleaving. `SummaryAgrees`, `SignalMeansAllUp`: the router's picture of its links. `FailureTold`: once all drivers were up, the router stops by itself only with exit code 1 |
| `router_stop` | the same links, b `may-fail`, every `retry-delay` positive, `errored()` once | `StopCompletes`: main() returns, after a signal and also when the router stops itself. `ExitClean`: no driver of a required link is left active |
| `may_fail` | links a and b, both `may-fail`, no start timeout | violated: if both fail to start, the router stops itself |
| `flow` | 2 links that may fail, 2 packets | `CanSend` (what `send_L_Data` asserts), `EveryPacketRouted` |
| `fifo` | queue and pace with 3 packets; a socket with messages of 2, 2 and 7 bytes | `EachIsFifo`: each implements `FifoLink`. `OneAtATime`, `NothingStays` |
| `tunnel` | one connection with packets both ways; two connections with two channels | `InOrder`, `AckedDelivered`, `Awake`, `OrphanNoticed`, `ServerGoesOn` |
| `cache` | 3 addresses, max-size 2, 3 telegrams, 1 request; 1 address, 2 requests at the same time | `Indexed`, `ReadLatest`, `Answered` |
| `network` | 2 routers, one backbone or two, 2 devices, 2 clients, 2 addresses | `Once`, `BlockStaysLocal`, `NoStrayAnswer`, `Reaches` |
| `clients` | 2 clients, 3 requests, 3 packets from the bus, 4 of both together, serial numbers modulo 2. Or frames: two values for each member, payloads where formats change; 2 media | `Registered`, `NoStaleAnswer`, `ConnOnce`. `UnitArrives`, `FrameKept`, `ControlUnderstood` |
| `drivers` | 2 packets each way and one fault, for each driver and each kind of fault | `DriverSends`, `DriverReceives`, `DriverGoesOn` |
| `ipserver` | up to 3 connections with 2 channels and 2 addresses; 2 daemons on the group; some 4000 configurations; command lines of up to 5 options | `BooksExact`, `Serves`, `GroupExact`, `ChainsComplete`, `OptionsLand` |
| `flow_stall` | link a may fail and restart | violated: a link that fails while it owes a `send_Next` blocks the router for good |

The comment above each property says what it means and what it excepts.

### Conditions

Some properties hold under a condition that the code does not enforce. Each is
violated when its condition is dropped:

| property | condition | without it |
|---|---|---|
| `ExitClean` | `ErrorTwice = FALSE` | a second `errored()` (`FDdriver::error_cb` serves both buffers) takes the link from `L_up_error` to `L_error`; the router counts it as down, never stops its driver, and main() returns |
| `StopCompletes` | a required link, or a signal (in the property) | if all links are `may-fail` or `ignore` and the router stops itself, `Router::stopped` calls stop() instead of `ev_break`: main() stays in `ev_run` (`knxd.cpp:422`) until a signal |
| `StopCompletes` | at most one link that is retried is `may-fail` | such a link is not told to stop while it waits for its retry (`router.cpp:514`); two of them can take turns, so that one is always starting when the router looks |
| `StopCompletes` | every `RetryDelay` positive | with `retry-delay` 0 and `max-retry` > 0 a failing driver is restarted during shutdown, each time before `state_trigger_cb` runs. `doc/inifile.rst` says of 0: "no restart" |
| `CanSend` | `EarlyNext = {}` | the `send_Next` of a TPUART that comes up opens the router while another link is busy |
| `OneAtATime` | `EarlyNext = FALSE` | the pace filter takes that `send_Next` for the end of a packet |
| `EveryPacketRouted` | no driver fails that was up (in the property) | run `flow_stall` |
| `EachIsFifo` | `SplitHeader = FALSE` | `io.c:106` reads the length with one call: if one byte of it arrives alone the other is taken from memory that was not set |
| `InOrder`, `AckedDelivered` | `Dup` without `conn`, `connresp` | a repeated connection request makes the client connect twice and send the packet in `out` on both connections |
| `Answered` | not about a `LastUpdates` with a start ahead of `seq` | such a request gets no reply; a tracker may answer twice when a telegram arrives before `remtrigger_cb` |
| `Once` | `force_broadcast = FALSE` for the hop count | with it a telegram with hop count 7 crosses any number of routers; the ignore list alone ends it |
| `Reaches` | `NoLoop` for telegrams to a device (in the property); `force_broadcast = FALSE` | in a loop two routers learn each other's devices on different media and then refuse all their telegrams |
| `NoStrayAnswer` | as many connections as the block has addresses (in the property) | the address is handed out again while an answer is under way |
| run `clients` | `TpduSrc = {0}` | the daemon ends: a `T_TPDU` connection with a foreign source address fails the assertion of `link.h:499` |
| `BooksExact` | but for the addresses in `lost` (in the property) | a request for the raw layer, and one that comes when all channels are in use, is refused after it got an address, which is never returned (`eibnetserver.cpp:653`, `:670`) |
| `GroupExact` | `Faulty` without `ip`; of two daemons on one computer one has `multi-port` | the driver `ip` does not set `on_error`: after errors its socket is closed and the link stays up (`eibnetrouter.cpp:46`). Two daemons without `multi-port` take each other's packets for their own (`eibnetip.cpp:333`) |
| `Driver…` | the exceptions that each driver's properties list by `dev.may` | see below |

### Disagreements between code and documentation

`flow_stall` and `may_fail` are runs. One more configuration is kept beside the runs and ends in a
violation: `MCTunnelGivesUp.cfg` of `MCTunnel` with the property `ClientGoesOn`. After "Too many retransmits,
disconnecting" the client stays connected and never sends again.

What else was met while modelling, with the lines:

* Router: a driver that stops by itself ends the daemon in spite of `retry-delay`, though `doc/inifile.rst` says that
  knxd restarts one that "dies"; a driver is restarted although knxd was never operative
  (`doc/inifile.rst:404`); with `may-fail` on all links the router stops
  itself when all fail, and main() stays in its loop until a signal (`doc/inifile.rst:377`, run `may_fail`); the first
  READY=1 (`knxd.cpp:418`) precedes the start of the links (`README.md:55`), a second one follows when all are up, and
  `SignalMeansAllUp` is about that one; the ignore list is
  searched up to the first entry that has not expired (`router.cpp:1043`); the condition at `router.cpp:1113` mixes
  `&&` and `||` without parentheses and is not what the comment above it describes.
* Cache: `Clear` leaves the numbers of the cleared addresses in `cache_seq`, and a tracker waits
  although there is data.
* Command line: with `--send-delay` all `-A` arguments in front of a driver end in the section of the pace
  filter, although `doc/inifile.rst:52` says that they "apply to the filter, driver or server they're directly in
  front of"; the value of `-I` is not used; `-X` enables routing whenever a server is wanted; filters in front of `-D`
  go to the section of the server, though `-S` refuses them; of two `-A` of one name the first counts; what follows the
  last interface is lost unless systemd is compiled in. `OptionsLand` is stated with these.
* Configuration: the option `use` is never marked as seen, so a file with it is refused unless `unknown-ok` is set
  (`inifile.cpp:50`, `doc/inifile.rst:19`); `IniSection::value(double)` truncates (`inifile.cpp:106`).
* KNXnet/IP: `send_error` is never initialized (`eibnetip.h:392`).
* Drivers: the reset timer of EMI2 has no callback (`emi2.cpp:109`); `RecvBuf::stop` leaves `running` set, so a
  restarted driver never receives (`iobuf.cpp:150`); closing cEMI leaves the device open (`cemi.cpp:62`);
  FT1.2 loses frames when the device gives one up (`ft12.cpp:365`); a USB driver cannot be restarted (`usblowlevel.cpp:269`), and one whose
  device has no bus never answers `stop()` (`:454`); `EMI_Common::state` is not initialized (`emi_common.h:51`); a TPUART drops the packet it reported
  as sent when a keep-alive reset comes (`tpuart.cpp:585`), and never notices a dead chip (`:333`).
* Codecs (`Lossy` in `Frames`): `IndividualAddressSerialNumber_Write` is written with another code than it is read by
  (`apdu.cpp:625`); the flags of `ServiceInformation` (`:674`, `:686`); `DomainAddressSelective_Read` (`:855`);
  `DeviceDescriptor_Response` (`:1280`); two priorities are exchanged between `lpdu.cpp` and `emi.cpp`.

### Bounds

Three links are enough for the router: its decisions count links of each kind as none,
some or all, and one client link comes and goes beside two fixed ones. Two packets show order, loss
and repetition in a direction. With `SeqMod = 3` a sequence number is the expected one, the one
before or neither; `MaxNet` bounds each direction: a full queue loses the message, which the network may do anyway.
`MaxRetry = 0`, `HeartbeatLimit = 1`, `max_retries = 1` and `ErrorLimit = 1` reach the end of the retries soon. In the cache an
eviction needs more addresses than `max-size`. Two routers and two backbones are the smallest loop. Two clients show each order of
opening and closing; the types opened are a monitor, a group connection and a `T_Connection`, one of each kind of registration but the
virtual monitors, whose list is kept like that of the monitors. With two serial numbers the third packet of a `T_Connection` is behind the wrap of its numbers. The socket has room for less than the
longest message and the receive buffer for two short ones or none of the long. A behaviour of a driver has one fault, at any point. `MCServer` chooses configurations in families, each of which varies one section, and
command lines in three: long ones of few options, services of the servers, and every option next to every other.
For the properties that are proved, below, the bounds do not matter: these hold for all values.

`CHECK_DEADLOCK FALSE` is set where behaviours end when the bounds are used up; the router's runs check
for deadlock.

### Fairness

The event loop serves each pending trigger and each expired timer: weak fairness of the
callbacks. A driver that was asked to start or stop answers some day, as `link.h` demands ("must complete
eventually"): weak fairness of `Answers`, of `driver_done` and, in `RouterFlow`, of `send_Next`. The kernel goes on moving bytes of a
socket both of whose ends read. Received messages are read. The network owes nothing, nor do users, signals,
incoming telegrams and the server's two-minute timer, so the liveness of the tunnel holds on a network that loses everything.

## Proofs

The constants are arbitrary but for the named assumptions of the modules, which are their types and, in
`Network`, that the client block contains no address of a device or router.

| module | theorems | for every |
|---|---|---|
| `RouterProofs` | `TypeCorrect`, `NeverAborts` (`NoAbort`), `StateTellsDriver` (`DriverMatchesState`), `RetryTimerRight` (`RetryArmed`), `RetriesStayBounded` (`RetriesBounded`), `SummaryRight` (`SummaryAgrees`), `SignalIsRight` (`SignalMeansAllUp`), `FailuresAreTold` (`FailureTold`), `ExitIsClean` (`ExitClean`) | set of links, configuration and behaviour of drivers |
| `FlowProofs` | `RouterCanSend` (`CanSend`), `LifeUnderTraffic` | the same, any number of packets |
| `FifoProofs` | `NoPacketTooEarly` (`OneAtATime`), `QueueIsFifo` (refinement of `FifoLink`) | combination of filters, any number of packets |
| `CacheProofs` | `CacheIndexed` (`Indexed`), `RepliesAreLatest` (`ReadLatest`) | size, set of groups, range of numbers, number of requests |
| `NetworkProofs` | `BlockIsLocal` (`BlockStaysLocal`), `AnswersAreOwn` (`NoStrayAnswer`), `HopsAreCounted` (part of `Once`) | topology, number of routers and clients, size of the block |
| `TunnelProofs` | `NobodySleeps` (`Awake`), `PacketsInOrder` (`InOrder`), `AckMeansDelivered` (`AckedDelivered`) | range of sequence numbers from 2 on, retries, channels, length of the network, number of packets |
| `ServerProofs` | `ServerBooks` (`BooksExact`), `ServerServes` (`Serves`) | number of addresses, channels and connections, range of sequence numbers from 3 on, configuration of the server, number of packets |

Conditions are assumptions of the theorem: `ErrorTwice = FALSE`, `EarlyNext = {}`, `~EarlyNext`, `Queue`,
`~force_broadcast`, and no duplicates of the two connection messages.

**Router.** None of the properties is inductive. `NoAbort`, for one, needs to know that a driver that is off does
not call back and which states a link can be in while its driver is starting, on, failed or stopping. `IInv` has
four parts: types; `AllGood`, the relation between state, driver and timer of each link; `FreshStart`, that before `start`
all links are new; and `Seen`, that a queued change implies a pending trigger. Each operator of `LinkConnect` turns a good record
into a good one; each action changes one link (`UpdateIInv`) or many (`ManyIInv`) by these operators. `JInv` adds the
router's view: the retries are `Bounded`, and a link that differs from what the summary says has announced it (`Told`); every callback
of a driver is `Quiet`, it changes a link's state only together with `chg` or where the summary does not depend on it. `XInv` is for the exit: `L_error` only with the driver off, and an idle router
has all required links at rest. `ToldInv` is for `FailureTold`: the start timer, which stops the router without an exit code, and
`running_signal` exclude each other, so that only a required link that is down is left as a reason to stop.

**Flow.** `KInv` adds to these: `low_send_more` and `high_send_more` are equal, and set only if every link that is up is ready; a link
going up has nothing outstanding; a link that is not registered is down; before the first `started()` nothing was sent, and `RouterHigh` is
not started again after it was stopped. Life-cycle steps keep the readiness of links (`Keep`).

**Filters.** Before the driver is up a filter is down; afterwards a pause of the pace filter and a packet in the driver exclude each
other. The refinement maps the queue's buffer to `waiting` and the packets the driver got to `delivered`; it needs the
types only, and each step is an `Accept`, a `Deliver`, a `GoDown` or a stutter.

**Cache.** Each entry is in `cache_seq` under its number and is the last telegram of its group; the numbers are distinct and
at most `seq`, so evicting the least one takes out one entry and keeps the limit; a reader that has not been stopped belongs to a
request without reply.

**Network.** A telegram under way is a copy of one that was originated, with as many hops less as it crossed routers, and is addressed to the
client block only as an answer. Addresses are handed out one behind the other, so while the block lasts no two
connections had the same.

**Tunnel.** `TInv` is `Local` (which timers and triggers run in which mode; it gives `Awake` alone and without a condition),
`SessionInv` and, for each direction, `DownInv` and `UpInv`. `SessionInv`: in front of a CONNECTION_REQUEST there is nothing of that connection, and until its
answer is read nothing else of the new connection is under way. `DownInv`, `UpInv`: the packet outstanding has not arrived and the
receiver expects its number, or it has arrived and the receiver expects the next; what is under way are repeats of the
previous number in front of those of the current one, and an ACK of the current number only in the second case. This is why the range of numbers
only has to tell neighbours apart. All other steps are `Quiet`: they take messages away or add ones that carry no packet.

**Server.** `SInv` has three parts, since neither property is inductive. `Books` relates the lists: the links are those of
the listed connections; a listed one has ended exactly if it is in the drop queue; one that has not ended still has the
address it was given, and the taken addresses are these and the lost ones, which are disjoint. It reads only type, channel, addresses and
end of a connection, so every step that keeps these (`Kept`) keeps it (`BooksKept`). All ways to end connections are passes of
`stop_once` over a set of them: `Stopping` shows that a pass keeps `Books`, also for connections that have ended
before, and `ServerStop`, `ErrorStep`, `RouterStopStep` compose passes in any order. `ConnOK` is about one connection: which of timer and trigger
runs at which count of `retries`, which is odd exactly while the timer runs; a queue filter that is busy belongs to a packet in `out`.
`Session` is about one connection and its client: the client has taken what was confirmed, or one packet more while that one
is being sent; a request under way is that packet or the one before it; and so is an acknowledgement. Three numbers are needed to tell
the one before, the current one and the next apart.

### Only model-checked

* Liveness: `StopCompletes`, `EveryPacketRouted`, `NothingStays`, `OrphanNoticed`, `ServerGoesOn`, `Answered`. TLAPS does not
  reason about fairness.
* The first part of `Once` (a router puts a telegram on a medium at most once) and `Reaches` depend on the paths between
  media. They are checked for two routers; nothing is claimed for larger loops.
* `EachIsFifo` for the socket: the contents of the buffers are concatenations of messages of any
  length, which needs induction over sequences.
* `Registered`, `NoStaleAnswer`, `ConnOnce`: handlers fold over lists of connections whose order matters (`FoldLeft`,
  `SelectSeq`); the result for every list needs induction as well. `GroupExact` selects from sequences of datagrams.
* `ChainsComplete`, `OptionsLand`, `UnitArrives`, `FrameKept`, `ControlUnderstood`: functions on finite data,
  for which the run enumerates the cases; `Setup` and `Serial` use recursive operators.
* `DriverSends`, `DriverReceives`, `DriverGoesOn`: stacks of wrappers with lists of exceptions.

## Not modelled

The IPv6 copies of the KNXnet/IP classes, `layer7.cpp` and `management.cpp` (built only with `--enable-management`), the address table of
the nat filter, the text of `Decode`, reading the configuration file, opening sockets and devices, forking and the pid file, tracing, the
image loader, and the client libraries (but for the exchange of requests), tools and examples. `PROJECT.json` says
why for each part.
