-------------------------------- MODULE Setup --------------------------------
(***************************************************************************)
(* How knxd builds itself from its configuration: Router::setup reads the  *)
(* ini file (common/inifile.cpp), makes the drivers and servers and a      *)
(* chain of filters for each (libserver/link.cpp), and refuses options     *)
(* that nothing asked for.  A server builds further chains while the       *)
(* daemon runs: one for each of its clients and one for the multicast      *)
(* group.                                                                  *)
(*                                                                         *)
(* s.heap holds the objects, which point to each other: send towards the   *)
(* driver, recv towards the router.  s.ok is what the last function that   *)
(* may fail returned.                                                      *)
(***************************************************************************)
EXTENDS Integers, Sequences, FiniteSets, SequencesExt

CONSTANTS
    Configs,     \* ini files: [section -> [option -> value]]
    MaxClients   \* bound: chains made while the daemon runs

VARIABLES s, phase

svars == <<s, phase>>

FilterTypes == {"queue", "pace", "log", "single"}
DriverTypes == {"dummy", "ip", "ipt"}
ServerTypes == {"ets_router", "knxd_tcp"}

-----------------------------------------------------------------------------
\* The ini file.

RECURSIVE Where(_, _, _), Used(_, _, _)

\* The section that gives a section's option: its own, or the one it uses.
Where(ini, sec, opt) ==
    IF opt \in DOMAIN ini[sec] THEN sec
    ELSE IF "use" \in DOMAIN ini[sec] THEN Where(ini, ini[sec]["use"], opt) ELSE "none"

\* Sections that are looked up on the way.
Used(ini, sec, opt) ==
    {sec} \cup (IF opt \notin DOMAIN ini[sec] /\ "use" \in DOMAIN ini[sec]
                THEN Used(ini, ini[sec]["use"], opt) ELSE {})

\* IniSection::value
Value(ini, sec, opt, def) ==
    IF Where(ini, sec, opt) = "none" THEN def ELSE ini[Where(ini, sec, opt)][opt]

\* What value() marks for IniData::list_unseen: the option, in its section, and the
\* sections on the way, but not the option "use".
See(t, sec, opts) ==
    [t EXCEPT !.seen = @ \cup {<<Where(t.ini, sec, o), o>> : o \in opts},
              !.ref = @ \cup UNION {Used(t.ini, sec, o) \ {sec} : o \in opts}]

\* IniData::operator[]
Ref(t, sec) == [t EXCEPT !.ref = @ \cup {sec}]

\* IniData::list_unseen and IniSection::list_unseen
list_unseen(t) == {<<sec, o>> \in UNION {{sec} \X DOMAIN t.ini[sec] : sec \in t.ref} : <<sec, o>> \notin t.seen}

-----------------------------------------------------------------------------
\* The chain of objects.

Fail(t) == [t EXCEPT !.ok = FALSE]

\* What follows only if the step before has succeeded.
Then(t, F(_)) == IF t.ok THEN F(t) ELSE t

\* A new object for section sec, whose LinkConnect is conn (itself if 0).
New(t, what, type, sec, conn) ==
    LET i == Len(t.heap) + 1
    IN [t EXCEPT !.heap = Append(@, [what |-> what, type |-> type, sec |-> sec, send |-> 0, recv |-> 0,
                                     conn |-> IF conn = 0 THEN i ELSE conn, setups |-> 0])]

\* LinkRecv::link with Filter::_link and Driver::_link
link(t, a, b) == [t EXCEPT !.heap[a].send = b, !.heap[b].recv = a]

\* Driver::push_filter
push_filter(t, d, f, first) ==
    LET r == IF first THEN t.heap[d].conn ELSE t.heap[d].recv
        n == IF first THEN t.heap[r].send ELSE d
    IN link(link(t, r, f), f, n)

\* Filter::name; an automatic section has a name of its own and no options.
name(t, f) == IF t.heap[f].sec = "auto" THEN "auto" ELSE Value(t.ini, t.heap[f].sec, "filter", t.heap[f].sec)

RECURSIVE findFilter(_, _, _)

\* Filter::findFilter, from f towards the router.
findFilter(t, f, n) ==
    CASE t.heap[f].what = "conn" -> FALSE
      [] t.heap[f].what = "filter" /\ name(t, f) = n -> TRUE
      [] OTHER -> findFilter(t, t.heap[f].recv, n)

\* LinkBase::setup
Base(t, o) == [t EXCEPT !.heap[o].setups = @ + 1]

\* sscanf in Router::readaddr and readaddrblock and in NatL2Filter::setup: an address
\* that is given can be read or not.
Readable(a) == a # "malformed"

\* The filters' setup(): queue needs a LinkConnect, which the router's own chain does
\* not have, and so does single without an address; there is one queue only.
QueueFilter_setup(t, f) ==
    IF t.heap[t.heap[f].conn].type = "low" \/ findFilter(t, t.heap[f].recv, "queue") THEN Fail(t)
    ELSE Base(t, f)

\* Times are in ms and the factor for what comes in is in percent.
PaceFilter_setup(t, f) ==
    LET Opt(o, def) == Value(t.ini, t.heap[f].sec, o, def)
        u == See(Base(t, f), t.heap[f].sec, {"delay", "delay-per-byte", "incoming"})
    IN IF Opt("delay", 15) > 0 /\ Opt("delay-per-byte", 1) >= 0 /\ Opt("incoming", 75) >= 0
       THEN u ELSE Fail(u)

LogFilter_setup(t, f) == See(Base(t, f), t.heap[f].sec, {"state", "send", "recv", "addr", "monitor"})

NatL2Filter_setup(t, f) ==
    LET addr == Value(t.ini, t.heap[f].sec, "address", "")
        u == See(Base(t, f), t.heap[f].sec, {"address"})
    IN IF IF addr = "" THEN t.heap[t.heap[f].conn].type # "low" ELSE Readable(addr)
       THEN u ELSE Fail(u)

Filter_setup(t, f) ==
    CASE t.heap[f].type = "queue" -> QueueFilter_setup(t, f)
      [] t.heap[f].type = "pace" -> PaceFilter_setup(t, f)
      [] t.heap[f].type = "log" -> LogFilter_setup(t, f)
      [] OTHER -> NatL2Filter_setup(t, f)

\* mutant: the caller's loop is relied on
assureFilter_Late(t, d, n, first) ==
    IF findFilter(t, t.heap[d].recv, n) THEN t
    ELSE push_filter(New(t, "filter", n, "auto", t.heap[d].conn), d, Len(t.heap) + 1, first)

\* Driver::assureFilter
assureFilter(t, d, n, first) ==
    LET f == Len(t.heap) + 1
    IN IF findFilter(t, t.heap[d].recv, n) THEN t
       ELSE Filter_setup(push_filter(New(t, "filter", n, "auto", t.heap[d].conn), d, f, first), f)

\* The drivers' setup(): what is sent to IP has to be paced, a tunnel needs a queue.
Driver_setup(t, d) ==
    LET k == t.heap[d].type
        Read(u) == See(Base(u, d), t.heap[d].sec, IF k \in {"ip", "ipt"} THEN {"interface", "port"} ELSE {})
    IN Then(CASE k \in {"ip", "EIBnetDriver"} -> assureFilter(t, d, "pace", FALSE)
              [] k \in {"ipt", "ConnState"} -> assureFilter(t, d, "queue", TRUE)
              [] OTHER -> t, Read)

RECURSIVE SetupChain(_, _, _)

\* The loop of LinkConnect_::setup: from the router to the driver.
SetupChain(t, o, d) ==
    LET Onwards(u) == IF o = d THEN u ELSE SetupChain(u, u.heap[o].send, d)
    IN Then(IF o = d THEN Driver_setup(t, d) ELSE Filter_setup(t, o), Onwards)

\* LinkConnect_::setup
LinkConnect__setup(t, c, d) ==
    LET sec == t.heap[c].sec
        Push(u, n) ==
            IF Value(u.ini, n, "filter", n) \notin FilterTypes THEN Fail(u)
            ELSE push_filter(New(u, "filter", Value(u.ini, n, "filter", n), n, c), d, Len(u.heap) + 1, FALSE)
        Add(u, n) == IF u.ok THEN Push(See(Ref(u, n), n, {"filter"}), n) ELSE u
        All(u) == SetupChain(u, u.heap[c].send, d)
    IN Then(FoldLeft(Add, See(Base(t, c), sec, {"filters"}), Value(t.ini, sec, "filters", <<>>)), All)

\* LinkConnect::setup
LinkConnect_setup(t, c, d) ==
    LET Read(u) == See(u, u.heap[c].sec, {"ignore", "may-fail", "retry-delay", "max-retry", "send-timeout"})
    IN Then(LinkConnect__setup(t, c, d), Read)

\* A LinkConnect and its driver, LinkConnect_::set_driver and setup().
Chain(t, sec, type) ==
    LET c == Len(t.heap) + 1
    IN LinkConnect_setup(link(New(New(t, "conn", "link", sec, 0), "driver", type, sec, c), c, c + 1), c, c + 1)

\* A chain is kept when its setup succeeds.
Keep(t, u) == LET Kept(v) == [v EXCEPT !.chains = Append(@, Len(t.heap) + 1)] IN Then(u, Kept)

-----------------------------------------------------------------------------
\* The router.

\* Router::checkStack: a chain with a dummy driver, which is thrown away.
checkStack(t, sec) == [Chain(t, sec, "dummy") EXCEPT !.heap = t.heap]

\* EIBnetServer::setup and NetServer::setup
EIBnetServer_setup(t, sec) ==
    LET Check(u, o) == IF o = "" THEN u ELSE checkStack(Ref(u, o), o)
        Tunnel(u) == Check(u, Value(t.ini, sec, "tunnel", ""))
        Group(u) == Check(u, Value(t.ini, sec, "router", ""))
        addrs == Value(t.ini, sec, "tunnel", "") = "" \/ "client-addrs" \in DOMAIN t.ini["main"]
        opts == {"discover", "multi-port", "interface", "port", "name", "tunnel", "router"}
    IN Then(Then([See(t, sec, opts) EXCEPT !.ok = addrs], Tunnel), Group)

NetServer_setup(t, sec) ==
    LET u == See(t, sec, {"port", "systemd-ignore"})
    IN IF "client-addrs" \notin DOMAIN t.ini["main"] THEN Fail(u) ELSE checkStack(u, sec)

\* Router::do_server, with Server::setup
do_server(t, sec, type) ==
    LET Listed(u) == [u EXCEPT !.servers = Append(@, <<sec, type>>)]
    IN Then(IF type = "ets_router" THEN EIBnetServer_setup(t, sec) ELSE NetServer_setup(t, sec), Listed)

\* Router::do_driver
do_driver(t, sec, type) == Keep(t, Chain(t, sec, type))

\* Router::setup_link: a section says what it is, or its name does.
setup_link(t, sec) ==
    LET srv == Value(t.ini, sec, "server", "")
        drv == Value(t.ini, sec, "driver", "")
        u == See(Ref(t, sec), sec, {"server", "driver"})
        named == srv \notin ServerTypes /\ drv \notin DriverTypes
    IN CASE srv \in ServerTypes \/ (named /\ sec \in ServerTypes) -> do_server(u, sec, IF named THEN sec ELSE srv)
         [] srv \notin ServerTypes /\ (drv \in DriverTypes \/ (named /\ sec \in DriverTypes)) ->
                do_driver(u, sec, IF named THEN sec ELSE drv)
         [] OTHER -> Fail(u)

\* Router::setup
Router_setup(t) ==
    LET Main(o) == Value(t.ini, "main", o, "")
        a == See(Ref(t, "main"), "main", {"force-broadcast", "unknown-ok", "timeout", "addr",
                                          "client-addrs", "connections", "cache", "systemd"})
        valid == /\ Value(t.ini, "main", "timeout", 0) >= 0
                 /\ Main("addr") # "" /\ Readable(Main("addr")) /\ Readable(Main("client-addrs"))
        Low(u) == LinkConnect__setup(u, 1, 2)
        Connect(u, n) == LET Set(v) == setup_link(v, n) IN Then(u, Set)
        Done(all) ==
            LET links == Len(all.chains) - 1 + Len(all.servers)
                bad == IF Value(t.ini, "main", "unknown-ok", FALSE) THEN {} ELSE list_unseen(all)
            IN IF links < 2 THEN Fail(all) ELSE [all EXCEPT !.unknown = bad, !.ok = bad = {}]
    IN Then(FoldLeft(Connect, Then([a EXCEPT !.ok = valid], Low),
                     Value(t.ini, "main", "connections", <<>>)), Done)

\* Router::Router: the two ends of the router's own chain, for global filters.
Router(ini) ==
    link(New(New([ini |-> ini, heap |-> <<>>, seen |-> {}, ref |-> {}, ok |-> TRUE,
                  unknown |-> {}, chains |-> <<1>>, servers |-> <<>>], "conn", "low", "main", 0), "driver", "high", "main", 1), 1, 2)

SInit == s \in {Router(ini) : ini \in Configs} /\ phase = "new"

setup ==
    /\ phase = "new"
    /\ s' = Router_setup(s) /\ phase' = IF s'.ok THEN "up" ELSE "refused"

\* EIBnetServer::start makes the driver for the group, EIBnetServer::addClient the
\* chain of a tunnel, A_Base::setup that of a client; a chain that fails is dropped.
new_chain ==
    /\ phase = "up" /\ Len(s.chains) < MaxClients
    /\ \E i \in DOMAIN s.servers :
       LET sec == s.servers[i][1]
           Sub(o) == Value(s.ini, sec, o, "")
       IN \/ /\ s.servers[i][2] = "ets_router"
             /\ s' = Keep(s, Chain(s, Sub("router"), "EIBnetDriver"))
          \/ /\ s.servers[i][2] = "ets_router" /\ Sub("tunnel") # ""
             /\ s' = Keep(s, Chain(s, Sub("tunnel"), "ConnState"))
          \/ /\ s.servers[i][2] = "knxd_tcp"
             /\ s' = Keep(s, Chain(s, sec, "LineDriver"))
    /\ phase' = IF s'.ok THEN "up" ELSE "failed"

SNext == setup \/ new_chain

-----------------------------------------------------------------------------
RECURSIVE Down(_, _, _)

\* The objects from o along send, at most n of them.
Down(t, o, n) == IF o = 0 \/ n = 0 THEN <<>> ELSE <<o>> \o Down(t, t.heap[o].send, n - 1)

Elements(c) == Down(s, c, Len(s.heap) + 1)

\* Every chain of an accepted configuration leads from its LinkConnect to a driver and
\* back the same way, and each object in it was set up exactly once (LinkBase::setup
\* asserts that, and LinkConnect_::start that it was), also filters a driver added
\* while the chain was being set up.  doc/inifile.rst: "Filters are applied in order;
\* conceptually, the knx router is added at the beginning of the filter list, while
\* the driver itself is at the end."  What a driver adds is a queue next to the router,
\* or a pace filter next to itself, and a chain has at most one queue.  A server has
\* tried the filters of its clients before the daemon starts (Router::checkStack), so
\* that no client's chain fails for what the configuration says.
ChainsComplete ==
    /\ phase # "failed"
    /\ phase = "up" => \A c \in ToSet(s.chains) :
          LET e == Elements(c)
              sec == [i \in DOMAIN e |-> s.heap[e[i]].sec]
              given == SelectSeq(SubSeq(sec, 2, Len(sec) - 1), LAMBDA n : n # "auto")
          IN /\ Len(e) =< Len(s.heap) /\ s.heap[Last(e)].what = "driver"
             /\ \A i \in DOMAIN e : /\ s.heap[e[i]].setups = 1
                                    /\ i > 1 => s.heap[e[i]].recv = e[i - 1]
             /\ given = Value(s.ini, s.heap[c].sec, "filters", <<>>)
             /\ \A i \in DOMAIN e : sec[i] = "auto" =>
                   i = IF s.heap[e[i]].type = "queue" THEN 2 ELSE Len(e) - 1
             /\ Cardinality({i \in DOMAIN e : s.heap[e[i]].type = "queue"}) =< 1
=============================================================================
