---------------------------- MODULE EIBnetServer ----------------------------
(***************************************************************************)
(* The KNXnet/IP server (libserver/eibnetserver.cpp) with every type of    *)
(* connection: tunnels, bus monitors and device configuration.  It shows   *)
(* what the server and the router keep for a connection from its request   *)
(* to its end: a channel, a client address, a registered link with a queue *)
(* filter, a virtual bus monitor.  Module Tunnel has the exchange with     *)
(* knxd's own client over a lossy network.                                 *)
(*                                                                         *)
(* A handler is a composition of operators on k, the state of one          *)
(* connection, or on s, the daemon's state.  Lists of connections whose    *)
(* order makes no difference are sets; vbusmonitor counts the entries that *)
(* each connection has.  Packets are numbers; router_buf is Router::buf.   *)
(***************************************************************************)
EXTENDS Integers, Sequences, FiniteSets

CONSTANTS
    Requests,     \* connection types asked for: "link", "busmon", "config", "raw"
    Services,     \* the configurations: subsets of {"tunnel", "route", "discover"}
    NAddrs,       \* client_addrs_len
    NChannels,    \* channels are 1 .. NChannels: 255 in the code
    Seqnos,       \* sequence numbers: 256 in the code
    MaxConn,      \* bound: connections ever opened
    Cases         \* bounds: [late : packets are late, lost or refused, conn : connections,
                  \* ops : packets from the bus, requests, timeouts and duplicates,
                  \* types : connection types asked for]

Conns == 1 .. MaxConn

ASSUME ServerConfig ==
    /\ Requests \subseteq {"link", "busmon", "config", "raw"}
    /\ Services \subseteq SUBSET {"tunnel", "route", "discover"}
    /\ {NAddrs, NChannels, MaxConn} \subseteq Nat \ {0} /\ Seqnos \in Nat \ {0, 1, 2}
    /\ Cases \subseteq [late : BOOLEAN, conn : Conns, ops : Nat, types : SUBSET Requests]

VARIABLES
    d,      \* the daemon
    cl,     \* [Conns -> the client's end of a connection]
    req,    \* [Conns -> the request of the server that is under way]
    ack,    \* [Conns -> the acknowledgement to the server that is under way]
    ops,    \* how many more there may be
    case,   \* the bounds of this behaviour
    lost    \* history: addresses that were taken for a connection that was not made

vars == <<d, cl, req, ack, ops, case, lost>>

-----------------------------------------------------------------------------
\* A connection that was never opened; put is the history of `out'.
NoConn == [ type |-> "none", channel |-> 0, addr |-> 0, had |-> 0, sno |-> 0, rno |-> 0, retries |-> 0,
            do_send_next |-> FALSE, out |-> <<>>, put |-> <<>>, timeout |-> FALSE,
            sendtimeout |-> FALSE, trigger |-> FALSE, alive |-> FALSE,
            up |-> FALSE, queue |-> "Q_DOWN", buf |-> <<>>, qtrigger |-> FALSE ]

NoClient == [sno |-> 0, rno |-> 0, got |-> <<>>]

Init ==
    /\ \E svc \in Services :
       d = [ conn |-> [c \in Conns |-> NoConn], n |-> 0, svc |-> svc,
             state |-> "down", want_up |-> TRUE, sock |-> FALSE, mcast |-> FALSE,
             connections |-> {}, drop_q |-> {}, drop_active |-> TRUE, drop_trigger |-> FALSE,
             links |-> {}, vbusmonitor |-> [c \in Conns |-> 0],
             client_addrs |-> {}, client_addrs_pos |-> NAddrs,
             router_buf |-> <<>>, aborted |-> FALSE, x |-> 1 ]
    /\ cl = [c \in Conns |-> NoClient]
    /\ req = [c \in Conns |-> <<>>] /\ ack = [c \in Conns |-> <<>>]
    /\ case \in Cases /\ ops = case.ops /\ lost = {}

Inc(n) == (n + 1) % Seqnos

-----------------------------------------------------------------------------
\* What the router keeps: client addresses, links, bus monitors.

\* Router::hasAddress for the address of a client: BusDriver::addrs keeps an
\* address as long as the link exists.
hasAddress(s, a) == \E c \in s.links : s.conn[c].had = a

\* Router::get_client_addr: the first free address after the last one given, if any.
get_client_addr(s) ==
    LET Pos(i) == ((s.client_addrs_pos - 1 + i) % NAddrs) + 1
        free == {i \in 1 .. NAddrs : Pos(i) \notin s.client_addrs /\ ~hasAddress(s, Pos(i))}
    IN {Pos(i) : i \in {j \in free : \A f \in free : j =< f}}

\* mutant: the bus monitor stays registered
deregisterVBusmonitor_Not(s, S) == s.vbusmonitor

\* Router::deregisterVBusmonitor: the first entry of each.
deregisterVBusmonitor(s, S) ==
    [c \in Conns |-> IF c \in S /\ s.conn[c].type = "busmon" /\ s.vbusmonitor[c] > 0
                     THEN s.vbusmonitor[c] - 1 ELSE s.vbusmonitor[c]]

-----------------------------------------------------------------------------
\* The end of a connection.

\* ConnState::stop as far as the connection goes: its timers, its trigger and its
\* address; SubDriver::stop calls stopped(), which passes the queue filter.
stopped(k) == [k EXCEPT !.up = FALSE, !.queue = "Q_DOWN", !.buf = <<>>]

stop_body(k) ==
    stopped([k EXCEPT !.timeout = FALSE, !.sendtimeout = FALSE, !.trigger = FALSE,
                      !.alive = FALSE, !.retries = 0, !.addr = 0])

\* EIBnetServer::drop_connection
drop_connection(s, S) ==
    [s EXCEPT !.drop_q = @ \cup S, !.drop_trigger = @ \/ (s.drop_active /\ S # {})]

\* One pass through ConnState::stop for each connection in S.
stop_once(s, S) ==
    [drop_connection(s, S) EXCEPT
        !.vbusmonitor = deregisterVBusmonitor(s, S),
        !.client_addrs = @ \ {s.conn[c].addr : c \in S},
        !.conn = [c \in Conns |-> IF c \in S THEN stop_body(s.conn[c]) ELSE s.conn[c]]]

Up(s, S) == {c \in S : s.conn[c].up}

\* ConnState::stop.  A link that is up goes down in LinkConnect::setState, which
\* calls stop() a second time.
ConnState_stop(s, S) == stop_once(stop_once(s, S), Up(s, S))

\* LinkConnect::setState(L_going_down) by the router.
going_down(s, S) == stop_once(s, Up(s, S))

-----------------------------------------------------------------------------
\* The packets of a connection.

\* Packets for the client.
Out(k, xs) == [k EXCEPT !.out = @ \o xs, !.put = @ \o xs, !.trigger = @ \/ (k.alive /\ k.retries = 0)]

\* ConnState::send_L_Busmonitor, for each of n entries in vbusmonitor.
send_L_Busmonitor(k, x, n) == IF k.type = "busmon" /\ n > 0 THEN Out(k, [i \in 1 .. n |-> x]) ELSE k

\* ConnState::send_L_Data, and its assertion.
send_L_Data(k, x) == IF k.type = "link" THEN Out([k EXCEPT !.do_send_next = TRUE], <<x>>) ELSE k
send_L_Data_aborts(k) == k.type = "link" /\ k.do_send_next

\* Driver::send_Next, which the queue filter gets.
send_Next(k) == IF k.queue = "Q_BUSY" THEN [k EXCEPT !.queue = "Q_IDLE", !.qtrigger = TRUE] ELSE k

\* mutant: the next packet is not sent
Confirmed_Forgets(k) ==
    [k EXCEPT !.sno = Inc(@), !.out = Tail(@), !.sendtimeout = FALSE, !.retries = 0]

\* The common end of tunnel_response and config_response.
Confirmed(k) ==
    LET r == [k EXCEPT !.sno = Inc(@), !.out = Tail(@), !.sendtimeout = FALSE, !.retries = 0]
    IN CASE r.out # <<>> -> [r EXCEPT !.trigger = @ \/ r.alive]
         [] r.out = <<>> /\ r.do_send_next -> send_Next([r EXCEPT !.do_send_next = FALSE])
         [] OTHER -> r

\* ConnState::tunnel_response and config_response; ok is a status of 0.
tunnel_response(k, n, ok) ==
    IF k.sno = n /\ ok /\ k.retries > 0 /\ k.type \in {"link", "busmon"} THEN Confirmed(k) ELSE k

config_response(k, n, ok) ==
    IF k.sno = n /\ ok /\ k.retries > 0 /\ k.type = "config" THEN Confirmed(k) ELSE k

\* What a request carries: L_Data.req (or M_PropRead.req), L_Data.ind, or what the
\* server cannot read or use.
CEMI == {"req", "ind", "other"}

\* ConnState::tunnel_request: L_Data.req is confirmed, and whatever it is counts.
tunnel_request(k, n, cemi, x) ==
    LET r == [k EXCEPT !.rno = Inc(@)]
    IN CASE k.rno # n -> k
         [] k.rno = n /\ k.type = "link" /\ cemi = "req" -> Out(r, <<-x>>)
         [] OTHER -> r

\* Router::recv_L_Data for L_Data.req and L_Data.ind, whose source is 0: without an
\* address of its own it gets the router's, which only a local link may use.
recv_L_Data(k, n, cemi) == k.rno = n /\ k.type = "link" /\ cemi # "other" /\ k.addr # 0

\* ConnState::config_request: M_PropRead.req is answered, and whatever it is counts.
config_request(k, n, cemi, x) ==
    LET r == [k EXCEPT !.rno = Inc(@)]
    IN CASE k.rno # n -> k
         [] k.rno = n /\ k.type = "config" /\ cemi = "req" -> Out(r, <<-x>>)
         [] OTHER -> r

-----------------------------------------------------------------------------
\* The life of the server.

\* EIBnetServer::start: the socket, the multicast driver and its link, which is
\* registered when the server routes.  A failure takes the whole daemon down.
start ==
    /\ d.state = "down" /\ d.want_up
    /\ \/ d' = [d EXCEPT !.state = "up", !.sock = TRUE, !.mcast = "route" \in d.svc]
       \/ d' = [d EXCEPT !.state = "error", !.want_up = FALSE]
    /\ UNCHANGED <<cl, req, ack, ops, case, lost>>

\* EIBnetServer::stop_; Server::stop calls stop() again when the link is up, and
\* every connection is still listed then.  The router starts a link only once.
stop_(s) ==
    [ConnState_stop([s EXCEPT !.drop_active = FALSE, !.drop_trigger = FALSE], s.connections)
        EXCEPT !.sock = FALSE, !.mcast = FALSE, !.state = "stopped"]

\* EIBnetServer::error_cb and EIBnetDriver::error_cb; the router finds the
\* server down and stops.
error_cb ==
    /\ d.state = "up" /\ d.sock
    /\ d' = stop_(stop_(d))
    /\ UNCHANGED <<cl, req, ack, ops, case, lost>>

\* Router::stop_: the server and the links of its connections, in the order of an
\* unordered_map.
router_stop ==
    /\ d.want_up
    /\ LET s == [d EXCEPT !.want_up = FALSE]
           links(t) == going_down(t, t.links)
           server(t) == IF t.state = "up" THEN stop_(t) ELSE t
       IN d' \in {links(server(s)), server(links(s))}
    /\ UNCHANGED <<cl, req, ack, ops, case, lost>>

-----------------------------------------------------------------------------
\* EIBnetServer::handle_packet: connections.

\* The first channel that no listed connection has, if any.
FreeChannel(s) ==
    LET used == {s.conn[c].channel : c \in s.connections}
    IN {ch \in (1 .. NChannels) \ used : 1 .. (ch - 1) \subseteq used}

\* EIBnetServer::addClient, ConnState::setup and Router::registerLink.  The
\* stack was tried when the server was set up, so that setup() succeeds.
addClient(s, type, a, ch) ==
    LET c == s.n + 1
        k == [NoConn EXCEPT !.type = type, !.channel = ch, !.addr = a, !.had = a,
                            !.timeout = TRUE, !.alive = TRUE, !.up = s.want_up,
                            !.queue = IF s.want_up THEN "Q_IDLE" ELSE @]
    IN [s EXCEPT !.n = c, !.conn[c] = k, !.connections = @ \cup {c}, !.links = @ \cup {c},
                 !.vbusmonitor[c] = IF type = "busmon" THEN @ + 1 ELSE @]

Take(s, a) == IF a = 0 THEN s ELSE [s EXCEPT !.client_addrs_pos = a, !.client_addrs = @ \cup {a}]

\* CONNECTION_REQUEST.  A tunnel may be refused for its type or for want of an address;
\* the address has been taken when the layer is refused or there is no channel.
connection_request ==
    /\ d.sock /\ d.n < case.conn /\ ops > 0
    /\ \E type \in case.types :
       LET tunnels == type # "config" /\ "tunnel" \in d.svc
       IN \/ /\ type # "config" /\ (~tunnels \/ get_client_addr(d) = {})
             /\ UNCHANGED <<d, lost>>
          \/ \E a \in IF tunnels THEN get_client_addr(d) ELSE {0} :
             /\ type = "config" \/ tunnels
             /\ \/ /\ type = "raw" \/ FreeChannel(d) = {}
                   /\ d' = Take(d, a) /\ lost' = lost \cup ({a} \ {0})
                \/ /\ type # "raw" /\ UNCHANGED lost
                   /\ \E ch \in FreeChannel(d) : d' = addClient(Take(d, a), type, a, ch)
    /\ ops' = ops - 1
    /\ UNCHANGED <<cl, req, ack, case>>

\* The connection a packet for a channel reaches.
Find(ch) == {c \in d.connections : d.conn[c].channel = ch}

\* DISCONNECT_REQUEST, perhaps of a client that was slow to hear of its end.
disconnect_request(ch) ==
    /\ d.sock /\ ops > 0
    /\ \E c \in Find(ch) : d' = ConnState_stop(d, {c})
    /\ ops' = ops - 1
    /\ UNCHANGED <<cl, req, ack, case, lost>>

\* TUNNEL_REQUEST and DEVICE_CONFIGURATION_REQUEST of a client: the next one, or
\* the last one again when its acknowledgement was lost.
client_request(c) ==
    /\ d.sock /\ ops > 0 /\ c \in d.connections
    /\ \E again \in BOOLEAN, tunnel \in BOOLEAN, cemi \in CEMI :
       LET n == IF again THEN (cl[c].sno + Seqnos - 1) % Seqnos ELSE cl[c].sno
           k == d.conn[c]
       IN /\ (again => cl[c].sno # 0) /\ (tunnel => "tunnel" \in d.svc)
          /\ d' = [d EXCEPT !.x = @ + 1,
                !.conn[c] = IF tunnel THEN tunnel_request(k, n, cemi, d.x)
                            ELSE config_request(k, n, cemi, d.x),
                !.router_buf = IF tunnel /\ recv_L_Data(k, n, cemi)
                               THEN Append(@, [src |-> c, x |-> d.x]) ELSE @]
          /\ cl' = [cl EXCEPT ![c].sno = IF again THEN @ ELSE Inc(@)]
    /\ ops' = ops - 1
    /\ UNCHANGED <<req, ack, case, lost>>

\* The client takes a request and acknowledges it, also one it has already.
client_recv(c) ==
    /\ req[c] # <<>>
    /\ LET m == req[c][1]
       IN /\ cl' = IF m.n = cl[c].rno THEN [cl EXCEPT ![c].rno = Inc(@), ![c].got = Append(@, m.x)] ELSE cl
          /\ ack' = [ack EXCEPT ![c] = <<m.n>>]
    /\ req' = [req EXCEPT ![c] = <<>>]
    /\ UNCHANGED <<d, ops, case, lost>>

\* TUNNEL_RESPONSE and DEVICE_CONFIGURATION_ACK; an acknowledgement may arrive
\* twice, or tell of an error.
client_ack(c) ==
    /\ d.sock /\ ack[c] # <<>> /\ c \in d.connections
    /\ \E ok \in {TRUE, ~case.late} :
       d' = [d EXCEPT !.conn[c] = IF @.type = "config" THEN config_response(@, ack[c][1], ok)
                                  ELSE tunnel_response(@, ack[c][1], ok)]
    /\ \/ ack' = [ack EXCEPT ![c] = <<>>] /\ UNCHANGED ops
       \/ case.late /\ ops > 0 /\ ops' = ops - 1 /\ UNCHANGED ack
    /\ UNCHANGED <<cl, req, case, lost>>

-----------------------------------------------------------------------------
\* Timers and triggers.

\* ConnState::send_trigger_cb
send_trigger_cb(c) ==
    /\ d.conn[c].trigger
    /\ LET k == [d.conn[c] EXCEPT !.trigger = FALSE]
       IN IF k.out = <<>> THEN d' = [d EXCEPT !.conn[c] = k] /\ UNCHANGED req
          ELSE /\ d' = [d EXCEPT !.conn[c] = [k EXCEPT !.retries = @ + 1, !.sendtimeout = TRUE]]
               /\ req' = [req EXCEPT ![c] = <<[n |-> k.sno, x |-> k.out[1]]>>]
    /\ UNCHANGED <<cl, ack, ops, case, lost>>

\* ConnState::sendtimeout_cb
sendtimeout_cb(c) ==
    /\ d.conn[c].sendtimeout /\ case.late /\ ops > 0
    /\ LET k == [d.conn[c] EXCEPT !.sendtimeout = FALSE, !.retries = @ + 1]
       IN d' = IF k.retries =< 2 THEN [d EXCEPT !.conn[c] = [k EXCEPT !.trigger = TRUE]]
               ELSE ConnState_stop([d EXCEPT !.conn[c] = [k EXCEPT !.out = Tail(@)]], {c})
    /\ ops' = ops - 1
    /\ UNCHANGED <<cl, req, ack, case, lost>>

\* ConnState::timeout_cb: nothing was heard of the client.
timeout_cb(c) ==
    /\ d.conn[c].timeout /\ ops > 0
    /\ d' = ConnState_stop(d, {c})
    /\ ops' = ops - 1
    /\ UNCHANGED <<cl, req, ack, case, lost>>

\* EIBnetServer::drop_trigger_cb: a connection may be in the queue twice.
drop_trigger_cb ==
    /\ d.drop_trigger
    /\ LET gone == d.drop_q \cap d.connections
       IN /\ d' = [d EXCEPT !.drop_trigger = FALSE, !.drop_q = {},
                            !.connections = @ \ gone, !.links = @ \ gone,
                            !.conn = [c \in Conns |-> IF c \in gone THEN NoConn ELSE d.conn[c]]]
          /\ cl' = [c \in Conns |-> IF c \in gone THEN NoClient ELSE cl[c]]
          /\ req' = [c \in Conns |-> IF c \in gone THEN <<>> ELSE req[c]]
          /\ ack' = [c \in Conns |-> IF c \in gone THEN <<>> ELSE ack[c]]
    /\ UNCHANGED <<ops, case, lost>>

\* QueueFilter::trigger_cb
queue_trigger_cb(c) ==
    /\ d.conn[c].qtrigger
    /\ LET k == [d.conn[c] EXCEPT !.qtrigger = FALSE]
       IN d' = IF k.buf = <<>> \/ k.queue # "Q_IDLE" THEN [d EXCEPT !.conn[c] = k]
               ELSE [d EXCEPT !.conn[c] = send_L_Data([k EXCEPT !.buf = Tail(@), !.queue = "Q_BUSY"], k.buf[1]),
                              !.aborted = @ \/ send_L_Data_aborts(k)]
    /\ UNCHANGED <<cl, req, ack, ops, case, lost>>

\* A packet from another link of the router.
bus ==
    /\ ops > 0 /\ d.sock
    /\ d' = [d EXCEPT !.x = @ + 1, !.router_buf = Append(@, [src |-> 0, x |-> d.x])]
    /\ ops' = ops - 1
    /\ UNCHANGED <<cl, req, ack, case, lost>>

\* Router::trigger_cb for a packet to a group: the bus monitors, then the links
\* that are up, except the one it came from.  QueueFilter::send_L_Data.
Enqueue(k, x) ==
    IF k.up THEN [k EXCEPT !.buf = Append(@, x), !.qtrigger = @ \/ k.queue = "Q_IDLE"] ELSE k

trigger_cb ==
    /\ d.router_buf # <<>>
    /\ LET p == Head(d.router_buf)
           seen(c) == send_L_Busmonitor(d.conn[c], p.x, d.vbusmonitor[c])
       IN d' = [d EXCEPT !.router_buf = Tail(@),
                         !.conn = [c \in Conns |-> IF c \in d.links \ {p.src} THEN Enqueue(seen(c), p.x)
                                                   ELSE seen(c)]]
    /\ UNCHANGED <<cl, req, ack, ops, case, lost>>

Next ==
    \/ start \/ error_cb \/ router_stop \/ connection_request \/ bus \/ trigger_cb \/ drop_trigger_cb
    \/ \E ch \in 1 .. NChannels : disconnect_request(ch)
    \/ \E c \in Conns : \/ client_request(c) \/ client_recv(c) \/ client_ack(c)
                        \/ send_trigger_cb(c) \/ sendtimeout_cb(c) \/ timeout_cb(c)
                        \/ queue_trigger_cb(c)

Spec == Init /\ [][Next]_vars

-----------------------------------------------------------------------------
Live == {c \in Conns : d.conn[c].alive}

TypeOK ==
    /\ d.n \in 0 .. MaxConn /\ d.links \subseteq Conns /\ d.client_addrs \subseteq 1 .. NAddrs
    /\ \A c \in Conns : d.conn[c].sno \in 0 .. (Seqnos - 1) /\ d.conn[c].retries \in 0 .. 3
    /\ ~d.aborted

\* What the server and the router keep for a connection is there as long as the
\* connection, and no longer.  An address is taken (Router::client_addrs) exactly as
\* long as a connection that has not ended uses it, and no two links ever have the
\* same one: it is not given away again while the link of an ended connection is
\* registered.  Beyond these only the lost ones are taken: addresses of requests
\* that handle_packet refused after get_client_addr, which nothing returns.
\* Router::vbusmonitor holds pointers to connections: every bus monitor that has
\* not ended, once, and no connection that has.  A connection that has ended, by a
\* request, a timeout or missing acknowledgements, leaves the server's list and the
\* router as soon as the drop trigger is served; the channels of the listed ones
\* differ.
BooksExact ==
    /\ TypeOK
    /\ d.client_addrs = ({d.conn[c].addr : c \in Live} \ {0}) \cup lost
    /\ \A a, b \in d.links : a # b /\ d.conn[a].had # 0 => d.conn[a].had # d.conn[b].had
    /\ \A c \in Conns : d.vbusmonitor[c] = IF c \in Live /\ d.conn[c].type = "busmon" THEN 1 ELSE 0
    /\ d.drop_active /\ ~d.drop_trigger => d.connections = Live /\ d.links = Live
    /\ \A a, b \in d.connections : a # b => d.conn[a].channel # d.conn[b].channel

\* A client is served.  Until it ends, every connection has a timer or a trigger for
\* what it still has to send, and the queue filter above a tunnel waits only for such
\* a packet (ConnState::send_trigger_cb, sendtimeout_cb, tunnel_response).  The client
\* takes what the server sends in order, nothing twice and nothing left out, whatever
\* is lost, acknowledged twice or acknowledged with an error.
Serves ==
    /\ \A c \in Live :
          LET k == d.conn[c]
          IN /\ k.timeout
             /\ k.out # <<>> => k.trigger \/ k.sendtimeout
             /\ k.type = "link" /\ k.queue = "Q_BUSY" => k.do_send_next /\ k.out # <<>>
             /\ k.queue = "Q_IDLE" /\ k.buf # <<>> => k.qtrigger
    /\ \A c \in Conns : /\ Len(cl[c].got) =< Len(d.conn[c].put)
                       /\ \A i \in DOMAIN cl[c].got : cl[c].got[i] = d.conn[c].put[i]
=============================================================================
