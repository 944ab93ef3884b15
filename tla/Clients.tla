------------------------------ MODULE Clients -------------------------------
(***************************************************************************)
(* The clients of a knxd server: NetServer and ClientConnection            *)
(* (server.cpp, client.cpp), the connection types a client may open        *)
(* (connection.cpp, busmonitor.cpp), the layer 4 objects behind them       *)
(* (layer4.cpp), what the router keeps for them (router.cpp) and, at the   *)
(* other end of the socket, the calls of the C library (client/c).         *)
(*                                                                         *)
(* A handler of the daemon is a composition of operators on the record d,  *)
(* the daemon's state.  A socket is a channel of messages each way (module *)
(* Stream says why); a message is its type and what it carries.  Every     *)
(* packet here is new and has hops left: module Network has the rest of    *)
(* Router::trigger_cb.  Requests to the group cache are in GroupCache.     *)
(***************************************************************************)
EXTENDS Integers, Sequences, FiniteSets, SequencesExt

CONSTANTS
    Kinds,        \* the connection types that clients open
    Groups,       \* group addresses, which are positive; 0 is the broadcast
    DeviceAddr,   \* the individual address of a device on the bus
    NAddrs,       \* values of client_addrs_len, from 1 on
    TpduSrc,      \* sources a client asks for when it opens T_TPDU
    GoesOn,       \* a client goes on after a call that returned -1
    MayStop,      \* the server may be stopped
    SernoCount,   \* sequence numbers of T_Connection: 16 in the code
    MaxConn,      \* bound: connections accepted
    MaxReq,       \* bound: requests of all clients together
    MaxBus,       \* bound: packets from the bus
    MaxOps        \* bound: both together

Monitors == {"BUSMONITOR", "BUSMONITOR_TEXT", "BUSMONITOR_TS"}
VMonitors == {"VBUSMONITOR", "VBUSMONITOR_TEXT", "VBUSMONITOR_TS"}
Linked == {"T_BROADCAST", "T_GROUP", "T_INDIVIDUAL", "T_TPDU", "T_CONNECTION", "GROUPCON"}
Opens == Monitors \cup VMonitors \cup Linked

Conns == 1 .. MaxConn

ASSUME ClientsConfig ==
    /\ Kinds \subseteq Opens /\ Groups \subseteq Nat \ {0} /\ DeviceAddr \in Nat
    /\ NAddrs \subseteq 1 .. (DeviceAddr - 1) /\ MaxConn \in Nat \ {0} /\ {MaxReq, MaxBus, MaxOps} \subseteq Nat
    /\ SernoCount \in Nat \ {0, 1} /\ GoesOn \in BOOLEAN /\ MayStop \in BOOLEAN /\ TpduSrc \subseteq Nat

VARIABLES
    d,        \* the daemon
    in,       \* [Conns -> Seq(message)], from the clients
    lib,      \* [Conns -> the client's EIBConnection and what it was told]
    nreq,     \* requests made
    nbus,     \* packets from the bus
    peer      \* the device's end of a T_Connection with client `to'

client_vars == <<d, in, lib, nreq, nbus, peer>>

-----------------------------------------------------------------------------
\* client_addrs_start is 1: the client addresses.
Addrs == 1 .. d.client_addrs_len

\* No a_conn.
None == [kind |-> "none"]

\* A packet: L_Data_PDU as far as the connections look at it.  tpdu is the
\* class of its TPDU, n the payload.
LData(grp, src, dest, tpdu, serno, n) ==
    [grp |-> grp, src |-> src, dest |-> dest, tpdu |-> tpdu, serno |-> serno, n |-> n]

\* A message of the daemon with the addresses it carries; n is the payload,
\* 0 an empty one.
Msg(type, src, dst, n) == [type |-> type, src |-> src, dst |-> dst, n |-> n]

Closed == [addr |-> 0, fd |-> FALSE, a |-> None]

ClientsInit ==
    /\ \E len \in NAddrs :
       d = [ conn |-> [c \in Conns |-> Closed],  \* the ClientConnections
             out |-> [c \in Conns |-> <<>>],     \* sendbuf of each
             up |-> TRUE,                        \* NetServer: fd # -1
             connections |-> <<>>, cleanup_q |-> <<>>, accepted |-> 0,
             links |-> {}, busmonitor |-> <<>>, vbusmonitor |-> <<>>,
             client_addrs |-> {}, client_addrs_len |-> len, client_addrs_pos |-> len,
             buf |-> <<>>, mbuf |-> <<>>, aborted |-> FALSE ]
    /\ in = [c \in Conns |-> <<>>]
    /\ lib = [c \in Conns |-> [st |-> "none", complete |-> "none", open |-> "none",
                               wo |-> FALSE, dest |-> 0, got |-> <<>>, failed |-> "none",
                               misused |-> FALSE, refused |-> FALSE]]
    /\ nreq = 0 /\ nbus = 0
    /\ peer = [to |-> 0, sent |-> 0, acked |-> 0]

-----------------------------------------------------------------------------
\* Towards the client.
sendmessage(s, c, m) == [s EXCEPT !.out[c] = Append(@, m)]
sendreject(s, c) == sendmessage(s, c, Msg("INVALID", 0, 0, 0))
sendreject_type(s, c, type) == sendmessage(s, c, Msg(type, 0, 0, 0))

\* Router::get_client_addr: the first free address after the last one given.
get_client_addr(s) ==
    LET Pos(i) == ((s.client_addrs_pos - 1 + i) % s.client_addrs_len) + 1
        free == {i \in 1 .. s.client_addrs_len : /\ Pos(i) \notin s.client_addrs
                                     /\ \A c \in s.links : s.conn[c].addr # Pos(i)}
    IN IF free = {} THEN 0 ELSE Pos(CHOOSE i \in free : \A j \in free : i =< j)

\* Router::recv_L_Data for a packet of client c.
recv_L_Data(s, c, p) ==
    LET src == IF p.src = 0 THEN s.conn[c].addr ELSE p.src
        owner == {x \in s.links : s.conn[x].addr = src}
    IN CASE ~p.grp /\ p.dest = 0 -> s
         [] owner # {} /\ c \notin owner -> s
         [] owner = {} /\ src \in 1 .. s.client_addrs_len -> s
         [] owner = {} /\ src \notin 1 .. s.client_addrs_len -> [s EXCEPT !.aborted = TRUE]
         [] OTHER -> [s EXCEPT !.buf = Append(@, [p EXCEPT !.src = src])]

-----------------------------------------------------------------------------
\* Towards the client: send() of the A_ objects.
A_Broadcast_send(s, c, src, n) == sendmessage(s, c, Msg("APDU", src, 0, n))
A_Group_send(s, c, src, n) == sendmessage(s, c, Msg("APDU", src, 0, n))
A_TPDU_send(s, c, addr, n) == sendmessage(s, c, Msg("APDU", addr, 0, n))
A_Individual_send(s, c, n) == sendmessage(s, c, Msg("APDU", 0, 0, n))
A_Connection_send(s, c, n) == sendmessage(s, c, Msg("APDU", 0, 0, n))
A_GroupSocket_send(s, c, src, dst, n) == sendmessage(s, c, Msg("GROUP", src, dst, n))

\* T_Connection, whose mode is 0 (closed), 1 (idle) or 2 (waiting for an
\* acknowledgement).  A packet goes to the router as long as there is a link.
T_Connection_emit(s, c, tpdu, serno, n) ==
    IF c \in s.links THEN recv_L_Data(s, c, LData(FALSE, 0, s.conn[c].a.dest, tpdu, serno, n)) ELSE s

SendDisconnect(s, c) == T_Connection_emit(s, c, "disc", 0, 0)
SendAck(s, c, serno) == T_Connection_emit(s, c, "ack", serno, 0)
SendData(s, c, serno, n) == T_Connection_emit(s, c, "cdata", serno, n)

T_Connection_stop(s, c) ==
    A_Connection_send(SendDisconnect([s EXCEPT !.conn[c].a.mode = 0], c), c, 0)

SendCheck(s, c) ==
    LET a == s.conn[c].a
    IN IF a.mode # 1 \/ a.in = <<>> THEN s
       ELSE SendData([s EXCEPT !.conn[c].a = [a EXCEPT !.mode = 2, !.repcount = 0,
                                                       !.current = Head(a.in), !.in = Tail(a.in)]],
                     c, a.sendno, Head(a.in))

\* mutant: a repeated packet is taken for a new one
DataConnected_Again(s, c, p) ==
    [SendAck(A_Connection_send(s, c, p.n), c, p.serno) EXCEPT !.conn[c].a.recvno = (p.serno + 1) % SernoCount]

DataConnected(s, c, p) ==
    LET recvno == s.conn[c].a.recvno
    IN CASE p.serno = recvno ->
              [SendAck(A_Connection_send(s, c, p.n), c, recvno)
                 EXCEPT !.conn[c].a.recvno = (recvno + 1) % SernoCount]
         [] p.serno = (recvno - 1) % SernoCount -> SendAck(s, c, p.serno)
         [] OTHER -> T_Connection_stop(s, c)

T_Connection_send_L_Data(s, c, p) ==
    LET a == s.conn[c].a
    IN CASE p.tpdu \in {"disc", "conn"} -> T_Connection_stop(s, c)
         [] p.tpdu = "cdata" -> DataConnected(s, c, p)
         [] p.tpdu = "nack" /\ (p.serno # a.sendno \/ a.mode # 2 \/ a.repcount >= 3) ->
              T_Connection_stop(s, c)
         [] p.tpdu = "nack" ->
              SendData([s EXCEPT !.conn[c].a.repcount = @ + 1], c, a.sendno, a.current)
         [] p.tpdu = "ack" /\ (p.serno # a.sendno \/ a.mode # 2) -> T_Connection_stop(s, c)
         [] p.tpdu = "ack" ->
              SendCheck([s EXCEPT !.conn[c].a.mode = 1, !.conn[c].a.sendno = (a.sendno + 1) % SernoCount], c)
         [] OTHER -> s

\* The other layer 4 objects pass on T_DATA_XXX_REQ, T_TPDU everything.
T_Broadcast_send_L_Data(s, c, p) == IF p.tpdu = "data" THEN A_Broadcast_send(s, c, p.src, p.n) ELSE s
T_Group_send_L_Data(s, c, p) == IF p.tpdu = "data" THEN A_Group_send(s, c, p.src, p.n) ELSE s
T_TPDU_send_L_Data(s, c, p) == A_TPDU_send(s, c, p.src, p.n)
T_Individual_send_L_Data(s, c, p) == IF p.tpdu = "data" THEN A_Individual_send(s, c, p.n) ELSE s
GroupSocket_send_L_Data(s, c, p) ==
    IF p.tpdu = "data" THEN A_GroupSocket_send(s, c, p.src, p.dest, p.n) ELSE s

send_L_Data(s, c, p) ==
    CASE s.conn[c].a.kind = "T_BROADCAST"  -> T_Broadcast_send_L_Data(s, c, p)
      [] s.conn[c].a.kind = "T_GROUP"      -> T_Group_send_L_Data(s, c, p)
      [] s.conn[c].a.kind = "T_TPDU"       -> T_TPDU_send_L_Data(s, c, p)
      [] s.conn[c].a.kind = "T_INDIVIDUAL" -> T_Individual_send_L_Data(s, c, p)
      [] s.conn[c].a.kind = "T_CONNECTION" -> T_Connection_send_L_Data(s, c, p)
      [] s.conn[c].a.kind = "GROUPCON"     -> GroupSocket_send_L_Data(s, c, p)

\* checkAddress and checkGroupAddress of a layer 4 object, hasAddress of its
\* link.
WriteOnly(s, c) == s.conn[c].a.wo /\ s.conn[c].a.kind \notin {"T_TPDU", "T_CONNECTION"}
hasAddress(s, c, addr) == s.conn[c].addr = addr
checkAddress(s, c, addr) == ~WriteOnly(s, c) /\ hasAddress(s, c, addr)
checkGroupAddress(s, c) == ~WriteOnly(s, c)

-----------------------------------------------------------------------------
\* The end of a connection type: a_conn->stop(), the link is given up, the
\* A_ object stops its layer 4 object, whose destructor stops again.
deregisterBusmonitor(s, c) == [s EXCEPT !.busmonitor = RemoveFirst(@, c)]
deregisterVBusmonitor(s, c) == [s EXCEPT !.vbusmonitor = RemoveFirst(@, c)]
A_Busmonitor_stop(s, c, kind) ==
    CASE kind \in VMonitors -> deregisterVBusmonitor(s, c)
      [] kind \in Monitors -> deregisterBusmonitor(s, c)
      [] OTHER -> s
unregisterLink(s, c) == [s EXCEPT !.links = @ \ {c}]

exit_conn(s, c) ==
    LET kind == s.conn[c].a.kind
        u == unregisterLink(A_Busmonitor_stop(s, c, kind), c)
        e == IF kind = "T_CONNECTION" THEN T_Connection_stop(T_Connection_stop(u, c), c) ELSE u
    IN IF kind = "none" THEN s ELSE [e EXCEPT !.conn[c].a = None]

\* ClientConnection::stop
\* mutant: the address is not given back
stop_Leak(s, c) ==
    LET e == exit_conn([s EXCEPT !.conn[c].addr = 0], c)
    IN [e EXCEPT !.cleanup_q = Append(@, c), !.conn[c].fd = FALSE]

stop(s, c) ==
    LET r == [s EXCEPT !.client_addrs = @ \ {s.conn[c].addr}, !.conn[c].addr = 0]
        e == exit_conn(r, c)
    IN [e EXCEPT !.cleanup_q = Append(@, c), !.conn[c].fd = FALSE]

-----------------------------------------------------------------------------
\* A client opens a connection type: setup() and what read_cb does with its
\* result.  Without `ok' the request has the wrong length.
NewConn(m) == [ kind |-> m.type, wo |-> m.wo, dest |-> m.dest, mode |-> 0, sendno |-> 0, recvno |-> 0,
                repcount |-> 0, in |-> <<>>, current |-> 0 ]

A_setup(s, c, m) == IF m.ok THEN sendmessage(s, c, Msg(m.type, 0, 0, 0)) ELSE s
A_Busmonitor_setup(s, c, m) == IF m.ok THEN sendmessage(s, c, Msg(m.type, 0, 0, 0)) ELSE sendreject(s, c)

registerBusmonitor(s, c) == [s EXCEPT !.busmonitor = Append(@, c)]
registerVBusmonitor(s, c) == [s EXCEPT !.vbusmonitor = Append(@, c)]

registerLink(s, c) == [s EXCEPT !.links = @ \cup {c}]
A_Busmonitor_start(s, c, kind) ==
    IF kind \in VMonitors THEN registerVBusmonitor(s, c) ELSE registerBusmonitor(s, c)

new_a_conn(s, c, m) ==
    LET n == IF m.type \in Linked THEN A_setup(s, c, m) ELSE A_Busmonitor_setup(s, c, m)
        o == [n EXCEPT !.conn[c].a = NewConn(m)]
    IN IF ~m.ok THEN sendreject(n, c)
       ELSE IF m.type \in Linked THEN registerLink(o, c)
       ELSE A_Busmonitor_start(o, c, m.type)

\* The client writes: recv_Data of the layer 4 objects ...
Emit(s, c, grp, src, dest, n) == recv_L_Data(s, c, LData(grp, src, dest, "data", 0, n))

T_Broadcast_recv_Data(s, c, n) == Emit(s, c, TRUE, 0, 0, n)
T_Group_recv_Data(s, c, n) == Emit(s, c, TRUE, 0, s.conn[c].a.dest, n)
T_TPDU_recv_Data(s, c, addr, n) == Emit(s, c, FALSE, s.conn[c].a.dest, addr, n)
T_Individual_recv_Data(s, c, n) == Emit(s, c, FALSE, 0, s.conn[c].a.dest, n)
T_Connection_recv_Data(s, c, n) == SendCheck([s EXCEPT !.conn[c].a.in = Append(@, n)], c)
GroupSocket_recv_Data(s, c, dst, n) == Emit(s, c, TRUE, 0, dst, n)

\* ... and of the A_ objects: the wrong type of message, or a short one, ends
\* the connection.
A_Broadcast_recv_Data(s, c, m) ==
    IF m.type # "APDU" THEN exit_conn(s, c) ELSE T_Broadcast_recv_Data(s, c, m.n)

A_Group_recv_Data(s, c, m) ==
    IF m.type # "APDU" THEN exit_conn(s, c) ELSE T_Group_recv_Data(s, c, m.n)
A_TPDU_recv_Data(s, c, m) ==
    IF m.type # "APDU" \/ ~m.ok THEN exit_conn(s, c) ELSE T_TPDU_recv_Data(s, c, m.dest, m.n)
A_Individual_recv_Data(s, c, m) ==
    IF m.type # "APDU" THEN exit_conn(s, c) ELSE T_Individual_recv_Data(s, c, m.n)
A_Connection_recv_Data(s, c, m) ==
    IF m.type # "APDU" THEN exit_conn(s, c) ELSE T_Connection_recv_Data(s, c, m.n)
A_GroupSocket_recv_Data(s, c, m) ==
    IF m.type # "GROUP" \/ ~m.ok THEN exit_conn(s, c) ELSE GroupSocket_recv_Data(s, c, m.dest, m.n)
A_Busmonitor_recv_Data(s, c, m) == s

recv_Data(s, c, m) ==
    CASE s.conn[c].a.kind = "T_BROADCAST"  -> A_Broadcast_recv_Data(s, c, m)
      [] s.conn[c].a.kind = "T_GROUP"      -> A_Group_recv_Data(s, c, m)
      [] s.conn[c].a.kind = "T_TPDU"       -> A_TPDU_recv_Data(s, c, m)
      [] s.conn[c].a.kind = "T_INDIVIDUAL" -> A_Individual_recv_Data(s, c, m)
      [] s.conn[c].a.kind = "T_CONNECTION" -> A_Connection_recv_Data(s, c, m)
      [] s.conn[c].a.kind = "GROUPCON"     -> A_GroupSocket_recv_Data(s, c, m)
      [] OTHER                             -> A_Busmonitor_recv_Data(s, c, m)

\* ClientConnection::read_cb
\* mutant: the answer overtakes what the end of the connection tells
read_cb_Early(s, c, m) ==
    CASE s.conn[c].a # None /\ m.type = "RESET" -> exit_conn(sendreject_type(s, c, "RESET"), c)
      [] s.conn[c].a # None  -> recv_Data(s, c, m)
      [] m.type \in Opens    -> new_a_conn(s, c, m)
      [] m.type = "RESET"    -> sendreject_type(s, c, "RESET")
      [] OTHER               -> sendreject(s, c)

read_cb(s, c, m) ==
    CASE s.conn[c].a # None /\ m.type = "RESET" -> sendreject_type(exit_conn(s, c), c, "RESET")
      [] s.conn[c].a # None  -> recv_Data(s, c, m)
      [] m.type \in Opens    -> new_a_conn(s, c, m)
      [] m.type = "RESET"    -> sendreject_type(s, c, "RESET")
      [] OTHER               -> sendreject(s, c)

-----------------------------------------------------------------------------
\* The daemon's callbacks.
Alive(c) == d.conn[c].fd

\* NetServer::io_cb: a client connects.  Without an address it is turned away.
Accept ==
    /\ d.up /\ d.accepted < MaxConn
    /\ LET c == d.accepted + 1
           a == get_client_addr(d)
           s == [d EXCEPT !.accepted = c, !.conn[c] = [addr |-> a, fd |-> TRUE, a |-> None]]
       IN /\ d' = IF a = 0 THEN stop(sendreject_type(s, c, "RESET"), c)
                  ELSE [s EXCEPT !.client_addrs = @ \cup {a}, !.client_addrs_pos = a,
                                 !.connections = Append(@, c)]
          /\ lib' = [lib EXCEPT ![c].st = "open", ![c].refused = (a = 0)]
    /\ UNCHANGED <<in, nreq, nbus, peer>>

\* recvbuf hands a message to read_cb.
Read(c) ==
    /\ Alive(c) /\ in[c] # <<>>
    /\ d' = read_cb(d, c, Head(in[c]))
    /\ in' = [in EXCEPT ![c] = Tail(@)]
    /\ UNCHANGED <<lib, nreq, nbus, peer>>

\* The client is gone: error_cb.
error_cb(c) ==
    /\ Alive(c) /\ in[c] = <<>> /\ lib[c].st = "closed"
    /\ d' = stop(d, c)
    /\ UNCHANGED <<in, lib, nreq, nbus, peer>>

\* NetServer::cleanup_cb
cleanup_cb ==
    /\ d.up /\ d.cleanup_q # <<>>
    /\ d' = [d EXCEPT !.cleanup_q = <<>>,
                      !.connections = SelectSeq(@, LAMBDA c : c \notin ToSet(d.cleanup_q))]
    /\ UNCHANGED <<in, lib, nreq, nbus, peer>>

\* NetServer::stop: every connection in the list is stopped.
NetServer_stop(s) ==
    [FoldLeft(stop, [s EXCEPT !.cleanup_q = <<>>], s.connections) EXCEPT !.connections = <<>>, !.up = FALSE]

Stop ==
    /\ MayStop /\ d.up
    /\ d' = NetServer_stop(d)
    /\ UNCHANGED <<in, lib, nreq, nbus, peer>>

\* Router::trigger_cb and send_L_Data for the client's links: one packet.
\* A virtual bus monitor sees it first.
MonMsg(kind) == IF kind \in {"BUSMONITOR_TS", "VBUSMONITOR_TS"} THEN "MON_TS" ELSE "MON"

Show(s, cs, n) ==
    FoldLeft(LAMBDA t, c : sendmessage(t, c, Msg(MonMsg(t.conn[c].a.kind), 0, 0, n)), s, cs)

Receivers(s, p) ==
    LET found == \E c \in s.links : ~hasAddress(s, c, p.src) /\ hasAddress(s, c, p.dest)
    IN {c \in s.links : /\ ~hasAddress(s, c, p.src)
                        /\ IF p.grp THEN checkGroupAddress(s, c)
                           ELSE IF found THEN hasAddress(s, c, p.dest) ELSE checkAddress(s, c, p.dest)}

Route ==
    /\ d.buf # <<>>
    /\ LET p == Head(d.buf)
           s == Show([d EXCEPT !.buf = Tail(@)], d.vbusmonitor, p.n)
       IN /\ d' = FoldLeft(LAMBDA t, c : send_L_Data(t, c, p), s, SetToSortSeq(Receivers(s, p), <))
          /\ \/ UNCHANGED peer
             \/ /\ p.dest = DeviceAddr /\ p.tpdu = "ack" /\ p.serno = (peer.sent - 1) % SernoCount
                /\ peer' = [peer EXCEPT !.acked = peer.sent]
    /\ UNCHANGED <<in, lib, nreq, nbus>>

queue_L_Busmonitor(s, n) == [s EXCEPT !.mbuf = Append(@, n)]

\* Router::mtrigger_cb
mtrigger_cb ==
    /\ d.mbuf # <<>>
    /\ d' = FoldLeft(LAMBDA t, n : Show(t, d.busmonitor, n), [d EXCEPT !.mbuf = <<>>], d.mbuf)
    /\ UNCHANGED <<in, lib, nreq, nbus, peer>>

-----------------------------------------------------------------------------
\* The bus: packets for groups, for a client, or seen by a driver in monitor
\* mode (nobody listens when the server has stopped).  The device repeats a
\* packet of a T_Connection when its acknowledgement does not come in time.
Bus ==
    /\ d.up /\ nbus < MaxBus /\ nbus + nreq < MaxOps /\ nbus' = nbus + 1
    /\ \/ \E g \in Groups : d' = [d EXCEPT !.buf = Append(@, LData(TRUE, DeviceAddr, g, "data", 0, nbus'))]
       \/ \E a \in Addrs : d' = [d EXCEPT !.buf = Append(@, LData(FALSE, DeviceAddr, a, "data", 0, nbus'))]
       \/ d.busmonitor # <<>> /\ d' = queue_L_Busmonitor(d, nbus')
    /\ UNCHANGED <<in, lib, nreq, peer>>

DeviceSends ==
    /\ d.up /\ nbus < MaxBus /\ nbus + nreq < MaxOps /\ nbus' = nbus + 1
    /\ \E c \in Conns, n \in {peer.acked + 1, peer.sent} \ {0} :
       /\ d.conn[c].a.kind = "T_CONNECTION" /\ peer.to \in {0, c}
       /\ peer' = [peer EXCEPT !.to = c, !.sent = n]
       /\ d' = [d EXCEPT !.buf = Append(@, LData(FALSE, DeviceAddr, d.conn[c].addr, "cdata", (n - 1) % SernoCount, n))]
    /\ UNCHANGED <<in, lib, nreq>>

DeviceControls ==
    /\ d.up /\ nbus < MaxBus /\ nbus + nreq < MaxOps /\ nbus' = nbus + 1
    /\ \E c \in Conns, t \in {"disc", "conn", "ack", "nack"} :
       /\ d.conn[c].a.kind = "T_CONNECTION"
       /\ d' = [d EXCEPT !.buf = Append(@, LData(FALSE, DeviceAddr, d.conn[c].addr, t, 0, 0))]
    /\ UNCHANGED <<in, lib, nreq, peer>>

-----------------------------------------------------------------------------
\* The client.  A call of the library sends its request; one that has an
\* answer leaves `complete' to take it (EIBC_ASYNC, EIBComplete).
Destinations(kind) ==
    CASE kind = "T_GROUP" -> Groups
      [] kind = "T_TPDU" -> TpduSrc
      [] kind \in {"T_INDIVIDUAL", "T_CONNECTION"} -> {DeviceAddr}
      [] OTHER -> {0}

Request(c, m) ==
    /\ lib[c].st = "open" /\ lib[c].complete = "none"
    /\ nreq < MaxReq /\ nbus + nreq < MaxOps /\ nreq' = nreq + 1
    /\ Alive(c) /\ in' = [in EXCEPT ![c] = Append(@, m)]
    /\ UNCHANGED <<d, nbus, peer>>

ClientMsg(type, ok, wo, dest, n) == [type |-> type, ok |-> ok, wo |-> wo, dest |-> dest, n |-> n]

Open(c) ==
    /\ lib[c].open = "none" /\ lib[c].st = "open" /\ nreq < MaxReq
    /\ \E k \in Kinds : \E wo \in IF k \in {"T_BROADCAST", "T_GROUP", "T_INDIVIDUAL", "GROUPCON"}
                                  THEN BOOLEAN ELSE {FALSE},
                           dest \in Destinations(k) :
       /\ Request(c, ClientMsg(k, TRUE, wo, dest, 0))
       /\ lib' = [lib EXCEPT ![c].complete = k, ![c].wo = wo, ![c].dest = dest, ![c].got = <<>>]

EIBReset(c) ==
    /\ Request(c, ClientMsg("RESET", TRUE, FALSE, 0, 0))
    /\ lib' = [lib EXCEPT ![c].complete = "RESET"]

\* EIBSendAPDU, EIBSendTPDU, EIBSendGroup: no answer.
PacketType(kind) == IF kind = "GROUPCON" THEN "GROUP" ELSE "APDU"

Send(c) ==
    /\ lib[c].open \in Linked
    /\ \E dest \in CASE lib[c].open = "T_TPDU" -> {DeviceAddr}
                     [] lib[c].open = "GROUPCON" -> Groups
                     [] OTHER -> {0} :
          Request(c, ClientMsg(PacketType(lib[c].open), TRUE, FALSE, dest, 100 + nreq))
    /\ UNCHANGED lib

\* A request of the wrong length, of an unknown type, or one that does not
\* suit what is open.
Misuse(c) ==
    /\ \/ \E k \in Kinds : Request(c, ClientMsg(k, FALSE, FALSE, 0, 0))
       \/ Request(c, ClientMsg("OTHER", TRUE, FALSE, 0, 0))
    /\ lib' = [lib EXCEPT ![c].misused = TRUE]

\* EIBC_COMPLETE: the next message has to be the answer, or the packet.
Expected(c) ==
    CASE lib[c].complete # "none"  -> lib[c].complete
      [] lib[c].open \in Linked    -> PacketType(lib[c].open)
      [] OTHER                     -> MonMsg(lib[c].open)

EIBComplete(c) ==
    /\ lib[c].st = "open" /\ d.out[c] # <<>> /\ (lib[c].complete # "none" \/ lib[c].open # "none")
    /\ LET m == Head(d.out[c])
           l == [lib[c] EXCEPT !.complete = "none"]
           op == IF lib[c].complete = "none" THEN "Get" ELSE lib[c].complete
       IN lib' = [lib EXCEPT ![c] =
            IF m.type # Expected(c)
            THEN [l EXCEPT !.failed = op, !.open = "none", !.st = IF GoesOn THEN @ ELSE "closed"]
            ELSE CASE op = "RESET" -> [l EXCEPT !.open = "none"]
                   [] op = "Get"   -> IF m.n = 0 THEN l ELSE [l EXCEPT !.got = Append(@, m.n)]
                   [] OTHER        -> [l EXCEPT !.open = op]]
    /\ d' = [d EXCEPT !.out[c] = Tail(@)]
    /\ UNCHANGED <<in, nreq, nbus, peer>>

\* EIBClose, or the daemon has closed the connection.
EIBClose(c) ==
    /\ lib[c].st = "open" /\ (lib[c].complete = "none" \/ (~Alive(c) /\ d.out[c] = <<>>))
    /\ lib' = [lib EXCEPT ![c].st = "closed", ![c].open = "none", ![c].complete = "none"]
    /\ UNCHANGED <<d, in, nreq, nbus, peer>>

ClientsNext ==
    \/ Accept \/ cleanup_cb \/ Stop \/ Route \/ mtrigger_cb
    \/ Bus \/ DeviceSends \/ DeviceControls
    \/ \E c \in Conns : \/ Read(c) \/ error_cb(c)
                        \/ Open(c) \/ EIBReset(c) \/ Send(c) \/ Misuse(c)
                        \/ EIBComplete(c) \/ EIBClose(c)

-----------------------------------------------------------------------------
\* The router holds pointers to exactly the connection types that exist: a
\* link for each layer 4 object and one entry for each bus monitor, whichever
\* way (reset, error, close of the socket, stop of the server) a client left.
\* The addresses in use are those of the open connections, one each, and the
\* server knows each of these, so that all are free when it has stopped
\* (release_client_addr and A_Busmonitor::stop in ClientConnection::stop).
Registered ==
    LET live == {c \in Conns : d.conn[c].fd}
    IN /\ d.links = {c \in Conns : d.conn[c].a.kind \in Linked}
       /\ ToSet(d.busmonitor) = {c \in Conns : d.conn[c].a.kind \in Monitors}
       /\ ToSet(d.vbusmonitor) = {c \in Conns : d.conn[c].a.kind \in VMonitors}
       /\ IsInjective(d.busmonitor) /\ IsInjective(d.vbusmonitor)
       /\ d.client_addrs = {d.conn[c].addr : c \in live}
       /\ Cardinality(d.client_addrs) = Cardinality(live)
       /\ live \subseteq ToSet(d.connections)

\* A client that uses the library as it is meant to, and closes it when a call
\* fails, never takes one message for another: only EIBReset can fail, for a
\* packet that was on the way (sendreject follows exit_conn in read_cb).  And what
\* it was told to be open is what the daemon has open for it, unless the socket is
\* closing or a request is on the way.
NoStaleAnswer ==
    \A c \in Conns :
        /\ lib[c].failed \in {"none", "RESET"} \/ lib[c].misused \/ lib[c].refused
        /\ lib[c].st = "open" /\ lib[c].open # "none" /\ lib[c].complete = "none"
              /\ in[c] = <<>> /\ Alive(c) /\ ~lib[c].misused
           => d.conn[c].a.kind = lib[c].open

\* Over a bus that loses acknowledgements, so that the device repeats what it
\* sent, the client of a T_Connection gets every packet once and in order
\* (recvno in T_Connection::send_L_Data).
ConnOnce ==
    \A c \in Conns : lib[c].open = "T_CONNECTION" => \A i \in DOMAIN lib[c].got : lib[c].got[i] = i
=============================================================================
