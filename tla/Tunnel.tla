------------------------------- MODULE Tunnel -------------------------------
(***************************************************************************)
(* A KNXnet/IP tunnel between two knxd's: the client is EIBNetIPTunnel     *)
(* (backend/eibnettunnel.cpp), the server a ConnState of EIBnetServer      *)
(* (libserver/eibnetserver.cpp).  UDP lies between them: messages are lost *)
(* and duplicated, but not reordered.                                      *)
(*                                                                         *)
(* The client's link sends the packets 1, 2, ... and so does the link of   *)
(* the server; both drivers are used through a queue filter, i.e. the next *)
(* packet is handed over after send_Next() and by a later callback.        *)
(* cl and the elements of conn hold the members of the two classes.  Their *)
(* sequence numbers are bytes; here they count modulo SeqMod.              *)
(***************************************************************************)
EXTENDS Integers, Sequences, FiniteSets

CONSTANTS
    SeqMod,          \* 256
    MaxRetry,        \* 3, the limit in EIBNetIPTunnel::timeout_cb
    HeartbeatLimit,  \* heartbeat-retries=
    Channels,        \* 1..255
    MaxNet,          \* bound: messages under way in each direction
    Bounds,          \* a behaviour has one of these: [c, s : packets sent by the client and
                     \* by the server, starts : connection attempts, channels : used]
    Dup              \* types of messages the network may duplicate

ASSUME TunnelConfig == /\ SeqMod \in Nat \ {0, 1} /\ MaxRetry \in Nat /\ HeartbeatLimit \in Nat
                       /\ Channels \subseteq Nat \ {0} /\ MaxNet \in Nat
                       /\ Bounds \subseteq [c : Nat, s : Nat, starts : Nat, channels : SUBSET Channels]

VARIABLES
    cl,              \* the client
    conn,            \* [Channels -> ConnState or NoConn]
    toS, toC,        \* the network
    sentC, sentS,    \* packets handed to the two drivers so far
    gotS, gotC,      \* packets that the two drivers handed to their routers
    ackedC,          \* packets for which the client's driver called send_Next
    starts

vars == <<cl, conn, toS, toC, sentC, sentS, gotS, gotC, ackedC, starts>>

Seqno == 0..(SeqMod - 1)
Inc(n) == (n + 1) % SeqMod

\* mod: 0 not connected, 1 idle, 2 waiting for an ACK.  link: what the link knows.
Client == [ link : {"off", "starting", "on", "failed"}, mod : 0..2, channel : Channels \cup {-1},
            sno : Seqno, rno : Seqno, retry : Nat, out : Nat, trigger : BOOLEAN,
            timeout : BOOLEAN, conntimeout : BOOLEAN, heartbeat : Nat,
            owed : BOOLEAN,           \* a send_Next is due
            bound : Bounds ]

NoConn == [ open |-> FALSE ]

\* What ConnState::out holds: confirmations and packets of the router.
Con(p) == [ kind |-> "con", p |-> p ]
Ind(p) == [ kind |-> "ind", p |-> p ]

\* EIBnetServer::addClient.  stopped: stop() ran, drop_trigger_cb did not.
NewConn(p) == [ open |-> TRUE, port |-> p, stopped |-> FALSE, sno |-> 0, rno |-> 0, retries |-> 0,
                out |-> <<>>, trigger |-> FALSE, sendtimeout |-> FALSE, do_send_next |-> FALSE ]

Init ==
    /\ \E b \in Bounds :
       cl = [ link |-> "off", mod |-> 0, channel |-> -1, sno |-> 0, rno |-> 0, retry |-> 0,
              out |-> 0, trigger |-> FALSE, timeout |-> FALSE, conntimeout |-> FALSE,
              heartbeat |-> 0, owed |-> FALSE, bound |-> b ]
    /\ conn = [ ch \in Channels |-> NoConn ]
    /\ toS = <<>> /\ toC = <<>>
    /\ sentC = 0 /\ sentS = 0 /\ gotS = <<>> /\ gotC = <<>> /\ ackedC = {} /\ starts = 0

-----------------------------------------------------------------------------
\* The network: a full queue loses the message.
\* Requests tell the port to answer to, i.e. the socket that `starts' counts.
Msg(t, ch) == [ type |-> t, ch |-> ch, port |-> starts ]
Resp(t, ch, ok) == [ type |-> t, ch |-> ch, ok |-> ok ]
Req(ch, s, x) == [ type |-> "req", ch |-> ch, seqno |-> s, cemi |-> x ]
Ack(ch, s, ok) == [ type |-> "ack", ch |-> ch, seqno |-> s, ok |-> ok ]

Open == cl.link \in {"starting", "on"}          \* the client has a socket

Put(net, m) == IF Len(net) < MaxNet THEN Append(net, m) ELSE net

\* The server's answer to a port; it is lost if that socket is closed.
PutC(port, m) == IF Open /\ port = starts THEN Put(toC, m) ELSE toC

\* What is left of a queue whose first message is received.
Rest(net) == IF Head(net).type \in Dup THEN {Tail(net), net} ELSE {Tail(net)}

Lose ==
    /\ \/ toS # <<>> /\ toS' = Tail(toS) /\ UNCHANGED toC
       \/ toC # <<>> /\ toC' = Tail(toC) /\ UNCHANGED toS
    /\ UNCHANGED <<cl, conn, sentC, sentS, gotS, gotC, ackedC, starts>>

-----------------------------------------------------------------------------
(* The client.                                                               *)

server == <<conn, sentS, gotS>>

\* EIBNetIPTunnel::start, with a new socket; `retry' is not reset.
start ==
    /\ cl.link = "off" /\ starts < cl.bound.starts
    /\ starts' = starts + 1
    /\ cl' = [cl EXCEPT !.link = "starting", !.out = 0, !.conntimeout = TRUE, !.owed = FALSE]
    /\ toS' = Put(toS, [Msg("conn", 0) EXCEPT !.port = starts'])
    /\ UNCHANGED <<server, toC, sentC, gotC, ackedC>>

\* restart(): what it sends and the record it leaves.
Restart(k) == IF k.mod = 0 THEN k ELSE [k EXCEPT !.mod = 0, !.conntimeout = TRUE]
RestartMsg(k, net) == IF k.mod = 0 THEN net ELSE Put(net, Msg("disc", k.channel))

\* EIBNetIPTunnel::stop, with is_stopped and the socket that goes away; LinkConnect
\* calls it on demand, after error_cb and after a failure.
stop ==
    /\ cl.link # "off"
    /\ cl' = [Restart(cl) EXCEPT !.link = "off", !.timeout = FALSE, !.conntimeout = FALSE,
                                 !.trigger = FALSE]
    /\ toS' = RestartMsg(cl, toS)
    /\ toC' = <<>>
    /\ UNCHANGED <<server, sentC, gotC, ackedC, starts>>

send_L_Data ==
    /\ cl.link = "on" /\ ~cl.owed /\ sentC < cl.bound.c
    /\ sentC' = sentC + 1
    /\ cl' = [cl EXCEPT !.out = sentC', !.owed = TRUE, !.trigger = TRUE]
    /\ UNCHANGED <<server, toS, toC, gotC, ackedC, starts>>

trigger_cb ==
    /\ cl.trigger
    /\ IF cl.mod = 1 /\ cl.out # 0
       THEN /\ toS' = Put(toS, Req(cl.channel, cl.sno, cl.out))
            /\ cl' = [cl EXCEPT !.trigger = FALSE, !.mod = 2, !.timeout = TRUE]
       ELSE cl' = [cl EXCEPT !.trigger = FALSE] /\ UNCHANGED toS
    /\ UNCHANGED <<server, toC, sentC, gotC, ackedC, starts>>

\* After restart() set mod to 0 the last line of the function sets it to 1.
timeout_cb ==
    /\ cl.timeout
    /\ IF cl.mod # 2
       THEN cl' = [cl EXCEPT !.timeout = FALSE] /\ UNCHANGED toS
       ELSE LET t == [cl EXCEPT !.timeout = FALSE, !.retry = IF @ > MaxRetry THEN @ ELSE @ + 1]
                k == IF cl.retry > MaxRetry THEN [Restart(t) EXCEPT !.out = 0] ELSE t
            IN /\ cl' = [k EXCEPT !.mod = 1, !.trigger = TRUE]
               /\ toS' = IF cl.retry > MaxRetry THEN RestartMsg(t, toS) ELSE toS
    /\ UNCHANGED <<server, toC, sentC, gotC, ackedC, starts>>

\* A heartbeat while connected, otherwise the connection failed and the socket
\* is closed.
conntimeout_cb ==
    /\ cl.conntimeout
    /\ IF cl.mod # 0
       THEN /\ cl' = IF cl.heartbeat < HeartbeatLimit THEN [cl EXCEPT !.heartbeat = @ + 1]
                     ELSE Restart([cl EXCEPT !.conntimeout = FALSE])
            /\ toS' = IF cl.heartbeat < HeartbeatLimit THEN Put(toS, Msg("state", cl.channel))
                      ELSE RestartMsg(cl, toS)
            /\ UNCHANGED toC
       ELSE /\ cl' = [cl EXCEPT !.link = "failed", !.timeout = FALSE, !.conntimeout = FALSE,
                                !.trigger = FALSE]
            /\ toC' = <<>>
            /\ UNCHANGED toS
    /\ UNCHANGED <<server, sentC, gotC, ackedC, starts>>

\* read_cb, one action per service.
Recv(t) ==
    /\ Open
    /\ toC # <<>> /\ Head(toC).type = t
    /\ toC' \in Rest(toC)

connection_response ==
    /\ Recv("connresp")
    /\ cl' = IF cl.mod = 0 /\ Head(toC).ok
             THEN [cl EXCEPT !.link = "on", !.mod = 1, !.channel = Head(toC).ch, !.sno = 0,
                             !.rno = 0, !.trigger = TRUE, !.conntimeout = TRUE, !.heartbeat = 0]
             ELSE cl
    /\ UNCHANGED <<server, toS, sentC, gotC, ackedC, starts>>

\* A request of the server: a repeated one is acknowledged again, one that is far
\* ahead ends the connection, but not if the number has wrapped: the correction
\* by 0x100 is lost in an unsigned char.  A confirmation is only acknowledged.
tunnel_request ==
    /\ Recv("req")
    /\ LET m == Head(toC)
           ours == cl.mod # 0 /\ m.ch = cl.channel
           new == ours /\ m.seqno = cl.rno
           again == ours /\ Inc(m.seqno) = cl.rno
           far == ours /\ ~again /\ m.seqno >= cl.rno + 5
       IN /\ cl' = CASE new -> [cl EXCEPT !.rno = Inc(@)]
                     [] far -> Restart(cl)
                     [] OTHER -> cl
          /\ toS' = CASE new \/ again -> Put(toS, Ack(cl.channel, m.seqno, TRUE))
                      [] far -> RestartMsg(cl, toS)
                      [] OTHER -> toS
          /\ gotC' = IF new /\ m.cemi.kind = "ind" THEN Append(gotC, m.cemi.p) ELSE gotC
    /\ UNCHANGED <<server, sentC, ackedC, starts>>

\* mutant: any ACK will do
tunnel_response_Any ==
    /\ Recv("ack")
    /\ IF cl.mod = 2 /\ Head(toC).ch = cl.channel
       THEN /\ cl' = [cl EXCEPT !.sno = Inc(@), !.out = 0, !.owed = FALSE, !.mod = 1,
                                !.trigger = TRUE, !.retry = 0]
            /\ ackedC' = ackedC \cup {cl.out}
       ELSE UNCHANGED <<cl, ackedC>>
    /\ UNCHANGED <<server, toS, sentC, gotC, starts>>

tunnel_response ==
    /\ Recv("ack")
    /\ LET m == Head(toC)
       IN IF cl.mod = 2 /\ m.ch = cl.channel /\ m.seqno = cl.sno /\ m.ok
          THEN /\ cl' = [cl EXCEPT !.sno = Inc(@), !.out = 0, !.owed = FALSE, !.mod = 1,
                                   !.trigger = TRUE, !.retry = 0]
               /\ ackedC' = ackedC \cup {cl.out}
          ELSE UNCHANGED <<cl, ackedC>>
    /\ UNCHANGED <<server, toS, sentC, gotC, starts>>

connectionstate_response ==
    /\ Recv("stateresp")
    /\ LET m == Head(toC)
           gone == m.ch = cl.channel /\ ~m.ok
       IN /\ cl' = CASE gone -> Restart(cl)
                     [] m.ch = cl.channel /\ m.ok -> [cl EXCEPT !.heartbeat = 0]
                     [] OTHER -> cl
          /\ toS' = IF gone THEN RestartMsg(cl, toS) ELSE toS
    /\ UNCHANGED <<server, sentC, gotC, ackedC, starts>>

disconnect_request ==
    /\ Recv("disc")
    /\ IF cl.mod # 0 /\ Head(toC).ch = cl.channel
       THEN /\ cl' = [cl EXCEPT !.mod = 0, !.conntimeout = TRUE]
            /\ toS' = Put(toS, Msg("discresp", cl.channel))
       ELSE UNCHANGED <<cl, toS>>
    /\ UNCHANGED <<server, sentC, gotC, ackedC, starts>>

disconnect_response ==
    /\ Recv("discresp")
    /\ cl' = IF cl.mod # 0 /\ Head(toC).ch = cl.channel
             THEN [cl EXCEPT !.mod = 0, !.conntimeout = TRUE] ELSE cl
    /\ UNCHANGED <<server, toS, sentC, gotC, ackedC, starts>>

-----------------------------------------------------------------------------
(* The server.                                                               *)

client == <<cl, sentC, gotC, ackedC, starts>>

RecvS(t) ==
    /\ toS # <<>> /\ Head(toS).type = t
    /\ toS' \in Rest(toS)

Known(ch) == ch \in Channels /\ conn[ch].open

\* CONNECTION_REQUEST: addClient takes the lowest free channel.
connection_request ==
    /\ RecvS("conn")
    /\ LET free == { ch \in cl.bound.channels : ~conn[ch].open }
           port == Head(toS).port
       IN \/ /\ free = {} /\ UNCHANGED conn
             /\ toC' = PutC(port, Resp("connresp", 0, FALSE))
          \/ \E id \in free :
                /\ \A ch \in free : id <= ch
                /\ conn' = [conn EXCEPT ![id] = NewConn(port)]
                /\ toC' = PutC(port, Resp("connresp", id, TRUE))
    /\ UNCHANGED <<client, sentS, gotS>>

\* mutant: the channel is not looked up
connectionstate_request_Yes ==
    /\ RecvS("state")
    /\ toC' = PutC(Head(toS).port, Resp("stateresp", Head(toS).ch, TRUE))
    /\ UNCHANGED <<client, conn, sentS, gotS>>

\* CONNECTIONSTATE_REQUEST
connectionstate_request ==
    /\ RecvS("state")
    /\ toC' = PutC(Head(toS).port, Resp("stateresp", Head(toS).ch, Known(Head(toS).ch)))
    /\ UNCHANGED <<client, conn, sentS, gotS>>

\* ConnState::stop; drop_trigger_cb removes the connection later.
Stop(s) == [s EXCEPT !.stopped = TRUE, !.trigger = FALSE, !.sendtimeout = FALSE, !.retries = 0]

\* DISCONNECT_REQUEST
serve_disconnect ==
    /\ RecvS("disc")
    /\ LET ch == Head(toS).ch
       IN /\ conn' = IF Known(ch) THEN [conn EXCEPT ![ch] = Stop(@)] ELSE conn
          /\ toC' = PutC(Head(toS).port, Resp("discresp", ch, Known(ch)))
    /\ UNCHANGED <<client, sentS, gotS>>

\* DISCONNECT_RESPONSE is not a service of handle_packet.
ignore_packet == RecvS("discresp") /\ UNCHANGED <<client, conn, toC, sentS, gotS>>

\* out.put with the trigger of an idle connection.
Queued(s, x) == [s EXCEPT !.out = Append(@, x),
                          !.trigger = @ \/ (s.retries = 0 /\ ~s.stopped)]

\* mutant: a repeated request is taken for a new one
ConnState_tunnel_request_Again ==
    /\ RecvS("req")
    /\ LET m == Head(toS)
           known == Known(m.ch)
       IN /\ conn' = IF known THEN [conn EXCEPT ![m.ch] = [Queued(conn[m.ch], Con(m.cemi)) EXCEPT !.rno = Inc(@)]]
                     ELSE conn
          /\ gotS' = IF known THEN Append(gotS, m.cemi) ELSE gotS
          /\ toC' = IF known THEN PutC(conn[m.ch].port, Ack(m.ch, m.seqno, TRUE)) ELSE toC
    /\ UNCHANGED <<client, sentS>>

\* A packet in sequence is confirmed and routed; the last one is acknowledged again.
ConnState_tunnel_request ==
    /\ RecvS("req")
    /\ LET m == Head(toS)
           known == Known(m.ch)
           new == known /\ m.seqno = conn[m.ch].rno
           again == known /\ Inc(m.seqno) = conn[m.ch].rno
       IN /\ conn' = IF new THEN [conn EXCEPT ![m.ch] = [Queued(conn[m.ch], Con(m.cemi)) EXCEPT !.rno = Inc(@)]]
                     ELSE conn
          /\ gotS' = IF new THEN Append(gotS, m.cemi) ELSE gotS
          /\ toC' = IF new \/ again THEN PutC(conn[m.ch].port, Ack(m.ch, m.seqno, TRUE)) ELSE toC
    /\ UNCHANGED <<client, sentS>>

\* mutant: what has queued up meanwhile is not sent
ConnState_tunnel_response_NoTrigger ==
    /\ RecvS("ack")
    /\ LET m == Head(toS)
           hit == Known(m.ch) /\ m.seqno = conn[m.ch].sno /\ m.ok /\ conn[m.ch].retries # 0
       IN conn' = IF hit THEN [conn EXCEPT ![m.ch].sno = Inc(@), ![m.ch].out = Tail(@),
                                           ![m.ch].sendtimeout = FALSE, ![m.ch].retries = 0]
                  ELSE conn
    /\ UNCHANGED <<client, toC, sentS, gotS>>

\* Only when nothing is left to be sent the link may send its next packet.
ConnState_tunnel_response ==
    /\ RecvS("ack")
    /\ LET m == Head(toS)
           hit == Known(m.ch) /\ m.seqno = conn[m.ch].sno /\ m.ok /\ conn[m.ch].retries # 0
           more == Len(conn[m.ch].out) > 1
       IN conn' = IF hit
                  THEN [conn EXCEPT ![m.ch].sno = Inc(@), ![m.ch].out = Tail(@),
                                    ![m.ch].sendtimeout = FALSE, ![m.ch].retries = 0,
                                    ![m.ch].trigger = @ \/ more,
                                    ![m.ch].do_send_next = @ /\ more]
                  ELSE conn
    /\ UNCHANGED <<client, toC, sentS, gotS>>

\* A packet of the server's router; the queue filter waits for send_Next.
ConnState_send_L_Data(ch) ==
    /\ conn[ch].open /\ ~conn[ch].stopped /\ ~conn[ch].do_send_next /\ sentS < cl.bound.s
    /\ sentS' = sentS + 1
    /\ conn' = [conn EXCEPT ![ch] = [Queued(@, Ind(sentS')) EXCEPT !.do_send_next = TRUE]]
    /\ UNCHANGED <<client, toS, toC, gotS>>

send_trigger_cb(ch) ==
    /\ conn[ch].open /\ conn[ch].trigger
    /\ LET s == conn[ch]
       IN IF s.out = <<>>
          THEN conn' = [conn EXCEPT ![ch].trigger = FALSE] /\ UNCHANGED toC
          ELSE /\ conn' = [conn EXCEPT ![ch].trigger = FALSE, ![ch].retries = @ + 1,
                                       ![ch].sendtimeout = TRUE]
               /\ toC' = PutC(s.port, Req(ch, s.sno, Head(s.out)))
    /\ UNCHANGED <<client, toS, sentS, gotS>>

\* mutant: the retries are counted anew
sendtimeout_cb_Forever(ch) ==
    /\ conn[ch].open /\ conn[ch].sendtimeout
    /\ conn' = [conn EXCEPT ![ch].retries = 0, ![ch].sendtimeout = FALSE, ![ch].trigger = TRUE]
    /\ UNCHANGED <<client, toS, toC, sentS, gotS>>

\* `retries' is counted here and in send_trigger_cb.
sendtimeout_cb(ch) ==
    /\ conn[ch].open /\ conn[ch].sendtimeout
    /\ LET s == [conn[ch] EXCEPT !.retries = @ + 1, !.sendtimeout = FALSE]
       IN conn' = [conn EXCEPT ![ch] = IF s.retries <= 2 THEN [s EXCEPT !.trigger = TRUE]
                                       ELSE Stop([s EXCEPT !.out = Tail(@)])]
    /\ UNCHANGED <<client, toS, toC, sentS, gotS>>

\* ConnState::timeout_cb: the client was silent for two minutes.
ConnState_timeout_cb(ch) ==
    /\ conn[ch].open /\ ~conn[ch].stopped
    /\ conn' = [conn EXCEPT ![ch] = Stop(@)]
    /\ toC' = PutC(conn[ch].port, Msg("disc", ch))
    /\ UNCHANGED <<client, toS, sentS, gotS>>

drop_trigger_cb ==
    /\ \E ch \in Channels : conn[ch].open /\ conn[ch].stopped
    /\ conn' = [ ch \in Channels |-> IF conn[ch].open /\ conn[ch].stopped THEN NoConn
                                     ELSE conn[ch] ]
    /\ UNCHANGED <<client, toS, toC, sentS, gotS>>

-----------------------------------------------------------------------------
read_cb == \/ connection_response \/ tunnel_request \/ tunnel_response
           \/ connectionstate_response \/ disconnect_request \/ disconnect_response

handle_packet == \/ connection_request \/ connectionstate_request \/ serve_disconnect
                 \/ ConnState_tunnel_request \/ ConnState_tunnel_response \/ ignore_packet

ServerTimers(ch) == send_trigger_cb(ch) \/ sendtimeout_cb(ch)

Next ==
    \/ start \/ stop \/ send_L_Data \/ trigger_cb \/ timeout_cb \/ conntimeout_cb \/ read_cb
    \/ handle_packet
    \/ \E ch \in Channels : ConnState_send_L_Data(ch) \/ ServerTimers(ch) \/ ConnState_timeout_cb(ch)
    \/ drop_trigger_cb
    \/ Lose

Spec == Init /\ [][Next]_vars

\* The event loops run what is pending.  Neither the network, nor the user who stops
\* a link, nor the two-minute timer is fair.
Fairness ==
    /\ WF_vars(trigger_cb) /\ WF_vars(timeout_cb) /\ WF_vars(conntimeout_cb)
    /\ WF_vars(read_cb) /\ WF_vars(handle_packet)
    /\ \A ch \in Channels : WF_vars(ServerTimers(ch))
    /\ WF_vars(drop_trigger_cb)

FairSpec == Spec /\ Fairness

-----------------------------------------------------------------------------
ConnStates == [ open : {TRUE}, port : Nat, stopped : BOOLEAN, sno : Seqno, rno : Seqno,
                retries : 0..3, out : Seq([kind : {"con", "ind"}, p : Nat]), trigger : BOOLEAN,
                sendtimeout : BOOLEAN, do_send_next : BOOLEAN ]

\* The type invariant; a connection never counts more than three retries.
TypeOK ==
    /\ cl \in Client
    /\ conn \in [Channels -> ConnStates \cup {NoConn}]
    /\ Len(toS) <= MaxNet /\ Len(toC) <= MaxNet

Increasing(s) == \A i \in 2..Len(s) : s[i - 1] < s[i]

\* Sequence numbers, repeated ACKs, retries and reconnections together: each side
\* routes the packets of the other in the order in which they were sent and each of
\* them once at most, whatever the network loses or repeats (tunnel_request on
\* both sides).  This holds only if CONNECTION_REQUEST and CONNECTION_RESPONSE are
\* not repeated (Dup): a second connection would get the packet in `out' again.
InOrder == Increasing(gotS) /\ Increasing(gotC)

\* The client's driver asks for the next packet (send_Next in read_cb) only
\* when the server's router got the one before.
AckedDelivered == \A p \in ackedC : \E i \in DOMAIN gotS : gotS[i] = p

\* Neither side waits for something that will not happen.  At the client, with a packet
\* in `out' or without a connection, there is a timer or trigger that goes on with it.
\* At the server, as long as a connection has packets to send, its trigger or its timer
\* is active (send_trigger, sendtimeout), and the router's packet is among them until
\* send_Next is called.  (Together with the type invariant.)
Awake ==
    /\ TypeOK
    /\ Open => /\ cl.mod = 0 => cl.conntimeout
               /\ cl.mod = 1 /\ cl.out # 0 => cl.trigger
               /\ cl.mod = 2 => cl.timeout
    /\ \A ch \in Channels : conn[ch].open /\ ~conn[ch].stopped =>
          /\ conn[ch].out # <<>> => conn[ch].trigger \/ conn[ch].sendtimeout
          /\ conn[ch].do_send_next => conn[ch].out # <<>>

\* A client whose connection is gone at the server leaves it, by the answer to its
\* heartbeat or for the lack of one (conntimeout_cb).
OrphanNoticed ==
    (cl.link = "on" /\ cl.mod # 0 /\ ~Known(cl.channel)) ~> (cl.link # "on")

\* The server's link can go on: a packet is acknowledged or the
\* connection is closed (sendtimeout_cb).
ServerGoesOn ==
    \A ch \in Channels : (conn[ch].open /\ conn[ch].do_send_next)
                          ~> ~(conn[ch].open /\ conn[ch].do_send_next)

\* "Too many retransmits, disconnecting" (EIBNetIPTunnel::timeout_cb): a packet that
\* the link handed over is acknowledged or the link goes down.
ClientGoesOn == cl.owed ~> (~cl.owed \/ cl.link # "on")
=============================================================================
