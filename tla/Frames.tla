------------------------------- MODULE Frames -------------------------------
(***************************************************************************)
(* The journey of an application unit: layer 4 wraps it into a transport   *)
(* unit and a frame (libserver/layer4.cpp), a driver writes the frame on   *)
(* its medium, the driver at the far end reads it, a router passes it on   *)
(* to the next medium, and at last layer 4 unwraps it.  Frames that did    *)
(* not come from knxd, whose payload is any bytes, make the same journey.  *)
(* So do the EIBnet/IP control packets, over one datagram.                 *)
(*                                                                         *)
(* Nothing runs concurrently here: the questions are whether what one      *)
(* function writes is what its counterpart reads, across every pair of     *)
(* encoder and decoder a journey of up to MaxHops media can pick.          *)
(***************************************************************************)
EXTENDS Apdu, Tpdu, Wire

CONSTANTS
  Station,    \* the address interface devices and tunnel servers hand out
  Foreign,    \* payloads of frames that knxd did not compose
  Overheard,  \* payloads that are only read
  Describe,   \* description and search responses, as records
  Hosts,      \* the addresses a datagram may arrive from
  MaxHops     \* media a frame crosses

ASSUME StationAssumption == Station \in 1 .. 65535
ASSUME ForeignAssumption ==
  \A c \in Foreign \cup Overheard : c \in Seq(Byte) /\ Len(c) \in 1 .. 254
ASSUME HostsAssumption == Hosts \subseteq [ip : (0 .. 65535) \X (0 .. 65535), port : 1 .. 65535]
ASSUME MaxHopsAssumption == MaxHops \in Nat

VARIABLES
  app,     \* the application unit handed to layer 4, or NoUnit
  sent,    \* the frame as it was composed, or the control packet
  cur,     \* the frame at the station or router that holds it, else nullptr
  wire,    \* [medium, bytes] on its way, bytes = <<>> when there are none
  hops,    \* media crossed so far
  foreign, \* an interface device replaced the source address
  got      \* what arrived: an application unit or a control packet

vars == <<app, sent, cur, wire, hops, foreign, got>>

NoUnit == [cls |-> "none"]
Quiet == [medium |-> "none", bytes |-> <<>>]

\* Every application unit the classes of apdu.h can hold.
Units ==
  UNION {A_GroupValue_Read_PDU, A_GroupValue_Response_PDU, A_GroupValue_Write_PDU,
    A_IndividualAddress_Write_PDU, A_IndividualAddress_Read_PDU,
    A_IndividualAddress_Response_PDU, A_IndividualAddressSerialNumber_Read_PDU,
    A_IndividualAddressSerialNumber_Response_PDU,
    A_IndividualAddressSerialNumber_Write_PDU,
    A_ServiceInformation_Indication_Write_PDU, A_DomainAddress_Write_PDU,
    A_DomainAddress_Read_PDU, A_DomainAddress_Response_PDU,
    A_DomainAddressSelective_Read_PDU, A_PropertyValue_Read_PDU,
    A_PropertyValue_Response_PDU, A_PropertyValue_Write_PDU,
    A_PropertyDescription_Read_PDU, A_PropertyDescription_Response_PDU,
    A_DeviceDescriptor_Read_PDU, A_DeviceDescriptor_Response_PDU, A_ADC_Read_PDU,
    A_ADC_Response_PDU, A_Memory_Read_PDU, A_Memory_Response_PDU, A_Memory_Write_PDU,
    A_MemoryBit_Write_PDU, A_UserMemory_Read_PDU, A_UserMemory_Response_PDU,
    A_UserMemory_Write_PDU, A_UserMemoryBit_Write_PDU, A_UserManufacturerInfo_Read_PDU,
    A_UserManufacturerInfo_Response_PDU, A_Restart_PDU, A_Authorize_Request_PDU,
    A_Authorize_Response_PDU, A_Key_Write_PDU, A_Key_Response_PDU}

\* Every control packet; cri are the connection request and response blocks.
Controls(cri) ==
  UNION {ConnectRequest(cri), ConnectResponse(cri), ConnectionStateRequest,
    ConnectionStateResponse, DisconnectRequest, DisconnectResponse, TunnelACK,
    ConfigRequest({<<\hFC, b>> : b \in Octet}), ConfigACK, DescriptionRequest,
    SearchRequest, Describe}
-----------------------------------------------------------------------------
\* recv_Data of the layer 4 objects: the frame for transport unit t.
T_Broadcast_frame(t) ==
  [L_Data_new EXCEPT !.AddrType = "GroupAddress", !.data = TPDU_ToPacket(t), !.hopcount = 7]
T_Group_frame(t, group) ==
  [L_Data_new EXCEPT !.AddrType = "GroupAddress", !.dest = group, !.data = TPDU_ToPacket(t)]
T_Individual_frame(t, dest) ==
  [L_Data_new EXCEPT !.dest = dest, !.data = TPDU_ToPacket(t)]

\* The frames that carry unit a: the connectionless ones, and the numbered one,
\* which clients write through T_TPDU.
Frames(a) ==
  UNION {{T_Broadcast_frame(t), T_Group_frame(t, \h0801), T_Individual_frame(t, \h1205)} :
           t \in T_DATA_XXX_REQ_PDU({APDU_ToPacket(a)})}
    \cup {T_Individual_frame(t, \h1205) :
            t \in {c \in T_DATA_CONNECTED_REQ_PDU({APDU_ToPacket(a)}) : c.serno \in {0, 15}}}

\* The transport units without an application unit.
Signals == UNION {T_CONNECT_REQ_PDU, T_DISCONNECT_REQ_PDU, T_ACK_PDU, T_NACK_PDU}

\* T_Connection::SendDisconnect and SendAck.  Nothing calls SendConnect, and knxd
\* composes no T_NACK: these two come from clients, through T_TPDU::recv_Data.
T_Connection_Send(t) ==
  [T_Individual_frame(t, \h1205) EXCEPT
     !.prio = IF t.cls = "T_DISCONNECT_REQ" THEN "PRIO_SYSTEM" ELSE @]

\* send_L_Data of the layer 4 objects: the bytes for the application.
Unwrap(l) ==
  LET t == TPDU_fromPacket(l.data)
  IN  IF t.cls = "T_DATA_XXX_REQ" THEN t.data
      ELSE IF t.cls = "T_DATA_CONNECTED_REQ" THEN [t.data EXCEPT ![1] = @ % 4]
      ELSE <<>>
-----------------------------------------------------------------------------
Init ==
  /\ app = NoUnit /\ sent = nullptr /\ cur = nullptr /\ wire = Quiet
  /\ hops = 0 /\ foreign = FALSE /\ got = NoUnit

Idle == sent = nullptr

\* Layer 4 composes a frame; the source is the sender's link's address, which
\* Router::recv_L_Data fills in.
Compose(a) ==
  /\ \E l \in IF a \in Signals THEN {T_Connection_Send(a)} ELSE Frames(a) : cur' = [l EXCEPT !.source = Station + 1]
  /\ app' = a /\ sent' = cur'
  /\ UNCHANGED <<wire, hops, foreign, got>>

\* A frame from elsewhere: any priority and address, and the hop counts at
\* which a router behaves differently.
Arrive(l) ==
  /\ l.hopcount \in {0, 1, 7}
  /\ cur' = l /\ sent' = l
  /\ UNCHANGED <<app, wire, hops, foreign, got>>

\* A client reads a frame with any payload.
Overhear(c) ==
  /\ sent' = [L_Data_new EXCEPT !.data = c]
  /\ Unwrap(sent') # <<>>
  /\ got' = APDU_fromPacket(Unwrap(sent'))
  /\ UNCHANGED <<app, cur, wire, hops, foreign>>

\* Router::trigger_cb between two media: one hop less, and no repetition.
Onward(l) == IF hops = 0 THEN l ELSE [l EXCEPT !.hopcount = @ - 1, !.repeated = FALSE]

Transmit(m) ==
  /\ cur # nullptr /\ hops < MaxHops /\ got = NoUnit
  /\ hops > 0 => cur.hopcount > 0
  /\ wire' = [medium |-> m, bytes |-> Put(m, Onward(cur), 255, 0)]
  /\ wire'.bytes # <<>>
  /\ cur' = nullptr
  /\ UNCHANGED <<app, sent, hops, foreign, got>>

Receive ==
  /\ wire.medium \in Media
  /\ cur' = Get(wire.medium, wire.bytes, Station)
  /\ foreign' = (foreign \/ wire.medium = "emi")
  /\ hops' = hops + 1 /\ wire' = Quiet
  /\ UNCHANGED <<app, sent, got>>

Deliver ==
  /\ cur # nullptr /\ hops > 0 /\ got = NoUnit
  /\ cur.cls = "L_Data"
  /\ got' = IF Unwrap(cur) # <<>> THEN APDU_fromPacket(Unwrap(cur)) ELSE TPDU_fromPacket(cur.data)
  /\ UNCHANGED <<app, sent, cur, wire, hops, foreign>>
\* A bus monitor is shown the frame: Router::trigger_cb, a bus monitor connection
\* of the EIBnet/IP server, and the client at its far end.
Monitor ==
  /\ cur # nullptr /\ got = NoUnit
  /\ LET p == [timestamp |-> \hFEDC, pdu |-> LPDU_ToPacket(cur)]
         c == CEMI_to_Busmonitor(Busmonitor_to_CEMI(\h2B, p, 9))
     IN  got' = [cls |-> "monitored", pdu |-> c.pdu]
  /\ UNCHANGED <<app, sent, cur, wire, hops, foreign>>
-----------------------------------------------------------------------------
Control_ToPacket(r) ==
  CASE r.cls = "ConnectRequest" -> ConnectRequest_ToPacket(r)
    [] r.cls = "ConnectResponse" -> ConnectResponse_ToPacket(r)
    [] r.cls = "ConnectionStateRequest" -> ConnectionStateRequest_ToPacket(r)
    [] r.cls = "ConnectionStateResponse" -> ConnectionStateResponse_ToPacket(r)
    [] r.cls = "DisconnectRequest" -> DisconnectRequest_ToPacket(r)
    [] r.cls = "DisconnectResponse" -> DisconnectResponse_ToPacket(r)
    [] r.cls = "TunnelACK" -> TunnelACK_ToPacket(r)
    [] r.cls = "ConfigRequest" -> ConfigRequest_ToPacket(r)
    [] r.cls = "ConfigACK" -> ConfigACK_ToPacket(r)
    [] r.cls = "DescriptionRequest" -> DescriptionRequest_ToPacket(r)
    [] r.cls = "DescriptionResponse" -> DescriptionResponse_ToPacket(r)
    [] r.cls = "SearchRequest" -> SearchRequest_ToPacket(r)
    [] r.cls = "SearchResponse" -> SearchResponse_ToPacket(r)

\* What each parse function makes of packet p.
Parsed(p) ==
  {parseEIBnet_ConnectRequest(p), parseEIBnet_ConnectResponse(p),
   parseEIBnet_ConnectionStateRequest(p), parseEIBnet_ConnectionStateResponse(p),
   parseEIBnet_DisconnectRequest(p), parseEIBnet_DisconnectResponse(p),
   parseEIBnet_TunnelRequest(p), parseEIBnet_TunnelACK(p), parseEIBnet_ConfigRequest(p),
   parseEIBnet_ConfigACK(p), parseEIBnet_DescriptionRequest(p),
   parseEIBnet_DescriptionResponse(p), parseEIBnet_SearchRequest(p),
   parseEIBnet_SearchResponse(p)} \ {Failed}

SendControl(r) ==
  /\ sent' = r
  /\ wire' = [medium |-> "ip", bytes |-> EIBNetIPPacket_ToPacket(Control_ToPacket(r))]
  /\ UNCHANGED <<app, cur, hops, foreign, got>>

\* The datagram arrives, perhaps from a translated address.
ReceiveControl(src) ==
  /\ wire.medium = "ip"
  /\ LET p == EIBNetIPPacket_fromPacket(wire.bytes, src)
     IN  got' = [cls |-> "control", src |-> src, read |-> IF p = Failed THEN {} ELSE Parsed(p)]
  /\ wire' = Quiet
  /\ UNCHANGED <<app, sent, cur, hops, foreign>>

CRI == {<<4, 2, 0>>, <<3>>}

Next ==
  \/ Idle /\ \E a \in Units \cup Signals : Compose(a)
  \/ Idle /\ \E l \in L_Data_PDU(Foreign) : Arrive(l)
  \/ Idle /\ \E c \in Overheard : Overhear(c)
  \/ \E m \in Media : Transmit(m)
  \/ Receive
  \/ Deliver
  \/ Monitor
  \/ Idle /\ \E r \in Controls(CRI) : SendControl(r)
  \/ \E src \in Hosts : ReceiveControl(src)

Spec == Init /\ [][Next]_vars
-----------------------------------------------------------------------------
\* The classes that do not come back from their own encoding: the serial number
\* write goes out with the service code of the response, the service
\* information's duplicate flag is written to another byte than it is read
\* from, the selective domain read goes out with the code of the domain
\* response and without its domain, and the descriptor response has its type in
\* the place of its code.  An empty long value is read as a short one.
Lossy(a) ==
  \/ a.cls \in {"A_IndividualAddressSerialNumber_Write", "A_DomainAddressSelective_Read",
                "A_DeviceDescriptor_Response"}
  \/ a.cls = "A_ServiceInformation_Indication_Write" /\ a.duplicate_address
  \/ a.cls \in {"A_GroupValue_Response", "A_GroupValue_Write"} /\ a.data = <<>>

Transport == {"T_UNKNOWN", "T_CONNECT_REQ", "T_DISCONNECT_REQ", "T_ACK", "T_NACK"}

\* A unit arrives as it was handed to layer 4 or made by it, whatever transport
\* carried it and whatever media and routers it crossed: each ToPacket of apdu.cpp,
\* tpdu.cpp, lpdu.cpp, emi.cpp and eibnetip.cpp is undone by its counterpart.
\* The classes of Lossy are the exceptions; but even these are never taken for a
\* different service: what APDU::fromPacket returns is of the class that was sent
\* or A_Unknown.  And what was read from the bus can be sent on: written with
\* ToPacket and read again it is the same unit, for any bytes received.
UnitArrives ==
  /\ app # NoUnit /\ got.cls \notin {"none", "monitored"} =>
       IF Lossy(app) THEN got.cls \in {app.cls, "A_Unknown"} ELSE got = app
  /\ got.cls \notin {"none", "control", "monitored"} /\ ~Lossy(got) =>
       IF got.cls \in Transport THEN TPDU_fromPacket(TPDU_ToPacket(got)) = got
       ELSE APDU_fromPacket(APDU_ToPacket(got)) = got

\* The priority that the decoders make of a priority.
Reread(p) == PrioOf(PrioBits(p))

\* A frame keeps its payload, destination and address type on any journey, loses
\* one hop count per router, keeps its source unless an EMI device replaced it,
\* and keeps low and system priority.  (Normal and urgent are exchanged by every
\* medium: the decoders number them the other way round.)  A bus monitor anywhere
\* on the way is shown this frame.
FrameKept ==
  cur # nullptr /\ sent # nullptr =>
    /\ cur.cls = "L_Data" /\ cur.valid_checksum /\ cur.valid_length
    /\ cur.data = sent.data /\ cur.dest = sent.dest /\ cur.AddrType = sent.AddrType
    /\ cur.hopcount = sent.hopcount - (IF hops > 1 THEN hops - 1 ELSE 0)
    /\ cur.source = IF foreign \/ (sent.source = 0 /\ hops > 0) THEN cur.source ELSE sent.source
    /\ sent.prio \in {"PRIO_LOW", "PRIO_SYSTEM"} => cur.prio = sent.prio
    /\ got.cls = "monitored" => LPDU_fromPacket(got.pdu) = [cur EXCEPT !.prio = Reread(@)]

\* The address a server answers to: the one in the packet, or where the client
\* left it blank, the one the packet came from.
Reach(a, nat, src) ==
  [ip   |-> IF nat \/ a.ip = <<0, 0>> THEN src.ip ELSE a.ip,
   port |-> IF nat \/ a.port = 0 THEN src.port ELSE a.port]

\* Exactly one parse function accepts a control packet, that of its own class,
\* and it reads what was written, with an address the sender can be reached at.
\* A refused connect response has no more than its status.
ControlUnderstood ==
  got.cls = "control" =>
    \E r \in got.read :
      /\ got.read = {r} /\ r.cls = sent.cls
      /\ \A f \in DOMAIN sent \ {"caddr", "daddr", "nat", "CRD", "name"} : r[f] = sent[f]
      /\ "name" \in DOMAIN sent => SubSeq(r.name, 1, 29) = SubSeq(sent.name, 1, 29)
      /\ "caddr" \in DOMAIN sent => r.caddr = Reach(sent.caddr, sent.nat, got.src)
      /\ sent.cls = "ConnectRequest" => r.daddr = Reach(sent.daddr, sent.nat, got.src)
      /\ sent.cls = "ConnectResponse" /\ sent.status = 0 =>
           r.daddr = Reach(sent.daddr, sent.nat, got.src) /\ r.CRD = sent.CRD
      /\ "nat" \in DOMAIN sent /\ sent.nat => r.nat \/ sent.cls = "ConnectResponse"
=============================================================================
