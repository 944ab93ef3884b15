-------------------------------- MODULE Wire --------------------------------
(***************************************************************************)
(* What the drivers put on their media for an L_Data frame, and what the   *)
(* driver at the far end makes of the bytes: a telegram on twisted pair,   *)
(* an EIBnet/IP routing indication, a tunnel request in either direction,  *)
(* and an EMI or cEMI frame for an interface device.                       *)
(***************************************************************************)
EXTENDS Lpdu, EIBnetIP

Media == {"tp", "routing", "tunnel", "server", "emi", "cemi"}

\* ROUTING_INDICATION
Routing_send_L_Data(l) ==
  EIBNetIPPacket_ToPacket(Packet(\h0530, L_Data_ToCEMI(\h29, l)))

Routing_read_cb(p) ==
  IF p.service # \h0530 THEN nullptr
  ELSE IF Len(p.data) < 2 THEN nullptr
  ELSE IF p.data[1] # \h29 THEN nullptr
  ELSE CEMI_to_L_Data(p.data)

\* The client's end of a tunnel sends a L_Data.req and reads indications.
Tunnel_send_L_Data(l, ch, no) ==
  EIBNetIPPacket_ToPacket(TunnelRequest_ToPacket(
    [channel |-> ch, seqno |-> no, CEMI |-> L_Data_ToCEMI(\h11, l)]))

Tunnel_read_cb(p) ==
  LET r == parseEIBnet_TunnelRequest(p)
  IN  IF r = Failed THEN nullptr
      ELSE IF r.CEMI[1] # \h29 THEN nullptr
      ELSE CEMI_to_L_Data(r.CEMI)

\* The server's end sends indications, and gives a frame without a source
\* the address it assigned to the client.
Server_send_L_Data(l, ch, no) ==
  EIBNetIPPacket_ToPacket(TunnelRequest_ToPacket(
    [channel |-> ch, seqno |-> no, CEMI |-> L_Data_ToCEMI(\h29, l)]))

Server_tunnel_request(p, addr) ==
  LET r == parseEIBnet_TunnelRequest(p)
      c == CEMI_to_L_Data(r.CEMI)
  IN  IF r = Failed THEN nullptr
      ELSE IF c = nullptr \/ r.CEMI[1] \notin {\h11, \h29} THEN nullptr
      ELSE [c EXCEPT !.source = IF @ = 0 THEN addr ELSE @]

\* An EMI interface takes sixteen bytes of payload, a cEMI one fifty.
maxPacketLen(m) == IF m = "emi" THEN 16 ELSE 50

lData2EMI(m, l) == IF m = "emi" THEN L_Data_ToEMI(\h11, l) ELSE L_Data_ToCEMI(\h11, l)
EMI2lData(m, c) == IF m = "emi" THEN EMI_to_L_Data(c) ELSE CEMI_to_L_Data(c)

\* The interface device repeats a request on the bus as its own: the
\* indication another such device reports has the device's address dev.
Device(m, c, dev) ==
  IF m = "emi" THEN [c EXCEPT ![1] = \h49, ![3] = dev \div 256, ![4] = dev % 256]
  ELSE [c EXCEPT ![1] = \h29,
                 ![5] = IF U16(c, 5) = 0 THEN dev \div 256 ELSE @,
                 ![6] = IF U16(c, 5) = 0 THEN dev % 256 ELSE @]
-----------------------------------------------------------------------------
\* The bytes for l on medium m, <<>> when the driver drops the frame.
Put(m, l, ch, no) ==
  CASE m = "tp" -> L_Data_ToPacket(l)
    [] m = "routing" -> Routing_send_L_Data(l)
    [] m = "tunnel" -> Tunnel_send_L_Data(l, ch, no)
    [] m = "server" -> Server_send_L_Data(l, ch, no)
    [] m \in {"emi", "cemi"} ->
         IF Len(l.data) > maxPacketLen(m) THEN <<>> ELSE lData2EMI(m, l)

\* The frame the far end reads from bytes c; addr is the address that the
\* server or the interface device gives the sender.
Get(m, c, addr) ==
  LET p == EIBNetIPPacket_fromPacket(c, NoAddr)
  IN
  CASE m = "tp" -> LPDU_fromPacket(c)
    [] m = "routing" -> IF p = Failed THEN nullptr ELSE Routing_read_cb(p)
    [] m = "tunnel" -> IF p = Failed THEN nullptr ELSE Server_tunnel_request(p, addr)
    [] m = "server" -> IF p = Failed THEN nullptr ELSE Tunnel_read_cb(p)
    [] m \in {"emi", "cemi"} -> EMI2lData(m, Device(m, c, addr))
=============================================================================
