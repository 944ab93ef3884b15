------------------------------ MODULE EIBnetIP ------------------------------
(***************************************************************************)
(* EIBnet/IP packets: libserver/eibnetip.cpp and eibnetip.h.  A packet is  *)
(* a service code, a body and the address it came from; each request and   *)
(* response class writes a body with ToPacket and is read back by its      *)
(* parse function, translated separately.  An IP address is a pair of 16   *)
(* bit halves in host order; names, serial and MAC numbers are byte arrays *)
(* of their length.  A parse function that returns 1 is Failed here.       *)
(***************************************************************************)
EXTENDS CArray, TLC

CONSTANTS
  Chan,      \* uchar members: channel, sequence number, status
  Ip,        \* IP addresses
  Port       \* ports

ASSUME ChanAssumption == Chan \subseteq Byte
ASSUME IpAssumption == Ip \subseteq (0 .. 65535) \X (0 .. 65535)
ASSUME PortAssumption == Port \subseteq 0 .. 65535

\* bodies below: the byte arrays CRI, CRD and CEMI range over.
sockaddr_in == [ip : Ip, port : Port]
NoAddr == [ip |-> <<0, 0>>, port |-> 0]
Failed == [cls |-> "failed"]

\* The six byte header.
EIBNetIPPacket_fromPacket(c, src) ==
  IF Len(c) < 6 THEN Failed
  ELSE IF c[1] # 6 \/ c[2] # \h10 \/ U16(c, 5) # Len(c) THEN Failed
  ELSE [service |-> U16(c, 3), data |-> From(c, 7), src |-> src]

EIBNetIPPacket_ToPacket(p) ==
  <<6, \h10>> \o B16(p.service) \o B16(Len(p.data) + 6) \o p.data

\* A host's address (HPAI).  Behind a network address translation it is left
\* blank, and a blank one is replaced by the address the packet came from.
IPtoEIBNetIP(a, nat) ==
  <<8, 1>> \o IF nat THEN Zeros(6)
              ELSE B16(a.ip[1]) \o B16(a.ip[2]) \o B16(a.port)

\* mutant: the port is not taken from the sender
EIBnettoIP_Port(buf, src) ==
  LET ip   == <<U16(buf, 3), U16(buf, 5)>>
      port == U16(buf, 7)
      bad  == buf[1] # 8 \/ buf[2] # 1
  IN  [bad  |-> bad,
       nat  |-> ~bad /\ ip = <<0, 0>>,
       addr |-> [ip   |-> IF ip = <<0, 0>> THEN src.ip ELSE ip,
                 port |-> port]]

EIBnettoIP(buf, src) ==
  LET ip   == <<U16(buf, 3), U16(buf, 5)>>
      port == U16(buf, 7)
      bad  == buf[1] # 8 \/ buf[2] # 1
  IN  [bad  |-> bad,
       nat  |-> ~bad /\ ip = <<0, 0>>,
       addr |-> [ip   |-> IF ip = <<0, 0>> THEN src.ip ELSE ip,
                 port |-> IF port = 0 THEN src.port ELSE port]]
-----------------------------------------------------------------------------
Packet(service, data) == [service |-> service, data |-> data, src |-> NoAddr]

ConnectRequest(bodies) ==
  [cls : {"ConnectRequest"}, caddr : sockaddr_in, daddr : sockaddr_in, CRI : bodies,
   nat : BOOLEAN]
ConnectRequest_ToPacket(r) ==
  Packet(\h0205, IPtoEIBNetIP(r.caddr, r.nat) \o IPtoEIBNetIP(r.daddr, r.nat)
                   \o <<Len(r.CRI) + 1>> \o r.CRI)
parseEIBnet_ConnectRequest(p) ==
  IF p.service # \h0205 \/ Len(p.data) < 18 THEN Failed ELSE
  LET ca == EIBnettoIP(SubSeq(p.data, 1, 8), p.src)
      da == EIBnettoIP(SubSeq(p.data, 9, 16), p.src)
  IN  IF ca.bad \/ da.bad \/ Len(p.data) - 16 # p.data[17] THEN Failed
      ELSE [cls |-> "ConnectRequest", caddr |-> ca.addr, daddr |-> da.addr,
            CRI |-> From(p.data, 18), nat |-> ca.nat \/ da.nat]

ConnectResponse(bodies) ==
  [cls : {"ConnectResponse"}, channel : Chan, status : Chan, daddr : sockaddr_in,
   nat : BOOLEAN, CRD : bodies]
ConnectResponse_ToPacket(r) ==
  Packet(\h0206, <<r.channel, r.status>> \o
                 IF r.status # 0 THEN <<>>
                 ELSE IPtoEIBNetIP(r.daddr, r.nat) \o <<Len(r.CRD) + 1>> \o r.CRD)
parseEIBnet_ConnectResponse(p) ==
  IF p.service # \h0206 \/ Len(p.data) < 2 THEN Failed
  ELSE IF p.data[2] # 0
  THEN IF Len(p.data) # 2 THEN Failed
       ELSE [cls |-> "ConnectResponse", channel |-> p.data[1], status |-> p.data[2],
             daddr |-> NoAddr, nat |-> FALSE, CRD |-> <<>>]
  ELSE IF Len(p.data) < 12 THEN Failed ELSE
  LET da == EIBnettoIP(SubSeq(p.data, 3, 10), p.src)
  IN  IF da.bad \/ Len(p.data) - 10 # p.data[11] THEN Failed
      ELSE [cls |-> "ConnectResponse", channel |-> p.data[1], status |-> p.data[2],
            daddr |-> da.addr, nat |-> da.nat, CRD |-> From(p.data, 12)]

ConnectionStateRequest ==
  [cls : {"ConnectionStateRequest"}, channel : Chan, caddr : sockaddr_in, nat : BOOLEAN]
ConnectionStateRequest_ToPacket(r) ==
  Packet(\h0207, <<r.channel, 0>> \o IPtoEIBNetIP(r.caddr, r.nat))
parseEIBnet_ConnectionStateRequest(p) ==
  IF p.service # \h0207 \/ Len(p.data) # 10 THEN Failed ELSE
  LET ca == EIBnettoIP(SubSeq(p.data, 3, 10), p.src)
  IN  IF ca.bad THEN Failed
      ELSE [cls |-> "ConnectionStateRequest", channel |-> p.data[1], caddr |-> ca.addr,
            nat |-> ca.nat]

ConnectionStateResponse ==
  [cls : {"ConnectionStateResponse"}, channel : Chan, status : Chan]
ConnectionStateResponse_ToPacket(r) == Packet(\h0208, <<r.channel, r.status>>)
parseEIBnet_ConnectionStateResponse(p) ==
  IF p.service # \h0208 \/ Len(p.data) # 2 THEN Failed
  ELSE [cls |-> "ConnectionStateResponse", channel |-> p.data[1], status |-> p.data[2]]

DisconnectRequest ==
  [cls : {"DisconnectRequest"}, caddr : sockaddr_in, channel : Chan, nat : BOOLEAN]
DisconnectRequest_ToPacket(r) ==
  Packet(\h0209, <<r.channel, 0>> \o IPtoEIBNetIP(r.caddr, r.nat))
parseEIBnet_DisconnectRequest(p) ==
  IF p.service # \h0209 \/ Len(p.data) # 10 THEN Failed ELSE
  LET ca == EIBnettoIP(SubSeq(p.data, 3, 10), p.src)
  IN  IF ca.bad THEN Failed
      ELSE [cls |-> "DisconnectRequest", channel |-> p.data[1], caddr |-> ca.addr,
            nat |-> ca.nat]

DisconnectResponse == [cls : {"DisconnectResponse"}, channel : Chan, status : Chan]
DisconnectResponse_ToPacket(r) == Packet(\h020A, <<r.channel, r.status>>)
parseEIBnet_DisconnectResponse(p) ==
  IF p.service # \h020A \/ Len(p.data) # 2 THEN Failed
  ELSE [cls |-> "DisconnectResponse", channel |-> p.data[1], status |-> p.data[2]]
-----------------------------------------------------------------------------
TunnelRequest(bodies) ==
  [cls : {"TunnelRequest"}, channel : Chan, seqno : Chan, CEMI : bodies]
TunnelRequest_ToPacket(r) == Packet(\h0420, <<4, r.channel, r.seqno, 0>> \o r.CEMI)
parseEIBnet_TunnelRequest(p) ==
  IF p.service # \h0420 \/ Len(p.data) < 6 THEN Failed
  ELSE IF p.data[1] # 4 THEN Failed
  ELSE [cls |-> "TunnelRequest", channel |-> p.data[2], seqno |-> p.data[3],
        CEMI |-> From(p.data, 5)]

TunnelACK == [cls : {"TunnelACK"}, channel : Chan, seqno : Chan, status : Chan]
TunnelACK_ToPacket(r) == Packet(\h0421, <<4, r.channel, r.seqno, r.status>>)
parseEIBnet_TunnelACK(p) ==
  IF p.service # \h0421 \/ Len(p.data) # 4 THEN Failed
  ELSE IF p.data[1] # 4 THEN Failed
  ELSE [cls |-> "TunnelACK", channel |-> p.data[2], seqno |-> p.data[3],
        status |-> p.data[4]]

ConfigRequest(bodies) ==
  [cls : {"ConfigRequest"}, channel : Chan, seqno : Chan, CEMI : bodies]
ConfigRequest_ToPacket(r) == Packet(\h0310, <<4, r.channel, r.seqno, 0>> \o r.CEMI)
parseEIBnet_ConfigRequest(p) ==
  IF p.service # \h0310 \/ Len(p.data) < 6 THEN Failed
  ELSE IF p.data[1] # 4 THEN Failed
  ELSE [cls |-> "ConfigRequest", channel |-> p.data[2], seqno |-> p.data[3],
        CEMI |-> From(p.data, 5)]

ConfigACK == [cls : {"ConfigACK"}, channel : Chan, seqno : Chan, status : Chan]
ConfigACK_ToPacket(r) == Packet(\h0311, <<4, r.channel, r.seqno, r.status>>)
parseEIBnet_ConfigACK(p) ==
  IF p.service # \h0311 \/ Len(p.data) # 4 THEN Failed
  ELSE IF p.data[1] # 4 THEN Failed
  ELSE [cls |-> "ConfigACK", channel |-> p.data[2], seqno |-> p.data[3],
        status |-> p.data[4]]
-----------------------------------------------------------------------------
DescriptionRequest == [cls : {"DescriptionRequest"}, caddr : sockaddr_in, nat : BOOLEAN]
DescriptionRequest_ToPacket(r) == Packet(\h0203, IPtoEIBNetIP(r.caddr, r.nat))
parseEIBnet_DescriptionRequest(p) ==
  IF p.service # \h0203 \/ Len(p.data) # 8 THEN Failed ELSE
  LET ca == EIBnettoIP(p.data, p.src)
  IN  IF ca.bad THEN Failed
      ELSE [cls |-> "DescriptionRequest", caddr |-> ca.addr, nat |-> ca.nat]

SearchRequest == [cls : {"SearchRequest"}, caddr : sockaddr_in, nat : BOOLEAN]
SearchRequest_ToPacket(r) == Packet(\h0201, IPtoEIBNetIP(r.caddr, r.nat))
parseEIBnet_SearchRequest(p) ==
  IF p.service # \h0201 \/ Len(p.data) # 8 THEN Failed ELSE
  LET ca == EIBnettoIP(p.data, p.src)
  IN  IF ca.bad THEN Failed
      ELSE [cls |-> "SearchRequest", caddr |-> ca.addr, nat |-> ca.nat]

\* The two blocks that describe a server: its device (54 bytes, the name cut
\* at 29 characters) and its service families.
Blocks(r) ==
  LET n == Len(r.services)
  IN  <<54, 1, r.KNXmedium, r.devicestatus>> \o B16(r.individual_addr)
        \o B16(r.installid) \o r.serial \o r.multicastaddr \o r.MAC
        \o [r.name EXCEPT ![30] = 0] \o <<(2 * n + 2) % 256, 2>>
        \o [i \in 1 .. 2 * n |-> r.services[(i + 1) \div 2][2 - (i % 2)]]

\* d is a body from the device block on.  A block length of zero, for which the
\* code asks for an array of length -1, is not among the inputs.
BlocksBad(d) ==
  \/ d[1] # 54 \/ d[2] # 1 \/ d[56] # 2
  \/ d[55] % 2 = 1 \/ d[55] + 54 > Len(d)

Described(name, d) ==
  [cls |-> name, KNXmedium |-> d[3], devicestatus |-> d[4],
   individual_addr |-> U16(d, 5), installid |-> U16(d, 7),
   serial |-> SubSeq(d, 9, 14), multicastaddr |-> SubSeq(d, 15, 18),
   MAC |-> SubSeq(d, 19, 24), name |-> [SubSeq(d, 25, 54) EXCEPT ![30] = 0],
   services |-> [i \in 1 .. (d[55] \div 2) - 1 |-> <<d[55 + 2 * i], d[56 + 2 * i]>>]]

DescriptionResponse_ToPacket(r) == Packet(\h0204, Blocks(r) \o r.optional)
parseEIBnet_DescriptionResponse(p) ==
  IF p.service # \h0204 \/ Len(p.data) < 56 THEN Failed
  ELSE IF BlocksBad(p.data) THEN Failed
  ELSE Described("DescriptionResponse", p.data)
         @@ [optional |-> From(p.data, p.data[55] + 55)]

SearchResponse_ToPacket(r) == Packet(\h0202, IPtoEIBNetIP(r.caddr, r.nat) \o Blocks(r))
parseEIBnet_SearchResponse(p) ==
  IF p.service # \h0202 \/ Len(p.data) < 64 THEN Failed ELSE
  LET ca == EIBnettoIP(SubSeq(p.data, 1, 8), p.src)
      d  == From(p.data, 9)
  IN  IF ca.bad \/ BlocksBad(d) THEN Failed
      ELSE Described("SearchResponse", d) @@ [caddr |-> ca.addr, nat |-> ca.nat]
=============================================================================
