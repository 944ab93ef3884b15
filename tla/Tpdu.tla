-------------------------------- MODULE Tpdu --------------------------------
(***************************************************************************)
(* The transport layer's data units: libserver/tpdu.cpp and tpdu.h.  A     *)
(* data unit carries an application unit whose first byte it shares: the   *)
(* upper six bits are the transport's, the lower two the application's.    *)
(***************************************************************************)
EXTENDS CArray

Sernos == 0 .. 15

T_UNKNOWN_init(c) == [cls |-> "T_UNKNOWN", pdu |-> c]
T_UNKNOWN_ToPacket(t) == t.pdu

\* apdus: byte arrays that come out of an APDU's ToPacket.
T_DATA_XXX_REQ_PDU(apdus) == [cls : {"T_DATA_XXX_REQ"}, data : apdus]
T_DATA_XXX_REQ_init(c) ==
  IF Len(c) < 1 THEN T_UNKNOWN_init(c) ELSE [cls |-> "T_DATA_XXX_REQ", data |-> c]
T_DATA_XXX_REQ_ToPacket(t) == [t.data EXCEPT ![1] = @ % 4]

T_DATA_CONNECTED_REQ_PDU(apdus) ==
  [cls : {"T_DATA_CONNECTED_REQ"}, serno : Sernos, data : apdus]
T_DATA_CONNECTED_REQ_init(c) ==
  IF Len(c) < 1 THEN T_UNKNOWN_init(c)
  ELSE [cls |-> "T_DATA_CONNECTED_REQ", data |-> c, serno |-> (c[1] \div 4) % 16]

\* mutant: the number is shifted by one bit only
T_DATA_CONNECTED_REQ_ToPacket_Shift(t) ==
  [t.data EXCEPT ![1] = \h40 + 2 * (t.serno % 16) + (@ % 2)]

T_DATA_CONNECTED_REQ_ToPacket(t) ==
  [t.data EXCEPT ![1] = (@ % 4) + \h40 + 4 * (t.serno % 16)]

T_CONNECT_REQ_PDU == [cls : {"T_CONNECT_REQ"}]
T_CONNECT_REQ_init(c) ==
  IF Len(c) # 1 THEN T_UNKNOWN_init(c) ELSE [cls |-> "T_CONNECT_REQ"]
T_CONNECT_REQ_ToPacket(t) == <<\h80>>

T_DISCONNECT_REQ_PDU == [cls : {"T_DISCONNECT_REQ"}]
T_DISCONNECT_REQ_init(c) ==
  IF Len(c) # 1 THEN T_UNKNOWN_init(c) ELSE [cls |-> "T_DISCONNECT_REQ"]
T_DISCONNECT_REQ_ToPacket(t) == <<\h81>>

T_ACK_PDU == [cls : {"T_ACK"}, serno : Sernos]
T_ACK_init(c) ==
  IF Len(c) # 1 THEN T_UNKNOWN_init(c)
  ELSE [cls |-> "T_ACK", serno |-> (c[1] \div 4) % 16]
T_ACK_ToPacket(t) == <<\hC2 + 4 * (t.serno % 16)>>

T_NACK_PDU == [cls : {"T_NACK"}, serno : Sernos]
T_NACK_init(c) ==
  IF Len(c) # 1 THEN T_UNKNOWN_init(c)
  ELSE [cls |-> "T_NACK", serno |-> (c[1] \div 4) % 16]
T_NACK_ToPacket(t) == <<\hC3 + 4 * (t.serno % 16)>>
-----------------------------------------------------------------------------
TPDU_fromPacket(c) ==
  IF Len(c) < 1 THEN T_UNKNOWN_init(c) ELSE
  LET high == c[1] \div 64
      low  == c[1] % 4
  IN
  CASE c[1] \div 4 = 0 -> T_DATA_XXX_REQ_init(c)
    [] c[1] = \h80 -> T_CONNECT_REQ_init(c)
    [] c[1] = \h81 -> T_DISCONNECT_REQ_init(c)
    [] high = 3 /\ low = 2 -> T_ACK_init(c)
    [] high = 3 /\ low = 3 -> T_NACK_init(c)
    [] high = 1 -> T_DATA_CONNECTED_REQ_init(c)
    [] OTHER -> T_UNKNOWN_init(c)

\* The virtual method ToPacket.
TPDU_ToPacket(t) ==
  CASE t.cls = "T_UNKNOWN" -> T_UNKNOWN_ToPacket(t)
    [] t.cls = "T_DATA_XXX_REQ" -> T_DATA_XXX_REQ_ToPacket(t)
    [] t.cls = "T_DATA_CONNECTED_REQ" -> T_DATA_CONNECTED_REQ_ToPacket(t)
    [] t.cls = "T_CONNECT_REQ" -> T_CONNECT_REQ_ToPacket(t)
    [] t.cls = "T_DISCONNECT_REQ" -> T_DISCONNECT_REQ_ToPacket(t)
    [] t.cls = "T_ACK" -> T_ACK_ToPacket(t)
    [] t.cls = "T_NACK" -> T_NACK_ToPacket(t)
=============================================================================
