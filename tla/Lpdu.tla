-------------------------------- MODULE Lpdu --------------------------------
(***************************************************************************)
(* The link layer's frames and the four ways a backend writes an L_Data    *)
(* frame on its medium: the TP1 telegram (libserver/lpdu.cpp), cEMI and    *)
(* EMI (libserver/emi.cpp), plus bus monitor frames in cEMI.  Encoders and *)
(* decoders are translated separately, the way they number the priorities  *)
(* included.                                                               *)
(***************************************************************************)
EXTENDS CArray, FiniteSets, SequencesExt

CONSTANT Addr      \* eibaddr_t values

ASSUME AddrAssumption == Addr \subseteq 0 .. 65535

Prio == {"PRIO_LOW", "PRIO_NORMAL", "PRIO_URGENT", "PRIO_SYSTEM"}
AddrType == {"GroupAddress", "IndividualAddress"}

\* payload: byte arrays of 1 .. 254 bytes, the lengths every encoder accepts.
L_Data_PDU(payload) ==
  [cls : {"L_Data"}, prio : Prio, repeated : BOOLEAN, valid_checksum : {TRUE},
   valid_length : {TRUE}, AddrType : AddrType, source : Addr, dest : Addr,
   hopcount : 0 .. 7, data : payload]

\* The constructor's values.
L_Data_new ==
  [cls |-> "L_Data", prio |-> "PRIO_LOW", repeated |-> FALSE, valid_checksum |-> TRUE,
   valid_length |-> TRUE, AddrType |-> "IndividualAddress", source |-> 0, dest |-> 0,
   hopcount |-> 6, data |-> <<>>]

L_Unknown_init(c) == [cls |-> "L_Unknown", pdu |-> c]
L_Unknown_ToPacket(l) == l.pdu
L_NACK_init(c) == IF Len(c) # 1 THEN L_Unknown_init(c) ELSE [cls |-> "L_NACK"]
L_NACK_ToPacket(l) == <<\h0C>>
L_ACK_init(c) == IF Len(c) # 1 THEN L_Unknown_init(c) ELSE [cls |-> "L_ACK"]
L_ACK_ToPacket(l) == <<\hCC>>
L_BUSY_init(c) == IF Len(c) # 1 THEN L_Unknown_init(c) ELSE [cls |-> "L_BUSY"]
L_BUSY_ToPacket(l) == <<\hC0>>

\* The switches over the two priority bits: one in the decoders, one in the
\* encoders.
PrioOf(bits) ==
  CASE bits = 0 -> "PRIO_SYSTEM" [] bits = 1 -> "PRIO_URGENT"
    [] bits = 2 -> "PRIO_NORMAL" [] bits = 3 -> "PRIO_LOW"
PrioBits(prio) ==
  CASE prio = "PRIO_LOW" -> 3 [] prio = "PRIO_NORMAL" -> 1
    [] prio = "PRIO_URGENT" -> 2 [] prio = "PRIO_SYSTEM" -> 0

TypeOf(flags) == IF Bit(flags, 128) THEN "GroupAddress" ELSE "IndividualAddress"
TypeBit(l) == Flag(l.AddrType = "GroupAddress", 128)

\* ~ of the exclusive or of all bytes: a bit of it is set when an even number of
\* bytes have it.
Checksum(c) ==
  LET even(m) == Flag(Cardinality({i \in DOMAIN c : Bit(c[i], m)}) % 2 = 0, m)
  IN  even(1) + even(2) + even(4) + even(8) + even(16) + even(32) + even(64) + even(128)

\* (c[0] & 0x53) == 0x10
IsData(b) == ~Bit(b, 64) /\ Bit(b, 16) /\ b % 4 = 0

\* A standard frame has its length in the low bits of byte 5.  An extended one
\* has a byte for it; one cut off at 23 bytes is kept as a partial frame.
L_Data_init(c) ==
  LET n     == Len(c)
      base  == [L_Data_new EXCEPT !.repeated = ~Bit(c[1], 32),
                                  !.prio = PrioOf((c[1] \div 4) % 4),
                                  !.valid_checksum = (c[n] = Checksum(Front(c)))]
      std   == [base EXCEPT !.source = U16(c, 2), !.dest = U16(c, 4),
                            !.hopcount = (c[6] \div 16) % 8, !.AddrType = TypeOf(c[6]),
                            !.data = SubSeq(c, 7, 7 + (c[6] % 16))]
      whole == n = c[7] + 9
      ext   == [base EXCEPT !.source = U16(c, 3), !.dest = U16(c, 5),
                            !.hopcount = (c[2] \div 16) % 8, !.AddrType = TypeOf(c[2]),
                            !.valid_length = whole,
                            !.data = SubSeq(c, 8, IF whole THEN c[7] + 8 ELSE 15)]
  IN
  IF n < 6 \/ ~IsData(c[1]) THEN L_Unknown_init(c)
  ELSE IF Bit(c[1], 128)
       THEN IF n # (c[6] % 16) + 8 THEN L_Unknown_init(c) ELSE std
       ELSE IF c[2] % 16 # 0 \/ n < 7 THEN L_Unknown_init(c)
            ELSE IF ~whole /\ n # 23 THEN L_Unknown_init(c) ELSE ext

\* mutant: seventeen bytes in a standard frame
L_Data_ToPacket_17(l) ==
  LET size == Len(l.data)
      ctrl == 4 * PrioBits(l.prio) + Flag(~l.repeated, 32)
      hops == 16 * (l.hopcount % 8) + TypeBit(l)
      pdu  == IF size <= 17
              THEN <<\h90 + ctrl>> \o B16(l.source) \o B16(l.dest)
                     \o <<hops + size - 1>> \o l.data
              ELSE <<\h10 + ctrl, hops>> \o B16(l.source) \o B16(l.dest)
                     \o <<size - 1>> \o l.data
  IN  Append(pdu, Checksum(pdu))

L_Data_ToPacket(l) ==
  LET size == Len(l.data)
      ctrl == 4 * PrioBits(l.prio) + Flag(~l.repeated, 32)
      hops == 16 * (l.hopcount % 8) + TypeBit(l)
      pdu  == IF size <= 16
              THEN <<\h90 + ctrl>> \o B16(l.source) \o B16(l.dest)
                     \o <<hops + size - 1>> \o l.data
              ELSE <<\h10 + ctrl, hops>> \o B16(l.source) \o B16(l.dest)
                     \o <<size - 1>> \o l.data
  IN  Append(pdu, Checksum(pdu))

LPDU_fromPacket(c) ==
  IF Len(c) < 1 THEN L_Unknown_init(c) ELSE
  CASE c[1] = \hCC -> L_ACK_init(c)
    [] c[1] = \hC0 -> L_BUSY_init(c)
    [] c[1] = \h0C -> L_NACK_init(c)
    [] IsData(c[1]) -> L_Data_init(c)
    [] OTHER -> L_Unknown_init(c)

LPDU_ToPacket(l) ==
  CASE l.cls = "L_Unknown" -> L_Unknown_ToPacket(l)
    [] l.cls = "L_NACK" -> L_NACK_ToPacket(l)
    [] l.cls = "L_ACK" -> L_ACK_ToPacket(l)
    [] l.cls = "L_BUSY" -> L_BUSY_ToPacket(l)
    [] l.cls = "L_Data" -> L_Data_ToPacket(l)
-----------------------------------------------------------------------------
nullptr == [cls |-> "nullptr"]

L_Data_ToCEMI(code, l) ==
  LET size == Len(l.data)
      ctrl == \h10 + 4 * PrioBits(l.prio) + Flag(size <= 16, 128)
              + Flag(code # \h29 \/ ~l.repeated, 32)
  IN  <<code, 0, ctrl, TypeBit(l) + 16 * (l.hopcount % 8)>>
        \o B16(l.source) \o B16(l.dest) \o <<size - 1>> \o l.data

\* start skips the additional information.
CEMI_to_L_Data(c) ==
  IF Len(c) < 2 THEN nullptr ELSE
  LET start == c[2] + 2
  IN
  IF Len(c) < 7 + start \/ Len(c) < 8 + start + c[7 + start] THEN nullptr
  ELSE IF ~Bit(c[start + 1], 128) /\ c[start + 2] % 16 # 0 THEN nullptr
  ELSE [L_Data_new EXCEPT
          !.source = U16(c, start + 3), !.dest = U16(c, start + 5),
          !.data = SubSeq(c, start + 8, start + 8 + c[start + 7]),
          !.repeated = c[1] = \h29 /\ ~Bit(c[start + 1], 32),
          !.prio = PrioOf((c[start + 1] \div 4) % 4),
          !.hopcount = (c[start + 2] \div 16) % 8,
          !.AddrType = TypeOf(c[start + 2])]

\* No source address, and four bits of length.
L_Data_ToEMI(code, l) ==
  <<code, 4 * PrioBits(l.prio), 0, 0>> \o B16(l.dest)
    \o <<16 * (l.hopcount % 8) + ((Len(l.data) - 1) % 16) + TypeBit(l)>> \o l.data

EMI_to_L_Data(c) ==
  IF Len(c) < 8 THEN nullptr ELSE
  LET len == (c[7] % 16) + 1
  IN  [L_Data_new EXCEPT
         !.source = U16(c, 3), !.dest = U16(c, 5),
         !.prio = PrioOf((c[2] \div 4) % 4), !.AddrType = TypeOf(c[7]),
         !.data = SubSeq(c, 8, IF len > Len(c) - 7 THEN Len(c) ELSE 7 + len),
         !.hopcount = (c[7] \div 16) % 8]

\* The monitored telegram behind seven bytes of additional information: status
\* and the low half of the timestamp.
Busmonitor_to_CEMI(code, p, no) ==
  <<code, 7, 3, 1, no % 8, 4, 2>> \o B16(p.timestamp) \o p.pdu

CEMI_to_Busmonitor(c) ==
  IF Len(c) < 2 THEN nullptr
  ELSE IF Len(c) < c[2] + 3 THEN nullptr
  ELSE [cls |-> "L_Busmonitor", pdu |-> From(c, c[2] + 3)]
=============================================================================
