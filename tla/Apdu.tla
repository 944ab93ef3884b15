-------------------------------- MODULE Apdu --------------------------------
(***************************************************************************)
(* The application layer's data units: libserver/apdu.cpp and apdu.h.      *)
(*                                                                         *)
(* Every class is a set of records (its members, with cls naming the       *)
(* class), its init a map from byte arrays to records and its ToPacket a   *)
(* map back.  init and ToPacket are translated separately, each from its   *)
(* own function: whether they are inverse to each other is a question, not *)
(* a definition.  An init that returns false is the A_Unknown unit that    *)
(* fromPacket then builds.  A 32 bit key is a pair of 16 bit halves.       *)
(*                                                                         *)
(* The constants are the values the members range over.  What a class      *)
(* asserts in ToPacket (a count below 16, as many data bytes as count) is  *)
(* part of its set.                                                        *)
(***************************************************************************)
EXTENDS CArray

CONSTANTS
  Octet,     \* uchar members
  Word,      \* uint16_t members
  Data       \* CArray members, short enough for a count of four bits

ASSUME OctetAssumption == Octet \subseteq Byte
ASSUME WordAssumption  == Word \subseteq 0 .. 65535
ASSUME DataAssumption  == Data \subseteq Seq(Byte) /\ \A d \in Data : Len(d) < 16

Nibble == {b % 16 : b \in Octet}
Six    == {b % 64 : b \in Octet}
Start  == {w % 4096 : w \in Word}
Serno  == {<<a, 0, b, 1, a, b>> : a \in Octet, b \in Octet}
Key    == Word \X Word

\* A_Unknown: whatever no class accepts, kept as it came.
A_Unknown_init(c) == [cls |-> "A_Unknown", pdu |-> c]
A_Unknown_ToPacket(a) == a.pdu
-----------------------------------------------------------------------------
A_GroupValue_Read_PDU == [cls : {"A_GroupValue_Read"}]
A_GroupValue_Read_init(c) ==
  IF Len(c) # 2 THEN A_Unknown_init(c) ELSE [cls |-> "A_GroupValue_Read"]
A_GroupValue_Read_ToPacket(a) == <<0, 0>>

A_GroupValue_Response_PDU ==
       [cls : {"A_GroupValue_Response"}, issmall : {TRUE}, data : {<<b>> : b \in Six}]
  \cup [cls : {"A_GroupValue_Response"}, issmall : {FALSE}, data : Data]
A_GroupValue_Response_init(c) ==
  IF Len(c) < 2 THEN A_Unknown_init(c)
  ELSE [cls     |-> "A_GroupValue_Response",
        issmall |-> Len(c) = 2,
        data    |-> IF Len(c) = 2 THEN <<c[2] % 64>> ELSE From(c, 3)]
A_GroupValue_Response_ToPacket(a) ==
  IF a.issmall THEN <<0, \h40 + (a.data[1] % 64)>> ELSE <<0, \h40>> \o a.data

A_GroupValue_Write_PDU ==
       [cls : {"A_GroupValue_Write"}, issmall : {TRUE}, data : {<<b>> : b \in Six}]
  \cup [cls : {"A_GroupValue_Write"}, issmall : {FALSE}, data : Data]
A_GroupValue_Write_init(c) ==
  IF Len(c) < 2 THEN A_Unknown_init(c)
  ELSE [cls     |-> "A_GroupValue_Write",
        issmall |-> Len(c) = 2,
        data    |-> IF Len(c) = 2 THEN <<c[2] % 64>> ELSE From(c, 3)]
A_GroupValue_Write_ToPacket(a) ==
  IF a.issmall THEN <<0, \h80 + (a.data[1] % 64)>> ELSE <<0, \h80>> \o a.data

A_IndividualAddress_Write_PDU == [cls : {"A_IndividualAddress_Write"}, addr : Word]
A_IndividualAddress_Write_init(c) ==
  IF Len(c) # 4 THEN A_Unknown_init(c)
  ELSE [cls |-> "A_IndividualAddress_Write", addr |-> U16(c, 3)]
A_IndividualAddress_Write_ToPacket(a) == <<0, \hC0>> \o B16(a.addr)

A_IndividualAddress_Read_PDU == [cls : {"A_IndividualAddress_Read"}]
A_IndividualAddress_Read_init(c) ==
  IF Len(c) # 2 THEN A_Unknown_init(c) ELSE [cls |-> "A_IndividualAddress_Read"]
A_IndividualAddress_Read_ToPacket(a) == <<1, 0>>

A_IndividualAddress_Response_PDU == [cls : {"A_IndividualAddress_Response"}]
A_IndividualAddress_Response_init(c) ==
  IF Len(c) # 2 THEN A_Unknown_init(c) ELSE [cls |-> "A_IndividualAddress_Response"]
A_IndividualAddress_Response_ToPacket(a) == <<1, \h40>>

A_IndividualAddressSerialNumber_Read_PDU ==
  [cls : {"A_IndividualAddressSerialNumber_Read"}, serno : Serno]
A_IndividualAddressSerialNumber_Read_init(c) ==
  IF Len(c) # 8 THEN A_Unknown_init(c)
  ELSE [cls |-> "A_IndividualAddressSerialNumber_Read", serno |-> SubSeq(c, 3, 8)]
A_IndividualAddressSerialNumber_Read_ToPacket(a) == <<3, \hDC>> \o a.serno

A_IndividualAddressSerialNumber_Response_PDU ==
  [cls : {"A_IndividualAddressSerialNumber_Response"}, serno : Serno, addr : Word]
A_IndividualAddressSerialNumber_Response_init(c) ==
  IF Len(c) # 12 THEN A_Unknown_init(c)
  ELSE [cls   |-> "A_IndividualAddressSerialNumber_Response",
        serno |-> SubSeq(c, 3, 8), addr |-> U16(c, 9)]
A_IndividualAddressSerialNumber_Response_ToPacket(a) ==
  <<3, \hDD>> \o a.serno \o B16(a.addr) \o <<0, 0>>

A_IndividualAddressSerialNumber_Write_PDU ==
  [cls : {"A_IndividualAddressSerialNumber_Write"}, serno : Serno, addr : Word]
A_IndividualAddressSerialNumber_Write_init(c) ==
  IF Len(c) # 14 THEN A_Unknown_init(c)
  ELSE [cls   |-> "A_IndividualAddressSerialNumber_Write",
        serno |-> SubSeq(c, 3, 8), addr |-> U16(c, 9)]
A_IndividualAddressSerialNumber_Write_ToPacket(a) ==
  <<3, \hDD>> \o a.serno \o B16(a.addr) \o <<0, 0, 0, 0>>

A_ServiceInformation_Indication_Write_PDU ==
  [cls : {"A_ServiceInformation_Indication_Write"}, verify_mode : BOOLEAN,
   duplicate_address : BOOLEAN, appl_stopped : BOOLEAN]
A_ServiceInformation_Indication_Write_init(c) ==
  IF Len(c) # 5 THEN A_Unknown_init(c)
  ELSE [cls               |-> "A_ServiceInformation_Indication_Write",
        verify_mode       |-> Bit(c[3], 4),
        duplicate_address |-> Bit(c[4], 2),
        appl_stopped      |-> Bit(c[3], 1)]
A_ServiceInformation_Indication_Write_ToPacket(a) ==
  <<3, \hDF, Flag(a.verify_mode, 4) + Flag(a.duplicate_address, 2)
              + Flag(a.appl_stopped, 1), 0, 0>>

A_DomainAddress_Write_PDU == [cls : {"A_DomainAddress_Write"}, addr : Word]
A_DomainAddress_Write_init(c) ==
  IF Len(c) # 4 THEN A_Unknown_init(c)
  ELSE [cls |-> "A_DomainAddress_Write", addr |-> U16(c, 3)]
A_DomainAddress_Write_ToPacket(a) == <<3, \hE0>> \o B16(a.addr)

A_DomainAddress_Read_PDU == [cls : {"A_DomainAddress_Read"}]
A_DomainAddress_Read_init(c) ==
  IF Len(c) # 2 THEN A_Unknown_init(c) ELSE [cls |-> "A_DomainAddress_Read"]
A_DomainAddress_Read_ToPacket(a) == <<3, \hE1>>

A_DomainAddress_Response_PDU == [cls : {"A_DomainAddress_Response"}, addr : Word]
A_DomainAddress_Response_init(c) ==
  IF Len(c) # 4 THEN A_Unknown_init(c)
  ELSE [cls |-> "A_DomainAddress_Response", addr |-> U16(c, 3)]
A_DomainAddress_Response_ToPacket(a) == <<3, \hE2>> \o B16(a.addr)

\* ToPacket stores addr over domainaddr; bytes 4 and 5 keep resize's zeros.
A_DomainAddressSelective_Read_PDU ==
  [cls : {"A_DomainAddressSelective_Read"}, domainaddr : Word, addr : Word, range : Octet]
A_DomainAddressSelective_Read_init(c) ==
  IF Len(c) # 7 THEN A_Unknown_init(c)
  ELSE [cls |-> "A_DomainAddressSelective_Read", domainaddr |-> U16(c, 3),
        addr |-> U16(c, 5), range |-> c[7]]
A_DomainAddressSelective_Read_ToPacket(a) ==
  <<3, \hE2>> \o B16(a.addr) \o <<0, 0, a.range>>
-----------------------------------------------------------------------------
\* Bytes 4 and 5 of the property services: four bits of count, twelve of start.
CountStart(a) == <<16 * (a.count % 16) + ((a.start \div 256) % 16), a.start % 256>>

A_PropertyValue_Read_PDU ==
  [cls : {"A_PropertyValue_Read"}, obj : Octet, prop : Octet, count : Nibble, start : Start]
A_PropertyValue_Read_init(c) ==
  IF Len(c) # 6 THEN A_Unknown_init(c)
  ELSE [cls |-> "A_PropertyValue_Read", obj |-> c[3], prop |-> c[4],
        count |-> c[5] \div 16, start |-> 256 * (c[5] % 16) + c[6]]
A_PropertyValue_Read_ToPacket(a) == <<3, \hD5, a.obj, a.prop>> \o CountStart(a)

A_PropertyValue_Response_PDU ==
  [cls : {"A_PropertyValue_Response"}, obj : Octet, prop : Octet, count : Nibble,
   start : Start, data : Data]
A_PropertyValue_Response_init(c) ==
  IF Len(c) < 6 THEN A_Unknown_init(c)
  ELSE [cls |-> "A_PropertyValue_Response", obj |-> c[3], prop |-> c[4],
        count |-> c[5] \div 16, start |-> 256 * (c[5] % 16) + c[6],
        data |-> From(c, 7)]
A_PropertyValue_Response_ToPacket(a) ==
  <<3, \hD6, a.obj, a.prop>> \o CountStart(a) \o a.data

A_PropertyValue_Write_PDU ==
  [cls : {"A_PropertyValue_Write"}, obj : Octet, prop : Octet, count : Nibble,
   start : Start, data : Data]
A_PropertyValue_Write_init(c) ==
  IF Len(c) < 6 THEN A_Unknown_init(c)
  ELSE [cls |-> "A_PropertyValue_Write", obj |-> c[3], prop |-> c[4],
        count |-> c[5] \div 16, start |-> 256 * (c[5] % 16) + c[6],
        data |-> From(c, 7)]
A_PropertyValue_Write_ToPacket(a) ==
  <<3, \hD7, a.obj, a.prop>> \o CountStart(a) \o a.data

A_PropertyDescription_Read_PDU ==
  [cls : {"A_PropertyDescription_Read"}, obj : Octet, prop : Octet, property_index : Octet]
A_PropertyDescription_Read_init(c) ==
  IF Len(c) # 5 THEN A_Unknown_init(c)
  ELSE [cls |-> "A_PropertyDescription_Read", obj |-> c[3], prop |-> c[4],
        property_index |-> c[5]]
A_PropertyDescription_Read_ToPacket(a) ==
  <<3, \hD8, a.obj, a.prop, a.property_index>>

A_PropertyDescription_Response_PDU ==
  [cls : {"A_PropertyDescription_Response"}, obj : Octet, prop : Octet,
   property_index : Octet, type : Octet, count : Word, access : Octet]
A_PropertyDescription_Response_init(c) ==
  IF Len(c) # 9 THEN A_Unknown_init(c)
  ELSE [cls |-> "A_PropertyDescription_Response", obj |-> c[3], prop |-> c[4],
        property_index |-> c[5], type |-> c[6], count |-> U16(c, 7), access |-> c[9]]
A_PropertyDescription_Response_ToPacket(a) ==
  <<3, \hD9, a.obj, a.prop, a.property_index, a.type>> \o B16(a.count) \o <<a.access>>

A_DeviceDescriptor_Read_PDU == [cls : {"A_DeviceDescriptor_Read"}, type : Six]
A_DeviceDescriptor_Read_init(c) ==
  IF Len(c) # 2 THEN A_Unknown_init(c)
  ELSE [cls |-> "A_DeviceDescriptor_Read", type |-> c[2] % 64]
A_DeviceDescriptor_Read_ToPacket(a) == <<3, a.type % 64>>

\* ToPacket sets bit 0 where the service code would be 0x40.
A_DeviceDescriptor_Response_PDU ==
  [cls : {"A_DeviceDescriptor_Response"}, type : Six, descriptor : Word]
A_DeviceDescriptor_Response_init(c) ==
  IF Len(c) # 4 THEN A_Unknown_init(c)
  ELSE [cls |-> "A_DeviceDescriptor_Response", type |-> c[2] % 64,
        descriptor |-> U16(c, 3)]
A_DeviceDescriptor_Response_ToPacket(a) ==
  <<3, 2 * ((a.type % 64) \div 2) + 1>> \o B16(a.descriptor)
-----------------------------------------------------------------------------
A_ADC_Read_PDU == [cls : {"A_ADC_Read"}, channel : Six, count : Octet]
A_ADC_Read_init(c) ==
  IF Len(c) # 3 THEN A_Unknown_init(c)
  ELSE [cls |-> "A_ADC_Read", channel |-> c[2] % 64, count |-> c[3]]
A_ADC_Read_ToPacket(a) == <<1, \h80 + (a.channel % 64), a.count>>

A_ADC_Response_PDU ==
  [cls : {"A_ADC_Response"}, channel : Six, count : Octet, val : {S16(w) : w \in Word}]
A_ADC_Response_init(c) ==
  IF Len(c) # 5 THEN A_Unknown_init(c)
  ELSE [cls |-> "A_ADC_Response", channel |-> c[2] % 64, count |-> c[3],
        val |-> S16(U16(c, 4))]
A_ADC_Response_ToPacket(a) == <<1, \hC0 + (a.channel % 64), a.count>> \o B16(a.val)

A_Memory_Read_PDU == [cls : {"A_Memory_Read"}, count : Nibble, addr : Word]
A_Memory_Read_init(c) ==
  IF Len(c) # 4 THEN A_Unknown_init(c)
  ELSE [cls |-> "A_Memory_Read", count |-> c[2] % 16, addr |-> U16(c, 3)]
A_Memory_Read_ToPacket(a) == <<2, a.count % 16>> \o B16(a.addr)

A_Memory_Response_PDU ==
  {[cls |-> "A_Memory_Response", count |-> Len(d), addr |-> w, data |-> d] :
     d \in Data, w \in Word}
A_Memory_Response_init(c) ==
  IF Len(c) < 4 \/ Len(c) - 4 # c[2] % 16 THEN A_Unknown_init(c)
  ELSE [cls |-> "A_Memory_Response", count |-> c[2] % 16, addr |-> U16(c, 3),
        data |-> From(c, 5)]
A_Memory_Response_ToPacket(a) == <<2, \h40 + (a.count % 16)>> \o B16(a.addr) \o a.data

A_Memory_Write_PDU ==
  {[cls |-> "A_Memory_Write", count |-> Len(d), addr |-> w, data |-> d] :
     d \in Data, w \in Word}
A_Memory_Write_init(c) ==
  IF Len(c) < 4 \/ Len(c) - 4 # c[2] % 16 THEN A_Unknown_init(c)
  ELSE [cls |-> "A_Memory_Write", count |-> c[2] % 16, addr |-> U16(c, 3),
        data |-> From(c, 5)]
A_Memory_Write_ToPacket(a) == <<2, \h80 + (a.count % 16)>> \o B16(a.addr) \o a.data

\* Pairs of masks of one length.
Masks == {m \in Data \X Data : Len(m[1]) = Len(m[2])}

A_MemoryBit_Write_PDU ==
  {[cls |-> "A_MemoryBit_Write", count |-> Len(m[1]), addr |-> w, andmask |-> m[1],
    xormask |-> m[2]] : m \in Masks, w \in Word}
A_MemoryBit_Write_init(c) ==
  IF Len(c) < 5 \/ Len(c) - 5 # 2 * c[3] THEN A_Unknown_init(c)
  ELSE [cls |-> "A_MemoryBit_Write", count |-> c[3], addr |-> U16(c, 4),
        andmask |-> SubSeq(c, 6, 5 + c[3]), xormask |-> From(c, 6 + c[3])]
A_MemoryBit_Write_ToPacket(a) ==
  <<3, \hD0, a.count>> \o B16(a.addr) \o a.andmask \o a.xormask
-----------------------------------------------------------------------------
A_UserMemory_Read_PDU ==
  [cls : {"A_UserMemory_Read"}, addr_extension : Nibble, count : Nibble, addr : Word]
A_UserMemory_Read_init(c) ==
  IF Len(c) # 5 THEN A_Unknown_init(c)
  ELSE [cls |-> "A_UserMemory_Read", addr_extension |-> c[3] \div 16,
        count |-> c[3] % 16, addr |-> U16(c, 4)]
A_UserMemory_Read_ToPacket(a) ==
  <<2, \hC0, 16 * (a.addr_extension % 16) + (a.count % 16)>> \o B16(a.addr)

A_UserMemory_Response_PDU ==
  {[cls |-> "A_UserMemory_Response", addr_extension |-> e, count |-> Len(d),
    addr |-> w, data |-> d] : e \in Nibble, d \in Data, w \in Word}
A_UserMemory_Response_init(c) ==
  IF Len(c) < 5 \/ Len(c) - 5 # c[3] % 16 THEN A_Unknown_init(c)
  ELSE [cls |-> "A_UserMemory_Response", addr_extension |-> c[3] \div 16,
        count |-> c[3] % 16, addr |-> U16(c, 4), data |-> From(c, 6)]
A_UserMemory_Response_ToPacket(a) ==
  <<2, \hC1, 16 * (a.addr_extension % 16) + (a.count % 16)>> \o B16(a.addr) \o a.data

A_UserMemory_Write_PDU ==
  {[cls |-> "A_UserMemory_Write", addr_extension |-> e, count |-> Len(d),
    addr |-> w, data |-> d] : e \in Nibble, d \in Data, w \in Word}
A_UserMemory_Write_init(c) ==
  IF Len(c) < 5 \/ Len(c) - 5 # c[3] % 16 THEN A_Unknown_init(c)
  ELSE [cls |-> "A_UserMemory_Write", addr_extension |-> c[3] \div 16,
        count |-> c[3] % 16, addr |-> U16(c, 4), data |-> From(c, 6)]
A_UserMemory_Write_ToPacket(a) ==
  <<2, \hC2, 16 * (a.addr_extension % 16) + (a.count % 16)>> \o B16(a.addr) \o a.data

\* addr_extension is a member that neither init nor ToPacket touches.
A_UserMemoryBit_Write_PDU ==
  {[cls |-> "A_UserMemoryBit_Write", addr_extension |-> 0, count |-> Len(m[1]),
    addr |-> w, andmask |-> m[1], xormask |-> m[2]] : m \in Masks, w \in Word}
A_UserMemoryBit_Write_init(c) ==
  IF Len(c) < 5 \/ Len(c) - 5 # 2 * c[3] THEN A_Unknown_init(c)
  ELSE [cls |-> "A_UserMemoryBit_Write", addr_extension |-> 0, count |-> c[3],
        addr |-> U16(c, 4), andmask |-> SubSeq(c, 6, 5 + c[3]),
        xormask |-> From(c, 6 + c[3])]
A_UserMemoryBit_Write_ToPacket(a) ==
  <<2, \hC4, a.count>> \o B16(a.addr) \o a.andmask \o a.xormask

A_UserManufacturerInfo_Read_PDU == [cls : {"A_UserManufacturerInfo_Read"}]
A_UserManufacturerInfo_Read_init(c) ==
  IF Len(c) # 2 THEN A_Unknown_init(c) ELSE [cls |-> "A_UserManufacturerInfo_Read"]
A_UserManufacturerInfo_Read_ToPacket(a) == <<2, \hC5>>

A_UserManufacturerInfo_Response_PDU ==
  [cls : {"A_UserManufacturerInfo_Response"}, manufacturerid : Octet, data : Word]
A_UserManufacturerInfo_Response_init(c) ==
  IF Len(c) # 5 THEN A_Unknown_init(c)
  ELSE [cls |-> "A_UserManufacturerInfo_Response", manufacturerid |-> c[3],
        data |-> U16(c, 4)]
A_UserManufacturerInfo_Response_ToPacket(a) ==
  <<2, \hC6, a.manufacturerid>> \o B16(a.data)

A_Restart_PDU == [cls : {"A_Restart"}]
A_Restart_init(c) == IF Len(c) # 2 THEN A_Unknown_init(c) ELSE [cls |-> "A_Restart"]
A_Restart_ToPacket(a) == <<3, \h80>>

A_Authorize_Request_PDU == [cls : {"A_Authorize_Request"}, key : Key]
A_Authorize_Request_init(c) ==
  IF Len(c) # 7 THEN A_Unknown_init(c)
  ELSE [cls |-> "A_Authorize_Request", key |-> <<U16(c, 4), U16(c, 6)>>]
A_Authorize_Request_ToPacket(a) ==
  <<3, \hD1, 0>> \o B16(a.key[1]) \o B16(a.key[2])

A_Authorize_Response_PDU == [cls : {"A_Authorize_Response"}, level : Octet]
A_Authorize_Response_init(c) ==
  IF Len(c) # 3 THEN A_Unknown_init(c)
  ELSE [cls |-> "A_Authorize_Response", level |-> c[3]]
A_Authorize_Response_ToPacket(a) == <<3, \hD2, a.level>>

A_Key_Write_PDU == [cls : {"A_Key_Write"}, level : Octet, key : Key]
A_Key_Write_init(c) ==
  IF Len(c) # 7 THEN A_Unknown_init(c)
  ELSE [cls |-> "A_Key_Write", level |-> c[3], key |-> <<U16(c, 4), U16(c, 6)>>]
A_Key_Write_ToPacket(a) == <<3, \hD3, a.level>> \o B16(a.key[1]) \o B16(a.key[2])

A_Key_Response_PDU == [cls : {"A_Key_Response"}, level : Octet]
A_Key_Response_init(c) ==
  IF Len(c) # 3 THEN A_Unknown_init(c)
  ELSE [cls |-> "A_Key_Response", level |-> c[3]]
A_Key_Response_ToPacket(a) == <<3, \hD4, a.level>>
-----------------------------------------------------------------------------
\* The class that the two low bits of byte 0 and byte 1 select.
APDU_fromPacket(c) ==
  IF Len(c) < 2 THEN A_Unknown_init(c) ELSE
  LET group == c[1] % 4
      code  == IF c[2] < \hC0 \/ group < 2 THEN 64 * (c[2] \div 64) ELSE c[2]
      is(g, s) == group = g /\ code = s
  IN
  CASE is(0, \h00) -> A_GroupValue_Read_init(c)
    [] is(0, \h40) -> A_GroupValue_Response_init(c)
    [] is(0, \h80) -> A_GroupValue_Write_init(c)
    [] is(0, \hC0) -> A_IndividualAddress_Write_init(c)
    [] is(1, \h00) -> A_IndividualAddress_Read_init(c)
    [] is(1, \h40) -> A_IndividualAddress_Response_init(c)
    [] is(1, \h80) -> A_ADC_Read_init(c)
    [] is(1, \hC0) -> A_ADC_Response_init(c)
    [] is(2, \h00) -> A_Memory_Read_init(c)
    [] is(2, \h40) -> A_Memory_Response_init(c)
    [] is(2, \h80) -> A_Memory_Write_init(c)
    [] is(2, \hC0) -> A_UserMemory_Read_init(c)
    [] is(2, \hC1) -> A_UserMemory_Response_init(c)
    [] is(2, \hC2) -> A_UserMemory_Write_init(c)
    [] is(2, \hC4) -> A_UserMemoryBit_Write_init(c)
    [] is(2, \hC5) -> A_UserManufacturerInfo_Read_init(c)
    [] is(2, \hC6) -> A_UserManufacturerInfo_Response_init(c)
    [] is(3, \h00) -> A_DeviceDescriptor_Read_init(c)
    [] is(3, \h40) -> A_DeviceDescriptor_Response_init(c)
    [] is(3, \h80) -> A_Restart_init(c)
    [] is(3, \hD0) -> A_MemoryBit_Write_init(c)
    [] is(3, \hD1) -> A_Authorize_Request_init(c)
    [] is(3, \hD2) -> A_Authorize_Response_init(c)
    [] is(3, \hD3) -> A_Key_Write_init(c)
    [] is(3, \hD4) -> A_Key_Response_init(c)
    [] is(3, \hD5) -> A_PropertyValue_Read_init(c)
    [] is(3, \hD6) -> A_PropertyValue_Response_init(c)
    [] is(3, \hD7) -> A_PropertyValue_Write_init(c)
    [] is(3, \hD8) -> A_PropertyDescription_Read_init(c)
    [] is(3, \hD9) -> A_PropertyDescription_Response_init(c)
    [] is(3, \hDC) -> A_IndividualAddressSerialNumber_Read_init(c)
    [] is(3, \hDD) -> A_IndividualAddressSerialNumber_Response_init(c)
    [] is(3, \hDE) -> A_IndividualAddressSerialNumber_Write_init(c)
    [] is(3, \hDF) -> A_ServiceInformation_Indication_Write_init(c)
    [] is(3, \hE0) -> A_DomainAddress_Write_init(c)
    [] is(3, \hE1) -> A_DomainAddress_Read_init(c)
    [] is(3, \hE2) -> A_DomainAddress_Response_init(c)
    [] is(3, \hE3) -> A_DomainAddressSelective_Read_init(c)
    [] OTHER -> A_Unknown_init(c)

\* The virtual method ToPacket.
APDU_ToPacket(a) ==
  CASE a.cls = "A_Unknown" -> A_Unknown_ToPacket(a)
    [] a.cls = "A_GroupValue_Read" -> A_GroupValue_Read_ToPacket(a)
    [] a.cls = "A_GroupValue_Response" -> A_GroupValue_Response_ToPacket(a)
    [] a.cls = "A_GroupValue_Write" -> A_GroupValue_Write_ToPacket(a)
    [] a.cls = "A_IndividualAddress_Write" -> A_IndividualAddress_Write_ToPacket(a)
    [] a.cls = "A_IndividualAddress_Read" -> A_IndividualAddress_Read_ToPacket(a)
    [] a.cls = "A_IndividualAddress_Response" -> A_IndividualAddress_Response_ToPacket(a)
    [] a.cls = "A_IndividualAddressSerialNumber_Read" -> A_IndividualAddressSerialNumber_Read_ToPacket(a)
    [] a.cls = "A_IndividualAddressSerialNumber_Response" -> A_IndividualAddressSerialNumber_Response_ToPacket(a)
    [] a.cls = "A_IndividualAddressSerialNumber_Write" -> A_IndividualAddressSerialNumber_Write_ToPacket(a)
    [] a.cls = "A_ServiceInformation_Indication_Write" -> A_ServiceInformation_Indication_Write_ToPacket(a)
    [] a.cls = "A_DomainAddress_Write" -> A_DomainAddress_Write_ToPacket(a)
    [] a.cls = "A_DomainAddress_Read" -> A_DomainAddress_Read_ToPacket(a)
    [] a.cls = "A_DomainAddress_Response" -> A_DomainAddress_Response_ToPacket(a)
    [] a.cls = "A_DomainAddressSelective_Read" -> A_DomainAddressSelective_Read_ToPacket(a)
    [] a.cls = "A_PropertyValue_Read" -> A_PropertyValue_Read_ToPacket(a)
    [] a.cls = "A_PropertyValue_Response" -> A_PropertyValue_Response_ToPacket(a)
    [] a.cls = "A_PropertyValue_Write" -> A_PropertyValue_Write_ToPacket(a)
    [] a.cls = "A_PropertyDescription_Read" -> A_PropertyDescription_Read_ToPacket(a)
    [] a.cls = "A_PropertyDescription_Response" -> A_PropertyDescription_Response_ToPacket(a)
    [] a.cls = "A_DeviceDescriptor_Read" -> A_DeviceDescriptor_Read_ToPacket(a)
    [] a.cls = "A_DeviceDescriptor_Response" -> A_DeviceDescriptor_Response_ToPacket(a)
    [] a.cls = "A_ADC_Read" -> A_ADC_Read_ToPacket(a)
    [] a.cls = "A_ADC_Response" -> A_ADC_Response_ToPacket(a)
    [] a.cls = "A_Memory_Read" -> A_Memory_Read_ToPacket(a)
    [] a.cls = "A_Memory_Response" -> A_Memory_Response_ToPacket(a)
    [] a.cls = "A_Memory_Write" -> A_Memory_Write_ToPacket(a)
    [] a.cls = "A_MemoryBit_Write" -> A_MemoryBit_Write_ToPacket(a)
    [] a.cls = "A_UserMemory_Read" -> A_UserMemory_Read_ToPacket(a)
    [] a.cls = "A_UserMemory_Response" -> A_UserMemory_Response_ToPacket(a)
    [] a.cls = "A_UserMemory_Write" -> A_UserMemory_Write_ToPacket(a)
    [] a.cls = "A_UserMemoryBit_Write" -> A_UserMemoryBit_Write_ToPacket(a)
    [] a.cls = "A_UserManufacturerInfo_Read" -> A_UserManufacturerInfo_Read_ToPacket(a)
    [] a.cls = "A_UserManufacturerInfo_Response" -> A_UserManufacturerInfo_Response_ToPacket(a)
    [] a.cls = "A_Restart" -> A_Restart_ToPacket(a)
    [] a.cls = "A_Authorize_Request" -> A_Authorize_Request_ToPacket(a)
    [] a.cls = "A_Authorize_Response" -> A_Authorize_Response_ToPacket(a)
    [] a.cls = "A_Key_Write" -> A_Key_Write_ToPacket(a)
    [] a.cls = "A_Key_Response" -> A_Key_Response_ToPacket(a)
=============================================================================
