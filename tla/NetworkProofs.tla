--------------------------- MODULE NetworkProofs ----------------------------
(***************************************************************************)
(* What holds of any number of knxd routers on media joined in any way:    *)
(* the addresses of the client block stay with the gate's own clients      *)
(* (BlockStaysLocal), an answer never reaches a later client               *)
(* (NoStrayAnswer), and every router on the way costs a hop (HopsCounted). *)
(***************************************************************************)
EXTENDS Network, TLAPS

-----------------------------------------------------------------------------
Frame == [ id : Nat, source : Nat, dest : Nat, group : BOOLEAN, hopcount : Int, repeated : BOOLEAN ]
Sent == [ frame : Frame, from : Media \cup Clients ]

NTyped ==
    /\ Attached \in Topologies
    /\ addrs \in [Routers -> [Media -> SUBSET Nat]]
    /\ buf \in [Routers -> Seq(Frame)]
    /\ inbox \in [Routers -> [Media -> Seq(Frame)]]
    /\ caddr \in [Clients -> Nat]
    /\ got \in [Clients -> SUBSET Frame]
    /\ origin \in Seq(Sent)
    /\ client_addrs \subseteq Int /\ client_addrs_pos \in Int /\ opens \in Nat

\* Somebody asked from address a: a client whose telegram is in origin.
Asked(a) == \E i \in DOMAIN origin : origin[i].from \in Clients /\ origin[i].frame.source = a

\* What is said of a telegram under way: it is a copy of one that was sent, with no
\* more hops, and is addressed to the client block only as an answer.
Genuine(l) ==
    /\ l.id \in DOMAIN origin /\ l.hopcount <= origin[l.id].frame.hopcount
    /\ ~l.group /\ l.dest \in Block => Asked(l.dest)

UnderWay ==
    /\ \A i \in DOMAIN origin :
         /\ origin[i].frame.id = i /\ Genuine(origin[i].frame)
         /\ origin[i].frame.source \in Block => origin[i].from \in Clients
    /\ \A r \in Routers : \A n \in DOMAIN buf[r] : Genuine(buf[r][n])
    /\ \A r \in Routers, m \in Media : \A n \in DOMAIN inbox[r][m] : Genuine(inbox[r][m][n])
    /\ \A m \in Media : \A f \in on[m] : f.id \in DOMAIN origin

\* Until the block has been used up the addresses are handed out one after the other,
\* so that each one belongs to one client only.
HandedOut ==
    /\ client_addrs_pos = IF opens = 0 THEN BlockLen - 1 ELSE opens - 1
    /\ client_addrs \subseteq 0 .. opens - 1
    /\ \A c \in Clients : caddr[c] # 0 => caddr[c] - BlockStart \in client_addrs
    /\ \A c, d \in Clients : caddr[c] # 0 /\ caddr[c] = caddr[d] => c = d
    /\ \A i \in DOMAIN origin : origin[i].frame.source \in Block =>
         /\ origin[i].frame.source - BlockStart < opens
         /\ \A c \in Clients : caddr[c] = origin[i].frame.source => origin[i].from = c

NInv ==
    /\ NTyped /\ UnderWay /\ BlockStaysLocal /\ NoStrayAnswer
    /\ opens <= BlockLen => HandedOut
    /\ ~force_broadcast => HopsCounted
-----------------------------------------------------------------------------
\* recv_L_Data sets the source of a telegram and nothing else, and the gate never
\* learns an address of its block.
LEMMA Received ==
  ASSUME NTyped, NEW r \in Routers, NEW k \in Media \cup Clients, NEW l \in Frame
  PROVE  LET v == recv_L_Data(r, k, l)
         IN  /\ v.frame \in Frame /\ v.frame.id = l.id /\ v.frame.dest = l.dest
             /\ v.frame.group = l.group /\ v.frame.hopcount = l.hopcount
             /\ v.learn /\ r = Gate => v.frame.source \notin Block
             /\ k \in Clients /\ l.source = 0 /\ caddr[k] # 0 => v.frame.source = caddr[k]
  <1> DEFINE own   == IF k \in Media THEN 0 ELSE caddr[k]
             src   == IF l.source # 0 THEN l.source ELSE IF own # 0 THEN own ELSE RouterAddr[r]
             known == {j \in AllLinks(r) : hasAddress(r, j, src)}
             refuse == \/ ~l.group /\ l.dest = 0
                       \/ src = RouterAddr[r]
                       \/ known # {} /\ k \notin known
                       \/ known = {} /\ r = Gate /\ src \in Block
             learn == ~refuse /\ known = {} /\ src # Unprogrammed
             accept == ~refuse
             frame == [l EXCEPT !.source = src]
  <1>1. src \in Nat
    <2>1. RouterAddr[r] \in 1 .. Unprogrammed - 1 BY NetworkAssumption, Zenon
    <2>2. 1 .. Unprogrammed - 1 \subseteq Nat BY SMT DEF Unprogrammed
    <2>3. own \in Nat
      <3>1. caddr \in [Clients -> Nat] BY DEF NTyped
      <3> QED BY <3>1, SMT
    <2> QED BY <2>1, <2>2, <2>3, SMT DEF Frame
  <1>2. k \in Clients /\ l.source = 0 /\ caddr[k] # 0 => src = caddr[k]
    BY NetworkAssumption
  <1>3. learn /\ r = Gate => src \notin Block
    OBVIOUS
  <1>4. recv_L_Data(r, k, l) = [accept |-> accept, learn |-> learn, frame |-> frame]
    BY Zenon DEF recv_L_Data
  <1> HIDE DEF src, learn, accept
  <1>5. /\ frame \in Frame /\ frame.id = l.id /\ frame.dest = l.dest /\ frame.source = src
        /\ frame.group = l.group /\ frame.hopcount = l.hopcount
    BY <1>1, SMT DEF Frame
  <1> HIDE DEF frame
  <1>6. recv_L_Data(r, k, l).frame = frame /\ recv_L_Data(r, k, l).learn = learn
    BY <1>4, SMT
  <1> QED BY <1>2, <1>3, <1>5, <1>6, Zenon

\* A telegram that is sent goes to the end of origin: what is said of the others
\* goes on to hold.
LEMMA Sending ==
  ASSUME NTyped, UnderWay, NEW s \in Sent, origin' = Append(origin, s), s.frame.id = Len(origin) + 1,
         ~s.frame.group /\ s.frame.dest \in Block => Asked(s.frame.dest),
         s.frame.source \in Block => s.from \in Clients
  PROVE  /\ origin' \in Seq(Sent) /\ DOMAIN origin' = 1 .. Len(origin) + 1
         /\ origin'[Len(origin) + 1] = s /\ \A i \in DOMAIN origin : i \in DOMAIN origin' /\ origin'[i] = origin[i]
         /\ \A a : Asked(a) => Asked(a)'
         /\ \A l : Genuine(l) => Genuine(l)'
         /\ Genuine(s.frame)'
         /\ (\A i \in DOMAIN origin :
               /\ origin[i].frame.id = i /\ Genuine(origin[i].frame)
               /\ origin[i].frame.source \in Block => origin[i].from \in Clients)'
  <1>1. /\ origin' \in Seq(Sent) /\ DOMAIN origin' = 1 .. Len(origin) + 1 /\ DOMAIN origin = 1 .. Len(origin)
        /\ origin'[Len(origin) + 1] = s /\ \A i \in DOMAIN origin : i \in DOMAIN origin' /\ origin'[i] = origin[i]
        /\ Len(origin) \in Nat
    BY SMT DEF NTyped
  <1>2. \A a : Asked(a) => Asked(a)'
    BY <1>1, Zenon DEF Asked
  <1>3. \A l : Genuine(l) => Genuine(l)'
    BY <1>1, <1>2, Zenon DEF Genuine
  <1>4. s.frame.hopcount \in Int
    BY SMT DEF Sent, Frame
  <1>5. Len(origin) + 1 \in DOMAIN origin' /\ s.frame.hopcount <= s.frame.hopcount
    BY <1>1, <1>4, SMT
  <1>6. Genuine(s.frame)'
    BY <1>1, <1>2, <1>5, Zenon DEF Genuine
  <1>7. ASSUME NEW i \in DOMAIN origin'
        PROVE  (/\ origin[i].frame.id = i /\ Genuine(origin[i].frame)
                /\ origin[i].frame.source \in Block => origin[i].from \in Clients)'
    <2>1. i \in DOMAIN origin \/ i = Len(origin) + 1 BY <1>1, SMT
    <2>2. CASE i \in DOMAIN origin BY <1>1, <1>3, <2>2, Zenon DEF UnderWay
    <2>3. CASE i = Len(origin) + 1 BY <1>1, <1>6, <2>3, Zenon
    <2> QED BY <2>1, <2>2, <2>3
  <1> QED BY <1>1, <1>2, <1>3, <1>6, <1>7, Zenon
\* A telegram put into some of the inboxes.
LEMMA Placing ==
  ASSUME NTyped, UnderWay, NEW f \in Frame,
         NEW To \in SUBSET (Routers \X Media),
         inbox' = [q \in Routers |-> [m \in Media |->
                     IF <<q, m>> \in To THEN Append(inbox[q][m], f) ELSE inbox[q][m]]],
         \A l : Genuine(l) => Genuine(l)', Genuine(f)'
  PROVE  /\ inbox' \in [Routers -> [Media -> Seq(Frame)]]
         /\ (\A r \in Routers, m \in Media : \A n \in DOMAIN inbox[r][m] : Genuine(inbox[r][m][n]))'
  <1>1. ASSUME NEW q \in Routers, NEW m \in Media
        PROVE  /\ inbox'[q][m] \in Seq(Frame)
               /\ \A n \in DOMAIN inbox'[q][m] :
                    \/ inbox'[q][m][n] = f
                    \/ n \in DOMAIN inbox[q][m] /\ inbox'[q][m][n] = inbox[q][m][n]
    <2>1. inbox[q][m] \in Seq(Frame) BY Zenon DEF NTyped
    <2> inbox'[q][m] = IF <<q, m>> \in To THEN Append(inbox[q][m], f) ELSE inbox[q][m] BY Zenon
    <2>2. CASE inbox'[q][m] = inbox[q][m] BY <2>1, <2>2, Zenon
    <2>3. CASE inbox'[q][m] = Append(inbox[q][m], f) BY <2>1, <2>3, SMT
    <2> QED BY <2>2, <2>3, Zenon
  <1>2. inbox' \in [Routers -> [Media -> Seq(Frame)]]
    BY <1>1, Zenon
  <1>3. ASSUME NEW r \in Routers, NEW m \in Media, NEW n \in DOMAIN inbox'[r][m]
        PROVE  Genuine(inbox[r][m][n])'
    <2>1. CASE inbox'[r][m][n] = f BY <2>1, Zenon
    <2>2. CASE n \in DOMAIN inbox[r][m] /\ inbox'[r][m][n] = inbox[r][m][n]
      BY <2>2, Zenon DEF UnderWay
    <2> QED BY <1>1, <1>3, <2>1, <2>2, Zenon
  <1> QED BY <1>2, <1>3, Zenon

\* What has been sent before stays the answer to a question, so a client's telegrams
\* stay rightly received.
LEMMA StillRight ==
  ASSUME NTyped, NoStrayAnswer, UNCHANGED <<got, opens>>,
         \A i \in DOMAIN origin : i \in DOMAIN origin' /\ origin'[i] = origin[i]
  PROVE  NoStrayAnswer'
  <1> SUFFICES ASSUME opens' <= BlockLen, NEW c \in Clients, NEW l \in got'[c], ~l.group
               PROVE  \E i \in DOMAIN origin' : origin'[i].from = c /\ origin'[i].frame.source = l.dest
    BY DEF NoStrayAnswer
  <1>1. PICK i \in DOMAIN origin : origin[i].from = c /\ origin[i].frame.source = l.dest
    BY Zenon DEF NoStrayAnswer
  <1> QED BY <1>1, Zenon

\* Hops stay counted while nothing is put on a medium.
LEMMA StillCounted ==
  ASSUME UnderWay, HopsCounted, UNCHANGED on,
         \A i \in DOMAIN origin : i \in DOMAIN origin' /\ origin'[i] = origin[i]
  PROVE  HopsCounted'
  BY Zenon DEF HopsCounted, UnderWay

\* A device's telegram.
LEMMA DeviceSendInv ==
  ASSUME NInv, NEW d \in Device, NEW dest \in Nat, NEW group \in BOOLEAN, NEW h \in Hops,
         ~group /\ dest \in Block => Asked(dest), DeviceSend(d, dest, group, h), UNCHANGED Attached
  PROVE  NInv'
  <1>1. NTyped /\ UnderWay BY DEF NInv
  <1>2. d \in Nat /\ h \in Int /\ Home[d] \in Media /\ d \notin Block /\ Home[d] \notin Clients
    <2>1. Device \subseteq 1 .. Unprogrammed /\ Hops \subseteq 0 .. 7 BY NetworkAssumption, Zenon
    <2>2. 1 .. Unprogrammed \subseteq Nat /\ 0 .. 7 \subseteq Int BY SMT DEF Unprogrammed
    <2> QED BY <2>1, <2>2, NetworkAssumption, Zenon
  <1>3. Len(origin) + 1 \in Nat BY <1>1, SMT DEF NTyped
  <1>4. PICK f \in Frame : /\ f = Fresh(d, dest, group, h) /\ f.id = Len(origin) + 1
                           /\ f.source = d /\ f.dest = dest /\ f.group = group
    <2> DEFINE g == Fresh(d, dest, group, h)
    <2>1. /\ g \in Frame /\ g.id = Len(origin) + 1 /\ g.source = d /\ g.dest = dest /\ g.group = group
      BY <1>2, <1>3, SMT DEF Frame, Fresh
    <2> QED BY <2>1, Zenon
  <1>5. PICK s \in Sent : s = [frame |-> f, from |-> Home[d]] /\ s.frame = f /\ s.from = Home[d]
    <2> DEFINE t == [frame |-> f, from |-> Home[d]]
    <2>1. t \in Sent /\ t.frame = f /\ t.from = Home[d] BY <1>2, SMT DEF Sent
    <2> QED BY <2>1, Zenon
  <1>6. /\ origin' = Append(origin, s) /\ inbox' = OnMedium(inbox, Home[d], f)
        /\ UNCHANGED <<addrs, buf, caddr, client_addrs, client_addrs_pos, got, on, opens, Attached>>
    BY <1>4, <1>5, Zenon DEF DeviceSend
  <1>7. /\ s.frame.id = Len(origin) + 1
        /\ ~s.frame.group /\ s.frame.dest \in Block => Asked(s.frame.dest)
        /\ s.frame.source \notin Block
    BY <1>2, <1>4, <1>5, Zenon
  <1>8. s.frame.source \in Block => s.from \in Clients BY <1>7, Zenon
  <1>9. /\ origin' \in Seq(Sent) /\ DOMAIN origin' = 1 .. Len(origin) + 1
        /\ origin'[Len(origin) + 1] = s /\ \A i \in DOMAIN origin : i \in DOMAIN origin' /\ origin'[i] = origin[i]
        /\ \A l : Genuine(l) => Genuine(l)'
        /\ Genuine(f)'
        /\ (\A i \in DOMAIN origin :
               /\ origin[i].frame.id = i /\ Genuine(origin[i].frame)
               /\ origin[i].frame.source \in Block => origin[i].from \in Clients)'
    <2>1. Genuine(s.frame)' => Genuine(f)' BY <1>5, Zenon
    <2> QED BY <1>1, <1>6, <1>7, <1>8, <2>1, Sending, Zenon
  <1>10. PICK To \in SUBSET (Routers \X Media) :
           inbox' = [q \in Routers |-> [m \in Media |->
                       IF <<q, m>> \in To THEN Append(inbox[q][m], f) ELSE inbox[q][m]]]
    <2> DEFINE T == {x \in Routers \X Media : x[2] = Home[d] /\ x[1] \in Attached[Home[d]]}
    <2>1. \A q \in Routers, m \in Media : <<q, m>> \in T <=> m = Home[d] /\ q \in Attached[Home[d]]
      BY SMT
    <2>2. T \in SUBSET (Routers \X Media) BY Zenon
    <2> HIDE DEF T
    <2>3. inbox' = [q \in Routers |-> [m \in Media |->
                       IF <<q, m>> \in T THEN Append(inbox[q][m], f) ELSE inbox[q][m]]]
      BY <1>6, <2>1, Zenon DEF OnMedium
    <2> QED BY <2>2, <2>3, Zenon
  <1>11. /\ inbox' \in [Routers -> [Media -> Seq(Frame)]]
         /\ (\A r \in Routers, m \in Media : \A n \in DOMAIN inbox[r][m] : Genuine(inbox[r][m][n]))'
    BY <1>1, <1>9, <1>10, Placing, Zenon
  <1>12. NTyped' BY <1>1, <1>6, <1>9, <1>11, Zenon DEF NTyped
  <1>13. UnderWay' BY <1>1, <1>6, <1>9, <1>11, Zenon DEF UnderWay
  <1>14. BlockStaysLocal' BY <1>6, Zenon DEF NInv, BlockStaysLocal
  <1>15. NoStrayAnswer' BY <1>1, <1>6, <1>9, StillRight, Zenon DEF NInv
  <1>16. ASSUME ~force_broadcast PROVE HopsCounted'
    BY <1>1, <1>6, <1>9, <1>16, StillCounted, Zenon DEF NInv
  <1>17. ASSUME opens' <= BlockLen PROVE HandedOut'
    <2>1. HandedOut BY <1>6, <1>17, Zenon DEF NInv
    <2>2. \A i \in DOMAIN origin' : i \in DOMAIN origin \/ i = Len(origin) + 1
      BY <1>1, <1>9, SMT DEF NTyped
    <2>3. \A i \in DOMAIN origin' : origin'[i].frame.source \in Block => i \in DOMAIN origin
      BY <1>7, <1>9, <2>2, Zenon
    <2>4. ASSUME NEW i \in DOMAIN origin', origin'[i].frame.source \in Block
          PROVE  /\ origin'[i].frame.source - BlockStart < opens'
                 /\ \A c \in Clients : caddr'[c] = origin'[i].frame.source => origin'[i].from = c
      <3>1. i \in DOMAIN origin /\ origin'[i] = origin[i] BY <1>9, <2>3, <2>4, Zenon
      <3> QED BY <1>6, <2>1, <2>4, <3>1 DEF HandedOut
    <2> QED BY <1>6, <2>1, <2>4 DEF HandedOut
  <1> QED BY <1>12, <1>13, <1>14, <1>15, <1>16, <1>17, Zenon DEF NInv
\* Without a new telegram nothing that is said of telegrams changes.
LEMMA NothingSent ==
  ASSUME UNCHANGED origin
  PROVE  /\ \A l : Genuine(l) => Genuine(l)'
         /\ \A i \in DOMAIN origin : i \in DOMAIN origin' /\ origin'[i] = origin[i]
  BY Zenon DEF Genuine, Asked

\* A device repeats its telegram.
LEMMA DeviceRepeatInv ==
  ASSUME NInv, NEW i \in DOMAIN origin, DeviceRepeat(i), UNCHANGED Attached
  PROVE  NInv'
  <1>1. NTyped /\ UnderWay BY DEF NInv
  <1>2. /\ UNCHANGED <<addrs, buf, caddr, client_addrs, client_addrs_pos, got, on, origin, opens, Attached>>
        /\ inbox' = OnMedium(inbox, origin[i].from, [origin[i].frame EXCEPT !.repeated = TRUE])
    BY Zenon DEF DeviceRepeat
  <1>3. \A l : Genuine(l) => Genuine(l)' BY <1>2, NothingSent, Zenon
  <1>4. PICK f \in Frame : f = [origin[i].frame EXCEPT !.repeated = TRUE] /\ Genuine(f)
    <2> DEFINE o == origin[i].frame
               yes == TRUE
               g == [o EXCEPT !.repeated = yes]
    <2>1. o \in Frame
      <3>1. origin[i] \in Sent BY <1>1, SMT DEF NTyped
      <3> QED BY <3>1, SMT DEF Sent
    <2>2. Genuine(o) BY <1>1, Zenon DEF UnderWay
    <2> yes \in BOOLEAN OBVIOUS
    <2> HIDE DEF o, yes
    <2>3. g \in Frame /\ g.id = o.id /\ g.hopcount = o.hopcount /\ g.group = o.group /\ g.dest = o.dest
      BY <2>1, SMT DEF Frame
    <2> HIDE DEF g
    <2>4. Genuine(g) BY <2>2, <2>3, Zenon DEF Genuine
    <2> QED BY <2>3, <2>4, Zenon DEF g, o, yes
  <1>5. PICK To \in SUBSET (Routers \X Media) :
           inbox' = [q \in Routers |-> [m \in Media |->
                       IF <<q, m>> \in To THEN Append(inbox[q][m], f) ELSE inbox[q][m]]]
    <2> DEFINE home == origin[i].from
               T == {x \in Routers \X Media : x[2] = home /\ x[1] \in Attached[home]}
    <2>1. \A q \in Routers, m \in Media : <<q, m>> \in T <=> m = home /\ q \in Attached[home]
      BY SMT
    <2>2. T \in SUBSET (Routers \X Media) BY Zenon
    <2> HIDE DEF T
    <2>3. inbox' = [q \in Routers |-> [m \in Media |->
                       IF <<q, m>> \in T THEN Append(inbox[q][m], f) ELSE inbox[q][m]]]
      BY <1>2, <1>4, <2>1, Zenon DEF OnMedium
    <2> QED BY <2>2, <2>3, Zenon
  <1>6. /\ inbox' \in [Routers -> [Media -> Seq(Frame)]]
        /\ (\A r \in Routers, m \in Media : \A n \in DOMAIN inbox[r][m] : Genuine(inbox[r][m][n]))'
    BY <1>1, <1>3, <1>4, <1>5, Placing, Zenon
  <1>7. NTyped' BY <1>1, <1>2, <1>6, Zenon DEF NTyped
  <1>8. UnderWay' BY <1>1, <1>2, <1>3, <1>6, Zenon DEF UnderWay
  <1>9. NoStrayAnswer' BY <1>1, <1>2, NothingSent, StillRight, Zenon DEF NInv
  <1>10. ASSUME opens' <= BlockLen PROVE HandedOut'
    BY <1>2, <1>10, Zenon DEF NInv, HandedOut
  <1>11. BlockStaysLocal' /\ (~force_broadcast => HopsCounted')
    BY <1>2, Zenon DEF NInv, BlockStaysLocal, HopsCounted
  <1> QED BY <1>7, <1>8, <1>9, <1>10, <1>11, Zenon DEF NInv

\* A router appends to its buffer a telegram that is genuine.
LEMMA Buffering ==
  ASSUME NTyped, UnderWay, NEW r \in Routers, NEW f \in Frame, buf' \in {buf, [buf EXCEPT ![r] = Append(@, f)]},
         \A l : Genuine(l) => Genuine(l)', Genuine(f)'
  PROVE  /\ buf' \in [Routers -> Seq(Frame)]
         /\ (\A q \in Routers : \A n \in DOMAIN buf[q] : Genuine(buf[q][n]))'
  <1>1. ASSUME NEW q \in Routers
        PROVE  /\ buf'[q] \in Seq(Frame)
               /\ \A n \in DOMAIN buf'[q] : buf'[q][n] = f \/ (n \in DOMAIN buf[q] /\ buf'[q][n] = buf[q][n])
    <2>1. buf[q] \in Seq(Frame) BY Zenon DEF NTyped
    <2>2. buf'[q] \in {buf[q], Append(buf[q], f)} BY Zenon DEF NTyped
    <2>3. CASE buf'[q] = buf[q] BY <2>1, <2>3, Zenon
    <2>4. CASE buf'[q] = Append(buf[q], f) BY <2>1, <2>4, SMT
    <2> QED BY <2>2, <2>3, <2>4, Zenon
  <1>2. buf' = [q \in Routers |-> buf'[q]] BY SMT DEF NTyped
  <1>3. buf' \in [Routers -> Seq(Frame)] BY <1>1, <1>2, SMT
  <1>4. ASSUME NEW q \in Routers, NEW n \in DOMAIN buf'[q]
        PROVE  Genuine(buf[q][n])'
    <2>1. CASE buf'[q][n] = f BY <2>1, Zenon
    <2>2. CASE n \in DOMAIN buf[q] /\ buf'[q][n] = buf[q][n] BY <2>2, Zenon DEF UnderWay
    <2> QED BY <1>1, <1>4, <2>1, <2>2, Zenon
  <1> QED BY <1>3, <1>4, Zenon
\* A daemon takes a telegram from its bus (Router::recv_L_Data).
LEMMA BusRecvInv ==
  ASSUME NInv, NEW r \in Routers, NEW m \in Links(r), BusRecv(r, m), UNCHANGED Attached
  PROVE  NInv'
  <1> DEFINE v == recv_L_Data(r, m, Head(inbox[r][m]))
  <1>1. NTyped /\ UnderWay /\ m \in Media BY DEF NInv, Links
  <1>2. inbox[r][m] \in Seq(Frame) /\ inbox[r][m] # <<>> BY <1>1, Zenon DEF BusRecv, NTyped
  <1>3. PICK l \in Frame : l = Head(inbox[r][m]) /\ Genuine(l)
    <2>1. Head(inbox[r][m]) \in Frame /\ 1 \in DOMAIN inbox[r][m] /\ Head(inbox[r][m]) = inbox[r][m][1]
      BY <1>2, SMT
    <2>2. Genuine(inbox[r][m][1]) BY <1>1, <2>1, Zenon DEF UnderWay
    <2> QED BY <2>1, <2>2, Zenon
  <1>4. /\ v.frame \in Frame /\ v.frame.id = l.id /\ v.frame.dest = l.dest
        /\ v.frame.group = l.group /\ v.frame.hopcount = l.hopcount
        /\ v.learn /\ r = Gate => v.frame.source \notin Block
    <2> DEFINE w == recv_L_Data(r, m, l)
    <2>1. m \in Media \cup Clients BY <1>1, Zenon
    <2>2. /\ w.frame \in Frame /\ w.frame.id = l.id /\ w.frame.dest = l.dest
          /\ w.frame.group = l.group /\ w.frame.hopcount = l.hopcount
          /\ w.learn /\ r = Gate => w.frame.source \notin Block
      BY <1>1, <2>1, Received, ZenonT(20)
    <2>3. v = w BY <1>3, Zenon
    <2> HIDE DEF v, w
    <2> QED BY <2>2, <2>3, Zenon
  <1>5. /\ buf' = IF v.accept THEN [buf EXCEPT ![r] = Append(@, v.frame)] ELSE buf
        /\ addrs' = IF v.learn THEN [addrs EXCEPT ![r][m] = @ \cup {v.frame.source}] ELSE addrs
        /\ inbox' = [inbox EXCEPT ![r][m] = Tail(@)]
        /\ UNCHANGED <<caddr, client_addrs, client_addrs_pos, got, on, origin, opens, Attached>>
    BY Zenon DEF BusRecv
  <1> HIDE DEF v
  <1>6. \A k : Genuine(k) => Genuine(k)' BY <1>5, NothingSent, Zenon
  <1>7. PICK f \in Frame : f = v.frame /\ Genuine(f) BY <1>3, <1>4, Zenon DEF Genuine
  <1>8. /\ buf' \in [Routers -> Seq(Frame)]
        /\ (\A q \in Routers : \A n \in DOMAIN buf[q] : Genuine(buf[q][n]))'
    <2>1. buf' \in {buf, [buf EXCEPT ![r] = Append(@, f)]} BY <1>5, <1>7, Zenon
    <2> QED BY <1>1, <1>6, <1>7, <2>1, Buffering, Zenon
  <1>9. /\ inbox' \in [Routers -> [Media -> Seq(Frame)]]
        /\ (\A q \in Routers, k \in Media : \A n \in DOMAIN inbox[q][k] : Genuine(inbox[q][k][n]))'
    <2>1. Tail(inbox[r][m]) \in Seq(Frame)
          /\ \A n \in DOMAIN Tail(inbox[r][m]) : n + 1 \in DOMAIN inbox[r][m] /\ Tail(inbox[r][m])[n] = inbox[r][m][n + 1]
      BY <1>2, SMT
    <2>2. ASSUME NEW q \in Routers, NEW k \in Media
          PROVE  inbox'[q][k] = IF q = r /\ k = m THEN Tail(inbox[r][m]) ELSE inbox[q][k]
      BY <1>1, <1>5, SMT DEF NTyped
    <2>3. inbox' \in [Routers -> [Media -> Seq(Frame)]]
      BY <1>1, <1>5, <2>1, SMT DEF NTyped
    <2>4. ASSUME NEW q \in Routers, NEW k \in Media, NEW n \in DOMAIN inbox'[q][k]
          PROVE  Genuine(inbox[q][k][n])'
      <3>1. CASE q = r /\ k = m
        <4>1. n + 1 \in DOMAIN inbox[r][m] /\ inbox'[q][k][n] = inbox[r][m][n + 1]
          BY <2>1, <2>2, <2>4, <3>1, Zenon
        <4>2. Genuine(inbox[r][m][n + 1]) BY <1>1, <4>1, Zenon DEF UnderWay
        <4> QED BY <1>6, <4>1, <4>2, Zenon
      <3>2. CASE ~(q = r /\ k = m)
        <4>1. inbox'[q][k] = inbox[q][k] BY <2>2, <3>2, Zenon
        <4>2. Genuine(inbox[q][k][n]) BY <1>1, <2>4, <4>1, Zenon DEF UnderWay
        <4> QED BY <1>6, <4>1, <4>2, Zenon
      <3> QED BY <3>1, <3>2, Zenon
    <2> QED BY <2>3, <2>4, Zenon
  <1>10. /\ addrs' \in [Routers -> [Media -> SUBSET Nat]] /\ BlockStaysLocal'
    <2>1. v.frame.source \in Nat BY <1>4, SMT DEF Frame
    <2>2. addrs \in [Routers -> [Media -> SUBSET Nat]] BY <1>1 DEF NTyped
    <2>3. BlockStaysLocal BY DEF NInv
    <2>4. CASE ~v.learn
      <3>1. addrs' = addrs BY <1>5, <2>4, Zenon
      <3> QED BY <2>2, <2>3, <3>1, Zenon DEF BlockStaysLocal
    <2>5. CASE v.learn
      <3>1. addrs' = [addrs EXCEPT ![r][m] = @ \cup {v.frame.source}] BY <1>5, <2>5, Zenon
      <3>2. addrs' \in [Routers -> [Media -> SUBSET Nat]] BY <1>1, <2>1, <2>2, <3>1, SMT
      <3>3. ASSUME NEW q \in Routers, NEW k \in Media
            PROVE  addrs'[q][k] = IF q = r /\ k = m THEN addrs[r][m] \cup {v.frame.source} ELSE addrs[q][k]
        BY <1>1, <2>2, <3>1, SMT
      <3>4. Gate \in Routers BY NetworkAssumption
      <3>5. r = Gate => v.frame.source \notin Block BY <1>4, <2>5, Zenon
      <3> HIDE DEF Block
      <3>6. BlockStaysLocal' BY <2>3, <3>3, <3>4, <3>5 DEF BlockStaysLocal
      <3> QED BY <3>2, <3>6
    <2> QED BY <2>4, <2>5, Zenon
  <1>11. NTyped' BY <1>1, <1>5, <1>8, <1>9, <1>10, Zenon DEF NTyped
  <1>12. UnderWay' BY <1>1, <1>5, <1>6, <1>8, <1>9, Zenon DEF UnderWay
  <1>13. NoStrayAnswer' BY <1>1, <1>5, NothingSent, StillRight, Zenon DEF NInv
  <1>14. ASSUME opens' <= BlockLen PROVE HandedOut'
    BY <1>5, <1>14, Zenon DEF NInv, HandedOut
  <1>15. ~force_broadcast => HopsCounted' BY <1>5, Zenon DEF NInv, HopsCounted
  <1> QED BY <1>10, <1>11, <1>12, <1>13, <1>14, <1>15, Zenon DEF NInv

\* A client of a daemon sends.
LEMMA ClientSendInv ==
  ASSUME NInv, NEW c \in Clients, NEW dest \in Nat, NEW group \in BOOLEAN, ~group => dest \notin Block,
         ClientSend(c, dest, group), UNCHANGED Attached
  PROVE  NInv'
  <1> DEFINE v == recv_L_Data(Gate, c, Fresh(0, dest, group, 6))
  <1>1. NTyped /\ UnderWay BY DEF NInv
  <1>2. Gate \in Routers /\ c \notin Media /\ caddr[c] # 0 /\ caddr[c] \in Nat
    BY <1>1, NetworkAssumption, Zenon DEF ClientSend, NTyped
  <1>3. Len(origin) + 1 \in Nat BY <1>1, SMT DEF NTyped
  <1>4. PICK l \in Frame : /\ l = Fresh(0, dest, group, 6) /\ l.id = Len(origin) + 1
                           /\ l.source = 0 /\ l.dest = dest /\ l.group = group
    <2> DEFINE g == Fresh(0, dest, group, 6)
    <2>1. /\ g \in Frame /\ g.id = Len(origin) + 1 /\ g.source = 0 /\ g.dest = dest /\ g.group = group
      BY <1>3, SMT DEF Frame, Fresh
    <2> QED BY <2>1, Zenon
  <1>5. /\ v.frame \in Frame /\ v.frame.id = Len(origin) + 1 /\ v.frame.dest = dest /\ v.frame.group = group
        /\ v.frame.source = caddr[c]
    <2> DEFINE w == recv_L_Data(Gate, c, l)
    <2>1. Gate \in Routers /\ c \in Media \cup Clients BY <1>2, Zenon
    <2>2. /\ w.frame \in Frame /\ w.frame.id = l.id /\ w.frame.dest = l.dest
          /\ w.frame.group = l.group /\ w.frame.hopcount = l.hopcount
          /\ w.learn /\ Gate = Gate => w.frame.source \notin Block
          /\ c \in Clients /\ l.source = 0 /\ caddr[c] # 0 => w.frame.source = caddr[c]
      <3> HIDE DEF v
      <3> QED BY ONLY <1>1, <2>1, l \in Frame, Received, ZenonT(30)
    <2>3. v = w BY <1>4, Zenon
    <2> HIDE DEF v, w
    <2> QED BY <1>2, <1>4, <2>2, <2>3, Zenon
  <1>6. /\ origin' = Append(origin, [frame |-> v.frame, from |-> c])
        /\ buf' = IF v.accept THEN [buf EXCEPT ![Gate] = Append(@, v.frame)] ELSE buf
        /\ UNCHANGED <<addrs, inbox, caddr, client_addrs, client_addrs_pos, got, on, opens, Attached>>
    BY Zenon DEF ClientSend
  <1> HIDE DEF v
  <1>7. PICK f \in Frame : f = v.frame BY <1>5, Zenon
  <1>8. PICK s \in Sent : s = [frame |-> f, from |-> c] /\ s.frame = f /\ s.from = c
    <2> DEFINE t == [frame |-> f, from |-> c]
    <2>1. t \in Sent /\ t.frame = f /\ t.from = c BY SMT DEF Sent
    <2> QED BY <2>1, Zenon
  <1>9. /\ origin' = Append(origin, s) /\ s.frame.id = Len(origin) + 1
        /\ ~s.frame.group /\ s.frame.dest \in Block => Asked(s.frame.dest)
        /\ s.frame.source \in Block => s.from \in Clients
    BY <1>5, <1>6, <1>7, <1>8, Zenon
  <1>10. /\ origin' \in Seq(Sent) /\ DOMAIN origin' = 1 .. Len(origin) + 1
         /\ origin'[Len(origin) + 1] = s /\ \A i \in DOMAIN origin : i \in DOMAIN origin' /\ origin'[i] = origin[i]
         /\ \A k : Genuine(k) => Genuine(k)'
         /\ Genuine(f)'
         /\ (\A i \in DOMAIN origin :
               /\ origin[i].frame.id = i /\ Genuine(origin[i].frame)
               /\ origin[i].frame.source \in Block => origin[i].from \in Clients)'
    <2>1. Genuine(s.frame)' => Genuine(f)' BY <1>8, Zenon
    <2> QED BY <1>1, <1>9, <2>1, Sending, Zenon
  <1>11. /\ buf' \in [Routers -> Seq(Frame)]
         /\ (\A q \in Routers : \A n \in DOMAIN buf[q] : Genuine(buf[q][n]))'
    <2>1. buf' \in {buf, [buf EXCEPT ![Gate] = Append(@, f)]} BY <1>6, <1>7, Zenon
    <2> QED BY <1>1, <1>2, <1>10, <2>1, Buffering, Zenon
  <1>12. NTyped' BY <1>1, <1>6, <1>10, <1>11, Zenon DEF NTyped
  <1>13. UnderWay' BY <1>1, <1>6, <1>10, <1>11, Zenon DEF UnderWay
  <1>14. BlockStaysLocal' BY <1>6, Zenon DEF NInv, BlockStaysLocal
  <1>15. NoStrayAnswer' BY <1>1, <1>6, <1>10, StillRight, Zenon DEF NInv
  <1>16. ASSUME ~force_broadcast PROVE HopsCounted'
    BY <1>1, <1>6, <1>10, <1>16, StillCounted, Zenon DEF NInv
  <1>17. ASSUME opens' <= BlockLen PROVE HandedOut'
    <2>1. HandedOut BY <1>6, <1>17, Zenon DEF NInv
    <2>2. \A i \in DOMAIN origin' : i \in DOMAIN origin \/ i = Len(origin) + 1
      BY <1>1, <1>10, SMT DEF NTyped
    <2>3. ASSUME NEW i \in DOMAIN origin', origin'[i].frame.source \in Block
          PROVE  /\ origin'[i].frame.source - BlockStart < opens'
                 /\ \A d \in Clients : caddr'[d] = origin'[i].frame.source => origin'[i].from = d
      <3>1. CASE i \in DOMAIN origin
        <4>1. origin'[i] = origin[i] BY <1>10, <3>1, Zenon
        <4> QED BY <1>6, <2>1, <2>3, <3>1, <4>1 DEF HandedOut
      <3>2. CASE i = Len(origin) + 1
        <4>1. origin'[i].frame.source = caddr[c] /\ origin'[i].from = c
          BY <1>5, <1>7, <1>8, <1>10, <3>2, Zenon
        <4>2. caddr[c] - BlockStart \in client_addrs /\ client_addrs \subseteq 0 .. opens - 1
          BY <1>2, <2>1, Zenon DEF HandedOut
        <4>3. caddr[c] - BlockStart < opens
          <5>1. caddr[c] - BlockStart \in 0 .. opens - 1 BY <4>2, Zenon
          <5>2. opens \in Nat /\ BlockStart \in Int BY <1>1, NetworkAssumption DEF NTyped
          <5> QED BY <1>2, <5>1, <5>2, SMT
        <4>4. \A d \in Clients : caddr[d] = caddr[c] => c = d BY <1>2, <2>1, Zenon DEF HandedOut
        <4> QED BY <1>6, <4>1, <4>3, <4>4, Zenon
      <3> QED BY <2>2, <2>3, <3>1, <3>2, Zenon
    <2> QED BY <1>6, <2>1, <2>3 DEF HandedOut
  <1> QED BY <1>12, <1>13, <1>14, <1>15, <1>16, <1>17, Zenon DEF NInv
\* 0, "unassigned", is not in the block.
LEMMA BlockBounds == BlockStart \in Nat /\ BlockStart >= 1 /\ BlockLen \in Nat
  <1>1. BlockStart \in 1 .. Unprogrammed - 1 /\ BlockLen \in Nat BY NetworkAssumption, Zenon
  <1>2. Unprogrammed \in Nat BY SMT DEF Unprogrammed
  <1> QED BY <1>1, <1>2, SMT

\* What trigger_cb makes of a telegram before it hands it on.
Passed(r, l) ==
    [Hop(l) EXCEPT !.repeated = FALSE, !.dest = IF ~Hop(l).group /\ @ = RouterAddr[r] THEN 0 ELSE @]

\* What Router::trigger_cb hands to its links is a copy of what it read from the queue.
LEMMA PassedOn ==
  ASSUME NTyped, NEW r \in Routers, NEW l \in Frame, Genuine(l)
  PROVE  /\ Passed(r, l) \in Frame /\ Genuine(Passed(r, l))
         /\ Passed(r, l).id = l.id
         /\ ~force_broadcast => Passed(r, l).hopcount < origin[l.id].frame.hopcount
  <1> DEFINE no == FALSE
             h == Hop(l)
             d == IF ~h.group /\ h.dest = RouterAddr[r] THEN 0 ELSE h.dest
             p == [h EXCEPT !.repeated = no, !.dest = d]
  <1>1. force_broadcast \in BOOLEAN BY NetworkAssumption, Zenon
  <1>2. origin[l.id].frame.hopcount \in Int
    <2>1. origin[l.id] \in Sent BY SMT DEF NTyped, Genuine
    <2> QED BY <2>1, SMT DEF Sent, Frame
  <1>3. /\ h \in Frame /\ h.id = l.id /\ h.group = l.group /\ h.dest = l.dest
        /\ h.hopcount \in {l.hopcount, l.hopcount - 1} /\ (~force_broadcast => h.hopcount = l.hopcount - 1)
    <2>1. CASE l.hopcount < 7 \/ ~force_broadcast
      <3>1. h = [l EXCEPT !.hopcount = @ - 1] BY <2>1, Zenon DEF Hop
      <3> HIDE DEF h
      <3> QED BY <3>1, SMT DEF Frame
    <2>2. CASE ~(l.hopcount < 7 \/ ~force_broadcast)
      BY <2>2, Zenon DEF Hop
    <2> QED BY <2>1, <2>2, Zenon
  <1>4. Passed(r, l) = p BY Zenon DEF Passed
  <1> no \in BOOLEAN OBVIOUS
  <1> HIDE DEF h, no
  <1>5. d \in Nat /\ d \in {0, l.dest} BY <1>3, SMT DEF Frame
  <1> HIDE DEF d
  <1>6. /\ p \in Frame /\ p.id = l.id /\ p.group = l.group /\ p.dest = d /\ p.hopcount = h.hopcount
    <2> DEFINE q == [h EXCEPT !.repeated = no]
    <2>1. q \in Frame /\ q.id = h.id /\ q.group = h.group /\ q.hopcount = h.hopcount BY <1>3, SMT DEF Frame
    <2>2. p = [q EXCEPT !.dest = d] OBVIOUS
    <2> HIDE DEF p, q
    <2> QED BY <1>3, <1>5, <2>1, <2>2, SMT DEF Frame
  <1> HIDE DEF p
  <1>7. l.hopcount \in Int /\ l.hopcount <= origin[l.id].frame.hopcount /\ l.id \in DOMAIN origin
    BY SMT DEF Frame, Genuine
  <1>8. /\ p.hopcount <= origin[l.id].frame.hopcount
        /\ ~force_broadcast => p.hopcount < origin[l.id].frame.hopcount
    <2>1. p.hopcount \in {l.hopcount, l.hopcount - 1} /\ (~force_broadcast => p.hopcount = l.hopcount - 1)
      BY <1>3, <1>6, Zenon
    <2> HIDE DEF p
    <2> QED BY <1>2, <1>7, <2>1, SMT
  <1>9. 0 \notin Block BY BlockBounds, SMT DEF Block
  <1>10. ~p.group /\ p.dest \in Block => Asked(p.dest)
    BY <1>5, <1>6, <1>9, Zenon DEF Genuine
  <1>11. Genuine(p) BY <1>6, <1>7, <1>8, <1>10, Zenon DEF Genuine
  <1> QED BY <1>4, <1>6, <1>8, <1>11, Zenon

\* A client is given what is addressed to it, and by the gate alone.
LEMMA OnlyItsOwn ==
  ASSUME NTyped, NEW r \in Routers, NEW l \in Frame, NEW c \in Clients, c \in Targets(r, l), ~l.group
  PROVE  caddr[c] # 0 /\ l.dest = caddr[c]
  <1>1. c \notin Media BY NetworkAssumption, Zenon
  <1>2. c \in AllLinks(r) /\ (hasAddress(r, c, l.dest) \/ checkAddress(r, c, l.dest))
    BY Zenon DEF Targets
  <1>3. l.dest = caddr[c] BY <1>1, <1>2, Zenon DEF hasAddress, checkAddress
  <1>4. c \in ClientsOf(r) BY <1>1, <1>2, Zenon DEF AllLinks, Links
  <1>5. caddr[c] # 0 BY <1>4, Zenon DEF ClientsOf
  <1> QED BY <1>3, <1>5

\* While the block lasts, the only one who has asked from a client's address is this
\* client.
LEMMA AskedItself ==
  ASSUME NTyped, HandedOut, opens <= BlockLen, NEW c \in Clients, caddr[c] # 0
  PROVE  caddr[c] \in Block
  <1>1. caddr[c] - BlockStart \in client_addrs /\ client_addrs \subseteq 0 .. opens - 1
    BY Zenon DEF HandedOut
  <1>2. caddr[c] - BlockStart \in 0 .. opens - 1 BY <1>1, Zenon
  <1>3. opens \in Nat /\ caddr[c] \in Nat BY Zenon DEF NTyped
  <1> QED BY <1>2, <1>3, BlockBounds, SMT DEF Block
\* One turn of the loop: some links get the telegram, or none does.
LEMMA RouteForm ==
  ASSUME NTyped, NEW r \in Routers, NEW ends, Route(r, ends), NEW l, l = Passed(r, Head(buf[r]))
  PROVE  \E to \in {{}, Targets(r, l)} :
           /\ inbox' = [q \in Routers |-> [m \in Media |->
                          IF m \in to /\ q \in Attached[m] \ {r} THEN Append(inbox[q][m], l) ELSE inbox[q][m]]]
           /\ \A m \in Media : \A f \in on'[m] : f \in on[m] \/ (f.id = l.id /\ f.hopcount = l.hopcount)
           /\ got' = [c \in Clients |-> IF c \in to THEN got[c] \cup {l} ELSE got[c]]
  <1> DEFINE l0   == Head(buf[r])
             l1   == Hop(l0)
             seen == l1.repeated /\ \E i \in DOMAIN ignore[r] : ignore[r][i].frame = l1
             drop == Dead(l0) \/ seen
             to   == IF drop THEN {} ELSE Targets(r, l)
             rec(m) == [id |-> l.id, hopcount |-> l.hopcount, by |-> r, nth |-> Cardinality(Copies(r, m, l.id)) + 1]
  <1>1. l = [l1 EXCEPT !.repeated = FALSE, !.dest = IF ~l1.group /\ @ = RouterAddr[r] THEN 0 ELSE @]
    BY Zenon DEF Passed
  <1>2. /\ inbox' = [q \in Routers |-> [m \in Media |->
                       IF m \in to /\ q \in Attached[m] \ {r} THEN Append(inbox[q][m], l) ELSE inbox[q][m]]]
        /\ on' = [m \in Media |-> IF m \notin to THEN on[m] ELSE on[m] \cup {rec(m)}]
        /\ got' = [c \in Clients |-> IF c \in to THEN got[c] \cup {l} ELSE got[c]]
    BY <1>1, Zenon DEF Route
  <1>3. to \in {{}, Targets(r, l)} BY Zenon
  <1> HIDE DEF to
  <1>4. ASSUME NEW m \in Media, NEW f \in on'[m]
        PROVE  f \in on[m] \/ (f.id = l.id /\ f.hopcount = l.hopcount)
    <2>1. f \in on[m] \/ f = rec(m) BY <1>2, <1>4, Zenon
    <2>2. rec(m).id = l.id /\ rec(m).hopcount = l.hopcount BY SMT
    <2> QED BY <2>1, <2>2, Zenon
  <1> QED BY <1>2, <1>3, <1>4, Zenon

\* Router::trigger_cb routes the first telegram of its queue.
LEMMA RouteInv ==
  ASSUME NInv, NEW r \in Routers, NEW ends, Route(r, ends), UNCHANGED Attached
  PROVE  NInv'
  <1>1. NTyped /\ UnderWay BY DEF NInv
  <1>2. /\ buf[r] \in Seq(Frame) /\ buf[r] # <<>> /\ buf' = [buf EXCEPT ![r] = Tail(@)]
        /\ UNCHANGED <<addrs, caddr, client_addrs, client_addrs_pos, origin, opens, Attached>>
    BY <1>1, Zenon DEF Route, NTyped
  <1>3. \A k : Genuine(k) => Genuine(k)' BY <1>2, NothingSent, Zenon
  <1>4. PICK l \in Frame : /\ l = Passed(r, Head(buf[r])) /\ Genuine(l)
                           /\ ~force_broadcast => l.hopcount < origin[l.id].frame.hopcount
    <2>1. Head(buf[r]) \in Frame /\ 1 \in DOMAIN buf[r] /\ Head(buf[r]) = buf[r][1]
      BY <1>2, SMT
    <2>2. Genuine(Head(buf[r])) BY <1>1, <2>1, Zenon DEF UnderWay
    <2> QED BY <1>1, <2>1, <2>2, PassedOn, Zenon
  <1>5. PICK to \in {{}, Targets(r, l)} :
           /\ inbox' = [q \in Routers |-> [m \in Media |->
                          IF m \in to /\ q \in Attached[m] \ {r} THEN Append(inbox[q][m], l) ELSE inbox[q][m]]]
           /\ \A m \in Media : \A f \in on'[m] : f \in on[m] \/ (f.id = l.id /\ f.hopcount = l.hopcount)
           /\ got' = [c \in Clients |-> IF c \in to THEN got[c] \cup {l} ELSE got[c]]
    <2>1. l = Passed(r, Head(buf[r])) BY <1>4, Zenon
    <2> QED BY <1>1, <2>1, RouteForm
  <1>6. /\ inbox' \in [Routers -> [Media -> Seq(Frame)]]
        /\ (\A q \in Routers, m \in Media : \A n \in DOMAIN inbox[q][m] : Genuine(inbox[q][m][n]))'
    <2> DEFINE T == {x \in Routers \X Media : x[2] \in to /\ x[1] \in Attached[x[2]] \ {r}}
    <2>1. \A q \in Routers, m \in Media : <<q, m>> \in T <=> m \in to /\ q \in Attached[m] \ {r}
      BY SMT
    <2>2. T \in SUBSET (Routers \X Media) BY Zenon
    <2> HIDE DEF T
    <2>3. inbox' = [q \in Routers |-> [m \in Media |->
                       IF <<q, m>> \in T THEN Append(inbox[q][m], l) ELSE inbox[q][m]]]
      BY <1>5, <2>1, Zenon
    <2> QED BY <1>1, <1>3, <1>4, <2>2, <2>3, Placing, Zenon
  <1>7. /\ buf' \in [Routers -> Seq(Frame)]
        /\ (\A q \in Routers : \A n \in DOMAIN buf[q] : Genuine(buf[q][n]))'
    <2>1. Tail(buf[r]) \in Seq(Frame)
          /\ \A n \in DOMAIN Tail(buf[r]) : n + 1 \in DOMAIN buf[r] /\ Tail(buf[r])[n] = buf[r][n + 1]
      BY <1>2, SMT
    <2>2. buf \in [Routers -> Seq(Frame)] BY <1>1 DEF NTyped
    <2>3. buf' \in [Routers -> Seq(Frame)] BY <1>2, <2>1, <2>2, SMT
    <2>4. ASSUME NEW q \in Routers, NEW n \in DOMAIN buf'[q] PROVE Genuine(buf[q][n])'
      <3>1. CASE q = r
        <4>1. n + 1 \in DOMAIN buf[r] /\ buf'[q][n] = buf[r][n + 1] BY <1>2, <2>1, <2>2, <2>4, <3>1, Zenon
        <4>2. Genuine(buf[r][n + 1]) BY <1>1, <4>1, Zenon DEF UnderWay
        <4> QED BY <1>3, <4>1, <4>2, Zenon
      <3>2. CASE q # r
        <4>1. buf'[q] = buf[q] BY <1>2, <2>2, <3>2, Zenon
        <4>2. Genuine(buf[q][n]) BY <1>1, <2>4, <4>1, Zenon DEF UnderWay
        <4> QED BY <1>3, <4>1, <4>2, Zenon
      <3> QED BY <3>1, <3>2, Zenon
    <2> QED BY <2>3, <2>4, Zenon
  <1>8. got' \in [Clients -> SUBSET Frame] BY <1>1, <1>5, Zenon DEF NTyped
  <1>9. \A m \in Media : \A f \in on'[m] : f.id \in DOMAIN origin'
    BY <1>1, <1>2, <1>4, <1>5, Zenon DEF UnderWay, Genuine
  <1>10. NTyped' BY <1>1, <1>2, <1>6, <1>7, <1>8, Zenon DEF NTyped
  <1>11. UnderWay' BY <1>1, <1>2, <1>3, <1>6, <1>7, <1>9, Zenon DEF UnderWay
  <1>12. BlockStaysLocal' BY <1>2, Zenon DEF NInv, BlockStaysLocal
  <1>13. ASSUME ~force_broadcast PROVE HopsCounted'
    <2>1. ASSUME NEW m \in Media, NEW f \in on'[m] PROVE f.hopcount < origin'[f.id].frame.hopcount
      BY <1>2, <1>4, <1>5, <1>13, <2>1, Zenon DEF NInv, HopsCounted
    <2> QED BY <2>1, Zenon DEF HopsCounted
  <1>14. ASSUME opens' <= BlockLen PROVE HandedOut'
    BY <1>2, <1>14, Zenon DEF NInv, HandedOut
  <1>15. NoStrayAnswer'
    <2> SUFFICES ASSUME opens' <= BlockLen, NEW c \in Clients, NEW k \in got'[c], ~k.group
                 PROVE  \E i \in DOMAIN origin : origin[i].from = c /\ origin[i].frame.source = k.dest
      BY <1>2 DEF NoStrayAnswer
    <2>1. opens <= BlockLen /\ HandedOut /\ NoStrayAnswer BY <1>2, Zenon DEF NInv
    <2>2. k \in got[c] \/ (k = l /\ c \in to) BY <1>5, Zenon
    <2>3. CASE k \in got[c] BY <2>1, <2>3, Zenon DEF NoStrayAnswer
    <2>4. CASE k = l /\ c \in to
      <3>1. c \in Targets(r, l) BY <1>5, <2>4, Zenon
      <3>2. caddr[c] # 0 /\ l.dest = caddr[c] BY <1>1, <2>4, <3>1, OnlyItsOwn, Zenon
      <3>3. caddr[c] \in Block BY <1>1, <2>1, <3>2, AskedItself, Zenon
      <3>4. PICK i \in DOMAIN origin : origin[i].frame.source = l.dest
        BY <1>4, <2>4, <3>2, <3>3, Zenon DEF Genuine, Asked
      <3>5. origin[i].from = c BY <2>1, <3>2, <3>3, <3>4, Zenon DEF HandedOut
      <3> QED BY <2>4, <3>4, <3>5, Zenon
    <2> QED BY <2>2, <2>3, <2>4, Zenon
  <1> QED BY <1>10, <1>11, <1>12, <1>13, <1>14, <1>15, Zenon DEF NInv
\* While the block lasts, the first position get_client_addr tries is free, because
\* it has not been used before and no bus link knows its address.
LEMMA NextIsFree ==
  ASSUME NTyped, HandedOut, BlockStaysLocal, opens < BlockLen
  PROVE  Tries[1] = opens /\ Usable(Tries[1])
  <1>1. opens \in Nat /\ client_addrs_pos \in Int BY DEF NTyped
  <1>2. (client_addrs_pos + 1) % BlockLen = opens
    <2>1. CASE opens = 0
      <3>1. client_addrs_pos = BlockLen - 1 BY <2>1, Zenon DEF HandedOut
      <3> QED BY <1>1, <2>1, <3>1, BlockBounds, SMT
    <2>2. CASE opens # 0
      <3>1. client_addrs_pos = opens - 1 BY <2>2, Zenon DEF HandedOut
      <3> QED BY <1>1, <2>2, <3>1, BlockBounds, SMT
    <2> QED BY <2>1, <2>2
  <1>3. Tries[1] = opens
    <2>1. 1 \in 1 .. BlockLen BY <1>1, BlockBounds, SMT
    <2> QED BY <1>2, <2>1, Zenon DEF Tries
  <1>4. BlockStart + opens \in Block /\ BlockStart + opens # 0 /\ opens \notin 0 .. opens - 1
    BY <1>1, BlockBounds, SMT DEF Block
  <1>5. opens \notin client_addrs BY <1>4, Zenon DEF HandedOut
  <1>6. Gate \in Routers /\ BlockStart + opens # RouterAddr[Gate]
    <2>1. Gate \in Routers /\ Block \cap (Device \cup Dests \cup {RouterAddr[r] : r \in Routers}) = {}
      BY NetworkAssumption, Zenon
    <2>2. RouterAddr[Gate] \in {RouterAddr[r] : r \in Routers} BY <2>1, Zenon
    <2>3. RouterAddr[Gate] \notin Block BY <2>1, <2>2, Zenon
    <2> QED BY <1>4, <2>1, <2>3, Zenon
  <1>7. ASSUME NEW k \in AllLinks(Gate), hasAddress(Gate, k, BlockStart + opens) PROVE FALSE
    <2>1. CASE k \in Media
      <3>1. BlockStart + opens \in addrs[Gate][k] BY <1>7, <2>1, Zenon DEF hasAddress
      <3> QED BY <1>4, <2>1, <3>1, Zenon DEF BlockStaysLocal
    <2>2. CASE k \notin Media
      <3>1. k \in Clients /\ caddr[k] = BlockStart + opens
        BY <1>7, <2>2, Zenon DEF hasAddress, AllLinks, Links, ClientsOf
      <3>2. caddr[k] - BlockStart = opens BY <1>1, <3>1, BlockBounds, SMT
      <3> QED BY <1>4, <1>5, <3>1, <3>2, Zenon DEF HandedOut
    <2> QED BY <2>1, <2>2
  <1> QED BY <1>3, <1>5, <1>6, <1>7, Zenon DEF Usable

\* A new connection takes a position of the block; while the block lasts, the next
\* one.
LEMMA OpenInv ==
  ASSUME NInv, NEW c \in Clients, Open(c), UNCHANGED Attached
  PROVE  NInv'
  <1>1. NTyped /\ UnderWay BY DEF NInv
  <1>2. PICK i \in 1 .. BlockLen :
          /\ Usable(Tries[i]) /\ \A j \in 1 .. i - 1 : ~Usable(Tries[j])
          /\ client_addrs_pos' = Tries[i]
          /\ client_addrs' = client_addrs \cup {Tries[i]}
          /\ caddr' = [caddr EXCEPT ![c] = BlockStart + Tries[i]]
    BY Zenon DEF Open
  <1>3. /\ opens' = opens + 1 /\ got' = [got EXCEPT ![c] = {}]
        /\ UNCHANGED <<addrs, buf, inbox, on, origin, Attached>>
    BY Zenon DEF Open
  <1>4. Tries[i] \in Nat
    <2>1. client_addrs_pos \in Int BY <1>1 DEF NTyped
    <2>2. Tries[i] = (client_addrs_pos + i) % BlockLen BY <1>2, Zenon DEF Tries
    <2> QED BY <2>1, <2>2, <1>2, BlockBounds, SMT
  <1>5. caddr \in [Clients -> Nat] /\ got \in [Clients -> SUBSET Frame] /\ opens \in Nat BY <1>1 DEF NTyped
  <1>6. NTyped'
    <2>1. caddr' \in [Clients -> Nat] BY <1>2, <1>4, <1>5, BlockBounds, SMT
    <2>2. got' \in [Clients -> SUBSET Frame] BY <1>3, <1>5, SMT
    <2>3. opens' \in Nat BY <1>3, <1>5, SMT
    <2>4. client_addrs' \subseteq Int /\ client_addrs_pos' \in Int
      <3>1. Tries[i] \in Int BY <1>4, SMT
      <3>2. client_addrs \subseteq Int BY <1>1, Zenon DEF NTyped
      <3> QED BY <1>2, <3>1, <3>2, Zenon
    <2> QED BY <1>1, <1>3, <2>1, <2>2, <2>3, <2>4, Zenon DEF NTyped
  <1>7. \A l : Genuine(l) => Genuine(l)' BY <1>3, NothingSent, Zenon
  <1>8. UnderWay' BY <1>1, <1>3, <1>7, Zenon DEF UnderWay
  <1>9. BlockStaysLocal' BY <1>3, Zenon DEF NInv, BlockStaysLocal
  <1>10. ~force_broadcast => HopsCounted' BY <1>3, Zenon DEF NInv, HopsCounted
  <1>11. NoStrayAnswer'
    <2> SUFFICES ASSUME opens' <= BlockLen, NEW d \in Clients, NEW l \in got'[d], ~l.group
                 PROVE  \E n \in DOMAIN origin : origin[n].from = d /\ origin[n].frame.source = l.dest
      BY <1>3 DEF NoStrayAnswer
    <2>1. opens <= BlockLen BY <1>3, <1>5, BlockBounds, SMT
    <2>2. l \in got[d] BY <1>3, <1>5, SMT
    <2> QED BY <2>1, <2>2, Zenon DEF NInv, NoStrayAnswer
  <1>12. ASSUME opens' <= BlockLen PROVE HandedOut'
    <2>1. opens < BlockLen /\ opens <= BlockLen BY <1>3, <1>5, <1>12, BlockBounds, SMT
    <2>2. HandedOut BY <2>1, Zenon DEF NInv
    <2>3. Tries[1] = opens /\ Usable(Tries[1]) BY <1>1, <2>1, <2>2, NextIsFree, Zenon DEF NInv
    <2>4. i = 1
      <3>1. 1 \notin 1 .. i - 1 BY <1>2, <2>3, Zenon
      <3> QED BY <1>2, <3>1, SMT
    <2>5. /\ client_addrs_pos' = opens /\ client_addrs' = client_addrs \cup {opens}
          /\ caddr' = [caddr EXCEPT ![c] = BlockStart + opens]
      BY <1>2, <2>3, <2>4, Zenon
    <2>6. client_addrs_pos' = IF opens' = 0 THEN BlockLen - 1 ELSE opens' - 1 BY <1>3, <1>5, <2>5, SMT
    <2>7. client_addrs' \subseteq 0 .. opens' - 1
      <3>1. client_addrs \subseteq 0 .. opens - 1 BY <2>2, Zenon DEF HandedOut
      <3>2. 0 .. opens - 1 \subseteq 0 .. opens' - 1 /\ opens \in 0 .. opens' - 1 BY <1>3, <1>5, SMT
      <3> QED BY <2>5, <3>1, <3>2, Zenon
    <2>8. \A d \in Clients : caddr'[d] = IF d = c THEN BlockStart + opens ELSE caddr[d] BY <1>5, <2>5, Zenon
    <2>9. \A d \in Clients : caddr[d] # BlockStart + opens
      <3> SUFFICES ASSUME NEW d \in Clients, caddr[d] = BlockStart + opens PROVE FALSE BY Zenon
      <3>1. caddr[d] # 0 /\ caddr[d] - BlockStart = opens BY <1>5, BlockBounds, SMT
      <3>2. opens \in 0 .. opens - 1 BY <2>2, <3>1, Zenon DEF HandedOut
      <3> QED BY <1>5, <3>2, SMT
    <2>10. \A d \in Clients : caddr'[d] # 0 => caddr'[d] - BlockStart \in client_addrs'
      <3>1. ASSUME NEW d \in Clients, caddr'[d] # 0 PROVE caddr'[d] - BlockStart \in client_addrs'
        <4>1. CASE d = c
          <5>1. caddr'[d] = BlockStart + opens BY <2>8, <4>1, Zenon
          <5>2. caddr'[d] - BlockStart = opens BY <1>5, <5>1, BlockBounds, SMT
          <5> QED BY <2>5, <5>2
        <4>2. CASE d # c
          <5>1. caddr'[d] = caddr[d] BY <2>8, <4>2, Zenon
          <5>2. caddr[d] - BlockStart \in client_addrs BY <2>2, <3>1, <5>1, Zenon DEF HandedOut
          <5> QED BY <2>5, <5>1, <5>2
        <4> QED BY <4>1, <4>2
      <3> QED BY <3>1, Zenon
    <2>11. \A d, e \in Clients : caddr'[d] # 0 /\ caddr'[d] = caddr'[e] => d = e
      BY <2>2, <2>8, <2>9, Zenon DEF HandedOut
    <2>12. ASSUME NEW n \in DOMAIN origin, origin[n].frame.source \in Block
           PROVE  /\ origin[n].frame.source - BlockStart < opens'
                  /\ \A d \in Clients : caddr'[d] = origin[n].frame.source => origin[n].from = d
      <3>1. origin[n].frame.source \in Nat
        <4>1. origin[n] \in Sent BY <1>1, SMT DEF NTyped
        <4> QED BY <4>1, SMT DEF Sent, Frame
      <3>2. origin[n].frame.source - BlockStart < opens BY <2>2, <2>12, Zenon DEF HandedOut
      <3>3. /\ origin[n].frame.source - BlockStart < opens' /\ origin[n].frame.source # BlockStart + opens
        BY <1>3, <1>5, <3>1, <3>2, BlockBounds, SMT
      <3> QED BY <2>2, <2>8, <2>12, <3>3, Zenon DEF HandedOut
    <2> QED BY <1>3, <2>6, <2>7, <2>10, <2>11, <2>12 DEF HandedOut
  <1> QED BY <1>6, <1>8, <1>9, <1>10, <1>11, <1>12, Zenon DEF NInv
\* A client leaves and its address is free again (Router::release_client_addr).
LEMMA CloseInv ==
  ASSUME NInv, NEW c \in Clients, Close(c), UNCHANGED Attached
  PROVE  NInv'
  <1>1. NTyped /\ UnderWay BY DEF NInv
  <1>2. /\ caddr[c] # 0 /\ client_addrs' = client_addrs \ {caddr[c] - BlockStart}
        /\ caddr' = [caddr EXCEPT ![c] = 0]
        /\ UNCHANGED <<addrs, buf, inbox, client_addrs_pos, got, on, origin, opens, Attached>>
    BY Zenon DEF Close
  <1>3. caddr \in [Clients -> Nat] BY <1>1 DEF NTyped
  <1>4. \A d \in Clients : caddr'[d] = IF d = c THEN 0 ELSE caddr[d] BY <1>2, <1>3, Zenon
  <1>5. NTyped'
    <2>1. caddr' \in [Clients -> Nat] BY <1>2, <1>3, SMT
    <2> QED BY <1>1, <1>2, <2>1, Zenon DEF NTyped
  <1>6. \A l : Genuine(l) => Genuine(l)' BY <1>2, NothingSent, Zenon
  <1>7. UnderWay' BY <1>1, <1>2, <1>6, Zenon DEF UnderWay
  <1>8. NoStrayAnswer' BY <1>1, <1>2, NothingSent, StillRight, Zenon DEF NInv
  <1>9. BlockStaysLocal' /\ (~force_broadcast => HopsCounted')
    BY <1>2, Zenon DEF NInv, BlockStaysLocal, HopsCounted
  <1>10. ASSUME opens' <= BlockLen PROVE HandedOut'
    <2>1. HandedOut BY <1>2, <1>10, Zenon DEF NInv
    <2>2. client_addrs' \subseteq 0 .. opens' - 1 BY <1>2, <2>1, Zenon DEF HandedOut
    <2>3. ASSUME NEW d \in Clients, caddr'[d] # 0 PROVE caddr'[d] - BlockStart \in client_addrs'
      <3>1. d # c /\ caddr'[d] = caddr[d] BY <1>4, <2>3, Zenon
      <3>2. caddr[d] - BlockStart \in client_addrs /\ caddr[d] # caddr[c]
        BY <1>2, <2>1, <2>3, <3>1, Zenon DEF HandedOut
      <3>3. caddr[d] - BlockStart # caddr[c] - BlockStart
        <4>1. caddr[c] \in Nat /\ caddr[d] \in Nat BY <1>3, Zenon
        <4> QED BY <3>2, <4>1, BlockBounds, SMT
      <3> QED BY <1>2, <3>1, <3>2, <3>3
    <2>4. \A d, e \in Clients : caddr'[d] # 0 /\ caddr'[d] = caddr'[e] => d = e
      BY <1>4, <2>1, Zenon DEF HandedOut
    <2>5. 0 \notin Block BY BlockBounds, SMT DEF Block
    <2>6. \A n \in DOMAIN origin : origin[n].frame.source \in Block =>
             \A d \in Clients : caddr'[d] = origin[n].frame.source => origin[n].from = d
      BY <1>4, <2>1, <2>5, Zenon DEF HandedOut
    <2> QED BY <1>2, <2>1, <2>2, <2>3, <2>4, <2>6 DEF HandedOut
  <1> QED BY <1>5, <1>7, <1>8, <1>9, <1>10, Zenon DEF NInv

\* The ignore list and the clock are no part of the invariant.
LEMMA OthersKeep ==
  ASSUME NInv, UNCHANGED <<Attached, addrs, buf, inbox, caddr, client_addrs, client_addrs_pos, got, on,
                           origin, opens>>
  PROVE  NInv'
  <1>1. \A l : Genuine(l) => Genuine(l)' BY NothingSent, Zenon
  <1>2. NTyped' BY Zenon DEF NInv, NTyped
  <1>3. UnderWay' BY <1>1, Zenon DEF NInv, UnderWay
  <1>4. NoStrayAnswer' BY NothingSent, StillRight, Zenon DEF NInv
  <1>5. opens' <= BlockLen => HandedOut' BY Zenon DEF NInv, HandedOut
  <1>6. BlockStaysLocal' /\ (~force_broadcast => HopsCounted') BY Zenon DEF NInv, BlockStaysLocal, HopsCounted
  <1> QED BY <1>2, <1>3, <1>4, <1>5, <1>6, Zenon DEF NInv

\* Nothing is under way at first.
LEMMA InitNInv == Init => NInv
  <1> SUFFICES ASSUME Init PROVE NInv OBVIOUS
  <1>1. <<>> \in Seq(Frame) /\ <<>> \in Seq(Sent) /\ DOMAIN <<>> = {} /\ 0 \in Nat /\ {} \subseteq Int BY SMT
  <1>2. BlockLen - 1 \in Int BY BlockBounds, SMT
  <1>3. NTyped
    <2>1. addrs \in [Routers -> [Media -> SUBSET Nat]] BY DEF Init
    <2>2. buf \in [Routers -> Seq(Frame)] /\ inbox \in [Routers -> [Media -> Seq(Frame)]] BY <1>1, Zenon DEF Init
    <2>3. caddr \in [Clients -> Nat] /\ got \in [Clients -> SUBSET Frame] BY <1>1, Zenon DEF Init
    <2> QED BY <1>1, <1>2, <2>1, <2>2, <2>3, Zenon DEF Init, NTyped
  <1>4. UnderWay BY <1>1, Zenon DEF Init, UnderWay
  <1>5. BlockStaysLocal
    <2>1. Gate \in Routers BY NetworkAssumption, Zenon
    <2>2. \A m \in Media : addrs[Gate][m] = {} BY <2>1, Zenon DEF Init
    <2> QED BY <2>2, Zenon DEF BlockStaysLocal
  <1>6. NoStrayAnswer BY Zenon DEF Init, NoStrayAnswer
  <1>7. HopsCounted BY Zenon DEF Init, HopsCounted
  <1>8. HandedOut
    <2>1. \A c \in Clients : caddr[c] = 0 BY Zenon DEF Init
    <2> QED BY <1>1, <2>1, Zenon DEF Init, HandedOut
  <1> QED BY <1>3, <1>4, <1>5, <1>6, <1>7, <1>8, Zenon DEF NInv

\* Each action keeps the invariant of the network.
LEMMA NextNInv == NInv /\ [Next]_vars => NInv'
  <1> SUFFICES ASSUME NInv, [Next]_vars PROVE NInv' OBVIOUS
  <1>1. NTyped /\ UnderWay BY DEF NInv
  <1>2. Group \in Nat /\ Dests \subseteq Nat /\ Dests \cap Block = {}
    <2>1. /\ Group \in Nat /\ Dests \subseteq 1 .. Unprogrammed
          /\ Block \cap (Device \cup Dests \cup {RouterAddr[r] : r \in Routers}) = {}
      BY NetworkAssumption, Zenon
    <2>2. 1 .. Unprogrammed \subseteq Nat BY SMT DEF Unprogrammed
    <2> QED BY <2>1, <2>2, Zenon
  <1>3. CASE UNCHANGED vars BY <1>3, OthersKeep, Zenon DEF vars
  <1>4. CASE Next
    <2> USE <1>4 DEF Next
    <2>1. ASSUME NEW d \in Device, NEW h \in Hops, DeviceSend(d, Group, TRUE, h) PROVE NInv'
      BY <1>2, <2>1, DeviceSendInv, Zenon
    <2>2. ASSUME NEW d \in Device, NEW e \in Dests, NEW h \in Hops, DeviceSend(d, e, FALSE, h) PROVE NInv'
      <3>1. e \in Nat /\ e \notin Block BY <1>2, Zenon
      <3> QED BY <2>2, <3>1, DeviceSendInv, Zenon
    <2>3. ASSUME NEW i \in Answerable, NEW h \in Hops,
                 DeviceSend(origin[i].frame.dest, origin[i].frame.source, FALSE, h)
          PROVE  NInv'
      <3>1. i \in DOMAIN origin /\ origin[i].frame.source \in Block /\ origin[i].frame.dest \in Device
        BY Zenon DEF Answerable
      <3>2. origin[i].frame.source \in Nat
        <4>1. origin[i] \in Sent BY <1>1, <3>1, SMT DEF NTyped
        <4> QED BY <4>1, SMT DEF Sent, Frame
      <3>3. Asked(origin[i].frame.source) BY <1>1, <3>1, Zenon DEF Asked, UnderWay
      <3>4. PICK d \in Device, a \in Nat : d = origin[i].frame.dest /\ a = origin[i].frame.source
        BY <3>1, <3>2, Zenon
      <3>5. Asked(a) /\ DeviceSend(d, a, FALSE, h) BY <2>3, <3>3, <3>4, Zenon
      <3> QED BY <3>5, DeviceSendInv, Zenon
    <2>4. ASSUME NEW i \in DOMAIN origin, DeviceRepeat(i) PROVE NInv'
      BY <2>4, DeviceRepeatInv, Zenon
    <2>5. ASSUME NEW r \in Routers, NEW m \in Links(r), BusRecv(r, m) PROVE NInv'
      BY <2>5, BusRecvInv, Zenon
    <2>6. ASSUME NEW c \in Clients, ClientSend(c, Group, TRUE) PROVE NInv'
      BY <1>2, <2>6, ClientSendInv, Zenon
    <2>7. ASSUME NEW c \in Clients, NEW e \in Dests, ClientSend(c, e, FALSE) PROVE NInv'
      <3>1. e \in Nat /\ e \notin Block BY <1>2, Zenon
      <3> QED BY <2>7, <3>1, ClientSendInv, Zenon
    <2>8. ASSUME NEW r \in Routers, NEW ends, Route(r, ends) PROVE NInv'
      BY <2>8, RouteInv, Zenon
    <2>9. ASSUME NEW r \in Routers, Expire(r) PROVE NInv'
      BY <2>9, OthersKeep, Zenon DEF Expire
    <2>10. ASSUME NEW c \in Clients, Open(c) \/ Close(c) PROVE NInv'
      BY <2>10, OpenInv, CloseInv, Zenon
    <2> QED BY <2>1, <2>2, <2>3, <2>4, <2>5, <2>6, <2>7, <2>8, <2>9, <2>10, Zenon DEF Step
  <1> QED BY <1>3, <1>4, Zenon

\* The inductive invariant of the network.
LEMMA NetworkInductive == Spec => []NInv
  BY InitNInv, NextNInv, PTL DEF Spec

\* Whatever joins the media, no bus link of the gate learns an address of the client
\* block: Router::recv_L_Data refuses the telegram before it would.
THEOREM BlockIsLocal == Spec => []BlockStaysLocal
  <1>1. NInv => BlockStaysLocal BY DEF NInv
  <1> QED BY <1>1, NetworkInductive, PTL

\* For a block of any size and clients that come and go at any time, an answer on its
\* way to a client that has gone is never given to another, as long as
\* get_client_addr has not been through the whole block.
THEOREM AnswersAreOwn == Spec => []NoStrayAnswer
  <1>1. NInv => NoStrayAnswer BY DEF NInv
  <1> QED BY <1>1, NetworkInductive, PTL

\* Every router a telegram has crossed has taken one from its hop count, so that no
\* arrangement of media keeps a telegram going for ever; this needs force_broadcast
\* to be off.
THEOREM HopsAreCounted == ASSUME ~force_broadcast PROVE Spec => []HopsCounted
  <1>1. NInv => HopsCounted BY DEF NInv
  <1> QED BY <1>1, NetworkInductive, PTL
=============================================================================
