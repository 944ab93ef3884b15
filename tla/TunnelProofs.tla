---------------------------- MODULE TunnelProofs -----------------------------
(***************************************************************************)
(* What the two ends of a tunnel promise each other, for bytes counted     *)
(* modulo anything from 2 on, any limits, any number of packets,           *)
(* connections and reconnections, and a network that loses and duplicates: *)
(* neither side falls asleep (Awake), packets arrive in order and at most  *)
(* once (InOrder), and what was acknowledged has arrived (AckedDelivered). *)
(***************************************************************************)
EXTENDS TunnelSteps

\* A TUNNEL_REQUEST with the expected number or the one before is acknowledged.
LEMMA RequestLocal ==
  ASSUME Local, tunnel_request, cl.mod # 0, Head(toC).ch = cl.channel,
         Head(toC).seqno = cl.rno \/ Inc(Head(toC).seqno) = cl.rno
  PROVE  /\ Local' /\ Recv("req") /\ UNCHANGED <<server, sentC, ackedC, starts>>
         /\ \E x : Moves(toS, toS', {x}) /\ x.type = "ack" /\ x.ch = cl.channel /\ x.seqno = Head(toC).seqno
         /\ cl'.link = cl.link /\ cl'.mod = cl.mod /\ cl'.channel = cl.channel /\ cl'.sno = cl.sno /\ cl'.owed = cl.owed
         /\ cl'.rno = IF Head(toC).seqno = cl.rno THEN Inc(cl.rno) ELSE cl.rno
         /\ gotC' = IF Head(toC).seqno = cl.rno /\ Head(toC).cemi.kind = "ind" THEN Append(gotC, Head(toC).cemi.p)
                    ELSE gotC
  <1> DEFINE m == Head(toC)
             x == Ack(cl.channel, m.seqno, TRUE)
  <1>1. Recv("req") /\ UNCHANGED <<server, sentC, ackedC, starts>> BY Zenon DEF tunnel_request
  <1>2. /\ toC' \in Seq(MsgC) /\ Len(toC') <= MaxNet /\ m.seqno \in Seqno /\ m.cemi \in Cemi
    <2>1. m \in MsgC /\ m.type = "req" /\ toC' \in Seq(MsgC) /\ Len(toC') <= MaxNet BY <1>1, RecvFacts, Zenon
    <2> QED BY <2>1, MsgTypes, Zenon
  <1>3. cl.rno \in Seqno /\ Inc(cl.rno) \in Seqno /\ cl.channel \in Int BY LocalIs, IncFacts, Zenon
  <1>4. m.seqno = cl.rno => ~(m.seqno >= cl.rno + 5) BY <1>3, FarOff, Zenon
  <1>5. /\ toS' = Put(toS, x)
        /\ cl' = IF m.seqno = cl.rno THEN [cl EXCEPT !.rno = Inc(@)] ELSE cl
        /\ gotC' = IF m.seqno = cl.rno /\ m.cemi.kind = "ind" THEN Append(gotC, m.cemi.p) ELSE gotC
    BY <1>4, Zenon DEF tunnel_request
  <1>6. x \in MsgS /\ x.type = "ack" /\ x.ch = cl.channel /\ x.seqno = m.seqno BY <1>2, <1>3, AckIs, Zenon
  <1> HIDE DEF x
  <1>7. toS' \in Seq(MsgS) /\ Len(toS') <= MaxNet /\ Moves(toS, toS', {x}) BY <1>5, <1>6, LocalIs, PutMoves, Zenon
  <1>8. gotC' \in Seq(Nat)
    <2>1. m.cemi.p \in Nat /\ gotC \in Seq(Nat) BY <1>2, LocalIs, SMT DEF Cemi
    <2>2. Append(gotC, m.cemi.p) \in Seq(Nat) BY <2>1, SMT
    <2> QED BY <1>5, <2>1, <2>2, Zenon
  <1> HIDE DEF m
  <1>9. /\ cl' \in Client /\ cl'.link = cl.link /\ cl'.mod = cl.mod /\ cl'.channel = cl.channel /\ cl'.sno = cl.sno
        /\ cl'.owed = cl.owed /\ cl'.out = cl.out /\ cl'.trigger = cl.trigger /\ cl'.timeout = cl.timeout
        /\ cl'.conntimeout = cl.conntimeout /\ cl'.rno = IF m.seqno = cl.rno THEN Inc(cl.rno) ELSE cl.rno
    <2>1. CASE m.seqno # cl.rno BY <1>5, <2>1, LocalIs, Zenon
    <2>2. CASE m.seqno = cl.rno
      <3>1. cl' = [cl EXCEPT !.rno = Inc(cl.rno)] BY <1>5, <2>2, Zenon
      <3>a. DOMAIN cl' = DOMAIN cl /\ cl' = [y \in DOMAIN cl' |-> cl'[y]] BY <3>1, Zenon
      <3>3. /\ cl'.link = cl.link /\ cl'.mod = cl.mod /\ cl'.channel = cl.channel /\ cl'.sno = cl.sno
            /\ cl'.owed = cl.owed /\ cl'.out = cl.out /\ cl'.trigger = cl.trigger /\ cl'.timeout = cl.timeout
            /\ cl'.conntimeout = cl.conntimeout /\ cl'.rno = Inc(cl.rno)
            /\ cl'.retry = cl.retry /\ cl'.heartbeat = cl.heartbeat /\ cl'.bound = cl.bound
        BY <3>1, LocalIs, SMT DEF Client
      <3>2. cl' \in Client BY <1>3, <3>a, <3>3, LocalIs, ClientIs, ZenonT(20)
      <3> QED BY <2>2, <3>2, <3>3, Zenon
    <2> QED BY <2>1, <2>2
  <1>10. ClientOK' BY <1>1, <1>9, Zenon DEF Local, ClientOK, Open
  <1>11. Local' BY <1>1, <1>2, <1>7, <1>8, <1>9, <1>10, Zenon DEF Local, Typed, TypeOK, server
  <1> QED BY <1>1, <1>5, <1>6, <1>7, <1>9, <1>11, Zenon DEF m

\* One more packet for the router.
LEMMA OneMore ==
  ASSUME NEW s \in Seq(Nat), NEW p \in Nat
  PROVE  /\ Append(s, p) \in Seq(Nat)
         /\ \A i \in DOMAIN Append(s, p) : (i \in DOMAIN s /\ Append(s, p)[i] = s[i]) \/ Append(s, p)[i] = p
         /\ (\E i \in DOMAIN Append(s, p) : Append(s, p)[i] = p)
         /\ \A i \in DOMAIN s : i \in DOMAIN Append(s, p) /\ Append(s, p)[i] = s[i]
         /\ Increasing(s) /\ (\A i \in DOMAIN s : s[i] < p) => Increasing(Append(s, p))
  <1>1. /\ Append(s, p) \in Seq(Nat)
        /\ \A i \in DOMAIN Append(s, p) : (i \in DOMAIN s /\ Append(s, p)[i] = s[i]) \/ Append(s, p)[i] = p
        /\ \A i \in DOMAIN s : i \in DOMAIN Append(s, p) /\ Append(s, p)[i] = s[i]
        /\ Len(s) + 1 \in DOMAIN Append(s, p) /\ Append(s, p)[Len(s) + 1] = p
    BY SMT
  <1>2. ASSUME Increasing(s), \A i \in DOMAIN s : s[i] < p PROVE Increasing(Append(s, p))
    BY <1>2, SMT DEF Increasing
  <1> QED BY <1>1, <1>2, Zenon

\* The server's packet arrives, for the first time or again, and is acknowledged.
LEMMA RequestStep ==
  ASSUME TInv, tunnel_request, cl.mod # 0, Head(toC).ch = cl.channel,
         Head(toC).seqno = cl.rno \/ Inc(Head(toC).seqno) = cl.rno
  PROVE  TInv'
  <1>1. Local /\ SessionInv /\ DownInv /\ UpInv BY DEF TInv
  <1>2. PICK m, q, ch : m = Head(toC) /\ q = cl.rno /\ ch = cl.channel BY Zenon
  <1>3. /\ Local' /\ Recv("req") /\ UNCHANGED <<conn, sentS, gotS, sentC, ackedC, starts>>
        /\ cl'.link = cl.link /\ cl'.mod = cl.mod /\ cl'.channel = ch /\ cl'.sno = cl.sno /\ cl'.owed = cl.owed
        /\ cl'.rno = IF m.seqno = q THEN Inc(q) ELSE q
        /\ gotC' = IF m.seqno = q /\ m.cemi.kind = "ind" THEN Append(gotC, m.cemi.p) ELSE gotC
    BY <1>1, <1>2, RequestLocal, Zenon DEF server
  <1>4. PICK x : Moves(toS, toS', {x}) /\ x.type = "ack" /\ x.ch = ch /\ x.seqno = m.seqno
    BY <1>1, <1>2, RequestLocal, Zenon
  <1>5. /\ m \in In(toC) /\ m.type = "req" /\ Moves(toC, toC', {})
        /\ \A y \in In(toC') : y = m \/ Behind(toC, m, y)
    BY <1>1, <1>2, <1>3, RecvFacts, Zenon
  <1>6. /\ \A y \in In(toS') : y \in In(toS) \/ y = x
        /\ \A a, b : Behind(toS', a, b) => Behind(toS, a, b) \/ (a \in In(toS) /\ b = x)
    <2>1. Moves(toS, toS', {x}) BY <1>4
    <2> QED BY ONLY <2>1, PutOne, Zenon
  <1>8. Open /\ Open' /\ ch \in Channels /\ cl'.mod # 0
    BY <1>1, <1>2, <1>3, Connected, Zenon DEF Local, ClientOK, Open
  <1> DEFINE M == {x}
             none == {}
  <1>9. /\ Moves(toS, toS', M) /\ \A y \in M : y.type # "conn" /\ y.type # "req" /\ y.ch = cl.channel
        /\ Moves(toC, toC', none) /\ \A y : y \notin none
    <2>1. \A y \in M : y.type # "conn" /\ y.type # "req" /\ y.ch = cl.channel BY <1>2, <1>4, Zenon
    <2> QED BY <1>4, <1>5, <2>1
  <1> HIDE DEF M, none
  <1>7. /\ \A y \in In(toC') : y \in In(toC)
        /\ \A a, b : Behind(toC', a, b) => Behind(toC, a, b) /\ a \in In(toC')
    <2>1. \A a, b : Behind(toC', a, b) => a \in In(toC') BY Zenon DEF Behind, In
    <2>2. \A a, b : Behind(toC', a, b) => Behind(toC, a, b) BY <1>9, Zenon DEF Moves
    <2>3. \A y \in In(toC') : y \in In(toC) BY <1>9, Zenon DEF Moves
    <2> QED BY <2>1, <2>2, <2>3, Zenon
  <1>10. SessionInv' BY <1>1, <1>2, <1>3, <1>5, <1>8, <1>9, SessionConnected, Zenon
  <1>11. UpInv'
    <2>1. conn'[cl.channel].open => conn[cl.channel].open /\ conn'[cl.channel].rno = conn[cl.channel].rno
      BY <1>3, Zenon
    <2> QED BY <1>1, <1>2, <1>3, <1>9, <2>1, UpKept, Zenon
  <1>12. /\ q \in Seqno /\ Inc(q) \in Seqno /\ Inc(q) # q /\ m.seqno \in Seqno /\ Inc(m.seqno) # m.seqno
         /\ m.cemi.p \in Nat /\ gotC \in Seq(Nat)
         /\ conn[ch].open => conn[ch].sno \in Seqno /\ Inc(conn[ch].sno) # conn[ch].sno
    BY <1>1, <1>2, <1>5, <1>8, LocalIs, ReqTypes, ConnTypes, IncFacts, Zenon
  <1>13. Down(ch, q) BY <1>1, <1>2, Zenon DEF DownInv
  <1>14. CASE m.seqno = q
    <2>1. cl'.rno = Inc(q) BY <1>3, <1>14, Zenon
    <2>2. \A y \in In(toC') : y.type = "req" => y.seqno = q BY <1>5, <1>13, <1>14, Zenon DEF Down
    <2>3. Newer(m.cemi) BY <1>5, <1>12, <1>13, <1>14, Zenon DEF Down
    <2>4. /\ m.cemi.kind = "ind" => \A i \in DOMAIN gotC : gotC[i] < m.cemi.p
          /\ m.cemi.kind = "ind" => m.cemi.p <= sentS
      BY <1>1, <1>5, <2>3, Zenon DEF Newer, DownInv
    <2>5. /\ \A i \in DOMAIN gotC' : (i \in DOMAIN gotC /\ gotC'[i] = gotC[i]) \/ (m.cemi.kind = "ind" /\ gotC'[i] = m.cemi.p)
          /\ Increasing(gotC')
      <3>1. Increasing(gotC) BY <1>1, Zenon DEF DownInv
      <3>2. CASE m.cemi.kind = "ind"
        <4>1. gotC' = Append(gotC, m.cemi.p) BY <1>3, <1>14, <3>2, Zenon
        <4>2. \A i \in DOMAIN Append(gotC, m.cemi.p) : \/ i \in DOMAIN gotC /\ Append(gotC, m.cemi.p)[i] = gotC[i]
                                                       \/ Append(gotC, m.cemi.p)[i] = m.cemi.p
          BY <1>12, OneMore, Zenon
        <4>3. Increasing(Append(gotC, m.cemi.p)) BY <1>12, <2>4, <3>1, <3>2, OneMore, Zenon
        <4>4. Increasing(gotC') BY <4>1, <4>3
        <4>5. \A i \in DOMAIN gotC' : (i \in DOMAIN gotC /\ gotC'[i] = gotC[i]) \/ gotC'[i] = m.cemi.p
          BY <4>1, <4>2, Zenon
        <4> QED BY <3>2, <4>4, <4>5, Zenon
      <3>3. CASE m.cemi.kind # "ind"
        <4>1. gotC' = gotC BY <1>3, <3>3, Zenon
        <4>2. Increasing(gotC') BY <3>1, <4>1
        <4> QED BY <4>1, <4>2, Zenon
      <3> QED BY <3>2, <3>3
    <2>6. ASSUME conn[ch].open, ~conn[ch].stopped PROVE Synced(conn[ch], Inc(q))'
      <3> DEFINE s == conn[ch]
      <3>1. Synced(s, q) BY <1>13, <2>6, Zenon DEF Down
      <3>2. s.sno \in Seqno /\ Inc(s.sno) # s.sno BY <1>12, <2>6
      <3>3. /\ s.sno = q /\ \A i \in DOMAIN s.out : Newer(s.out[i])
            /\ \A y \in In(toS) : y.type = "ack" => Inc(y.seqno) = q
            /\ s.retries # 0 /\ m.cemi = Head(s.out)
        BY <1>5, <1>14, <3>1, <3>2, Zenon DEF Synced
      <3>4. InTurn(s.out) /\ s.out \in Seq(Cemi) /\ ConnOK(s) BY <1>1, <1>8, <2>6, ConnTypes, Zenon DEF DownInv
      <3>5. s.out # <<>> BY <2>6, <3>3, <3>4, Zenon DEF ConnOK
      <3>6. 1 \in DOMAIN s.out /\ Head(s.out) = s.out[1] /\ \A i \in DOMAIN s.out : i # 1 => 1 < i
        BY <3>4, <3>5, SMT
      <3>7. ASSUME NEW i \in DOMAIN s.out, i # 1, s.out[i].kind = "ind", NEW j \in DOMAIN gotC'
            PROVE  gotC'[j] < s.out[i].p
        <4>1. CASE j \in DOMAIN gotC /\ gotC'[j] = gotC[j] BY <3>3, <3>7, <4>1, Zenon DEF Newer
        <4>2. CASE m.cemi.kind = "ind" /\ gotC'[j] = m.cemi.p
          <5>1. s.out[1].kind = "ind" /\ s.out[1].p = m.cemi.p /\ 1 < i BY <3>3, <3>6, <3>7, <4>2, Zenon
          <5> QED BY <3>4, <3>6, <3>7, <4>2, <5>1, Zenon DEF InTurn
        <4> QED BY <2>5, <4>1, <4>2, Zenon
      <3>8. \A i \in DOMAIN s.out : i # 1 => Newer(s.out[i])' BY <1>3, <3>7, Zenon DEF Newer
      <3>9. \A y \in In(toS') : y.type = "ack" => y.seqno = q \/ Inc(y.seqno) = q BY <1>4, <1>6, <1>14, <3>3, Zenon
      <3>10. \A a, b : Behind(toS, a, b) => a \in In(toS) BY Zenon DEF Behind, In
      <3>11. \A a, b : Behind(toS', a, b) /\ a.type = "ack" /\ b.type = "ack" /\ a.seqno = q => b.seqno = q
        BY <1>6, <1>12, <3>3, <3>10, Zenon
      <3> HIDE DEF s
      <3>12. (/\ Inc(s.sno) = Inc(q) /\ s.retries # 0 /\ \A i \in DOMAIN s.out : i # 1 => Newer(s.out[i])
              /\ \A y \in In(toC) : y.type = "req" => y.seqno = s.sno
              /\ \A y \in In(toS) : y.type = "ack" => y.seqno = s.sno \/ Inc(y.seqno) = s.sno
              /\ \A a, b : Behind(toS, a, b) /\ a.type = "ack" /\ b.type = "ack" /\ a.seqno = s.sno => b.seqno = s.sno)'
        <4>1. s' = s BY <1>3, Zenon DEF s
        <4> QED BY <2>2, <3>3, <3>8, <3>9, <3>11, <4>1, Zenon
      <3> QED BY <3>12, Zenon DEF s, Synced
    <2>7. Down(ch, Inc(q))'
      <3>1. (\A y \in In(toC) : y.type = "req" => Inc(y.seqno) = Inc(q) /\ y.seqno # Inc(q))'
        BY <1>12, <2>2, Zenon
      <3>2. (\A a, b : Behind(toC, a, b) /\ a.type = "req" => a.seqno # Inc(q))' BY <1>7, <3>1, Zenon
      <3>3. (conn[ch].open /\ ~conn[ch].stopped => Synced(conn[ch], Inc(q)))' BY <1>3, <2>6, Zenon
      <3> QED BY <3>1, <3>2, <3>3, Zenon DEF Down
    <2>8. (cl.mod # 0 => Down(cl.channel, cl.rno))' BY <1>3, <2>1, <2>7, Zenon
    <2>9. \A i \in DOMAIN gotC' : gotC'[i] <= sentS BY <1>1, <2>4, <2>5, Zenon DEF DownInv
    <2>10. DownInv' BY <1>1, <1>3, <1>7, <2>5, <2>8, <2>9, Zenon DEF DownInv, InTurn
    <2> QED BY <1>3, <1>10, <1>11, <2>10 DEF TInv
  <1>15. CASE m.seqno # q
    <2>1. cl'.rno = q /\ gotC' = gotC /\ Inc(m.seqno) = q BY <1>2, <1>3, <1>15, Zenon
    <2>2. \A y : Newer(y)' <=> Newer(y) BY <2>1, Zenon DEF Newer
    <2>3. ASSUME conn[ch].open, ~conn[ch].stopped PROVE Synced(conn[ch], q)'
      <3> DEFINE s == conn[ch]
      <3>1. Synced(s, q) /\ conn'[ch] = s BY <1>3, <1>13, <2>3, Zenon DEF Down
      <3> HIDE DEF s
      <3>2. CASE /\ s.sno = q /\ \A i \in DOMAIN s.out : Newer(s.out[i])
                 /\ \A y \in In(toS) : y.type = "ack" => Inc(y.seqno) = q
                 /\ \A y \in In(toC) : y.type = "req" /\ y.seqno = q => s.retries # 0 /\ y.cemi = Head(s.out)
        <4>1. \A y \in In(toS') : y.type = "ack" => Inc(y.seqno) = q BY <1>4, <1>6, <2>1, <3>2, Zenon
        <4>2. \A y \in In(toC') : y.type = "req" /\ y.seqno = q => s.retries # 0 /\ y.cemi = Head(s.out)
          BY <1>7, <3>2, Zenon
        <4> QED BY <2>2, <3>1, <3>2, <4>1, <4>2, Zenon DEF Synced
      <3>3. CASE /\ Inc(s.sno) = q /\ s.retries # 0 /\ \A i \in DOMAIN s.out : i # 1 => Newer(s.out[i])
                 /\ \A y \in In(toC) : y.type = "req" => y.seqno = s.sno
                 /\ \A y \in In(toS) : y.type = "ack" => y.seqno = s.sno \/ Inc(y.seqno) = s.sno
                 /\ \A a, b : Behind(toS, a, b) /\ a.type = "ack" /\ b.type = "ack" /\ a.seqno = s.sno => b.seqno = s.sno
        <4>1. x.seqno = s.sno BY <1>4, <1>5, <3>3, Zenon
        <4>2. \A y \in In(toS') : y.type = "ack" => y.seqno = s.sno \/ Inc(y.seqno) = s.sno
          BY <1>6, <3>3, <4>1, Zenon
        <4>3. \A a, b : Behind(toS', a, b) /\ a.type = "ack" /\ b.type = "ack" /\ a.seqno = s.sno => b.seqno = s.sno
          BY <1>6, <3>3, <4>1, Zenon
        <4>4. \A y \in In(toC') : y.type = "req" => y.seqno = s.sno BY <1>7, <3>3, Zenon
        <4> QED BY <2>2, <3>1, <3>3, <4>2, <4>3, <4>4, Zenon DEF Synced
      <3> QED BY <3>1, <3>2, <3>3, Zenon DEF Synced, s
    <2>4. Down(ch, q)'
      <3>1. (\A y \in In(toC) : y.type = "req" => Inc(y.seqno) = q \/ (y.seqno = q /\ Newer(y.cemi)))'
        BY <1>7, <1>13, <2>2, Zenon DEF Down
      <3>2. (\A a, b : Behind(toC, a, b) /\ a.type = "req" /\ b.type = "req" /\ a.seqno = q => b.seqno = q)'
        BY <1>7, <1>13, Zenon DEF Down
      <3>3. (\A a, b \in In(toC) : a.type = "req" /\ b.type = "req" /\ a.seqno = q /\ b.seqno = q => a.cemi = b.cemi)'
        BY <1>7, <1>13, Zenon DEF Down
      <3>4. (conn[ch].open /\ ~conn[ch].stopped => Synced(conn[ch], q))' BY <1>3, <2>3, Zenon
      <3> QED BY <3>1, <3>2, <3>3, <3>4, Zenon DEF Down
    <2>5. (cl.mod # 0 => Down(cl.channel, cl.rno))' BY <1>3, <2>1, <2>4, Zenon
    <2>6. DownInv' BY <1>1, <1>3, <1>7, <2>1, <2>5, Zenon DEF DownInv, InTurn, Increasing
    <2> QED BY <1>3, <1>10, <1>11, <2>6 DEF TInv
  <1> QED BY <1>14, <1>15

\* When `more' holds in ConnState::tunnel_response.
LEMMA TailLeft ==
  ASSUME NEW S, NEW q \in Seq(S), q # <<>>
  PROVE  (Len(q) > 1) <=> (Tail(q) # <<>>)
  <1>1. Tail(q) \in Seq(S) /\ Len(Tail(q)) = Len(q) - 1 /\ Len(q) \in Nat /\ Len(q) # 0 BY SMT
  <1>2. \A r \in Seq(S) : Len(r) = 0 => r = <<>> BY SMT
  <1>3. Len(<<>>) = 0 BY SMT
  <1>4. ASSUME Len(q) > 1 PROVE Tail(q) # <<>>
    <2>1. \A n \in Nat : n > 1 => n - 1 # 0 BY SMT
    <2> QED BY <1>1, <1>3, <1>4, <2>1, Zenon
  <1>5. ASSUME Tail(q) # <<>> PROVE Len(q) > 1
    <2>1. Len(Tail(q)) # 0 BY <1>1, <1>2, <1>5, Zenon
    <2> QED BY <1>1, <2>1, SMT
  <1> QED BY <1>4, <1>5

\* The server's packet is acknowledged.
LEMMA AckedFacts ==
  ASSUME NEW s \in ConnStates, ConnOK(s), s.retries # 0
  PROVE  LET more == Len(s.out) > 1
             e == [s EXCEPT !.sno = Inc(@), !.out = Tail(@), !.sendtimeout = FALSE, !.retries = 0,
                            !.trigger = @ \/ more, !.do_send_next = @ /\ more]
         IN /\ e \in ConnStates /\ ConnOK(e) /\ e.open = s.open /\ e.port = s.port /\ e.rno = s.rno
            /\ e.stopped = s.stopped /\ e.sno = Inc(s.sno) /\ e.out = Tail(s.out)
  <1> DEFINE T == {TRUE}
             B == BOOLEAN
             S == Seq(Cemi)
             more == Len(s.out) > 1
             no == FALSE
             i == Inc(s.sno)
             v == Tail(s.out)
             t == s.trigger \/ more
             d == s.do_send_next /\ more
             e == [s EXCEPT !.sno = i, !.out = v, !.sendtimeout = no, !.retries = 0, !.trigger = t, !.do_send_next = d]
  <1> SUFFICES /\ e \in ConnStates /\ ConnOK(e) /\ e.open = s.open /\ e.port = s.port /\ e.rno = s.rno
               /\ e.stopped = s.stopped /\ e.sno = i /\ e.out = v
    BY Zenon
  <1>1. s \in Conns(T, B, S) BY ConnSets, Zenon
  <1>a. s.out \in Seq(Cemi) /\ s.sno \in Seqno /\ s.trigger \in BOOLEAN /\ s.do_send_next \in BOOLEAN BY <1>1, ConnFields, Zenon
  <1>b. ~s.stopped /\ s.out # <<>> BY Zenon DEF ConnOK
  <1>c. v \in S /\ (more <=> v # <<>>)
    <2>1. v \in S BY <1>a, <1>b, TailFacts, Zenon
    <2>2. more <=> v # <<>> BY <1>a, <1>b, TailLeft, Zenon
    <2> QED BY <2>1, <2>2
  <1>d. i \in Seqno /\ no \in B /\ 0 \in 0..3 /\ t \in B /\ d \in B /\ (t <=> s.trigger \/ more) /\ (d <=> s.do_send_next /\ more) /\ ~no
        /\ 0 \notin {1, 3} /\ 0 # 2 /\ 0 \in {0, 2}
    <2>1. i \in Seqno BY <1>a, IncFacts, Zenon
    <2>2. 0 \in 0..3 /\ 0 \notin {1, 3} /\ 0 # 2 /\ 0 \in {0, 2} BY SMT
    <2>3. t \in B /\ d \in B /\ no \in B BY Zenon
    <2> QED BY <2>1, <2>2, <2>3, Zenon
  <1>e. e = [s EXCEPT !.sno = i, !.out = v, !.sendtimeout = no, !.retries = 0, !.trigger = t, !.do_send_next = d] OBVIOUS
  <1> HIDE DEF T, B, S, no, i, v, t, d, e
  <1>3. /\ e.sno = i /\ e.retries = 0 /\ e.out = v /\ e.trigger = t /\ e.sendtimeout = no
        /\ e.do_send_next = d
        /\ e.open = s.open /\ e.port = s.port /\ e.stopped = s.stopped /\ e.rno = s.rno
        /\ DOMAIN e = DOMAIN s
    BY <1>1, <1>e, SMT DEF Conns
  <1>4. e = [y \in DOMAIN e |-> e[y]] BY <1>e, Zenon
  <1>5. /\ s.open \in T /\ s.port \in Nat /\ s.stopped \in B /\ s.sno \in Seqno /\ s.rno \in Seqno
        /\ s.retries \in 0..3 /\ s.out \in S /\ s.trigger \in B /\ s.sendtimeout \in B /\ s.do_send_next \in B
    BY <1>1, ConnFields, Zenon
  <1>6. e.open \in T /\ e.port \in Nat /\ e.stopped \in B /\ e.sno \in Seqno /\ e.rno \in Seqno
    BY <1>3, <1>5, <1>c, <1>d, Zenon
  <1>7. e.retries \in 0..3 /\ e.out \in S /\ e.trigger \in B /\ e.sendtimeout \in B /\ e.do_send_next \in B
    BY <1>3, <1>5, <1>c, <1>d, Zenon
  <1>8. e \in Conns(T, B, S) BY <1>1, <1>3, <1>4, <1>6, <1>7, ConnIs, Zenon
  <1>9. e \in ConnStates BY <1>8, ConnSets, Zenon DEF T, B, S
  <1>10. ConnOK(e)
    <2>1. ~e.stopped /\ ~e.sendtimeout /\ e.retries = 0 /\ e.out = v /\ e.trigger = t /\ e.do_send_next = d
      BY <1>3, <1>b, <1>d, Zenon
    <2>2. (e.trigger <=> s.trigger \/ more) /\ (e.do_send_next <=> s.do_send_next /\ more) BY <2>1, <1>d, Zenon
    <2> QED BY <1>c, <1>d, <2>1, <2>2, Zenon DEF ConnOK
  <1> QED BY <1>3, <1>9, <1>10, Zenon

\* The ACK the server waited for (ConnState::tunnel_response).
LEMMA ResponseSLocal ==
  ASSUME Local, ConnState_tunnel_response, NEW ch \in Channels, ch = Head(toS).ch, conn[ch].open,
         Head(toS).seqno = conn[ch].sno, Head(toS).ok, conn[ch].retries # 0
  PROVE  /\ Local' /\ RecvS("ack") /\ UNCHANGED <<client, toC, sentS, gotS>>
         /\ \A c \in Channels : c # ch => conn'[c] = conn[c]
         /\ conn'[ch].open = TRUE /\ conn'[ch].port = conn[ch].port /\ conn'[ch].rno = conn[ch].rno
         /\ conn'[ch].stopped = conn[ch].stopped /\ conn'[ch].sno = Inc(conn[ch].sno)
         /\ conn'[ch].out = Tail(conn[ch].out)
  <1> DEFINE s == conn[ch]
             more == Len(s.out) > 1
             e == [s EXCEPT !.sno = Inc(@), !.out = Tail(@), !.sendtimeout = FALSE, !.retries = 0,
                            !.trigger = @ \/ more, !.do_send_next = @ /\ more]
  <1>1. /\ RecvS("ack") /\ UNCHANGED <<client, toC, sentS, gotS>>
        /\ conn' = [conn EXCEPT ![ch].sno = Inc(@), ![ch].out = Tail(@),
                                ![ch].sendtimeout = FALSE, ![ch].retries = 0,
                                ![ch].trigger = @ \/ Len(conn[ch].out) > 1,
                                ![ch].do_send_next = @ /\ Len(conn[ch].out) > 1]
    BY Zenon DEF ConnState_tunnel_response, Known
  <1>2. s \in ConnStates /\ ConnOK(s) /\ s.open = TRUE BY ConnTypes, Zenon
  <1>3. /\ e \in ConnStates /\ ConnOK(e) /\ e.open = s.open /\ e.port = s.port /\ e.rno = s.rno
        /\ e.stopped = s.stopped /\ e.sno = Inc(s.sno) /\ e.out = Tail(s.out)
    BY <1>2, AckedFacts, Zenon
  <1>4. conn' = [conn EXCEPT ![ch] = e] BY <1>1, LocalIs, Zenon
  <1> HIDE DEF e
  <1>5. /\ conn' \in [Channels -> ConnStates \cup {NoConn}] /\ conn'[ch] = e
        /\ \A c \in Channels : c # ch => conn'[c] = conn[c]
    BY <1>3, <1>4, OneConn, Zenon
  <1>6. toS' \in Seq(MsgS) /\ Len(toS') <= MaxNet BY <1>1, RecvSFacts, Zenon
  <1>7. \A c \in Channels : conn'[c].open => ConnOK(conn'[c]) BY <1>3, <1>5, Zenon DEF Local
  <1>8. Local' BY <1>1, <1>5, <1>6, <1>7, LocalIs, ServerLocal, Zenon
  <1> QED BY <1>1, <1>2, <1>3, <1>5, <1>8, Zenon

\* The ACK that the server waits for: its packet has arrived.
LEMMA ResponseSStep ==
  ASSUME TInv, ConnState_tunnel_response, Known(Head(toS).ch), Head(toS).seqno = conn[Head(toS).ch].sno,
         Head(toS).ok, conn[Head(toS).ch].retries # 0
  PROVE  TInv'
  <1>1. Local /\ SessionInv /\ DownInv /\ UpInv BY DEF TInv
  <1>2. PICK m, q, ch : m = Head(toS) /\ q = cl.rno /\ ch = Head(toS).ch BY Zenon
  <1>3. ch \in Channels /\ conn[ch].open BY <1>2, Zenon DEF Known
  <1> DEFINE s == conn[ch]
             t == conn'[ch]
  <1>4. /\ Local' /\ RecvS("ack") /\ UNCHANGED <<client, toC, sentS, gotS>>
        /\ \A c \in Channels : c # ch => conn'[c] = conn[c]
        /\ t.open = TRUE /\ t.port = s.port /\ t.rno = s.rno
        /\ t.stopped = s.stopped /\ t.sno = Inc(s.sno) /\ t.out = Tail(s.out)
    BY <1>1, <1>2, <1>3, ResponseSLocal, Zenon
  <1>5. UNCHANGED <<cl, sentC, gotC, ackedC, starts>> BY <1>4, Zenon DEF client
  <1>6. /\ m \in In(toS) /\ m.type = "ack" /\ Moves(toS, toS', {}) /\ Moves(toC, toC', {})
        /\ \A y \in In(toS') : y = m \/ Behind(toS, m, y)
    BY <1>1, <1>2, <1>4, RecvSFacts, StayMoves, Zenon
  <1> DEFINE none == {}
  <1>7. Moves(toS, toS', none) /\ Moves(toC, toC', none) /\ \A y : y \notin none BY <1>6
  <1> HIDE DEF none
  <1>8. ch = cl.channel BY <1>1, <1>2, <1>6, Zenon DEF SessionInv
  <1>9. /\ s.sno \in Seqno /\ Inc(s.sno) # s.sno /\ s.out \in Seq(Cemi) /\ InTurn(s.out) /\ s.out # <<>>
        /\ starts \in Nat /\ m.seqno = s.sno
    <2>1. ConnOK(s) /\ s.sno \in Seqno /\ s.out \in Seq(Cemi) BY <1>1, <1>3, ConnTypes, Zenon
    <2>2. s.out # <<>> BY <1>2, <2>1, Zenon DEF ConnOK
    <2> QED BY <1>1, <1>2, <1>3, <2>1, <2>2, IncFacts, LocalIs, Zenon DEF DownInv
  <1>10. \A c \in Channels : conn'[c].open => conn[c].open /\ conn'[c].port = conn[c].port /\ conn'[c].rno = conn[c].rno
    BY <1>3, <1>4, Zenon
  <1>11. UpInv' BY <1>1, <1>3, <1>4, <1>5, <1>7, <1>8, <1>10, UpKept, Zenon
  <1>12. SessionInv'
    <2>1. \A c \in Channels : conn[c].open => conn[c].port \in Nat BY <1>1, ConnTypes, Zenon
    <2>2. (Open' <=> Open) /\ (Unconnected' <=> Unconnected) BY <1>5, Zenon DEF Open, Unconnected
    <2>3. ~Open' => In(toC') = {} BY <1>1, <1>4, <2>2, Zenon DEF SessionInv
    <2>4. ~\A x \in In(toS) : x.type \notin {"conn", "req", "ack"} BY <1>6, Zenon
    <2> QED BY <1>1, <1>5, <1>7, <1>9, <1>10, <2>1, <2>2, <2>3, <2>4, SessionKept, Zenon
  <1>13. \A y : Newer(y)' <=> Newer(y) BY <1>5, Zenon DEF Newer
  <1>14. \A c \in Channels : conn'[c].open => InTurn(conn[c].out)'
    <2>1. \A z : InTurn(z)' <=> InTurn(z) BY <1>4, Zenon DEF InTurn
    <2>2. InTurn(Tail(s.out)) BY <1>9, TailInTurn, Zenon
    <2>4. ASSUME NEW c \in Channels, conn'[c].open PROVE InTurn(conn[c].out)'
      <3>1. InTurn(conn'[c].out)
        <4>1. CASE c = ch BY <1>4, <2>2, <4>1, Zenon
        <4>2. CASE c # ch BY <1>1, <1>4, <2>4, <4>2, Zenon DEF DownInv
        <4> QED BY <4>1, <4>2
      <3> QED BY <1>4, <3>1, Zenon DEF InTurn
    <2> QED BY <2>4
  <1>15. ASSUME cl.mod # 0, ~t.stopped PROVE Synced(conn[ch], q)'
    <2>1. Down(ch, q) BY <1>1, <1>2, <1>8, <1>15, Zenon DEF DownInv
    <2>2. Synced(s, q) BY <1>3, <1>4, <1>15, <2>1, Zenon DEF Down
    <2>3. /\ Inc(s.sno) = q /\ \A i \in DOMAIN s.out : i # 1 => Newer(s.out[i])
          /\ \A y \in In(toC) : y.type = "req" => y.seqno = s.sno
          /\ \A a, b : Behind(toS, a, b) /\ a.type = "ack" /\ b.type = "ack" /\ a.seqno = s.sno => b.seqno = s.sno
      BY <1>6, <1>9, <2>2, Zenon DEF Synced
    <2>4. \A y \in In(toS') : y.type = "ack" => y.seqno = s.sno BY <1>6, <1>9, <2>3, Zenon
    <2>a. \A i \in DOMAIN Tail(s.out) : i + 1 \in DOMAIN s.out /\ Tail(s.out)[i] = s.out[i + 1] /\ i + 1 # 1
      BY <1>9, TailFacts, Zenon
    <2>5. \A i \in DOMAIN t.out : i + 1 \in DOMAIN s.out /\ t.out[i] = s.out[i + 1] /\ i + 1 # 1
      BY <1>4, <2>a, Zenon
    <2>6. \A i \in DOMAIN t.out : Newer(t.out[i]) BY <2>3, <2>5, Zenon
    <2>7. (/\ conn[ch].sno = q /\ \A i \in DOMAIN conn[ch].out : Newer(conn[ch].out[i])
           /\ \A y \in In(toS) : y.type = "ack" => Inc(y.seqno) = q
           /\ \A y \in In(toC) : y.type = "req" => y.seqno # q)'
      BY <1>4, <1>9, <1>13, <2>3, <2>4, <2>6, Zenon
    <2> QED BY <2>7, Zenon DEF Synced
  <1>16. cl.mod # 0 => Down(ch, q)'
    <2>1. cl.mod # 0 => Down(ch, q) BY <1>1, <1>2, <1>8, Zenon DEF DownInv
    <2> QED BY <1>4, <1>13, <1>15, <2>1, Zenon DEF Down
  <1>17. (cl.mod # 0 => Down(cl.channel, cl.rno))' BY <1>2, <1>5, <1>8, <1>16, Zenon
  <1>18. DownInv' BY <1>1, <1>4, <1>5, <1>14, <1>17, Zenon DEF DownInv, Increasing
  <1> QED BY <1>4, <1>11, <1>12, <1>18 DEF TInv

\* The connection after send_trigger_cb.
LEMMA SentFacts ==
  ASSUME NEW s \in ConnStates, ConnOK(s), s.trigger, s.out # <<>>
  PROVE  LET e == [s EXCEPT !.trigger = FALSE, !.retries = @ + 1, !.sendtimeout = TRUE]
         IN /\ e \in ConnStates /\ ConnOK(e) /\ e.open = s.open /\ e.port = s.port /\ e.rno = s.rno /\ e.sno = s.sno
            /\ e.stopped = s.stopped /\ ~s.stopped /\ e.out = s.out /\ e.retries # 0
  <1> DEFINE T == {TRUE}
             B == BOOLEAN
             S == Seq(Cemi)
             no == FALSE
             yes == TRUE
             n == s.retries + 1
             e == [s EXCEPT !.trigger = no, !.retries = n, !.sendtimeout = yes]
  <1> SUFFICES /\ e \in ConnStates /\ ConnOK(e) /\ e.open = s.open /\ e.port = s.port /\ e.rno = s.rno /\ e.sno = s.sno
               /\ e.stopped = s.stopped /\ ~s.stopped /\ e.out = s.out /\ e.retries # 0
    BY Zenon
  <1>1. s \in Conns(T, B, S) BY ConnSets, Zenon
  <1>a. ~s.stopped /\ s.retries \in {0, 2} BY Zenon DEF ConnOK
  <1>b. n \in {1, 3} /\ n \in 0..3 /\ n # 0 /\ n # 2 BY <1>a, SMT
  <1>c. no \in B /\ yes \in B /\ ~no /\ yes BY Zenon
  <1>e. e = [s EXCEPT !.trigger = no, !.retries = n, !.sendtimeout = yes] OBVIOUS
  <1> HIDE DEF T, B, S, no, yes, n, e
  <1>3. /\ e.retries = n /\ e.trigger = no /\ e.sendtimeout = yes
        /\ e.open = s.open /\ e.port = s.port /\ e.stopped = s.stopped /\ e.sno = s.sno /\ e.rno = s.rno
        /\ e.out = s.out /\ e.do_send_next = s.do_send_next
        /\ DOMAIN e = DOMAIN s
    BY <1>1, <1>e, SMT DEF Conns
  <1>4. e = [y \in DOMAIN e |-> e[y]] BY <1>e, Zenon
  <1>5. /\ s.open \in T /\ s.port \in Nat /\ s.stopped \in B /\ s.sno \in Seqno /\ s.rno \in Seqno
        /\ s.retries \in 0..3 /\ s.out \in S /\ s.trigger \in B /\ s.sendtimeout \in B /\ s.do_send_next \in B
    BY <1>1, ConnFields, Zenon
  <1>6. e.open \in T /\ e.port \in Nat /\ e.stopped \in B /\ e.sno \in Seqno /\ e.rno \in Seqno
    BY <1>3, <1>5, <1>b, <1>c, Zenon
  <1>7. e.retries \in 0..3 /\ e.out \in S /\ e.trigger \in B /\ e.sendtimeout \in B /\ e.do_send_next \in B
    BY <1>3, <1>5, <1>b, <1>c, Zenon
  <1>8. e \in Conns(T, B, S) BY <1>1, <1>3, <1>4, <1>6, <1>7, ConnIs, Zenon
  <1>9. e \in ConnStates BY <1>8, ConnSets, Zenon DEF T, B, S
  <1>10. ConnOK(e) BY <1>3, <1>a, <1>b, <1>c, Zenon DEF ConnOK
  <1> QED BY <1>3, <1>9, <1>10, <1>a, <1>b, Zenon

\* send_trigger_cb sends the first packet of the queue.
LEMMA SendTriggerLocal ==
  ASSUME Local, NEW ch \in Channels, send_trigger_cb(ch), conn[ch].out # <<>>
  PROVE  /\ Local' /\ conn[ch].open /\ UNCHANGED <<client, toS, sentS, gotS>>
         /\ \A c \in Channels : c # ch => conn'[c] = conn[c]
         /\ conn'[ch].open = TRUE /\ conn'[ch].port = conn[ch].port /\ conn'[ch].rno = conn[ch].rno
         /\ conn'[ch].stopped = conn[ch].stopped /\ ~conn[ch].stopped /\ conn'[ch].sno = conn[ch].sno
         /\ conn'[ch].out = conn[ch].out /\ conn'[ch].retries # 0
         /\ \E x : /\ x.type = "req" /\ x.ch = ch /\ x.seqno = conn[ch].sno /\ x.cemi = Head(conn[ch].out)
                   /\ Moves(toC, toC', {x}) /\ (~(Open /\ conn[ch].port = starts) => toC' = toC)
  <1> DEFINE s == conn[ch]
             e == [s EXCEPT !.trigger = FALSE, !.retries = @ + 1, !.sendtimeout = TRUE]
             x == Req(ch, s.sno, Head(s.out))
  <1>1. /\ s.open /\ s.trigger /\ UNCHANGED <<client, toS, sentS, gotS>> /\ toC' = PutC(s.port, x)
        /\ conn' = [conn EXCEPT ![ch].trigger = FALSE, ![ch].retries = @ + 1, ![ch].sendtimeout = TRUE]
    BY Zenon DEF send_trigger_cb
  <1>2. s \in ConnStates /\ ConnOK(s) /\ s.open = TRUE /\ s.out \in Seq(Cemi) /\ s.sno \in Seqno BY <1>1, ConnTypes, Zenon
  <1>3. /\ e \in ConnStates /\ ConnOK(e) /\ e.open = s.open /\ e.port = s.port /\ e.rno = s.rno /\ e.sno = s.sno
        /\ e.stopped = s.stopped /\ ~s.stopped /\ e.out = s.out /\ e.retries # 0
    BY <1>1, <1>2, SentFacts, Zenon
  <1>4. conn' = [conn EXCEPT ![ch] = e] BY <1>1, LocalIs, Zenon
  <1> HIDE DEF e
  <1>5. /\ conn' \in [Channels -> ConnStates \cup {NoConn}] /\ conn'[ch] = e
        /\ \A c \in Channels : c # ch => conn'[c] = conn[c]
    BY <1>3, <1>4, OneConn, Zenon
  <1>6. x \in MsgC /\ x.type = "req" /\ x.ch = ch /\ x.seqno = s.sno /\ x.cemi = Head(s.out)
    <2>1. Head(s.out) \in Cemi BY <1>2, SMT
    <2>2. ch \in Int
      <3>1. ch \in Nat BY LocalIs, Zenon
      <3> QED BY <3>1, SMT
    <2>3. /\ x \in [ type : {"req"}, ch : Int, seqno : Seqno, cemi : Cemi ] /\ x.type = "req" /\ x.ch = ch
          /\ x.seqno = s.sno /\ x.cemi = Head(s.out)
      BY <1>2, <2>1, <2>2, Zenon DEF Req
    <2> QED BY <2>3, Zenon DEF MsgC
  <1> HIDE DEF x
  <1>7. /\ toC' \in Seq(MsgC) /\ Len(toC') <= MaxNet /\ Moves(toC, toC', {x})
        /\ (~(Open /\ s.port = starts) => toC' = toC)
    BY <1>1, <1>6, PutCMoves, Zenon
  <1>8. \A c \in Channels : conn'[c].open => ConnOK(conn'[c]) BY <1>3, <1>5, Zenon DEF Local
  <1>9. Local' BY <1>1, <1>5, <1>7, <1>8, LocalIs, ServerLocal, Zenon
  <1> QED BY <1>1, <1>2, <1>3, <1>5, <1>6, <1>7, <1>9, Zenon

\* The server sends its packet, for the first time or again.
LEMMA SendTriggerStep ==
  ASSUME TInv, NEW ch \in Channels, send_trigger_cb(ch), conn[ch].out # <<>>
  PROVE  TInv'
  <1>1. Local /\ SessionInv /\ DownInv /\ UpInv BY DEF TInv
  <1> DEFINE s == conn[ch]
             t == conn'[ch]
             put == Open /\ s.port = starts
  <1>2. /\ Local' /\ s.open /\ UNCHANGED <<client, toS, sentS, gotS>>
        /\ \A c \in Channels : c # ch => conn'[c] = conn[c]
        /\ t.open = TRUE /\ t.port = s.port /\ t.rno = s.rno
        /\ t.stopped = s.stopped /\ ~s.stopped /\ t.sno = s.sno /\ t.out = s.out /\ t.retries # 0
    BY <1>1, SendTriggerLocal, Zenon
  <1>3. PICK x : /\ x.type = "req" /\ x.ch = ch /\ x.seqno = s.sno /\ x.cemi = Head(s.out)
                 /\ Moves(toC, toC', {x}) /\ (~put => toC' = toC)
    BY <1>1, SendTriggerLocal, Zenon
  <1>4. UNCHANGED <<cl, sentC, gotC, ackedC, starts>> BY <1>2, Zenon DEF client
  <1>5. PICK MC : Moves(toC, toC', MC) /\ (\A y \in MC : y = x /\ put)
    <2>1. CASE put
      <3>1. \A y \in {x} : y = x OBVIOUS
      <3> QED BY <1>3, <2>1, <3>1
    <2>2. CASE ~put
      <3>1. Moves(toC, toC', {}) BY <1>3, <2>2, StayMoves, Zenon
      <3> QED BY <3>1
    <2> QED BY <2>1, <2>2
  <1> DEFINE none == {}
  <1>6. Moves(toS, toS', none) /\ \A y : y \notin none BY <1>2, StayMoves, Zenon
  <1> HIDE DEF none
  <1>7. /\ s.sno \in Seqno /\ Inc(s.sno) # s.sno /\ s.out \in Seq(Cemi) /\ InTurn(s.out) /\ starts \in Nat
        /\ 1 \in DOMAIN s.out /\ Head(s.out) = s.out[1]
    <2>1. s.sno \in Seqno /\ s.out \in Seq(Cemi) BY <1>1, <1>2, ConnTypes, Zenon
    <2>2. 1 \in DOMAIN s.out /\ Head(s.out) = s.out[1] BY <2>1, SMT
    <2> QED BY <1>1, <1>2, <2>1, <2>2, IncFacts, LocalIs, Zenon DEF DownInv
  <1>8. \A c \in Channels : conn'[c].open => conn[c].open /\ conn'[c].port = conn[c].port /\ conn'[c].rno = conn[c].rno
                                             /\ conn'[c].sno = conn[c].sno /\ conn'[c].out = conn[c].out
    BY <1>2, Zenon
  <1>9. \A y : Newer(y)' <=> Newer(y) BY <1>4, Zenon DEF Newer
  <1>10. ASSUME NEW c \in Channels, NEW q \in Seqno, Own(c), Down(c, q) PROVE Down(c, q)'
    <2>1. CASE ~put
      <3>1. conn'[c].open => conn[c].open /\ Carried(conn[c], conn'[c]) BY <1>2, Zenon DEF Carried
      <3>2. (\A y \in MC : y.type # "req") /\ UNCHANGED gotC BY <1>4, <1>5, <2>1, Zenon
      <3> QED BY <1>5, <1>6, <1>10, <3>1, <3>2, DownKept, Zenon
    <2>2. CASE put
      <3>1. c = ch BY <1>2, <1>10, <2>2, Zenon DEF Own
      <3>2. /\ \A y \in In(toC') : y \in In(toC) \/ y = x
            /\ \A a, b : Behind(toC', a, b) => Behind(toC, a, b) \/ (a \in In(toC) /\ b = x)
        <4>1. Moves(toC, toC', {x}) BY <1>3
        <4> QED BY ONLY <4>1, PutOne, Zenon
      <3>3. \A a, b : Behind(toC, a, b) => a \in In(toC) /\ b \in In(toC) BY Zenon DEF Behind, In
      <3>4. In(toS') = In(toS) /\ \A a, b : Behind(toS', a, b) <=> Behind(toS, a, b) BY <1>2, Zenon
      <3>5. Synced(s, q) BY <1>2, <1>10, <3>1, Zenon DEF Down
      <3>6. CASE /\ s.sno = q /\ \A i \in DOMAIN s.out : Newer(s.out[i])
                 /\ \A m \in In(toS) : m.type = "ack" => Inc(m.seqno) = q
                 /\ \A m \in In(toC) : m.type = "req" /\ m.seqno = q => s.retries # 0 /\ m.cemi = Head(s.out)
        <4>1. Newer(x.cemi) BY <1>3, <1>7, <3>6, Zenon
        <4>2. (\A y \in In(toC) : y.type = "req" => Inc(y.seqno) = q \/ (y.seqno = q /\ Newer(y.cemi)))'
          BY <1>3, <1>9, <1>10, <3>2, <3>6, <4>1, Zenon DEF Down
        <4>3. (\A a, b : Behind(toC, a, b) /\ a.type = "req" /\ b.type = "req" /\ a.seqno = q => b.seqno = q)'
          <5>1. x.seqno = q BY <1>3, <3>6
          <5>2. \A a, b : Behind(toC, a, b) /\ a.type = "req" /\ b.type = "req" /\ a.seqno = q => b.seqno = q
            BY <1>10, Zenon DEF Down
          <5> SUFFICES ASSUME NEW a, NEW b, Behind(toC', a, b), a.type = "req", b.type = "req", a.seqno = q
                       PROVE  b.seqno = q
            OBVIOUS
          <5>3. CASE Behind(toC, a, b) BY <5>2, <5>3, Zenon
          <5>4. CASE b = x BY <5>1, <5>4
          <5> QED BY <3>2, <5>3, <5>4
        <4>4. \A y \in In(toC') : y.type = "req" /\ y.seqno = q => y.cemi = Head(s.out) BY <1>3, <3>2, <3>6, Zenon
        <4>5. Synced(conn[c], q)' BY <1>2, <1>9, <3>1, <3>4, <3>6, <4>4, Zenon DEF Synced
        <4> QED BY <4>2, <4>3, <4>4, <4>5, Zenon DEF Down
      <3>7. CASE /\ Inc(s.sno) = q /\ s.retries # 0 /\ \A i \in DOMAIN s.out : i # 1 => Newer(s.out[i])
                 /\ \A m \in In(toC) : m.type = "req" => m.seqno = s.sno
                 /\ \A m \in In(toS) : m.type = "ack" => m.seqno = s.sno \/ Inc(m.seqno) = s.sno
                 /\ \A a, b : Behind(toS, a, b) /\ a.type = "ack" /\ b.type = "ack" /\ a.seqno = s.sno => b.seqno = s.sno
        <4>1. \A y \in In(toC') : y.type = "req" => y.seqno = s.sno /\ Inc(y.seqno) = q /\ y.seqno # q
          BY <1>3, <1>7, <3>2, <3>7, Zenon
        <4>2. \A a, b : Behind(toC', a, b) => a \in In(toC') BY Zenon DEF Behind, In
        <4>3. Synced(conn[c], q)'
          <5>1. /\ Inc(t.sno) = q /\ t.retries # 0 /\ \A i \in DOMAIN t.out : i # 1 => Newer(t.out[i])
                /\ \A m \in In(toC') : m.type = "req" => m.seqno = t.sno
            BY <1>2, <1>9, <3>7, <4>1, Zenon
          <5>2. /\ \A m \in In(toS') : m.type = "ack" => m.seqno = t.sno \/ Inc(m.seqno) = t.sno
                /\ \A a, b : Behind(toS', a, b) /\ a.type = "ack" /\ b.type = "ack" /\ a.seqno = t.sno => b.seqno = t.sno
            BY <1>2, <3>4, <3>7, Zenon
          <5>3. (\A i \in DOMAIN conn[ch].out : i # 1 => Newer(conn[ch].out[i]))' BY <1>9, <5>1, Zenon
          <5> QED BY <3>1, <5>1, <5>2, <5>3, Zenon DEF Synced
        <4> QED BY <4>1, <4>2, <4>3, Zenon DEF Down
      <3> QED BY <3>5, <3>6, <3>7, Zenon DEF Synced
    <2> QED BY <2>1, <2>2
  <1>11. UpInv'
    <2>1. \A y \in MC : y.type # "ack" BY <1>3, <1>5, Zenon
    <2>2. (cl.mod # 0 \/ Asking) /\ conn'[cl.channel].open =>
             conn[cl.channel].open /\ conn'[cl.channel].rno = conn[cl.channel].rno
      <3>1. cl.mod # 0 \/ Asking => cl.channel \in Channels BY <1>1, Zenon DEF SessionInv, Asking
      <3> QED BY <1>8, <3>1, Zenon
    <2> QED BY <1>1, <1>2, <1>4, <1>5, <1>6, <2>1, <2>2, UpKept, Zenon
  <1>12. SessionInv'
    <2>1. \A c \in Channels : conn[c].open => conn[c].port \in Nat BY <1>1, ConnTypes, Zenon
    <2>2. (Open' <=> Open) /\ (Unconnected' <=> Unconnected) BY <1>4, Zenon DEF Open, Unconnected
    <2>3. ~Open' => In(toC') = {} BY <1>1, <1>3, <2>2, Zenon DEF SessionInv
    <2>4. /\ \A y \in MC : y.type # "connresp" /\ y.type # "ack"
          /\ \A y \in MC : y.type \in {"req", "ack"} => \E c \in Channels : conn[c].open /\ conn[c].port = starts
      BY <1>2, <1>3, <1>5, Zenon
    <2>5. \A c \in Channels : Own(c) /\ Down(c, 0) => Down(c, 0)' BY <1>10, IncFacts, Zenon
    <2> QED BY <1>1, <1>4, <1>5, <1>6, <1>7, <1>8, <2>1, <2>2, <2>3, <2>4, <2>5, SessionKept, Zenon
  <1>13. DownInv'
    <2>1. PICK c, q : c = cl.channel /\ q = cl.rno BY Zenon
    <2>2. q \in Seqno BY <1>1, <2>1, LocalIs, Zenon
    <2>3. cl.mod # 0 => c \in Channels /\ Own(c) /\ Down(c, q) BY <1>1, <2>1, Connected, Zenon DEF DownInv
    <2>4. cl.mod # 0 => Down(c, q)' BY <1>10, <2>2, <2>3, Zenon
    <2>5. (cl.mod # 0 => Down(cl.channel, cl.rno))' BY <1>4, <2>1, <2>4, Zenon
    <2>6. \A y \in In(toC') : y.type = "req" /\ y.cemi.kind = "ind" => y.cemi.p <= sentS
      <3>1. \A y \in In(toC') : y \in In(toC) \/ y = x BY <1>3, PutOne, Zenon
      <3>2. x.cemi.kind = "ind" => x.cemi.p <= sentS BY <1>3, <1>7, Zenon DEF InTurn
      <3> QED BY <1>1, <3>1, <3>2, Zenon DEF DownInv
    <2>7. \A c1 \in Channels : conn'[c1].open => InTurn(conn'[c1].out) BY <1>1, <1>8, Zenon DEF DownInv
    <2> QED BY <1>1, <1>2, <1>4, <2>5, <2>6, <2>7, Zenon DEF DownInv, InTurn, Increasing
  <1> QED BY <1>2, <1>11, <1>12, <1>13 DEF TInv

\* A packet of the client, in sequence, and its confirmation in the server's queue.
LEMMA AcceptedFacts ==
  ASSUME Local, NEW ch \in Channels, conn[ch].open, NEW p \in Nat, UNCHANGED <<sentS, gotC>>,
         conn' = [conn EXCEPT ![ch] = [Queued(conn[ch], Con(p)) EXCEPT !.rno = Inc(@)]]
  PROVE  /\ conn' \in [Channels -> ConnStates \cup {NoConn}] /\ \A c \in Channels : c # ch => conn'[c] = conn[c]
         /\ conn'[ch].open = TRUE /\ conn'[ch].port = conn[ch].port /\ conn'[ch].rno = Inc(conn[ch].rno)
         /\ ConnOK(conn'[ch])
         /\ DownInv => Carried(conn[ch], conn'[ch]) /\ InTurn(conn[ch].out)'
  <1> DEFINE s == conn[ch]
             x == Con(p)
             q == Queued(s, x)
             n == Inc(q.rno)
             t == [q EXCEPT !.rno = Inc(@)]
             B == BOOLEAN
             S == Seq(Cemi)
             T == {TRUE}
  <1>1. conn' = [conn EXCEPT ![ch] = t] BY SMT
  <1>a. t = [q EXCEPT !.rno = n] OBVIOUS
  <1> HIDE DEF t
  <1>2. s \in ConnStates /\ ConnOK(s) /\ s.rno \in Seqno BY ConnTypes, Zenon
  <1>4. x \in Cemi /\ x.kind = "con" BY SMT DEF Con, Cemi
  <1> HIDE DEF x
  <1>5. /\ q \in ConnStates /\ q.port = s.port /\ q.rno = s.rno /\ q.sno = s.sno /\ q.stopped = s.stopped
        /\ q.retries = s.retries /\ q.out = Append(s.out, x) /\ q.trigger = (s.trigger \/ (s.retries = 0 /\ ~s.stopped))
        /\ q.sendtimeout = s.sendtimeout /\ q.out # <<>>
    BY <1>2, <1>4, QueuedFacts, Zenon
  <1>6. q \in Conns(T, B, S) BY <1>5, ConnSets, Zenon
  <1>7. n \in Seqno /\ n = Inc(s.rno)
    <2>1. Inc(s.rno) \in Seqno BY <1>2, IncFacts, Zenon
    <2> QED BY <1>5, <2>1, Zenon
  <1> HIDE DEF q, T, B, S, n
  <1>8. /\ t \in Conns(T, B, S) /\ t.port = q.port /\ t.rno = n /\ t.sno = q.sno /\ t.stopped = q.stopped
        /\ t.retries = q.retries /\ t.out = q.out /\ t.trigger = q.trigger /\ t.sendtimeout = q.sendtimeout
    BY <1>6, <1>7, <1>a, SMT DEF Conns
  <1>9. t \in ConnStates /\ t.open = TRUE
    <2>1. t.open \in T BY <1>8, ConnFields, Zenon
    <2> QED BY <1>8, <2>1, ConnSets, Zenon DEF T, B, S
  <1> HIDE DEF t
  <1>10. /\ conn' \in [Channels -> ConnStates \cup {NoConn}] /\ conn'[ch] = t
         /\ \A c \in Channels : c # ch => conn'[c] = conn[c]
    BY <1>1, <1>9, OneConn, Zenon
  <1>11. s.retries # 0 => s.out # <<>> BY <1>2, Numbers, Zenon DEF ConnOK
  <1>12. ConnOK(t) BY <1>2, <1>5, <1>8, Zenon DEF ConnOK
  <1>13. conn'[ch].out = Append(conn[ch].out, x) BY <1>5, <1>8, <1>10, Zenon
  <1>14. x.kind # "ind" BY <1>4, Zenon
  <1>15. sentS' \in {sentS, sentS + 1} BY Zenon
  <1>16. ASSUME DownInv PROVE Carried(conn[ch], conn'[ch]) /\ InTurn(conn[ch].out)'
    <2>1. /\ InTurn(conn[ch].out)'
          /\ conn[ch].out # <<>> => Head(conn'[ch].out) = Head(conn[ch].out)
          /\ \A i \in DOMAIN conn'[ch].out : \/ i \in DOMAIN conn[ch].out /\ conn'[ch].out[i] = conn[ch].out[i]
                                             \/ conn'[ch].out[i].kind # "ind"
                                             \/ \A j \in DOMAIN gotC : gotC[j] < conn'[ch].out[i].p
      BY <1>4, <1>13, <1>14, <1>15, <1>16, QueueUp, Zenon
    <2>2. /\ conn'[ch].sno = conn[ch].sno /\ conn'[ch].retries = conn[ch].retries
          /\ conn'[ch].stopped = conn[ch].stopped
      BY <1>5, <1>8, <1>10, Zenon
    <2> QED BY <1>11, <2>1, <2>2, Zenon DEF Carried
  <1> QED BY <1>5, <1>7, <1>8, <1>9, <1>10, <1>12, <1>16, Zenon

\* A TUNNEL_REQUEST with the expected number or the one before is acknowledged (ConnState::tunnel_request).
LEMMA RequestSLocal ==
  ASSUME Local, ConnState_tunnel_request, NEW ch \in Channels, ch = Head(toS).ch, conn[ch].open,
         Head(toS).seqno = conn[ch].rno \/ Inc(Head(toS).seqno) = conn[ch].rno
  PROVE  /\ Local' /\ RecvS("req") /\ UNCHANGED <<client, sentS>>
         /\ \A c \in Channels : c # ch => conn'[c] = conn[c]
         /\ conn'[ch].open = TRUE /\ conn'[ch].port = conn[ch].port
         /\ DownInv => Carried(conn[ch], conn'[ch]) /\ InTurn(conn[ch].out)'
         /\ Head(toS).seqno = conn[ch].rno => conn'[ch].rno = Inc(conn[ch].rno) /\ gotS' = Append(gotS, Head(toS).cemi)
         /\ Head(toS).seqno # conn[ch].rno => conn' = conn /\ gotS' = gotS
         /\ \E x : /\ x.type = "ack" /\ x.ch = ch /\ x.seqno = Head(toS).seqno
                   /\ Moves(toC, toC', {x}) /\ (~(Open /\ conn[ch].port = starts) => toC' = toC)
  <1> DEFINE s == conn[ch]
             m == Head(toS)
             x == Ack(ch, m.seqno, TRUE)
  <1>1. /\ RecvS("req") /\ UNCHANGED <<client, sentS>> /\ toC' = PutC(s.port, x)
        /\ m.seqno = s.rno => /\ conn' = [conn EXCEPT ![ch] = [Queued(conn[ch], Con(m.cemi)) EXCEPT !.rno = Inc(@)]]
                              /\ gotS' = Append(gotS, m.cemi)
        /\ m.seqno # s.rno => conn' = conn /\ gotS' = gotS
    BY Zenon DEF ConnState_tunnel_request, Known
  <1>2. UNCHANGED <<cl, sentC, gotC, ackedC, starts>> BY <1>1, Zenon DEF client
  <1>3. s \in ConnStates /\ ConnOK(s) /\ s.open = TRUE /\ s.rno \in Seqno BY ConnTypes, Zenon
  <1>4. toS' \in Seq(MsgS) /\ Len(toS') <= MaxNet /\ m.seqno \in Seqno /\ m.cemi \in Nat
    <2>1. toS' \in Seq(MsgS) /\ Len(toS') <= MaxNet /\ m \in MsgS /\ m.type = "req" BY <1>1, RecvSFacts, Zenon
    <2> QED BY <2>1, MsgTypes, Zenon
  <1>5. x \in MsgC /\ x.type = "ack" /\ x.ch = ch /\ x.seqno = m.seqno
    <2>1. ch \in Int
      <3>1. ch \in Nat BY LocalIs, Zenon
      <3> QED BY <3>1, SMT
    <2> QED BY <1>4, <2>1, AckIs, Zenon
  <1> HIDE DEF x
  <1>6. /\ toC' \in Seq(MsgC) /\ Len(toC') <= MaxNet /\ Moves(toC, toC', {x})
        /\ (~(Open /\ s.port = starts) => toC' = toC)
    BY <1>1, <1>5, PutCMoves, Zenon
  <1>7. /\ conn' \in [Channels -> ConnStates \cup {NoConn}] /\ \A c \in Channels : c # ch => conn'[c] = conn[c]
        /\ conn'[ch].open = TRUE /\ conn'[ch].port = s.port /\ ConnOK(conn'[ch])
        /\ m.seqno = s.rno => conn'[ch].rno = Inc(s.rno)
        /\ DownInv => Carried(conn[ch], conn'[ch]) /\ InTurn(conn[ch].out)'
    <2>1. CASE m.seqno = s.rno
      <3> HIDE DEF m, s
      <3>1. conn' = [conn EXCEPT ![ch] = [Queued(conn[ch], Con(m.cemi)) EXCEPT !.rno = Inc(@)]] BY <1>1, <2>1, Zenon
      <3> QED BY <1>1, <1>2, <1>4, <3>1, AcceptedFacts, Zenon DEF s
    <2>2. CASE m.seqno # s.rno
      <3>1. conn' = conn BY <1>1, <2>2, Zenon
      <3>2. ASSUME DownInv PROVE Carried(conn[ch], conn'[ch]) /\ InTurn(conn[ch].out)'
        <4>1. sentS' \in {sentS, sentS + 1} BY <1>1, Zenon
        <4>2. InTurn(conn[ch].out)' BY <3>1, <3>2, <4>1, SameOut, Zenon
        <4> QED BY <3>1, <4>2, Zenon DEF Carried
      <3> QED BY <1>3, <2>2, <3>1, <3>2, LocalIs, Zenon
    <2> QED BY <2>1, <2>2, Zenon
  <1>8. \A c \in Channels : conn'[c].open => ConnOK(conn'[c]) BY <1>7, Zenon DEF Local
  <1>9. gotS' \in Seq(Nat)
    <2>1. gotS \in Seq(Nat) BY LocalIs, Zenon
    <2>2. Append(gotS, m.cemi) \in Seq(Nat) BY <1>4, <2>1, OneMore, Zenon
    <2> QED BY <1>1, <2>1, <2>2, Zenon
  <1>10. Local' BY <1>1, <1>4, <1>6, <1>7, <1>8, <1>9, LocalIs, ServerLocal, Zenon
  <1> QED BY <1>1, <1>5, <1>6, <1>7, <1>10, Zenon

\* A packet of the client arrives, for the first time or again, and is acknowledged.
LEMMA RequestSStep ==
  ASSUME TInv, ConnState_tunnel_request, Known(Head(toS).ch),
         \/ Head(toS).seqno = conn[Head(toS).ch].rno
         \/ Inc(Head(toS).seqno) = conn[Head(toS).ch].rno
  PROVE  TInv'
  <1>1. Local /\ SessionInv /\ DownInv /\ UpInv BY DEF TInv
  <1>2. PICK m, ch, n : m = Head(toS) /\ ch = Head(toS).ch /\ n = cl.sno BY Zenon
  <1>3. ch \in Channels /\ conn[ch].open BY <1>2, Zenon DEF Known
  <1> DEFINE s == conn[ch]
             t == conn'[ch]
             put == Open /\ s.port = starts
             new == m.seqno = s.rno
  <1>4. /\ Local' /\ RecvS("req") /\ UNCHANGED <<client, sentS>>
        /\ \A c \in Channels : c # ch => conn'[c] = conn[c]
        /\ t.open = TRUE /\ t.port = s.port
        /\ DownInv => Carried(s, t) /\ InTurn(conn[ch].out)'
        /\ new => t.rno = Inc(s.rno) /\ gotS' = Append(gotS, m.cemi)
        /\ ~new => conn' = conn /\ gotS' = gotS
    BY <1>1, <1>2, <1>3, RequestSLocal, Zenon
  <1>5. PICK x : /\ x.type = "ack" /\ x.ch = ch /\ x.seqno = m.seqno
                 /\ Moves(toC, toC', {x}) /\ (~put => toC' = toC)
    BY <1>1, <1>2, <1>3, RequestSLocal, Zenon
  <1>6. UNCHANGED <<cl, sentC, gotC, ackedC, starts>> BY <1>4, Zenon DEF client
  <1>7. PICK MC : Moves(toC, toC', MC) /\ (\A y \in MC : y = x /\ put)
    <2>1. CASE put
      <3>1. \A y \in {x} : y = x OBVIOUS
      <3> QED BY <1>5, <2>1, <3>1
    <2>2. CASE ~put
      <3>1. Moves(toC, toC', {}) BY <1>5, <2>2, StayMoves, Zenon
      <3> QED BY <3>1
    <2> QED BY <2>1, <2>2
  <1>8. /\ m \in In(toS) /\ m.type = "req" /\ m \in MsgS /\ Moves(toS, toS', {})
        /\ \A y \in In(toS') : y = m \/ Behind(toS, m, y)
    BY <1>1, <1>2, <1>4, RecvSFacts, Zenon
  <1> DEFINE none == {}
  <1>9. Moves(toS, toS', none) /\ \A y : y \notin none BY <1>8
  <1> HIDE DEF none
  <1>10. /\ \A y \in In(toS') : y \in In(toS)
         /\ \A a, b : Behind(toS', a, b) => Behind(toS, a, b)
         /\ \A y \in In(toC') : y \in In(toC) \/ y = x
         /\ \A a, b : Behind(toC', a, b) => Behind(toC, a, b) \/ (a \in In(toC) /\ b = x)
    <2>1. Moves(toC, toC', {x}) BY <1>5
    <2>2. /\ \A y \in In(toC') : y \in In(toC) \/ y = x
          /\ \A a, b : Behind(toC', a, b) => Behind(toC, a, b) \/ (a \in In(toC) /\ b = x)
      BY ONLY <2>1, PutOne, Zenon
    <2>3. \A y \in In(toS') : y \in In(toS) BY <1>9, Zenon DEF Moves
    <2>4. \A a, b : Behind(toS', a, b) => Behind(toS, a, b) BY <1>9, Zenon DEF Moves
    <2> QED BY <2>2, <2>3, <2>4
  <1>11. ch = cl.channel /\ Asking BY <1>1, <1>2, <1>8, Zenon DEF SessionInv, Asking
  <1>12. SessionInv'
    <2>1. \A c \in Channels : conn[c].open => conn[c].port \in Nat BY <1>1, ConnTypes, Zenon
    <2>2. (Open' <=> Open) /\ (Unconnected' <=> Unconnected) BY <1>6, Zenon DEF Open, Unconnected
    <2>3. ~Open' => In(toC') = {} BY <1>1, <1>5, <2>2, Zenon DEF SessionInv
    <2>4. /\ \A y \in MC : y.type # "connresp"
          /\ \A y \in MC : y.type \in {"req", "ack"} => \E c \in Channels : conn[c].open /\ conn[c].port = starts
      BY <1>3, <1>5, <1>7, Zenon
    <2>5. ~\A y \in In(toS) : y.type \notin {"conn", "req", "ack"} BY <1>8, Zenon
    <2>6. starts \in Nat BY <1>1, LocalIs, Zenon
    <2>7. \A c \in Channels : conn'[c].open => conn[c].open /\ conn'[c].port = conn[c].port BY <1>3, <1>4, Zenon
    <2> QED BY <1>1, <1>6, <1>7, <1>9, <1>11, <2>1, <2>2, <2>3, <2>4, <2>5, <2>6, <2>7, SessionKept, Zenon
  <1>13. DownInv'
    <2>1. PICK q : q = cl.rno BY Zenon
    <2>2. cl.mod # 0 => Down(ch, q)'
      <3> SUFFICES ASSUME cl.mod # 0 PROVE Down(ch, q)' OBVIOUS
      <3>1. Down(ch, q) BY <1>1, <1>11, <2>1, Zenon DEF DownInv
      <3>2. \A y \in MC : y.type # "req" BY <1>5, <1>7, Zenon
      <3>3. conn'[ch].open => conn[ch].open /\ Carried(conn[ch], conn'[ch]) BY <1>1, <1>3, <1>4, Zenon
      <3>4. UNCHANGED gotC BY <1>6
      <3> QED BY <1>7, <1>9, <3>1, <3>2, <3>3, <3>4, DownKept, Zenon
    <2>3. (cl.mod # 0 => Down(cl.channel, cl.rno))' BY <1>6, <1>11, <2>1, <2>2, Zenon
    <2>4. \A y \in In(toC') : y.type = "req" => y \in In(toC) BY <1>5, <1>10, Zenon
    <2>5. \A c \in Channels : conn'[c].open => InTurn(conn[c].out)'
      <3> SUFFICES ASSUME NEW c \in Channels, conn'[c].open PROVE InTurn(conn[c].out)' OBVIOUS
      <3>1. CASE c = ch BY <1>1, <1>4, <3>1, Zenon
      <3>2. CASE c # ch
        <4>1. conn'[c] = conn[c] BY <1>4, <3>2
        <4>2. InTurn(conn[c].out) BY <1>1, <4>1, Zenon DEF DownInv
        <4> QED BY <1>4, <4>1, <4>2, Zenon DEF InTurn
      <3> QED BY <3>1, <3>2
    <2> QED BY <1>1, <1>4, <1>6, <2>3, <2>4, <2>5, Zenon DEF DownInv, Increasing
  <1>14. /\ n \in Seqno /\ Inc(n) # n /\ m.seqno \in Seqno /\ Inc(m.seqno) # m.seqno /\ m.cemi \in Nat
         /\ sentC \in Nat /\ gotS \in Seq(Nat) /\ (Inc(m.seqno) = Inc(n) => m.seqno = n)
    <2>1. n \in Seqno /\ sentC \in Nat /\ gotS \in Seq(Nat) BY <1>1, <1>2, LocalIs, Zenon
    <2>2. m.seqno \in Seqno /\ m.cemi \in Nat BY <1>8, MsgTypes, Zenon
    <2> QED BY <2>1, <2>2, IncFacts, Zenon
  <1>15. cl.mod # 0 /\ Due => cl.owed BY <1>1, Zenon DEF Due, Local, ClientOK
  <1>16. (Due' <=> Due) /\ (Asking' => Asking) /\ \A i : (AskingFor(i)' => AskingFor(i)) /\ (OnlyAsking(i) => OnlyAsking(i)')
    <2>1. Due' <=> Due BY <1>6, Zenon DEF Due
    <2>2. (Asking' => Asking) /\ \A i : (AskingFor(i)' => AskingFor(i)) /\ (OnlyAsking(i) => OnlyAsking(i)')
      BY <1>10, Zenon DEF Asking, AskingFor, OnlyAsking
    <2> QED BY <2>1, <2>2
  <1>17. /\ (\A y \in In(toS) : y.type = "req" => Inc(y.seqno) = cl.sno \/ (y.seqno = cl.sno /\ y.cemi = sentC /\ Due))'
         /\ (\A a, b : Behind(toS, a, b) /\ a.type = "req" /\ b.type = "req" /\ a.seqno = cl.sno => b.seqno = cl.sno)'
    <2>1. (\A y \in In(toS) : y.type = "req" => Inc(y.seqno) = cl.sno \/ (y.seqno = cl.sno /\ y.cemi = sentC /\ Due))'
      BY <1>1, <1>6, <1>10, <1>16, Zenon DEF UpInv
    <2>2. (\A a, b : Behind(toS, a, b) /\ a.type = "req" /\ b.type = "req" /\ a.seqno = cl.sno => b.seqno = cl.sno)'
      BY <1>1, <1>6, <1>10, Zenon DEF UpInv
    <2> QED BY <2>1, <2>2
  <1>18. \/ s.rno = n /\ (cl.owed \/ AskingFor(n) => ~Got(sentC))
         \/ s.rno = Inc(n) /\ Got(sentC) /\ Due /\ OnlyAsking(n)
    BY <1>1, <1>2, <1>3, <1>11, Zenon DEF UpInv
  <1>19. CASE new
    <2>1. s.rno = n /\ m.seqno = n /\ m.cemi = sentC /\ Due /\ ~Got(sentC)
      <3>1. s.rno = n
        <4>1. CASE s.rno = Inc(n) /\ OnlyAsking(n) BY <1>8, <1>14, <1>19, <4>1, Zenon DEF OnlyAsking
        <4> QED BY <1>18, <4>1, Zenon
      <3>2. m.seqno = n /\ AskingFor(n) BY <1>8, <1>19, <3>1, Zenon DEF AskingFor
      <3>3. m.cemi = sentC /\ Due BY <1>1, <1>2, <1>8, <1>14, <3>2, Zenon DEF UpInv
      <3>4. ~Got(sentC) BY <1>14, <1>18, <3>1, <3>2, Zenon
      <3> QED BY <3>1, <3>2, <3>3, <3>4
    <2>2. /\ gotS' = Append(gotS, sentC) /\ t.rno = Inc(n) BY <1>4, <1>19, <2>1, Zenon
    <2>3. \A i \in DOMAIN gotS : gotS[i] < sentC
      <3>1. \A i \in DOMAIN gotS : gotS[i] <= sentC /\ gotS[i] # sentC BY <1>1, <2>1, Zenon DEF UpInv, Got
      <3> QED BY <1>14, <3>1, SMT
    <2>4. /\ \A i \in DOMAIN gotS' : gotS'[i] <= sentC
          /\ \E i \in DOMAIN gotS' : gotS'[i] = sentC
          /\ \A i \in DOMAIN gotS : i \in DOMAIN gotS' /\ gotS'[i] = gotS[i]
          /\ Increasing(gotS')
      <3> DEFINE g == Append(gotS, sentC)
      <3>1. /\ \A i \in DOMAIN g : (i \in DOMAIN gotS /\ g[i] = gotS[i]) \/ g[i] = sentC
            /\ (\E i \in DOMAIN g : g[i] = sentC) /\ \A i \in DOMAIN gotS : i \in DOMAIN g /\ g[i] = gotS[i]
            /\ Increasing(gotS) /\ (\A i \in DOMAIN gotS : gotS[i] < sentC) => Increasing(g)
        BY <1>14, OneMore, Zenon
      <3>2. Increasing(gotS) /\ (\A i \in DOMAIN gotS : gotS[i] <= sentC) BY <1>1, Zenon DEF UpInv
      <3>3. sentC <= sentC BY <1>14, SMT
      <3> HIDE DEF g
      <3>4. gotS' = g BY <2>2 DEF g
      <3>5. \A i \in DOMAIN g : g[i] <= sentC BY <3>1, <3>2, <3>3, Zenon
      <3>6. Increasing(g) BY <2>3, <3>1, <3>2, Zenon
      <3> QED BY <3>1, <3>4, <3>5, <3>6
    <2>5. Got(sentC)' /\ \A p : Got(p) => Got(p)' BY <1>6, <2>4, Zenon DEF Got
    <2>6. OnlyAsking(n)'
      <3>1. \A y \in In(toS') : y.type = "req" => y.seqno = n BY <1>1, <1>2, <1>8, <2>1, Zenon DEF UpInv
      <3> QED BY <3>1, Zenon DEF OnlyAsking
    <2>7. (\A i \in DOMAIN gotS : gotS[i] <= sentC)' /\ Increasing(gotS)' /\ (\A p \in ackedC : Got(p))'
      <3>1. \A p \in ackedC : Got(p) BY <1>1, Zenon DEF UpInv
      <3>2. (\A p \in ackedC : Got(p))' BY <1>6, <2>5, <3>1, Zenon
      <3>3. (\A i \in DOMAIN gotS : gotS[i] <= sentC)' BY <1>6, <2>4, Zenon
      <3>4. Increasing(gotS)' BY <2>4, Zenon DEF Increasing
      <3> QED BY <3>2, <3>3, <3>4
    <2>8. ((cl.mod # 0 \/ Asking) /\ conn[cl.channel].open =>
             \/ conn[cl.channel].rno = cl.sno /\ (cl.owed \/ AskingFor(cl.sno) => ~Got(sentC))
             \/ conn[cl.channel].rno = Inc(cl.sno) /\ Got(sentC) /\ Due /\ OnlyAsking(cl.sno))'
      <3>1. conn'[cl'.channel].rno = Inc(cl'.sno) /\ cl'.sno = n BY <1>2, <1>6, <1>11, <2>2, Zenon
      <3>2. OnlyAsking(cl.sno)' BY <2>6, <3>1, Zenon DEF OnlyAsking
      <3> QED BY <1>16, <2>1, <2>5, <3>1, <3>2, Zenon
    <2>9. cl.mod # 0 => \A y \in In(toC) : y.type = "ack" => Inc(y.seqno) = n BY <1>1, <1>2, <2>1, Zenon DEF UpInv
    <2>10. (cl.mod # 0 =>
             \A y \in In(toC) : y.type = "ack" =>
                  \/ Inc(y.seqno) = cl.sno
                  \/ /\ y.seqno = cl.sno /\ Got(sentC) /\ cl.owed /\ OnlyAsking(cl.sno)
                     /\ conn[cl.channel].open => conn[cl.channel].rno = Inc(cl.sno))'
      <3>1. conn'[cl'.channel].rno = Inc(cl'.sno) /\ cl'.sno = n BY <1>2, <1>6, <1>11, <2>2, Zenon
      <3>2. OnlyAsking(cl.sno)' BY <2>6, <3>1, Zenon DEF OnlyAsking
      <3>3. cl'.mod # 0 => cl'.owed BY <1>6, <1>15, <2>1, Zenon
      <3>4. x.seqno = cl'.sno BY <1>5, <2>1, <3>1, Zenon
      <3>5. cl'.mod # 0 => \A y \in In(toC') : y.type = "ack" => Inc(y.seqno) = cl'.sno \/ y.seqno = cl'.sno
        BY <1>6, <1>10, <2>9, <3>1, <3>4, Zenon
      <3> QED BY <2>5, <3>1, <3>2, <3>3, <3>5, Zenon
    <2>11. (cl.mod # 0 => \A a, b : Behind(toC, a, b) /\ a.type = "ack" /\ b.type = "ack" /\ a.seqno = cl.sno
              => b.seqno = cl.sno)'
      <3>1. \A a, b : Behind(toC', a, b) => a \in In(toC) BY <1>10, Zenon DEF Behind, In
      <3>2. cl'.sno = n /\ cl'.mod = cl.mod BY <1>2, <1>6, Zenon
      <3> QED BY <1>14, <2>9, <3>1, <3>2, Zenon
    <2>12. UpInv' BY <1>17, <2>7, <2>8, <2>10, <2>11, Zenon DEF UpInv
    <2> QED BY <1>4, <1>12, <1>13, <2>12 DEF TInv
  <1>20. CASE ~new
    <2>1. conn' = conn /\ gotS' = gotS /\ Inc(m.seqno) = s.rno BY <1>2, <1>4, <1>20, Zenon
    <2>2. \A p : Got(p)' <=> Got(p) BY <2>1, Zenon DEF Got
    <2>3. (\A i \in DOMAIN gotS : gotS[i] <= sentC)' /\ Increasing(gotS)' /\ (\A p \in ackedC : Got(p))'
      BY <1>1, <1>6, <2>1, <2>2, Zenon DEF UpInv, Increasing
    <2>4. ((cl.mod # 0 \/ Asking) /\ conn[cl.channel].open =>
             \/ conn[cl.channel].rno = cl.sno /\ (cl.owed \/ AskingFor(cl.sno) => ~Got(sentC))
             \/ conn[cl.channel].rno = Inc(cl.sno) /\ Got(sentC) /\ Due /\ OnlyAsking(cl.sno))'
      BY <1>1, <1>6, <1>11, <1>16, <2>1, <2>2, Zenon DEF UpInv
    <2>5. cl.mod # 0 => /\ \A y \in In(toC) : y.type = "ack" => \/ Inc(y.seqno) = n
                                                               \/ /\ y.seqno = n /\ Got(sentC) /\ cl.owed /\ OnlyAsking(n)
                                                                  /\ s.rno = Inc(n)
                        /\ \A a, b : Behind(toC, a, b) /\ a.type = "ack" /\ b.type = "ack" /\ a.seqno = n => b.seqno = n
      BY <1>1, <1>2, <1>3, <1>11, Zenon DEF UpInv
    <2>6. ASSUME cl.mod # 0
          PROVE  /\ \A y \in In(toC') : y.type = "ack" => \/ Inc(y.seqno) = n
                                                         \/ /\ y.seqno = n /\ Got(sentC) /\ cl.owed /\ OnlyAsking(n)
                                                            /\ s.rno = Inc(n)
                 /\ \A a, b : Behind(toC', a, b) /\ a.type = "ack" /\ b.type = "ack" /\ a.seqno = n => b.seqno = n
      <3>1. CASE s.rno = n
        <4>1. Inc(x.seqno) = n BY <1>5, <2>1, <3>1, Zenon
        <4>2. \A y \in In(toC) : y.type = "ack" => Inc(y.seqno) = n BY <1>14, <2>5, <2>6, <3>1, Zenon
        <4>3. \A a, b : Behind(toC', a, b) => a \in In(toC) BY <1>10, Zenon DEF Behind, In
        <4>4. \A y \in In(toC') : y.type = "ack" => Inc(y.seqno) = n BY <1>10, <4>1, <4>2, Zenon
        <4> QED BY <1>14, <4>2, <4>3, <4>4, Zenon
      <3>2. CASE s.rno = Inc(n) /\ Got(sentC) /\ Due /\ OnlyAsking(n)
        <4>1. x.seqno = n /\ cl.owed BY <1>5, <1>14, <1>15, <2>1, <2>6, <3>2, Zenon
        <4>2. \A y \in In(toC') : y.type = "ack" => Inc(y.seqno) = n \/ y.seqno = n BY <1>10, <2>5, <2>6, <4>1, Zenon
        <4>3. \A a, b : Behind(toC', a, b) /\ a.type = "ack" /\ b.type = "ack" /\ a.seqno = n => b.seqno = n
          BY <1>10, <2>5, <2>6, <4>1, Zenon
        <4> QED BY <3>2, <4>1, <4>2, <4>3, Zenon
      <3> QED BY <1>18, <3>1, <3>2
    <2>7. (cl.mod # 0 =>
             /\ \A y \in In(toC) : y.type = "ack" =>
                  \/ Inc(y.seqno) = cl.sno
                  \/ /\ y.seqno = cl.sno /\ Got(sentC) /\ cl.owed /\ OnlyAsking(cl.sno)
                     /\ conn[cl.channel].open => conn[cl.channel].rno = Inc(cl.sno)
             /\ \A a, b : Behind(toC, a, b) /\ a.type = "ack" /\ b.type = "ack" /\ a.seqno = cl.sno
                  => b.seqno = cl.sno)'
      <3>1. OnlyAsking(n) => OnlyAsking(cl.sno)' BY <1>2, <1>6, <1>10, Zenon DEF OnlyAsking
      <3>2. Got(sentC) => Got(sentC)' BY <1>6, <2>1, Zenon DEF Got
      <3> QED BY <1>2, <1>6, <1>11, <2>1, <2>6, <3>1, <3>2, Zenon
    <2>8. UpInv' BY <1>17, <2>3, <2>4, <2>7, Zenon DEF UpInv
    <2> QED BY <1>4, <1>12, <1>13, <2>8 DEF TInv
  <1> QED BY <1>19, <1>20

-----------------------------------------------------------------------------
\* EIBnetServer::addClient.
LEMMA NewConnIs ==
  ASSUME NEW p \in Nat
  PROVE  /\ NewConn(p) \in ConnStates /\ ConnOK(NewConn(p)) /\ NewConn(p).open = TRUE /\ NewConn(p).port = p
         /\ NewConn(p).sno = 0 /\ NewConn(p).rno = 0 /\ NewConn(p).out = <<>>
  <1> DEFINE T == {TRUE}
             B == BOOLEAN
             S == Seq(Cemi)
             e == NewConn(p)
  <1>1. 0 \in Seqno /\ 0 \in 0..3 /\ 0 \notin {1, 3} /\ 0 # 2
    <2>1. 0 \in 0..3 /\ 0 \notin {1, 3} /\ 0 # 2 BY SMT
    <2> QED BY <2>1, IncFacts, Zenon
  <1>2. <<>> \in S BY SMT
  <1>3. TRUE \in T /\ FALSE \in B BY Zenon
  <1> HIDE DEF T, B, S
  <1>4. e \in Conns(T, B, S) BY <1>1, <1>2, <1>3, Zenon DEF Conns, NewConn
  <1>5. /\ e.open = TRUE /\ e.port = p /\ e.stopped = FALSE /\ e.sno = 0 /\ e.rno = 0 /\ e.retries = 0 /\ e.out = <<>>
        /\ e.trigger = FALSE /\ e.sendtimeout = FALSE /\ e.do_send_next = FALSE
    BY Zenon DEF NewConn
  <1>6. ConnOK(e) BY <1>1, <1>5, Zenon DEF ConnOK
  <1>7. e \in ConnStates BY <1>4, ConnSets, Zenon DEF T, B, S
  <1> QED BY <1>5, <1>6, <1>7, Zenon

\* CONNECTION_REQUEST: a connection on the lowest free channel, or a refusal.
LEMMA ConnectionLocal ==
  ASSUME Local, connection_request
  PROVE  /\ Local' /\ RecvS("conn") /\ UNCHANGED <<client, sentS, gotS>>
         /\ \E x : /\ x.type = "connresp" /\ Moves(toC, toC', {x})
                   /\ ~(Open /\ Head(toS).port = starts) => toC' = toC
                   /\ \/ conn' = conn /\ ~x.ok
                      \/ /\ x.ch \in Channels /\ ~conn[x.ch].open /\ conn'[x.ch] = NewConn(Head(toS).port)
                         /\ \A c \in Channels : c # x.ch => conn'[c] = conn[c]
  <1> DEFINE m == Head(toS)
             free == { ch \in cl.bound.channels : ~conn[ch].open }
             Refused == conn' = conn /\ toC' = PutC(m.port, Resp("connresp", 0, FALSE))
             Given(id) == /\ conn' = [conn EXCEPT ![id] = NewConn(m.port)]
                          /\ toC' = PutC(m.port, Resp("connresp", id, TRUE))
  <1>1. /\ RecvS("conn") /\ UNCHANGED <<client, sentS, gotS>>
        /\ Refused \/ \E id \in free : Given(id)
    BY Zenon DEF connection_request
  <1>2. toS' \in Seq(MsgS) /\ Len(toS') <= MaxNet /\ m.port \in Nat
    <2>1. toS' \in Seq(MsgS) /\ Len(toS') <= MaxNet /\ m \in MsgS /\ m.type = "conn" BY <1>1, RecvSFacts, Zenon
    <2> QED BY <2>1, MsgTypes, Zenon
  <1>3. sentS' \in Nat /\ gotS' \in Seq(Nat) BY <1>1, LocalIs, Zenon
  <1>4. CASE Refused
    <2> DEFINE x == Resp("connresp", 0, FALSE)
    <2>1. x \in MsgC /\ x.type = "connresp" /\ ~x.ok
      <3>1. x \in [ type : {"connresp"}, ch : {0}, ok : {FALSE} ] /\ x.type = "connresp" /\ ~x.ok BY Zenon DEF Resp
      <3> QED BY <3>1, Zenon DEF MsgC
    <2>2. conn' = conn /\ toC' = PutC(m.port, x) BY <1>4, Zenon
    <2> HIDE DEF x
    <2>3. /\ toC' \in Seq(MsgC) /\ Len(toC') <= MaxNet /\ Moves(toC, toC', {x})
          /\ (~(Open /\ m.port = starts) => toC' = toC)
      BY <2>1, <2>2, PutCMoves, Zenon
    <2>4. conn' \in [Channels -> ConnStates \cup {NoConn}] /\ \A c \in Channels : conn'[c].open => ConnOK(conn'[c])
      BY <2>2, LocalIs, Zenon DEF Local
    <2>5. Local' BY <1>1, <1>2, <1>3, <2>3, <2>4, ServerLocal, Zenon
    <2> QED BY <1>1, <2>1, <2>2, <2>3, <2>5, Zenon
  <1>5. ASSUME NEW id \in free, Given(id)
        PROVE  /\ Local'
               /\ \E x : /\ x.type = "connresp" /\ Moves(toC, toC', {x})
                         /\ ~(Open /\ m.port = starts) => toC' = toC
                         /\ x.ch \in Channels /\ ~conn[x.ch].open /\ conn'[x.ch] = NewConn(m.port)
                         /\ \A c \in Channels : c # x.ch => conn'[c] = conn[c]
    <2> DEFINE x == Resp("connresp", id, TRUE)
    <2>2. conn' = [conn EXCEPT ![id] = NewConn(m.port)] /\ toC' = PutC(m.port, x) BY <1>5, Zenon
    <2>3. id \in Channels /\ ~conn[id].open
      <3>1. cl.bound.channels \subseteq Channels BY LocalIs, Zenon
      <3> QED BY <1>5, <3>1, Zenon
    <2>4. x \in MsgC /\ x.type = "connresp" /\ x.ch = id
      <3>1. x \in [ type : {"connresp"}, ch : Channels, ok : {TRUE} ] /\ x.type = "connresp" /\ x.ch = id
        BY <2>3, Zenon DEF Resp
      <3> QED BY <3>1, Zenon DEF MsgC
    <2> HIDE DEF x
    <2>5. /\ toC' \in Seq(MsgC) /\ Len(toC') <= MaxNet /\ Moves(toC, toC', {x})
          /\ (~(Open /\ m.port = starts) => toC' = toC)
      BY <2>2, <2>4, PutCMoves, Zenon
    <2>6. NewConn(m.port) \in ConnStates /\ ConnOK(NewConn(m.port)) BY <1>2, NewConnIs, Zenon
    <2>7. /\ conn' \in [Channels -> ConnStates \cup {NoConn}] /\ conn'[id] = NewConn(m.port)
          /\ \A c \in Channels : c # id => conn'[c] = conn[c]
      BY <2>2, <2>3, <2>6, OneConn, Zenon
    <2>8. \A c \in Channels : conn'[c].open => ConnOK(conn'[c]) BY <2>6, <2>7, Zenon DEF Local
    <2>9. Local' BY <1>1, <1>2, <1>3, <2>5, <2>7, <2>8, ServerLocal, Zenon
    <2> QED BY <1>1, <2>3, <2>4, <2>5, <2>7, <2>9, Zenon
  <1> QED BY <1>1, <1>4, <1>5, Zenon

\* A connection is made: nothing is under way that could be taken for a part of it.
LEMMA ConnectionStep ==
  ASSUME TInv, connection_request, "conn" \notin Dup
  PROVE  TInv'
  <1>1. Local /\ SessionInv /\ DownInv /\ UpInv BY DEF TInv
  <1>2. PICK m : m = Head(toS) BY Zenon
  <1>3. Local' /\ RecvS("conn") /\ UNCHANGED <<client, sentS, gotS>> BY <1>1, ConnectionLocal, Zenon
  <1>4. UNCHANGED <<cl, sentC, gotC, ackedC, starts>> BY <1>3, Zenon DEF client
  <1> DEFINE put == Open /\ m.port = starts
             Made(x) == /\ x.ch \in Channels /\ ~conn[x.ch].open /\ conn'[x.ch] = NewConn(m.port)
                        /\ \A c \in Channels : c # x.ch => conn'[c] = conn[c]
  <1>5. PICK x : /\ x.type = "connresp" /\ Moves(toC, toC', {x}) /\ (~put => toC' = toC)
                 /\ (conn' = conn /\ ~x.ok) \/ Made(x)
    BY <1>1, <1>2, ConnectionLocal, Zenon
  <1>6. /\ m \in In(toS) /\ m.type = "conn" /\ m \in MsgS /\ Moves(toS, toS', {})
        /\ \A y \in In(toS') : Behind(toS, m, y)
    BY <1>1, <1>2, <1>3, RecvSFacts, Zenon
  <1> DEFINE none == {}
  <1>7. Moves(toS, toS', none) /\ \A y : y \notin none BY <1>6
  <1> HIDE DEF none
  <1>8. /\ \A y \in In(toS') : y \in In(toS)
        /\ \A a, b : Behind(toS', a, b) => Behind(toS, a, b)
        /\ \A a, b : Behind(toS', a, b) => a \in In(toS')
        /\ \A a, b : Behind(toC', a, b) => a \in In(toC')
    <2>1. \A y \in In(toS') : y \in In(toS) BY <1>7, Zenon DEF Moves
    <2>2. \A a, b : Behind(toS', a, b) => Behind(toS, a, b) BY <1>7, Zenon DEF Moves
    <2>3. \A net : \A a, b : Behind(net, a, b) => a \in In(net) BY Zenon DEF Behind, In
    <2> QED BY <2>1, <2>2, <2>3, Zenon
  <1>9. /\ \A y \in In(toC') : y \in In(toC) \/ (y = x /\ put)
        /\ \A a, b : Behind(toC', a, b) => a \in In(toC)
    <2>1. CASE put
      <3>1. Moves(toC, toC', {x}) BY <1>5
      <3>2. /\ \A y \in In(toC') : y \in In(toC) \/ y = x
            /\ \A a, b : Behind(toC', a, b) => Behind(toC, a, b) \/ (a \in In(toC) /\ b = x)
        BY ONLY <3>1, PutOne, Zenon
      <3>3. \A a, b : Behind(toC, a, b) => a \in In(toC) BY Zenon DEF Behind, In
      <3> QED BY <2>1, <3>2, <3>3, Zenon
    <2>2. CASE ~put BY <1>5, <1>8, <2>2, Zenon
    <2> QED BY <2>1, <2>2
  <1>10. /\ m.port <= starts /\ cl.mod = 0
         /\ \A ch \in Channels : conn[ch].open => conn[ch].port < m.port
         /\ put => Unconnected /\ \A y \in In(toC) : y.type \notin {"req", "ack", "connresp"}
         /\ \A y \in In(toC) : y.type # "connresp"
         /\ \A y \in In(toS') : y.type \notin {"req", "ack"} /\ (y.type = "conn" => m.port < y.port)
    BY <1>1, <1>6, Zenon DEF SessionInv
  <1>11. starts \in Nat /\ m.port \in Nat /\ (\A y \in In(toS') : y.type = "conn" => y.port \in Nat /\ y.port <= starts)
         /\ \A ch \in Channels : conn[ch].open => conn[ch].port \in Nat /\ conn[ch].port <= starts
    <2>1. starts \in Nat /\ \A y \in In(toS) : y.type = "conn" => y.port \in Nat BY <1>1, LocalIs, ReqTypes, MsgTypes, Zenon
    <2>2. \A ch \in Channels : conn[ch].open => conn[ch].port \in Nat BY <1>1, ConnTypes, Zenon
    <2> QED BY <1>1, <1>6, <1>8, <2>1, <2>2, Zenon DEF SessionInv
  <1>12. ASSUME Made(x) PROVE /\ conn'[x.ch].open = TRUE /\ conn'[x.ch].port = m.port /\ conn'[x.ch].sno = 0
                              /\ conn'[x.ch].rno = 0 /\ DOMAIN conn'[x.ch].out = {}
    <2>1. /\ NewConn(m.port).open = TRUE /\ NewConn(m.port).port = m.port
          /\ NewConn(m.port).sno = 0 /\ NewConn(m.port).rno = 0 /\ NewConn(m.port).out = <<>>
      BY <1>11, NewConnIs, Zenon
    <2>2. DOMAIN <<>> = {} BY SMT
    <2> QED BY <1>12, <2>1, <2>2, Zenon
  <1>13. \A ch \in Channels : conn'[ch].open => \/ conn'[ch] = conn[ch] /\ (put /\ x.ok => ch # x.ch)
                                                \/ Made(x) /\ ch = x.ch
    <2>1. CASE conn' = conn /\ ~x.ok BY <2>1, Zenon
    <2>2. CASE Made(x) BY <2>2, Zenon
    <2> QED BY <1>5, <2>1, <2>2
  <1>14. \A ch \in Channels : conn'[ch].open => conn'[ch].port \in Nat /\ conn'[ch].port <= m.port /\ conn'[ch].port <= starts
    <2>1. ASSUME NEW ch \in Channels, conn'[ch].open
          PROVE  conn'[ch].port \in Nat /\ conn'[ch].port <= m.port /\ conn'[ch].port <= starts
      <3>1. CASE conn'[ch] = conn[ch]
        <4>1. conn[ch].port \in Nat /\ conn[ch].port <= starts /\ conn[ch].port < m.port BY <1>10, <1>11, <2>1, <3>1, Zenon
        <4> QED BY <1>11, <3>1, <4>1, SMT
      <3>2. CASE Made(x) /\ ch = x.ch
        <4>1. conn'[ch].port = m.port BY <1>12, <3>2, Zenon
        <4> QED BY <1>10, <1>11, <4>1, SMT
      <3> QED BY <1>13, <2>1, <3>1, <3>2, Zenon
    <2> QED BY <2>1
  <1>15. (Open' <=> Open) /\ (Unconnected' <=> Unconnected) BY <1>4, Zenon DEF Open, Unconnected
  <1>16. ASSUME NEW y \in In(toS'), y.type = "conn"
         PROVE  (/\ y.port <= starts /\ cl.mod = 0
                 /\ \A ch \in Channels : conn[ch].open => conn[ch].port < y.port
                 /\ y.port = starts /\ Open =>
                      Unconnected /\ \A z \in In(toC) : z.type \notin {"req", "ack", "connresp"})'
    <2>1. y.port \in Nat /\ y.port <= starts /\ m.port < y.port /\ y \in In(toS) BY <1>8, <1>10, <1>11, <1>16, Zenon
    <2>2. \A ch \in Channels : conn'[ch].open => conn'[ch].port < y.port BY <1>11, <1>14, <2>1, SMT
    <2>3. y.port = starts => m.port # starts BY <1>11, <2>1, SMT
    <2>4. y.port = starts => toC' = toC BY <1>5, <2>3, Zenon
    <2>5. y.port = starts /\ Open => Unconnected /\ \A z \in In(toC) : z.type \notin {"req", "ack", "connresp"}
      BY <1>1, <1>16, <2>1, Zenon DEF SessionInv
    <2> QED BY <1>4, <1>10, <1>15, <2>1, <2>2, <2>4, <2>5, Zenon
  <1>17. ASSUME put
         PROVE  /\ \A y \in In(toS') : y.type \notin {"conn", "req", "ack"}
                /\ \A y \in In(toC') : y.type \notin {"req", "ack"}
    <2>1. \A y \in In(toS') : y.type # "conn" BY <1>10, <1>11, <1>17, SMT
    <2>2. \A y \in In(toC') : y.type \notin {"req", "ack"} BY <1>5, <1>9, <1>10, <1>17, Zenon
    <2> QED BY <1>10, <2>1, <2>2, Zenon
  <1>18. ASSUME put, x.ok
         PROVE  (/\ x.ch \in Channels /\ Own(x.ch) /\ Down(x.ch, 0)
                 /\ conn[x.ch].open => conn[x.ch].rno = 0 /\ conn[x.ch].sno = 0)'
    <2>1. Made(x) BY <1>5, <1>18, Zenon
    <2>2. /\ x.ch \in Channels /\ conn'[x.ch].open = TRUE /\ conn'[x.ch].port = starts /\ conn'[x.ch].sno = 0
          /\ conn'[x.ch].rno = 0 /\ DOMAIN conn'[x.ch].out = {}
      BY <1>12, <1>18, <2>1, Zenon
    <2>3. ASSUME NEW c \in Channels, conn'[c].open, c # x.ch PROVE conn'[c].port # starts
      <3>1. conn'[c] = conn[c] BY <2>1, <2>3, Zenon
      <3>2. conn[c].port < m.port /\ conn[c].port \in Nat /\ m.port = starts BY <1>10, <1>11, <1>18, <2>3, <3>1, Zenon
      <3> QED BY <1>11, <3>1, <3>2, SMT
    <2>4. Own(x.ch)' BY <1>4, <2>2, <2>3, Zenon DEF Own
    <2>5. Synced(conn[x.ch], 0)' BY <1>17, <1>18, <2>2, Zenon DEF Synced
    <2>6. Down(x.ch, 0)' BY <1>8, <1>17, <1>18, <2>5, Zenon DEF Down
    <2> QED BY <2>2, <2>4, <2>6, Zenon
  <1>19. ASSUME NEW y \in In(toC'), y.type = "connresp"
         PROVE  (/\ Unconnected
                 /\ \A z \in In(toS) : z.type \notin {"conn", "req", "ack"}
                 /\ \A z \in In(toC) : z.type # "ack"
                 /\ y.ok => /\ y.ch \in Channels /\ Own(y.ch) /\ Down(y.ch, 0)
                            /\ conn[y.ch].open => conn[y.ch].rno = 0 /\ conn[y.ch].sno = 0)'
    <2>1. y = x /\ put BY <1>9, <1>10, <1>19, Zenon
    <2> QED BY <1>10, <1>15, <1>17, <1>18, <2>1, Zenon
  <1>20. SessionInv'
    <2>1. (~Open => In(toC) = {})' BY <1>1, <1>5, <1>15, Zenon DEF SessionInv
    <2>2. (\A a, b : Behind(toS, a, b) /\ a.type = "conn" =>
             b.type \notin {"req", "ack"} /\ (b.type = "conn" => a.port < b.port))'
      BY <1>1, <1>8, Zenon DEF SessionInv
    <2>3. (\A ch \in Channels : conn[ch].open => conn[ch].port <= starts)' BY <1>4, <1>14, Zenon
    <2>4. (\A a, b : Behind(toC, a, b) => ~(a.type = "connresp" /\ b.type = "connresp"))' BY <1>9, <1>10, Zenon
    <2>5. (cl.mod # 0 => cl.channel \in Channels /\ Own(cl.channel))' BY <1>4, <1>10, Zenon
    <2>6. (\A z \in In(toS) : z.type \in {"req", "ack"} => z.ch = cl.channel /\ cl.channel \in Channels)'
      BY <1>10, Zenon
    <2> QED BY <1>16, <1>19, <2>1, <2>2, <2>3, <2>4, <2>5, <2>6, Zenon DEF SessionInv
  <1>21. DownInv'
    <2>1. \A y \in In(toC') : y.type = "req" => y \in In(toC) BY <1>5, <1>9, Zenon
    <2>2. \A c \in Channels : conn'[c].open => InTurn(conn'[c].out)
      <3> SUFFICES ASSUME NEW c \in Channels, conn'[c].open PROVE InTurn(conn'[c].out) OBVIOUS
      <3>1. CASE conn'[c] = conn[c] BY <1>1, <3>1, Zenon DEF DownInv
      <3>2. CASE Made(x) /\ c = x.ch BY <1>12, <3>2, Zenon DEF InTurn
      <3> QED BY <1>13, <3>1, <3>2, Zenon
    <2> QED BY <1>1, <1>3, <1>4, <1>10, <2>1, <2>2, Zenon DEF DownInv, InTurn, Increasing
  <1>22. UpInv'
    <2>1. \A p : Got(p)' <=> Got(p) BY <1>3, Zenon DEF Got
    <2>2. (\A i \in DOMAIN gotS : gotS[i] <= sentC)' /\ Increasing(gotS)' /\ (\A p \in ackedC : Got(p))'
      BY <1>1, <1>3, <1>4, <2>1, Zenon DEF UpInv, Increasing
    <2>3. \A y \in In(toS') : y.type # "req" BY <1>10, Zenon
    <2>4. ~Asking' BY <2>3, Zenon DEF Asking
    <2>5. cl'.mod = 0 BY <1>4, <1>10, Zenon
    <2> QED BY <1>8, <2>2, <2>3, <2>4, <2>5, Zenon DEF UpInv
  <1> QED BY <1>3, <1>20, <1>21, <1>22 DEF TInv

-----------------------------------------------------------------------------
\* The state of the timers and triggers is kept whatever the network repeats.
LEMMA NextLocal == ASSUME Local, Special PROVE Local'
  <1>1. CASE start BY <1>1, StartLocal, Zenon
  <1>2. CASE send_L_Data BY <1>2, SendLocal, Zenon
  <1>3. CASE trigger_cb /\ cl.mod = 1 /\ cl.out # 0 BY <1>3, TriggerSendLocal, Zenon
  <1>4. CASE connection_response /\ cl.mod = 0 /\ Head(toC).ok BY <1>4, ConnectLocal, Zenon
  <1>5. CASE /\ tunnel_request /\ cl.mod # 0 /\ Head(toC).ch = cl.channel
             /\ Head(toC).seqno = cl.rno \/ Inc(Head(toC).seqno) = cl.rno
    BY <1>5, RequestLocal, Zenon
  <1>6. CASE /\ tunnel_response /\ cl.mod = 2 /\ Head(toC).ch = cl.channel /\ Head(toC).seqno = cl.sno
             /\ Head(toC).ok
    BY <1>6, ResponseLocal, Zenon
  <1>7. CASE connection_request BY <1>7, ConnectionLocal, Zenon
  <1>8. CASE /\ ConnState_tunnel_request /\ Known(Head(toS).ch)
             /\ \/ Head(toS).seqno = conn[Head(toS).ch].rno
                \/ Inc(Head(toS).seqno) = conn[Head(toS).ch].rno
    BY <1>8, RequestSLocal, Zenon DEF Known
  <1>9. CASE /\ ConnState_tunnel_response /\ Known(Head(toS).ch) /\ Head(toS).seqno = conn[Head(toS).ch].sno
             /\ Head(toS).ok /\ conn[Head(toS).ch].retries # 0
    BY <1>9, ResponseSLocal, Zenon DEF Known
  <1>10. CASE \E ch \in Channels : send_trigger_cb(ch) /\ conn[ch].out # <<>> BY <1>10, SendTriggerLocal, Zenon
  <1> QED BY <1>1, <1>2, <1>3, <1>4, <1>5, <1>6, <1>7, <1>8, <1>9, <1>10, Zenon DEF Special

\* The whole invariant, as long as the network does not repeat a connection.
LEMMA NextTInv ==
  ASSUME TInv, Special, "conn" \notin Dup, "connresp" \notin Dup
  PROVE  TInv'
  <1>1. CASE start BY <1>1, StartStep, Zenon
  <1>2. CASE send_L_Data BY <1>2, SendStep, Zenon
  <1>3. CASE trigger_cb /\ cl.mod = 1 /\ cl.out # 0 BY <1>3, TriggerSendStep, Zenon
  <1>4. CASE connection_response /\ cl.mod = 0 /\ Head(toC).ok BY <1>4, ConnectStep, Zenon
  <1>5. CASE /\ tunnel_request /\ cl.mod # 0 /\ Head(toC).ch = cl.channel
             /\ Head(toC).seqno = cl.rno \/ Inc(Head(toC).seqno) = cl.rno
    BY <1>5, RequestStep, Zenon
  <1>6. CASE /\ tunnel_response /\ cl.mod = 2 /\ Head(toC).ch = cl.channel /\ Head(toC).seqno = cl.sno
             /\ Head(toC).ok
    BY <1>6, ResponseStep, Zenon
  <1>7. CASE connection_request BY <1>7, ConnectionStep, Zenon
  <1>8. CASE /\ ConnState_tunnel_request /\ Known(Head(toS).ch)
             /\ \/ Head(toS).seqno = conn[Head(toS).ch].rno
                \/ Inc(Head(toS).seqno) = conn[Head(toS).ch].rno
    BY <1>8, RequestSStep, Zenon
  <1>9. CASE /\ ConnState_tunnel_response /\ Known(Head(toS).ch) /\ Head(toS).seqno = conn[Head(toS).ch].sno
             /\ Head(toS).ok /\ conn[Head(toS).ch].retries # 0
    BY <1>9, ResponseSStep, Zenon
  <1>10. CASE \E ch \in Channels : send_trigger_cb(ch) /\ conn[ch].out # <<>> BY <1>10, SendTriggerStep, Zenon
  <1> QED BY <1>1, <1>2, <1>3, <1>4, <1>5, <1>6, <1>7, <1>8, <1>9, <1>10, Zenon DEF Special

\* At first there are neither connections nor messages.
LEMMA InitTInv == ASSUME Init PROVE TInv
  <1>1. PICK b \in Bounds : cl = [ link |-> "off", mod |-> 0, channel |-> -1, sno |-> 0, rno |-> 0, retry |-> 0,
              out |-> 0, trigger |-> FALSE, timeout |-> FALSE, conntimeout |-> FALSE,
              heartbeat |-> 0, owed |-> FALSE, bound |-> b ]
    BY Zenon DEF Init
  <1>2. /\ cl.link = "off" /\ cl.mod = 0 /\ cl.out = 0 /\ cl.owed = FALSE
        /\ cl.trigger = FALSE /\ cl.timeout = FALSE /\ cl.conntimeout = FALSE
    BY <1>1, Zenon
  <1>3. cl \in Client
    <2>1. 0 \in Seqno BY IncFacts, Zenon
    <2>2. 0 \in Nat /\ 0 \in 0..2 BY SMT
    <2>3. -1 \in Channels \cup {-1} BY Zenon
    <2> QED BY <1>1, <2>1, <2>2, <2>3, Zenon DEF Client
  <1>4. /\ conn = [ ch \in Channels |-> NoConn ] /\ toS = <<>> /\ toC = <<>> /\ sentC = 0 /\ sentS = 0
        /\ gotS = <<>> /\ gotC = <<>> /\ ackedC = {} /\ starts = 0
    BY Zenon DEF Init
  <1>5. conn \in [Channels -> ConnStates \cup {NoConn}] BY <1>4, Zenon
  <1>6. \A ch \in Channels : conn[ch].open = FALSE BY <1>4, Zenon DEF NoConn
  <1>7. /\ Len(toS) <= MaxNet /\ Len(toC) <= MaxNet /\ DOMAIN toS = {} /\ DOMAIN toC = {}
        /\ DOMAIN gotS = {} /\ DOMAIN gotC = {} /\ Increasing(gotS) /\ Increasing(gotC)
    BY <1>4, TunnelConfig, SMT DEF Increasing
  <1>8. gotS \in Seq(Nat) /\ gotC \in Seq(Nat) /\ sentC \in Nat /\ sentS \in Nat /\ starts \in Nat BY <1>4, SMT
  <1>9. toS \in Seq(MsgS) /\ toC \in Seq(MsgC)
    <2>1. \A S : <<>> \in Seq(S) BY SMT
    <2> QED BY <1>4, <2>1, Zenon
  <1>10. ClientOK /\ ~Open
    <2>1. 0 # 1 /\ 0 # 2 BY SMT
    <2> QED BY <1>2, <2>1, Zenon DEF ClientOK, Open
  <1>11. Local BY <1>3, <1>5, <1>6, <1>7, <1>8, <1>9, <1>10, Zenon DEF Local, Typed, TypeOK
  <1>12. /\ \A m : m \notin In(toS) /\ m \notin In(toC)
         /\ \A m, n : ~Behind(toS, m, n) /\ ~Behind(toC, m, n)
    BY <1>7, Zenon DEF In, Behind
  <1>13. In(toC) = {} BY <1>12, Zenon
  <1>14. SessionInv BY <1>2, <1>6, <1>12, <1>13, Zenon DEF SessionInv
  <1>15. DownInv BY <1>2, <1>6, <1>7, <1>12, Zenon DEF DownInv
  <1>16. UpInv
    <2>1. ~Asking BY <1>12, Zenon DEF Asking
    <2> QED BY <1>2, <1>4, <1>7, <1>12, <2>1, Zenon DEF UpInv
  <1> QED BY <1>11, <1>14, <1>15, <1>16, Zenon DEF TInv

\* Neither side of the tunnel waits for something that will not happen, whatever the
\* network loses or repeats: EIBNetIPTunnel has a timer or trigger running whenever it
\* has a packet or no connection, ConnState whenever packets are in `out'.
THEOREM NobodySleeps == Spec => []Awake
  <1>1. Init => Local BY InitTInv, Zenon DEF TInv
  <1>2. Local /\ [Next]_vars => Local'
    <2>1. ASSUME Local, UNCHANGED vars PROVE Local'
      BY <2>1, Zenon DEF vars, Local, Typed, TypeOK, ClientOK, Open
    <2> QED BY <2>1, NextIs, NextLocal, Zenon
  <1>3. Local => Awake
    <2>1. ASSUME Local PROVE Awake
      <3>1. TypeOK /\ ClientOK BY <2>1, Zenon DEF Local, Typed
      <3>2. ASSUME NEW ch \in Channels, conn[ch].open, ~conn[ch].stopped
            PROVE  /\ conn[ch].out # <<>> => conn[ch].trigger \/ conn[ch].sendtimeout
                   /\ conn[ch].do_send_next => conn[ch].out # <<>>
        <4>1. ConnOK(conn[ch]) BY <2>1, <3>2, Zenon DEF Local
        <4>2. conn[ch].retries \in 0..3 BY <2>1, <3>2, ConnTypes, Zenon
        <4>3. conn[ch].retries \in {0, 2} \/ conn[ch].retries \in {1, 3} BY <4>2, SMT
        <4> QED BY <3>2, <4>1, <4>3, Zenon DEF ConnOK
      <3> QED BY <3>1, <3>2, Zenon DEF Awake, ClientOK
    <2> QED BY <2>1
  <1> QED BY <1>1, <1>2, <1>3, PTL DEF Spec

\* The inductive invariant of the tunnel.
THEOREM TunnelInductive == ASSUME "conn" \notin Dup, "connresp" \notin Dup PROVE Spec => []TInv
  <1>1. Init => TInv BY InitTInv, Zenon
  <1>2. TInv /\ [Next]_vars => TInv'
    <2>1. ASSUME TInv, UNCHANGED vars PROVE TInv'
      <3>1. /\ cl' = cl /\ conn' = conn /\ toS' = toS /\ toC' = toC /\ sentC' = sentC /\ sentS' = sentS
            /\ gotS' = gotS /\ gotC' = gotC /\ ackedC' = ackedC /\ starts' = starts
        BY <2>1, Zenon DEF vars
      <3>2. Local' BY <2>1, <3>1, Zenon DEF TInv, Local, Typed, TypeOK, ClientOK, Open
      <3>3. ASSUME NEW ch, NEW q, Down(ch, q) PROVE Down(ch, q)'
        <4>1. \A x : Newer(x)' <=> Newer(x) BY <3>1, Zenon DEF Newer
        <4>2. ASSUME Synced(conn[ch], q) PROVE Synced(conn[ch], q)' BY <3>1, <4>1, <4>2, Zenon DEF Synced, Newer
        <4> QED BY <3>1, <3>3, <4>1, <4>2 DEF Down
      <3>4. (\A ch : Own(ch)' <=> Own(ch)) /\ (Open' <=> Open) /\ (Unconnected' <=> Unconnected)
        BY <3>1, Zenon DEF Own, Open, Unconnected
      <3>5. \A q : InTurn(q)' <=> InTurn(q) BY <3>1, Zenon DEF InTurn
      <3>6. /\ (Asking' <=> Asking) /\ (Due' <=> Due) /\ \A p : Got(p)' <=> Got(p)
            /\ \A q : (AskingFor(q)' <=> AskingFor(q)) /\ (OnlyAsking(q)' <=> OnlyAsking(q))
        BY <3>1, Zenon DEF Asking, Due, Got, AskingFor, OnlyAsking
      <3>7. SessionInv' BY <2>1, <3>1, <3>3, <3>4, Zenon DEF TInv, SessionInv
      <3>8. DownInv' BY <2>1, <3>1, <3>3, <3>5, Zenon DEF TInv, DownInv
      <3>9. UpInv' BY <2>1, <3>1, <3>6, Zenon DEF TInv, UpInv
      <3> QED BY <3>2, <3>7, <3>8, <3>9 DEF TInv
    <2>2. ASSUME TInv, Next PROVE TInv'
      <3>1. (Local' /\ Quiet) \/ Special BY <2>2, NextIs, Zenon DEF TInv
      <3>2. CASE Local' /\ Quiet
        <4>1. SessionInv' /\ DownInv' /\ UpInv' BY <2>2, <3>2, QuietStep, Zenon
        <4> QED BY <3>2, <4>1, Zenon DEF TInv
      <3>3. CASE Special BY <2>2, <3>3, NextTInv, Zenon
      <3> QED BY <3>1, <3>2, <3>3
    <2> QED BY <2>1, <2>2
  <1> QED BY <1>1, <1>2, PTL DEF Spec

\* Each router gets the packets of the other side in the order in which they were sent
\* and none of them twice (tunnel_request on both sides), over any number of
\* retransmissions and reconnections, if the network repeats neither CONNECTION_REQUEST
\* nor CONNECTION_RESPONSE.
THEOREM PacketsInOrder == ASSUME "conn" \notin Dup, "connresp" \notin Dup PROVE Spec => []InOrder
  <1>1. TInv => InOrder BY Zenon DEF TInv, DownInv, UpInv, InOrder
  <1> QED BY <1>1, TunnelInductive, PTL

\* When the client's driver calls send_Next for a packet, the router of the server has
\* got it.
THEOREM AckMeansDelivered == ASSUME "conn" \notin Dup, "connresp" \notin Dup PROVE Spec => []AckedDelivered
  <1>1. TInv => AckedDelivered BY Zenon DEF TInv, UpInv, Got, AckedDelivered
  <1> QED BY <1>1, TunnelInductive, PTL
=============================================================================
