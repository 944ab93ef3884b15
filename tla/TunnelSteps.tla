----------------------------- MODULE TunnelSteps -----------------------------
(***************************************************************************)
(* The inductive invariant of the tunnel, and the steps that keep it: all  *)
(* those that leave the session as it is, and those of the client that     *)
(* start, connect and send.  TunnelProofs has the others and the theorems. *)
(***************************************************************************)
EXTENDS Tunnel, TLAPS

-----------------------------------------------------------------------------
\* The proofs see a queue of the network as the set of its messages and the relation
\* "a is in front of b": what a step does to it is then said without positions.
In(net) == {net[i] : i \in DOMAIN net}
Behind(net, a, b) == \E i, j \in DOMAIN net : i < j /\ net[i] = a /\ net[j] = b

Cemi == [ kind : {"con", "ind"}, p : Nat ]

Plain == [ type : {"conn", "state", "disc", "discresp"}, ch : Int, port : Nat ]
Acks == [ type : {"ack"}, ch : Int, seqno : Seqno, ok : BOOLEAN ]
MsgS == Plain \cup Acks \cup [ type : {"req"}, ch : Int, seqno : Seqno, cemi : Nat ]
MsgC == Plain \cup Acks \cup [ type : {"req"}, ch : Int, seqno : Seqno, cemi : Cemi ]
              \cup [ type : {"stateresp", "discresp"}, ch : Int, ok : BOOLEAN ]
              \cup [ type : {"connresp"}, ch : Channels, ok : {TRUE} ]
              \cup [ type : {"connresp"}, ch : {0}, ok : {FALSE} ]

Typed ==
    /\ TypeOK /\ toS \in Seq(MsgS) /\ toC \in Seq(MsgC)
    /\ sentC \in Nat /\ sentS \in Nat /\ starts \in Nat
    /\ gotS \in Seq(Nat) /\ gotC \in Seq(Nat)

\* The two sides by themselves: which timer or trigger is active in which state.
ClientOK ==
    /\ cl.mod # 0 => cl.link = "on"
    /\ Open => /\ cl.mod = 0 => cl.conntimeout
               /\ cl.mod = 1 /\ cl.out # 0 => cl.trigger
               /\ cl.mod = 2 => cl.timeout
    /\ ~Open => ~cl.trigger /\ ~cl.timeout /\ ~cl.conntimeout
    /\ cl.out # 0 => cl.out = sentC /\ cl.owed
    /\ cl.mod = 2 => cl.out # 0

ConnOK(s) ==
    IF s.stopped THEN ~s.trigger /\ ~s.sendtimeout /\ s.retries = 0
    ELSE /\ s.trigger => s.retries \in {0, 2}
         /\ s.sendtimeout <=> s.retries \in {1, 3}
         /\ s.retries = 2 \/ (s.retries = 0 /\ s.out # <<>>) => s.trigger
         /\ s.retries # 0 \/ s.do_send_next => s.out # <<>>

Local == Typed /\ ClientOK /\ \A ch \in Channels : conn[ch].open => ConnOK(conn[ch])
-----------------------------------------------------------------------------
\* Packets of the server.  Those in a queue are in order and have been counted.
InTurn(q) ==
    /\ \A i \in DOMAIN q : q[i].kind = "ind" => q[i].p <= sentS
    /\ \A i, j \in DOMAIN q : i < j /\ q[i].kind = "ind" /\ q[j].kind = "ind" => q[i].p < q[j].p

Newer(x) == x.kind = "ind" => \A i \in DOMAIN gotC : gotC[i] < x.p

\* The server's connection s against a client that expects sequence number q: either the
\* packet in front has not arrived, or it has and its ACK may be under way.
Synced(s, q) ==
    \/ /\ s.sno = q /\ \A i \in DOMAIN s.out : Newer(s.out[i])
       /\ \A m \in In(toS) : m.type = "ack" => Inc(m.seqno) = q
       /\ \A m \in In(toC) : m.type = "req" /\ m.seqno = q => s.retries # 0 /\ m.cemi = Head(s.out)
    \/ /\ Inc(s.sno) = q /\ s.retries # 0 /\ \A i \in DOMAIN s.out : i # 1 => Newer(s.out[i])
       /\ \A m \in In(toC) : m.type = "req" => m.seqno = s.sno
       /\ \A m \in In(toS) : m.type = "ack" => m.seqno = s.sno \/ Inc(m.seqno) = s.sno
       /\ \A a, b : Behind(toS, a, b) /\ a.type = "ack" /\ b.type = "ack" /\ a.seqno = s.sno => b.seqno = s.sno

\* Requests under way to a client that expects q are the last packet again or, behind
\* them, the next one.
Down(ch, q) ==
    /\ \A m \in In(toC) : m.type = "req" => Inc(m.seqno) = q \/ (m.seqno = q /\ Newer(m.cemi))
    /\ \A a, b : Behind(toC, a, b) /\ a.type = "req" /\ b.type = "req" /\ a.seqno = q => b.seqno = q
    /\ \A a, b \in In(toC) : a.type = "req" /\ b.type = "req" /\ a.seqno = q /\ b.seqno = q => a.cemi = b.cemi
    /\ conn[ch].open /\ ~conn[ch].stopped => Synced(conn[ch], q)

\* ch is the channel, and the only one, of the client's present socket.
Own(ch) == \A c \in Channels : conn[c].open => (conn[c].port = starts <=> c = ch)

DownInv ==
    /\ \A i \in DOMAIN gotC : gotC[i] <= sentS
    /\ \A m \in In(toC) : m.type = "req" /\ m.cemi.kind = "ind" => m.cemi.p <= sentS
    /\ Increasing(gotC)
    /\ \A ch \in Channels : conn[ch].open => InTurn(conn[ch].out)
    /\ cl.mod # 0 => Down(cl.channel, cl.rno)
-----------------------------------------------------------------------------
\* Sessions.  A CONNECTION_REQUEST is in front of nothing that belongs to a connection,
\* and until its answer is read nothing else of the new connection is under way.
Unconnected == cl.mod = 0 /\ cl.link = "starting" /\ ~cl.owed /\ cl.out = 0

SessionInv ==
    /\ ~Open => In(toC) = {}
    /\ \A m \in In(toS) : m.type = "conn" =>
         /\ m.port <= starts /\ cl.mod = 0
         /\ \A ch \in Channels : conn[ch].open => conn[ch].port < m.port
         /\ m.port = starts /\ Open =>
              Unconnected /\ \A x \in In(toC) : x.type \notin {"req", "ack", "connresp"}
    /\ \A a, b : Behind(toS, a, b) /\ a.type = "conn" =>
         b.type \notin {"req", "ack"} /\ (b.type = "conn" => a.port < b.port)
    /\ \A ch \in Channels : conn[ch].open => conn[ch].port <= starts
    /\ \A m \in In(toC) : m.type = "connresp" =>
         /\ Unconnected
         /\ \A x \in In(toS) : x.type \notin {"conn", "req", "ack"}
         /\ \A x \in In(toC) : x.type # "ack"
         /\ m.ok => /\ m.ch \in Channels /\ Own(m.ch) /\ Down(m.ch, 0)
                    /\ conn[m.ch].open => conn[m.ch].rno = 0 /\ conn[m.ch].sno = 0
    /\ \A a, b : Behind(toC, a, b) => ~(a.type = "connresp" /\ b.type = "connresp")
    /\ cl.mod # 0 => cl.channel \in Channels /\ Own(cl.channel)
    /\ \A m \in In(toS) : m.type \in {"req", "ack"} => m.ch = cl.channel /\ cl.channel \in Channels
-----------------------------------------------------------------------------
\* Packets of the client.
Got(p) == \E i \in DOMAIN gotS : gotS[i] = p

Asking == \E m \in In(toS) : m.type = "req"
AskingFor(s) == \E m \in In(toS) : m.type = "req" /\ m.seqno = s
OnlyAsking(s) == \A m \in In(toS) : m.type = "req" => m.seqno = s

\* The client's packet is outstanding, or was when its socket was closed.
Due == cl.owed \/ cl.link # "on"

UpInv ==
    /\ \A i \in DOMAIN gotS : gotS[i] <= sentC
    /\ Increasing(gotS)
    /\ \A p \in ackedC : Got(p)
    /\ \A m \in In(toS) : m.type = "req" => Inc(m.seqno) = cl.sno \/ (m.seqno = cl.sno /\ m.cemi = sentC /\ Due)
    /\ \A a, b : Behind(toS, a, b) /\ a.type = "req" /\ b.type = "req" /\ a.seqno = cl.sno => b.seqno = cl.sno
    /\ (cl.mod # 0 \/ Asking) /\ conn[cl.channel].open =>
         \/ conn[cl.channel].rno = cl.sno /\ (cl.owed \/ AskingFor(cl.sno) => ~Got(sentC))
         \/ conn[cl.channel].rno = Inc(cl.sno) /\ Got(sentC) /\ Due /\ OnlyAsking(cl.sno)
    /\ cl.mod # 0 =>
         /\ \A m \in In(toC) : m.type = "ack" =>
              \/ Inc(m.seqno) = cl.sno
              \/ /\ m.seqno = cl.sno /\ Got(sentC) /\ cl.owed /\ OnlyAsking(cl.sno)
                 /\ conn[cl.channel].open => conn[cl.channel].rno = Inc(cl.sno)
         /\ \A a, b : Behind(toC, a, b) /\ a.type = "ack" /\ b.type = "ack" /\ a.seqno = cl.sno
              => b.seqno = cl.sno

TInv == Local /\ SessionInv /\ DownInv /\ UpInv
-----------------------------------------------------------------------------
\* Sequence numbers.
LEMMA IncFacts ==
  /\ 0 \in Seqno /\ \A a \in Seqno : Inc(a) \in Seqno /\ Inc(a) # a
  /\ \A a, b \in Seqno : Inc(a) = Inc(b) => a = b
  <1>1. SeqMod \in Nat /\ SeqMod > 1 BY TunnelConfig, SMT
  <1>2. ASSUME NEW a \in Seqno PROVE Inc(a) = IF a = SeqMod - 1 THEN 0 ELSE a + 1
    BY <1>1, SMT DEF Seqno, Inc
  <1>3. 0 \in Seqno BY <1>1, SMT DEF Seqno
  <1>4. ASSUME NEW a \in Seqno PROVE Inc(a) \in Seqno /\ Inc(a) # a
    BY <1>1, <1>2, SMT DEF Seqno
  <1>5. ASSUME NEW a \in Seqno, NEW b \in Seqno, Inc(a) = Inc(b) PROVE a = b
    <2>1. (IF a = SeqMod - 1 THEN 0 ELSE a + 1) = (IF b = SeqMod - 1 THEN 0 ELSE b + 1) BY <1>2, <1>5, Zenon
    <2> QED BY <1>1, <2>1, SMT DEF Seqno
  <1> QED BY <1>3, <1>4, <1>5, Zenon

\* What becomes of a queue: the messages of M join at its end, others may leave.
Moves(old, new, M) ==
    /\ In(new) \subseteq In(old) \cup M
    /\ \A a, b : Behind(new, a, b) => Behind(old, a, b) \/ (a \in In(old) /\ b \in M)

\* A message is put at the end of a queue or lost.
LEMMA PutMoves ==
  ASSUME NEW S, NEW net \in Seq(S), NEW m \in S, Len(net) <= MaxNet
  PROVE  Put(net, m) \in Seq(S) /\ Len(Put(net, m)) <= MaxNet /\ Moves(net, Put(net, m), {m})
  <1>1. MaxNet \in Nat BY TunnelConfig, Zenon
  <1>2. CASE ~(Len(net) < MaxNet)
    <2>1. Put(net, m) = net BY <1>2, Zenon DEF Put
    <2> QED BY <2>1, Zenon DEF Moves
  <1>3. CASE Len(net) < MaxNet
    <2> DEFINE new == Append(net, m)
    <2>1. Put(net, m) = new BY <1>3, Zenon DEF Put
    <2>2. /\ new \in Seq(S) /\ Len(new) <= MaxNet /\ DOMAIN new = 1 .. Len(net) + 1 /\ DOMAIN net = 1 .. Len(net)
          /\ new[Len(net) + 1] = m /\ \A i \in DOMAIN net : new[i] = net[i]
      BY <1>1, <1>3, SMT
    <2> HIDE DEF new
    <2>3. \A i \in DOMAIN new : i \in DOMAIN net \/ i = Len(net) + 1 BY <2>2, SMT
    <2>4. In(new) \subseteq In(net) \cup {m} BY <2>2, <2>3, Zenon DEF In
    <2>5. ASSUME NEW a, NEW b, Behind(new, a, b) PROVE Behind(net, a, b) \/ (a \in In(net) /\ b \in {m})
      <3>1. PICK i \in DOMAIN new, j \in DOMAIN new : i < j /\ new[i] = a /\ new[j] = b BY <2>5, Zenon DEF Behind
      <3>2. i \in DOMAIN net BY <2>2, <3>1, SMT
      <3>3. CASE j \in DOMAIN net BY <2>2, <3>1, <3>2, <3>3, Zenon DEF Behind
      <3>4. CASE j = Len(net) + 1 BY <2>2, <3>1, <3>2, <3>4, Zenon DEF In
      <3> QED BY <2>3, <3>3, <3>4, Zenon
    <2> QED BY <2>1, <2>2, <2>4, <2>5, Zenon DEF Moves
  <1> QED BY <1>2, <1>3

\* The first message is read: the others were behind it, and it may be read again if
\* the network duplicates it.
LEMMA RestMoves ==
  ASSUME NEW S, NEW net \in Seq(S), net # <<>>, NEW new \in Rest(net), Len(net) <= MaxNet
  PROVE  /\ new \in Seq(S) /\ Len(new) <= MaxNet /\ Moves(net, new, {})
         /\ Head(net) \in S /\ Head(net) \in In(net)
         /\ \A y \in In(new) : (y = Head(net) /\ Head(net).type \in Dup) \/ Behind(net, Head(net), y)
  <1>1. MaxNet \in Nat BY TunnelConfig, Zenon
  <1>2. /\ Head(net) \in S /\ Head(net) = net[1] /\ 1 \in DOMAIN net /\ Tail(net) \in Seq(S)
        /\ Len(Tail(net)) <= MaxNet /\ DOMAIN Tail(net) = 1 .. Len(net) - 1 /\ DOMAIN net = 1 .. Len(net)
        /\ \A i \in DOMAIN Tail(net) : i + 1 \in DOMAIN net /\ Tail(net)[i] = net[i + 1] /\ 1 < i + 1
        /\ \A i, j \in DOMAIN Tail(net) : i < j => i + 1 < j + 1
    BY <1>1, SMT
  <1>3. Head(net) \in In(net) BY <1>2, Zenon DEF In
  <1>4. CASE new = Tail(net)
    <2>1. ASSUME NEW y \in In(new) PROVE Behind(net, Head(net), y) /\ y \in In(net)
      <3>1. PICK i \in DOMAIN Tail(net) : y = Tail(net)[i] BY <1>4, <2>1, Zenon DEF In
      <3>2. i + 1 \in DOMAIN net /\ 1 < i + 1 /\ net[i + 1] = y BY <1>2, <3>1, Zenon
      <3>3. y \in In(net) BY <3>2, Zenon DEF In
      <3> QED BY <1>2, <3>2, <3>3, Zenon DEF Behind
    <2>2. \A a, b : Behind(new, a, b) => Behind(net, a, b)
      <3> SUFFICES ASSUME NEW a, NEW b, Behind(new, a, b) PROVE Behind(net, a, b) OBVIOUS
      <3>1. PICK i \in DOMAIN new, j \in DOMAIN new : i < j /\ new[i] = a /\ new[j] = b BY Zenon DEF Behind
      <3>2. /\ i + 1 \in DOMAIN net /\ j + 1 \in DOMAIN net /\ i + 1 < j + 1
            /\ net[i + 1] = a /\ net[j + 1] = b
        BY <1>2, <1>4, <3>1, Zenon
      <3> QED BY <3>2, Zenon DEF Behind
    <2> QED BY <1>2, <1>3, <1>4, <2>1, <2>2, Zenon DEF Moves
  <1>5. CASE new = net /\ Head(net).type \in Dup
    <2>1. \A i \in DOMAIN net : i = 1 \/ 1 < i BY <1>2, SMT
    <2>2. \A y \in In(new) : y = Head(net) \/ Behind(net, Head(net), y)
      BY <1>2, <1>5, <2>1, Zenon DEF In, Behind
    <2> QED BY <1>2, <1>3, <1>5, <2>2, Zenon DEF Moves
  <1> QED BY <1>4, <1>5, Zenon DEF Rest

\* A queue left alone.
LEMMA StayMoves == \A net : Moves(net, net, {})
  BY Zenon DEF Moves

-----------------------------------------------------------------------------
\* Steps that the client's packets do not notice: no request is sent, none accepted, no
\* ACK given or taken.
LEMMA UpKept ==
  ASSUME UpInv, NEW MS, NEW MC, Moves(toS, toS', MS), Moves(toC, toC', MC),
         \A m \in MS : m.type # "req", \A m \in MC : m.type # "ack",
         UNCHANGED <<sentC, gotS, ackedC>>,
         cl'.sno = cl.sno, cl'.channel = cl.channel, cl'.owed = cl.owed,
         cl'.link = cl.link \/ cl'.link # "on", cl'.mod # 0 => cl.mod # 0,
         (cl.mod # 0 \/ Asking) /\ conn'[cl.channel].open =>
            conn[cl.channel].open /\ conn'[cl.channel].rno = conn[cl.channel].rno
  PROVE  UpInv'
  <1>1. \A m \in In(toS') : m.type = "req" => m \in In(toS) BY Zenon DEF Moves
  <1>2. \A m \in In(toC') : m.type = "ack" => m \in In(toC) BY Zenon DEF Moves
  <1>3. \A a, b : Behind(toS', a, b) /\ b.type = "req" => Behind(toS, a, b) BY Zenon DEF Moves
  <1>4. \A a, b : Behind(toC', a, b) /\ b.type = "ack" => Behind(toC, a, b) BY Zenon DEF Moves
  <1>5. /\ Asking' => Asking
        /\ \A s : AskingFor(s)' => AskingFor(s)
        /\ \A s : OnlyAsking(s) => OnlyAsking(s)'
    BY <1>1, Zenon DEF Asking, AskingFor, OnlyAsking
  <1>6. \A p : Got(p)' <=> Got(p) BY Zenon DEF Got
  <1>7. Due => Due' BY Zenon DEF Due
  <1>8. (\A i \in DOMAIN gotS : gotS[i] <= sentC)' /\ Increasing(gotS)' /\ (\A p \in ackedC : Got(p))'
    BY <1>6, Zenon DEF UpInv, Increasing
  <1>9. (\A m \in In(toS) : m.type = "req" =>
           Inc(m.seqno) = cl.sno \/ (m.seqno = cl.sno /\ m.cemi = sentC /\ Due))'
    BY <1>1, <1>7, Zenon DEF UpInv
  <1>10. (\A a, b : Behind(toS, a, b) /\ a.type = "req" /\ b.type = "req" /\ a.seqno = cl.sno => b.seqno = cl.sno)'
    BY <1>3, Zenon DEF UpInv
  <1>11. ((cl.mod # 0 \/ Asking) /\ conn[cl.channel].open =>
           \/ conn[cl.channel].rno = cl.sno /\ (cl.owed \/ AskingFor(cl.sno) => ~Got(sentC))
           \/ conn[cl.channel].rno = Inc(cl.sno) /\ Got(sentC) /\ Due /\ OnlyAsking(cl.sno))'
    BY <1>5, <1>6, <1>7, Zenon DEF UpInv
  <1>12. (cl.mod # 0 =>
         /\ \A m \in In(toC) : m.type = "ack" =>
              \/ Inc(m.seqno) = cl.sno
              \/ /\ m.seqno = cl.sno /\ Got(sentC) /\ cl.owed /\ OnlyAsking(cl.sno)
                 /\ conn[cl.channel].open => conn[cl.channel].rno = Inc(cl.sno)
         /\ \A a, b : Behind(toC, a, b) /\ a.type = "ack" /\ b.type = "ack" /\ a.seqno = cl.sno
              => b.seqno = cl.sno)'
    BY <1>2, <1>4, <1>5, <1>6, Zenon DEF UpInv
  <1> QED BY <1>8, <1>9, <1>10, <1>11, <1>12, Zenon DEF UpInv

\* A connection of the server goes on with what it is sending: s before, t after the step.
Carried(s, t) ==
    /\ t.sno = s.sno
    /\ ~t.stopped => /\ ~s.stopped /\ (s.retries # 0 => t.retries # 0 /\ Head(t.out) = Head(s.out))
                     /\ \A i \in DOMAIN t.out : \/ i \in DOMAIN s.out /\ t.out[i] = s.out[i]
                                                \/ t.out[i].kind # "ind"
                                                \/ \A j \in DOMAIN gotC : gotC[j] < t.out[i].p

\* Steps that do not move the packets of the server: no request sent or accepted, no ACK.
LEMMA DownKept ==
  ASSUME NEW MS, NEW MC, Moves(toS, toS', MS), Moves(toC, toC', MC),
         \A m \in MS : m.type # "ack", \A m \in MC : m.type # "req", UNCHANGED gotC,
         NEW ch, NEW q, Down(ch, q), conn'[ch].open => conn[ch].open /\ Carried(conn[ch], conn'[ch])
  PROVE  Down(ch, q)'
  <1>1. \A m \in In(toS') : m.type = "ack" => m \in In(toS) BY Zenon DEF Moves
  <1>2. \A m \in In(toC') : m.type = "req" => m \in In(toC) BY Zenon DEF Moves
  <1>3. \A a, b : Behind(toS', a, b) /\ b.type = "ack" => Behind(toS, a, b) BY Zenon DEF Moves
  <1>4. \A a, b : Behind(toC', a, b) /\ b.type = "req" => Behind(toC, a, b) BY Zenon DEF Moves
  <1>5. \A x : Newer(x)' <=> Newer(x) BY Zenon DEF Newer
  <1>6. ASSUME conn'[ch].open, ~conn'[ch].stopped PROVE Synced(conn[ch], q)'
    <2> DEFINE s == conn[ch]
               t == conn'[ch]
    <2>1. /\ s.open /\ ~s.stopped /\ t.sno = s.sno /\ (s.retries # 0 => t.retries # 0 /\ Head(t.out) = Head(s.out))
          /\ \A i \in DOMAIN t.out : \/ i \in DOMAIN s.out /\ t.out[i] = s.out[i]
                                     \/ Newer(t.out[i])
      BY <1>6, Zenon DEF Carried, Newer
    <2>2. Synced(s, q) BY <2>1, Zenon DEF Down
    <2>3. CASE /\ s.sno = q /\ \A i \in DOMAIN s.out : Newer(s.out[i])
               /\ \A m \in In(toS) : m.type = "ack" => Inc(m.seqno) = q
               /\ \A m \in In(toC) : m.type = "req" /\ m.seqno = q => s.retries # 0 /\ m.cemi = Head(s.out)
      <3>1. \A i \in DOMAIN t.out : Newer(t.out[i]) BY <2>1, <2>3, Zenon
      <3>2. \A m \in In(toC') : m.type = "req" /\ m.seqno = q => t.retries # 0 /\ m.cemi = Head(t.out)
        BY <1>2, <2>1, <2>3, Zenon
      <3>3. \A m \in In(toS') : m.type = "ack" => Inc(m.seqno) = q BY <1>1, <2>3, Zenon
      <3> QED BY <1>5, <2>1, <2>3, <3>1, <3>2, <3>3, Zenon DEF Synced
    <2>4. CASE /\ Inc(s.sno) = q /\ s.retries # 0 /\ \A i \in DOMAIN s.out : i # 1 => Newer(s.out[i])
               /\ \A m \in In(toC) : m.type = "req" => m.seqno = s.sno
               /\ \A m \in In(toS) : m.type = "ack" => m.seqno = s.sno \/ Inc(m.seqno) = s.sno
               /\ \A a, b : Behind(toS, a, b) /\ a.type = "ack" /\ b.type = "ack" /\ a.seqno = s.sno => b.seqno = s.sno
      <3>1. \A i \in DOMAIN t.out : i # 1 => Newer(t.out[i]) BY <2>1, <2>4, Zenon
      <3>2. \A m \in In(toC') : m.type = "req" => m.seqno = t.sno BY <1>2, <2>1, <2>4, Zenon
      <3>3. \A m \in In(toS') : m.type = "ack" => m.seqno = t.sno \/ Inc(m.seqno) = t.sno
        BY <1>1, <2>1, <2>4, Zenon
      <3>4. \A a, b : Behind(toS', a, b) /\ a.type = "ack" /\ b.type = "ack" /\ a.seqno = t.sno => b.seqno = t.sno
        BY <1>3, <2>1, <2>4, Zenon
      <3> QED BY <1>5, <2>1, <2>4, <3>1, <3>2, <3>3, <3>4, Zenon DEF Synced
    <2> QED BY <2>2, <2>3, <2>4, Zenon DEF Synced
  <1>7. (\A m \in In(toC) : m.type = "req" => Inc(m.seqno) = q \/ (m.seqno = q /\ Newer(m.cemi)))'
    BY <1>2, <1>5, Zenon DEF Down
  <1>8. (\A a, b : Behind(toC, a, b) /\ a.type = "req" /\ b.type = "req" /\ a.seqno = q => b.seqno = q)'
    BY <1>4, Zenon DEF Down
  <1>9. (\A a, b \in In(toC) : a.type = "req" /\ b.type = "req" /\ a.seqno = q /\ b.seqno = q => a.cemi = b.cemi)'
    BY <1>2, Zenon DEF Down
  <1> QED BY <1>6, <1>7, <1>8, <1>9, Zenon DEF Down
\* Steps of a session, and between sessions: no CONNECTION_REQUEST is sent or answered,
\* no request or ACK of the client is sent.
LEMMA SessionKept ==
  ASSUME SessionInv, NEW MS, NEW MC, Moves(toS, toS', MS), Moves(toC, toC', MC),
         \A m \in MS : m.type \notin {"conn", "req", "ack"}, \A m \in MC : m.type # "connresp",
         \A m \in MC : m.type = "ack" => Asking,
         \A m \in MC : m.type \in {"req", "ack"} => \E c \in Channels : conn[c].open /\ conn[c].port = starts,
         UNCHANGED starts, cl'.channel = cl.channel, cl'.mod # 0 => cl.mod # 0,
         Unconnected /\ Open' => Unconnected', Open' => Open, ~Open' => In(toC') = {},
         \A c \in Channels : conn'[c].open => conn[c].open /\ conn'[c].port = conn[c].port,
         (\A x \in In(toS) : x.type \notin {"conn", "req", "ack"}) =>
            /\ \A c \in Channels : conn'[c].open => conn'[c].rno = conn[c].rno /\ conn'[c].sno = conn[c].sno
            /\ \A c \in Channels : Own(c) /\ Down(c, 0) => Down(c, 0)',
         starts \in Nat, \A c \in Channels : conn[c].open => conn[c].port \in Nat
  PROVE  SessionInv'
  <1>1. \A m \in In(toS') : m.type \in {"conn", "req", "ack"} => m \in In(toS) BY Zenon DEF Moves
  <1>2. \A m \in In(toC') : m \in In(toC) \/ m \in MC BY Zenon DEF Moves
  <1>3. \A a, b : Behind(toS', a, b) /\ b.type \in {"conn", "req", "ack"} => Behind(toS, a, b) BY Zenon DEF Moves
  <1>4. \A a, b : Behind(toC', a, b) /\ b.type = "connresp" => Behind(toC, a, b) BY Zenon DEF Moves
  <1>5. \A c : Own(c) => Own(c)' BY Zenon DEF Own
  <1>6. ASSUME NEW m \in In(toS'), m.type = "conn"
        PROVE  /\ m.port <= starts' /\ cl'.mod = 0
               /\ \A ch \in Channels : conn'[ch].open => conn'[ch].port < m.port
               /\ m.port = starts' /\ Open' =>
                    Unconnected' /\ \A x \in In(toC') : x.type \notin {"req", "ack", "connresp"}
    <2>1. m \in In(toS) BY <1>1, <1>6, Zenon
    <2>2. /\ m.port <= starts /\ cl.mod = 0
          /\ \A ch \in Channels : conn[ch].open => conn[ch].port < m.port
          /\ m.port = starts /\ Open =>
               Unconnected /\ \A x \in In(toC) : x.type \notin {"req", "ack", "connresp"}
      BY <1>6, <2>1, Zenon DEF SessionInv
    <2>3. ASSUME m.port = starts PROVE \A x \in MC : x.type \notin {"req", "ack"}
      <3>1. ~\E c \in Channels : conn[c].open /\ conn[c].port = starts BY <2>2, <2>3, SMT
      <3> QED BY <3>1, Zenon
    <2> QED BY <1>2, <2>2, <2>3, Zenon
  <1>7. (\A a, b : Behind(toS, a, b) /\ a.type = "conn" =>
           b.type \notin {"req", "ack"} /\ (b.type = "conn" => a.port < b.port))'
    BY <1>3, Zenon DEF SessionInv
  <1>8. (\A ch \in Channels : conn[ch].open => conn[ch].port <= starts)' BY Zenon DEF SessionInv
  <1>9. ASSUME NEW m \in In(toC'), m.type = "connresp"
        PROVE  (/\ Unconnected
                /\ \A x \in In(toS) : x.type \notin {"conn", "req", "ack"}
                /\ \A x \in In(toC) : x.type # "ack"
                /\ m.ok => /\ m.ch \in Channels /\ Own(m.ch) /\ Down(m.ch, 0)
                           /\ conn[m.ch].open => conn[m.ch].rno = 0 /\ conn[m.ch].sno = 0)'
    <2>1. m \in In(toC) BY <1>2, <1>9, Zenon
    <2>2. /\ Unconnected
          /\ \A x \in In(toS) : x.type \notin {"conn", "req", "ack"}
          /\ \A x \in In(toC) : x.type # "ack"
          /\ m.ok => /\ m.ch \in Channels /\ Own(m.ch) /\ Down(m.ch, 0)
                     /\ conn[m.ch].open => conn[m.ch].rno = 0 /\ conn[m.ch].sno = 0
      BY <1>9, <2>1, Zenon DEF SessionInv
    <2>3. Open' BY <1>9, Zenon
    <2>4. Unconnected' BY <2>2, <2>3, Zenon
    <2>5. \A x \in In(toS') : x.type \notin {"conn", "req", "ack"} BY <1>1, <2>2, Zenon
    <2>6. \A x \in In(toC') : x.type # "ack" BY <1>2, <2>2, Zenon DEF Asking
    <2>7. ASSUME m.ok
          PROVE  /\ m.ch \in Channels /\ Own(m.ch)' /\ Down(m.ch, 0)'
                 /\ conn'[m.ch].open => conn'[m.ch].rno = 0 /\ conn'[m.ch].sno = 0
      BY <1>5, <2>2, <2>7, Zenon
    <2> QED BY <2>4, <2>5, <2>6, <2>7, Zenon
  <1>10. (\A a, b : Behind(toC, a, b) => ~(a.type = "connresp" /\ b.type = "connresp"))'
    BY <1>4, Zenon DEF SessionInv
  <1>11. (cl.mod # 0 => cl.channel \in Channels /\ Own(cl.channel))' BY <1>5, Zenon DEF SessionInv
  <1>12. (\A m \in In(toS) : m.type \in {"req", "ack"} => m.ch = cl.channel /\ cl.channel \in Channels)'
    BY <1>1, Zenon DEF SessionInv
  <1> QED BY <1>6, <1>7, <1>8, <1>9, <1>10, <1>11, <1>12, Zenon DEF SessionInv

\* While the client is connected no connection is being made.
LEMMA Connected ==
  ASSUME SessionInv, cl.mod # 0
  PROVE  /\ \A m \in In(toS) : m.type # "conn"
         /\ \A m \in In(toC) : m.type # "connresp"
         /\ \A a, b : Behind(toS, a, b) => a \in In(toS) /\ b \in In(toS)
         /\ \A a, b : Behind(toC, a, b) => a \in In(toC) /\ b \in In(toC)
         /\ cl.channel \in Channels /\ Own(cl.channel)
  BY Zenon DEF SessionInv, Unconnected, Behind, In

\* Steps of a connected client that stays connected.
LEMMA SessionConnected ==
  ASSUME SessionInv, NEW MS, Moves(toS, toS', MS), Moves(toC, toC', {}), cl.mod # 0, cl'.mod # 0, Open, Open',
         UNCHANGED <<starts, conn>>, cl'.channel = cl.channel,
         \A m \in MS : m.type # "conn" /\ m.ch = cl.channel
  PROVE  SessionInv'
  <1>1. /\ \A m \in In(toS) : m.type # "conn"
        /\ \A m \in In(toC) : m.type # "connresp"
        /\ \A a, b : Behind(toS, a, b) => a \in In(toS)
        /\ \A a, b : Behind(toC, a, b) => a \in In(toC)
        /\ cl.channel \in Channels /\ Own(cl.channel)
    BY Connected, Zenon
  <1>2. \A m \in In(toS') : m.type # "conn" BY <1>1, Zenon DEF Moves
  <1>3. \A m \in In(toC') : m.type # "connresp" BY <1>1, Zenon DEF Moves
  <1>4. \A a, b : Behind(toS', a, b) => a.type # "conn" BY <1>1, Zenon DEF Moves
  <1>5. \A a, b : Behind(toC', a, b) => a.type # "connresp" BY <1>1, Zenon DEF Moves
  <1>6. Own(cl.channel)' BY <1>1, Zenon DEF Own
  <1>7. \A m \in In(toS') : m.type \in {"req", "ack"} => m.ch = cl'.channel BY Zenon DEF Moves, SessionInv
  <1> QED BY <1>1, <1>2, <1>3, <1>4, <1>5, <1>6, <1>7, Zenon DEF SessionInv
-----------------------------------------------------------------------------
\* A client whose record keeps its shape and whose members keep their types is one.
LEMMA ClientIs ==
  ASSUME NEW c \in Client, NEW e, DOMAIN e = DOMAIN c, e = [x \in DOMAIN e |-> e[x]],
         e.link \in {"off", "starting", "on", "failed"}, e.mod \in 0..2, e.channel \in Channels \cup {-1},
         e.sno \in Seqno, e.rno \in Seqno, e.retry \in Nat, e.out \in Nat, e.trigger \in BOOLEAN,
         e.timeout \in BOOLEAN, e.conntimeout \in BOOLEAN, e.heartbeat \in Nat, e.owed \in BOOLEAN,
         e.bound \in Bounds
  PROVE  e \in Client
  BY SMT DEF Client

\* The members of the client.
LEMMA ClientTypes ==
  ASSUME NEW c \in Client
  PROVE  /\ c.link \in {"off", "starting", "on", "failed"} /\ c.mod \in 0..2 /\ c.channel \in Channels \cup {-1}
         /\ c.sno \in Seqno /\ c.rno \in Seqno /\ c.retry \in Nat /\ c.out \in Nat /\ c.trigger \in BOOLEAN
         /\ c.timeout \in BOOLEAN /\ c.conntimeout \in BOOLEAN /\ c.heartbeat \in Nat /\ c.owed \in BOOLEAN
         /\ c.bound \in Bounds /\ c.bound.channels \subseteq Channels
  BY TunnelConfig, SMT DEF Client

\* ACKs.
LEMMA AckIs ==
  ASSUME NEW ch \in Int, NEW s \in Seqno
  PROVE  /\ Ack(ch, s, TRUE) \in MsgS /\ Ack(ch, s, TRUE) \in MsgC /\ Ack(ch, s, TRUE).type = "ack"
         /\ Ack(ch, s, TRUE).ch = ch /\ Ack(ch, s, TRUE).seqno = s
  <1>1. /\ Ack(ch, s, TRUE) \in Acks /\ Ack(ch, s, TRUE).type = "ack" /\ Ack(ch, s, TRUE).ch = ch
        /\ Ack(ch, s, TRUE).seqno = s
    BY Zenon DEF Ack, Acks
  <1> QED BY <1>1, Zenon DEF MsgS, MsgC

\* The types in Local, by name.
LEMMA LocalIs ==
  ASSUME Local
  PROVE  /\ cl \in Client /\ conn \in [Channels -> ConnStates \cup {NoConn}] /\ MaxNet \in Nat
         /\ Len(toS) <= MaxNet /\ Len(toC) <= MaxNet /\ toS \in Seq(MsgS) /\ toC \in Seq(MsgC)
         /\ sentC \in Nat /\ sentS \in Nat /\ starts \in Nat /\ gotS \in Seq(Nat) /\ gotC \in Seq(Nat)
         /\ cl.channel \in Int /\ Channels \subseteq Nat
         /\ cl.link \in {"off", "starting", "on", "failed"} /\ cl.mod \in 0..2 /\ cl.sno \in Seqno
         /\ cl.rno \in Seqno /\ cl.retry \in Nat /\ cl.out \in Nat /\ cl.trigger \in BOOLEAN
         /\ cl.timeout \in BOOLEAN /\ cl.conntimeout \in BOOLEAN /\ cl.heartbeat \in Nat /\ cl.owed \in BOOLEAN
         /\ cl.bound \in Bounds /\ cl.bound.channels \subseteq Channels /\ cl.channel \in Channels \cup {-1}
  <1>1. cl \in Client BY Zenon DEF Local, Typed, TypeOK
  <1>2. cl.channel \in Channels \cup {-1} BY <1>1, ClientTypes, Zenon
  <1>3. Channels \subseteq Nat BY TunnelConfig, SMT
  <1>4. -1 \in Int /\ Nat \subseteq Int BY SMT
  <1>5. cl.channel \in Int BY <1>2, <1>3, <1>4, Zenon
  <1> QED BY <1>1, <1>2, <1>3, <1>5, ClientTypes, TunnelConfig, Zenon DEF Local, Typed, TypeOK

\* The provers do not see the types of numerals by themselves.
LEMMA Numbers == 0 \in Int /\ 0 \in Nat /\ 0 \in 0 .. 2 /\ 1 \in 0 .. 2 /\ 2 \in 0 .. 2 /\ 0 # 1 /\ 0 # 2 /\ 1 # 2
  BY SMT

\* EIBNetIPTunnel::start: a CONNECTION_REQUEST with the number of the new socket.
LEMMA StartLocal ==
  ASSUME Local, start
  PROVE  /\ Local'
         /\ starts' = starts + 1 /\ UNCHANGED <<server, toC, sentC, gotC, ackedC>> /\ cl.link = "off"
         /\ \E m : /\ Moves(toS, toS', {m}) /\ m.type = "conn" /\ m.port = starts'
         /\ cl'.link = "starting" /\ cl'.out = 0 /\ cl'.conntimeout = TRUE /\ cl'.owed = FALSE
         /\ cl'.mod = cl.mod /\ cl'.channel = cl.channel /\ cl'.sno = cl.sno /\ cl'.rno = cl.rno
         /\ cl'.retry = cl.retry /\ cl'.trigger = cl.trigger /\ cl'.timeout = cl.timeout
         /\ cl'.heartbeat = cl.heartbeat /\ cl'.bound = cl.bound
  <1>0. cl \in Client /\ starts \in Nat BY LocalIs, Zenon
  <1>1. /\ cl.link = "off" /\ starts' = starts + 1 /\ cl' = [cl EXCEPT !.link = "starting", !.out = 0, !.conntimeout = TRUE, !.owed = FALSE]
        /\ toS' = Put(toS, [Msg("conn", 0) EXCEPT !.port = starts'])
        /\ UNCHANGED <<server, toC, sentC, gotC, ackedC>>
    BY Zenon DEF start
  <1>2. /\ cl'.link = "starting" /\ cl'.out = 0 /\ cl'.conntimeout = TRUE /\ cl'.owed = FALSE
        /\ cl'.mod = cl.mod /\ cl'.channel = cl.channel /\ cl'.sno = cl.sno /\ cl'.rno = cl.rno
        /\ cl'.retry = cl.retry /\ cl'.trigger = cl.trigger /\ cl'.timeout = cl.timeout
        /\ cl'.heartbeat = cl.heartbeat /\ cl'.bound = cl.bound
    BY <1>0, <1>1, SMT DEF Client
  <1>3. DOMAIN cl' = DOMAIN cl BY <1>0, <1>1, SMT DEF Client
  <1>4. cl' = [x \in DOMAIN cl' |-> cl'[x]] BY <1>1, Zenon
  <1>5. cl' \in Client BY <1>2, <1>3, <1>4, LocalIs, ClientIs, Numbers, ZenonT(20)
  <1> DEFINE m == [Msg("conn", 0) EXCEPT !.port = starts']
  <1>6. m \in Plain /\ m.type = "conn" /\ m.port = starts' BY <1>0, <1>1, SMT DEF Msg, Plain
  <1> HIDE DEF m
  <1>7. m \in MsgS BY <1>6, Zenon DEF MsgS
  <1>8. toS' \in Seq(MsgS) /\ Len(toS') <= MaxNet /\ Moves(toS, toS', {m})
    BY <1>1, <1>7, LocalIs, PutMoves, Zenon DEF m
  <1>9. ClientOK' BY <1>1, <1>2, SMT DEF Local, ClientOK, Open
  <1>10. starts' \in Nat BY <1>0, <1>1, SMT
  <1>11. Local' BY <1>1, <1>5, <1>8, <1>9, <1>10, Zenon DEF Local, Typed, TypeOK, server
  <1> QED BY <1>1, <1>2, <1>6, <1>8, <1>11, Zenon
-----------------------------------------------------------------------------
\* A step of which neither the packets nor the connection being made take notice.
Quiet ==
    /\ \E MS, MC :
         /\ Moves(toS, toS', MS) /\ \A m \in MS : m.type \notin {"conn", "req", "ack"}
         /\ Moves(toC, toC', MC) /\ \A m \in MC : m.type \notin {"connresp", "req", "ack"}
         /\ ~Open' => In(toC') = {} \/ (~Open /\ MC = {})
    /\ UNCHANGED <<sentC, gotS, gotC, ackedC, starts>> /\ sentS' \in {sentS, sentS + 1}
    /\ cl'.sno = cl.sno /\ cl'.rno = cl.rno /\ cl'.channel = cl.channel /\ cl'.owed = cl.owed
    /\ cl'.link = cl.link \/ cl'.link # "on"
    /\ cl'.mod # 0 => cl.mod # 0
    /\ Open' => Open
    /\ Unconnected /\ Open' => Unconnected'
    /\ \A c \in Channels : conn'[c].open =>
         /\ conn[c].open /\ conn'[c].port = conn[c].port /\ conn'[c].rno = conn[c].rno
         /\ DownInv => Carried(conn[c], conn'[c]) /\ InTurn(conn[c].out)'

\* Connections; the provers do better with the sets of their members unexpanded.
Conns(T, B, S) == [ open : T, port : Nat, stopped : B, sno : Seqno, rno : Seqno, retries : 0..3, out : S,
                    trigger : B, sendtimeout : B, do_send_next : B ]

\* Conns, given the sets of a connection's members.
LEMMA ConnSets == ConnStates = Conns({TRUE}, BOOLEAN, Seq(Cemi))
  BY Zenon DEF ConnStates, Conns, Cemi

\* The members of a connection.
LEMMA ConnFields ==
  ASSUME NEW T, NEW B, NEW S, NEW c \in Conns(T, B, S)
  PROVE  /\ c.open \in T /\ c.port \in Nat /\ c.stopped \in B /\ c.sno \in Seqno /\ c.rno \in Seqno
         /\ c.retries \in 0..3 /\ c.out \in S /\ c.trigger \in B /\ c.sendtimeout \in B /\ c.do_send_next \in B
  BY SMT DEF Conns

\* A record with these members is a connection.
LEMMA ConnIs ==
  ASSUME NEW T, NEW B, NEW S, NEW c \in Conns(T, B, S), NEW e, DOMAIN e = DOMAIN c, e = [x \in DOMAIN e |-> e[x]],
         e.open \in T, e.port \in Nat, e.stopped \in B, e.sno \in Seqno, e.rno \in Seqno,
         e.retries \in 0..3, e.out \in S, e.trigger \in B, e.sendtimeout \in B, e.do_send_next \in B
  PROVE  e \in Conns(T, B, S)
  BY SMT DEF Conns

\* The members of an open connection, with their types.
LEMMA ConnTypes ==
  ASSUME Local, NEW c \in Channels, conn[c].open
  PROVE  /\ conn[c] \in ConnStates /\ conn[c].open = TRUE /\ conn[c].port \in Nat
         /\ conn[c].sno \in Seqno /\ conn[c].rno \in Seqno
         /\ conn[c].retries \in 0..3 /\ conn[c].out \in Seq(Cemi) /\ ConnOK(conn[c])
         /\ conn[c].stopped \in BOOLEAN /\ conn[c].trigger \in BOOLEAN /\ conn[c].sendtimeout \in BOOLEAN
         /\ conn[c].do_send_next \in BOOLEAN
  <1>1. conn[c] \in ConnStates \cup {NoConn} BY LocalIs, Zenon
  <1>2. NoConn.open = FALSE BY SMT DEF NoConn
  <1>3. conn[c] \in ConnStates BY <1>1, <1>2, Zenon
  <1>4. conn[c] \in Conns({TRUE}, BOOLEAN, Seq(Cemi)) BY <1>3, ConnSets, Zenon
  <1> QED BY <1>3, <1>4, ConnFields, Zenon DEF Local

\* What a message of some type carries.
LEMMA MsgTypes ==
  /\ \A m \in MsgS : /\ m.type \in {"conn", "state", "disc", "discresp", "ack", "req"} /\ m.ch \in Int
                     /\ m.type = "req" => m.seqno \in Seqno /\ m.cemi \in Nat
                     /\ m.type = "ack" => m.seqno \in Seqno
                     /\ m.type \notin {"req", "ack"} => m.port \in Nat
  /\ \A m \in MsgC : /\ m.type = "req" => m.ch \in Int /\ m.seqno \in Seqno /\ m.cemi \in Cemi
                     /\ m.type = "ack" => m.seqno \in Seqno
                     /\ m.type = "connresp" /\ m.ok => m.ch \in Channels
  <1>1. \A m \in Plain : m.type \in {"conn", "state", "disc", "discresp"} /\ m.ch \in Int /\ m.port \in Nat
    BY SMT DEF Plain
  <1>2. \A m \in Acks : m.type = "ack" /\ m.ch \in Int /\ m.seqno \in Seqno BY SMT DEF Acks
  <1>3. \A S : \A m \in [ type : {"req"}, ch : Int, seqno : Seqno, cemi : S ] :
           m.type = "req" /\ m.ch \in Int /\ m.seqno \in Seqno /\ m.cemi \in S
    BY SMT
  <1>4. \A m \in [ type : {"stateresp", "discresp"}, ch : Int, ok : BOOLEAN ] : m.type \notin {"req", "ack", "connresp"}
    BY SMT
  <1>6. \A m \in [ type : {"connresp"}, ch : Channels, ok : {TRUE} ] : m.type = "connresp" /\ m.ch \in Channels BY SMT
  <1>7. \A m \in [ type : {"connresp"}, ch : {0}, ok : {FALSE} ] : m.type = "connresp" /\ ~m.ok BY Zenon
  <1>5. /\ "req" \notin {"conn", "state", "disc", "discresp"} /\ "ack" \notin {"conn", "state", "disc", "discresp"}
        /\ "ack" # "req" /\ "connresp" \notin {"conn", "state", "disc", "discresp", "ack", "req"}
    BY Zenon
  <1> QED BY <1>1, <1>2, <1>3, <1>4, <1>5, <1>6, <1>7, Zenon DEF MsgS, MsgC

\* The messages under way have their types.
LEMMA ReqTypes ==
  ASSUME Local
  PROVE  /\ \A m \in In(toS) : m \in MsgS
         /\ \A m \in In(toC) : m \in MsgC /\ (m.type = "req" => m.cemi \in Cemi /\ m.cemi.p \in Nat /\ m.seqno \in Seqno)
  <1>1. toS \in Seq(MsgS) /\ toC \in Seq(MsgC) BY LocalIs, Zenon
  <1>2. (\A i \in DOMAIN toS : toS[i] \in MsgS) /\ (\A i \in DOMAIN toC : toC[i] \in MsgC)
    <2> DEFINE A == MsgS
               B == MsgC
    <2> HIDE DEF A, B
    <2>1. toS \in Seq(A) /\ toC \in Seq(B) BY <1>1 DEF A, B
    <2>2. (\A i \in DOMAIN toS : toS[i] \in A) /\ (\A i \in DOMAIN toC : toC[i] \in B) BY <2>1, SMT
    <2> QED BY <2>2 DEF A, B
  <1>3. \A x \in Cemi : x.p \in Nat BY SMT DEF Cemi
  <1> QED BY <1>2, <1>3, MsgTypes, Zenon DEF In

\* A quiet step keeps what is said of sessions and packets.
LEMMA QuietStep ==
  ASSUME TInv, Quiet
  PROVE  SessionInv' /\ DownInv' /\ UpInv'
  <1>1. PICK MS, MC :
         /\ Moves(toS, toS', MS) /\ \A m \in MS : m.type \notin {"conn", "req", "ack"}
         /\ Moves(toC, toC', MC) /\ \A m \in MC : m.type \notin {"connresp", "req", "ack"}
         /\ ~Open' => In(toC') = {} \/ (~Open /\ MC = {})
    BY Zenon DEF Quiet
  <1>2. Local /\ SessionInv /\ DownInv /\ UpInv BY DEF TInv
  <1>3. ~Open' => In(toC') = {} BY <1>1, <1>2, Zenon DEF Moves, SessionInv
  <1>4. \A c \in Channels : conn'[c].open => conn[c].open /\ Carried(conn[c], conn'[c]) BY <1>2, Zenon DEF Quiet
  <1>5. \A c \in Channels : \A q : Down(c, q) => Down(c, q)'
    <2> SUFFICES ASSUME NEW c \in Channels, NEW q, Down(c, q) PROVE Down(c, q)' OBVIOUS
    <2>1. UNCHANGED gotC BY Zenon DEF Quiet
    <2> QED BY <1>1, <1>4, <2>1, DownKept, Zenon
  <1>6. starts \in Nat /\ \A c \in Channels : conn[c].open => conn[c].port \in Nat BY <1>2, LocalIs, ConnTypes, Zenon
  <1>7. SessionInv'
    <2>1. (\A x \in In(toS) : x.type \notin {"conn", "req", "ack"}) =>
            /\ \A c \in Channels : conn'[c].open => conn'[c].rno = conn[c].rno /\ conn'[c].sno = conn[c].sno
            /\ \A c \in Channels : Own(c) /\ Down(c, 0) => Down(c, 0)'
      BY <1>4, <1>5, Zenon DEF Quiet, Carried
    <2>2. /\ UNCHANGED starts /\ cl'.channel = cl.channel /\ (cl'.mod # 0 => cl.mod # 0)
          /\ (Unconnected /\ Open' => Unconnected') /\ (Open' => Open)
          /\ \A c \in Channels : conn'[c].open => conn[c].open /\ conn'[c].port = conn[c].port
      BY Zenon DEF Quiet
    <2>3. /\ \A m \in MC : m.type # "connresp" /\ (m.type = "ack" => Asking)
          /\ \A m \in MC : m.type \in {"req", "ack"} => \E c \in Channels : conn[c].open /\ conn[c].port = starts
      BY <1>1, Zenon
    <2> QED BY <1>1, <1>2, <1>3, <1>6, <2>1, <2>2, <2>3, SessionKept, Zenon
  <1>8. DownInv'
    <2>1. (\A i \in DOMAIN gotC : gotC[i] <= sentS)'
      <3>1. \A i \in DOMAIN gotC : gotC[i] <= sentS BY <1>2, Zenon DEF DownInv
      <3>2. UNCHANGED gotC /\ sentS' \in {sentS, sentS + 1} BY Zenon DEF Quiet
      <3>3. sentS \in Nat /\ \A i \in DOMAIN gotC : gotC[i] \in Nat
        <4>1. sentS \in Nat /\ gotC \in Seq(Nat) BY <1>2, LocalIs, Zenon
        <4> QED BY <4>1, SMT
      <3>4. \A p \in Nat : p <= sentS => p <= sentS' BY <3>2, <3>3, SMT
      <3> QED BY <3>1, <3>2, <3>3, <3>4, Zenon
    <2>a. (\A m \in In(toC) : m.type = "req" /\ m.cemi.kind = "ind" => m.cemi.p <= sentS)'
      <3> SUFFICES ASSUME NEW m \in In(toC'), m.type = "req", m.cemi.kind = "ind" PROVE m.cemi.p <= sentS' OBVIOUS
      <3>1. m \in In(toC) BY <1>1, Zenon DEF Moves
      <3>2. m.cemi.p <= sentS /\ m.cemi.p \in Nat BY <1>2, <3>1, ReqTypes, Zenon DEF DownInv
      <3>3. sentS' \in {sentS, sentS + 1} BY Zenon DEF Quiet
      <3>4. sentS \in Nat BY <1>2, LocalIs, Zenon
      <3> QED BY <3>2, <3>3, <3>4, SMT
    <2>2. Increasing(gotC)' BY <1>2, Zenon DEF DownInv, Increasing, Quiet
    <2>3. (\A ch \in Channels : conn[ch].open => InTurn(conn[ch].out))' BY <1>2, Zenon DEF Quiet
    <2>4. (cl.mod # 0 => Down(cl.channel, cl.rno))'
      BY <1>2, <1>5, Zenon DEF Quiet, DownInv, SessionInv
    <2> QED BY <2>1, <2>a, <2>2, <2>3, <2>4, Zenon DEF DownInv
  <1>9. UpInv'
    <2>1. cl.mod # 0 \/ Asking => cl.channel \in Channels BY <1>2, Zenon DEF SessionInv, Asking
    <2>2. (cl.mod # 0 \/ Asking) /\ conn'[cl.channel].open =>
            conn[cl.channel].open /\ conn'[cl.channel].rno = conn[cl.channel].rno
      BY <2>1, Zenon DEF Quiet
    <2>3. /\ UNCHANGED <<sentC, gotS, ackedC>>
          /\ cl'.sno = cl.sno /\ cl'.channel = cl.channel /\ cl'.owed = cl.owed
          /\ (cl'.link = cl.link \/ cl'.link # "on") /\ (cl'.mod # 0 => cl.mod # 0)
      BY Zenon DEF Quiet
    <2> QED BY <1>1, <1>2, <2>2, <2>3, UpKept, Zenon
  <1> QED BY <1>7, <1>8, <1>9

-----------------------------------------------------------------------------
\* What the client has read.
LEMMA RecvFacts ==
  ASSUME Local, NEW t, Recv(t)
  PROVE  /\ Open /\ toC # <<>> /\ toC' \in Rest(toC) /\ Head(toC).type = t
         /\ Head(toC) \in MsgC /\ Head(toC) \in In(toC) /\ Moves(toC, toC', {})
         /\ toC' \in Seq(MsgC) /\ Len(toC') <= MaxNet
         /\ \A y \in In(toC') : (y = Head(toC) /\ t \in Dup) \/ Behind(toC, Head(toC), y)
  <1>1. Open /\ toC # <<>> /\ toC' \in Rest(toC) /\ Head(toC).type = t BY Zenon DEF Recv
  <1> QED BY <1>1, LocalIs, RestMoves, Zenon

\* The expected sequence number is not far ahead of itself.
LEMMA FarOff ==
  ASSUME NEW q \in Seqno
  PROVE  ~(q >= q + 5)
  BY TunnelConfig, SMT DEF Seqno

-----------------------------------------------------------------------------
\* The server.
LEMMA PutCMoves ==
  ASSUME Local, NEW p, NEW m \in MsgC
  PROVE  /\ PutC(p, m) \in Seq(MsgC) /\ Len(PutC(p, m)) <= MaxNet /\ Moves(toC, PutC(p, m), {m})
         /\ ~(Open /\ p = starts) => PutC(p, m) = toC
  <1>1. toC \in Seq(MsgC) /\ Len(toC) <= MaxNet BY LocalIs, Zenon
  <1>2. Moves(toC, toC, {m}) BY Zenon DEF Moves
  <1>3. CASE Open /\ p = starts BY <1>1, <1>3, PutMoves, Zenon DEF PutC
  <1>4. CASE ~(Open /\ p = starts)
    <2>1. PutC(p, m) = toC BY <1>4, Zenon DEF PutC
    <2> QED BY <1>1, <1>2, <2>1, Zenon
  <1> QED BY <1>3, <1>4

\* What the server has read.
LEMMA RecvSFacts ==
  ASSUME Local, NEW t, RecvS(t)
  PROVE  /\ toS # <<>> /\ toS' \in Rest(toS) /\ Head(toS).type = t
         /\ Head(toS) \in MsgS /\ Head(toS) \in In(toS) /\ Moves(toS, toS', {})
         /\ toS' \in Seq(MsgS) /\ Len(toS') <= MaxNet
         /\ \A y \in In(toS') : (y = Head(toS) /\ t \in Dup) \/ Behind(toS, Head(toS), y)
  <1>1. toS # <<>> /\ toS' \in Rest(toS) /\ Head(toS).type = t BY Zenon DEF RecvS
  <1> QED BY <1>1, LocalIs, RestMoves, Zenon

\* A step of the server keeps Local if it keeps the types and its connections in order.
LEMMA ServerLocal ==
  ASSUME Local, UNCHANGED client, conn' \in [Channels -> ConnStates \cup {NoConn}],
         toS' = toS \/ (toS' \in Seq(MsgS) /\ Len(toS') <= MaxNet),
         toC' = toC \/ (toC' \in Seq(MsgC) /\ Len(toC') <= MaxNet),
         sentS' \in Nat, gotS' \in Seq(Nat),
         \A c \in Channels : conn'[c].open => ConnOK(conn'[c])
  PROVE  Local'
  <1>1. UNCHANGED <<cl, sentC, gotC, starts>> BY Zenon DEF client
  <1>2. ClientOK' BY <1>1, Zenon DEF Local, ClientOK, Open
  <1>3. TypeOK' /\ toS' \in Seq(MsgS) /\ toC' \in Seq(MsgC) BY <1>1, LocalIs, Zenon DEF TypeOK
  <1>4. Typed' BY <1>1, <1>3, LocalIs, Zenon DEF Typed
  <1> QED BY <1>2, <1>4, Zenon DEF Local

\* The clause of Quiet about one connection.
Undisturbed(c) ==
    conn'[c].open =>
      /\ conn[c].open /\ conn'[c].port = conn[c].port /\ conn'[c].rno = conn[c].rno /\ ConnOK(conn'[c])
      /\ DownInv => Carried(conn[c], conn'[c]) /\ InTurn(conn[c].out)'

\* Elements of a connection's queue.
LEMMA OutItems ==
  ASSUME NEW q \in Seq(Cemi)
  PROVE  \A i \in DOMAIN q : q[i].p \in Nat /\ q[i] \in Cemi
  <1>1. \A i \in DOMAIN q : q[i] \in Cemi BY SMT
  <1>2. \A x \in Cemi : x.p \in Nat BY SMT DEF Cemi
  <1> QED BY <1>1, <1>2, Zenon

\* A connection whose queue stays.
LEMMA SameOut ==
  ASSUME Local, NEW c \in Channels, conn[c].open, conn'[c].out = conn[c].out, sentS' \in {sentS, sentS + 1}, DownInv
  PROVE  InTurn(conn[c].out)'
  <1>1. InTurn(conn[c].out) BY Zenon DEF DownInv
  <1>2. conn[c].out \in Seq(Cemi) /\ sentS \in Nat BY ConnTypes, LocalIs, Zenon
  <1>3. \A i \in DOMAIN conn[c].out : conn[c].out[i].p \in Nat BY <1>2, OutItems, Zenon
  <1>4. \A i \in DOMAIN conn[c].out : conn[c].out[i].p <= sentS => conn[c].out[i].p <= sentS'
    BY <1>2, <1>3, SMT
  <1> QED BY <1>1, <1>4, Zenon DEF InTurn

\* A step that changes one connection.
LEMMA OneConn ==
  ASSUME Local, NEW ch \in Channels, NEW t \in ConnStates \cup {NoConn}, conn' = [conn EXCEPT ![ch] = t]
  PROVE  /\ conn' \in [Channels -> ConnStates \cup {NoConn}] /\ conn'[ch] = t
         /\ \A c \in Channels : c # ch => conn'[c] = conn[c]
  BY LocalIs, Zenon

\* A packet or a confirmation joins the queue.
LEMMA QueuedFacts ==
  ASSUME NEW s \in ConnStates, ConnOK(s), NEW x \in Cemi
  PROVE  LET q == Queued(s, x)
         IN /\ q \in ConnStates /\ q.port = s.port /\ q.rno = s.rno /\ q.sno = s.sno /\ q.stopped = s.stopped
            /\ q.retries = s.retries /\ q.out = Append(s.out, x) /\ q.trigger = (s.trigger \/ (s.retries = 0 /\ ~s.stopped))
            /\ q.sendtimeout = s.sendtimeout /\ q.do_send_next = s.do_send_next /\ q.out # <<>>
  <1> DEFINE T == {TRUE}
             B == BOOLEAN
             S == Seq(Cemi)
             g == s.trigger \/ (s.retries = 0 /\ ~s.stopped)
             v == Append(s.out, x)
             q == Queued(s, x)
  <1>1. s \in Conns(T, B, S) BY ConnSets, Zenon
  <1>2. s.out \in Seq(Cemi) BY <1>1, ConnFields, Zenon
  <1>3. v \in S /\ v # <<>> BY <1>2, SMT
  <1>4. g \in B OBVIOUS
  <1>5. q = [s EXCEPT !.out = v, !.trigger = g] BY Zenon DEF Queued
  <1> HIDE DEF T, B, S, v, g, q
  <1>6. /\ q.open = s.open /\ q.port = s.port /\ q.stopped = s.stopped /\ q.sno = s.sno /\ q.rno = s.rno
        /\ q.retries = s.retries /\ q.out = v /\ q.trigger = g /\ q.sendtimeout = s.sendtimeout
        /\ q.do_send_next = s.do_send_next /\ DOMAIN q = DOMAIN s
    BY <1>1, <1>5, SMT DEF Conns
  <1>7. q = [y \in DOMAIN q |-> q[y]] BY <1>5, Zenon
  <1>8. q \in Conns(T, B, S)
    <2>1. /\ s.open \in T /\ s.port \in Nat /\ s.stopped \in B /\ s.sno \in Seqno /\ s.rno \in Seqno
          /\ s.retries \in 0..3 /\ s.out \in S /\ s.trigger \in B /\ s.sendtimeout \in B /\ s.do_send_next \in B
      BY <1>1, ConnFields, Zenon
    <2>2. q.open \in T /\ q.port \in Nat /\ q.stopped \in B /\ q.sno \in Seqno /\ q.rno \in Seqno
      BY <1>6, <2>1, Zenon
    <2>3. /\ q.retries \in 0..3 /\ q.out \in S /\ q.trigger \in B /\ q.sendtimeout \in B /\ q.do_send_next \in B
      BY <1>3, <1>4, <1>6, <2>1, Zenon
    <2> QED BY <1>1, <1>6, <1>7, <2>2, <2>3, ConnIs, Zenon
  <1>9. q \in ConnStates BY <1>8, ConnSets, Zenon DEF T, B, S
  <1> QED BY <1>3, <1>6, <1>9, Zenon DEF q, v, g

\* Queueing keeps what is in front, and the order if x is newer than all before.
LEMMA AppendFacts ==
  ASSUME NEW q \in Seq(Cemi), NEW x \in Cemi
  PROVE  /\ q # <<>> => Head(Append(q, x)) = Head(q)
         /\ \A i \in DOMAIN Append(q, x) : (i \in DOMAIN q /\ Append(q, x)[i] = q[i]) \/ Append(q, x)[i] = x
         /\ \A i, j \in DOMAIN Append(q, x) : i < j =>
              /\ i \in DOMAIN q /\ Append(q, x)[i] = q[i]
              /\ (j \in DOMAIN q /\ Append(q, x)[j] = q[j]) \/ Append(q, x)[j] = x
  BY SMT

\* A confirmation, or the newest packet, at the end of a queue.
LEMMA QueueUp ==
  ASSUME Local, NEW ch \in Channels, conn[ch].open, NEW x \in Cemi, sentS' \in {sentS, sentS + 1},
         x.kind = "ind" => x.p = sentS + 1 /\ sentS' = sentS + 1,
         conn'[ch].out = Append(conn[ch].out, x), DownInv
  PROVE  /\ InTurn(conn[ch].out)'
         /\ conn[ch].out # <<>> => Head(conn'[ch].out) = Head(conn[ch].out)
         /\ \A i \in DOMAIN conn'[ch].out : \/ i \in DOMAIN conn[ch].out /\ conn'[ch].out[i] = conn[ch].out[i]
                                            \/ conn'[ch].out[i].kind # "ind"
                                            \/ \A j \in DOMAIN gotC : gotC[j] < conn'[ch].out[i].p
  <1> DEFINE q == conn[ch].out
             r == Append(q, x)
  <1>1. q \in Seq(Cemi) /\ sentS \in Nat /\ gotC \in Seq(Nat) BY ConnTypes, LocalIs, Zenon
  <1>2. /\ q # <<>> => Head(r) = Head(q)
        /\ \A i \in DOMAIN r : (i \in DOMAIN q /\ r[i] = q[i]) \/ r[i] = x
        /\ \A i, j \in DOMAIN r : i < j =>
             /\ i \in DOMAIN q /\ r[i] = q[i]
             /\ (j \in DOMAIN q /\ r[j] = q[j]) \/ r[j] = x
    BY <1>1, AppendFacts, Zenon
  <1>3. InTurn(q) /\ \A i \in DOMAIN gotC : gotC[i] <= sentS BY Zenon DEF DownInv
  <1>4. \A i \in DOMAIN q : q[i].p \in Nat BY <1>1, OutItems, Zenon
  <1>5. \A i \in DOMAIN q : q[i].p <= sentS => q[i].p <= sentS' /\ q[i].p < sentS + 1 BY <1>1, <1>4, SMT
  <1>6. sentS + 1 <= sentS + 1 BY <1>1, SMT
  <1>7. \A i \in DOMAIN gotC : gotC[i] < sentS + 1 BY <1>1, <1>3, SMT
  <1> HIDE DEF q, r
  <1>8. \A i \in DOMAIN r : r[i].kind = "ind" => r[i].p <= sentS'
    BY <1>2, <1>3, <1>5, <1>6, Zenon DEF InTurn
  <1>9. ASSUME NEW i \in DOMAIN r, NEW j \in DOMAIN r, i < j, r[i].kind = "ind", r[j].kind = "ind" PROVE r[i].p < r[j].p
    <2>1. i \in DOMAIN q /\ r[i] = q[i] BY <1>2, <1>9, Zenon
    <2>2. CASE j \in DOMAIN q /\ r[j] = q[j] BY <1>3, <1>9, <2>1, <2>2, Zenon DEF InTurn
    <2>3. CASE r[j] = x
      <3>1. q[i].p < sentS + 1 BY <1>3, <1>5, <1>9, <2>1, Zenon DEF InTurn
      <3> QED BY <1>9, <2>1, <2>3, <3>1, Zenon
    <2> QED BY <1>2, <1>9, <2>2, <2>3, Zenon
  <1>a. conn'[ch].out = r BY Zenon DEF r, q
  <1>10. InTurn(conn[ch].out)' BY <1>8, <1>9, <1>a, Zenon DEF InTurn
  <1>11. \A i \in DOMAIN r : (i \in DOMAIN q /\ r[i] = q[i]) \/ r[i].kind # "ind" \/ \A j \in DOMAIN gotC : gotC[j] < r[i].p
    BY <1>2, <1>7, Zenon
  <1> QED BY <1>2, <1>10, <1>11, <1>a, Zenon DEF q

\* The rest of a queue.
LEMMA TailFacts ==
  ASSUME NEW q \in Seq(Cemi), q # <<>>
  PROVE  /\ Tail(q) \in Seq(Cemi)
         /\ \A i \in DOMAIN Tail(q) : i + 1 \in DOMAIN q /\ Tail(q)[i] = q[i + 1] /\ i + 1 # 1
         /\ \A i, j \in DOMAIN Tail(q) : i < j => i + 1 < j + 1
  BY SMT

\* The rest of a queue is in turn.
LEMMA TailInTurn ==
  ASSUME NEW q \in Seq(Cemi), q # <<>>, InTurn(q)
  PROVE  InTurn(Tail(q))
  <1>1. /\ \A i \in DOMAIN Tail(q) : i + 1 \in DOMAIN q /\ Tail(q)[i] = q[i + 1]
        /\ \A i, j \in DOMAIN Tail(q) : i < j => i + 1 < j + 1
    BY TailFacts, Zenon
  <1>2. ASSUME NEW i \in DOMAIN Tail(q), Tail(q)[i].kind = "ind" PROVE Tail(q)[i].p <= sentS
    BY <1>1, <1>2, Zenon DEF InTurn
  <1>3. ASSUME NEW i \in DOMAIN Tail(q), NEW j \in DOMAIN Tail(q), i < j, Tail(q)[i].kind = "ind", Tail(q)[j].kind = "ind"
        PROVE  Tail(q)[i].p < Tail(q)[j].p
    <2>1. i + 1 \in DOMAIN q /\ j + 1 \in DOMAIN q /\ i + 1 < j + 1 /\ Tail(q)[i] = q[i + 1] /\ Tail(q)[j] = q[j + 1]
      BY <1>1, <1>3
    <2> QED BY <1>3, <2>1, Zenon DEF InTurn
  <1> QED BY <1>2, <1>3, Zenon DEF InTurn

\* The steps that are more than a message lost, ignored or answered: those in which
\* the state of a session or a sequence number moves.
Special ==
    \/ start \/ send_L_Data
    \/ trigger_cb /\ cl.mod = 1 /\ cl.out # 0
    \/ connection_response /\ cl.mod = 0 /\ Head(toC).ok
    \/ /\ tunnel_request /\ cl.mod # 0 /\ Head(toC).ch = cl.channel
       /\ Head(toC).seqno = cl.rno \/ Inc(Head(toC).seqno) = cl.rno
    \/ tunnel_response /\ cl.mod = 2 /\ Head(toC).ch = cl.channel /\ Head(toC).seqno = cl.sno /\ Head(toC).ok
    \/ connection_request
    \/ /\ ConnState_tunnel_request /\ Known(Head(toS).ch)
       /\ \/ Head(toS).seqno = conn[Head(toS).ch].rno
          \/ Inc(Head(toS).seqno) = conn[Head(toS).ch].rno
    \/ /\ ConnState_tunnel_response /\ Known(Head(toS).ch) /\ Head(toS).seqno = conn[Head(toS).ch].sno
       /\ Head(toS).ok /\ conn[Head(toS).ch].retries # 0
    \/ \E ch \in Channels : send_trigger_cb(ch) /\ conn[ch].out # <<>>

\* Every other step is quiet.
LEMMA NextIs == ASSUME Local, Next PROVE (Local' /\ Quiet) \/ Special
  \* A queue thrown away with the client's socket.
  <1>ClearMoves. \A net : In(<<>>) = {} /\ Moves(net, <<>>, {})
    <2>1. DOMAIN <<>> = {} BY SMT
    <2>2. In(<<>>) = {} BY <2>1, Zenon DEF In
    <2> QED BY <2>1, <2>2, Zenon DEF Moves, Behind
  \* A step of the client alone is such a step, if it keeps the numbers and what is owed.
  <1>ClientQuiet.
      ASSUME Local, cl' \in Client, ClientOK', UNCHANGED <<server, sentC, gotC, ackedC, starts>>,
             NEW m \in MsgS, m.type \notin {"conn", "req", "ack"}, toS' \in {toS, Put(toS, m)},
             \/ toC' = <<>>
             \/ (toC' = toC \/ (toC # <<>> /\ toC' \in Rest(toC))) /\ (Open \/ Open' => Open /\ Open'),
             cl'.sno = cl.sno, cl'.rno = cl.rno, cl'.channel = cl.channel, cl'.owed = cl.owed,
             cl'.link = cl.link \/ cl'.link # "on", cl'.mod # 0 => cl.mod # 0, Open' => Open,
             Unconnected /\ Open' => Unconnected'
      PROVE  Local' /\ Quiet
    <2> USE <1>ClientQuiet
    <2>1. toS' \in Seq(MsgS) /\ Len(toS') <= MaxNet /\ Moves(toS, toS', {m})
      <3>1. Moves(toS, toS, {m}) BY Zenon DEF Moves
      <3>2. toS \in Seq(MsgS) /\ Len(toS) <= MaxNet BY LocalIs, Zenon
      <3>3. CASE toS' = toS BY <3>1, <3>2, <3>3, Zenon
      <3>4. CASE toS' = Put(toS, m) BY <3>2, <3>4, PutMoves, Zenon
      <3> QED BY <3>3, <3>4, Zenon
    <2>2. toC' \in Seq(MsgC) /\ Len(toC') <= MaxNet /\ Moves(toC, toC', {})
      <3>1. CASE toC' = <<>>
        <4>1. <<>> \in Seq(MsgC) /\ Len(<<>>) = 0 /\ 0 <= MaxNet BY LocalIs, SMT
        <4> QED BY <3>1, <4>1, <1>ClearMoves, Zenon
      <3>2. CASE toC' = toC BY <3>2, LocalIs, StayMoves, Zenon
      <3>3. CASE toC # <<>> /\ toC' \in Rest(toC) BY <3>3, LocalIs, RestMoves, Zenon
      <3> QED BY <3>1, <3>2, <3>3, Zenon
    <2>3. ~Open' => In(toC') = {} \/ ~Open BY <1>ClearMoves, Zenon
    <2>4. Local' BY <2>1, <2>2, Zenon DEF Local, Typed, TypeOK, server
    <2>5. UNCHANGED <<conn, sentS, gotS>> BY DEF server
    <2>6. \A c \in Channels : conn'[c].open =>
           /\ conn[c].open /\ conn'[c].port = conn[c].port /\ conn'[c].rno = conn[c].rno
           /\ DownInv => Carried(conn[c], conn'[c]) /\ InTurn(conn[c].out)'
      BY <2>5, Zenon DEF Carried, DownInv, InTurn
    <2>7. \E MS, MC :
           /\ Moves(toS, toS', MS) /\ \A x \in MS : x.type \notin {"conn", "req", "ack"}
           /\ Moves(toC, toC', MC) /\ \A x \in MC : x.type \notin {"connresp", "req", "ack"}
           /\ ~Open' => In(toC') = {} \/ (~Open /\ MC = {})
      <3>1. \A x \in {m} : x.type \notin {"conn", "req", "ack"} BY Zenon
      <3>2. \A x \in {} : x.type \notin {"connresp", "req", "ack"} BY Zenon
      <3> WITNESS {m}, {}
      <3> QED BY <2>1, <2>2, <2>3, <3>1, <3>2, Zenon
    <2> QED BY <2>4, <2>5, <2>6, <2>7, Zenon DEF Quiet
  \* What the client sends besides requests and ACKs.
  <1>Disc.
      ASSUME Local
      PROVE  /\ Msg("disc", cl.channel) \in MsgS /\ Msg("disc", cl.channel).type = "disc"
             /\ Msg("state", cl.channel) \in MsgS /\ Msg("state", cl.channel).type = "state"
             /\ Msg("discresp", cl.channel) \in MsgS /\ Msg("discresp", cl.channel).type = "discresp"
    <2> USE <1>Disc
    <2>1. cl.channel \in Int /\ starts \in Nat BY LocalIs, Zenon
    <2>2. \A t \in {"state", "disc", "discresp"} : Msg(t, cl.channel) \in Plain /\ Msg(t, cl.channel).type = t
      BY <2>1, SMT DEF Msg, Plain
    <2> QED BY <2>2, Zenon DEF MsgS
  \* EIBNetIPTunnel::stop.
  <1>StopQuiet. ASSUME Local, stop PROVE Local' /\ Quiet
    <2> USE <1>StopQuiet
    <2>1. /\ cl' = [Restart(cl) EXCEPT !.link = "off", !.timeout = FALSE, !.conntimeout = FALSE, !.trigger = FALSE]
          /\ toS' = RestartMsg(cl, toS) /\ toC' = <<>> /\ UNCHANGED <<server, sentC, gotC, ackedC, starts>>
      BY Zenon DEF stop
    <2>2. toS' \in {toS, Put(toS, Msg("disc", cl.channel))} BY <2>1, Zenon DEF RestartMsg
    <2>3. /\ cl'.link = "off" /\ cl'.mod = 0 /\ cl'.trigger = FALSE /\ cl'.timeout = FALSE
          /\ cl'.conntimeout = FALSE
          /\ cl'.channel = cl.channel /\ cl'.sno = cl.sno /\ cl'.rno = cl.rno /\ cl'.retry = cl.retry
          /\ cl'.out = cl.out /\ cl'.heartbeat = cl.heartbeat /\ cl'.owed = cl.owed /\ cl'.bound = cl.bound
      BY <2>1, LocalIs, SMT DEF Client, Restart
    <2>4. DOMAIN cl' = DOMAIN cl BY <2>1, LocalIs, SMT DEF Client, Restart
    <2>5. cl' = [x \in DOMAIN cl' |-> cl'[x]] BY <2>1, Zenon DEF Restart
    <2>6. cl' \in Client BY <2>3, <2>4, <2>5, LocalIs, ClientIs, Numbers, ZenonT(20)
    <2>7. ClientOK' BY <2>1, <2>3, LocalIs, SMT DEF Local, ClientOK, Open
    <2>8. ~Open' BY <2>3, Zenon DEF Open
    <2> QED BY <2>1, <2>2, <2>3, <2>6, <2>7, <2>8, <1>Disc, <1>ClientQuiet, ZenonT(20)
  \* trigger_cb with nothing to send.
  <1>TriggerQuiet. ASSUME Local, trigger_cb, ~(cl.mod = 1 /\ cl.out # 0) PROVE Local' /\ Quiet
    <2> USE <1>TriggerQuiet
    <2>1. /\ cl.trigger /\ cl' = [cl EXCEPT !.trigger = FALSE] /\ UNCHANGED toS
          /\ UNCHANGED <<server, toC, sentC, gotC, ackedC, starts>>
      BY Zenon DEF trigger_cb
    <2>2. /\ cl'.trigger = FALSE
          /\ cl'.link = cl.link /\ cl'.mod = cl.mod /\ cl'.channel = cl.channel /\ cl'.sno = cl.sno
          /\ cl'.rno = cl.rno /\ cl'.retry = cl.retry /\ cl'.out = cl.out /\ cl'.timeout = cl.timeout
          /\ cl'.conntimeout = cl.conntimeout /\ cl'.heartbeat = cl.heartbeat /\ cl'.owed = cl.owed
          /\ cl'.bound = cl.bound
      BY <2>1, LocalIs, SMT DEF Client
    <2>3. DOMAIN cl' = DOMAIN cl BY <2>1, LocalIs, SMT DEF Client
    <2>4. cl' = [x \in DOMAIN cl' |-> cl'[x]] BY <2>1, Zenon
    <2>5. cl' \in Client BY <2>2, <2>3, <2>4, LocalIs, ClientIs, Numbers, ZenonT(20)
    <2>6. ClientOK' BY <2>1, <2>2, LocalIs, SMT DEF Local, ClientOK, Open
    <2>7. Open /\ Open' BY <2>1, <2>2, Zenon DEF Local, ClientOK, Open
    <2>8. Unconnected => Unconnected' BY <2>2, Zenon DEF Unconnected
    <2> QED BY <2>1, <2>2, <2>5, <2>6, <2>7, <2>8, <1>Disc, <1>ClientQuiet, ZenonT(20)
  \* timeout_cb: the packet will be sent again, or is given up.
  <1>TimeoutQuiet. ASSUME Local, timeout_cb PROVE Local' /\ Quiet
    <2> USE <1>TimeoutQuiet
    <2>1. cl.timeout /\ Open BY Zenon DEF timeout_cb, Local, ClientOK
    <2>2. CASE cl.mod # 2
      <3>1. cl' = [cl EXCEPT !.timeout = FALSE] /\ UNCHANGED toS /\ UNCHANGED <<server, toC, sentC, gotC, ackedC, starts>>
        BY <2>2, Zenon DEF timeout_cb
      <3>2. /\ cl'.timeout = FALSE
            /\ cl'.link = cl.link /\ cl'.mod = cl.mod /\ cl'.channel = cl.channel /\ cl'.sno = cl.sno
            /\ cl'.rno = cl.rno /\ cl'.retry = cl.retry /\ cl'.out = cl.out /\ cl'.trigger = cl.trigger
            /\ cl'.conntimeout = cl.conntimeout /\ cl'.heartbeat = cl.heartbeat /\ cl'.owed = cl.owed
            /\ cl'.bound = cl.bound
        BY <3>1, LocalIs, SMT DEF Client
      <3>3. DOMAIN cl' = DOMAIN cl BY <3>1, LocalIs, SMT DEF Client
      <3>4. cl' = [x \in DOMAIN cl' |-> cl'[x]] BY <3>1, Zenon
      <3>5. cl' \in Client BY <3>2, <3>3, <3>4, LocalIs, ClientIs, Numbers, ZenonT(20)
      <3>6. ClientOK' BY <2>1, <2>2, <3>1, <3>2, LocalIs, SMT DEF Local, ClientOK, Open
      <3>7. Open' BY <2>1, <3>2, Zenon DEF Open
      <3>8. Unconnected => Unconnected' BY <3>2, Zenon DEF Unconnected
      <3> QED BY <2>1, <3>1, <3>2, <3>5, <3>6, <3>7, <3>8, <1>Disc, <1>ClientQuiet, ZenonT(20)
    <2>3. CASE cl.mod = 2 /\ ~(cl.retry > MaxRetry)
      <3>1. /\ cl' = [[cl EXCEPT !.timeout = FALSE, !.retry = @ + 1] EXCEPT !.mod = 1, !.trigger = TRUE]
            /\ UNCHANGED toS /\ UNCHANGED <<server, toC, sentC, gotC, ackedC, starts>>
        BY <2>3, Zenon DEF timeout_cb
      <3>a. cl.retry + 1 \in Nat BY LocalIs, SMT
      <3>2. /\ cl'.mod = 1 /\ cl'.retry = cl.retry + 1 /\ cl'.trigger = TRUE /\ cl'.timeout = FALSE
            /\ cl'.link = cl.link /\ cl'.channel = cl.channel /\ cl'.sno = cl.sno /\ cl'.rno = cl.rno
            /\ cl'.out = cl.out /\ cl'.conntimeout = cl.conntimeout /\ cl'.heartbeat = cl.heartbeat
            /\ cl'.owed = cl.owed /\ cl'.bound = cl.bound
        BY <3>1, LocalIs, SMT DEF Client
      <3>3. DOMAIN cl' = DOMAIN cl BY <3>1, LocalIs, SMT DEF Client
      <3>4. cl' = [x \in DOMAIN cl' |-> cl'[x]] BY <3>1, Zenon
      <3>5. cl' \in Client BY <3>2, <3>3, <3>4, LocalIs, ClientIs, <3>a, Numbers, ZenonT(20)
      <3>6. ClientOK' BY <2>1, <2>3, <3>1, <3>2, LocalIs, SMT DEF Local, ClientOK, Open
      <3>7. Open' BY <2>1, <3>2, Zenon DEF Open
      <3>8. ~Unconnected BY <2>3, Numbers, Zenon DEF Unconnected
      <3>9. cl.mod # 0 BY <2>3, Numbers, Zenon
      <3> QED BY <2>1, <3>1, <3>2, <3>5, <3>6, <3>7, <3>8, <3>9, <1>Disc, <1>ClientQuiet, ZenonT(20)
    <2>4. CASE cl.mod = 2 /\ cl.retry > MaxRetry
      <3> DEFINE t == [cl EXCEPT !.timeout = FALSE, !.retry = IF @ > MaxRetry THEN @ ELSE @ + 1]
      <3>1. /\ cl' = [[Restart(t) EXCEPT !.out = 0] EXCEPT !.mod = 1, !.trigger = TRUE]
            /\ toS' = RestartMsg(t, toS) /\ UNCHANGED <<server, toC, sentC, gotC, ackedC, starts>>
        BY <2>4, Zenon DEF timeout_cb
      <3>a. t.mod = cl.mod /\ t.channel = cl.channel BY LocalIs, SMT DEF Client
      <3>b. toS' \in {toS, Put(toS, Msg("disc", cl.channel))} BY <3>1, <3>a, Zenon DEF RestartMsg
      <3>2. /\ cl'.mod = 1 /\ cl'.out = 0 /\ cl'.trigger = TRUE /\ cl'.timeout = FALSE
            /\ cl'.conntimeout = TRUE
            /\ cl'.link = cl.link /\ cl'.channel = cl.channel /\ cl'.sno = cl.sno /\ cl'.rno = cl.rno
            /\ cl'.retry = cl.retry /\ cl'.heartbeat = cl.heartbeat /\ cl'.owed = cl.owed /\ cl'.bound = cl.bound
        BY <2>4, <3>1, LocalIs, SMT DEF Client, Restart
      <3>3. DOMAIN cl' = DOMAIN cl BY <2>4, <3>1, LocalIs, SMT DEF Client, Restart
      <3>4. cl' = [x \in DOMAIN cl' |-> cl'[x]] BY <2>4, <3>1, Zenon DEF Restart
      <3>5. cl' \in Client BY <3>2, <3>3, <3>4, LocalIs, ClientIs, Numbers, ZenonT(20)
      <3>6. ClientOK' BY <2>1, <2>4, <3>1, <3>2, LocalIs, SMT DEF Local, ClientOK, Open
      <3>7. Open' BY <2>1, <3>2, Zenon DEF Open
      <3>8. ~Unconnected BY <2>4, Numbers, Zenon DEF Unconnected
      <3>9. cl.mod # 0 BY <2>4, Numbers, Zenon
      <3> QED BY <2>1, <3>1, <3>b, <3>2, <3>5, <3>6, <3>7, <3>8, <3>9, <1>Disc, <1>ClientQuiet, ZenonT(20)
    <2> QED BY <2>2, <2>3, <2>4, Zenon
  \* conntimeout_cb: a heartbeat, or the end of the connection or of the socket.
  <1>ConntimeoutQuiet. ASSUME Local, conntimeout_cb PROVE Local' /\ Quiet
    <2> USE <1>ConntimeoutQuiet
    <2>1. cl.conntimeout /\ Open /\ UNCHANGED <<server, sentC, gotC, ackedC, starts>>
      BY Zenon DEF conntimeout_cb, Local, ClientOK
    <2>2. CASE cl.mod = 0
      <3>1. /\ cl' = [cl EXCEPT !.link = "failed", !.timeout = FALSE, !.conntimeout = FALSE, !.trigger = FALSE]
            /\ toC' = <<>> /\ UNCHANGED toS
        BY <2>2, Zenon DEF conntimeout_cb
      <3>2. /\ cl'.link = "failed" /\ cl'.trigger = FALSE /\ cl'.timeout = FALSE
            /\ cl'.conntimeout = FALSE
            /\ cl'.mod = cl.mod /\ cl'.channel = cl.channel /\ cl'.sno = cl.sno /\ cl'.rno = cl.rno
            /\ cl'.retry = cl.retry /\ cl'.out = cl.out /\ cl'.heartbeat = cl.heartbeat /\ cl'.owed = cl.owed
            /\ cl'.bound = cl.bound
        BY <3>1, LocalIs, SMT DEF Client
      <3>3. DOMAIN cl' = DOMAIN cl BY <3>1, LocalIs, SMT DEF Client
      <3>4. cl' = [x \in DOMAIN cl' |-> cl'[x]] BY <3>1, Zenon
      <3>5. cl' \in Client BY <3>2, <3>3, <3>4, LocalIs, ClientIs, Numbers, ZenonT(20)
      <3>6. ClientOK' BY <2>1, <2>2, <3>2, LocalIs, SMT DEF Local, ClientOK, Open
      <3>7. ~Open' BY <3>2, Zenon DEF Open
      <3> QED BY <2>1, <3>1, <3>2, <3>5, <3>6, <3>7, <1>Disc, <1>ClientQuiet, ZenonT(20)
    <2>3. CASE cl.mod # 0 /\ cl.heartbeat < HeartbeatLimit
      <3>1. /\ cl' = [cl EXCEPT !.heartbeat = @ + 1] /\ UNCHANGED toC /\ toS' = Put(toS, Msg("state", cl.channel))
        BY <2>3, Zenon DEF conntimeout_cb
      <3>a. cl.heartbeat + 1 \in Nat /\ 0 \in Seqno /\ starts \in Nat /\ cl.channel \in Int BY LocalIs, IncFacts, SMT
      <3>b. Msg("state", cl.channel) \in MsgS /\ Msg("state", cl.channel).type = "state" BY <1>Disc, Zenon
      <3>2. /\ cl'.heartbeat = cl.heartbeat + 1
            /\ cl'.link = cl.link /\ cl'.mod = cl.mod /\ cl'.channel = cl.channel /\ cl'.sno = cl.sno
            /\ cl'.rno = cl.rno /\ cl'.retry = cl.retry /\ cl'.out = cl.out /\ cl'.trigger = cl.trigger
            /\ cl'.timeout = cl.timeout /\ cl'.conntimeout = cl.conntimeout /\ cl'.owed = cl.owed
            /\ cl'.bound = cl.bound
        BY <3>1, LocalIs, SMT DEF Client
      <3>3. DOMAIN cl' = DOMAIN cl BY <3>1, LocalIs, SMT DEF Client
      <3>4. cl' = [x \in DOMAIN cl' |-> cl'[x]] BY <3>1, Zenon
      <3>5. cl' \in Client BY <3>2, <3>3, <3>4, LocalIs, ClientIs, <3>a, Numbers, ZenonT(20)
      <3>6. ClientOK' BY <2>1, <2>3, <3>1, <3>2, LocalIs, SMT DEF Local, ClientOK, Open
      <3>7. Open' BY <2>1, <3>2, Zenon DEF Open
      <3>8. ~Unconnected BY <2>3, Zenon DEF Unconnected
      <3> QED BY <2>1, <2>3, <3>1, <3>b, <3>2, <3>5, <3>6, <3>7, <3>8, <1>ClientQuiet, Zenon
    <2>4. CASE cl.mod # 0 /\ ~(cl.heartbeat < HeartbeatLimit)
      <3>1. /\ cl' = Restart([cl EXCEPT !.conntimeout = FALSE]) /\ UNCHANGED toC /\ toS' = RestartMsg(cl, toS)
        BY <2>4, Zenon DEF conntimeout_cb
      <3>a. cl' = [[cl EXCEPT !.conntimeout = FALSE] EXCEPT !.mod = 0, !.conntimeout = TRUE]
        BY <2>4, <3>1, LocalIs, SMT DEF Restart, Client
      <3>b. toS' \in {toS, Put(toS, Msg("disc", cl.channel))} BY <3>1, Zenon DEF RestartMsg
      <3>2. /\ cl'.mod = 0 /\ cl'.conntimeout = TRUE
            /\ cl'.link = cl.link /\ cl'.channel = cl.channel /\ cl'.sno = cl.sno /\ cl'.rno = cl.rno
            /\ cl'.retry = cl.retry /\ cl'.out = cl.out /\ cl'.trigger = cl.trigger /\ cl'.timeout = cl.timeout
            /\ cl'.heartbeat = cl.heartbeat /\ cl'.owed = cl.owed /\ cl'.bound = cl.bound
        BY <3>a, LocalIs, SMT DEF Client
      <3>3. DOMAIN cl' = DOMAIN cl BY <3>a, LocalIs, SMT DEF Client
      <3>4. cl' = [x \in DOMAIN cl' |-> cl'[x]] BY <3>a, Zenon
      <3>5. cl' \in Client BY <3>2, <3>3, <3>4, LocalIs, ClientIs, Numbers, ZenonT(20)
      <3>6. ClientOK' BY <2>1, <2>4, <3>2, LocalIs, SMT DEF Local, ClientOK, Open
      <3>7. Open' BY <2>1, <3>2, Zenon DEF Open
      <3>8. ~Unconnected BY <2>4, Zenon DEF Unconnected
      <3> QED BY <2>1, <2>4, <3>1, <3>b, <3>2, <3>5, <3>6, <3>7, <3>8, <1>Disc, <1>ClientQuiet, ZenonT(20)
    <2> QED BY <2>2, <2>3, <2>4, Zenon
  \* A message that is not for the client.
  <1>ReadNothing.
      ASSUME Local, NEW t, Recv(t), UNCHANGED <<cl, toS>>, UNCHANGED <<server, sentC, gotC, ackedC, starts>>
      PROVE  Local' /\ Quiet
    <2> USE <1>ReadNothing
    <2>1. Open' BY RecvFacts, Zenon DEF Open
    <2>2. cl' \in Client BY LocalIs, Zenon
    <2>3. ClientOK' BY Zenon DEF Local, ClientOK, Open
    <2>4. Unconnected => Unconnected' BY Zenon DEF Unconnected
    <2>5. toC # <<>> /\ toC' \in Rest(toC) /\ Open BY RecvFacts, Zenon
    <2> QED BY <2>1, <2>2, <2>3, <2>4, <2>5, <1>Disc, <1>ClientQuiet, ZenonT(20)
  \* The client leaves the connection.
  <1>Leaves.
      ASSUME Local, NEW t, Recv(t), UNCHANGED <<server, sentC, gotC, ackedC, starts>>,
             cl.mod # 0, cl' = [cl EXCEPT !.mod = 0, !.conntimeout = TRUE],
             NEW x \in {"disc", "discresp"}, toS' \in {toS, Put(toS, Msg(x, cl.channel))}
      PROVE  Local' /\ Quiet
    <2> USE <1>Leaves
    <2>1. toC # <<>> /\ toC' \in Rest(toC) /\ Open BY RecvFacts, Zenon
    <2>2. /\ cl'.mod = 0 /\ cl'.conntimeout = TRUE
          /\ cl'.link = cl.link /\ cl'.channel = cl.channel /\ cl'.sno = cl.sno /\ cl'.rno = cl.rno
          /\ cl'.retry = cl.retry /\ cl'.out = cl.out /\ cl'.trigger = cl.trigger /\ cl'.timeout = cl.timeout
          /\ cl'.heartbeat = cl.heartbeat /\ cl'.owed = cl.owed /\ cl'.bound = cl.bound
      BY LocalIs, SMT DEF Client
    <2>3. DOMAIN cl' = DOMAIN cl BY LocalIs, SMT DEF Client
    <2>4. cl' = [f \in DOMAIN cl' |-> cl'[f]] BY Zenon
    <2>5. cl' \in Client BY <2>2, <2>3, <2>4, LocalIs, ClientIs, Numbers, ZenonT(20)
    <2>6. ClientOK' BY <2>1, <2>2, LocalIs, SMT DEF Local, ClientOK, Open
    <2>7. Open' BY <2>1, <2>2, Zenon DEF Open
    <2>8. ~Unconnected BY Zenon DEF Unconnected
    <2>9. Msg(x, cl.channel) \in MsgS /\ Msg(x, cl.channel).type \notin {"conn", "req", "ack"} BY <1>Disc, Zenon
    <2> QED BY <2>1, <2>2, <2>5, <2>6, <2>7, <2>8, <2>9, <1>ClientQuiet, Zenon
  \* A CONNECTION_RESPONSE that does not make a connection.
  <1>ConnectionMiss.
      ASSUME Local, connection_response, ~(cl.mod = 0 /\ Head(toC).ok)
      PROVE  Local' /\ Quiet
    <2> USE <1>ConnectionMiss
    <2>1. Recv("connresp") /\ cl' = cl /\ UNCHANGED <<server, toS, sentC, gotC, ackedC, starts>>
      BY Zenon DEF connection_response
    <2> QED BY <2>1, <1>ReadNothing, Zenon
  \* A request that is not for the client, or is far off.
  <1>RequestMiss.
      ASSUME Local, tunnel_request,
             ~(cl.mod # 0 /\ Head(toC).ch = cl.channel /\ (Head(toC).seqno = cl.rno \/ Inc(Head(toC).seqno) = cl.rno))
      PROVE  Local' /\ Quiet
    <2> USE <1>RequestMiss
    <2> DEFINE far == /\ cl.mod # 0 /\ Head(toC).ch = cl.channel
                      /\ Inc(Head(toC).seqno) # cl.rno /\ Head(toC).seqno >= cl.rno + 5
    <2>1. /\ Recv("req") /\ UNCHANGED <<server, sentC, ackedC, starts>> /\ gotC' = gotC
          /\ cl' = IF far THEN Restart(cl) ELSE cl
          /\ toS' = IF far THEN RestartMsg(cl, toS) ELSE toS
      BY Zenon DEF tunnel_request
    <2>2. CASE ~far BY <2>1, <2>2, <1>ReadNothing, Zenon
    <2>3. CASE far
      <3>1. cl.mod # 0 BY <2>3, Zenon
      <3>2. cl' = [cl EXCEPT !.mod = 0, !.conntimeout = TRUE] BY <2>1, <2>3, <3>1, Zenon DEF Restart
      <3>3. toS' = Put(toS, Msg("disc", cl.channel)) BY <2>1, <2>3, <3>1, Zenon DEF RestartMsg
      <3> HIDE DEF far
      <3> QED BY <2>1, <3>1, <3>2, <3>3, <1>Leaves, Zenon
    <2> QED BY <2>2, <2>3
  \* An ACK that the client did not wait for.
  <1>ResponseMiss.
      ASSUME Local, tunnel_response,
             ~(cl.mod = 2 /\ Head(toC).ch = cl.channel /\ Head(toC).seqno = cl.sno /\ Head(toC).ok)
      PROVE  Local' /\ Quiet
    <2> USE <1>ResponseMiss
    <2>1. Recv("ack") /\ UNCHANGED <<cl, ackedC>> /\ UNCHANGED <<server, toS, sentC, gotC, starts>>
      BY Zenon DEF tunnel_response
    <2> QED BY <2>1, <1>ReadNothing, Zenon
  \* The answer to a heartbeat.
  <1>StateQuiet. ASSUME Local, connectionstate_response PROVE Local' /\ Quiet
    <2> USE <1>StateQuiet
    <2> DEFINE m == Head(toC)
               gone == m.ch = cl.channel /\ ~m.ok
    <2>1. /\ Recv("stateresp") /\ UNCHANGED <<server, sentC, gotC, ackedC, starts>>
          /\ cl' = CASE gone -> Restart(cl)
                     [] m.ch = cl.channel /\ m.ok -> [cl EXCEPT !.heartbeat = 0]
                     [] OTHER -> cl
          /\ toS' = IF gone THEN RestartMsg(cl, toS) ELSE toS
      BY Zenon DEF connectionstate_response
    <2>2. toC # <<>> /\ toC' \in Rest(toC) /\ Open BY <2>1, RecvFacts, Zenon
    <2>3. CASE gone /\ cl.mod # 0
      <3>1. cl' = [cl EXCEPT !.mod = 0, !.conntimeout = TRUE] BY <2>1, <2>3, Zenon DEF Restart
      <3>2. toS' = Put(toS, Msg("disc", cl.channel)) BY <2>1, <2>3, Zenon DEF RestartMsg
      <3> QED BY <2>1, <2>3, <3>1, <3>2, <1>Leaves, Zenon
    <2>4. CASE gone /\ cl.mod = 0
      <3>1. cl' = cl /\ toS' = toS BY <2>1, <2>4, Zenon DEF Restart, RestartMsg
      <3> QED BY <2>1, <3>1, <1>ReadNothing, Zenon
    <2>5. CASE ~gone /\ ~(m.ch = cl.channel /\ m.ok)
      <3>1. cl' = cl /\ toS' = toS BY <2>1, <2>5, Zenon
      <3> QED BY <2>1, <3>1, <1>ReadNothing, Zenon
    <2>6. CASE ~gone /\ m.ch = cl.channel /\ m.ok
      <3>1. cl' = [cl EXCEPT !.heartbeat = 0] /\ toS' = toS BY <2>1, <2>6, Zenon
      <3> HIDE DEF m, gone
      <3>2. /\ cl'.heartbeat = 0
            /\ cl'.link = cl.link /\ cl'.mod = cl.mod /\ cl'.channel = cl.channel /\ cl'.sno = cl.sno
            /\ cl'.rno = cl.rno /\ cl'.retry = cl.retry /\ cl'.out = cl.out /\ cl'.trigger = cl.trigger
            /\ cl'.timeout = cl.timeout /\ cl'.conntimeout = cl.conntimeout /\ cl'.owed = cl.owed
            /\ cl'.bound = cl.bound
        BY <3>1, LocalIs, SMT DEF Client
      <3>3. DOMAIN cl' = DOMAIN cl BY <3>1, LocalIs, SMT DEF Client
      <3>4. cl' = [x \in DOMAIN cl' |-> cl'[x]] BY <3>1, Zenon
      <3>5. cl' \in Client BY <3>2, <3>3, <3>4, LocalIs, ClientIs, Numbers, ZenonT(20)
      <3>6. ClientOK' BY <2>1, <3>2, Zenon DEF Local, ClientOK, Open
      <3>7. Open' BY <2>2, <3>2, Zenon DEF Open
      <3>8. Unconnected => Unconnected' BY <3>2, Zenon DEF Unconnected
      <3> QED BY <2>1, <2>2, <3>1, <3>2, <3>5, <3>6, <3>7, <3>8, <1>Disc, <1>ClientQuiet, ZenonT(20)
    <2> QED BY <2>3, <2>4, <2>5, <2>6, Zenon
  \* DISCONNECT_REQUEST and DISCONNECT_RESPONSE at the client.
  <1>DisconnectQuiet.
      ASSUME Local, disconnect_request \/ disconnect_response
      PROVE  Local' /\ Quiet
    <2> USE <1>DisconnectQuiet
    <2>1. CASE disconnect_request /\ cl.mod # 0 /\ Head(toC).ch = cl.channel
      <3>1. /\ Recv("disc") /\ UNCHANGED <<server, sentC, gotC, ackedC, starts>>
            /\ cl' = [cl EXCEPT !.mod = 0, !.conntimeout = TRUE] /\ toS' = Put(toS, Msg("discresp", cl.channel))
        BY <2>1, Zenon DEF disconnect_request
      <3> QED BY <2>1, <3>1, <1>Leaves, Zenon
    <2>2. CASE disconnect_request /\ ~(cl.mod # 0 /\ Head(toC).ch = cl.channel)
      <3>1. Recv("disc") /\ UNCHANGED <<server, sentC, gotC, ackedC, starts>> /\ UNCHANGED <<cl, toS>>
        BY <2>2, Zenon DEF disconnect_request
      <3> QED BY <3>1, <1>ReadNothing, Zenon
    <2>3. CASE disconnect_response /\ cl.mod # 0 /\ Head(toC).ch = cl.channel
      <3>1. /\ Recv("discresp") /\ UNCHANGED <<server, toS, sentC, gotC, ackedC, starts>>
            /\ cl' = [cl EXCEPT !.mod = 0, !.conntimeout = TRUE]
        BY <2>3, Zenon DEF disconnect_response
      <3> QED BY <2>3, <3>1, <1>Leaves, Zenon
    <2>4. CASE disconnect_response /\ ~(cl.mod # 0 /\ Head(toC).ch = cl.channel)
      <3>1. Recv("discresp") /\ UNCHANGED <<server, toS, sentC, gotC, ackedC, starts>> /\ cl' = cl
        BY <2>4, Zenon DEF disconnect_response
      <3> QED BY <3>1, <1>ReadNothing, Zenon
    <2> QED BY <2>1, <2>2, <2>3, <2>4, Zenon
  \* A step of the server alone is quiet if no connection is opened, no packet accepted and
  \* no request or ACK sent.
  <1>ServerQuiet.
      ASSUME Local, UNCHANGED client, conn' \in [Channels -> ConnStates \cup {NoConn}],
             toS' = toS \/ (toS # <<>> /\ toS' \in Rest(toS)),
             NEW p, NEW m \in MsgC, m.type \notin {"connresp", "req", "ack"}, toC' \in {toC, PutC(p, m)},
             sentS' \in {sentS, sentS + 1}, UNCHANGED gotS,
             \A c \in Channels : conn'[c].open =>
               /\ conn[c].open /\ conn'[c].port = conn[c].port /\ conn'[c].rno = conn[c].rno /\ ConnOK(conn'[c])
               /\ DownInv => Carried(conn[c], conn'[c]) /\ InTurn(conn[c].out)'
      PROVE  Local' /\ Quiet
    <2> USE <1>ServerQuiet
    <2>1. toS' \in Seq(MsgS) /\ Len(toS') <= MaxNet /\ Moves(toS, toS', {})
      <3>1. toS \in Seq(MsgS) /\ Len(toS) <= MaxNet BY LocalIs, Zenon
      <3>2. CASE toS' = toS BY <3>1, <3>2, StayMoves, Zenon
      <3>3. CASE toS # <<>> /\ toS' \in Rest(toS) BY <3>1, <3>3, RestMoves, Zenon
      <3> QED BY <3>2, <3>3, Zenon
    <2>2. /\ toC' \in Seq(MsgC) /\ Len(toC') <= MaxNet /\ Moves(toC, toC', IF Open THEN {m} ELSE {})
      <3>1. toC \in Seq(MsgC) /\ Len(toC) <= MaxNet /\ Moves(toC, toC, {}) /\ Moves(toC, toC, {m})
        BY LocalIs, Zenon DEF Moves
      <3> QED BY <3>1, PutCMoves, Zenon
    <2>3. UNCHANGED <<cl, sentC, gotC, ackedC, starts>> BY Zenon DEF client
    <2>4. sentS' \in Nat /\ gotS' \in Seq(Nat) BY LocalIs, SMT
    <2>5. Local' BY <2>1, <2>2, <2>4, ServerLocal, Zenon
    <2>6. (Open' <=> Open) /\ (Unconnected => Unconnected') BY <2>3, Zenon DEF Open, Unconnected
    <2>7. \E MS, MC :
           /\ Moves(toS, toS', MS) /\ \A x \in MS : x.type \notin {"conn", "req", "ack"}
           /\ Moves(toC, toC', MC) /\ \A x \in MC : x.type \notin {"connresp", "req", "ack"}
           /\ ~Open' => In(toC') = {} \/ (~Open /\ MC = {})
      <3> DEFINE M == IF Open THEN {m} ELSE {}
      <3>1. \A x \in M : x.type \notin {"connresp", "req", "ack"} BY Zenon
      <3>2. \A x \in {} : x.type \notin {"conn", "req", "ack"} BY Zenon
      <3>3. ~Open => M = {} BY Zenon
      <3>4. Moves(toC, toC', M) BY <2>2
      <3> HIDE DEF M
      <3> WITNESS {}, M
      <3> QED BY <2>1, <2>6, <3>1, <3>2, <3>3, <3>4, Zenon
    <2> QED BY <2>3, <2>5, <2>6, <2>7, Zenon DEF Quiet
  \* <1>Replies that any client is given.
  <1>Replies.
      ASSUME starts \in Nat, NEW ch \in Int
      PROVE  /\ \A ok \in BOOLEAN : \A t \in {"stateresp", "discresp"} : Resp(t, ch, ok) \in MsgC /\ Resp(t, ch, ok).type = t
             /\ Msg("disc", ch) \in MsgC /\ Msg("disc", ch).type = "disc"
    <2> USE <1>Replies
    <2>1. \A t \in {"stateresp", "discresp"} : \A ok \in BOOLEAN :
             /\ Resp(t, ch, ok) \in [ type : {"stateresp", "discresp"}, ch : Int, ok : BOOLEAN ]
             /\ Resp(t, ch, ok).type = t
      BY Zenon DEF Resp
    <2>2. Msg("disc", ch) \in Plain /\ Msg("disc", ch).type = "disc" BY SMT DEF Msg, Plain
    <2> QED BY <2>1, <2>2, Zenon DEF MsgC
  \* A connection that is not touched.
  <1>ConnStays.
      ASSUME Local, NEW c \in Channels, conn'[c] = conn[c], sentS' \in {sentS, sentS + 1}
      PROVE  Undisturbed(c)
    <2> USE <1>ConnStays
    <2>1. conn[c].open /\ DownInv => InTurn(conn[c].out)' BY SameOut, Zenon
    <2> QED BY <2>1, Zenon DEF Undisturbed, Carried, Local
  \* ConnState::stop leaves the numbers and the queue alone.
  <1>StopFacts.
      ASSUME NEW s \in ConnStates
      PROVE  /\ Stop(s) \in ConnStates /\ Stop(s).port = s.port /\ Stop(s).rno = s.rno /\ Stop(s).sno = s.sno
             /\ Stop(s).stopped = TRUE /\ Stop(s).out = s.out /\ ConnOK(Stop(s))
    <2> USE <1>StopFacts
    <2> DEFINE T == {TRUE}
               B == BOOLEAN
               S == Seq(Cemi)
               e == Stop(s)
    <2>1. s \in Conns(T, B, S) BY ConnSets, Zenon
    <2>2. TRUE \in B /\ FALSE \in B OBVIOUS
    <2> HIDE DEF T, B, S
    <2>3. /\ e.open = s.open /\ e.port = s.port /\ e.stopped = TRUE /\ e.sno = s.sno /\ e.rno = s.rno /\ e.retries = 0
          /\ e.out = s.out /\ e.trigger = FALSE /\ e.sendtimeout = FALSE /\ e.do_send_next = s.do_send_next
          /\ DOMAIN e = DOMAIN s
      BY <2>1, SMT DEF Stop, Conns
    <2>4. e = [x \in DOMAIN e |-> e[x]] BY Zenon DEF Stop
    <2>5. 0 \in 0 .. 3 BY SMT
    <2>6. e \in Conns(T, B, S)
      <3> HIDE DEF e
      <3>1. /\ s.open \in T /\ s.port \in Nat /\ s.stopped \in B /\ s.sno \in Seqno /\ s.rno \in Seqno
            /\ s.retries \in 0..3 /\ s.out \in S /\ s.trigger \in B /\ s.sendtimeout \in B /\ s.do_send_next \in B
        BY <2>1, ConnFields, Zenon
      <3>2. e.open \in T /\ e.port \in Nat /\ e.stopped \in B /\ e.sno \in Seqno /\ e.rno \in Seqno
        BY <2>2, <2>3, <3>1, Zenon
      <3>3. /\ e.retries \in 0..3 /\ e.out \in S /\ e.trigger \in B /\ e.sendtimeout \in B /\ e.do_send_next \in B
        BY <2>2, <2>3, <2>5, <3>1, Zenon
      <3> QED BY <2>1, <2>3, <2>4, <3>2, <3>3, ConnIs, Zenon
    <2>7. e \in ConnStates BY <2>6, ConnSets, Zenon DEF T, B, S
    <2> QED BY <2>3, <2>7, Zenon DEF ConnOK
  \* <1>ServerQuiet for a step that leaves the connections alone.
  <1>ServerIdle.
      ASSUME Local, UNCHANGED <<client, conn, sentS, gotS>>, toS' = toS \/ (toS # <<>> /\ toS' \in Rest(toS)),
             NEW p, NEW m \in MsgC, m.type \notin {"connresp", "req", "ack"}, toC' \in {toC, PutC(p, m)}
      PROVE  Local' /\ Quiet
    <2> USE <1>ServerIdle
    <2>1. \A c \in Channels : Undisturbed(c) BY <1>ConnStays, Zenon
    <2>2. conn' \in [Channels -> ConnStates \cup {NoConn}] BY LocalIs, Zenon
    <2> QED BY <2>1, <2>2, <1>ServerQuiet, Zenon DEF Undisturbed
  \* CONNECTIONSTATE_REQUEST.
  <1>StateRequestQuiet. ASSUME Local, connectionstate_request PROVE Local' /\ Quiet
    <2> USE <1>StateRequestQuiet
    <2> DEFINE m == Head(toS)
               ok == Known(m.ch)
    <2>1. /\ RecvS("state") /\ UNCHANGED <<client, conn, sentS, gotS>>
          /\ toC' = PutC(m.port, Resp("stateresp", m.ch, ok))
      BY Zenon DEF connectionstate_request
    <2>2. toS # <<>> /\ toS' \in Rest(toS) /\ m \in MsgS BY <2>1, RecvSFacts, Zenon
    <2>3. ok \in BOOLEAN BY Zenon DEF Known
    <2>4. m.ch \in Int /\ starts \in Nat BY <2>2, MsgTypes, LocalIs, Zenon
    <2> HIDE DEF ok
    <2>a. \A b \in BOOLEAN : \A t \in {"stateresp", "discresp"} :
             Resp(t, m.ch, b) \in MsgC /\ Resp(t, m.ch, b).type = t
      BY <2>4, <1>Replies, Zenon
    <2>5. Resp("stateresp", m.ch, ok) \in MsgC /\ Resp("stateresp", m.ch, ok).type = "stateresp"
      BY <2>3, <2>a, Zenon
    <2> QED BY <2>1, <2>2, <2>5, <1>ServerIdle, Zenon
  \* DISCONNECT_RESPONSE at the server.
  <1>IgnoreQuiet. ASSUME Local, ignore_packet PROVE Local' /\ Quiet
    <2> USE <1>IgnoreQuiet
    <2>1. RecvS("discresp") /\ UNCHANGED <<client, conn, toC, sentS, gotS>> BY Zenon DEF ignore_packet
    <2>2. toS # <<>> /\ toS' \in Rest(toS) BY <2>1, RecvSFacts, Zenon
    <2>3. Msg("disc", 0) \in MsgC /\ Msg("disc", 0).type = "disc" BY LocalIs, <1>Replies, Numbers, Zenon
    <2> QED BY <2>1, <2>2, <2>3, <1>ServerIdle, Zenon
  \* Losing a message is like reading and ignoring it.
  <1>LoseQuiet. ASSUME Local, Lose PROVE Local' /\ Quiet
    <2> USE <1>LoseQuiet
    <2>1. UNCHANGED <<cl, conn, sentC, sentS, gotS, gotC, ackedC, starts>> BY Zenon DEF Lose
    <2>2. CASE toS # <<>> /\ toS' = Tail(toS) /\ UNCHANGED toC
      <3>1. toS' \in Rest(toS) BY <2>2, Zenon DEF Rest
      <3>2. Msg("disc", 0) \in MsgC /\ Msg("disc", 0).type = "disc" BY LocalIs, <1>Replies, Numbers, Zenon
      <3>3. UNCHANGED <<client, conn, sentS, gotS>> BY <2>1, Zenon DEF client
      <3> QED BY <2>1, <2>2, <3>1, <3>2, <3>3, <1>ServerIdle, Zenon
    <2>3. CASE toC # <<>> /\ toC' = Tail(toC) /\ UNCHANGED toS
      <3>1. toC' \in Rest(toC) BY <2>3, Zenon DEF Rest
      <3>2. cl' \in Client BY <2>1, LocalIs, Zenon
      <3>3. ClientOK' BY <2>1, Zenon DEF Local, ClientOK, Open
      <3>4. (Unconnected => Unconnected') /\ (Open' <=> Open) BY <2>1, Zenon DEF Unconnected, Open
      <3>5. UNCHANGED <<server, sentC, gotC, ackedC, starts>> BY <2>1, Zenon DEF server
      <3> QED BY <2>1, <2>3, <3>1, <3>2, <3>3, <3>4, <3>5, <1>Disc, <1>ClientQuiet, ZenonT(20)
    <2> QED BY <2>2, <2>3, Zenon DEF Lose
  \* A stopped connection.
  <1>StopUndisturbed.
      ASSUME Local, NEW ch \in Channels, conn[ch].open, conn' = [conn EXCEPT ![ch] = Stop(@)], UNCHANGED sentS
      PROVE  conn' \in [Channels -> ConnStates \cup {NoConn}] /\ \A c \in Channels : Undisturbed(c)
    <2> USE <1>StopUndisturbed
    <2>1. conn[ch] \in ConnStates BY ConnTypes, Zenon
    <2>2. Stop(conn[ch]) \in ConnStates BY <2>1, <1>StopFacts, Zenon
    <2>3. conn' = [conn EXCEPT ![ch] = Stop(conn[ch])] BY Zenon
    <2>4. /\ conn' \in [Channels -> ConnStates \cup {NoConn}] /\ conn'[ch] = Stop(conn[ch])
          /\ \A c \in Channels : c # ch => conn'[c] = conn[c]
      BY <2>2, <2>3, OneConn, Zenon
    <2>5. conn'[ch].out = conn[ch].out BY <2>1, <2>4, <1>StopFacts, Zenon
    <2>6. DownInv => InTurn(conn[ch].out)' BY <2>5, SameOut, Zenon
    <2>7. Undisturbed(ch) BY <2>1, <2>4, <2>6, <1>StopFacts, Zenon DEF Undisturbed, Carried
    <2>8. ASSUME NEW c \in Channels, c # ch PROVE Undisturbed(c) BY <2>4, <2>8, <1>ConnStays, Zenon
    <2> QED BY <2>4, <2>7, <2>8, Zenon
  \* DISCONNECT_REQUEST at the server.
  <1>ServeDisconnectQuiet. ASSUME Local, serve_disconnect PROVE Local' /\ Quiet
    <2> USE <1>ServeDisconnectQuiet
    <2> DEFINE m == Head(toS)
               ok == Known(m.ch)
    <2>1. /\ RecvS("disc") /\ UNCHANGED <<client, sentS, gotS>>
          /\ conn' = IF ok THEN [conn EXCEPT ![m.ch] = Stop(@)] ELSE conn
          /\ toC' = PutC(m.port, Resp("discresp", m.ch, ok))
      BY Zenon DEF serve_disconnect
    <2>2. toS # <<>> /\ toS' \in Rest(toS) /\ m \in MsgS BY <2>1, RecvSFacts, Zenon
    <2>3. ok \in BOOLEAN /\ (ok => m.ch \in Channels /\ conn[m.ch].open) BY Zenon DEF Known
    <2>4. m.ch \in Int /\ starts \in Nat BY <2>2, MsgTypes, LocalIs, Zenon
    <2> HIDE DEF ok
    <2>a. \A b \in BOOLEAN : \A t \in {"stateresp", "discresp"} :
             Resp(t, m.ch, b) \in MsgC /\ Resp(t, m.ch, b).type = t
      BY <2>4, <1>Replies, Zenon
    <2>5. Resp("discresp", m.ch, ok) \in MsgC /\ Resp("discresp", m.ch, ok).type = "discresp"
      BY <2>3, <2>a, Zenon
    <2>6. CASE ~ok BY <2>1, <2>2, <2>5, <2>6, <1>ServerIdle, Zenon
    <2>7. CASE ok
      <3>1. conn' \in [Channels -> ConnStates \cup {NoConn}] /\ \A c \in Channels : Undisturbed(c)
        BY <2>1, <2>3, <2>7, <1>StopUndisturbed, Zenon
      <3> QED BY <2>1, <2>2, <2>5, <3>1, <1>ServerQuiet, Zenon DEF Undisturbed
    <2> QED BY <2>6, <2>7
  \* ConnState::timeout_cb.
  <1>ConnTimeoutQuiet.
      ASSUME Local, NEW ch \in Channels, ConnState_timeout_cb(ch)
      PROVE  Local' /\ Quiet
    <2> USE <1>ConnTimeoutQuiet
    <2>1. /\ conn[ch].open /\ conn' = [conn EXCEPT ![ch] = Stop(@)] /\ toC' = PutC(conn[ch].port, Msg("disc", ch))
          /\ UNCHANGED <<client, toS, sentS, gotS>>
      BY Zenon DEF ConnState_timeout_cb
    <2>2. ch \in Int /\ starts \in Nat
      <3>1. ch \in Nat BY LocalIs, Zenon
      <3> QED BY <3>1, LocalIs, SMT
    <2>3. Msg("disc", ch) \in MsgC /\ Msg("disc", ch).type = "disc" BY <2>2, <1>Replies, Zenon
    <2>4. conn' \in [Channels -> ConnStates \cup {NoConn}] /\ \A c \in Channels : Undisturbed(c)
      BY <2>1, <1>StopUndisturbed, Zenon
    <2> QED BY <2>1, <2>3, <2>4, <1>ServerQuiet, Zenon DEF Undisturbed
  \* EIBnetServer::drop_trigger_cb.
  <1>DropQuiet. ASSUME Local, drop_trigger_cb PROVE Local' /\ Quiet
    <2> USE <1>DropQuiet
    <2>1. /\ conn' = [ ch \in Channels |-> IF conn[ch].open /\ conn[ch].stopped THEN NoConn ELSE conn[ch] ]
          /\ UNCHANGED <<client, toS, toC, sentS, gotS>>
      BY Zenon DEF drop_trigger_cb
    <2>2. \A c \in Channels : conn'[c] = NoConn \/ conn'[c] = conn[c] BY <2>1, Zenon
    <2>3. conn' \in [Channels -> ConnStates \cup {NoConn}] BY <2>1, LocalIs, Zenon
    <2>4. NoConn.open = FALSE BY SMT DEF NoConn
    <2>5. ASSUME NEW c \in Channels PROVE Undisturbed(c)
      <3>1. CASE conn'[c] = NoConn BY <2>4, <3>1, Zenon DEF Undisturbed
      <3>2. CASE conn'[c] = conn[c] BY <2>1, <3>2, <1>ConnStays, Zenon
      <3> QED BY <2>2, <3>1, <3>2
    <2>6. Msg("disc", 0) \in MsgC /\ Msg("disc", 0).type = "disc" BY LocalIs, <1>Replies, Numbers, Zenon
    <2> QED BY <2>1, <2>3, <2>5, <2>6, <1>ServerQuiet, Zenon DEF Undisturbed
  \* A TUNNEL_REQUEST that the server does not know what to do with.
  <1>RequestSMiss.
      ASSUME Local, ConnState_tunnel_request,
             ~(Known(Head(toS).ch) /\ (Head(toS).seqno = conn[Head(toS).ch].rno \/ Inc(Head(toS).seqno) = conn[Head(toS).ch].rno))
      PROVE  Local' /\ Quiet
    <2> USE <1>RequestSMiss
    <2>1. RecvS("req") /\ conn' = conn /\ gotS' = gotS /\ toC' = toC /\ UNCHANGED <<client, sentS>>
      BY Zenon DEF ConnState_tunnel_request
    <2>2. toS # <<>> /\ toS' \in Rest(toS) BY <2>1, RecvSFacts, Zenon
    <2>3. Msg("disc", 0) \in MsgC /\ Msg("disc", 0).type = "disc" BY LocalIs, <1>Replies, Numbers, Zenon
    <2> QED BY <2>1, <2>2, <2>3, <1>ServerIdle, Zenon
  \* An ACK that the server did not wait for.
  <1>ResponseSMiss.
      ASSUME Local, ConnState_tunnel_response,
             ~(/\ Known(Head(toS).ch) /\ Head(toS).seqno = conn[Head(toS).ch].sno /\ Head(toS).ok
               /\ conn[Head(toS).ch].retries # 0)
      PROVE  Local' /\ Quiet
    <2> USE <1>ResponseSMiss
    <2>1. RecvS("ack") /\ conn' = conn /\ UNCHANGED <<client, toC, sentS, gotS>>
      BY Zenon DEF ConnState_tunnel_response
    <2>2. toS # <<>> /\ toS' \in Rest(toS) BY <2>1, RecvSFacts, Zenon
    <2>3. Msg("disc", 0) \in MsgC /\ Msg("disc", 0).type = "disc" BY LocalIs, <1>Replies, Numbers, Zenon
    <2> QED BY <2>1, <2>2, <2>3, <1>ServerIdle, Zenon
  \* A step that changes one connection, and that one quietly.
  <1>OneUndisturbed.
      ASSUME Local, NEW ch \in Channels, NEW t \in ConnStates, conn' = [conn EXCEPT ![ch] = t],
             sentS' \in {sentS, sentS + 1}, Undisturbed(ch)
      PROVE  conn' \in [Channels -> ConnStates \cup {NoConn}] /\ \A c \in Channels : Undisturbed(c)
    <2> USE <1>OneUndisturbed
    <2>1. /\ conn' \in [Channels -> ConnStates \cup {NoConn}] /\ \A c \in Channels : c # ch => conn'[c] = conn[c]
      BY OneConn, Zenon
    <2>2. ASSUME NEW c \in Channels, c # ch PROVE Undisturbed(c) BY <2>1, <2>2, <1>ConnStays, Zenon
    <2> QED BY <2>1, <2>2, Zenon
  \* ConnState::send_L_Data: a packet joins the queue.
  <1>SendDataQuiet.
      ASSUME Local, NEW ch \in Channels, ConnState_send_L_Data(ch)
      PROVE  Local' /\ Quiet
    <2> USE <1>SendDataQuiet
    <2> DEFINE s == conn[ch]
               x == Ind(sentS')
               q == Queued(s, x)
               yes == TRUE
               t == [q EXCEPT !.do_send_next = yes]
               B == BOOLEAN
               S == Seq(Cemi)
               T == {TRUE}
    <2>1. /\ s.open /\ ~s.stopped /\ sentS' = sentS + 1 /\ conn' = [conn EXCEPT ![ch] = t]
          /\ UNCHANGED <<client, toS, toC, gotS>>
      BY Zenon DEF ConnState_send_L_Data
    <2>2. s \in ConnStates /\ ConnOK(s) BY <2>1, ConnTypes, Zenon
    <2>3. sentS' \in Nat BY <2>1, LocalIs, SMT
    <2>4. x \in Cemi /\ x.kind = "ind" /\ x.p = sentS' BY <2>3, SMT DEF Ind, Cemi
    <2> HIDE DEF x
    <2>5. /\ q \in ConnStates /\ q.port = s.port /\ q.rno = s.rno /\ q.sno = s.sno /\ q.stopped = s.stopped
          /\ q.retries = s.retries /\ q.out = Append(s.out, x) /\ q.trigger = (s.trigger \/ (s.retries = 0 /\ ~s.stopped))
          /\ q.sendtimeout = s.sendtimeout /\ q.out # <<>>
      BY <2>2, <2>4, QueuedFacts, Zenon
    <2>6. q \in Conns(T, B, S) BY <2>5, ConnSets, Zenon
    <2>7. yes \in B OBVIOUS
    <2> HIDE DEF q, T, B, S, yes
    <2>8. /\ t \in Conns(T, B, S) /\ t.port = q.port /\ t.rno = q.rno /\ t.sno = q.sno /\ t.stopped = q.stopped
          /\ t.retries = q.retries /\ t.out = q.out /\ t.trigger = q.trigger /\ t.sendtimeout = q.sendtimeout
      BY <2>6, <2>7, SMT DEF Conns
    <2>9. t \in ConnStates BY <2>8, ConnSets, Zenon DEF T, B, S
    <2> HIDE DEF t
    <2>10. conn'[ch] = t BY <2>1, <2>9, OneConn, Zenon
    <2>11. s.retries # 0 => s.out # <<>> BY <2>2, Zenon DEF ConnOK
    <2>12. ConnOK(t) BY <2>1, <2>2, <2>5, <2>8, Zenon DEF ConnOK
    <2>13. conn'[ch].out = Append(conn[ch].out, x) BY <2>5, <2>8, <2>10, Zenon
    <2>14. x.kind = "ind" => x.p = sentS + 1 /\ sentS' = sentS + 1 BY <2>1, <2>4, Zenon
    <2>15. sentS' \in {sentS, sentS + 1} BY <2>1, Zenon
    <2>16. ASSUME DownInv PROVE Carried(conn[ch], conn'[ch]) /\ InTurn(conn[ch].out)'
      <3>1. /\ InTurn(conn[ch].out)'
            /\ conn[ch].out # <<>> => Head(conn'[ch].out) = Head(conn[ch].out)
            /\ \A i \in DOMAIN conn'[ch].out : \/ i \in DOMAIN conn[ch].out /\ conn'[ch].out[i] = conn[ch].out[i]
                                               \/ conn'[ch].out[i].kind # "ind"
                                               \/ \A j \in DOMAIN gotC : gotC[j] < conn'[ch].out[i].p
        BY <2>1, <2>4, <2>13, <2>14, <2>15, <2>16, QueueUp, Zenon
      <3>2. conn'[ch].sno = conn[ch].sno /\ conn'[ch].retries = conn[ch].retries BY <2>5, <2>8, <2>10, Zenon
      <3> QED BY <2>1, <2>11, <3>1, <3>2, Zenon DEF Carried
    <2>17. Undisturbed(ch) BY <2>1, <2>5, <2>8, <2>10, <2>12, <2>16, Zenon DEF Undisturbed
    <2>18. conn' \in [Channels -> ConnStates \cup {NoConn}] /\ \A c \in Channels : Undisturbed(c)
      BY <2>1, <2>9, <2>15, <2>17, <1>OneUndisturbed, Zenon
    <2>19. Msg("disc", 0) \in MsgC /\ Msg("disc", 0).type = "disc" BY LocalIs, <1>Replies, Numbers, Zenon
    <2> QED BY <2>1, <2>15, <2>18, <2>19, <1>ServerQuiet, Zenon DEF Undisturbed
  \* send_trigger_cb with nothing to send.
  <1>SendNothingQuiet.
      ASSUME Local, NEW ch \in Channels, send_trigger_cb(ch), conn[ch].out = <<>>
      PROVE  Local' /\ Quiet
    <2> USE <1>SendNothingQuiet
    <2> DEFINE s == conn[ch]
               B == BOOLEAN
               S == Seq(Cemi)
               T == {TRUE}
               no == FALSE
               e == [s EXCEPT !.trigger = no]
    <2>0. /\ s.open /\ conn' = [conn EXCEPT ![ch] = e] /\ UNCHANGED <<client, toC, toS, sentS, gotS>>
      BY Zenon DEF send_trigger_cb
    <2>1. s \in Conns(T, B, S) BY <2>0, ConnTypes, ConnSets, Zenon
    <2>2. no \in B OBVIOUS
    <2>a. ~no OBVIOUS
    <2>b. e = [s EXCEPT !.trigger = no] OBVIOUS
    <2> HIDE DEF T, B, S, no, e
    <2>3. /\ e.trigger = no
          /\ e.open = s.open /\ e.port = s.port /\ e.stopped = s.stopped /\ e.sno = s.sno /\ e.rno = s.rno
          /\ e.retries = s.retries /\ e.out = s.out /\ e.sendtimeout = s.sendtimeout
          /\ e.do_send_next = s.do_send_next
          /\ DOMAIN e = DOMAIN s
      BY <2>1, <2>b, SMT DEF Conns
    <2>4. e = [y \in DOMAIN e |-> e[y]] BY <2>b, Zenon
    <2>5. /\ s.open \in T /\ s.port \in Nat /\ s.stopped \in B /\ s.sno \in Seqno /\ s.rno \in Seqno
          /\ s.retries \in 0..3 /\ s.out \in S /\ s.trigger \in B /\ s.sendtimeout \in B /\ s.do_send_next \in B
      BY <2>1, ConnFields, Zenon
    <2>6. e.open \in T /\ e.port \in Nat /\ e.stopped \in B /\ e.sno \in Seqno /\ e.rno \in Seqno
      BY <2>3, <2>5, <2>2, Zenon
    <2>7. e.retries \in 0..3 /\ e.out \in S /\ e.trigger \in B /\ e.sendtimeout \in B /\ e.do_send_next \in B
      BY <2>3, <2>5, <2>2, Zenon
    <2>8. e \in Conns(T, B, S) BY <2>1, <2>3, <2>4, <2>6, <2>7, ConnIs, Zenon
    <2>9. e \in ConnStates BY <2>8, ConnSets, Zenon DEF T, B, S
    <2>10. conn'[ch] = e BY <2>0, <2>9, OneConn, Zenon
    <2>11. conn[ch].out = s.out /\ ConnOK(s) BY <2>0, ConnTypes, Zenon
    <2>12. ConnOK(e) BY <2>3, <2>11, <2>a, Numbers, Zenon DEF ConnOK
    <2>13. DownInv => InTurn(conn[ch].out)' BY <2>0, <2>3, <2>10, SameOut, Zenon
    <2>14. Undisturbed(ch) BY <2>0, <2>3, <2>10, <2>12, <2>13, Zenon DEF Undisturbed, Carried
    <2>15. conn' \in [Channels -> ConnStates \cup {NoConn}] /\ \A c \in Channels : Undisturbed(c)
      BY <2>0, <2>9, <2>14, <1>OneUndisturbed, Zenon
    <2>16. Msg("disc", 0) \in MsgC /\ Msg("disc", 0).type = "disc" BY LocalIs, <1>Replies, Numbers, Zenon
    <2> QED BY <2>0, <2>15, <2>16, <1>ServerQuiet, Zenon DEF Undisturbed
  \* sendtimeout_cb for one connection.
  <1>TimeoutFacts.
      ASSUME NEW s \in ConnStates, ~s.stopped, s.retries \in {1, 3}, s.out # <<>>, ConnOK(s)
      PROVE  LET u == [s EXCEPT !.retries = @ + 1, !.sendtimeout = FALSE]
                 v == IF u.retries <= 2 THEN [u EXCEPT !.trigger = TRUE] ELSE Stop([u EXCEPT !.out = Tail(@)])
             IN /\ v \in ConnStates /\ ConnOK(v) /\ v.port = s.port /\ v.rno = s.rno /\ v.sno = s.sno
                /\ ((v.out = s.out /\ v.retries # 0) \/ (v.out = Tail(s.out) /\ v.stopped = TRUE))
    <2> USE <1>TimeoutFacts
    <2> DEFINE B == BOOLEAN
               S == Seq(Cemi)
               T == {TRUE}
               u == [s EXCEPT !.retries = @ + 1, !.sendtimeout = FALSE]
               e == IF u.retries <= 2 THEN [u EXCEPT !.trigger = TRUE] ELSE Stop([u EXCEPT !.out = Tail(@)])
               w == Tail(s.out)
    <2> SUFFICES /\ e \in ConnStates /\ ConnOK(e) /\ e.port = s.port /\ e.rno = s.rno /\ e.sno = s.sno
                 /\ ((e.out = s.out /\ e.retries # 0) \/ (e.out = w /\ e.stopped = TRUE))
      OBVIOUS
    <2>1. s \in Conns(T, B, S) BY ConnSets, Zenon
    <2>2. TRUE \in B /\ FALSE \in B /\ 0 \in 0..3 /\ 2 \in 0..3 /\ 2 # 0 /\ 2 \notin {1, 3} BY SMT
    <2>3. w \in S
      <3>1. s.out \in Seq(Cemi) BY <2>1, ConnFields, Zenon
      <3> QED BY <3>1, TailFacts, Zenon
    <2> HIDE DEF T, B, S
    <2>4. u.retries = s.retries + 1 BY <2>1, SMT DEF Conns
    <2>5. CASE s.retries = 1
      <3>1. e = [u EXCEPT !.trigger = TRUE] BY <2>4, <2>5, SMT
      <3> HIDE DEF e
      <3>2. /\ e.retries = 2 /\ e.trigger = TRUE /\ e.sendtimeout = FALSE
            /\ e.open = s.open /\ e.port = s.port /\ e.stopped = s.stopped /\ e.sno = s.sno /\ e.rno = s.rno
            /\ e.out = s.out /\ e.do_send_next = s.do_send_next
            /\ DOMAIN e = DOMAIN s
        BY <2>1, <2>5, <3>1, SMT DEF Conns
      <3>3. e = [y \in DOMAIN e |-> e[y]] BY <2>5, <3>1, Zenon
      <3>4. /\ s.open \in T /\ s.port \in Nat /\ s.stopped \in B /\ s.sno \in Seqno /\ s.rno \in Seqno
            /\ s.retries \in 0..3 /\ s.out \in S /\ s.trigger \in B /\ s.sendtimeout \in B /\ s.do_send_next \in B
        BY <2>1, ConnFields, Zenon
      <3>5. e.open \in T /\ e.port \in Nat /\ e.stopped \in B /\ e.sno \in Seqno /\ e.rno \in Seqno
        BY <3>2, <3>4, <2>2, Zenon
      <3>6. e.retries \in 0..3 /\ e.out \in S /\ e.trigger \in B /\ e.sendtimeout \in B /\ e.do_send_next \in B
        BY <3>2, <3>4, <2>2, Zenon
      <3>7. e \in Conns(T, B, S) BY <2>1, <3>2, <3>3, <3>5, <3>6, ConnIs, Zenon
      <3>8. e \in ConnStates BY <3>7, ConnSets, Zenon DEF T, B, S
      <3>9. ConnOK(e) BY <2>2, <3>2, Zenon DEF ConnOK
      <3>10. e.retries # 0 BY <2>2, <3>2, Zenon
      <3>11. e.port = s.port /\ e.rno = s.rno /\ e.sno = s.sno /\ e.out = s.out BY <3>2
      <3> QED BY <3>8, <3>9, <3>10, <3>11, Zenon
    <2>6. CASE s.retries = 3
      <3>1. e = Stop([u EXCEPT !.out = w]) BY <2>4, <2>6, SMT
      <3>a. e = [[u EXCEPT !.out = w] EXCEPT !.stopped = TRUE, !.trigger = FALSE, !.sendtimeout = FALSE, !.retries = 0]
        BY <3>1, Zenon DEF Stop
      <3> HIDE DEF e, w
      <3>2. /\ e.stopped = TRUE /\ e.retries = 0 /\ e.out = w /\ e.trigger = FALSE
            /\ e.sendtimeout = FALSE
            /\ e.open = s.open /\ e.port = s.port /\ e.sno = s.sno /\ e.rno = s.rno
            /\ e.do_send_next = s.do_send_next
            /\ DOMAIN e = DOMAIN s
        BY <2>1, <3>a, SMT DEF Conns
      <3>3. e = [y \in DOMAIN e |-> e[y]] BY <3>a, Zenon
      <3>4. /\ s.open \in T /\ s.port \in Nat /\ s.stopped \in B /\ s.sno \in Seqno /\ s.rno \in Seqno
            /\ s.retries \in 0..3 /\ s.out \in S /\ s.trigger \in B /\ s.sendtimeout \in B /\ s.do_send_next \in B
        BY <2>1, ConnFields, Zenon
      <3>5. e.open \in T /\ e.port \in Nat /\ e.stopped \in B /\ e.sno \in Seqno /\ e.rno \in Seqno
        BY <3>2, <3>4, <2>2, <2>3, Zenon
      <3>6. e.retries \in 0..3 /\ e.out \in S /\ e.trigger \in B /\ e.sendtimeout \in B /\ e.do_send_next \in B
        BY <3>2, <3>4, <2>2, <2>3, Zenon
      <3>7. e \in Conns(T, B, S) BY <2>1, <3>2, <3>3, <3>5, <3>6, ConnIs, Zenon
      <3>8. e \in ConnStates BY <3>7, ConnSets, Zenon DEF T, B, S
      <3>9. ConnOK(e) BY <3>2, Zenon DEF ConnOK
      <3> QED BY <3>2, <3>8, <3>9, Zenon
    <2> QED BY <2>5, <2>6, Zenon
  \* The second timeout of a packet stops the connection, the first repeats the packet.
  <1>SendtimeoutQuiet.
      ASSUME Local, NEW ch \in Channels, sendtimeout_cb(ch)
      PROVE  Local' /\ Quiet
    <2> USE <1>SendtimeoutQuiet
    <2> DEFINE s == conn[ch]
               u == [s EXCEPT !.retries = @ + 1, !.sendtimeout = FALSE]
               v == IF u.retries <= 2 THEN [u EXCEPT !.trigger = TRUE] ELSE Stop([u EXCEPT !.out = Tail(@)])
    <2>1. /\ s.open /\ s.sendtimeout /\ conn' = [conn EXCEPT ![ch] = v] /\ UNCHANGED <<client, toC, toS, sentS, gotS>>
      BY Zenon DEF sendtimeout_cb
    <2>2. s \in ConnStates /\ ConnOK(s) /\ s.out \in Seq(Cemi) BY <2>1, ConnTypes, Zenon
    <2>3. ~s.stopped /\ s.retries \in {1, 3} /\ s.out # <<>>
      <3>1. ~s.stopped /\ s.retries \in {1, 3} BY <2>1, <2>2, Zenon DEF ConnOK
      <3>2. s.retries # 0 BY <3>1, SMT
      <3> QED BY <2>2, <3>1, <3>2, Zenon DEF ConnOK
    <2>4. v \in ConnStates /\ ConnOK(v) /\ v.port = s.port /\ v.rno = s.rno /\ v.sno = s.sno
          /\ ((v.out = s.out /\ v.retries # 0) \/ (v.out = Tail(s.out) /\ v.stopped = TRUE))
      BY <2>2, <2>3, <1>TimeoutFacts, Zenon
    <2> HIDE DEF v
    <2>5. conn'[ch] = v BY <2>1, <2>4, OneConn, Zenon
    <2>6. ASSUME DownInv PROVE InTurn(conn[ch].out)'
      <3>1. CASE v.out = s.out BY <2>1, <2>5, <2>6, <3>1, SameOut, Zenon
      <3>2. CASE v.out = Tail(s.out)
        <4>1. InTurn(s.out) BY <2>1, <2>6, Zenon DEF DownInv
        <4>2. InTurn(Tail(s.out)) BY <2>2, <2>3, <4>1, TailInTurn, Zenon
        <4> QED BY <2>1, <2>5, <3>2, <4>2, ZenonT(20) DEF InTurn
      <3> QED BY <2>4, <3>1, <3>2, Zenon
    <2>7. Carried(s, v)
      <3>1. CASE v.out = s.out /\ v.retries # 0 BY <2>3, <2>4, <3>1, Zenon DEF Carried
      <3>2. CASE v.stopped = TRUE BY <2>4, <3>2, Zenon DEF Carried
      <3> QED BY <2>4, <3>1, <3>2, Zenon
    <2>8. Undisturbed(ch) BY <2>1, <2>4, <2>5, <2>6, <2>7, Zenon DEF Undisturbed
    <2>9. conn' \in [Channels -> ConnStates \cup {NoConn}] /\ \A c \in Channels : Undisturbed(c)
      BY <2>1, <2>4, <2>8, <1>OneUndisturbed, Zenon
    <2>10. Msg("disc", 0) \in MsgC /\ Msg("disc", 0).type = "disc" BY LocalIs, <1>Replies, Numbers, Zenon
    <2> QED BY <2>1, <2>9, <2>10, <1>ServerQuiet, Zenon DEF Undisturbed
  <1>1. CASE start \/ stop \/ send_L_Data \/ trigger_cb \/ timeout_cb \/ conntimeout_cb
    BY <1>1, <1>StopQuiet, <1>TriggerQuiet, <1>TimeoutQuiet, <1>ConntimeoutQuiet, Zenon DEF Special
  <1>2. CASE read_cb
    <2>1. CASE connection_response BY <2>1, <1>ConnectionMiss, Zenon DEF Special
    <2>2. CASE tunnel_request BY <2>2, <1>RequestMiss, Zenon DEF Special
    <2>3. CASE tunnel_response BY <2>3, <1>ResponseMiss, Zenon DEF Special
    <2>4. CASE connectionstate_response BY <2>4, <1>StateQuiet, Zenon
    <2>5. CASE disconnect_request \/ disconnect_response BY <2>5, <1>DisconnectQuiet, Zenon
    <2> QED BY <1>2, <2>1, <2>2, <2>3, <2>4, <2>5, Zenon DEF read_cb
  <1>3. CASE handle_packet
    <2>1. CASE connection_request BY <2>1, Zenon DEF Special
    <2>2. CASE connectionstate_request BY <2>2, <1>StateRequestQuiet, Zenon
    <2>3. CASE serve_disconnect BY <2>3, <1>ServeDisconnectQuiet, Zenon
    <2>4. CASE ConnState_tunnel_request BY <2>4, <1>RequestSMiss, Zenon DEF Special
    <2>5. CASE ConnState_tunnel_response BY <2>5, <1>ResponseSMiss, Zenon DEF Special
    <2>6. CASE ignore_packet BY <2>6, <1>IgnoreQuiet, Zenon
    <2> QED BY <1>3, <2>1, <2>2, <2>3, <2>4, <2>5, <2>6, Zenon DEF handle_packet
  <1>4. ASSUME NEW ch \in Channels, ConnState_send_L_Data(ch) \/ ServerTimers(ch) \/ ConnState_timeout_cb(ch)
        PROVE  (Local' /\ Quiet) \/ Special
    <2>1. CASE ConnState_send_L_Data(ch) BY <2>1, <1>SendDataQuiet, Zenon
    <2>2. CASE send_trigger_cb(ch) BY <2>2, <1>SendNothingQuiet, Zenon DEF Special
    <2>3. CASE sendtimeout_cb(ch) BY <2>3, <1>SendtimeoutQuiet, Zenon
    <2>4. CASE ConnState_timeout_cb(ch) BY <2>4, <1>ConnTimeoutQuiet, Zenon
    <2> QED BY <1>4, <2>1, <2>2, <2>3, <2>4, Zenon DEF ServerTimers
  <1>5. CASE drop_trigger_cb BY <1>5, <1>DropQuiet, Zenon
  <1>6. CASE Lose BY <1>6, <1>LoseQuiet, Zenon
  <1> QED BY <1>1, <1>2, <1>3, <1>4, <1>5, <1>6, Zenon DEF Next

-----------------------------------------------------------------------------
\* One message joins a queue.
LEMMA PutOne ==
  ASSUME NEW old, NEW new, NEW x, Moves(old, new, {x})
  PROVE  /\ \A m \in In(new) : m \in In(old) \/ m = x
         /\ \A a, b : Behind(new, a, b) => Behind(old, a, b) \/ (a \in In(old) /\ b = x)
  BY SMT DEF Moves

\* The steps that count.  A new socket: nothing of the old connection reaches it.
LEMMA StartStep ==
  ASSUME TInv, start
  PROVE  TInv'
  <1>1. /\ Local' /\ starts' = starts + 1 /\ UNCHANGED <<server, toC, sentC, gotC, ackedC>> /\ cl.link = "off"
        /\ cl'.link = "starting" /\ cl'.out = 0 /\ cl'.owed = FALSE
        /\ cl'.mod = cl.mod /\ cl'.channel = cl.channel /\ cl'.sno = cl.sno
    BY StartLocal, Zenon DEF TInv
  <1>2. PICK x : Moves(toS, toS', {x}) /\ x.type = "conn" /\ x.port = starts' BY StartLocal, Zenon DEF TInv
  <1>a. /\ \A m \in In(toS') : m \in In(toS) \/ m = x
        /\ \A a, b : Behind(toS', a, b) => Behind(toS, a, b) \/ (a \in In(toS) /\ b = x)
    BY <1>2, PutOne, Zenon
  <1>3. Local /\ SessionInv /\ DownInv /\ UpInv BY DEF TInv
  <1>4. UNCHANGED <<conn, sentS, gotS>> BY <1>1, Zenon DEF server
  <1>5. cl.mod = 0 /\ ~Open /\ Open' /\ Unconnected' BY <1>1, <1>3, Zenon DEF Local, ClientOK, Open, Unconnected
  <1>6. In(toC) = {} BY <1>3, <1>5, Zenon DEF SessionInv
  <1>7. In(toC') = {} BY <1>1, <1>6, Zenon
  <1>8. \A a, b : ~Behind(toC', a, b) BY <1>7, Zenon DEF Behind, In
  <1>9. starts \in Nat /\ starts' \in Nat /\ \A m \in In(toS) : m.type = "conn" => m.port \in Nat
    <2>1. \A m \in In(toS) : m.type = "conn" => m.port \in Nat BY <1>3, ReqTypes, MsgTypes, Zenon
    <2> QED BY <1>1, <1>3, <2>1, LocalIs, SMT
  <1>10. \A c \in Channels : conn[c].open => conn[c].port <= starts /\ conn[c].port \in Nat
    BY <1>3, ConnTypes, Zenon DEF SessionInv
  <1>11. \A c \in Channels : conn[c].open => conn[c].port < starts' /\ conn[c].port <= starts'
    BY <1>1, <1>9, <1>10, SMT
  <1>12. \A m \in In(toS) : m.type = "conn" => m.port <= starts' /\ m.port # starts' /\ m.port < starts'
    <2>1. \A m \in In(toS) : m.type = "conn" => m.port <= starts BY <1>3, Zenon DEF SessionInv
    <2> QED BY <1>1, <1>9, <2>1, SMT
  <1>13. starts' <= starts' BY <1>9, SMT
  <1>14. SessionInv'
    <2>1. ASSUME NEW m \in In(toS'), m.type = "conn"
          PROVE  (/\ m.port <= starts /\ cl.mod = 0
                  /\ \A ch \in Channels : conn[ch].open => conn[ch].port < m.port
                  /\ m.port = starts /\ Open =>
                       Unconnected /\ \A y \in In(toC) : y.type \notin {"req", "ack", "connresp"})'
      <3>1. CASE m \in In(toS) BY <1>1, <1>3, <1>4, <1>5, <1>12, <2>1, <3>1, Zenon DEF SessionInv
      <3>2. CASE m = x BY <1>1, <1>2, <1>4, <1>5, <1>7, <1>11, <1>13, <3>2, Zenon
      <3> QED BY <1>a, <3>1, <3>2, Zenon
    <2>2. (\A a, b : Behind(toS, a, b) /\ a.type = "conn" =>
             b.type \notin {"req", "ack"} /\ (b.type = "conn" => a.port < b.port))'
      <3> SUFFICES ASSUME NEW a, NEW b, Behind(toS', a, b), a.type = "conn"
                   PROVE  b.type \notin {"req", "ack"} /\ (b.type = "conn" => a.port < b.port)
        OBVIOUS
      <3>1. CASE Behind(toS, a, b) BY <1>3, <3>1, Zenon DEF SessionInv
      <3>2. CASE a \in In(toS) /\ b = x BY <1>2, <1>12, <3>2, Zenon
      <3> QED BY <1>a, <3>1, <3>2
    <2>3. \A m \in In(toS') : m.type \in {"req", "ack"} => m.ch = cl'.channel /\ cl'.channel \in Channels
      BY <1>1, <1>2, <1>3, Zenon DEF SessionInv, Moves
    <2> QED BY <1>1, <1>4, <1>5, <1>7, <1>8, <1>11, <2>1, <2>2, <2>3, Zenon DEF SessionInv
  <1>15. DownInv' BY <1>1, <1>3, <1>4, <1>5, <1>7, Zenon DEF DownInv, Increasing, InTurn
  <1>16. UpInv'
    <2>1. \A m \in In(toS') : m.type = "req" => m \in In(toS) BY <1>2, Zenon DEF Moves
    <2>2. \A a, b : Behind(toS', a, b) /\ b.type = "req" => Behind(toS, a, b) BY <1>2, <1>a
    <2>3. /\ Asking' => Asking
          /\ \A s : AskingFor(s)' => AskingFor(s)
          /\ \A s : OnlyAsking(s) => OnlyAsking(s)'
      BY <2>1, Zenon DEF Asking, AskingFor, OnlyAsking
    <2>4. \A p : Got(p)' <=> Got(p) BY <1>4, Zenon DEF Got
    <2>5. Due' BY <1>1, Zenon DEF Due
    <2>6. (\A i \in DOMAIN gotS : gotS[i] <= sentC)' /\ Increasing(gotS)' /\ (\A p \in ackedC : Got(p))'
      BY <1>1, <1>3, <1>4, <2>4, Zenon DEF UpInv, Increasing
    <2>7. (\A m \in In(toS) : m.type = "req" =>
             Inc(m.seqno) = cl.sno \/ (m.seqno = cl.sno /\ m.cemi = sentC /\ Due))'
      BY <1>1, <1>3, <2>1, <2>5, Zenon DEF UpInv
    <2>8. (\A a, b : Behind(toS, a, b) /\ a.type = "req" /\ b.type = "req" /\ a.seqno = cl.sno => b.seqno = cl.sno)'
      BY <1>1, <1>3, <2>2, Zenon DEF UpInv
    <2>9. ((cl.mod # 0 \/ Asking) /\ conn[cl.channel].open =>
             \/ conn[cl.channel].rno = cl.sno /\ (cl.owed \/ AskingFor(cl.sno) => ~Got(sentC))
             \/ conn[cl.channel].rno = Inc(cl.sno) /\ Got(sentC) /\ Due /\ OnlyAsking(cl.sno))'
      BY <1>1, <1>3, <1>4, <1>5, <2>3, <2>4, <2>5, Zenon DEF UpInv
    <2> QED BY <1>1, <1>5, <2>6, <2>7, <2>8, <2>9, Zenon DEF UpInv
  <1> QED BY <1>1, <1>14, <1>15, <1>16 DEF TInv

\* A step of the client in a connection that it keeps does not move the server's packets,
\* unless it acknowledges one.
LEMMA DownAsBefore ==
  ASSUME DownInv, SessionInv, NEW MS, Moves(toS, toS', MS), \A m \in MS : m.type # "ack", Moves(toC, toC', {}),
         UNCHANGED <<conn, sentS, gotC>>, cl'.channel = cl.channel, cl'.rno = cl.rno, cl'.mod # 0 => cl.mod # 0
  PROVE  DownInv'
  <1>1. cl'.mod # 0 => Down(cl.channel, cl.rno) BY Zenon DEF DownInv
  <1> DEFINE none == {}
  <1>2. Moves(toC, toC', none) /\ \A m : m \notin none OBVIOUS
  <1> HIDE DEF none
  <1>3. cl'.mod # 0 => Down(cl.channel, cl.rno)'
    <2>1. conn'[cl.channel].open => conn[cl.channel].open /\ Carried(conn[cl.channel], conn'[cl.channel])
      BY Zenon DEF Carried
    <2>2. \A ch, q : Down(ch, q) /\ ch = cl.channel => Down(ch, q)'
      <3> SUFFICES ASSUME NEW ch, NEW q, Down(ch, q), ch = cl.channel PROVE Down(ch, q)' OBVIOUS
      <3>1. conn'[ch].open => conn[ch].open /\ Carried(conn[ch], conn'[ch]) BY <2>1, Zenon
      <3>2. UNCHANGED gotC BY Zenon
      <3> QED BY <1>2, <3>1, <3>2, DownKept, Zenon
    <2>3. PICK ch, q : ch = cl.channel /\ q = cl.rno BY Zenon
    <2>4. cl'.mod # 0 => Down(ch, q)' BY <1>1, <2>2, <2>3, Zenon
    <2> QED BY <2>3, <2>4, Zenon
  <1>4. \A m \in In(toC') : m \in In(toC) BY Zenon DEF Moves
  <1> QED BY <1>3, <1>4, Zenon DEF DownInv, Increasing, InTurn

\* EIBNetIPTunnel::send_L_Data.
LEMMA SendLocal ==
  ASSUME Local, send_L_Data
  PROVE  /\ Local' /\ cl.link = "on" /\ ~cl.owed /\ sentC' = sentC + 1 /\ UNCHANGED <<server, toS, toC, gotC, ackedC, starts>>
         /\ cl'.out = sentC' /\ cl'.trigger = TRUE /\ cl'.owed = TRUE
         /\ cl'.link = cl.link /\ cl'.mod = cl.mod /\ cl'.channel = cl.channel /\ cl'.sno = cl.sno
         /\ cl'.rno = cl.rno /\ cl'.retry = cl.retry /\ cl'.timeout = cl.timeout
         /\ cl'.conntimeout = cl.conntimeout /\ cl'.heartbeat = cl.heartbeat /\ cl'.bound = cl.bound
  <1>1. /\ cl.link = "on" /\ ~cl.owed /\ sentC' = sentC + 1 /\ UNCHANGED <<server, toS, toC, gotC, ackedC, starts>>
        /\ cl' = [cl EXCEPT !.out = sentC', !.owed = TRUE, !.trigger = TRUE]
    BY Zenon DEF send_L_Data
  <1>a. sentC' \in Nat BY <1>1, LocalIs, SMT
  <1>b. ClientOK /\ (cl.mod = 2 => cl.out # 0 /\ cl.owed) /\ sentC' # 0 BY <1>1, LocalIs, SMT DEF Local, ClientOK
  <1>2. /\ cl'.out = sentC' /\ cl'.trigger = TRUE /\ cl'.owed = TRUE
        /\ cl'.link = cl.link /\ cl'.mod = cl.mod /\ cl'.channel = cl.channel /\ cl'.sno = cl.sno
        /\ cl'.rno = cl.rno /\ cl'.retry = cl.retry /\ cl'.timeout = cl.timeout
        /\ cl'.conntimeout = cl.conntimeout /\ cl'.heartbeat = cl.heartbeat /\ cl'.bound = cl.bound
    BY <1>1, LocalIs, SMT DEF Client
  <1>3. DOMAIN cl' = DOMAIN cl BY <1>1, LocalIs, SMT DEF Client
  <1>4. cl' = [x \in DOMAIN cl' |-> cl'[x]] BY <1>1, Zenon
  <1>5. cl' \in Client BY <1>2, <1>3, <1>4, LocalIs, ClientIs, <1>a, Numbers, ZenonT(20)
  <1>6. ClientOK' BY <1>1, <1>2, <1>a, <1>b, Zenon DEF ClientOK, Open
  <1>7. Local' BY <1>1, <1>5, <1>6, <1>a, Zenon DEF Local, Typed, TypeOK, server
  <1> QED BY <1>1, <1>2, <1>7, Zenon

\* A new packet: nothing under way, in either direction, is taken for it.
LEMMA SendStep ==
  ASSUME TInv, send_L_Data
  PROVE  TInv'
  <1>1. Local /\ SessionInv /\ DownInv /\ UpInv BY DEF TInv
  <1>2. /\ Local' /\ cl.link = "on" /\ ~cl.owed /\ sentC' = sentC + 1
        /\ UNCHANGED <<conn, sentS, gotS, toS, toC, gotC, ackedC, starts>>
        /\ cl'.owed = TRUE /\ cl'.link = cl.link /\ cl'.mod = cl.mod /\ cl'.channel = cl.channel
        /\ cl'.sno = cl.sno /\ cl'.rno = cl.rno
    BY <1>1, SendLocal, Zenon DEF server
  <1>3. Moves(toS, toS', {}) /\ Moves(toC, toC', {}) BY <1>2, StayMoves, Zenon
  <1>4. ~Unconnected /\ Open /\ Open' /\ ~Due /\ Due' BY <1>2, Zenon DEF Unconnected, Open, Due
  <1>5. DownInv'
    <2> DEFINE none == {}
    <2>1. Moves(toS, toS', none) /\ \A m : m \notin none BY <1>3
    <2> HIDE DEF none
    <2> QED BY <1>1, <1>2, <1>3, <2>1, DownAsBefore, Zenon
  <1>6. SessionInv'
    <2>1. In(toS') = In(toS) /\ In(toC') = In(toC) /\ \A c : Own(c)' <=> Own(c) BY <1>2, Zenon DEF Own
    <2>2. \A m \in In(toC) : m.type # "connresp" BY <1>1, <1>4, Zenon DEF SessionInv
    <2> QED BY <1>1, <1>2, <1>4, <2>1, <2>2, Zenon DEF SessionInv
  <1>7. UpInv'
    <2>1. sentC \in Nat /\ gotS \in Seq(Nat) /\ \A i \in DOMAIN gotS : gotS[i] <= sentC BY <1>1, LocalIs, Zenon DEF UpInv
    <2>2. \A i \in DOMAIN gotS : gotS[i] <= sentC' /\ gotS[i] # sentC' BY <1>2, <2>1, SMT
    <2>3. ~Got(sentC') BY <2>2, Zenon DEF Got
    <2>4. (\A p : Got(p)' <=> Got(p)) /\ (\A s : AskingFor(s)' <=> AskingFor(s)) /\ (Asking' <=> Asking)
      BY <1>2, Zenon DEF Got, AskingFor, Asking
    <2>5. \A m \in In(toS) : m.type = "req" => Inc(m.seqno) = cl.sno BY <1>1, <1>4, Zenon DEF UpInv
    <2>6. (cl.mod # 0 \/ Asking) /\ conn[cl.channel].open => conn[cl.channel].rno = cl.sno
      BY <1>1, <1>4, Zenon DEF UpInv
    <2>7. cl.mod # 0 => \A m \in In(toC) : m.type = "ack" => Inc(m.seqno) = cl.sno BY <1>1, <1>2, Zenon DEF UpInv
    <2>8. (\A i \in DOMAIN gotS : gotS[i] <= sentC)' /\ Increasing(gotS)' /\ (\A p \in ackedC : Got(p))'
      BY <1>1, <1>2, <2>2, <2>4, Zenon DEF UpInv, Increasing
    <2>9. (\A m \in In(toS) : m.type = "req" =>
             Inc(m.seqno) = cl.sno \/ (m.seqno = cl.sno /\ m.cemi = sentC /\ Due))'
      BY <1>2, <2>5, Zenon
    <2>10. (\A a, b : Behind(toS, a, b) /\ a.type = "req" /\ b.type = "req" /\ a.seqno = cl.sno => b.seqno = cl.sno)'
      BY <1>1, <1>2, Zenon DEF UpInv
    <2>11. ((cl.mod # 0 \/ Asking) /\ conn[cl.channel].open =>
              \/ conn[cl.channel].rno = cl.sno /\ (cl.owed \/ AskingFor(cl.sno) => ~Got(sentC))
              \/ conn[cl.channel].rno = Inc(cl.sno) /\ Got(sentC) /\ Due /\ OnlyAsking(cl.sno))'
      <3>1. ~Got(sentC)' BY <1>2, <2>3, Zenon DEF Got
      <3> QED BY <1>2, <2>4, <2>6, <3>1, Zenon
    <2>12. (cl.mod # 0 =>
             /\ \A m \in In(toC) : m.type = "ack" =>
                  \/ Inc(m.seqno) = cl.sno
                  \/ /\ m.seqno = cl.sno /\ Got(sentC) /\ cl.owed /\ OnlyAsking(cl.sno)
                     /\ conn[cl.channel].open => conn[cl.channel].rno = Inc(cl.sno)
             /\ \A a, b : Behind(toC, a, b) /\ a.type = "ack" /\ b.type = "ack" /\ a.seqno = cl.sno
                  => b.seqno = cl.sno)'
      BY <1>1, <1>2, <2>7, Zenon DEF UpInv
    <2> QED BY <2>8, <2>9, <2>10, <2>11, <2>12, Zenon DEF UpInv
  <1> QED BY <1>2, <1>5, <1>6, <1>7 DEF TInv

\* trigger_cb sends the packet.
LEMMA TriggerSendLocal ==
  ASSUME Local, trigger_cb, cl.mod = 1, cl.out # 0
  PROVE  /\ Local' /\ UNCHANGED <<server, toC, sentC, gotC, ackedC, starts>>
         /\ \E x : /\ Moves(toS, toS', {x}) /\ x.type = "req" /\ x.ch = cl.channel /\ x.seqno = cl.sno
                   /\ x.cemi = sentC
         /\ cl.owed /\ cl.link = "on"
         /\ cl'.mod = 2 /\ cl'.trigger = FALSE /\ cl'.timeout = TRUE
         /\ cl'.link = cl.link /\ cl'.channel = cl.channel /\ cl'.sno = cl.sno /\ cl'.rno = cl.rno
         /\ cl'.retry = cl.retry /\ cl'.out = cl.out /\ cl'.conntimeout = cl.conntimeout
         /\ cl'.heartbeat = cl.heartbeat /\ cl'.owed = cl.owed /\ cl'.bound = cl.bound
  <1>1. /\ toS' = Put(toS, Req(cl.channel, cl.sno, cl.out)) /\ UNCHANGED <<server, toC, sentC, gotC, ackedC, starts>>
        /\ cl' = [cl EXCEPT !.trigger = FALSE, !.mod = 2, !.timeout = TRUE]
    BY Zenon DEF trigger_cb
  <1>2. /\ cl'.mod = 2 /\ cl'.trigger = FALSE /\ cl'.timeout = TRUE
        /\ cl'.link = cl.link /\ cl'.channel = cl.channel /\ cl'.sno = cl.sno /\ cl'.rno = cl.rno
        /\ cl'.retry = cl.retry /\ cl'.out = cl.out /\ cl'.conntimeout = cl.conntimeout
        /\ cl'.heartbeat = cl.heartbeat /\ cl'.owed = cl.owed /\ cl'.bound = cl.bound
    BY <1>1, LocalIs, SMT DEF Client
  <1>3. DOMAIN cl' = DOMAIN cl BY <1>1, LocalIs, SMT DEF Client
  <1>4. cl' = [x \in DOMAIN cl' |-> cl'[x]] BY <1>1, Zenon
  <1>5. cl' \in Client BY <1>2, <1>3, <1>4, LocalIs, ClientIs, Numbers, ZenonT(20)
  <1>6. ClientOK' BY <1>1, <1>2, LocalIs, SMT DEF Local, ClientOK, Open
  <1>7. cl.out = sentC /\ cl.owed /\ cl.link = "on" BY Numbers, Zenon DEF Local, ClientOK
  <1> DEFINE x == Req(cl.channel, cl.sno, cl.out)
  <1>8. x \in MsgS /\ x.type = "req" /\ x.ch = cl.channel /\ x.seqno = cl.sno /\ x.cemi = cl.out
    <2>1. cl.channel \in Int /\ cl.sno \in Seqno /\ cl.out \in Nat BY LocalIs, Zenon
    <2>2. /\ x \in [ type : {"req"}, ch : Int, seqno : Seqno, cemi : Nat ] /\ x.type = "req" /\ x.ch = cl.channel
          /\ x.seqno = cl.sno /\ x.cemi = cl.out
      BY <2>1, SMT DEF Req
    <2> QED BY <2>2, Zenon DEF MsgS
  <1> HIDE DEF x
  <1>9. toS' \in Seq(MsgS) /\ Len(toS') <= MaxNet /\ Moves(toS, toS', {x})
    BY <1>1, <1>8, LocalIs, PutMoves, Zenon DEF x
  <1>10. Local' BY <1>1, <1>5, <1>6, <1>9, Zenon DEF Local, Typed, TypeOK, server
  <1> QED BY <1>1, <1>2, <1>7, <1>8, <1>9, <1>10, Zenon

\* The client sends its packet, for the first time or again.
LEMMA TriggerSendStep ==
  ASSUME TInv, trigger_cb, cl.mod = 1, cl.out # 0
  PROVE  TInv'
  <1>1. Local /\ SessionInv /\ DownInv /\ UpInv BY DEF TInv
  <1>2. /\ Local' /\ UNCHANGED <<conn, sentS, gotS, toC, sentC, gotC, ackedC, starts>>
        /\ cl.owed /\ cl.link = "on" /\ cl'.owed = cl.owed /\ cl'.link = cl.link /\ cl'.mod = 2
        /\ cl'.channel = cl.channel /\ cl'.sno = cl.sno /\ cl'.rno = cl.rno
    BY <1>1, TriggerSendLocal, Zenon DEF server
  <1>3. PICK x : /\ Moves(toS, toS', {x}) /\ x.type = "req" /\ x.ch = cl.channel /\ x.seqno = cl.sno
                 /\ x.cemi = sentC
    BY <1>1, TriggerSendLocal, Zenon
  <1>4. cl.mod # 0 /\ cl'.mod # 0 BY <1>2, Numbers, Zenon
  <1>5. Open /\ Open' /\ Due /\ Due' BY <1>2, Zenon DEF Open, Due
  <1>6. Moves(toC, toC', {}) BY <1>2, StayMoves, Zenon
  <1>a. /\ \A m \in In(toS') : m \in In(toS) \/ m = x
        /\ \A a, b : Behind(toS', a, b) => Behind(toS, a, b) \/ (a \in In(toS) /\ b = x)
    <2>1. Moves(toS, toS', {x}) BY <1>3
    <2> QED BY ONLY <2>1, PutOne, Zenon
  <1>7. SessionInv'
    <2>1. \A m \in {x} : m.type # "conn" /\ m.ch = cl.channel BY <1>3, Zenon
    <2> DEFINE M == {x}
    <2> HIDE DEF M
    <2>2. Moves(toS, toS', M) /\ \A m \in M : m.type # "conn" /\ m.ch = cl.channel BY <1>3, <2>1 DEF M
    <2> QED BY <1>1, <1>2, <1>4, <1>5, <1>6, <2>2, SessionConnected, Zenon
  <1>8. DownInv'
    <2> DEFINE M == {x}
    <2>1. \A m \in M : m.type # "ack" BY <1>3, Zenon
    <2>2. Moves(toS, toS', M) BY <1>3
    <2> HIDE DEF M
    <2> QED BY <1>1, <1>2, <1>4, <1>6, <2>1, <2>2, DownAsBefore, Zenon
  <1>9. UpInv'
    <2>1. \A p : Got(p)' <=> Got(p) BY <1>2, Zenon DEF Got
    <2>2. OnlyAsking(cl.sno) => OnlyAsking(cl.sno)'
      <3>1. OnlyAsking(cl.sno) => \A m \in In(toS') : m.type = "req" => m.seqno = cl.sno
        BY <1>3, <1>a, Zenon DEF OnlyAsking
      <3> QED BY <1>2, <3>1, Zenon DEF OnlyAsking
    <2>3. (\A i \in DOMAIN gotS : gotS[i] <= sentC)' /\ Increasing(gotS)' /\ (\A p \in ackedC : Got(p))'
      BY <1>1, <1>2, <2>1, Zenon DEF UpInv, Increasing
    <2>4. (\A m \in In(toS) : m.type = "req" =>
             Inc(m.seqno) = cl.sno \/ (m.seqno = cl.sno /\ m.cemi = sentC /\ Due))'
      BY <1>1, <1>2, <1>3, <1>5, <1>a, Zenon DEF UpInv
    <2>5. (\A a, b : Behind(toS, a, b) /\ a.type = "req" /\ b.type = "req" /\ a.seqno = cl.sno => b.seqno = cl.sno)'
      <3> SUFFICES ASSUME NEW a, NEW b, Behind(toS', a, b), a.type = "req", b.type = "req", a.seqno = cl'.sno
                   PROVE  b.seqno = cl'.sno
        OBVIOUS
      <3>1. CASE Behind(toS, a, b) BY <1>1, <1>2, <3>1, Zenon DEF UpInv
      <3>2. CASE b = x BY <1>2, <1>3, <3>2, Zenon
      <3> QED BY <1>a, <3>1, <3>2
    <2>6. (conn[cl.channel].open =>
              \/ conn[cl.channel].rno = cl.sno /\ (cl.owed \/ AskingFor(cl.sno) => ~Got(sentC))
              \/ conn[cl.channel].rno = Inc(cl.sno) /\ Got(sentC) /\ Due /\ OnlyAsking(cl.sno))'
      BY <1>1, <1>2, <1>4, <1>5, <2>1, <2>2, Zenon DEF UpInv
    <2>7. (/\ \A m \in In(toC) : m.type = "ack" =>
                  \/ Inc(m.seqno) = cl.sno
                  \/ /\ m.seqno = cl.sno /\ Got(sentC) /\ cl.owed /\ OnlyAsking(cl.sno)
                     /\ conn[cl.channel].open => conn[cl.channel].rno = Inc(cl.sno)
           /\ \A a, b : Behind(toC, a, b) /\ a.type = "ack" /\ b.type = "ack" /\ a.seqno = cl.sno
                  => b.seqno = cl.sno)'
      BY <1>1, <1>2, <1>4, <2>1, <2>2, Zenon DEF UpInv
    <2> QED BY <2>3, <2>4, <2>5, <2>6, <2>7, Zenon DEF UpInv
  <1> QED BY <1>2, <1>7, <1>8, <1>9 DEF TInv

\* The ACK the client waited for.
LEMMA ResponseLocal ==
  ASSUME Local, tunnel_response, cl.mod = 2, Head(toC).ch = cl.channel, Head(toC).seqno = cl.sno, Head(toC).ok
  PROVE  /\ Local' /\ Recv("ack") /\ UNCHANGED <<server, toS, sentC, gotC, starts>> /\ ackedC' = ackedC \cup {sentC}
         /\ cl.link = "on"
         /\ cl'.mod = 1 /\ cl'.sno = Inc(cl.sno) /\ cl'.retry = 0 /\ cl'.out = 0
         /\ cl'.trigger = TRUE /\ cl'.owed = FALSE
         /\ cl'.link = cl.link /\ cl'.channel = cl.channel /\ cl'.rno = cl.rno /\ cl'.timeout = cl.timeout
         /\ cl'.conntimeout = cl.conntimeout /\ cl'.heartbeat = cl.heartbeat /\ cl'.bound = cl.bound
  <1>1. /\ Recv("ack") /\ UNCHANGED <<server, toS, sentC, gotC, starts>> /\ ackedC' = ackedC \cup {cl.out}
        /\ cl' = [cl EXCEPT !.sno = Inc(@), !.out = 0, !.owed = FALSE, !.mod = 1, !.trigger = TRUE, !.retry = 0]
    BY Zenon DEF tunnel_response
  <1>a. Inc(cl.sno) \in Seqno BY LocalIs, IncFacts, Zenon
  <1>2. /\ cl'.mod = 1 /\ cl'.sno = Inc(cl.sno) /\ cl'.retry = 0 /\ cl'.out = 0
        /\ cl'.trigger = TRUE /\ cl'.owed = FALSE
        /\ cl'.link = cl.link /\ cl'.channel = cl.channel /\ cl'.rno = cl.rno /\ cl'.timeout = cl.timeout
        /\ cl'.conntimeout = cl.conntimeout /\ cl'.heartbeat = cl.heartbeat /\ cl'.bound = cl.bound
    BY <1>1, LocalIs, SMT DEF Client
  <1>3. DOMAIN cl' = DOMAIN cl BY <1>1, LocalIs, SMT DEF Client
  <1>4. cl' = [x \in DOMAIN cl' |-> cl'[x]] BY <1>1, Zenon
  <1>5. cl' \in Client BY <1>2, <1>3, <1>4, LocalIs, ClientIs, <1>a, Numbers, ZenonT(20)
  <1>6. ClientOK' BY <1>1, <1>2, LocalIs, SMT DEF Local, ClientOK, Open
  <1>7. cl.out = sentC /\ cl.link = "on" BY Numbers, Zenon DEF Local, ClientOK
  <1>8. toC' \in Seq(MsgC) /\ Len(toC') <= MaxNet BY <1>1, RecvFacts, Zenon
  <1>9. Local' BY <1>1, <1>5, <1>6, <1>8, Zenon DEF Local, Typed, TypeOK, server
  <1> QED BY <1>1, <1>2, <1>7, <1>9, Zenon

\* The ACK that the client waits for: its packet has arrived.
LEMMA ResponseStep ==
  ASSUME TInv, tunnel_response, cl.mod = 2, Head(toC).ch = cl.channel, Head(toC).seqno = cl.sno, Head(toC).ok
  PROVE  TInv'
  <1>1. Local /\ SessionInv /\ DownInv /\ UpInv BY DEF TInv
  <1>2. /\ Local' /\ Recv("ack") /\ UNCHANGED <<conn, sentS, gotS, toS, sentC, gotC, starts>>
        /\ ackedC' = ackedC \cup {sentC} /\ cl.link = "on" /\ cl'.link = cl.link
        /\ cl'.mod = 1 /\ cl'.owed = FALSE /\ cl'.channel = cl.channel /\ cl'.sno = Inc(cl.sno) /\ cl'.rno = cl.rno
    BY <1>1, ResponseLocal, Zenon DEF server
  <1> DEFINE m == Head(toC)
  <1>3. /\ m \in In(toC) /\ m.type = "ack" /\ Moves(toC, toC', {})
        /\ \A y \in In(toC') : (y = m) \/ Behind(toC, m, y)
    BY <1>1, <1>2, RecvFacts, Zenon
  <1>4. cl.mod # 0 /\ cl'.mod # 0 BY <1>2, Numbers, Zenon
  <1>5. Open /\ Open' BY <1>2, Zenon DEF Open
  <1>6. Moves(toS, toS', {}) BY <1>2, StayMoves, Zenon
  <1>b. cl.sno \in Seqno /\ Inc(cl.sno) # cl.sno BY <1>1, LocalIs, IncFacts, Zenon
  <1> DEFINE none == {}
  <1>c. Moves(toS, toS', none) /\ \A y : y \notin none BY <1>6
  <1> HIDE DEF none
  <1>7. SessionInv'
    BY <1>1, <1>2, <1>3, <1>4, <1>5, <1>c, SessionConnected, Zenon
  <1>8. DownInv' BY <1>1, <1>2, <1>3, <1>4, <1>c, DownAsBefore, Zenon
  <1>9. UpInv'
    <2>1. \A p : Got(p)' <=> Got(p) BY <1>2, Zenon DEF Got
    <2>2. /\ Got(sentC) /\ OnlyAsking(cl.sno) /\ (conn[cl.channel].open => conn[cl.channel].rno = Inc(cl.sno))
          /\ \A b : Behind(toC, m, b) /\ b.type = "ack" => b.seqno = cl.sno
      BY <1>1, <1>3, <1>4, <1>b, Zenon DEF UpInv
    <2>3. \A y \in In(toS') : y.type = "req" => Inc(y.seqno) = Inc(cl.sno) /\ y.seqno # Inc(cl.sno)
      BY <1>2, <1>b, <2>2, Zenon DEF OnlyAsking
    <2>4. \A y \in In(toC') : y.type = "ack" => Inc(y.seqno) = Inc(cl.sno) /\ y.seqno # Inc(cl.sno)
      BY <1>3, <1>b, <2>2, Zenon
    <2>5. ~AskingFor(cl.sno)' BY <1>2, <2>3, Zenon DEF AskingFor
    <2>6. (\A i \in DOMAIN gotS : gotS[i] <= sentC)' /\ Increasing(gotS)' /\ (\A p \in ackedC : Got(p))'
      BY <1>1, <1>2, <2>1, <2>2, Zenon DEF UpInv, Increasing
    <2>7. /\ \A a, b : Behind(toS', a, b) => a \in In(toS')
          /\ \A a, b : Behind(toC', a, b) => a \in In(toC')
      BY Zenon DEF Behind, In
    <2>8. (\A y \in In(toS) : y.type = "req" =>
             Inc(y.seqno) = cl.sno \/ (y.seqno = cl.sno /\ y.cemi = sentC /\ Due))'
      BY <1>2, <2>3, Zenon
    <2>9. (\A a, b : Behind(toS, a, b) /\ a.type = "req" /\ b.type = "req" /\ a.seqno = cl.sno => b.seqno = cl.sno)'
      BY <1>2, <2>3, <2>7, Zenon
    <2>10. (conn[cl.channel].open => conn[cl.channel].rno = cl.sno /\ (cl.owed \/ AskingFor(cl.sno) => ~Got(sentC)))'
      BY <1>2, <2>2, <2>5, Zenon
    <2>11. (\A y \in In(toC) : y.type = "ack" => Inc(y.seqno) = cl.sno)' BY <1>2, <2>4, Zenon
    <2>12. (\A a, b : Behind(toC, a, b) /\ a.type = "ack" /\ b.type = "ack" /\ a.seqno = cl.sno => b.seqno = cl.sno)'
      BY <1>2, <2>4, <2>7, Zenon
    <2> QED BY <2>6, <2>8, <2>9, <2>10, <2>11, <2>12, Zenon DEF UpInv
  <1> QED BY <1>2, <1>7, <1>8, <1>9 DEF TInv

\* The CONNECTION_RESPONSE the client waited for.
LEMMA ConnectLocal ==
  ASSUME Local, connection_response, cl.mod = 0, Head(toC).ok
  PROVE  /\ Local' /\ Recv("connresp") /\ UNCHANGED <<server, toS, sentC, gotC, ackedC, starts>>
         /\ cl'.link = "on" /\ cl'.mod = 1 /\ cl'.channel = Head(toC).ch /\ cl'.sno = 0
         /\ cl'.rno = 0 /\ cl'.trigger = TRUE /\ cl'.conntimeout = TRUE /\ cl'.heartbeat = 0
         /\ cl'.retry = cl.retry /\ cl'.out = cl.out /\ cl'.timeout = cl.timeout /\ cl'.owed = cl.owed
         /\ cl'.bound = cl.bound
  <1>1. /\ Recv("connresp") /\ UNCHANGED <<server, toS, sentC, gotC, ackedC, starts>>
        /\ cl' = [cl EXCEPT !.link = "on", !.mod = 1, !.channel = Head(toC).ch, !.sno = 0,
                            !.rno = 0, !.trigger = TRUE, !.conntimeout = TRUE, !.heartbeat = 0]
    BY Zenon DEF connection_response
  <1>a. 0 \in Seqno /\ Head(toC).ch \in Channels BY <1>1, RecvFacts, IncFacts, MsgTypes, Zenon
  <1>2. /\ cl'.link = "on" /\ cl'.mod = 1 /\ cl'.channel = Head(toC).ch /\ cl'.sno = 0
        /\ cl'.rno = 0 /\ cl'.trigger = TRUE /\ cl'.conntimeout = TRUE /\ cl'.heartbeat = 0
        /\ cl'.retry = cl.retry /\ cl'.out = cl.out /\ cl'.timeout = cl.timeout /\ cl'.owed = cl.owed
        /\ cl'.bound = cl.bound
    BY <1>1, LocalIs, SMT DEF Client
  <1>3. DOMAIN cl' = DOMAIN cl BY <1>1, Zenon
  <1>4. cl' = [x \in DOMAIN cl' |-> cl'[x]] BY <1>1, Zenon
  <1>5. cl' \in Client BY <1>2, <1>3, <1>4, LocalIs, ClientIs, <1>a, Numbers, ZenonT(20)
  <1>6. ClientOK' BY <1>1, <1>2, LocalIs, SMT DEF Local, ClientOK, Open
  <1>8. toC' \in Seq(MsgC) /\ Len(toC') <= MaxNet BY <1>1, RecvFacts, Zenon
  <1>9. Local' BY <1>1, <1>5, <1>6, <1>8, Zenon DEF Local, Typed, TypeOK, server
  <1> QED BY <1>1, <1>2, <1>9, Zenon

\* The connection is made: both sides count from 0 and nothing else is under way.
LEMMA ConnectStep ==
  ASSUME TInv, connection_response, cl.mod = 0, Head(toC).ok, "connresp" \notin Dup
  PROVE  TInv'
  <1>1. Local /\ SessionInv /\ DownInv /\ UpInv BY DEF TInv
  <1>2. PICK m : m = Head(toC) BY Zenon
  <1>3. Recv("connresp") BY Zenon DEF connection_response
  <1>4. /\ m \in In(toC) /\ m.type = "connresp" /\ Moves(toC, toC', {}) /\ \A y \in In(toC') : Behind(toC, m, y)
    BY <1>1, <1>2, <1>3, RecvFacts, Zenon
  <1>5. /\ Unconnected /\ m.ch \in Channels /\ Own(m.ch) /\ Down(m.ch, 0)
        /\ \A x \in In(toS) : x.type \notin {"conn", "req", "ack"}
        /\ \A x \in In(toC) : x.type # "ack"
        /\ conn[m.ch].open => conn[m.ch].rno = 0 /\ conn[m.ch].sno = 0
        /\ \A y \in In(toC') : y.type # "connresp"
    BY <1>1, <1>2, <1>4, Zenon DEF SessionInv
  <1>6. /\ Local' /\ UNCHANGED <<conn, sentS, gotS, toS, sentC, gotC, ackedC, starts>>
        /\ cl'.link = "on" /\ cl'.mod = 1 /\ cl'.channel = m.ch /\ cl'.sno = 0 /\ cl'.rno = 0 /\ cl'.owed = cl.owed
    BY <1>1, <1>2, <1>5, ConnectLocal, Zenon DEF server
  <1>7. Open' /\ cl'.mod # 0 /\ ~cl'.owed BY <1>5, <1>6, Numbers, Zenon DEF Open, Unconnected
  <1>8. Own(m.ch)' BY <1>5, <1>6, Zenon DEF Own
  <1>9. /\ \A a, b : Behind(toC', a, b) => a \in In(toC')
        /\ \A a, b : Behind(toS', a, b) => a \in In(toS')
    BY Zenon DEF Behind, In
  <1>10. Down(m.ch, 0)'
    <2> DEFINE none == {}
    <2>1. Moves(toS, toS', none) /\ Moves(toC, toC', none) /\ \A y : y \notin none BY <1>4, <1>6, StayMoves, Zenon
    <2> HIDE DEF none
    <2>2. UNCHANGED gotC BY <1>6
    <2>3. conn'[m.ch].open => conn[m.ch].open /\ Carried(conn[m.ch], conn'[m.ch]) BY <1>6, Zenon DEF Carried
    <2> QED BY <1>5, <2>1, <2>2, <2>3, DownKept, Zenon
  <1>11. SessionInv' BY <1>1, <1>5, <1>6, <1>7, <1>8, <1>9, Zenon DEF SessionInv
  <1>12. DownInv'
    <2>1. (cl.mod # 0 => Down(cl.channel, cl.rno))' BY <1>6, <1>10, Zenon
    <2>2. \A y \in In(toC') : y \in In(toC) BY <1>4, Zenon DEF Moves
    <2> QED BY <1>1, <1>6, <2>1, <2>2, Zenon DEF DownInv, Increasing, InTurn
  <1>13. UpInv'
    <2>1. (\A i \in DOMAIN gotS : gotS[i] <= sentC)' /\ Increasing(gotS)' /\ (\A p \in ackedC : Got(p))'
      BY <1>1, <1>6, Zenon DEF UpInv, Increasing, Got
    <2>2. ~AskingFor(cl.sno)' /\ \A x \in In(toS') : x.type # "req" BY <1>5, <1>6, Zenon DEF AskingFor
    <2>3. \A y \in In(toC') : y.type # "ack" BY <1>4, <1>5, Zenon DEF Moves
    <2>4. (conn[cl.channel].open => conn[cl.channel].rno = cl.sno)' BY <1>5, <1>6, Zenon
    <2> QED BY <1>6, <1>7, <1>9, <2>1, <2>2, <2>3, <2>4, Zenon DEF UpInv
  <1> QED BY <1>6, <1>11, <1>12, <1>13 DEF TInv
=============================================================================
