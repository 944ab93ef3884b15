---------------------------- MODULE ServerProofs ----------------------------
(***************************************************************************)
(* Proofs about the connections of the KNXnet/IP server (EIBnetServer): for *)
(* every number of addresses, channels, connections and sequence numbers,  *)
(* BooksExact and Serves are invariants.                                   *)
(*                                                                         *)
(* The inductive invariant has three parts.  Books relates the lists of    *)
(* the server and of the router; of a connection it uses only its type,    *)
(* channel and addresses and whether it has ended.  ConnOK is about the    *)
(* timers, triggers and queues of one connection, Session about one        *)
(* connection and the client at its other end.                             *)
(***************************************************************************)
EXTENDS EIBnetServer, TLAPS

Seqno == 0 .. (Seqnos - 1)

Conn ==
    [ type : {"none", "link", "busmon", "config"}, channel : 0 .. NChannels, addr : 0 .. NAddrs, had : 0 .. NAddrs,
      sno : Seqno, rno : Seqno, retries : Nat, do_send_next : BOOLEAN, out : Seq(Int), put : Seq(Int),
      timeout : BOOLEAN, sendtimeout : BOOLEAN, trigger : BOOLEAN, alive : BOOLEAN,
      up : BOOLEAN, queue : {"Q_DOWN", "Q_IDLE", "Q_BUSY"}, buf : Seq(Int), qtrigger : BOOLEAN ]

Daemon ==
    [ conn : [Conns -> Conn], n : 0 .. MaxConn, svc : SUBSET {"tunnel", "route", "discover"},
      state : {"down", "up", "error", "stopped"}, want_up : BOOLEAN, sock : BOOLEAN, mcast : BOOLEAN,
      connections : SUBSET Conns, drop_q : SUBSET Conns, drop_active : BOOLEAN, drop_trigger : BOOLEAN,
      links : SUBSET Conns, vbusmonitor : [Conns -> Nat],
      client_addrs : SUBSET (1 .. NAddrs), client_addrs_pos : 1 .. NAddrs,
      router_buf : Seq([src : 0 .. MaxConn, x : Int]), aborted : BOOLEAN, x : Int ]

Client == [sno : Seqno, rno : Seqno, got : Seq(Int)]
Request == [n : Seqno, x : Int]

\* The connections of s that have not ended, and their addresses.
Alive(s) == {c \in Conns : s.conn[c].alive}
Addrs(s) == {s.conn[c].addr : c \in Alive(s)} \ {0}

\* The lists of the server and the router agree on the connections.
Listed(s) ==
    /\ s.links = s.connections /\ s.connections \subseteq 1 .. s.n /\ s.drop_q \subseteq s.connections
    /\ \A c \in Conns : c \notin s.connections => s.conn[c] = NoConn
    /\ \A c \in s.connections : s.conn[c].alive <=> c \notin s.drop_q
    /\ s.drop_active /\ s.drop_q # {} => s.drop_trigger

\* An address belongs to one link, or to none and is lost.
Addressed(s, L) ==
    /\ \A c \in Conns : IF s.conn[c].alive THEN s.conn[c].addr = s.conn[c].had
                                           ELSE s.conn[c].addr = 0 /\ ~s.conn[c].up
    /\ s.client_addrs = Addrs(s) \cup L /\ Addrs(s) \cap L = {}

\* No two connections have the same channel or ever had the same address.
Unique(s) ==
    \A a, b \in s.connections : a # b => /\ s.conn[a].channel # s.conn[b].channel
                                         /\ s.conn[a].had # 0 => s.conn[a].had # s.conn[b].had

Monitors(s) ==
    \A c \in Conns : s.vbusmonitor[c] = IF s.conn[c].alive /\ s.conn[c].type = "busmon" THEN 1 ELSE 0

Books(s, L) ==
    /\ s \in Daemon /\ L \in SUBSET (1 .. NAddrs) /\ ~s.aborted
    /\ Listed(s) /\ Addressed(s, L) /\ Unique(s) /\ Monitors(s)

\* The timers and the trigger of a connection, and its queue filter.
Timers(k) ==
    /\ k.retries \in 0 .. 3
    /\ k.sendtimeout <=> k.retries \in {1, 3}
    /\ k.trigger => k.retries \in {0, 2}
    /\ k.retries = 2 => k.trigger
    /\ k.retries # 0 => k.out # <<>>
    /\ k.alive => k.timeout /\ (k.out # <<>> => k.trigger \/ k.sendtimeout)
    /\ ~k.alive => k.retries = 0 /\ ~k.timeout /\ ~k.trigger

Queue(k) ==
    /\ k.up <=> k.queue # "Q_DOWN"
    /\ k.do_send_next => k.queue # "Q_IDLE"
    /\ k.type = "link" /\ k.queue = "Q_BUSY" => k.do_send_next /\ k.out # <<>>
    /\ k.queue = "Q_IDLE" /\ k.buf # <<>> => k.qtrigger

ConnOK(k) == Timers(k) /\ Queue(k)

\* How many packets were confirmed.
Conf(k) == Len(k.put) - Len(k.out)

\* A request m under way is the client's last packet again or its next one, an
\* acknowledgement n is for the packet that is being sent or for the one before it.
Asked(k, l, m, j) ==
    /\ m.x = k.put[j]
    /\ \/ j = Len(l.got) /\ Inc(m.n) = l.rno
       \/ j = Len(l.got) + 1 /\ m.n = l.rno
    /\ k.alive => j = IF k.retries # 0 THEN Conf(k) + 1 ELSE Conf(k)

Answered(k, n, j) ==
    k.alive => \/ j = Conf(k) + 1 /\ n = k.sno
               \/ j = Conf(k) /\ Inc(n) = k.sno

\* The client has taken what was confirmed, or one packet more while that one is
\* being sent.
Session(k, l, rq, ak) ==
    /\ Len(l.got) =< Len(k.put) /\ \A i \in 1 .. Len(l.got) : l.got[i] = k.put[i]
    /\ k.alive =>
          /\ Conf(k) \in Nat /\ \A i \in 1 .. Len(k.out) : k.out[i] = k.put[Conf(k) + i]
          /\ \/ Len(l.got) = Conf(k) /\ l.rno = k.sno
             \/ Len(l.got) = Conf(k) + 1 /\ l.rno = Inc(k.sno) /\ k.retries # 0
    /\ rq # <<>> => \E j \in 1 .. Len(k.put) : Asked(k, l, rq[1], j)
    /\ ak # <<>> => \E j \in 1 .. Len(l.got) : Answered(k, ak[1], j)

SInv ==
    /\ Books(d, lost)
    /\ cl \in [Conns -> Client]
    /\ req \in [Conns -> {<<>>} \cup {<<m>> : m \in Request}]
    /\ ack \in [Conns -> {<<>>} \cup {<<n>> : n \in Seqno}]
    /\ \A c \in Conns : ConnOK(d.conn[c]) /\ Session(d.conn[c], cl[c], req[c], ack[c])
    /\ \A c \in Conns : c \notin d.connections => cl[c] = NoClient /\ req[c] = <<>> /\ ack[c] = <<>>
    /\ case \in Cases
-----------------------------------------------------------------------------
\* What the configuration says about numbers.
LEMMA Basics ==
  /\ 0 \in Nat /\ 0 \in Int /\ 0 \in 0 .. NAddrs /\ 0 \in 0 .. NChannels /\ 0 \in Seqno
  /\ <<>> \in Seq(Int) /\ MaxConn \in Nat /\ NAddrs \in Nat \ {0} /\ Seqnos \in Nat \ {0}
  /\ \A n \in Seqno : Inc(n) \in Seqno
  BY ServerConfig, SMT DEF Seqno, Inc

\* A connection that was never opened.
LEMMA NoConnIs ==
  /\ NoConn \in Conn /\ ConnOK(NoConn) /\ ~NoConn.alive
  /\ NoConn.type = "none" /\ NoConn.addr = 0 /\ ~NoConn.up /\ NoConn.put = <<>>
  /\ ~NoConn.trigger /\ ~NoConn.sendtimeout /\ ~NoConn.timeout /\ ~NoConn.qtrigger
  <1>1. NoConn \in Conn BY Basics, Zenon DEF NoConn, Conn
  <1>2. ConnOK(NoConn) BY SMT DEF NoConn, ConnOK, Timers, Queue
  <1> QED BY <1>1, <1>2, Zenon DEF NoConn

\* What the books need to know of a connection.
Kept(k, e) ==
    /\ e.type = k.type /\ e.channel = k.channel /\ e.addr = k.addr /\ e.had = k.had
    /\ e.alive = k.alive /\ e.up = k.up

\* Channels and addresses stay different when they do not change.
LEMMA UniqueKept ==
  ASSUME NEW s, NEW t, Unique(s), t.connections = s.connections,
         \A c \in s.connections : t.conn[c].channel = s.conn[c].channel /\ t.conn[c].had = s.conn[c].had
  PROVE  Unique(t)
  <1> SUFFICES ASSUME NEW a \in s.connections, NEW b \in s.connections, a # b
               PROVE  /\ t.conn[a].channel # t.conn[b].channel
                      /\ t.conn[a].had # 0 => t.conn[a].had # t.conn[b].had
    BY Zenon DEF Unique
  <1>1. /\ s.conn[a].channel # s.conn[b].channel
        /\ s.conn[a].had # 0 => s.conn[a].had # s.conn[b].had
    BY Zenon DEF Unique
  <1>2. /\ t.conn[a].channel = s.conn[a].channel /\ t.conn[a].had = s.conn[a].had
        /\ t.conn[b].channel = s.conn[b].channel /\ t.conn[b].had = s.conn[b].had
    BY Zenon
  <1> QED BY <1>1, <1>2, Zenon

\* The books are right as long as the lists and this do not change.
LEMMA BooksKept ==
  ASSUME NEW s, NEW t \in Daemon, NEW L, Books(s, L), ~t.aborted,
         t.connections = s.connections, t.links = s.links, t.n = s.n, t.drop_q = s.drop_q,
         t.vbusmonitor = s.vbusmonitor, t.client_addrs = s.client_addrs,
         t.drop_active /\ t.drop_q # {} => t.drop_trigger,
         \A c \in Conns : /\ Kept(s.conn[c], t.conn[c])
                          /\ c \notin s.connections => t.conn[c] = s.conn[c]
  PROVE  Books(t, L)
  <1>1. Listed(s) /\ Addressed(s, L) /\ Unique(s) /\ Monitors(s) /\ \A c \in s.connections : c \in Conns
    BY Zenon DEF Books, Daemon
  <1>2. \A c \in Conns : /\ t.conn[c].type = s.conn[c].type /\ t.conn[c].channel = s.conn[c].channel
                         /\ t.conn[c].addr = s.conn[c].addr /\ t.conn[c].had = s.conn[c].had
                         /\ t.conn[c].alive = s.conn[c].alive /\ t.conn[c].up = s.conn[c].up
    BY Zenon DEF Kept
  <1>3. Addrs(t) = Addrs(s)
    <2>1. Alive(t) = Alive(s) /\ \A c \in Alive(s) : t.conn[c].addr = s.conn[c].addr BY <1>2, Zenon DEF Alive
    <2> QED BY <2>1, ZenonT(20) DEF Addrs
  <1>4. Listed(t)
    <2>1. \A c \in t.connections : t.conn[c].alive <=> c \notin t.drop_q BY <1>1, <1>2, Zenon DEF Listed
    <2>2. \A c \in Conns : c \notin t.connections => t.conn[c] = NoConn BY <1>1, Zenon DEF Listed
    <2> QED BY <1>1, <2>1, <2>2, Zenon DEF Listed
  <1>5. Addressed(t, L)
    <2>1. \A c \in Conns : IF t.conn[c].alive THEN t.conn[c].addr = t.conn[c].had
                                              ELSE t.conn[c].addr = 0 /\ ~t.conn[c].up
      BY <1>1, <1>2, SMT DEF Addressed
    <2> QED BY <1>1, <1>3, <2>1, Zenon DEF Addressed
  <1>6. Unique(t) BY <1>1, <1>2, UniqueKept, Zenon
  <1>7. Monitors(t) BY <1>1, <1>2, SMT DEF Monitors
  <1> QED BY <1>4, <1>5, <1>6, <1>7, Zenon DEF Books

-----------------------------------------------------------------------------
\* ConnState::stop for one connection.
LEMMA StopBody ==
  ASSUME NEW k \in Conn
  PROVE  /\ stop_body(k) \in Conn /\ ConnOK(stop_body(k))
         /\ stop_body(k).alive = FALSE /\ stop_body(k).addr = 0 /\ stop_body(k).up = FALSE
         /\ stop_body(k).type = k.type /\ stop_body(k).channel = k.channel /\ stop_body(k).had = k.had
         /\ stop_body(k).put = k.put
  <1> DEFINE e == stop_body(k)
  <1>1. e \in Conn BY Basics, Zenon DEF stop_body, stopped, Conn
  <1>2. /\ e.alive = FALSE /\ e.addr = 0 /\ e.up = FALSE /\ e.type = k.type /\ e.channel = k.channel
        /\ e.had = k.had /\ e.put = k.put /\ e.retries = 0 /\ e.sendtimeout = FALSE /\ e.trigger = FALSE
        /\ e.timeout = FALSE /\ e.queue = "Q_DOWN"
    BY Zenon DEF stop_body, stopped, Conn
  <1> HIDE DEF e
  <1>3. ConnOK(e) BY <1>2, SMT DEF ConnOK, Timers, Queue
  <1> QED BY <1>1, <1>2, <1>3 DEF e

\* Connections may have ended from s to t; nothing else happened to them.
Ended(s, t) ==
    /\ t.connections = s.connections
    /\ \A c \in Conns : \/ t.conn[c] = s.conn[c]
                        \/ ~t.conn[c].alive /\ t.conn[c].put = s.conn[c].put /\ ConnOK(t.conn[c])

\* One pass through ConnState::stop: the books hold, the connections have ended.
LEMMA StopOnce ==
  ASSUME NEW s, NEW L, Books(s, L), NEW S \in SUBSET s.connections
  PROVE  /\ Books(stop_once(s, S), L) /\ Ended(s, stop_once(s, S))
         /\ \A c \in S : ~stop_once(s, S).conn[c].alive
  <1> DEFINE t == stop_once(s, S)
             f == [c \in Conns |-> IF c \in S THEN stop_body(s.conn[c]) ELSE s.conn[c]]
             v == deregisterVBusmonitor(s, S)
  <1>1. s \in Daemon /\ s.connections \in SUBSET Conns /\ s.conn \in [Conns -> Conn]
        /\ \A c \in s.connections : c \in Conns
    BY Zenon DEF Books, Daemon
  <1>2. f \in [Conns -> Conn] BY <1>1, StopBody, Zenon
  <1>3. v \in [Conns -> Nat] BY <1>1, SMT DEF deregisterVBusmonitor, Daemon
  <1> HIDE DEF v, f
  <1>4. /\ t.conn = f /\ t.vbusmonitor = v /\ t.drop_q = s.drop_q \cup S
        /\ t.drop_trigger = (s.drop_trigger \/ (s.drop_active /\ S # {}))
        /\ t.client_addrs = s.client_addrs \ {s.conn[c].addr : c \in S}
        /\ t.connections = s.connections /\ t.links = s.links /\ t.n = s.n
        /\ t.drop_active = s.drop_active /\ t.aborted = s.aborted
    BY <1>1, Zenon DEF stop_once, drop_connection, Daemon, v, f
  <1>5. t \in Daemon
    BY <1>1, <1>2, <1>3, ZenonT(20) DEF stop_once, drop_connection, Daemon, v, f
  <1> HIDE DEF t
  <1>6. Listed(s) /\ Addressed(s, L) /\ Unique(s) /\ Monitors(s) BY Zenon DEF Books
  <1>7. \A c \in Conns : IF c \in S THEN /\ t.conn[c].alive = FALSE /\ t.conn[c].addr = 0 /\ t.conn[c].up = FALSE
                                         /\ t.conn[c].put = s.conn[c].put /\ ConnOK(t.conn[c])
                         ELSE t.conn[c] = s.conn[c]
    <2>1. \A c \in Conns : s.conn[c] \in Conn /\ t.conn[c] = IF c \in S THEN stop_body(s.conn[c]) ELSE s.conn[c]
      BY <1>1, <1>4, Zenon DEF f
    <2> QED BY <2>1, StopBody, ZenonT(20)
  <1>8. \A c \in Conns : /\ t.conn[c].type = s.conn[c].type /\ t.conn[c].channel = s.conn[c].channel
                         /\ t.conn[c].had = s.conn[c].had
    <2>1. \A c \in Conns : s.conn[c] \in Conn /\ t.conn[c] \in {stop_body(s.conn[c]), s.conn[c]}
      BY <1>1, <1>4, Zenon DEF f
    <2> QED BY <2>1, StopBody, ZenonT(20)
  <1>9. Listed(t)
    <2>1. \A c \in Conns : c \notin t.connections => t.conn[c] = NoConn
      BY <1>4, <1>6, <1>7, Zenon DEF Listed
    <2>2. \A c \in t.connections : t.conn[c].alive <=> c \notin t.drop_q
      BY <1>1, <1>4, <1>6, <1>7, Zenon DEF Listed
    <2>3. t.drop_active /\ t.drop_q # {} => t.drop_trigger BY <1>4, <1>6, Zenon DEF Listed
    <2>4. t.drop_q \subseteq t.connections BY <1>4, <1>6, Zenon DEF Listed
    <2> QED BY <1>4, <1>6, <2>1, <2>2, <2>3, <2>4, Zenon DEF Listed
  <1>10. Addrs(t) = Addrs(s) \ {s.conn[c].addr : c \in S}
    <2>1. Alive(t) = Alive(s) \ S BY <1>7, Zenon DEF Alive
    <2>2. \A c \in Alive(t) : t.conn[c].addr = s.conn[c].addr BY <1>7, <2>1, Zenon DEF Alive
    <2>3. ASSUME NEW a \in Alive(s), a \notin S, NEW b \in S, s.conn[a].addr # 0 PROVE s.conn[a].addr # s.conn[b].addr
      <3>1. a \in Conns /\ s.conn[a].alive BY <2>3, Zenon DEF Alive
      <3>2. a \in s.connections BY <1>6, <3>1, NoConnIs, Zenon DEF Listed
      <3>3. s.conn[a].addr = s.conn[a].had BY <1>6, <3>1, SMT DEF Addressed
      <3>4. s.conn[b].addr \in {0, s.conn[b].had} BY <1>1, <1>6, SMT DEF Addressed
      <3>5. s.conn[a].had # s.conn[b].had BY <1>6, <2>3, <3>2, <3>3, Zenon DEF Unique
      <3> QED BY <2>3, <3>3, <3>4, <3>5, Zenon
    <2>4. ASSUME NEW y \in Addrs(t) PROVE y \in Addrs(s) \ {s.conn[c].addr : c \in S}
      <3>1. PICK a \in Alive(t) : y = t.conn[a].addr /\ y # 0 BY Zenon DEF Addrs
      <3>2. a \in Alive(s) /\ a \notin S /\ y = s.conn[a].addr BY <2>1, <2>2, <3>1, Zenon
      <3>3. y \notin {s.conn[c].addr : c \in S} BY <2>3, <3>1, <3>2, Zenon
      <3> QED BY <3>1, <3>2, <3>3, Zenon DEF Addrs
    <2>5. Addrs(s) \ {s.conn[c].addr : c \in S} \subseteq Addrs(t) BY <2>1, <2>2, Zenon DEF Addrs
    <2> QED BY <2>4, <2>5, Zenon
  <1>11. Addressed(t, L)
    <2>1. \A c \in Conns : IF t.conn[c].alive THEN t.conn[c].addr = t.conn[c].had
                                              ELSE t.conn[c].addr = 0 /\ ~t.conn[c].up
      BY <1>6, <1>7, SMT DEF Addressed
    <2>3. \A c \in S : s.conn[c].addr \notin L
      <3>1. 0 \notin L BY SMT DEF Books
      <3>2. \A c \in S : c \in Conns /\ (s.conn[c].addr = 0 \/ s.conn[c].addr \in Addrs(s))
        BY <1>1, <1>6, Zenon DEF Addressed, Addrs, Alive
      <3> QED BY <1>6, <3>1, <3>2, Zenon DEF Addressed
    <2>4. t.client_addrs = Addrs(t) \cup L
      <3> DEFINE gone == {s.conn[c].addr : c \in S}
      <3>1. s.client_addrs = Addrs(s) \cup L BY <1>6, Zenon DEF Addressed
      <3>2. gone \cap L = {} BY <2>3, Zenon
      <3>3. t.client_addrs = s.client_addrs \ gone /\ Addrs(t) = Addrs(s) \ gone BY <1>4, <1>10, Zenon
      <3>4. ASSUME NEW A, NEW B, B \cap L = {} PROVE (A \cup L) \ B = (A \ B) \cup L BY <3>4, Zenon
      <3> HIDE DEF gone
      <3> QED BY <3>1, <3>2, <3>3, <3>4, Zenon
    <2>5. Addrs(t) \cap L = {} BY <1>6, <1>10, Zenon DEF Addressed
    <2> QED BY <2>1, <2>4, <2>5, Zenon DEF Addressed
  <1>a. Unique(t) BY <1>1, <1>4, <1>6, <1>8, UniqueKept, Zenon
  <1>12. Monitors(t)
    <2> SUFFICES ASSUME NEW c \in Conns
                 PROVE  t.vbusmonitor[c] = IF t.conn[c].alive /\ t.conn[c].type = "busmon" THEN 1 ELSE 0
      BY DEF Monitors
    <2>1. t.vbusmonitor[c] = IF c \in S /\ s.conn[c].type = "busmon" /\ s.vbusmonitor[c] > 0
                             THEN s.vbusmonitor[c] - 1 ELSE s.vbusmonitor[c]
      BY <1>4, Zenon DEF v, deregisterVBusmonitor
    <2>2. s.vbusmonitor[c] = IF s.conn[c].alive /\ s.conn[c].type = "busmon" THEN 1 ELSE 0
      BY <1>6, Zenon DEF Monitors
    <2>3. CASE c \in S
      <3>1. t.conn[c].alive = FALSE BY <1>7, <2>3, Zenon
      <3>2. (s.vbusmonitor[c] = 1 /\ s.conn[c].type = "busmon") \/ s.vbusmonitor[c] = 0 BY <2>2, Zenon
      <3>3. t.vbusmonitor[c] = 0 BY <2>1, <2>3, <3>2, SMT
      <3> QED BY <3>1, <3>3, Zenon
    <2>4. CASE c \notin S
      <3>1. t.conn[c] = s.conn[c] /\ t.vbusmonitor[c] = s.vbusmonitor[c] BY <1>7, <2>1, <2>4, Zenon
      <3> QED BY <2>2, <3>1, Zenon
    <2> QED BY <2>3, <2>4, Zenon
  <1>13. Ended(s, t) BY <1>4, <1>7, Zenon DEF Ended
  <1>14. Books(t, L) BY <1>4, <1>5, <1>9, <1>a, <1>11, <1>12, Zenon DEF Books
  <1>15. \A c \in S : ~t.conn[c].alive BY <1>1, <1>7, Zenon
  <1> QED BY <1>13, <1>14, <1>15 DEF t

\* Ended is transitive.
LEMMA EndedTwice ==
  ASSUME NEW s, NEW t, NEW u, Ended(s, t), Ended(t, u) PROVE Ended(s, u)
  <1>1. \A c \in Conns : /\ t.conn[c] = s.conn[c] \/ t.conn[c].put = s.conn[c].put
                         /\ t.conn[c] = s.conn[c] \/ (~t.conn[c].alive /\ ConnOK(t.conn[c]))
    BY Zenon DEF Ended
  <1>2. \A c \in Conns : u.conn[c] = t.conn[c] \/ (~u.conn[c].alive /\ u.conn[c].put = t.conn[c].put /\ ConnOK(u.conn[c]))
    BY Zenon DEF Ended
  <1>3. \A c \in Conns : \/ u.conn[c] = s.conn[c]
                         \/ ~u.conn[c].alive /\ u.conn[c].put = s.conn[c].put /\ ConnOK(u.conn[c])
    BY <1>1, <1>2, Zenon
  <1> QED BY <1>3, Zenon DEF Ended

\* ConnState::stop, and setState(L_going_down) of a link.
LEMMA Stopping ==
  ASSUME NEW s, NEW L, Books(s, L), NEW S \in SUBSET s.connections
  PROVE  /\ Books(ConnState_stop(s, S), L) /\ Ended(s, ConnState_stop(s, S))
         /\ Books(going_down(s, S), L) /\ Ended(s, going_down(s, S))
         /\ \A c \in S : ~ConnState_stop(s, S).conn[c].alive
  <1>1. PICK t : t = stop_once(s, S) /\ Books(t, L) /\ Ended(s, t) /\ \A c \in S : ~t.conn[c].alive BY StopOnce, Zenon
  <1>2. Up(s, S) \in SUBSET s.connections BY Zenon DEF Up
  <1>3. Up(s, S) \in SUBSET t.connections BY <1>1, <1>2, Zenon DEF Ended
  <1>4. PICK u : u = stop_once(t, Up(s, S)) /\ Books(u, L) /\ Ended(t, u) BY <1>1, <1>3, StopOnce, Zenon
  <1>5. u = ConnState_stop(s, S) BY <1>1, <1>4, Zenon DEF ConnState_stop
  <1>6. Ended(s, u) BY <1>1, <1>4, EndedTwice, Zenon
  <1>7. Books(going_down(s, S), L) /\ Ended(s, going_down(s, S)) BY <1>2, StopOnce, Zenon DEF going_down
  <1>8. \A c \in S : ~u.conn[c].alive
    <2>1. \A c \in S : c \in Conns BY Zenon DEF Books, Daemon
    <2> QED BY <1>1, <1>4, <2>1, Zenon DEF Ended
  <1> QED BY <1>4, <1>5, <1>6, <1>7, <1>8, Zenon

\* EIBnetServer::stop_
LEMMA ServerStop ==
  ASSUME NEW s, NEW L, Books(s, L)
  PROVE  Books(stop_(s), L) /\ Ended(s, stop_(s))
  <1> DEFINE q == [s EXCEPT !.drop_active = FALSE, !.drop_trigger = FALSE]
  <1>1. s \in Daemon BY DEF Books
  <1>2. q \in Daemon BY <1>1, Zenon DEF Daemon
  <1>3. /\ q.connections = s.connections /\ q.links = s.links /\ q.n = s.n /\ q.drop_q = s.drop_q
        /\ q.vbusmonitor = s.vbusmonitor /\ q.client_addrs = s.client_addrs /\ q.drop_active = FALSE
        /\ q.conn = s.conn /\ q.aborted = s.aborted
    BY <1>1, Zenon DEF Daemon
  <1> HIDE DEF q
  <1>4. Books(q, L)
    <2>1. ~q.aborted BY <1>3, Zenon DEF Books
    <2>2. \A c \in Conns : Kept(s.conn[c], q.conn[c]) /\ (c \notin s.connections => q.conn[c] = s.conn[c])
      BY <1>3, Zenon DEF Kept
    <2> QED BY <1>2, <1>3, <2>1, <2>2, BooksKept, Zenon
  <1>5. PICK u : u = ConnState_stop(q, s.connections) /\ Books(u, L) /\ Ended(q, u) BY <1>3, <1>4, Stopping, Zenon
  <1> DEFINE w == [u EXCEPT !.sock = FALSE, !.mcast = FALSE, !.state = "stopped"]
  <1>6. u \in Daemon BY <1>5 DEF Books
  <1>7. w \in Daemon BY <1>6, Zenon DEF Daemon
  <1>8. /\ w.connections = u.connections /\ w.links = u.links /\ w.n = u.n /\ w.drop_q = u.drop_q
        /\ w.vbusmonitor = u.vbusmonitor /\ w.client_addrs = u.client_addrs /\ w.drop_active = u.drop_active
        /\ w.drop_trigger = u.drop_trigger /\ w.conn = u.conn /\ w.aborted = u.aborted
    BY <1>6, Zenon DEF Daemon
  <1>9. w = stop_(s) BY <1>5, Zenon DEF stop_, q
  <1> HIDE DEF w
  <1>10. Books(w, L)
    <2>1. ~w.aborted /\ (w.drop_active /\ w.drop_q # {} => w.drop_trigger) BY <1>5, <1>8, Zenon DEF Books, Listed
    <2>2. \A c \in Conns : Kept(u.conn[c], w.conn[c]) /\ (c \notin u.connections => w.conn[c] = u.conn[c])
      BY <1>8, Zenon DEF Kept
    <2> QED BY <1>5, <1>7, <1>8, <2>1, <2>2, BooksKept, Zenon
  <1>11. Ended(s, w)
    <2>1. \A c \in Conns : \/ u.conn[c] = q.conn[c]
                           \/ ~u.conn[c].alive /\ u.conn[c].put = q.conn[c].put /\ ConnOK(u.conn[c])
      BY <1>5, Zenon DEF Ended
    <2> QED BY <1>3, <1>5, <1>8, <2>1, Zenon DEF Ended
  <1> QED BY <1>9, <1>10, <1>11, Zenon
-----------------------------------------------------------------------------
\* Sequence numbers.
LEMMA IncFacts == \A a, b \in Seqno : Inc(a) # a /\ (Inc(a) = Inc(b) => a = b)
  <1>1. \A a \in Seqno : Inc(a) = IF a = Seqnos - 1 THEN 0 ELSE a + 1 BY ServerConfig, SMT DEF Inc, Seqno
  <1> QED BY <1>1, ServerConfig, SMT DEF Seqno

\* Lengths are numbers.
LEMMA ConfIs == ASSUME NEW k \in Conn PROVE Conf(k) \in Int /\ Len(k.put) \in Nat /\ Len(k.out) \in Nat
  BY SMT DEF Conf, Conn

\* Two sequences, one after the other.
LEMMA Concat ==
  ASSUME NEW a \in Seq(Int), NEW b \in Seq(Int)
  PROVE  /\ a \o b \in Seq(Int) /\ Len(a \o b) = Len(a) + Len(b) /\ Len(a) \in Nat /\ Len(b) \in Nat
         /\ \A i \in 1 .. Len(a) : (a \o b)[i] = a[i]
         /\ \A i \in 1 .. Len(b) : (a \o b)[Len(a) + i] = b[i]
  BY SMT

\* The client's end does not see a step of the server that sends and confirms nothing,
\* nor the end of the connection.
LEMMA SessionSame ==
  ASSUME NEW k, NEW e, NEW l, NEW rq, NEW ak, Session(k, l, rq, ak), e.put = k.put,
         e.alive => k.alive /\ e.out = k.out /\ e.sno = k.sno /\ (e.retries # 0 <=> k.retries # 0)
  PROVE  Session(e, l, rq, ak)
  <1>1. e.alive => Conf(e) = Conf(k) BY Zenon DEF Conf
  <1>2. \A m, j : Asked(k, l, m, j) => Asked(e, l, m, j)
    <2> SUFFICES ASSUME NEW m, NEW j, Asked(k, l, m, j) PROVE Asked(e, l, m, j) OBVIOUS
    <2>1. CASE ~e.alive BY <2>1, Zenon DEF Asked
    <2>2. CASE e.alive BY <1>1, <2>2, Zenon DEF Asked
    <2> QED BY <2>1, <2>2, Zenon
  <1>3. \A n, j : Answered(k, n, j) => Answered(e, n, j)
    <2> SUFFICES ASSUME NEW n, NEW j, Answered(k, n, j) PROVE Answered(e, n, j) OBVIOUS
    <2>1. CASE ~e.alive BY <2>1, Zenon DEF Answered
    <2>2. CASE e.alive BY <1>1, <2>2, Zenon DEF Answered
    <2> QED BY <2>1, <2>2, Zenon
  <1>4. e.alive => /\ Conf(e) \in Nat /\ \A i \in 1 .. Len(e.out) : e.out[i] = e.put[Conf(e) + i]
                   /\ \/ Len(l.got) = Conf(e) /\ l.rno = e.sno
                      \/ Len(l.got) = Conf(e) + 1 /\ l.rno = Inc(e.sno) /\ e.retries # 0
    BY <1>1, Zenon DEF Session
  <1> QED BY <1>2, <1>3, <1>4, Zenon DEF Session

\* Packets for the client join `out'.
LEMMA SessionOut ==
  ASSUME NEW k \in Conn, NEW e \in Conn, NEW l \in Client, NEW rq, NEW ak, Session(k, l, rq, ak), NEW xs \in Seq(Int),
         e.put = k.put \o xs, e.out = k.out \o xs, e.alive = k.alive, e.sno = k.sno, e.retries = k.retries
  PROVE  Session(e, l, rq, ak)
  <1>1. /\ k.put \in Seq(Int) /\ k.out \in Seq(Int) /\ e.put \in Seq(Int) /\ e.out \in Seq(Int) /\ l.got \in Seq(Int)
    BY Zenon DEF Conn, Client
  <1>2. Len(e.put) = Len(k.put) + Len(xs) /\ Len(e.out) = Len(k.out) + Len(xs) BY <1>1, SMT
  <1>3. Conf(e) = Conf(k) BY <1>1, <1>2, SMT DEF Conf
  <1>4. \A i \in 1 .. Len(k.put) : i \in 1 .. Len(e.put) /\ e.put[i] = k.put[i] BY <1>1, <1>2, SMT
  <1>5. \A m : \A j \in 1 .. Len(k.put) : Asked(k, l, m, j) => j \in 1 .. Len(e.put) /\ Asked(e, l, m, j)
    BY <1>3, <1>4, Zenon DEF Asked
  <1>6. \A n, j : Answered(k, n, j) => Answered(e, n, j) BY <1>3, Zenon DEF Answered
  <1>7. ASSUME k.alive
        PROVE  \A i \in 1 .. Len(e.out) : e.out[i] = e.put[Conf(e) + i]
    <2>1. Conf(k) \in Nat /\ \A i \in 1 .. Len(k.out) : k.out[i] = k.put[Conf(k) + i] BY <1>7, Zenon DEF Session
    <2>2. Len(k.put) = Conf(k) + Len(k.out) BY <1>1, SMT DEF Conf
    <2> SUFFICES ASSUME NEW i \in 1 .. Len(e.out) PROVE e.out[i] = e.put[Conf(k) + i] BY <1>3, Zenon
    <2>3. /\ \A g \in 1 .. Len(k.out) : e.out[g] = k.out[g] 
          /\ \A g \in 1 .. Len(xs) : e.out[Len(k.out) + g] = xs[g]
          /\ \A g \in 1 .. Len(xs) : e.put[Len(k.put) + g] = xs[g]
          /\ Len(k.out) \in Nat /\ Len(xs) \in Nat
      <3>1. /\ \A g \in 1 .. Len(k.out) : (k.out \o xs)[g] = k.out[g]
            /\ \A g \in 1 .. Len(xs) : (k.out \o xs)[Len(k.out) + g] = xs[g]
            /\ \A g \in 1 .. Len(xs) : (k.put \o xs)[Len(k.put) + g] = xs[g]
            /\ Len(k.out) \in Nat /\ Len(xs) \in Nat
        BY <1>1, Concat
      <3> QED BY <3>1, Zenon
    <2>4. CASE i \in 1 .. Len(k.out)
      <3>1. Conf(k) + i \in 1 .. Len(k.put) BY <2>1, <2>2, <2>3, <2>4, SMT
      <3> QED BY <1>4, <2>1, <2>3, <2>4, <3>1, Zenon
    <2>5. CASE i \notin 1 .. Len(k.out)
      <3> DEFINE g == i - Len(k.out)
      <3>1. g \in 1 .. Len(xs) /\ Len(k.out) + g = i /\ Len(k.put) + g = Conf(k) + i
        BY <1>2, <2>1, <2>2, <2>3, <2>5, SMT
      <3> QED BY <2>3, <3>1, Zenon
    <2> QED BY <2>4, <2>5, Zenon
  <1>8. Len(l.got) =< Len(e.put) /\ \A i \in 1 .. Len(l.got) : l.got[i] = e.put[i]
    <2>1. Len(l.got) =< Len(k.put) /\ \A i \in 1 .. Len(l.got) : l.got[i] = k.put[i] BY Zenon DEF Session
    <2>2. ASSUME NEW a \in Nat, NEW b \in Nat, NEW g \in Nat, g =< a
          PROVE  g =< a + b /\ \A i \in 1 .. g : i \in 1 .. a
      BY <2>2, SMT
    <2>3. Len(l.got) \in Nat /\ Len(k.put) \in Nat /\ Len(xs) \in Nat BY <1>1, SMT
    <2>4. Len(l.got) =< Len(e.put) /\ \A i \in 1 .. Len(l.got) : i \in 1 .. Len(k.put)
      BY <1>2, <2>1, <2>2, <2>3, Zenon
    <2> QED BY <1>4, <2>1, <2>4, Zenon
  <1>9. e.alive => /\ Conf(e) \in Nat /\ \A i \in 1 .. Len(e.out) : e.out[i] = e.put[Conf(e) + i]
                   /\ \/ Len(l.got) = Conf(e) /\ l.rno = e.sno
                      \/ Len(l.got) = Conf(e) + 1 /\ l.rno = Inc(e.sno) /\ e.retries # 0
    BY <1>3, <1>7, Zenon DEF Session
  <1> QED BY <1>5, <1>6, <1>8, <1>9, Zenon DEF Session

\* send_trigger_cb sends the first packet.
LEMMA SessionSent ==
  ASSUME NEW k \in Conn, NEW e \in Conn, NEW l \in Client, NEW rq, NEW ak, Session(k, l, rq, ak), NEW m,
         k.out # <<>>, k.alive, e.put = k.put, e.out = k.out, e.sno = k.sno, e.alive = k.alive, e.retries # 0,
         m.n = k.sno, m.x = k.out[1]
  PROVE  Session(e, l, <<m>>, ak)
  <1>1. k.put \in Seq(Int) /\ k.out \in Seq(Int) /\ l.got \in Seq(Int) BY Zenon DEF Conn, Client
  <1>2. Conf(e) = Conf(k) BY Zenon DEF Conf
  <1>3. /\ Conf(k) \in Nat /\ \A i \in 1 .. Len(k.out) : k.out[i] = k.put[Conf(k) + i]
        /\ \/ Len(l.got) = Conf(k) /\ l.rno = k.sno
           \/ Len(l.got) = Conf(k) + 1 /\ l.rno = Inc(k.sno)
    BY Zenon DEF Session
  <1>4. Conf(k) + 1 \in 1 .. Len(k.put) /\ k.out[1] = k.put[Conf(k) + 1] /\ <<m>> # <<>> /\ <<m>>[1] = m
    <2>1. Len(k.out) \in Nat \ {0} /\ Len(k.put) \in Nat BY <1>1, SMT
    <2>a. Conf(k) = Len(k.put) - Len(k.out) /\ Conf(k) \in Nat BY <1>3, Zenon DEF Conf
    <2>b. ASSUME NEW p \in Nat, NEW o \in Nat \ {0}, p - o \in Nat PROVE 1 \in 1 .. o /\ (p - o) + 1 \in 1 .. p
      BY <2>b, SMT
    <2>2. 1 \in 1 .. Len(k.out) /\ Conf(k) + 1 \in 1 .. Len(k.put) BY <2>1, <2>a, <2>b, Zenon
    <2>3. <<m>> # <<>> /\ <<m>>[1] = m BY SMT
    <2> QED BY <1>3, <2>2, <2>3, Zenon
  <1>5. Asked(e, l, m, Conf(k) + 1)
    <2>1. \/ Conf(k) + 1 = Len(l.got) /\ Inc(m.n) = l.rno
          \/ Conf(k) + 1 = Len(l.got) + 1 /\ m.n = l.rno
      BY <1>3, Zenon
    <2> QED BY <1>2, <1>4, <2>1, Zenon DEF Asked
  <1>6. \A n, j : Answered(k, n, j) => Answered(e, n, j) BY <1>2, Zenon DEF Answered
  <1>7. \E j \in 1 .. Len(e.put) : Asked(e, l, <<m>>[1], j) BY <1>4, <1>5, Zenon
  <1> QED BY <1>2, <1>3, <1>6, <1>7, Zenon DEF Session

\* An acknowledgement for the packet that is being sent confirms it.
LEMMA SessionConfirmed ==
  ASSUME NEW k \in Conn, NEW e \in Conn, NEW l \in Client, NEW rq, NEW ak, Session(k, l, rq, ak), k.alive,
         k.retries # 0, k.out # <<>>, ak # <<>>, ak[1] = k.sno, e.put = k.put, e.out = Tail(k.out),
         e.sno = Inc(k.sno), e.retries = 0, e.alive = k.alive
  PROVE  Session(e, l, rq, ak) /\ Session(e, l, rq, <<>>)
  <1>1. k.put \in Seq(Int) /\ k.out \in Seq(Int) /\ l.got \in Seq(Int) /\ k.sno \in Seqno BY Zenon DEF Conn, Client
  <1>2. /\ Len(k.out) \in Nat /\ Len(k.put) \in Nat /\ Len(l.got) \in Nat /\ Len(e.out) = Len(k.out) - 1
        /\ \A i \in 1 .. Len(e.out) : e.out[i] = k.out[i + 1] /\ i + 1 \in 1 .. Len(k.out)
    BY <1>1, SMT
  <1>3. Conf(e) = Conf(k) + 1 /\ Conf(k) \in Nat /\ Conf(e) \in Nat
    <2>1. Conf(k) \in Nat BY Zenon DEF Session
    <2>2. Conf(k) = Len(k.put) - Len(k.out) /\ Conf(e) = Len(k.put) - (Len(k.out) - 1) BY <1>2, Zenon DEF Conf
    <2>3. ASSUME NEW p \in Nat, NEW o \in Nat, p - o \in Nat
          PROVE  p - (o - 1) = (p - o) + 1 /\ p - (o - 1) \in Nat
      BY <2>3, SMT
    <2>4. Len(k.put) - (Len(k.out) - 1) = (Len(k.put) - Len(k.out)) + 1 /\ Len(k.put) - (Len(k.out) - 1) \in Nat
      BY <1>2, <2>1, <2>2, <2>3, Zenon
    <2> QED BY <2>1, <2>2, <2>4, Zenon
  <1>4. Len(l.got) = Conf(e) /\ l.rno = e.sno
    <2>1. PICK j \in 1 .. Len(l.got) : Answered(k, k.sno, j) BY Zenon DEF Session
    <2>2. j = Conf(k) + 1 BY <1>1, <2>1, IncFacts, Zenon DEF Answered
    <2>3. Len(l.got) # Conf(k) BY <1>2, <1>3, <2>2, SMT
    <2> QED BY <1>3, <2>3, Zenon DEF Session
  <1>5. \A i \in 1 .. Len(e.out) : e.out[i] = e.put[Conf(e) + i]
    <2> SUFFICES ASSUME NEW i \in 1 .. Len(e.out) PROVE e.out[i] = e.put[Conf(e) + i] OBVIOUS
    <2>1. k.out[i + 1] = k.put[Conf(k) + (i + 1)] BY <1>2, Zenon DEF Session
    <2>2. Conf(k) + (i + 1) = Conf(e) + i BY <1>2, <1>3, SMT
    <2> QED BY <1>2, <2>1, <2>2, Zenon
  <1>6. \A m, j : Asked(k, l, m, j) => Asked(e, l, m, j) BY <1>3, Zenon DEF Asked
  <1>7. \A j : Answered(k, k.sno, j) => Answered(e, k.sno, j) BY <1>1, <1>3, IncFacts, Zenon DEF Answered
  <1>8. rq # <<>> => \E j \in 1 .. Len(e.put) : Asked(e, l, rq[1], j) BY <1>6, Zenon DEF Session
  <1>9. \E j \in 1 .. Len(l.got) : Answered(e, ak[1], j) BY <1>7, Zenon DEF Session
  <1>10. Len(l.got) =< Len(e.put) /\ \A i \in 1 .. Len(l.got) : l.got[i] = e.put[i] BY Zenon DEF Session
  <1> QED BY <1>3, <1>4, <1>5, <1>8, <1>9, <1>10, Zenon DEF Session

\* The client takes a request that is new to it and acknowledges every one.
LEMMA SessionTaken ==
  ASSUME NEW k \in Conn, NEW l \in Client, NEW e \in Client, NEW rq, NEW ak, Session(k, l, rq, ak), NEW m \in Request,
         rq # <<>>, rq[1] = m,
         IF m.n = l.rno THEN e.rno = Inc(l.rno) /\ e.got = Append(l.got, m.x) ELSE e = l
  PROVE  Session(k, e, <<>>, <<m.n>>)
  <1>1. /\ k.put \in Seq(Int) /\ l.got \in Seq(Int) /\ e.got \in Seq(Int) /\ k.sno \in Seqno /\ l.rno \in Seqno
        /\ m.n \in Seqno /\ m.x \in Int
    BY Zenon DEF Conn, Client, Request
  <1>2. Len(k.put) \in Nat /\ Len(l.got) \in Nat BY <1>1, SMT
  <1>3. PICK j \in 1 .. Len(k.put) : Asked(k, l, m, j) BY Zenon DEF Session
  <1>4. <<m.n>> # <<>> /\ <<m.n>>[1] = m.n BY SMT
  <1>5. Len(l.got) =< Len(k.put) /\ \A i \in 1 .. Len(l.got) : l.got[i] = k.put[i] BY Zenon DEF Session
  <1>6. k.alive => /\ Conf(k) \in Nat /\ \A i \in 1 .. Len(k.out) : k.out[i] = k.put[Conf(k) + i]
                   /\ \/ Len(l.got) = Conf(k) /\ l.rno = k.sno
                      \/ Len(l.got) = Conf(k) + 1 /\ l.rno = Inc(k.sno) /\ k.retries # 0
    BY Zenon DEF Session
  <1>7. CASE j = Len(l.got) /\ Inc(m.n) = l.rno
    <2>1. e = l BY <1>1, <1>7, IncFacts, Zenon
    <2>2. j \in 1 .. Len(l.got) BY <1>2, <1>7, SMT
    <2>3. Answered(k, m.n, j)
      <3>1. CASE ~k.alive BY <3>1, Zenon DEF Answered
      <3>2. CASE k.alive /\ k.retries # 0
        <4>1. j = Conf(k) + 1 BY <1>3, <3>2, Zenon DEF Asked
        <4>2. Len(l.got) # Conf(k) BY <1>6, <1>7, <3>2, <4>1, SMT
        <4>3. m.n = k.sno BY <1>1, <1>6, <1>7, <3>2, <4>2, IncFacts, Zenon
        <4> QED BY <4>1, <4>3, Zenon DEF Answered
      <3>3. CASE k.alive /\ ~(k.retries # 0)
        <4>1. j = Conf(k) BY <1>3, <3>3, Zenon DEF Asked
        <4> QED BY <1>6, <1>7, <3>3, <4>1, Zenon DEF Answered
      <3> QED BY <3>1, <3>2, <3>3, Zenon
    <2> QED BY <1>4, <1>5, <1>6, <2>1, <2>2, <2>3, Zenon DEF Session
  <1>8. CASE j = Len(l.got) + 1 /\ m.n = l.rno
    <2>1. e.rno = Inc(l.rno) /\ e.got = Append(l.got, m.x) /\ m.x = k.put[j] BY <1>3, <1>8, Zenon DEF Asked
    <2>2. Len(e.got) = j /\ j \in 1 .. Len(e.got) /\ Len(e.got) =< Len(k.put)
      BY <1>1, <1>2, <1>8, <2>1, SMT
    <2>3. \A i \in 1 .. Len(e.got) : e.got[i] = k.put[i]
      <3>1. \A i \in 1 .. Len(e.got) : (i \in 1 .. Len(l.got) /\ e.got[i] = l.got[i]) \/ (i = j /\ e.got[i] = m.x)
        <4>1. \A i \in 1 .. Len(l.got) : Append(l.got, m.x)[i] = l.got[i] BY <1>1, SMT
        <4>2. Append(l.got, m.x)[Len(l.got) + 1] = m.x BY <1>1, SMT
        <4>3. \A i \in 1 .. Len(e.got) : i \in 1 .. Len(l.got) \/ i = j BY <1>2, <1>8, <2>2, SMT
        <4>4. \A i \in 1 .. Len(l.got) : e.got[i] = l.got[i] BY <2>1, <4>1, Zenon
        <4>5. e.got[j] = m.x BY <1>8, <2>1, <4>2, Zenon
        <4> QED BY <4>3, <4>4, <4>5, Zenon
      <3> QED BY <1>5, <2>1, <3>1, Zenon
    <2>4. k.alive => k.retries # 0 /\ j = Conf(k) + 1 /\ l.rno = k.sno
      <3> HAVE k.alive
      <3>1. j = IF k.retries # 0 THEN Conf(k) + 1 ELSE Conf(k) BY <1>3, Zenon DEF Asked
      <3>2. Conf(k) \in Nat /\ (Len(l.got) = Conf(k) \/ Len(l.got) = Conf(k) + 1) BY <1>6, Zenon
      <3>3. k.retries # 0 /\ j = Conf(k) + 1 /\ Len(l.got) # Conf(k) + 1 BY <1>2, <1>8, <3>1, <3>2, SMT
      <3> QED BY <1>6, <3>3, Zenon
    <2>5. Answered(k, m.n, j) BY <1>8, <2>4, Zenon DEF Answered
    <2> QED BY <1>4, <1>6, <1>8, <2>1, <2>2, <2>3, <2>4, <2>5, Zenon DEF Session
  <1> QED BY <1>3, <1>7, <1>8, Zenon DEF Asked
-----------------------------------------------------------------------------
\* Packets for the client.
LEMMA OutIs ==
  ASSUME NEW k \in Conn, NEW xs \in Seq(Int)
  PROVE  /\ Out(k, xs) \in Conn /\ Kept(k, Out(k, xs))
         /\ Out(k, xs).put = k.put \o xs /\ Out(k, xs).out = k.out \o xs
         /\ Out(k, xs).sno = k.sno /\ Out(k, xs).retries = k.retries /\ Out(k, xs).alive = k.alive
         /\ Timers(k) => Timers(Out(k, xs))
         /\ Queue(k) => Queue(Out(k, xs))
         /\ xs # <<>> /\ k.queue # "Q_DOWN" /\ k.up /\ k.queue = "Q_BUSY" /\ (k.type = "link" => k.do_send_next)
               => Queue(Out(k, xs))
  <1> DEFINE e == Out(k, xs)
             tr == k.trigger \/ (k.alive /\ k.retries = 0)
  <1>1. k.put \in Seq(Int) /\ k.out \in Seq(Int) /\ k.trigger \in BOOLEAN /\ tr \in BOOLEAN BY Zenon DEF Conn
  <1>2. k.put \o xs \in Seq(Int) /\ k.out \o xs \in Seq(Int) BY <1>1, Concat
  <1> HIDE DEF tr
  <1>3. e \in Conn BY <1>1, <1>2, Zenon DEF Out, Conn, tr
  <1>4. /\ e.put = k.put \o xs /\ e.out = k.out \o xs /\ e.trigger = tr
        /\ e.type = k.type /\ e.channel = k.channel /\ e.addr = k.addr /\ e.had = k.had /\ e.sno = k.sno
        /\ e.retries = k.retries /\ e.do_send_next = k.do_send_next /\ e.timeout = k.timeout
        /\ e.sendtimeout = k.sendtimeout /\ e.alive = k.alive /\ e.up = k.up /\ e.queue = k.queue
        /\ e.buf = k.buf /\ e.qtrigger = k.qtrigger
    BY Zenon DEF Out, Conn, tr
  <1> HIDE DEF e
  <1>5. (e.out = <<>> => k.out = <<>>) /\ (xs # <<>> => e.out # <<>>) BY <1>1, <1>4, SMT
  <1>6. Timers(k) => Timers(e)
    <2> HAVE Timers(k)
    <2>1. e.trigger <=> k.trigger \/ (k.alive /\ k.retries = 0) BY <1>4, Zenon DEF tr
    <2> QED BY <1>4, <1>5, <2>1, SMT DEF Timers
  <1>7. Queue(k) => Queue(e) BY <1>4, <1>5, Zenon DEF Queue
  <1>8. xs # <<>> /\ k.queue # "Q_DOWN" /\ k.up /\ k.queue = "Q_BUSY" /\ (k.type = "link" => k.do_send_next) => Queue(e)
    BY <1>4, <1>5, SMT DEF Queue
  <1> QED BY <1>3, <1>4, <1>6, <1>7, <1>8, Zenon DEF e, Kept

\* An acknowledgement for the packet that is being sent.
LEMMA ConfirmedIs ==
  ASSUME NEW k \in Conn, ConnOK(k), k.alive, k.retries > 0
  PROVE  /\ Confirmed(k) \in Conn /\ Kept(k, Confirmed(k)) /\ ConnOK(Confirmed(k))
         /\ Confirmed(k).put = k.put /\ Confirmed(k).out = Tail(k.out) /\ Confirmed(k).sno = Inc(k.sno)
         /\ Confirmed(k).retries = 0 /\ Confirmed(k).alive = k.alive /\ k.out # <<>>
  <1> DEFINE r == [k EXCEPT !.sno = Inc(@), !.out = Tail(@), !.sendtimeout = FALSE, !.retries = 0]
             q == [r EXCEPT !.do_send_next = FALSE]
  <1>1. k.out \in Seq(Int) /\ k.out # <<>> /\ k.sno \in Seqno /\ k.retries \in Nat /\ k.retries # 0
    <2>1. k.out \in Seq(Int) /\ k.sno \in Seqno /\ k.retries \in Nat BY Zenon DEF Conn
    <2> QED BY <2>1, SMT DEF ConnOK, Timers
  <1>2. Tail(k.out) \in Seq(Int) /\ Inc(k.sno) \in Seqno BY <1>1, Basics, SMT
  <1>3. r \in Conn BY <1>2, Basics, Zenon DEF Conn
  <1>4. /\ r.sno = Inc(k.sno) /\ r.out = Tail(k.out) /\ r.sendtimeout = FALSE /\ r.retries = 0 /\ r.put = k.put
        /\ r.type = k.type /\ r.channel = k.channel /\ r.addr = k.addr /\ r.had = k.had /\ r.trigger = k.trigger
        /\ r.do_send_next = k.do_send_next /\ r.timeout = k.timeout /\ r.alive = k.alive /\ r.up = k.up
        /\ r.queue = k.queue /\ r.buf = k.buf /\ r.qtrigger = k.qtrigger
    BY Zenon DEF Conn
  <1> HIDE DEF r
  <1>5. CASE r.out # <<>>
    <2> DEFINE e == [r EXCEPT !.trigger = @ \/ r.alive]
    <2>1. Confirmed(k) = e BY <1>5, Zenon DEF Confirmed, r
    <2>2. e \in Conn BY <1>3, Zenon DEF Conn
    <2>3. /\ e.sno = r.sno /\ e.out = r.out /\ e.sendtimeout = r.sendtimeout /\ e.retries = r.retries /\ e.put = r.put
          /\ e.type = r.type /\ e.channel = r.channel /\ e.addr = r.addr /\ e.had = r.had /\ e.trigger
          /\ e.do_send_next = r.do_send_next /\ e.timeout = r.timeout /\ e.alive = r.alive /\ e.up = r.up
          /\ e.queue = r.queue /\ e.buf = r.buf /\ e.qtrigger = r.qtrigger
      BY <1>3, <1>4, Zenon DEF Conn
    <2> HIDE DEF e
    <2>4. Timers(e) BY <1>4, <1>5, <2>3, SMT DEF Timers, ConnOK
    <2>5. Queue(e) BY <1>4, <1>5, <2>3, Zenon DEF Queue, ConnOK
    <2> QED BY <1>1, <1>4, <2>1, <2>2, <2>3, <2>4, <2>5, Zenon DEF ConnOK, Kept
  <1>6. CASE r.out = <<>> /\ ~r.do_send_next
    <2>1. Confirmed(k) = r BY <1>6, Zenon DEF Confirmed, r
    <2>a. 0 \in 0 .. 3 /\ 0 \notin {1, 3} /\ 0 \in {0, 2} /\ 0 # 2 BY SMT
    <2>2. Timers(r) BY <1>4, <1>6, <2>a, Zenon DEF Timers, ConnOK
    <2>3. Queue(r) BY <1>4, <1>6, Zenon DEF Queue, ConnOK
    <2> QED BY <1>1, <1>3, <1>4, <2>1, <2>2, <2>3, Zenon DEF ConnOK, Kept
  <1>7. CASE r.out = <<>> /\ r.do_send_next
    <2> DEFINE e == IF r.queue = "Q_BUSY" THEN [q EXCEPT !.queue = "Q_IDLE", !.qtrigger = TRUE] ELSE q
    <2>1. Confirmed(k) = send_Next(q) BY <1>7, Zenon DEF Confirmed, r
    <2>2. q \in Conn /\ q.queue = r.queue BY <1>3, Zenon DEF Conn
    <2>3. Confirmed(k) = e BY <2>1, <2>2, Zenon DEF send_Next
    <2>4. [q EXCEPT !.queue = "Q_IDLE", !.qtrigger = TRUE] \in Conn BY <2>2, Zenon DEF Conn
    <2>5. e \in Conn BY <2>2, <2>4, Zenon
    <2>6. /\ e.sno = r.sno /\ e.out = r.out /\ e.sendtimeout = r.sendtimeout /\ e.retries = r.retries /\ e.put = r.put
          /\ e.type = r.type /\ e.channel = r.channel /\ e.addr = r.addr /\ e.had = r.had /\ e.trigger = r.trigger
          /\ e.do_send_next = FALSE /\ e.timeout = r.timeout /\ e.alive = r.alive /\ e.up = r.up /\ e.buf = r.buf
          /\ e.queue = IF r.queue = "Q_BUSY" THEN "Q_IDLE" ELSE r.queue
          /\ r.queue = "Q_BUSY" => e.qtrigger
          /\ r.queue # "Q_BUSY" => e.qtrigger = r.qtrigger
      <3>1. CASE r.queue = "Q_BUSY" BY <1>3, <2>2, <3>1, Zenon DEF Conn
      <3>2. CASE r.queue # "Q_BUSY" BY <1>3, <2>2, <3>2, Zenon DEF Conn
      <3> QED BY <3>1, <3>2, Zenon
    <2> HIDE DEF e
    <2>7. Timers(e) BY <1>4, <1>7, <2>6, SMT DEF Timers, ConnOK
    <2>8. Queue(e) BY <1>4, <1>7, <2>6, SMT DEF Queue, ConnOK
    <2> QED BY <1>1, <1>4, <2>3, <2>5, <2>6, <2>7, <2>8, Zenon DEF ConnOK, Kept
  <1>8. r.do_send_next \in BOOLEAN BY <1>3, Zenon DEF Conn
  <1> QED BY <1>5, <1>6, <1>7, <1>8, Zenon
-----------------------------------------------------------------------------
\* The lists of the server and the router.
SameLists(s, t) ==
    /\ t.connections = s.connections /\ t.links = s.links /\ t.n = s.n /\ t.drop_q = s.drop_q
    /\ t.vbusmonitor = s.vbusmonitor /\ t.client_addrs = s.client_addrs
    /\ t.drop_active = s.drop_active /\ t.drop_trigger = s.drop_trigger

\* A step that leaves the lists alone.
LEMMA ListsStep ==
  ASSUME SInv, d' \in Daemon, SameLists(d, d'), ~d'.aborted,
         \A c \in Conns : /\ Kept(d.conn[c], d'.conn[c]) /\ ConnOK(d'.conn[c])
                          /\ c \notin d.connections =>
                                d'.conn[c] = d.conn[c] /\ cl'[c] = cl[c] /\ req'[c] = req[c] /\ ack'[c] = ack[c]
                          /\ Session(d'.conn[c], cl'[c], req'[c], ack'[c]),
         cl' \in [Conns -> Client], req' \in [Conns -> {<<>>} \cup {<<m>> : m \in Request}],
         ack' \in [Conns -> {<<>>} \cup {<<n>> : n \in Seqno}],
         case' = case, lost' = lost
  PROVE  SInv'
  <1>1. Books(d, lost) BY DEF SInv
  <1>2. Books(d', lost)
    <2>1. d.drop_active /\ d.drop_q # {} => d.drop_trigger BY <1>1, Zenon DEF Books, Listed
    <2>2. \A c \in Conns : Kept(d.conn[c], d'.conn[c]) /\ (c \notin d.connections => d'.conn[c] = d.conn[c]) BY Zenon
    <2> QED BY <1>1, <2>1, <2>2, BooksKept, Zenon DEF SameLists
  <1>3. \A c \in Conns : c \notin d'.connections => cl'[c] = NoClient /\ req'[c] = <<>> /\ ack'[c] = <<>>
    BY Zenon DEF SInv, SameLists
  <1>4. Books(d', lost') BY <1>2, Zenon
  <1>5. \A c \in Conns : ConnOK(d'.conn[c]) /\ Session(d'.conn[c], cl'[c], req'[c], ack'[c]) BY Zenon
  <1>6. case' \in Cases BY Zenon DEF SInv
  <1> QED BY <1>3, <1>4, <1>5, <1>6, Zenon DEF SInv

\* A step of one connection.
LEMMA ConnStep ==
  ASSUME SInv, NEW c \in d.connections, NEW e \in Conn, d' \in Daemon, SameLists(d, d'), ~d'.aborted,
         d'.conn = [d.conn EXCEPT ![c] = e], Kept(d.conn[c], e), ConnOK(e),
         NEW l \in Client, NEW rq \in {<<>>} \cup {<<m>> : m \in Request}, NEW ak \in {<<>>} \cup {<<n>> : n \in Seqno},
         cl' = [cl EXCEPT ![c] = l], req' = [req EXCEPT ![c] = rq], ack' = [ack EXCEPT ![c] = ak],
         Session(e, l, rq, ak), case' = case, lost' = lost
  PROVE  SInv'
  <1>1. c \in Conns /\ d.conn \in [Conns -> Conn] BY Zenon DEF SInv, Books, Daemon
  <1>2. /\ cl \in [Conns -> Client] /\ req \in [Conns -> {<<>>} \cup {<<m>> : m \in Request}]
        /\ ack \in [Conns -> {<<>>} \cup {<<n>> : n \in Seqno}]
        /\ \A b \in Conns : ConnOK(d.conn[b]) /\ Session(d.conn[b], cl[b], req[b], ack[b])
    BY Zenon DEF SInv
  <1>3. /\ cl' \in [Conns -> Client] /\ req' \in [Conns -> {<<>>} \cup {<<m>> : m \in Request}]
        /\ ack' \in [Conns -> {<<>>} \cup {<<n>> : n \in Seqno}]
    BY <1>1, <1>2, Zenon
  <1>4. d'.conn[c] = e /\ cl'[c] = l /\ req'[c] = rq /\ ack'[c] = ak BY <1>1, <1>2, Zenon
  <1>5. \A b \in Conns : b # c => d'.conn[b] = d.conn[b] /\ cl'[b] = cl[b] /\ req'[b] = req[b] /\ ack'[b] = ack[b]
    BY <1>1, <1>2, Zenon
  <1>6. \A b \in Conns : /\ Kept(d.conn[b], d'.conn[b]) /\ ConnOK(d'.conn[b])
                         /\ b \notin d.connections =>
                               d'.conn[b] = d.conn[b] /\ cl'[b] = cl[b] /\ req'[b] = req[b] /\ ack'[b] = ack[b]
                         /\ Session(d'.conn[b], cl'[b], req'[b], ack'[b])
    <2> SUFFICES ASSUME NEW b \in Conns
                 PROVE  /\ Kept(d.conn[b], d'.conn[b]) /\ ConnOK(d'.conn[b])
                        /\ b \notin d.connections =>
                               d'.conn[b] = d.conn[b] /\ cl'[b] = cl[b] /\ req'[b] = req[b] /\ ack'[b] = ack[b]
                        /\ Session(d'.conn[b], cl'[b], req'[b], ack'[b])
      OBVIOUS
    <2>1. CASE b = c BY <1>4, <2>1, Zenon
    <2>2. CASE b # c
      <3>1. Kept(d.conn[b], d.conn[b]) BY Zenon DEF Kept
      <3> QED BY <1>2, <1>5, <2>2, <3>1, Zenon
    <2> QED BY <2>1, <2>2, Zenon
  <1> QED BY <1>3, <1>6, ListsStep, Zenon

\* Connections end.
LEMMA EndedStep ==
  ASSUME SInv, Books(d', lost), Ended(d, d'), UNCHANGED <<cl, req, ack, case, lost>>
  PROVE  SInv'
  <1>1. \A c \in Conns : ConnOK(d.conn[c]) /\ Session(d.conn[c], cl[c], req[c], ack[c]) BY Zenon DEF SInv
  <1>2. \A c \in Conns : ConnOK(d'.conn[c]) /\ Session(d'.conn[c], cl'[c], req'[c], ack'[c])
    <2> SUFFICES ASSUME NEW c \in Conns PROVE ConnOK(d'.conn[c]) /\ Session(d'.conn[c], cl[c], req[c], ack[c])
      BY Zenon
    <2>1. CASE d'.conn[c] = d.conn[c] BY <1>1, <2>1, Zenon
    <2>2. CASE ~d'.conn[c].alive /\ d'.conn[c].put = d.conn[c].put /\ ConnOK(d'.conn[c])
      BY <1>1, <2>2, SessionSame, Zenon
    <2> QED BY <2>1, <2>2, Zenon DEF Ended
  <1>3. \A c \in Conns : c \notin d'.connections => cl'[c] = NoClient /\ req'[c] = <<>> /\ ack'[c] = <<>>
    BY Zenon DEF SInv, Ended
  <1>4. /\ cl' \in [Conns -> Client] /\ req' \in [Conns -> {<<>>} \cup {<<m>> : m \in Request}]
        /\ ack' \in [Conns -> {<<>>} \cup {<<n>> : n \in Seqno}] /\ Books(d', lost')
        /\ case' \in Cases
    BY Zenon DEF SInv
  <1> QED BY <1>2, <1>3, <1>4, Zenon DEF SInv
-----------------------------------------------------------------------------
\* EIBnetServer::start, whether it succeeds or not, touches no connection.
LEMMA StartStep == ASSUME SInv, start PROVE SInv'
  <1>1. d \in Daemon /\ ~d.aborted BY Zenon DEF SInv, Books
  <1>2. /\ d' \in Daemon /\ SameLists(d, d') /\ d'.conn = d.conn /\ d'.aborted = d.aborted
        /\ UNCHANGED <<cl, req, ack, case, lost>>
    <2>1. d' = [d EXCEPT !.state = "up", !.sock = TRUE, !.mcast = "route" \in d.svc]
          \/ d' = [d EXCEPT !.state = "error", !.want_up = FALSE]
      BY Zenon DEF start
    <2>2. ("route" \in d.svc) \in BOOLEAN BY SMT
    <2>3. d' \in Daemon
      <3>1. CASE d' = [d EXCEPT !.state = "up", !.sock = TRUE, !.mcast = "route" \in d.svc]
        BY <1>1, <2>2, <3>1, Zenon DEF Daemon
      <3>2. CASE d' = [d EXCEPT !.state = "error", !.want_up = FALSE] BY <1>1, <3>2, Zenon DEF Daemon
      <3> QED BY <2>1, <3>1, <3>2, Zenon
    <2>4. SameLists(d, d') /\ d'.conn = d.conn /\ d'.aborted = d.aborted BY <1>1, <2>1, ZenonT(20) DEF Daemon, SameLists
    <2> QED BY <2>3, <2>4, Zenon DEF start
  <1>3. \A c \in Conns : Kept(d.conn[c], d.conn[c]) BY Zenon DEF Kept
  <1>4. \A c \in Conns : /\ Kept(d.conn[c], d'.conn[c]) /\ ConnOK(d'.conn[c])
                         /\ Session(d'.conn[c], cl'[c], req'[c], ack'[c])
    BY <1>2, <1>3, Zenon DEF SInv
  <1>5. /\ cl' \in [Conns -> Client] /\ req' \in [Conns -> {<<>>} \cup {<<m>> : m \in Request}]
        /\ ack' \in [Conns -> {<<>>} \cup {<<n>> : n \in Seqno}]
    BY <1>2, Zenon DEF SInv
  <1> QED BY <1>1, <1>2, <1>4, <1>5, ListsStep, Zenon

\* An error of the socket stops the server twice, and all connections with it.
LEMMA ErrorStep == ASSUME SInv, error_cb PROVE SInv'
  <1>1. Books(d, lost) BY DEF SInv
  <1>2. Books(stop_(d), lost) /\ Ended(d, stop_(d)) BY <1>1, ServerStop, Zenon
  <1>3. Books(stop_(stop_(d)), lost) /\ Ended(stop_(d), stop_(stop_(d))) BY <1>2, ServerStop, Zenon
  <1>4. Ended(d, stop_(stop_(d))) BY <1>2, <1>3, EndedTwice, Zenon
  <1>5. d' = stop_(stop_(d)) /\ UNCHANGED <<cl, req, ack, case, lost>> BY Zenon DEF error_cb
  <1> QED BY <1>3, <1>4, <1>5, EndedStep, Zenon

\* Router::stop_ ends the links and the server, in either order.
LEMMA RouterStopStep == ASSUME SInv, router_stop PROVE SInv'
  <1> DEFINE s == [d EXCEPT !.want_up = FALSE]
             links(t) == going_down(t, t.links)
             server(t) == IF t.state = "up" THEN stop_(t) ELSE t
  <1>1. d \in Daemon /\ Books(d, lost) BY Zenon DEF SInv, Books
  <1>2. s \in Daemon /\ s.conn = d.conn /\ s.aborted = d.aborted /\ s.connections = d.connections
        /\ s.links = d.links /\ s.n = d.n /\ s.drop_q = d.drop_q /\ s.vbusmonitor = d.vbusmonitor
        /\ s.client_addrs = d.client_addrs /\ s.drop_active = d.drop_active /\ s.drop_trigger = d.drop_trigger
    BY <1>1, Zenon DEF Daemon
  <1>3. d' \in {links(server(s)), server(links(s))} /\ UNCHANGED <<cl, req, ack, case, lost>>
    BY Zenon DEF router_stop
  <1> HIDE DEF s
  <1>4. Books(s, lost) /\ Ended(d, s)
    <2>1. \A c \in Conns : Kept(d.conn[c], s.conn[c]) /\ (c \notin d.connections => s.conn[c] = d.conn[c])
      BY <1>2, Zenon DEF Kept
    <2>2. d.drop_active /\ d.drop_q # {} => d.drop_trigger BY <1>1, Zenon DEF Books, Listed
    <2>3. ~d.aborted BY <1>1, Zenon DEF Books
    <2>4. Books(s, lost) BY <1>1, <1>2, <2>1, <2>2, <2>3, BooksKept, Zenon
    <2> QED BY <1>2, <2>4, Zenon DEF Ended
  <1>5. \A t : Books(t, lost) => Books(server(t), lost) /\ Ended(t, server(t))
    <2> SUFFICES ASSUME NEW t, Books(t, lost) PROVE Books(server(t), lost) /\ Ended(t, server(t)) OBVIOUS
    <2>1. CASE t.state = "up" BY <2>1, ServerStop, Zenon
    <2>2. CASE t.state # "up" BY <2>2, Zenon DEF Ended
    <2> QED BY <2>1, <2>2, Zenon
  <1>6. \A t : Books(t, lost) => Books(links(t), lost) /\ Ended(t, links(t))
    <2> SUFFICES ASSUME NEW t, Books(t, lost) PROVE Books(links(t), lost) /\ Ended(t, links(t)) OBVIOUS
    <2>1. t.links \in SUBSET t.connections BY Zenon DEF Books, Listed
    <2> QED BY <2>1, Stopping, Zenon
  <1> HIDE DEF server, links
  <1>7. Books(d', lost) /\ Ended(d, d')
    <2>1. Books(links(server(s)), lost) /\ Ended(d, links(server(s))) BY <1>4, <1>5, <1>6, EndedTwice, Zenon
    <2>2. Books(server(links(s)), lost) /\ Ended(d, server(links(s))) BY <1>4, <1>5, <1>6, EndedTwice, Zenon
    <2> QED BY <1>3, <2>1, <2>2, Zenon
  <1> QED BY <1>3, <1>7, EndedStep, Zenon

\* DISCONNECT_REQUEST ends the connection that has the channel.
LEMMA DisconnectStep == ASSUME SInv, NEW ch, disconnect_request(ch) PROVE SInv'
  <1>1. PICK c \in d.connections : d' = ConnState_stop(d, {c}) BY Zenon DEF disconnect_request, Find
  <1>2. {c} \in SUBSET d.connections /\ Books(d, lost) BY Zenon DEF SInv
  <1>3. UNCHANGED <<cl, req, ack, case, lost>> BY Zenon DEF disconnect_request
  <1> QED BY <1>1, <1>2, <1>3, Stopping, EndedStep, Zenon

\* A connection that was never opened has no timer and no trigger.
LEMMA TimerListed ==
  ASSUME SInv, NEW c \in Conns, d.conn[c].timeout \/ d.conn[c].sendtimeout \/ d.conn[c].trigger \/ d.conn[c].qtrigger
  PROVE  c \in d.connections
  BY NoConnIs, Zenon DEF SInv, Books, Listed

\* ConnState::timeout_cb ends a connection.
LEMMA TimeoutStep == ASSUME SInv, NEW c \in Conns, timeout_cb(c) PROVE SInv'
  <1>1. c \in d.connections BY TimerListed, Zenon DEF timeout_cb
  <1>2. {c} \in SUBSET d.connections /\ Books(d, lost) BY <1>1, Zenon DEF SInv
  <1>3. d' = ConnState_stop(d, {c}) /\ UNCHANGED <<cl, req, ack, case, lost>> BY Zenon DEF timeout_cb
  <1> QED BY <1>2, <1>3, Stopping, EndedStep, Zenon
-----------------------------------------------------------------------------
\* What the invariant says about one connection, with its type.
LEMMA OneConn ==
  ASSUME SInv, NEW c \in Conns
  PROVE  /\ d \in Daemon /\ d.conn \in [Conns -> Conn] /\ d.conn[c] \in Conn /\ ConnOK(d.conn[c]) /\ ~d.aborted
         /\ Session(d.conn[c], cl[c], req[c], ack[c]) /\ cl[c] \in Client
         /\ req[c] \in {<<>>} \cup {<<m>> : m \in Request} /\ ack[c] \in {<<>>} \cup {<<n>> : n \in Seqno}
         /\ [cl EXCEPT ![c] = cl[c]] = cl /\ [req EXCEPT ![c] = req[c]] = req /\ [ack EXCEPT ![c] = ack[c]] = ack
  <1>1. /\ cl \in [Conns -> Client] /\ req \in [Conns -> {<<>>} \cup {<<m>> : m \in Request}]
        /\ ack \in [Conns -> {<<>>} \cup {<<n>> : n \in Seqno}]
    BY Zenon DEF SInv
  <1>2. \A f, S : f \in [Conns -> S] => [f EXCEPT ![c] = f[c]] = f BY Zenon
  <1>3. [cl EXCEPT ![c] = cl[c]] = cl /\ [req EXCEPT ![c] = req[c]] = req /\ [ack EXCEPT ![c] = ack[c]] = ack
    BY <1>1, <1>2, Zenon
  <1>4. d \in Daemon /\ ~d.aborted /\ d.conn \in [Conns -> Conn] BY Zenon DEF SInv, Books, Daemon
  <1> QED BY <1>1, <1>3, <1>4, Zenon DEF SInv

\* A step that changes one connection and nothing else in the daemon.
LEMMA ConnOnly ==
  ASSUME SInv, NEW c \in Conns, c \in d.connections, NEW e \in Conn, d' = [d EXCEPT !.conn[c] = e],
         Kept(d.conn[c], e), Timers(e), Queue(e),
         NEW l \in Client, NEW rq \in {<<>>} \cup {<<m>> : m \in Request}, NEW ak \in {<<>>} \cup {<<n>> : n \in Seqno},
         cl' = [cl EXCEPT ![c] = l], req' = [req EXCEPT ![c] = rq], ack' = [ack EXCEPT ![c] = ak],
         Session(e, l, rq, ak), UNCHANGED <<case, lost>>
  PROVE  SInv'
  <1> DEFINE f == [d.conn EXCEPT ![c] = e]
  <1>1. d \in Daemon /\ ~d.aborted BY Zenon DEF SInv, Books
  <1>2. f \in [Conns -> Conn] BY <1>1, Zenon DEF Daemon
  <1>3. d' = [d EXCEPT !.conn = f] BY Zenon
  <1> HIDE DEF f
  <1>4. d' \in Daemon BY <1>1, <1>2, <1>3, ZenonT(20) DEF Daemon
  <1>5. SameLists(d, d') /\ d'.aborted = d.aborted /\ d'.conn = f BY <1>1, <1>3, Zenon DEF Daemon, SameLists
  <1>6. d'.conn = [d.conn EXCEPT ![c] = e] BY <1>5 DEF f
  <1>7. ConnOK(e) BY DEF ConnOK
  <1>8. ~d'.aborted BY <1>1, <1>5, Zenon
  <1>9. case' = case /\ lost' = lost OBVIOUS
  <1> QED BY <1>4, <1>5, <1>6, <1>7, <1>8, <1>9, ConnStep, Zenon

\* ConnState::send_trigger_cb
LEMMA SendTriggerStep == ASSUME SInv, NEW c \in Conns, send_trigger_cb(c) PROVE SInv'
  <1> DEFINE q == d.conn[c]
             k == [q EXCEPT !.trigger = FALSE]
             e == [k EXCEPT !.retries = @ + 1, !.sendtimeout = TRUE]
             m == [n |-> k.sno, x |-> k.out[1]]
  <1>1. /\ d \in Daemon /\ d.conn \in [Conns -> Conn] /\ q \in Conn /\ ConnOK(q) /\ ~d.aborted
        /\ Session(q, cl[c], req[c], ack[c]) /\ cl[c] \in Client
        /\ req[c] \in {<<>>} \cup {<<p>> : p \in Request} /\ ack[c] \in {<<>>} \cup {<<p>> : p \in Seqno}
        /\ [cl EXCEPT ![c] = cl[c]] = cl /\ [req EXCEPT ![c] = req[c]] = req /\ [ack EXCEPT ![c] = ack[c]] = ack
    BY OneConn
  <1>2. /\ q.trigger /\ UNCHANGED <<cl, ack, case, lost>>
        /\ IF k.out = <<>> THEN d' = [d EXCEPT !.conn[c] = k] /\ UNCHANGED req
           ELSE d' = [d EXCEPT !.conn[c] = e] /\ req' = [req EXCEPT ![c] = <<m>>]
    BY Zenon DEF send_trigger_cb
  <1>3. c \in d.connections BY <1>2, TimerListed, Zenon
  <1> HIDE DEF q
  <1>4. k \in Conn BY <1>1, Zenon DEF Conn
  <1>5. /\ k.type = q.type /\ k.channel = q.channel /\ k.addr = q.addr /\ k.had = q.had /\ k.sno = q.sno
        /\ k.retries = q.retries /\ k.do_send_next = q.do_send_next /\ k.timeout = q.timeout /\ k.put = q.put
        /\ k.sendtimeout = q.sendtimeout /\ k.alive = q.alive /\ k.up = q.up /\ k.queue = q.queue
        /\ k.buf = q.buf /\ k.qtrigger = q.qtrigger /\ k.out = q.out /\ k.trigger = FALSE
    BY <1>1, Zenon DEF Conn
  <1> HIDE DEF k
  <1>6. q.retries \in Nat /\ q.out \in Seq(Int) /\ q.sno \in Seqno BY <1>1, Zenon DEF Conn
  <1>7. q.alive /\ q.retries \in {0, 2} BY <1>1, <1>2, Zenon DEF ConnOK, Timers
  <1>a. /\ UNCHANGED <<case, lost>> /\ cl[c] \in Client
        /\ req[c] \in {<<>>} \cup {<<p>> : p \in Request} /\ ack[c] \in {<<>>} \cup {<<p>> : p \in Seqno}
    BY <1>1, <1>2, Zenon
  <1>8. CASE k.out = <<>>
    <2>1. Kept(q, k) BY <1>5, Zenon DEF Kept
    <2>2. q.retries = 0 BY <1>1, <1>5, <1>7, <1>8, Zenon DEF ConnOK, Timers
    <2>3. Timers(k) BY <1>1, <1>5, <1>8, <2>2, SMT DEF ConnOK, Timers
    <2>4. Queue(k) BY <1>1, <1>5, Zenon DEF ConnOK, Queue
    <2>5. Session(k, cl[c], req[c], ack[c]) BY <1>1, <1>5, SessionSame, ZenonT(20)
    <2>6. d' = [d EXCEPT !.conn[c] = k] /\ req' = req BY <1>2, <1>8, Zenon
    <2>7. cl' = [cl EXCEPT ![c] = cl[c]] /\ req' = [req EXCEPT ![c] = req[c]] /\ ack' = [ack EXCEPT ![c] = ack[c]]
      BY <1>1, <1>2, <2>6, Zenon
    <2>8. Kept(d.conn[c], k) BY <2>1 DEF q
    <2> QED BY <1>3, <1>4, <1>a, <2>3, <2>4, <2>5, <2>6, <2>7, <2>8, ConnOnly, Zenon
  <1>9. CASE k.out # <<>>
    <2>1. q.retries + 1 \in Nat /\ q.retries + 1 \in {1, 3} BY <1>6, <1>7, SMT
    <2>2. e \in Conn BY <1>4, <1>5, <2>1, Zenon DEF Conn
    <2>3. /\ e.type = k.type /\ e.channel = k.channel /\ e.addr = k.addr /\ e.had = k.had /\ e.sno = k.sno
          /\ e.retries = q.retries + 1 /\ e.do_send_next = k.do_send_next /\ e.timeout = k.timeout /\ e.put = k.put
          /\ e.sendtimeout = TRUE /\ e.alive = k.alive /\ e.up = k.up /\ e.queue = k.queue
          /\ e.buf = k.buf /\ e.qtrigger = k.qtrigger /\ e.out = k.out /\ e.trigger = FALSE
      BY <1>4, <1>5, Zenon DEF Conn
    <2>4. d' = [d EXCEPT !.conn[c] = e] /\ req' = [req EXCEPT ![c] = <<m>>] BY <1>2, <1>9, Zenon
    <2>5. m.n = q.sno /\ m.x = q.out[1] /\ m \in Request
      <3>1. q.out[1] \in Int BY <1>5, <1>6, <1>9, SMT
      <3> QED BY <1>5, <1>6, <3>1, Zenon DEF Request
    <2> HIDE DEF e, m
    <2>6. Kept(q, e) BY <1>5, <2>3, Zenon DEF Kept
    <2>7. Timers(e) BY <1>1, <1>5, <1>7, <1>9, <2>1, <2>3, SMT DEF ConnOK, Timers
    <2>8. Queue(e) BY <1>1, <1>5, <2>3, Zenon DEF ConnOK, Queue
    <2>9. Session(e, cl[c], <<m>>, ack[c])
      <3>1. e.retries # 0 BY <2>1, <2>3, SMT
      <3> QED BY <1>1, <1>5, <1>7, <1>9, <2>2, <2>3, <2>5, <3>1, SessionSent, ZenonT(20)
    <2>10. cl' = [cl EXCEPT ![c] = cl[c]] /\ ack' = [ack EXCEPT ![c] = ack[c]] BY <1>1, <1>2, Zenon
    <2>a. Kept(d.conn[c], e) BY <2>6 DEF q
    <2>11. <<m>> \in {<<>>} \cup {<<p>> : p \in Request} BY <2>5, Zenon
    <2> QED BY <1>3, <1>a, <2>2, <2>4, <2>7, <2>8, <2>9, <2>10, <2>a, <2>11, ConnOnly, Zenon
  <1> QED BY <1>8, <1>9, Zenon

\* ConnState::sendtimeout_cb
LEMMA SendTimeoutStep == ASSUME SInv, NEW c \in Conns, sendtimeout_cb(c) PROVE SInv'
  <1> DEFINE q == d.conn[c]
             k == [q EXCEPT !.sendtimeout = FALSE, !.retries = @ + 1]
             e == [k EXCEPT !.trigger = TRUE]
             g == [k EXCEPT !.out = Tail(@)]
             s == [d EXCEPT !.conn[c] = g]
  <1>1. /\ d \in Daemon /\ d.conn \in [Conns -> Conn] /\ q \in Conn /\ ConnOK(q) /\ ~d.aborted
        /\ Session(q, cl[c], req[c], ack[c]) /\ cl[c] \in Client
        /\ req[c] \in {<<>>} \cup {<<p>> : p \in Request} /\ ack[c] \in {<<>>} \cup {<<p>> : p \in Seqno}
        /\ [cl EXCEPT ![c] = cl[c]] = cl /\ [req EXCEPT ![c] = req[c]] = req /\ [ack EXCEPT ![c] = ack[c]] = ack
    BY OneConn
  <1>2. /\ q.sendtimeout /\ UNCHANGED <<cl, req, ack, case, lost>>
        /\ d' = IF k.retries =< 2 THEN [d EXCEPT !.conn[c] = e] ELSE ConnState_stop(s, {c})
    BY Zenon DEF sendtimeout_cb
  <1>3. c \in d.connections BY <1>2, TimerListed, Zenon
  <1> HIDE DEF q
  <1>4. q.retries \in {1, 3} /\ q.retries + 1 \in Nat /\ q.out \in Seq(Int) /\ q.out # <<>>
        /\ (q.retries + 1 =< 2 => q.retries = 1) /\ q.alive
    <2>1. q.retries \in {1, 3} /\ q.out # <<>> /\ q.alive /\ q.out \in Seq(Int)
      <3>1. q.retries \in {1, 3} BY <1>1, <1>2, Zenon DEF ConnOK, Timers
      <3>2. q.retries # 0 BY <3>1, SMT
      <3>3. q.alive \in BOOLEAN /\ q.out \in Seq(Int) BY <1>1, Zenon DEF Conn
      <3> QED BY <1>1, <3>1, <3>2, <3>3, Zenon DEF ConnOK, Timers
    <2> QED BY <2>1, SMT
  <1>5. k \in Conn BY <1>1, <1>4, Zenon DEF Conn
  <1>6. /\ k.type = q.type /\ k.channel = q.channel /\ k.addr = q.addr /\ k.had = q.had /\ k.sno = q.sno
        /\ k.retries = q.retries + 1 /\ k.do_send_next = q.do_send_next /\ k.timeout = q.timeout /\ k.put = q.put
        /\ k.sendtimeout = FALSE /\ k.alive = q.alive /\ k.up = q.up /\ k.queue = q.queue
        /\ k.buf = q.buf /\ k.qtrigger = q.qtrigger /\ k.out = q.out /\ k.trigger = q.trigger
    BY <1>1, Zenon DEF Conn
  <1> HIDE DEF k
  <1>7. CASE k.retries =< 2
    <2>1. e \in Conn BY <1>5, Zenon DEF Conn
    <2>2. /\ e.type = k.type /\ e.channel = k.channel /\ e.addr = k.addr /\ e.had = k.had /\ e.sno = k.sno
          /\ e.retries = k.retries /\ e.do_send_next = k.do_send_next /\ e.timeout = k.timeout /\ e.put = k.put
          /\ e.sendtimeout = FALSE /\ e.alive = k.alive /\ e.up = k.up /\ e.queue = k.queue
          /\ e.buf = k.buf /\ e.qtrigger = k.qtrigger /\ e.out = k.out /\ e.trigger = TRUE
      BY <1>5, <1>6, Zenon DEF Conn
    <2>3. d' = [d EXCEPT !.conn[c] = e] BY <1>2, <1>7, Zenon
    <2> HIDE DEF e
    <2>4. Kept(d.conn[c], e) BY <1>6, <2>2, Zenon DEF Kept, q
    <2>5. e.retries = 2 /\ q.retries = 1 BY <1>4, <1>6, <1>7, <2>2, SMT
    <2>6. Timers(e) BY <1>1, <1>4, <1>6, <2>2, <2>5, SMT DEF ConnOK, Timers
    <2>7. Queue(e) BY <1>1, <1>6, <2>2, Zenon DEF ConnOK, Queue
    <2>8. Session(e, cl[c], req[c], ack[c])
      <3>1. e.retries # 0 /\ q.retries # 0 BY <2>5, SMT
      <3> QED BY <1>1, <1>6, <2>2, <3>1, SessionSame, Zenon
    <2>9. /\ cl' = [cl EXCEPT ![c] = cl[c]] /\ req' = [req EXCEPT ![c] = req[c]] /\ ack' = [ack EXCEPT ![c] = ack[c]]
          /\ UNCHANGED <<case, lost>> /\ cl[c] \in Client
          /\ req[c] \in {<<>>} \cup {<<p>> : p \in Request} /\ ack[c] \in {<<>>} \cup {<<p>> : p \in Seqno}
      BY <1>1, <1>2, Zenon
    <2> QED BY <1>3, <2>1, <2>3, <2>4, <2>6, <2>7, <2>8, <2>9, ConnOnly, Zenon
  <1>8. CASE ~(k.retries =< 2)
    <2> DEFINE f == [d.conn EXCEPT ![c] = g]
    <2>1. Tail(q.out) \in Seq(Int) BY <1>4, SMT
    <2>2. g \in Conn BY <1>5, <1>6, <2>1, Zenon DEF Conn
    <2>3. g.type = k.type /\ g.channel = k.channel /\ g.addr = k.addr /\ g.had = k.had /\ g.alive = k.alive
          /\ g.up = k.up /\ g.put = k.put
      BY <1>5, Zenon DEF Conn
    <2> HIDE DEF g
    <2>4. f \in [Conns -> Conn] /\ f[c] = g /\ \A b \in Conns : b # c => f[b] = d.conn[b] BY <1>1, <2>2, Zenon
    <2>5. s = [d EXCEPT !.conn = f] BY Zenon
    <2> HIDE DEF f, s
    <2>6. s \in Daemon BY <1>1, <2>4, <2>5, Zenon DEF Daemon
    <2>7. SameLists(d, s) /\ s.conn = f /\ s.aborted = d.aborted BY <1>1, <2>5, Zenon DEF Daemon, SameLists
    <2>8. \A b \in Conns : Kept(d.conn[b], s.conn[b]) /\ (b \notin d.connections => s.conn[b] = d.conn[b])
      <3>1. Kept(d.conn[c], g) BY <1>6, <2>3, Zenon DEF Kept, q
      <3>2. \A b \in Conns : Kept(d.conn[b], d.conn[b]) BY Zenon DEF Kept
      <3> QED BY <1>3, <2>4, <2>7, <3>1, <3>2, Zenon
    <2>9. Books(s, lost)
      <3>1. Books(d, lost) /\ (d.drop_active /\ d.drop_q # {} => d.drop_trigger) BY Zenon DEF SInv, Books, Listed
      <3>2. /\ s.connections = d.connections /\ s.links = d.links /\ s.n = d.n /\ s.drop_q = d.drop_q
            /\ s.vbusmonitor = d.vbusmonitor /\ s.client_addrs = d.client_addrs
            /\ (s.drop_active /\ s.drop_q # {} => s.drop_trigger) /\ ~s.aborted
        BY <1>1, <2>7, <3>1, Zenon DEF SameLists
      <3> QED BY <2>6, <2>8, <3>1, <3>2, BooksKept, Zenon
    <2>10. d' = ConnState_stop(s, {c}) BY <1>2, <1>8, Zenon
    <2>11. {c} \in SUBSET s.connections BY <1>3, <2>7, Zenon DEF SameLists
    <2>12. Books(d', lost) /\ Ended(s, d') /\ ~d'.conn[c].alive BY <2>9, <2>10, <2>11, Stopping, Zenon
    <2>13. Ended(d, d')
      <3>1. d'.connections = d.connections BY <2>7, <2>12, Zenon DEF Ended, SameLists
      <3>2. ~d'.conn[c].alive /\ d'.conn[c].put = d.conn[c].put /\ ConnOK(d'.conn[c])
        <4>1. s.conn[c] = g /\ g.alive /\ g.put = d.conn[c].put BY <1>4, <1>6, <2>3, <2>4, <2>7, Zenon DEF q
        <4> QED BY <2>12, <4>1, Zenon DEF Ended
      <3>3. \A b \in Conns : b # c => s.conn[b] = d.conn[b] BY <2>4, <2>7, Zenon
      <3>4. \A b \in Conns : \/ d'.conn[b] = d.conn[b]
                             \/ ~d'.conn[b].alive /\ d'.conn[b].put = d.conn[b].put /\ ConnOK(d'.conn[b])
        <4> SUFFICES ASSUME NEW b \in Conns, b # c
                     PROVE  \/ d'.conn[b] = d.conn[b]
                            \/ ~d'.conn[b].alive /\ d'.conn[b].put = d.conn[b].put /\ ConnOK(d'.conn[b])
          BY <3>2, Zenon
        <4>1. s.conn[b] = d.conn[b] BY <3>3, Zenon
        <4> QED BY <2>12, <4>1, Zenon DEF Ended
      <3> QED BY <3>1, <3>4, Zenon DEF Ended
    <2> QED BY <1>2, <2>12, <2>13, EndedStep, Zenon
  <1> QED BY <1>7, <1>8, Zenon

\* QueueFilter::trigger_cb: the link is ready for a packet, as its assertion says.
LEMMA QueueTriggerStep == ASSUME SInv, NEW c \in Conns, queue_trigger_cb(c) PROVE SInv'
  <1> DEFINE q == d.conn[c]
             k == [q EXCEPT !.qtrigger = FALSE]
             g == [k EXCEPT !.buf = Tail(@), !.queue = "Q_BUSY"]
             h == [g EXCEPT !.do_send_next = TRUE]
             e == send_L_Data(g, k.buf[1])
             ab == d.aborted \/ send_L_Data_aborts(k)
  <1>1. /\ d \in Daemon /\ d.conn \in [Conns -> Conn] /\ q \in Conn /\ ConnOK(q) /\ ~d.aborted
        /\ Session(q, cl[c], req[c], ack[c]) /\ cl[c] \in Client
        /\ req[c] \in {<<>>} \cup {<<p>> : p \in Request} /\ ack[c] \in {<<>>} \cup {<<p>> : p \in Seqno}
        /\ [cl EXCEPT ![c] = cl[c]] = cl /\ [req EXCEPT ![c] = req[c]] = req /\ [ack EXCEPT ![c] = ack[c]] = ack
    BY OneConn
  <1>2. /\ q.qtrigger /\ UNCHANGED <<cl, req, ack, case, lost>>
        /\ d' = IF k.buf = <<>> \/ k.queue # "Q_IDLE" THEN [d EXCEPT !.conn[c] = k]
                ELSE [d EXCEPT !.conn[c] = e, !.aborted = ab]
    BY Zenon DEF queue_trigger_cb
  <1>3. c \in d.connections BY <1>2, TimerListed, Zenon
  <1> HIDE DEF q
  <1>4. k \in Conn BY <1>1, Zenon DEF Conn
  <1>5. /\ k.type = q.type /\ k.channel = q.channel /\ k.addr = q.addr /\ k.had = q.had /\ k.sno = q.sno
        /\ k.retries = q.retries /\ k.do_send_next = q.do_send_next /\ k.timeout = q.timeout /\ k.put = q.put
        /\ k.sendtimeout = q.sendtimeout /\ k.alive = q.alive /\ k.up = q.up /\ k.queue = q.queue
        /\ k.buf = q.buf /\ k.qtrigger = FALSE /\ k.out = q.out /\ k.trigger = q.trigger
    BY <1>1, Zenon DEF Conn
  <1> HIDE DEF k
  <1>6. /\ cl' = [cl EXCEPT ![c] = cl[c]] /\ req' = [req EXCEPT ![c] = req[c]] /\ ack' = [ack EXCEPT ![c] = ack[c]]
        /\ UNCHANGED <<case, lost>> /\ cl[c] \in Client
        /\ req[c] \in {<<>>} \cup {<<p>> : p \in Request} /\ ack[c] \in {<<>>} \cup {<<p>> : p \in Seqno}
    BY <1>1, <1>2, Zenon
  <1>a. Session(q, cl[c], req[c], ack[c]) BY <1>1
  <1>7. CASE k.buf = <<>> \/ k.queue # "Q_IDLE"
    <2>1. Kept(d.conn[c], k) BY <1>5, Zenon DEF Kept, q
    <2>2. Timers(k) BY <1>1, <1>5, Zenon DEF ConnOK, Timers
    <2>3. Queue(k) BY <1>1, <1>5, <1>7, Zenon DEF ConnOK, Queue
    <2>4. Session(k, cl[c], req[c], ack[c]) BY <1>5, <1>a, SessionSame, Zenon
    <2>5. d' = [d EXCEPT !.conn[c] = k] BY <1>2, <1>7, Zenon
    <2> QED BY <1>3, <1>4, <1>6, <2>1, <2>2, <2>3, <2>4, <2>5, ConnOnly, Zenon
  <1>8. CASE k.buf # <<>> /\ k.queue = "Q_IDLE"
    <2>1. q.buf \in Seq(Int) /\ Tail(q.buf) \in Seq(Int) /\ k.buf[1] \in Int
      <3>1. q.buf \in Seq(Int) BY <1>1, Zenon DEF Conn
      <3> QED BY <1>5, <1>8, <3>1, SMT
    <2>2. g \in Conn BY <1>4, <1>5, <2>1, Zenon DEF Conn
    <2>3. h \in Conn BY <2>2, Zenon DEF Conn
    <2>4. /\ g.type = k.type /\ g.channel = k.channel /\ g.addr = k.addr /\ g.had = k.had /\ g.sno = k.sno
          /\ g.retries = k.retries /\ g.do_send_next = k.do_send_next /\ g.timeout = k.timeout /\ g.put = k.put
          /\ g.sendtimeout = k.sendtimeout /\ g.alive = k.alive /\ g.up = k.up /\ g.queue = "Q_BUSY"
          /\ g.qtrigger = FALSE /\ g.out = k.out /\ g.trigger = k.trigger
      BY <1>4, <1>5, Zenon DEF Conn
    <2>5. /\ h.type = g.type /\ h.channel = g.channel /\ h.addr = g.addr /\ h.had = g.had /\ h.sno = g.sno
          /\ h.retries = g.retries /\ h.do_send_next = TRUE /\ h.timeout = g.timeout /\ h.put = g.put
          /\ h.sendtimeout = g.sendtimeout /\ h.alive = g.alive /\ h.up = g.up /\ h.queue = g.queue
          /\ h.out = g.out /\ h.trigger = g.trigger
      BY <2>2, Zenon DEF Conn
    <2>6. e = IF g.type = "link" THEN Out(h, <<k.buf[1]>>) ELSE g BY Zenon DEF send_L_Data
    <2> HIDE DEF g, h, e
    <2>7. ~k.do_send_next /\ k.up BY <1>1, <1>5, <1>8, Zenon DEF ConnOK, Queue
    <2>a. Timers(k) BY <1>1, <1>5, Zenon DEF ConnOK, Timers
    <2>b. g.put = q.put /\ g.alive = q.alive /\ g.out = q.out /\ g.sno = q.sno /\ g.retries = q.retries
      BY <1>5, <2>4, Zenon
    <2>c. h.put = q.put /\ h.alive = q.alive /\ h.out = q.out /\ h.sno = q.sno /\ h.retries = q.retries
      BY <2>b, <2>5, Zenon
    <2>d. Timers(g) BY <2>4, <2>a, Zenon DEF Timers
    <2>e. Timers(h) BY <2>5, <2>d, Zenon DEF Timers
    <2>8. Timers(g) /\ Timers(h) BY <2>d, <2>e
    <2>9. /\ e \in Conn /\ Kept(d.conn[c], e) /\ Timers(e) /\ Queue(e)
          /\ Session(e, cl[c], req[c], ack[c])
      <3>1. CASE g.type = "link"
        <4> DEFINE xs == <<k.buf[1]>>
        <4>1. xs \in Seq(Int) /\ xs # <<>> BY <2>1, SMT
        <4> HIDE DEF xs
        <4>2. e = Out(h, xs) BY <2>6, <3>1, Zenon DEF xs
        <4>3. h.queue # "Q_DOWN" /\ h.up /\ h.queue = "Q_BUSY" /\ h.do_send_next BY <2>4, <2>5, <2>7, SMT
        <4>4. /\ e \in Conn /\ Kept(h, e) /\ Timers(e) /\ Queue(e) /\ e.put = h.put \o xs /\ e.out = h.out \o xs
              /\ e.alive = h.alive /\ e.sno = h.sno /\ e.retries = h.retries
          BY <2>3, <2>8, <4>1, <4>2, <4>3, OutIs, Zenon
        <4>5. Kept(d.conn[c], e) BY <1>5, <2>4, <2>5, <4>4, Zenon DEF Kept, q
        <4>6. Session(h, cl[c], req[c], ack[c]) BY <1>a, <2>c, SessionSame, Zenon
        <4>7. Session(e, cl[c], req[c], ack[c]) BY <1>1, <2>3, <4>1, <4>4, <4>6, SessionOut, Zenon
        <4> QED BY <4>4, <4>5, <4>7
      <3>2. CASE g.type # "link"
        <4>1. e = g BY <2>6, <3>2, Zenon
        <4>2. Kept(d.conn[c], g) BY <1>5, <2>4, Zenon DEF Kept, q
        <4>3. Queue(g) BY <2>4, <2>7, <3>2, SMT DEF Queue
        <4>4. Session(g, cl[c], req[c], ack[c]) BY <1>a, <2>b, SessionSame, Zenon
        <4> QED BY <2>2, <2>8, <4>1, <4>2, <4>3, <4>4, Zenon
      <3> QED BY <3>1, <3>2, Zenon
    <2>10. ab = FALSE BY <1>1, <2>7, Zenon DEF send_L_Data_aborts
    <2>11. d' = [d EXCEPT !.conn[c] = e, !.aborted = FALSE] BY <1>2, <1>8, <2>10, Zenon
    <2> DEFINE f == [d.conn EXCEPT ![c] = e]
    <2>12. f \in [Conns -> Conn] BY <1>1, <2>9, Zenon
    <2>13. d' = [d EXCEPT !.conn = f, !.aborted = FALSE] BY <2>11, Zenon
    <2> HIDE DEF f
    <2>14. d' \in Daemon BY <1>1, <2>12, <2>13, Zenon DEF Daemon
    <2>15. SameLists(d, d') /\ ~d'.aborted /\ d'.conn = f BY <1>1, <2>13, Zenon DEF Daemon, SameLists
    <2>16. d'.conn = [d.conn EXCEPT ![c] = e] BY <2>15 DEF f
    <2>17. ConnOK(e) BY <2>9 DEF ConnOK
    <2> QED BY <1>3, <1>6, <2>9, <2>14, <2>15, <2>16, <2>17, ConnStep, Zenon
  <1> QED BY <1>7, <1>8, Zenon

\* A packet from another link.
LEMMA BusStep == ASSUME SInv, bus PROVE SInv'
  <1>1. d \in Daemon /\ ~d.aborted BY Zenon DEF SInv, Books
  <1>2. d.x \in Int /\ d.router_buf \in Seq([src : 0 .. MaxConn, x : Int]) /\ 0 \in 0 .. MaxConn
    <2>1. d.x \in Int /\ d.router_buf \in Seq([src : 0 .. MaxConn, x : Int]) BY <1>1, Zenon DEF Daemon
    <2>2. 0 \in 0 .. MaxConn BY ServerConfig, SMT
    <2> QED BY <2>1, <2>2
  <1> DEFINE p == [src |-> 0, x |-> d.x]
             y == d.x + 1
             rb == Append(d.router_buf, p)
  <1>3. p \in [src : 0 .. MaxConn, x : Int] BY <1>2, Zenon
  <1> HIDE DEF p
  <1>4. y \in Int /\ rb \in Seq([src : 0 .. MaxConn, x : Int]) BY <1>2, <1>3, SMT
  <1>5. d' = [d EXCEPT !.x = y, !.router_buf = rb] /\ UNCHANGED <<cl, req, ack, case, lost>>
    BY Zenon DEF bus, p
  <1> HIDE DEF y, rb
  <1>6. d' \in Daemon BY <1>1, <1>4, <1>5, Zenon DEF Daemon
  <1>7. SameLists(d, d') /\ d'.conn = d.conn /\ d'.aborted = d.aborted BY <1>1, <1>5, Zenon DEF Daemon, SameLists
  <1>8. \A c \in Conns : Kept(d.conn[c], d.conn[c]) BY Zenon DEF Kept
  <1>9. \A c \in Conns : /\ Kept(d.conn[c], d'.conn[c]) /\ ConnOK(d'.conn[c])
                         /\ Session(d'.conn[c], cl'[c], req'[c], ack'[c])
    BY <1>5, <1>7, <1>8, Zenon DEF SInv
  <1>10. /\ cl' \in [Conns -> Client] /\ req' \in [Conns -> {<<>>} \cup {<<m>> : m \in Request}]
         /\ ack' \in [Conns -> {<<>>} \cup {<<n>> : n \in Seqno}]
    BY <1>5, Zenon DEF SInv
  <1> QED BY <1>1, <1>5, <1>6, <1>7, <1>9, <1>10, ListsStep, Zenon

\* A copy of a packet for each of n entries.
LEMMA Copies == ASSUME NEW n \in Nat, NEW x \in Int PROVE [i \in 1 .. n |-> x] \in Seq(Int)
  BY SMT

\* A packet reaches a bus monitor.
LEMMA MonitorGets ==
  ASSUME NEW k \in Conn, ConnOK(k), NEW x \in Int, NEW n \in Nat, NEW l \in Client, NEW rq, NEW ak, Session(k, l, rq, ak)
  PROVE  LET e == send_L_Busmonitor(k, x, n) IN e \in Conn /\ Kept(k, e) /\ ConnOK(e) /\ Session(e, l, rq, ak)
  <1> DEFINE e == send_L_Busmonitor(k, x, n)
             xs == [i \in 1 .. n |-> x]
  <1>1. xs \in Seq(Int) BY Copies
  <1>2. e \in {k, Out(k, xs)} BY Zenon DEF send_L_Busmonitor
  <1> HIDE DEF e, xs
  <1>3. CASE e = k
    <2>1. Kept(k, k) BY Zenon DEF Kept
    <2> QED BY <1>3, <2>1, Zenon DEF e
  <1>4. CASE e = Out(k, xs)
    <2>1. /\ e \in Conn /\ Kept(k, e) /\ ConnOK(e) /\ e.put = k.put \o xs /\ e.out = k.out \o xs
          /\ e.sno = k.sno /\ e.retries = k.retries /\ e.alive = k.alive
      BY <1>1, <1>4, OutIs, Zenon DEF ConnOK
    <2>2. Session(e, l, rq, ak) BY <1>1, <2>1, SessionOut, Zenon
    <2> QED BY <2>1, <2>2, Zenon DEF e
  <1> QED BY <1>2, <1>3, <1>4, Zenon

\* QueueFilter::send_L_Data
LEMMA QueueGets ==
  ASSUME NEW k \in Conn, ConnOK(k), NEW x \in Int, NEW l, NEW rq, NEW ak, Session(k, l, rq, ak)
  PROVE  LET e == Enqueue(k, x) IN e \in Conn /\ Kept(k, e) /\ ConnOK(e) /\ Session(e, l, rq, ak)
  <1> DEFINE b == Append(k.buf, x)
             qt == k.qtrigger \/ k.queue = "Q_IDLE"
             e == [k EXCEPT !.buf = b, !.qtrigger = qt]
  <1>1. CASE k.up
    <2>1. Enqueue(k, x) = e BY <1>1, Zenon DEF Enqueue
    <2>2. b \in Seq(Int) /\ qt \in BOOLEAN
      <3>1. k.buf \in Seq(Int) /\ k.qtrigger \in BOOLEAN BY Zenon DEF Conn
      <3> QED BY <3>1, SMT
    <2> HIDE DEF b, qt
    <2>3. e \in Conn BY <2>2, Zenon DEF Conn
    <2>4. /\ e.type = k.type /\ e.channel = k.channel /\ e.addr = k.addr /\ e.had = k.had /\ e.sno = k.sno
          /\ e.retries = k.retries /\ e.do_send_next = k.do_send_next /\ e.timeout = k.timeout /\ e.put = k.put
          /\ e.sendtimeout = k.sendtimeout /\ e.alive = k.alive /\ e.up = k.up /\ e.queue = k.queue
          /\ e.qtrigger = qt /\ e.out = k.out /\ e.trigger = k.trigger
      BY Zenon DEF Conn
    <2> HIDE DEF e
    <2>5. Kept(k, e) BY <2>4, Zenon DEF Kept
    <2>6. Timers(e) BY <2>4, Zenon DEF ConnOK, Timers
    <2>7. Queue(e) BY <2>4, Zenon DEF ConnOK, Queue, qt
    <2>8. Session(e, l, rq, ak) BY <2>4, SessionSame, Zenon
    <2> QED BY <2>1, <2>3, <2>5, <2>6, <2>7, <2>8, Zenon DEF ConnOK
  <1>2. CASE ~k.up
    <2>1. Enqueue(k, x) = k BY <1>2, Zenon DEF Enqueue
    <2>2. Kept(k, k) BY Zenon DEF Kept
    <2> QED BY <2>1, <2>2, Zenon
  <1> QED BY <1>1, <1>2, Zenon

\* Router::trigger_cb
LEMMA TriggerStep == ASSUME SInv, trigger_cb PROVE SInv'
  <1> DEFINE p == Head(d.router_buf)
             rb == Tail(d.router_buf)
             seen(c) == send_L_Busmonitor(d.conn[c], p.x, d.vbusmonitor[c])
             f == [c \in Conns |-> IF c \in d.links \ {p.src} THEN Enqueue(seen(c), p.x) ELSE seen(c)]
  <1>1. d \in Daemon /\ ~d.aborted /\ d.links = d.connections BY Zenon DEF SInv, Books, Listed
  <1>2. d' = [d EXCEPT !.router_buf = rb, !.conn = f] /\ UNCHANGED <<cl, req, ack, case, lost>>
    BY Zenon DEF trigger_cb
  <1>3. rb \in Seq([src : 0 .. MaxConn, x : Int]) /\ p.x \in Int
    <2>1. d.router_buf \in Seq([src : 0 .. MaxConn, x : Int]) BY <1>1, Zenon DEF Daemon
    <2>2. d.router_buf # <<>> BY Zenon DEF trigger_cb
    <2>3. ASSUME NEW S, NEW q \in Seq(S), q # <<>> PROVE Tail(q) \in Seq(S) /\ Head(q) \in S BY <2>3, SMT
    <2>4. rb \in Seq([src : 0 .. MaxConn, x : Int]) /\ p \in [src : 0 .. MaxConn, x : Int] BY <2>1, <2>2, <2>3, Zenon
    <2> QED BY <2>4, Zenon
  <1> HIDE DEF p, rb
  <1>4. \A c \in Conns : /\ f[c] \in Conn /\ Kept(d.conn[c], f[c]) /\ ConnOK(f[c])
                         /\ Session(f[c], cl[c], req[c], ack[c])
                         /\ c \notin d.connections => f[c] = d.conn[c]
    <2> SUFFICES ASSUME NEW c \in Conns
                 PROVE  /\ f[c] \in Conn /\ Kept(d.conn[c], f[c]) /\ ConnOK(f[c])
                        /\ Session(f[c], cl[c], req[c], ack[c])
                        /\ c \notin d.connections => f[c] = d.conn[c]
      BY Zenon
    <2>1. d.conn[c] \in Conn /\ ConnOK(d.conn[c]) /\ Session(d.conn[c], cl[c], req[c], ack[c]) /\ cl[c] \in Client
      BY OneConn
    <2>2. d.vbusmonitor[c] \in Nat BY <1>1, Zenon DEF Daemon
    <2>3. seen(c) \in Conn /\ Kept(d.conn[c], seen(c)) /\ ConnOK(seen(c)) /\ Session(seen(c), cl[c], req[c], ack[c])
      BY <1>3, <2>1, <2>2, MonitorGets, Zenon
    <2>4. c \notin d.connections => seen(c) = d.conn[c]
      <3>1. c \notin d.connections => d.conn[c].type = "none" BY NoConnIs, Zenon DEF SInv, Books, Listed
      <3>2. "none" # "busmon" OBVIOUS
      <3> QED BY <3>1, <3>2, Zenon DEF send_L_Busmonitor
    <2>5. f[c] = IF c \in d.links \ {p.src} THEN Enqueue(seen(c), p.x) ELSE seen(c) BY Zenon
    <2> HIDE DEF seen, f
    <2>6. CASE c \in d.links \ {p.src}
      <3>1. f[c] = Enqueue(seen(c), p.x) BY <2>5, <2>6, Zenon
      <3>2. f[c] \in Conn /\ Kept(seen(c), f[c]) /\ ConnOK(f[c]) /\ Session(f[c], cl[c], req[c], ack[c])
        BY <1>3, <2>3, <3>1, QueueGets, Zenon
      <3>3. Kept(d.conn[c], f[c]) BY <2>3, <3>2, Zenon DEF Kept
      <3> QED BY <1>1, <2>6, <3>2, <3>3, Zenon
    <2>7. CASE c \notin d.links \ {p.src} BY <2>3, <2>4, <2>5, <2>7, Zenon
    <2> QED BY <2>6, <2>7, Zenon
  <1>5. f \in [Conns -> Conn] BY <1>4, Zenon
  <1> HIDE DEF f
  <1>6. d' \in Daemon BY <1>1, <1>2, <1>3, <1>5, Zenon DEF Daemon
  <1>7. SameLists(d, d') /\ d'.conn = f /\ d'.aborted = d.aborted BY <1>1, <1>2, Zenon DEF Daemon, SameLists
  <1>8. /\ cl' \in [Conns -> Client] /\ req' \in [Conns -> {<<>>} \cup {<<m>> : m \in Request}]
        /\ ack' \in [Conns -> {<<>>} \cup {<<n>> : n \in Seqno}]
        /\ cl' = cl /\ req' = req /\ ack' = ack /\ case' = case /\ lost' = lost
    BY <1>2, Zenon DEF SInv
  <1>9. \A c \in Conns : /\ Kept(d.conn[c], d'.conn[c]) /\ ConnOK(d'.conn[c])
                         /\ c \notin d.connections =>
                                d'.conn[c] = d.conn[c] /\ cl'[c] = cl[c] /\ req'[c] = req[c] /\ ack'[c] = ack[c]
                         /\ Session(d'.conn[c], cl'[c], req'[c], ack'[c])
    BY <1>4, <1>7, <1>8, Zenon
  <1>10. ~d'.aborted BY <1>1, <1>7, Zenon
  <1> QED BY <1>6, <1>7, <1>8, <1>9, <1>10, ListsStep, Zenon
-----------------------------------------------------------------------------
\* The client takes a request.
LEMMA RecvStep == ASSUME SInv, NEW c \in Conns, client_recv(c) PROVE SInv'
  <1> DEFINE m == req[c][1]
             l == cl[c]
             y == [l EXCEPT !.rno = Inc(@), !.got = Append(@, m.x)]
             e == IF m.n = l.rno THEN y ELSE l
  <1>1. /\ d \in Daemon /\ d.conn[c] \in Conn /\ ConnOK(d.conn[c]) /\ ~d.aborted
        /\ Session(d.conn[c], l, req[c], ack[c]) /\ l \in Client
        /\ req[c] \in {<<>>} \cup {<<p>> : p \in Request}
    BY OneConn
  <1>2. cl \in [Conns -> Client] BY DEF SInv
  <1>3. /\ req[c] # <<>> /\ req' = [req EXCEPT ![c] = <<>>] /\ ack' = [ack EXCEPT ![c] = <<m.n>>]
        /\ cl' = IF m.n = l.rno THEN [cl EXCEPT ![c].rno = Inc(@), ![c].got = Append(@, m.x)] ELSE cl
        /\ UNCHANGED <<d, case, lost>>
    BY Zenon DEF client_recv
  <1>4. m \in Request
    <2>1. PICK p \in Request : req[c] = <<p>> BY <1>1, <1>3, Zenon
    <2>2. <<p>>[1] = p BY SMT
    <2> QED BY <2>1, <2>2, Zenon
  <1> HIDE DEF m
  <1>5. m.n \in Seqno /\ m.x \in Int /\ l.rno \in Seqno /\ l.got \in Seq(Int) BY <1>1, <1>4, Zenon DEF Request, Client
  <1>6. Inc(l.rno) \in Seqno /\ Append(l.got, m.x) \in Seq(Int)
    <2>1. Inc(l.rno) \in Seqno BY <1>5, Basics, Zenon
    <2>2. ASSUME NEW q \in Seq(Int), NEW z \in Int PROVE Append(q, z) \in Seq(Int) BY SMT
    <2> QED BY <1>5, <2>1, <2>2, Zenon
  <1>7. y \in Client /\ y.rno = Inc(l.rno) /\ y.got = Append(l.got, m.x) BY <1>1, <1>6, Zenon DEF Client
  <1>8. e \in Client BY <1>1, <1>7, Zenon
  <1>9. cl' = [cl EXCEPT ![c] = e]
    <2>1. CASE m.n = l.rno BY <1>2, <1>3, <2>1, Zenon
    <2>2. CASE m.n # l.rno
      <3>1. [cl EXCEPT ![c] = cl[c]] = cl BY OneConn
      <3> QED BY <1>3, <2>2, <3>1, Zenon
    <2> QED BY <2>1, <2>2, Zenon
  <1>10. IF m.n = l.rno THEN e.rno = Inc(l.rno) /\ e.got = Append(l.got, m.x) ELSE e = l BY <1>7, Zenon
  <1> HIDE DEF e, l, y
  <1>11. req[c][1] = m BY DEF m
  <1>12. Session(d.conn[c], e, <<>>, <<m.n>>) BY <1>1, <1>3, <1>4, <1>8, <1>10, <1>11, SessionTaken, Zenon
  <1>13. c \in d.connections BY <1>3, Zenon DEF SInv
  <1>14. <<>> \in {<<>>} \cup {<<p>> : p \in Request} /\ <<m.n>> \in {<<>>} \cup {<<p>> : p \in Seqno} BY <1>5, Zenon
  <1>15. Kept(d.conn[c], d.conn[c]) BY Zenon DEF Kept
  <1>16. d' \in Daemon /\ SameLists(d, d') /\ ~d'.aborted /\ d'.conn = [d.conn EXCEPT ![c] = d.conn[c]]
    <2>1. d.conn \in [Conns -> Conn] BY <1>1, Zenon DEF Daemon
    <2>2. d.conn = [d.conn EXCEPT ![c] = d.conn[c]] BY <2>1, Zenon
    <2>3. d' = d BY <1>3
    <2> QED BY <1>1, <2>2, <2>3, Zenon DEF SameLists
  <1>17. case' = case /\ lost' = lost BY <1>3
  <1> QED BY <1>1, <1>3, <1>8, <1>9, <1>12, <1>13, <1>14, <1>15, <1>16, <1>17, ConnStep, Zenon

\* An acknowledgement of the client arrives.
LEMMA AckStep == ASSUME SInv, NEW c \in Conns, client_ack(c) PROVE SInv'
  <1> DEFINE k == d.conn[c]
             n == ack[c][1]
             E(ok) == IF k.type = "config" THEN config_response(k, n, ok) ELSE tunnel_response(k, n, ok)
  <1>1. /\ d \in Daemon /\ k \in Conn /\ ConnOK(k) /\ ~d.aborted
        /\ Session(k, cl[c], req[c], ack[c]) /\ cl[c] \in Client
        /\ req[c] \in {<<>>} \cup {<<p>> : p \in Request} /\ ack[c] \in {<<>>} \cup {<<p>> : p \in Seqno}
        /\ [cl EXCEPT ![c] = cl[c]] = cl /\ [req EXCEPT ![c] = req[c]] = req /\ [ack EXCEPT ![c] = ack[c]] = ack
    BY OneConn
  <1>2. /\ ack[c] # <<>> /\ c \in d.connections /\ UNCHANGED <<cl, req, case, lost>>
        /\ ack' = [ack EXCEPT ![c] = <<>>] \/ ack' = ack
    BY Zenon DEF client_ack
  <1>a. PICK ok : d' = [d EXCEPT !.conn[c] = IF @.type = "config" THEN config_response(@, ack[c][1], ok)
                                             ELSE tunnel_response(@, ack[c][1], ok)]
    BY Zenon DEF client_ack
  <1> DEFINE e == E(ok)
  <1>3. d' = [d EXCEPT !.conn[c] = e] BY <1>1, <1>a, Zenon
  <1>4. \/ e = k
        \/ e = Confirmed(k) /\ k.sno = n /\ k.retries > 0
    BY Zenon DEF config_response, tunnel_response
  <1> HIDE DEF e, k
  <1>5. PICK ak \in {<<>>} \cup {<<p>> : p \in Seqno} : ack' = [ack EXCEPT ![c] = ak] /\ ak \in {<<>>, ack[c]}
    <2>1. CASE ack' = [ack EXCEPT ![c] = <<>>] BY <2>1, Zenon
    <2>2. CASE ack' = ack BY <1>1, <2>2, Zenon
    <2> QED BY <1>2, <2>1, <2>2, Zenon
  <1>6. /\ e \in Conn /\ Kept(k, e) /\ Timers(e) /\ Queue(e)
        /\ Session(e, cl[c], req[c], ack[c]) /\ Session(e, cl[c], req[c], <<>>)
    <2>1. CASE e = k
      <3>1. Kept(k, k) BY Zenon DEF Kept
      <3>2. Session(k, cl[c], req[c], <<>>) BY <1>1, Zenon DEF Session
      <3> QED BY <1>1, <2>1, <3>1, <3>2, Zenon DEF ConnOK
    <2>2. CASE e = Confirmed(k) /\ k.sno = n /\ k.retries > 0
      <3>1. k.retries # 0 /\ k.alive
        <4>1. k.retries \in Nat /\ k.alive \in BOOLEAN BY <1>1, Zenon DEF Conn
        <4>2. k.retries # 0 BY <2>2, <4>1, SMT
        <4> QED BY <1>1, <4>1, <4>2, Zenon DEF ConnOK, Timers
      <3>2. /\ e \in Conn /\ Kept(k, e) /\ ConnOK(e) /\ e.put = k.put /\ e.out = Tail(k.out)
            /\ e.sno = Inc(k.sno) /\ e.retries = 0 /\ e.alive = k.alive /\ k.out # <<>>
        BY <1>1, <2>2, <3>1, ConfirmedIs, Zenon
      <3>3. Session(e, cl[c], req[c], ack[c]) /\ Session(e, cl[c], req[c], <<>>)
        BY <1>1, <1>2, <2>2, <3>1, <3>2, SessionConfirmed, Zenon
      <3> QED BY <3>2, <3>3, Zenon DEF ConnOK
    <2> QED BY <1>4, <2>1, <2>2, Zenon
  <1>7. Session(e, cl[c], req[c], ak) BY <1>5, <1>6, Zenon
  <1>8. /\ cl' = [cl EXCEPT ![c] = cl[c]] /\ req' = [req EXCEPT ![c] = req[c]] /\ UNCHANGED <<case, lost>>
        /\ cl[c] \in Client /\ req[c] \in {<<>>} \cup {<<p>> : p \in Request} /\ c \in d.connections
    BY <1>1, <1>2, Zenon
  <1>9. Kept(d.conn[c], e) BY <1>6 DEF k
  <1> QED BY <1>3, <1>5, <1>6, <1>7, <1>8, <1>9, ConnOnly, Zenon

\* The session does not depend on what the client sends.
LEMMA SessionClient ==
  ASSUME NEW k, NEW l, NEW y, NEW rq, NEW ak, Session(k, l, rq, ak), y.got = l.got, y.rno = l.rno
  PROVE  Session(k, y, rq, ak)
  <1>1. \A m, j : Asked(k, l, m, j) => Asked(k, y, m, j) BY Zenon DEF Asked
  <1> QED BY <1>1, Zenon DEF Session

\* ConnState::tunnel_request and config_request: the answer, if any, joins `out'.
LEMMA RequestIs ==
  ASSUME NEW k \in Conn, ConnOK(k), NEW n, NEW cemi, NEW x \in Int, NEW l \in Client, NEW rq, NEW ak,
         Session(k, l, rq, ak), NEW e \in {tunnel_request(k, n, cemi, x), config_request(k, n, cemi, x)}
  PROVE  e \in Conn /\ Kept(k, e) /\ ConnOK(e) /\ Session(e, l, rq, ak)
  <1> DEFINE r == [k EXCEPT !.rno = Inc(@)]
             xs == <<-x>>
  <1>1. xs \in Seq(Int) BY SMT
  <1>2. e \in {k, r, Out(r, xs)}
    <2>1. tunnel_request(k, n, cemi, x) \in {k, r, Out(r, xs)}
      <3>1. CASE k.rno # n BY <3>1, Zenon DEF tunnel_request
      <3>2. CASE k.rno = n /\ k.type = "link" /\ cemi = "req" BY <3>2, Zenon DEF tunnel_request
      <3>3. CASE k.rno = n /\ ~(k.type = "link" /\ cemi = "req") BY <3>3, Zenon DEF tunnel_request
      <3> QED BY <3>1, <3>2, <3>3, Zenon
    <2>2. config_request(k, n, cemi, x) \in {k, r, Out(r, xs)}
      <3>1. CASE k.rno # n BY <3>1, Zenon DEF config_request
      <3>2. CASE k.rno = n /\ k.type = "config" /\ cemi = "req" BY <3>2, Zenon DEF config_request
      <3>3. CASE k.rno = n /\ ~(k.type = "config" /\ cemi = "req") BY <3>3, Zenon DEF config_request
      <3> QED BY <3>1, <3>2, <3>3, Zenon
    <2> QED BY <2>1, <2>2, Zenon
  <1> HIDE DEF xs
  <1>3. Inc(k.rno) \in Seqno
    <2>1. k.rno \in Seqno BY Zenon DEF Conn
    <2> QED BY <2>1, Basics, Zenon
  <1>4. r \in Conn BY <1>3, Zenon DEF Conn
  <1>5. /\ r.type = k.type /\ r.channel = k.channel /\ r.addr = k.addr /\ r.had = k.had /\ r.sno = k.sno
        /\ r.retries = k.retries /\ r.do_send_next = k.do_send_next /\ r.timeout = k.timeout /\ r.put = k.put
        /\ r.sendtimeout = k.sendtimeout /\ r.alive = k.alive /\ r.up = k.up /\ r.queue = k.queue
        /\ r.buf = k.buf /\ r.qtrigger = k.qtrigger /\ r.out = k.out /\ r.trigger = k.trigger
    BY Zenon DEF Conn
  <1> HIDE DEF r
  <1>6. Kept(k, r) BY <1>5, Zenon DEF Kept
  <1>7. Timers(r) BY <1>5, Zenon DEF ConnOK, Timers
  <1>8. Queue(r) BY <1>5, Zenon DEF ConnOK, Queue
  <1>9. Session(r, l, rq, ak) BY <1>5, SessionSame, Zenon
  <1>10. CASE e = k
    <2>1. Kept(k, k) BY Zenon DEF Kept
    <2> QED BY <1>10, <2>1, Zenon
  <1>11. CASE e = r BY <1>4, <1>6, <1>7, <1>8, <1>9, <1>11, Zenon DEF ConnOK
  <1>12. CASE e = Out(r, xs)
    <2>1. /\ e \in Conn /\ Kept(r, e) /\ ConnOK(e) /\ e.put = r.put \o xs /\ e.out = r.out \o xs
          /\ e.sno = r.sno /\ e.retries = r.retries /\ e.alive = r.alive
      BY <1>1, <1>4, <1>7, <1>8, <1>12, OutIs, Zenon DEF ConnOK
    <2>2. Session(e, l, rq, ak) BY <1>1, <1>4, <1>9, <2>1, SessionOut, Zenon
    <2>3. Kept(k, e) BY <1>6, <2>1, Zenon DEF Kept
    <2> QED BY <2>1, <2>2, <2>3
  <1> QED BY <1>2, <1>10, <1>11, <1>12, Zenon

\* A request of the client.
LEMMA RequestStep == ASSUME SInv, NEW c \in Conns, client_request(c) PROVE SInv'
  <1> DEFINE k == d.conn[c]
             l == cl[c]
             N(again) == IF again THEN (l.sno + Seqnos - 1) % Seqnos ELSE l.sno
             E(again, tunnel, cemi) == IF tunnel THEN tunnel_request(k, N(again), cemi, d.x)
                                       ELSE config_request(k, N(again), cemi, d.x)
             R(again, tunnel, cemi) == IF tunnel /\ recv_L_Data(k, N(again), cemi)
                                       THEN Append(d.router_buf, [src |-> c, x |-> d.x]) ELSE d.router_buf
             S(again) == IF again THEN l.sno ELSE Inc(l.sno)
  <1>1. /\ d \in Daemon /\ d.conn \in [Conns -> Conn] /\ k \in Conn /\ ConnOK(k) /\ ~d.aborted
        /\ Session(k, l, req[c], ack[c]) /\ l \in Client
        /\ req[c] \in {<<>>} \cup {<<p>> : p \in Request} /\ ack[c] \in {<<>>} \cup {<<p>> : p \in Seqno}
        /\ [req EXCEPT ![c] = req[c]] = req /\ [ack EXCEPT ![c] = ack[c]] = ack
    BY OneConn
  <1>2. PICK again \in BOOLEAN, tunnel \in BOOLEAN, cemi \in CEMI :
          /\ d' = [d EXCEPT !.x = @ + 1, !.conn[c] = E(again, tunnel, cemi),
                            !.router_buf = R(again, tunnel, cemi)]
          /\ cl' = [cl EXCEPT ![c].sno = S(again)]
    BY <1>1, Zenon DEF client_request
  <1>3. c \in d.connections /\ UNCHANGED <<req, ack, case, lost>> BY Zenon DEF client_request
  <1> DEFINE e == E(again, tunnel, cemi)
             rb == R(again, tunnel, cemi)
             y == [l EXCEPT !.sno = S(again)]
             f == [d.conn EXCEPT ![c] = e]
             z == d.x + 1
  <1>4. d.x \in Int /\ d.router_buf \in Seq([src : 0 .. MaxConn, x : Int]) BY <1>1, Zenon DEF Daemon
  <1>5. e \in Conn /\ Kept(k, e) /\ ConnOK(e) /\ Session(e, l, req[c], ack[c])
    <2>1. PICK n : e \in {tunnel_request(k, n, cemi, d.x), config_request(k, n, cemi, d.x)} BY Zenon
    <2>2. k \in Conn /\ ConnOK(k) /\ l \in Client /\ Session(k, l, req[c], ack[c]) /\ d.x \in Int BY <1>1, <1>4
    <2> HIDE DEF e, k, l
    <2> QED BY <2>1, <2>2, RequestIs
  <1>6. rb \in Seq([src : 0 .. MaxConn, x : Int])
    <2>1. c \in 0 .. MaxConn BY ServerConfig, SMT DEF Conns
    <2>2. [src |-> c, x |-> d.x] \in [src : 0 .. MaxConn, x : Int] BY <1>4, <2>1, Zenon
    <2>3. ASSUME NEW T, NEW q \in Seq(T), NEW w \in T PROVE Append(q, w) \in Seq(T) BY SMT
    <2>4. Append(d.router_buf, [src |-> c, x |-> d.x]) \in Seq([src : 0 .. MaxConn, x : Int])
      BY <1>4, <2>2, <2>3, Zenon
    <2> QED BY <1>4, <2>4, Zenon
  <1>7. y \in Client /\ y.got = l.got /\ y.rno = l.rno
    <2>1. l.sno \in Seqno BY <1>1, Zenon DEF Client
    <2>2. S(again) \in Seqno BY <2>1, Basics, Zenon
    <2> HIDE DEF l, S
    <2> QED BY <1>1, <2>2, Zenon DEF Client
  <1>8. z \in Int BY <1>4, SMT
  <1>9. d' = [d EXCEPT !.x = z, !.conn = f, !.router_buf = rb] BY <1>2, Zenon
  <1>10. cl' = [cl EXCEPT ![c] = y] BY <1>2, Zenon
  <1>11. f \in [Conns -> Conn] BY <1>1, <1>5, Zenon
  <1> HIDE DEF e, rb, y, f, z
  <1>12. d' \in Daemon BY <1>1, <1>6, <1>8, <1>9, <1>11, Zenon DEF Daemon
  <1>13. SameLists(d, d') /\ d'.aborted = d.aborted /\ d'.conn = f BY <1>1, <1>9, Zenon DEF Daemon, SameLists
  <1>14. d'.conn = [d.conn EXCEPT ![c] = e] /\ ~d'.aborted BY <1>1, <1>13, Zenon DEF f
  <1>15. Session(e, y, req[c], ack[c]) BY <1>5, <1>7, SessionClient, Zenon
  <1>16. /\ req' = [req EXCEPT ![c] = req[c]] /\ ack' = [ack EXCEPT ![c] = ack[c]]
         /\ req[c] \in {<<>>} \cup {<<p>> : p \in Request} /\ ack[c] \in {<<>>} \cup {<<p>> : p \in Seqno}
         /\ case' = case /\ lost' = lost /\ c \in d.connections
    BY <1>1, <1>3, Zenon
  <1> QED BY <1>5, <1>7, <1>10, <1>12, <1>13, <1>14, <1>15, <1>16, ConnStep, Zenon
-----------------------------------------------------------------------------
\* Router::get_client_addr finds an address that nobody has.
LEMMA AddrIs ==
  ASSUME NEW s \in Daemon, NEW a \in get_client_addr(s)
  PROVE  a \in 1 .. NAddrs /\ a \notin s.client_addrs /\ \A c \in s.links : s.conn[c].had # a
  <1> DEFINE Pos(i) == ((s.client_addrs_pos - 1 + i) % NAddrs) + 1
  <1>1. PICK i \in 1 .. NAddrs : a = Pos(i) /\ Pos(i) \notin s.client_addrs /\ ~hasAddress(s, Pos(i))
    BY Zenon DEF get_client_addr
  <1>2. s.client_addrs_pos \in 1 .. NAddrs BY Zenon DEF Daemon
  <1>3. Pos(i) \in 1 .. NAddrs
    <2>1. ASSUME NEW p \in 1 .. NAddrs, NEW j \in 1 .. NAddrs PROVE ((p - 1 + j) % NAddrs) + 1 \in 1 .. NAddrs
      BY ServerConfig, SMT
    <2> QED BY <1>2, <2>1, Zenon
  <1> HIDE DEF Pos
  <1> QED BY <1>1, <1>3, Zenon DEF hasAddress

\* An address is taken.
LEMMA TakeIs ==
  ASSUME NEW s \in Daemon, NEW a \in 0 .. NAddrs
  PROVE  /\ Take(s, a) \in Daemon /\ Take(s, a).client_addrs = s.client_addrs \cup ({a} \ {0})
         /\ Take(s, a).connections = s.connections /\ Take(s, a).links = s.links /\ Take(s, a).n = s.n
         /\ Take(s, a).drop_q = s.drop_q /\ Take(s, a).vbusmonitor = s.vbusmonitor
         /\ Take(s, a).drop_active = s.drop_active /\ Take(s, a).drop_trigger = s.drop_trigger
         /\ Take(s, a).conn = s.conn /\ Take(s, a).aborted = s.aborted /\ Take(s, a).want_up = s.want_up
  <1>1. CASE a = 0
    <2>1. Take(s, a) = s BY <1>1, Zenon DEF Take
    <2>2. s.client_addrs = s.client_addrs \cup ({a} \ {0}) BY <1>1, Zenon
    <2> QED BY <2>1, <2>2, Zenon
  <1>2. CASE a # 0
    <2> DEFINE S == s.client_addrs \cup {a}
               t == [s EXCEPT !.client_addrs_pos = a, !.client_addrs = S]
    <2>1. Take(s, a) = t BY <1>2, Zenon DEF Take
    <2>2. a \in 1 .. NAddrs BY <1>2, ServerConfig, SMT
    <2>3. S \in SUBSET (1 .. NAddrs) /\ S = s.client_addrs \cup ({a} \ {0})
      <3>1. s.client_addrs \in SUBSET (1 .. NAddrs) BY Zenon DEF Daemon
      <3> QED BY <1>2, <2>2, <3>1, Zenon
    <2> HIDE DEF S
    <2>4. t \in Daemon BY <2>2, <2>3, Zenon DEF Daemon
    <2>5. /\ t.client_addrs = S /\ t.connections = s.connections /\ t.links = s.links /\ t.n = s.n
          /\ t.drop_q = s.drop_q /\ t.vbusmonitor = s.vbusmonitor /\ t.drop_active = s.drop_active
          /\ t.drop_trigger = s.drop_trigger /\ t.conn = s.conn /\ t.aborted = s.aborted /\ t.want_up = s.want_up
      BY Zenon DEF Daemon
    <2> QED BY <2>1, <2>3, <2>4, <2>5, Zenon
  <1> QED BY <1>1, <1>2, Zenon

\* An address that is taken for a request that is refused is lost.
LEMMA TakenLost ==
  ASSUME NEW s, NEW L, Books(s, L), NEW a \in 0 .. NAddrs, a # 0 => a \notin s.client_addrs
  PROVE  Books(Take(s, a), L \cup ({a} \ {0}))
  <1> DEFINE t == Take(s, a)
             A == {a} \ {0}
  <1>1. s \in Daemon /\ ~s.aborted /\ Listed(s) /\ Addressed(s, L) /\ Unique(s) /\ Monitors(s)
        /\ L \in SUBSET (1 .. NAddrs)
    BY Zenon DEF Books
  <1>2. /\ t \in Daemon /\ t.client_addrs = s.client_addrs \cup A /\ t.connections = s.connections /\ t.links = s.links
        /\ t.n = s.n /\ t.drop_q = s.drop_q /\ t.vbusmonitor = s.vbusmonitor /\ t.drop_active = s.drop_active
        /\ t.drop_trigger = s.drop_trigger /\ t.conn = s.conn /\ t.aborted = s.aborted
    BY <1>1, TakeIs, Zenon
  <1>3. \A b \in A : b \in 1 .. NAddrs /\ b \notin s.client_addrs
    <2>1. a # 0 => a \in 1 .. NAddrs BY ServerConfig, SMT
    <2> QED BY <2>1, Zenon
  <1> HIDE DEF t, A
  <1>4. Listed(t) BY <1>1, <1>2, Zenon DEF Listed
  <1>5. Unique(t)
    <2>1. \A c \in s.connections : t.conn[c].channel = s.conn[c].channel /\ t.conn[c].had = s.conn[c].had
      BY <1>2, Zenon
    <2> QED BY <1>1, <1>2, <2>1, UniqueKept, Zenon
  <1>6. Monitors(t) BY <1>1, <1>2, Zenon DEF Monitors
  <1>7. Addrs(t) = Addrs(s) BY <1>2, Zenon DEF Addrs, Alive
  <1>8. Addressed(t, L \cup A)
    <2>1. s.client_addrs = Addrs(s) \cup L /\ Addrs(s) \cap L = {} BY <1>1, Zenon DEF Addressed
    <2>2. t.client_addrs = Addrs(t) \cup (L \cup A) /\ Addrs(t) \cap (L \cup A) = {} BY <1>2, <1>3, <1>7, <2>1, Zenon
    <2>3. \A c \in Conns : IF t.conn[c].alive THEN t.conn[c].addr = t.conn[c].had
                                              ELSE t.conn[c].addr = 0 /\ ~t.conn[c].up
      BY <1>1, <1>2, Zenon DEF Addressed
    <2> QED BY <2>2, <2>3, Zenon DEF Addressed
  <1>9. L \cup A \in SUBSET (1 .. NAddrs) BY <1>1, <1>3, Zenon
  <1>10. Books(t, L \cup A) BY <1>1, <1>2, <1>4, <1>5, <1>6, <1>8, <1>9, Zenon DEF Books
  <1> QED BY <1>10 DEF t, A

\* EIBnetServer::addClient: a connection with an address and a channel of its own.
LEMMA AddIs ==
  ASSUME NEW s, NEW L, Books(s, L), s.n < MaxConn, NEW a \in 0 .. NAddrs, NEW ch \in FreeChannel(s),
         a # 0 => a \notin s.client_addrs /\ \A b \in s.links : s.conn[b].had # a,
         NEW type \in {"link", "busmon", "config"}, NEW u, u = addClient(Take(s, a), type, a, ch)
  PROVE  LET c == s.n + 1
         IN /\ c \in Conns /\ c \notin s.connections /\ Books(u, L) /\ u.connections = s.connections \cup {c}
            /\ ConnOK(u.conn[c]) /\ Session(u.conn[c], NoClient, <<>>, <<>>)
            /\ \A b \in Conns : b # c => u.conn[b] = s.conn[b]
  <1> DEFINE t == Take(s, a)
             c == s.n + 1
             A == {a} \ {0}
             qu == IF s.want_up THEN "Q_IDLE" ELSE NoConn.queue
             k == [NoConn EXCEPT !.type = type, !.channel = ch, !.addr = a, !.had = a,
                                 !.timeout = TRUE, !.alive = TRUE, !.up = s.want_up, !.queue = qu]
             f == [s.conn EXCEPT ![c] = k]
             v == [s.vbusmonitor EXCEPT ![c] = IF type = "busmon" THEN @ + 1 ELSE @]
             C == s.connections \cup {c}
             K == s.links \cup {c}
  <1>1. s \in Daemon /\ ~s.aborted /\ Listed(s) /\ Addressed(s, L) /\ Unique(s) /\ Monitors(s)
        /\ L \in SUBSET (1 .. NAddrs) /\ s.want_up \in BOOLEAN /\ s.n \in 0 .. MaxConn
        /\ s.conn \in [Conns -> Conn] /\ s.vbusmonitor \in [Conns -> Nat] /\ s.links = s.connections
        /\ s.connections \in SUBSET Conns
    BY Zenon DEF Books, Daemon, Listed
  <1>2. /\ t \in Daemon /\ t.client_addrs = s.client_addrs \cup A /\ t.connections = s.connections /\ t.links = s.links
        /\ t.n = s.n /\ t.drop_q = s.drop_q /\ t.vbusmonitor = s.vbusmonitor /\ t.drop_active = s.drop_active
        /\ t.drop_trigger = s.drop_trigger /\ t.conn = s.conn /\ t.aborted = s.aborted /\ t.want_up = s.want_up
    BY <1>1, TakeIs, Zenon
  <1>3. c \in Conns /\ c \in 0 .. MaxConn /\ c \in 1 .. c /\ 1 .. s.n \subseteq 1 .. c /\ c \notin 1 .. s.n
    BY <1>1, ServerConfig, SMT DEF Conns
  <1>4. c \notin s.connections /\ c \notin s.drop_q /\ s.conn[c] = NoConn BY <1>1, <1>3, Zenon DEF Listed
  <1>5. ch \in 1 .. NChannels /\ ch \in 0 .. NChannels /\ \A b \in s.connections : s.conn[b].channel # ch
    <2>1. ch \in 1 .. NChannels /\ \A b \in s.connections : s.conn[b].channel # ch BY Zenon DEF FreeChannel
    <2> QED BY <2>1, SMT
  <1>6. k \in Conn BY <1>1, <1>5, Basics, Zenon DEF NoConn, Conn
  <1>7. /\ k.type = type /\ k.channel = ch /\ k.addr = a /\ k.had = a /\ k.alive /\ k.timeout /\ k.up = s.want_up
        /\ k.queue = qu /\ k.sno = 0 /\ k.retries = 0 /\ ~k.do_send_next /\ k.out = <<>> /\ k.put = <<>>
        /\ ~k.sendtimeout /\ ~k.trigger /\ k.buf = <<>>
    BY Zenon DEF NoConn
  <1>8. v \in [Conns -> Nat] /\ v[c] = (IF type = "busmon" THEN 1 ELSE 0)
        /\ \A b \in Conns : b # c => v[b] = s.vbusmonitor[b]
    <2>1. s.vbusmonitor[c] = 0 BY <1>1, <1>3, <1>4, NoConnIs, Zenon DEF Monitors
    <2>2. 0 + 1 = 1 /\ 1 \in Nat /\ 0 \in Nat BY SMT
    <2>3. v[c] = IF type = "busmon" THEN s.vbusmonitor[c] + 1 ELSE s.vbusmonitor[c] BY <1>1, <1>3, Zenon
    <2>4. v[c] = (IF type = "busmon" THEN 1 ELSE 0) BY <2>1, <2>2, <2>3, Zenon
    <2>5. (IF type = "busmon" THEN s.vbusmonitor[c] + 1 ELSE s.vbusmonitor[c]) \in Nat BY <2>1, <2>2, Zenon
    <2>6. v \in [Conns -> Nat] BY <1>1, <2>5, Zenon
    <2>7. \A b \in Conns : b # c => v[b] = s.vbusmonitor[b] BY <1>1, Zenon
    <2> QED BY <2>4, <2>6, <2>7, Zenon
  <1>9. f \in [Conns -> Conn] /\ f[c] = k /\ \A b \in Conns : b # c => f[b] = s.conn[b] BY <1>1, <1>3, <1>6, Zenon
  <1>10. u = [t EXCEPT !.n = c, !.conn = f, !.connections = C, !.links = K, !.vbusmonitor = v]
    <2> DEFINE i == t.n + 1
               q == [NoConn EXCEPT !.type = type, !.channel = ch, !.addr = a, !.had = a,
                                   !.timeout = TRUE, !.alive = TRUE, !.up = t.want_up,
                                   !.queue = IF t.want_up THEN "Q_IDLE" ELSE @]
    <2>1. u = [t EXCEPT !.n = i, !.conn[i] = q, !.connections = @ \cup {i}, !.links = @ \cup {i},
                        !.vbusmonitor[i] = IF type = "busmon" THEN @ + 1 ELSE @]
      BY Zenon DEF addClient
    <2>2. q = k /\ i = c BY <1>2, Zenon
    <2> HIDE DEF q, k, i, t
    <2>3. f = [t.conn EXCEPT ![i] = q] /\ C = t.connections \cup {i} /\ K = t.links \cup {i} BY <1>2, <2>2, Zenon
    <2>4. v = [t.vbusmonitor EXCEPT ![i] = IF type = "busmon" THEN @ + 1 ELSE @] BY <1>2, <2>2, Zenon
    <2>5. u = [t EXCEPT !.n = i, !.conn = [t.conn EXCEPT ![i] = q], !.connections = t.connections \cup {i},
                        !.links = t.links \cup {i},
                        !.vbusmonitor = [t.vbusmonitor EXCEPT ![i] = IF type = "busmon" THEN @ + 1 ELSE @]]
      BY <2>1, Zenon
    <2> HIDE DEF f, v, C, K, c
    <2> QED BY <2>2, <2>3, <2>4, <2>5, Zenon
  <1>11. C \in SUBSET Conns /\ K \in SUBSET Conns /\ K = C BY <1>1, <1>3, Zenon
  <1>a. Timers(k) BY <1>7, SMT DEF Timers
  <1>b. Queue(k)
    <2>1. NoConn.queue = "Q_DOWN" BY Zenon DEF NoConn
    <2> QED BY <1>1, <1>7, <2>1, SMT DEF Queue
  <1>c. Session(k, NoClient, <<>>, <<>>)
    <2>1. NoClient.got = <<>> /\ NoClient.rno = 0 BY Zenon DEF NoClient
    <2>2. Len(<<>>) = 0 /\ Conf(k) = 0 /\ 0 \in Nat /\ 0 =< 0 /\ \A i : i \notin 1 .. 0 BY <1>7, SMT DEF Conf
    <2> QED BY <1>7, <2>1, <2>2, Zenon DEF Session
  <1> HIDE DEF t, k, f, v, C, K, c, A
  <1>12. u \in Daemon
    <2>1. f \in [Conns -> Conn] /\ v \in [Conns -> Nat] /\ c \in 0 .. MaxConn BY <1>3, <1>8, <1>9
    <2>2. t \in Daemon BY <1>2
    <2>3. [t EXCEPT !.n = c, !.conn = f] \in Daemon BY <2>1, <2>2, Zenon DEF Daemon
    <2>4. PICK w \in Daemon : w = [t EXCEPT !.n = c, !.conn = f] BY <2>3
    <2>5. [w EXCEPT !.connections = C, !.links = K, !.vbusmonitor = v] \in Daemon BY <1>11, <2>1, Zenon DEF Daemon
    <2> QED BY <1>10, <2>4, <2>5, Zenon
  <1>13. /\ u.n = c /\ u.conn = f /\ u.connections = C /\ u.links = K /\ u.vbusmonitor = v
         /\ u.client_addrs = t.client_addrs /\ u.drop_q = t.drop_q /\ u.drop_active = t.drop_active
         /\ u.drop_trigger = t.drop_trigger /\ u.aborted = t.aborted
    BY <1>2, <1>10, Zenon DEF Daemon
  <1>14. Listed(u)
    <2>1. u.links = u.connections /\ u.connections \subseteq 1 .. u.n /\ u.drop_q \subseteq u.connections
      <3>1. s.connections \subseteq 1 .. s.n /\ s.drop_q \subseteq s.connections BY <1>1, Zenon DEF Listed
      <3> QED BY <1>2, <1>3, <1>11, <1>13, <3>1, Zenon DEF C
    <2>2. \A b \in Conns : b \notin u.connections => u.conn[b] = NoConn
      <3>1. \A b \in Conns : b \notin s.connections => s.conn[b] = NoConn BY <1>1, Zenon DEF Listed
      <3> QED BY <1>9, <1>13, <3>1, Zenon DEF C
    <2>3. \A b \in u.connections : u.conn[b].alive <=> b \notin u.drop_q
      <3>1. \A b \in s.connections : b # c /\ b \in Conns BY <1>1, <1>4, Zenon
      <3>2. \A b \in s.connections : s.conn[b].alive <=> b \notin s.drop_q BY <1>1, Zenon DEF Listed
      <3>3. u.conn[c].alive /\ c \notin u.drop_q BY <1>2, <1>4, <1>7, <1>9, <1>13, Zenon
      <3>4. \A b \in s.connections : u.conn[b] = s.conn[b] BY <1>9, <1>13, <3>1, Zenon
      <3>5. u.drop_q = s.drop_q /\ u.connections = s.connections \cup {c} BY <1>2, <1>13, Zenon DEF C
      <3> QED BY <3>2, <3>3, <3>4, <3>5, Zenon
    <2>4. u.drop_active /\ u.drop_q # {} => u.drop_trigger BY <1>1, <1>2, <1>13, Zenon DEF Listed
    <2> QED BY <2>1, <2>2, <2>3, <2>4, Zenon DEF Listed
  <1>15. Addrs(u) = Addrs(s) \cup A
    <2>a. u.conn[c].alive /\ \A b \in Conns : b # c => u.conn[b] = s.conn[b] BY <1>7, <1>9, <1>13, Zenon
    <2>1. Alive(u) = Alive(s) \cup {c} BY <1>3, <2>a, Zenon DEF Alive
    <2>2. ~s.conn[c].alive BY <1>4, NoConnIs, Zenon
    <2>3. \A b \in Alive(s) : b # c /\ u.conn[b].addr = s.conn[b].addr BY <1>9, <1>13, <2>2, Zenon DEF Alive
    <2>4. u.conn[c].addr = a BY <1>7, <1>9, <1>13, Zenon
    <2> QED BY <2>1, <2>3, <2>4, Zenon DEF Addrs, A
  <1>16. Addressed(u, L)
    <2>1. s.client_addrs = Addrs(s) \cup L /\ Addrs(s) \cap L = {} BY <1>1, Zenon DEF Addressed
    <2>2. u.client_addrs = Addrs(u) \cup L BY <1>2, <1>13, <1>15, <2>1, Zenon
    <2>3. Addrs(u) \cap L = {} BY <1>15, <2>1, Zenon DEF A
    <2>4. \A b \in Conns : IF u.conn[b].alive THEN u.conn[b].addr = u.conn[b].had
                                              ELSE u.conn[b].addr = 0 /\ ~u.conn[b].up
      <3>1. u.conn[c].alive /\ u.conn[c].addr = u.conn[c].had BY <1>7, <1>9, <1>13, ZenonT(20)
      <3>2. \A b \in Conns : IF s.conn[b].alive THEN s.conn[b].addr = s.conn[b].had
                                                ELSE s.conn[b].addr = 0 /\ ~s.conn[b].up
        BY <1>1, Zenon DEF Addressed
      <3>3. \A b \in Conns : b = c \/ u.conn[b] = s.conn[b] BY <1>9, <1>13, Zenon
      <3> QED BY <3>1, <3>2, <3>3, Zenon
    <2> QED BY <2>2, <2>3, <2>4, Zenon DEF Addressed
  <1>17. Unique(u)
    <2>1. \A b \in s.connections : /\ b # c /\ u.conn[b] = s.conn[b] /\ s.conn[b].channel # ch
                                   /\ a # 0 => s.conn[b].had # a
      BY <1>1, <1>4, <1>5, <1>9, <1>13, Zenon
    <2>2. u.conn[c].channel = ch /\ u.conn[c].had = a BY <1>7, <1>9, <1>13, Zenon
    <2> SUFFICES ASSUME NEW x \in u.connections, NEW y \in u.connections, x # y
                 PROVE  /\ u.conn[x].channel # u.conn[y].channel
                        /\ u.conn[x].had # 0 => u.conn[x].had # u.conn[y].had
      BY Zenon DEF Unique
    <2>3. x \in s.connections \/ x = c BY <1>13, Zenon DEF C
    <2>4. y \in s.connections \/ y = c BY <1>13, Zenon DEF C
    <2>5. CASE x \in s.connections /\ y \in s.connections
      <3>1. /\ s.conn[x].channel # s.conn[y].channel /\ (s.conn[x].had # 0 => s.conn[x].had # s.conn[y].had)
        BY <1>1, <2>5, Zenon DEF Unique
      <3> QED BY <2>1, <2>5, <3>1, Zenon
    <2>6. CASE x = c /\ y \in s.connections BY <2>1, <2>2, <2>6, Zenon
    <2>7. CASE x \in s.connections /\ y = c BY <2>1, <2>2, <2>7, Zenon
    <2> QED BY <2>3, <2>4, <2>5, <2>6, <2>7, Zenon
  <1>18. Monitors(u)
    <2> SUFFICES ASSUME NEW b \in Conns
                 PROVE  u.vbusmonitor[b] = IF u.conn[b].alive /\ u.conn[b].type = "busmon" THEN 1 ELSE 0
      BY DEF Monitors
    <2>1. CASE b = c
      <3>1. u.vbusmonitor[c] = (IF type = "busmon" THEN 1 ELSE 0) /\ u.conn[c].alive /\ u.conn[c].type = type
        BY <1>7, <1>8, <1>9, <1>13, Zenon
      <3> QED BY <2>1, <3>1, Zenon
    <2>2. CASE b # c
      <3>1. u.vbusmonitor[b] = s.vbusmonitor[b] /\ u.conn[b] = s.conn[b] BY <1>8, <1>9, <1>13, <2>2, Zenon
      <3> QED BY <1>1, <3>1, Zenon DEF Monitors
    <2> QED BY <2>1, <2>2, Zenon
  <1>19. Books(u, L) BY <1>1, <1>2, <1>12, <1>13, <1>14, <1>16, <1>17, <1>18, Zenon DEF Books
  <1>20. u.conn[c] = k /\ \A b \in Conns : b # c => u.conn[b] = s.conn[b] BY <1>9, <1>13, Zenon
  <1>21. ConnOK(u.conn[c]) /\ Session(u.conn[c], NoClient, <<>>, <<>>) BY <1>20, <1>a, <1>b, <1>c, Zenon DEF ConnOK
  <1>22. u.connections = s.connections \cup {c} BY <1>13 DEF C
  <1> QED BY <1>3, <1>4, <1>19, <1>20, <1>21, <1>22, Zenon DEF c

\* CONNECTION_REQUEST
LEMMA ConnectionStep == ASSUME SInv, connection_request PROVE SInv'
  <1>1. PICK type \in case.types :
          LET tunnels == type # "config" /\ "tunnel" \in d.svc
          IN \/ /\ type # "config" /\ (~tunnels \/ get_client_addr(d) = {})
                /\ UNCHANGED <<d, lost>>
             \/ \E a \in IF tunnels THEN get_client_addr(d) ELSE {0} :
                /\ type = "config" \/ tunnels
                /\ \/ /\ type = "raw" \/ FreeChannel(d) = {}
                      /\ d' = Take(d, a) /\ lost' = lost \cup ({a} \ {0})
                   \/ /\ type # "raw" /\ UNCHANGED lost
                      /\ \E ch \in FreeChannel(d) : d' = addClient(Take(d, a), type, a, ch)
    BY DEF connection_request
  <1>2. d.n < case.conn /\ cl' = cl /\ req' = req /\ ack' = ack /\ case' = case BY Zenon DEF connection_request
  <1> DEFINE tunnels == type # "config" /\ "tunnel" \in d.svc
  <1>3. Books(d, lost) /\ d \in Daemon /\ case \in Cases /\ d.n \in 0 .. MaxConn
    BY Zenon DEF SInv, Books, Daemon
  <1>4. type \in {"link", "busmon", "config", "raw"} /\ d.n < MaxConn
    <2>1. case \in [late : BOOLEAN, conn : Conns, ops : Nat, types : SUBSET Requests] BY <1>3, ServerConfig, Zenon
    <2>2. case.conn \in Conns /\ type \in Requests BY <2>1, Zenon
    <2>3. d.n < MaxConn BY <1>2, <1>3, <2>2, ServerConfig, SMT DEF Conns
    <2> QED BY <2>2, <2>3, ServerConfig, Zenon
  <1>5. ASSUME d' = d, lost' = lost PROVE SInv'
    <2>1. Books(d', lost') BY <1>3, <1>5, Zenon
    <2>2. \A c \in Conns : ConnOK(d'.conn[c]) /\ Session(d'.conn[c], cl'[c], req'[c], ack'[c])
      BY <1>2, <1>5, Zenon DEF SInv
    <2> QED BY <1>2, <1>5, <2>1, <2>2, Zenon DEF SInv
  <1>6. CASE UNCHANGED <<d, lost>>
    <2>1. d' = d /\ lost' = lost BY <1>6, Zenon
    <2> QED BY <1>5, <2>1, Zenon
  <1>8. ASSUME NEW a \in IF tunnels THEN get_client_addr(d) ELSE {0},
               \/ /\ d' = Take(d, a) /\ lost' = lost \cup ({a} \ {0})
               \/ /\ type # "raw" /\ UNCHANGED lost
                  /\ \E ch \in FreeChannel(d) : d' = addClient(Take(d, a), type, a, ch)
        PROVE  SInv'
    <2>1. a \in 0 .. NAddrs /\ (a # 0 => a \notin d.client_addrs /\ \A b \in d.links : d.conn[b].had # a)
      <3>1. CASE tunnels
        <4>1. a \in 1 .. NAddrs /\ a \notin d.client_addrs /\ \A b \in d.links : d.conn[b].had # a
          BY <1>3, <1>8, <3>1, AddrIs, Zenon
        <4>2. 1 .. NAddrs \subseteq 0 .. NAddrs BY ServerConfig, SMT
        <4> QED BY <4>1, <4>2, Zenon
      <3>2. CASE ~tunnels BY <1>8, <3>2, Basics, Zenon
      <3> QED BY <3>1, <3>2, Zenon
    <2>2. CASE d' = Take(d, a) /\ lost' = lost \cup ({a} \ {0})
      <3>1. Books(d', lost') BY <1>3, <2>1, <2>2, TakenLost, Zenon
      <3>2. d'.conn = d.conn /\ d'.connections = d.connections BY <1>3, <2>1, <2>2, TakeIs, Zenon
      <3>3. \A c \in Conns : ConnOK(d'.conn[c]) /\ Session(d'.conn[c], cl'[c], req'[c], ack'[c])
        BY <1>2, <3>2, Zenon DEF SInv
      <3> QED BY <1>2, <1>8, <3>1, <3>2, <3>3, Zenon DEF SInv
    <2>3. CASE /\ type # "raw" /\ UNCHANGED lost
               /\ \E ch \in FreeChannel(d) : d' = addClient(Take(d, a), type, a, ch)
      <3>1. PICK ch \in FreeChannel(d) : d' = addClient(Take(d, a), type, a, ch) BY <2>3
      <3>2. type \in {"link", "busmon", "config"} /\ lost' = lost BY <1>4, <2>3, Zenon
      <3>3. PICK c : /\ c \in Conns /\ c \notin d.connections /\ Books(d', lost)
                     /\ d'.connections = d.connections \cup {c}
                     /\ ConnOK(d'.conn[c]) /\ Session(d'.conn[c], NoClient, <<>>, <<>>)
                     /\ \A b \in Conns : b # c => d'.conn[b] = d.conn[b]
        <4> DEFINE e == d.n + 1
        <4>1. /\ e \in Conns /\ e \notin d.connections /\ Books(d', lost) /\ d'.connections = d.connections \cup {e}
              /\ ConnOK(d'.conn[e]) /\ Session(d'.conn[e], NoClient, <<>>, <<>>)
              /\ \A b \in Conns : b # e => d'.conn[b] = d.conn[b]
          BY <1>3, <1>4, <2>1, <3>1, <3>2, AddIs
        <4> HIDE DEF e
        <4> QED BY <4>1
      <3>4. cl[c] = NoClient /\ req[c] = <<>> /\ ack[c] = <<>> BY <3>3, Zenon DEF SInv
      <3>5. \A b \in Conns : ConnOK(d'.conn[b]) /\ Session(d'.conn[b], cl'[b], req'[b], ack'[b])
        <4> SUFFICES ASSUME NEW b \in Conns
                     PROVE  ConnOK(d'.conn[b]) /\ Session(d'.conn[b], cl[b], req[b], ack[b])
          BY <1>2, Zenon
        <4>1. CASE b = c BY <3>3, <3>4, <4>1, Zenon
        <4>2. CASE b # c
          <5>1. d'.conn[b] = d.conn[b] BY <3>3, <4>2, Zenon
          <5> QED BY <5>1, Zenon DEF SInv
        <4> QED BY <4>1, <4>2, Zenon
      <3>6. \A b \in Conns : b \notin d'.connections => cl'[b] = NoClient /\ req'[b] = <<>> /\ ack'[b] = <<>>
        BY <1>2, <3>3, Zenon DEF SInv
      <3>7. Books(d', lost') BY <3>2, <3>3, Zenon
      <3> QED BY <1>2, <3>5, <3>6, <3>7, Zenon DEF SInv
    <2> QED BY <1>8, <2>2, <2>3, Zenon
  <1> QED BY <1>1, <1>6, <1>8

\* Types and session of a connection that is not there.
LEMMA NoClientIs == NoClient \in Client /\ Session(NoConn, NoClient, <<>>, <<>>)
  <1>1. NoClient \in Client BY Basics, Zenon DEF NoClient, Client
  <1>2. NoClient.got = <<>> /\ NoConn.put = <<>> /\ ~NoConn.alive BY NoConnIs, Zenon DEF NoClient
  <1>3. Len(<<>>) = 0 /\ 0 =< 0 /\ \A i : i \notin 1 .. 0 BY SMT
  <1>4. Session(NoConn, NoClient, <<>>, <<>>) BY <1>2, <1>3, Zenon DEF Session
  <1> QED BY <1>1, <1>4

\* EIBnetServer::drop_trigger_cb
LEMMA DropStep == ASSUME SInv, drop_trigger_cb PROVE SInv'
  <1> DEFINE g == d.drop_q \cap d.connections
             f == [c \in Conns |-> IF c \in g THEN NoConn ELSE d.conn[c]]
             C == d.connections \ g
             K == d.links \ g
  <1>1. d \in Daemon /\ ~d.aborted /\ Listed(d) /\ Addressed(d, lost) /\ Unique(d) /\ Monitors(d)
        /\ lost \in SUBSET (1 .. NAddrs) /\ d.conn \in [Conns -> Conn] /\ d.connections \in SUBSET Conns
        /\ d.links \in SUBSET Conns /\ d.links = d.connections
    BY Zenon DEF SInv, Books, Daemon, Listed
  <1>2. /\ d' = [d EXCEPT !.drop_trigger = FALSE, !.drop_q = {}, !.connections = C, !.links = K, !.conn = f]
        /\ cl' = [c \in Conns |-> IF c \in g THEN NoClient ELSE cl[c]]
        /\ req' = [c \in Conns |-> IF c \in g THEN <<>> ELSE req[c]]
        /\ ack' = [c \in Conns |-> IF c \in g THEN <<>> ELSE ack[c]]
        /\ UNCHANGED <<case, lost>>
    BY Zenon DEF drop_trigger_cb
  <1>3. f \in [Conns -> Conn] /\ C \in SUBSET Conns /\ K \in SUBSET Conns /\ K = C
    <2>1. f \in [Conns -> Conn] BY <1>1, NoConnIs, Zenon
    <2>2. C \in SUBSET Conns /\ K \in SUBSET Conns /\ K = C BY <1>1, Zenon
    <2> QED BY <2>1, <2>2
  <1>4. /\ \A c \in Conns : f[c] = IF c \in g THEN NoConn ELSE d.conn[c]
        /\ C = {c \in d.connections : c \notin d.drop_q} /\ \A c \in g : c \in Conns /\ ~d.conn[c].alive
    <2>1. \A c \in Conns : f[c] = IF c \in g THEN NoConn ELSE d.conn[c] BY Zenon
    <2>2. \A c \in g : c \in Conns /\ ~d.conn[c].alive BY <1>1, Zenon DEF Listed
    <2>3. C = {c \in d.connections : c \notin d.drop_q} BY Zenon
    <2> QED BY <2>1, <2>2, <2>3
  <1>5. \A c \in Conns : f[c].alive => f[c] = d.conn[c]
    BY <1>4, NoConnIs, Zenon
  <1>6. \A c \in Conns : d.conn[c].alive => f[c] = d.conn[c]
    BY <1>4, Zenon
  <1> HIDE DEF f, C, K
  <1>7. d' \in Daemon BY <1>1, <1>2, <1>3, Zenon DEF Daemon
  <1>8. /\ d'.drop_trigger = FALSE /\ d'.drop_q = {} /\ d'.connections = C /\ d'.links = K /\ d'.conn = f
        /\ d'.n = d.n /\ d'.vbusmonitor = d.vbusmonitor /\ d'.client_addrs = d.client_addrs /\ d'.aborted = d.aborted
    BY <1>1, <1>2, Zenon DEF Daemon
  <1>9. Listed(d')
    <2>1. \A c \in Conns : c \notin C => f[c] = NoConn
      <3>1. \A c \in Conns : c \notin C => c \in g \/ c \notin d.connections BY <1>4, Zenon
      <3>2. \A c \in Conns : c \notin d.connections => d.conn[c] = NoConn BY <1>1, Zenon DEF Listed
      <3> QED BY <1>4, <3>1, <3>2, Zenon
    <2>2. \A c \in C : f[c].alive
      <3>1. \A c \in C : c \in d.connections /\ c \in Conns /\ d.conn[c].alive BY <1>1, <1>3, <1>4, Zenon DEF Listed
      <3> QED BY <1>6, <3>1, Zenon
    <2>3. C \subseteq 1 .. d.n BY <1>1, <1>4, Zenon DEF Listed
    <2> QED BY <1>3, <1>8, <2>1, <2>2, <2>3, Zenon DEF Listed
  <1>10. Addressed(d', lost)
    <2>1. Alive(d') = Alive(d) /\ \A c \in Alive(d) : d'.conn[c] = d.conn[c] BY <1>5, <1>6, <1>8, Zenon DEF Alive
    <2>2. Addrs(d') = Addrs(d) BY <2>1, Zenon DEF Addrs
    <2>3. \A c \in Conns : IF d'.conn[c].alive THEN d'.conn[c].addr = d'.conn[c].had
                                               ELSE d'.conn[c].addr = 0 /\ ~d'.conn[c].up
      <3>1. \A c \in Conns : d'.conn[c] = NoConn \/ d'.conn[c] = d.conn[c] BY <1>4, <1>8, Zenon
      <3>2. \A c \in Conns : IF d.conn[c].alive THEN d.conn[c].addr = d.conn[c].had
                                                ELSE d.conn[c].addr = 0 /\ ~d.conn[c].up
        BY <1>1, Zenon DEF Addressed
      <3> QED BY <3>1, <3>2, NoConnIs, Zenon
    <2> QED BY <1>1, <1>8, <2>2, <2>3, Zenon DEF Addressed
  <1>11. Unique(d')
    <2>1. \A c \in C : c \in d.connections /\ c \in Conns /\ f[c] = d.conn[c] BY <1>1, <1>3, <1>4, Zenon
    <2> SUFFICES ASSUME NEW a \in C, NEW b \in C, a # b
                 PROVE  /\ f[a].channel # f[b].channel
                        /\ f[a].had # 0 => f[a].had # f[b].had
      BY <1>8, Zenon DEF Unique
    <2>2. /\ d.conn[a].channel # d.conn[b].channel
          /\ d.conn[a].had # 0 => d.conn[a].had # d.conn[b].had
      BY <1>1, <2>1, Zenon DEF Unique
    <2> QED BY <2>1, <2>2, Zenon
  <1>12. Monitors(d')
    <2> SUFFICES ASSUME NEW c \in Conns
                 PROVE  d.vbusmonitor[c] = IF f[c].alive /\ f[c].type = "busmon" THEN 1 ELSE 0
      BY <1>8, Zenon DEF Monitors
    <2>1. d.vbusmonitor[c] = IF d.conn[c].alive /\ d.conn[c].type = "busmon" THEN 1 ELSE 0 BY <1>1, Zenon DEF Monitors
    <2> QED BY <1>5, <1>6, <2>1, Zenon
  <1>13. Books(d', lost') BY <1>1, <1>2, <1>7, <1>8, <1>9, <1>10, <1>11, <1>12, Zenon DEF Books
  <1>14. \A c \in Conns : \/ f[c] = NoConn /\ cl'[c] = NoClient /\ req'[c] = <<>> /\ ack'[c] = <<>>
                          \/ f[c] = d.conn[c] /\ cl'[c] = cl[c] /\ req'[c] = req[c] /\ ack'[c] = ack[c]
    BY <1>2, <1>4, Zenon
  <1>15. \A c \in Conns : ConnOK(d'.conn[c]) /\ Session(d'.conn[c], cl'[c], req'[c], ack'[c])
    <2> SUFFICES ASSUME NEW c \in Conns PROVE ConnOK(f[c]) /\ Session(f[c], cl'[c], req'[c], ack'[c]) BY <1>8, Zenon
    <2>1. CASE f[c] = NoConn /\ cl'[c] = NoClient /\ req'[c] = <<>> /\ ack'[c] = <<>>
      BY <2>1, NoConnIs, NoClientIs, Zenon
    <2>2. CASE f[c] = d.conn[c] /\ cl'[c] = cl[c] /\ req'[c] = req[c] /\ ack'[c] = ack[c]
      BY <2>2, Zenon DEF SInv
    <2> QED BY <1>14, <2>1, <2>2, Zenon
  <1>16. /\ cl' \in [Conns -> Client] /\ req' \in [Conns -> {<<>>} \cup {<<m>> : m \in Request}]
         /\ ack' \in [Conns -> {<<>>} \cup {<<n>> : n \in Seqno}]
    <2>1. /\ cl \in [Conns -> Client] /\ req \in [Conns -> {<<>>} \cup {<<m>> : m \in Request}]
          /\ ack \in [Conns -> {<<>>} \cup {<<n>> : n \in Seqno}]
      BY DEF SInv
    <2> QED BY <1>2, <2>1, NoClientIs, Zenon
  <1>17. \A c \in Conns : c \notin C => cl'[c] = NoClient /\ req'[c] = <<>> /\ ack'[c] = <<>>
    <2>1. \A c \in Conns : c \notin C => c \in g \/ c \notin d.connections BY <1>4, Zenon
    <2>2. \A c \in Conns : c \in g => cl'[c] = NoClient /\ req'[c] = <<>> /\ ack'[c] = <<>> BY <1>2, Zenon
    <2>3. \A c \in Conns : c \notin d.connections => cl[c] = NoClient /\ req[c] = <<>> /\ ack[c] = <<>>
      BY Zenon DEF SInv
    <2>4. \A c \in Conns : c \notin g => cl'[c] = cl[c] /\ req'[c] = req[c] /\ ack'[c] = ack[c] BY <1>2, Zenon
    <2> SUFFICES ASSUME NEW c \in Conns, c \notin C PROVE cl'[c] = NoClient /\ req'[c] = <<>> /\ ack'[c] = <<>>
      OBVIOUS
    <2>5. CASE c \in g BY <2>2, <2>5, Zenon
    <2>6. CASE c \notin g BY <2>1, <2>3, <2>4, <2>6, Zenon
    <2> QED BY <2>5, <2>6, Zenon
  <1>18. case' \in Cases BY <1>2, Zenon DEF SInv
  <1> QED BY <1>8, <1>13, <1>15, <1>16, <1>17, <1>18, Zenon DEF SInv
-----------------------------------------------------------------------------
\* The server before it is started.
LEMMA InitSInv == ASSUME Init PROVE SInv
  <1>1. PICK svc \in Services :
          d = [ conn |-> [c \in Conns |-> NoConn], n |-> 0, svc |-> svc,
                state |-> "down", want_up |-> TRUE, sock |-> FALSE, mcast |-> FALSE,
                connections |-> {}, drop_q |-> {}, drop_active |-> TRUE, drop_trigger |-> FALSE,
                links |-> {}, vbusmonitor |-> [c \in Conns |-> 0],
                client_addrs |-> {}, client_addrs_pos |-> NAddrs,
                router_buf |-> <<>>, aborted |-> FALSE, x |-> 1 ]
    BY Zenon DEF Init
  <1>2. /\ cl = [c \in Conns |-> NoClient] /\ req = [c \in Conns |-> <<>>] /\ ack = [c \in Conns |-> <<>>]
        /\ case \in Cases /\ lost = {}
    BY Zenon DEF Init
  <1>3. /\ [c \in Conns |-> NoConn] \in [Conns -> Conn] /\ [c \in Conns |-> 0] \in [Conns -> Nat]
        /\ svc \in SUBSET {"tunnel", "route", "discover"}
    BY ServerConfig, NoConnIs, Basics, Zenon
  <1>4. 0 \in 0 .. MaxConn /\ NAddrs \in 1 .. NAddrs /\ 1 \in Int BY ServerConfig, SMT
  <1>5. <<>> \in Seq([src : 0 .. MaxConn, x : Int]) BY SMT
  <1>6. d \in Daemon BY <1>1, <1>3, <1>4, <1>5, Zenon DEF Daemon
  <1>7. /\ d.conn = [c \in Conns |-> NoConn] /\ d.connections = {} /\ d.links = {} /\ d.drop_q = {}
        /\ d.vbusmonitor = [c \in Conns |-> 0] /\ d.client_addrs = {} /\ ~d.aborted
    BY <1>1, Zenon
  <1>8. \A c \in Conns : d.conn[c] = NoConn /\ d.vbusmonitor[c] = 0 BY <1>7, Zenon
  <1>9. Listed(d) BY <1>7, <1>8, Zenon DEF Listed
  <1>10. Addressed(d, lost)
    <2>1. Addrs(d) = {} BY <1>8, NoConnIs, Zenon DEF Addrs, Alive
    <2> QED BY <1>2, <1>7, <1>8, <2>1, NoConnIs, Zenon DEF Addressed
  <1>11. Unique(d) BY <1>7, Zenon DEF Unique
  <1>12. Monitors(d) BY <1>8, NoConnIs, Zenon DEF Monitors
  <1>13. Books(d, lost) BY <1>2, <1>6, <1>7, <1>9, <1>10, <1>11, <1>12, Zenon DEF Books
  <1>14. \A c \in Conns : ConnOK(d.conn[c]) /\ Session(d.conn[c], cl[c], req[c], ack[c])
    BY <1>2, <1>8, NoConnIs, NoClientIs, Zenon
  <1>15. /\ cl \in [Conns -> Client] /\ req \in [Conns -> {<<>>} \cup {<<m>> : m \in Request}]
         /\ ack \in [Conns -> {<<>>} \cup {<<n>> : n \in Seqno}]
    BY <1>2, NoClientIs, Zenon
  <1> QED BY <1>2, <1>13, <1>14, <1>15, Zenon DEF SInv

\* The inductive invariant of the server: the lists agree, every connection has the
\* timers it needs, and each client is where its connection thinks it is.
THEOREM ServerInductive == Spec => []SInv
  <1>1. Init => SInv BY InitSInv
  <1>2. SInv /\ [Next]_vars => SInv'
    <2> SUFFICES ASSUME SInv, [Next]_vars PROVE SInv' OBVIOUS
    <2>1. CASE UNCHANGED vars
      <3>1. d' = d /\ cl' = cl /\ req' = req /\ ack' = ack /\ case' = case /\ lost' = lost
        BY <2>1, Zenon DEF vars
      <3> QED BY <3>1, Zenon DEF SInv
    <2>2. CASE Next
      <3>1. CASE start BY <3>1, StartStep, Zenon
      <3>2. CASE error_cb BY <3>2, ErrorStep, Zenon
      <3>3. CASE router_stop BY <3>3, RouterStopStep, Zenon
      <3>4. CASE connection_request BY <3>4, ConnectionStep, Zenon
      <3>5. CASE bus BY <3>5, BusStep, Zenon
      <3>6. CASE trigger_cb BY <3>6, TriggerStep, Zenon
      <3>7. CASE drop_trigger_cb BY <3>7, DropStep, Zenon
      <3>8. CASE \E ch \in 1 .. NChannels : disconnect_request(ch) BY <3>8, DisconnectStep, Zenon
      <3>9. CASE \E c \in Conns : \/ client_request(c) \/ client_recv(c) \/ client_ack(c)
                                  \/ send_trigger_cb(c) \/ sendtimeout_cb(c) \/ timeout_cb(c)
                                  \/ queue_trigger_cb(c)
        BY <3>9, RequestStep, RecvStep, AckStep, SendTriggerStep, SendTimeoutStep, TimeoutStep, QueueTriggerStep, Zenon
      <3> QED BY <2>2, <3>1, <3>2, <3>3, <3>4, <3>5, <3>6, <3>7, <3>8, <3>9, Zenon DEF Next
    <2> QED BY <2>1, <2>2, Zenon
  <1> QED BY <1>1, <1>2, PTL DEF Spec

\* What the server and the router keep for a connection, its channel, its address, its
\* link and its entry as a bus monitor, is there exactly as long as the connection
\* (addClient, ConnState::stop, drop_trigger_cb), whatever ends it and in which order,
\* and the assertion of ConnState::send_L_Data holds.
THEOREM ServerBooks == Spec => []BooksExact
  <1>1. ASSUME SInv PROVE BooksExact
    <2>1. d \in Daemon /\ ~d.aborted /\ Listed(d) /\ Addressed(d, lost) /\ Unique(d) /\ Monitors(d)
      BY <1>1, Zenon DEF SInv, Books
    <2>2. Live = Alive(d) BY Zenon DEF Live, Alive
    <2>3. TypeOK
      <3>1. /\ d.n \in 0 .. MaxConn /\ d.links \subseteq Conns /\ d.client_addrs \subseteq 1 .. NAddrs
            /\ \A c \in Conns : d.conn[c] \in Conn
        BY <2>1, Zenon DEF Daemon
      <3>2. \A c \in Conns : d.conn[c].sno \in 0 .. (Seqnos - 1) /\ d.conn[c].retries \in 0 .. 3
        BY <1>1, <3>1, Zenon DEF SInv, ConnOK, Timers, Conn, Seqno
      <3> QED BY <2>1, <3>1, <3>2, Zenon DEF TypeOK
    <2>4. d.client_addrs = ({d.conn[c].addr : c \in Live} \ {0}) \cup lost BY <2>1, <2>2, Zenon DEF Addressed, Addrs
    <2>5. d.links = d.connections BY <2>1, Zenon DEF Listed
    <2>6. ASSUME NEW a \in d.connections, NEW b \in d.connections, a # b
          PROVE  d.conn[a].channel # d.conn[b].channel /\ (d.conn[a].had # 0 => d.conn[a].had # d.conn[b].had)
      BY <2>1, <2>6, Zenon DEF Unique
    <2>7. \A a, b \in d.links : a # b /\ d.conn[a].had # 0 => d.conn[a].had # d.conn[b].had BY <2>5, <2>6, Zenon
    <2>8. \A a, b \in d.connections : a # b => d.conn[a].channel # d.conn[b].channel BY <2>6, Zenon
    <2>9. \A c \in Conns : d.vbusmonitor[c] = IF c \in Live /\ d.conn[c].type = "busmon" THEN 1 ELSE 0
      BY <2>1, <2>2, Zenon DEF Monitors, Alive
    <2>10. d.drop_active /\ ~d.drop_trigger => d.connections = Live /\ d.links = Live
      <3> SUFFICES ASSUME d.drop_active, ~d.drop_trigger PROVE d.connections = Alive(d) BY <2>2, <2>5, Zenon
      <3>1. d.drop_q = {} BY <2>1, Zenon DEF Listed
      <3>2. d.connections \subseteq Conns BY <2>1, Zenon DEF Daemon
      <3>3. \A c \in Conns : c \in d.connections <=> d.conn[c].alive BY <2>1, <3>1, NoConnIs, Zenon DEF Listed
      <3> QED BY <3>2, <3>3, Zenon DEF Alive
    <2> QED BY <2>3, <2>4, <2>7, <2>8, <2>9, <2>10, Zenon DEF BooksExact
  <1> QED BY <1>1, ServerInductive, PTL

\* A connection with something to send has a timer or a trigger for it (Confirmed,
\* sendtimeout_cb), and the client gets what the server sends in order, nothing twice
\* and nothing left out.
THEOREM ServerServes == Spec => []Serves
  <1>1. ASSUME SInv PROVE Serves
    <2>1. ASSUME NEW c \in Live
          PROVE  LET k == d.conn[c]
                 IN /\ k.timeout
                    /\ k.out # <<>> => k.trigger \/ k.sendtimeout
                    /\ k.type = "link" /\ k.queue = "Q_BUSY" => k.do_send_next /\ k.out # <<>>
                    /\ k.queue = "Q_IDLE" /\ k.buf # <<>> => k.qtrigger
      <3>1. c \in Conns /\ d.conn[c].alive BY <2>1, Zenon DEF Live
      <3>2. Timers(d.conn[c]) /\ Queue(d.conn[c]) BY <1>1, <3>1, Zenon DEF SInv, ConnOK
      <3> QED BY <3>1, <3>2, Zenon DEF Timers, Queue
    <2>2. ASSUME NEW c \in Conns
          PROVE  /\ Len(cl[c].got) =< Len(d.conn[c].put)
                 /\ \A i \in DOMAIN cl[c].got : cl[c].got[i] = d.conn[c].put[i]
      <3>1. Session(d.conn[c], cl[c], req[c], ack[c]) /\ cl[c] \in Client BY <1>1, Zenon DEF SInv
      <3>2. cl[c].got \in Seq(Int) BY <3>1, Zenon DEF Client
      <3>3. DOMAIN cl[c].got = 1 .. Len(cl[c].got) BY <3>2, SMT
      <3> QED BY <3>1, <3>3, Zenon DEF Session
    <2> QED BY <2>1, <2>2, Zenon DEF Serves
  <1> QED BY <1>1, ServerInductive, PTL
=============================================================================
