------------------------------ MODULE Network -------------------------------
(***************************************************************************)
(* Several knxd routers on shared media: libserver/router.cpp's handling   *)
(* of addresses, hop counts and repeated telegrams.                        *)
(*                                                                         *)
(* A router learns on which link a source address lives (recv_L_Data),     *)
(* refuses a telegram whose source it knows on another link, lowers the    *)
(* hop count, drops repetitions of what it sent within the last second     *)
(* (trigger_cb) and sends to every link that may lead to the destination   *)
(* (send_L_Data).  Local clients hang on links of their own and get their  *)
(* address from a block (get_client_addr).  Telegrams wait in the inbox of *)
(* each link until the router's event loop reads them, in any order of     *)
(* links; every link is up and always takes the next telegram, and no bus  *)
(* monitor is registered (Router, RouterFlow and FifoLink are about those).*)
(*                                                                         *)
(* Addresses are integers, 0 being "unassigned".  id and from identify a   *)
(* telegram for the properties; the code has neither.                      *)
(***************************************************************************)
EXTENDS Integers, Sequences, FiniteSets

CONSTANTS
  Routers,          \* knxd processes
  Media,            \* what links them
  Topologies,       \* the values Attached may have
  Device,           \* addresses of the bus devices
  Home,             \* Home[d]: the medium device d sits on
  RouterAddr,       \* RouterAddr[r]: the router's own address
  Clients,          \* client connections of router Gate
  Gate,
  BlockStart, BlockLen,   \* the client block of router Gate
  Group,            \* a group address
  Dests,            \* individual addresses telegrams are sent to
  Hops,             \* hop counts devices send with
  force_broadcast,  \* treat hop count 7 as "everywhere, for ever"
  MaxSent,          \* bound: telegrams originated or repeated by a device
  MaxOpens          \* bound: connections opened

Unprogrammed == 65535
Block == BlockStart .. BlockStart + BlockLen - 1

ASSUME NetworkAssumption ==
  /\ Topologies \subseteq [Media -> SUBSET Routers] /\ Home \in [Device -> Media]
  /\ Device \subseteq 1 .. Unprogrammed /\ RouterAddr \in [Routers -> 1 .. Unprogrammed - 1]
  /\ Gate \in Routers /\ BlockStart \in 1 .. Unprogrammed - 1 /\ BlockLen \in Nat
  /\ Block \cap (Device \cup Dests \cup {RouterAddr[r] : r \in Routers}) = {}
  /\ Group \in Nat /\ Dests \subseteq 1 .. Unprogrammed /\ Media \cap Clients = {}
  /\ Hops \subseteq 0 .. 7 /\ force_broadcast \in BOOLEAN
  /\ MaxSent \in Nat /\ MaxOpens \in Nat

VARIABLES
  Attached,     \* Attached[m]: the routers with a link on medium m; fixed
  addrs,        \* addrs[r][m]: BusDriver::addrs of r's link on m
  buf,          \* buf[r]: Router::buf
  ignore,       \* ignore[r]: [frame, fresh] in order of time
  inbox,        \* inbox[r][m]: telegrams on r's link on m, not read yet
  caddr,        \* caddr[c]: the address of client c's link, 0 when closed
  client_addrs, \* the positions of the block in use
  client_addrs_pos,
  got,          \* got[c]: what client c's link was sent
  on,           \* on[m]: what routers put on medium m: [id, hopcount, by, nth]
  origin,       \* origin[id]: the telegram as it was sent, and the medium or client
  late,         \* a second has passed for some entry of an ignore list
  repeats, opens

vars == <<Attached, addrs, buf, ignore, inbox, caddr, client_addrs, client_addrs_pos, got, on,
          origin, late, repeats, opens>>

Links(r) == {m \in Media : r \in Attached[m]}
ClientsOf(r) == IF r = Gate THEN {c \in Clients : caddr[c] # 0} ELSE {}

Init ==
  /\ Attached \in Topologies
  /\ addrs = [r \in Routers |-> [m \in Media |-> {}]]
  /\ buf = [r \in Routers |-> <<>>]
  /\ ignore = [r \in Routers |-> <<>>]
  /\ inbox = [r \in Routers |-> [m \in Media |-> <<>>]]
  /\ caddr = [c \in Clients |-> 0]
  /\ client_addrs = {} /\ client_addrs_pos = BlockLen - 1
  /\ got = [c \in Clients |-> {}]
  /\ on = [m \in Media |-> {}]
  /\ origin = <<>>
  /\ late = FALSE /\ repeats = 0 /\ opens = 0
-----------------------------------------------------------------------------
\* A device's telegram reaches every router on its medium.
OnMedium(box, m, f) ==
  [r \in Routers |-> [k \in Media |->
     IF k = m /\ r \in Attached[m] THEN Append(box[r][k], f) ELSE box[r][k]]]

Fresh(source, dest, group, hops) ==
  [id |-> Len(origin) + 1, source |-> source, dest |-> dest, group |-> group,
   hopcount |-> hops, repeated |-> FALSE]

DeviceSend(d, dest, group, hops) ==
  /\ Len(origin) + repeats < MaxSent
  /\ LET f == Fresh(d, dest, group, hops)
     IN  /\ origin' = Append(origin, [frame |-> f, from |-> Home[d]])
         /\ inbox' = OnMedium(inbox, Home[d], f)
  /\ UNCHANGED <<addrs, buf, ignore, caddr, client_addrs, client_addrs_pos, got, on,
                 late, repeats, opens>>

\* No acknowledge: the device sends its telegram again, marked as repeated.
DeviceRepeat(i) ==
  /\ Len(origin) + repeats < MaxSent /\ origin[i].from \in Media
  /\ inbox' = OnMedium(inbox, origin[i].from, [origin[i].frame EXCEPT !.repeated = TRUE])
  /\ repeats' = repeats + 1
  /\ UNCHANGED <<addrs, buf, ignore, caddr, client_addrs, client_addrs_pos, got, on,
                 origin, late, opens>>
-----------------------------------------------------------------------------
\* LinkConnect::hasAddress and checkAddress, by the link's driver: a bus remembers
\* what it saw and may lead anywhere, a client's line has one address.
hasAddress(r, k, a) == IF k \in Media THEN a \in addrs[r][k] ELSE a = caddr[k]
checkAddress(r, k, a) == IF k \in Media THEN TRUE ELSE a = caddr[k]
checkGroupAddress(r, k, a) == TRUE

AllLinks(r) == Links(r) \cup ClientsOf(r)

\* mutant: a known source is accepted from any link
recv_L_Data_AnyLink(r, k, l) ==
  LET own   == IF k \in Media THEN 0 ELSE caddr[k]
      src   == IF l.source # 0 THEN l.source ELSE IF own # 0 THEN own ELSE RouterAddr[r]
      known == {j \in AllLinks(r) : hasAddress(r, j, src)}
      refuse == \/ ~l.group /\ l.dest = 0
                \/ src = RouterAddr[r]
                \/ known = {} /\ r = Gate /\ src \in Block
  IN  [accept |-> ~refuse,
       learn  |-> ~refuse /\ known = {} /\ src # Unprogrammed,
       frame  |-> [l EXCEPT !.source = src]]

\* mutant: an address of the client block is learned
recv_L_Data_Block(r, k, l) ==
  LET own   == IF k \in Media THEN 0 ELSE caddr[k]
      src   == IF l.source # 0 THEN l.source ELSE IF own # 0 THEN own ELSE RouterAddr[r]
      known == {j \in AllLinks(r) : hasAddress(r, j, src)}
      refuse == \/ ~l.group /\ l.dest = 0
                \/ src = RouterAddr[r]
                \/ known # {} /\ k \notin known
  IN  [accept |-> ~refuse,
       learn  |-> ~refuse /\ known = {} /\ src # Unprogrammed,
       frame  |-> [l EXCEPT !.source = src]]

\* recv_L_Data: what becomes of telegram l from link k: refused, or accepted and
\* perhaps learned.
recv_L_Data(r, k, l) ==
  LET own   == IF k \in Media THEN 0 ELSE caddr[k]
      src   == IF l.source # 0 THEN l.source ELSE IF own # 0 THEN own ELSE RouterAddr[r]
      known == {j \in AllLinks(r) : hasAddress(r, j, src)}
      refuse == \/ ~l.group /\ l.dest = 0
                \/ src = RouterAddr[r]
                \/ known # {} /\ k \notin known
                \/ known = {} /\ r = Gate /\ src \in Block
  IN  [accept |-> ~refuse,
       learn  |-> ~refuse /\ known = {} /\ src # Unprogrammed,
       frame  |-> [l EXCEPT !.source = src]]

BusRecv(r, m) ==
  /\ inbox[r][m] # <<>>
  /\ LET v == recv_L_Data(r, m, Head(inbox[r][m]))
     IN  /\ buf' = IF v.accept THEN [buf EXCEPT ![r] = Append(@, v.frame)] ELSE buf
         /\ addrs' = IF v.learn THEN [addrs EXCEPT ![r][m] = @ \cup {v.frame.source}]
                     ELSE addrs
  /\ inbox' = [inbox EXCEPT ![r][m] = Tail(@)]
  /\ UNCHANGED <<ignore, caddr, client_addrs, client_addrs_pos, got, on, origin, late,
                 repeats, opens>>

\* A client's telegram carries no source; the router puts in the link's address.
ClientSend(c, dest, group) ==
  /\ caddr[c] # 0 /\ Len(origin) + repeats < MaxSent
  /\ LET f == Fresh(0, dest, group, 6)
         v == recv_L_Data(Gate, c, f)
     IN  /\ origin' = Append(origin, [frame |-> v.frame, from |-> c])
         /\ buf' = IF v.accept THEN [buf EXCEPT ![Gate] = Append(@, v.frame)] ELSE buf
  /\ UNCHANGED <<addrs, ignore, inbox, caddr, client_addrs, client_addrs_pos, got, on,
                 late, repeats, opens>>
-----------------------------------------------------------------------------
\* Which links send_L_Data picks.  "found": some link that is not the sender's
\* has the destination.
Targets(r, l) ==
  LET away  == {k \in AllLinks(r) : ~hasAddress(r, k, l.source)}
      found == \/ l.dest = RouterAddr[r]
               \/ l.dest # Unprogrammed /\ \E k \in away : hasAddress(r, k, l.dest)
  IN  IF l.group
      THEN {k \in away : l.hopcount = 7 \/ checkGroupAddress(r, k, l.dest)}
      ELSE {k \in away : IF l.hopcount = 7 \/ found THEN hasAddress(r, k, l.dest)
                         ELSE checkAddress(r, k, l.dest)}

\* The end of trigger_cb: entries in front of the first one that has not run out
\* are erased; when all have, none is.
Prune(ig) ==
  IF \E i \in DOMAIN ig : ig[i].fresh
  THEN LET first == CHOOSE i \in DOMAIN ig : ig[i].fresh /\ \A j \in 1 .. i - 1 : ~ig[j].fresh
       IN  SubSeq(ig, first, Len(ig))
  ELSE ig

Copies(r, m, i) == {f \in on[m] : f.id = i /\ f.by = r}

\* mutant: the last hop is not used
Dead_Early(l) == l.hopcount <= 1

\* A telegram without hops left is dropped; force_broadcast keeps the hop count 7.
Dead(l) == l.hopcount = 0
Hop(l) == IF l.hopcount < 7 \/ ~force_broadcast THEN [l EXCEPT !.hopcount = @ - 1] ELSE l

\* One turn of trigger_cb's loop.  ends: the loop stops after it, because buf is
\* empty or because a link is not ready for more.
Route(r, ends) ==
  /\ buf[r] # <<>>
  /\ Len(buf[r]) = 1 => ends
  /\ LET l0   == Head(buf[r])
         l1   == Hop(l0)
         seen == l1.repeated /\ \E i \in DOMAIN ignore[r] : ignore[r][i].frame = l1
         drop == Dead(l0) \/ seen
         kept == IF drop THEN ignore[r]
                 ELSE Append(ignore[r], [frame |-> [l1 EXCEPT !.repeated = TRUE], fresh |-> TRUE])
         l2   == [l1 EXCEPT !.repeated = FALSE,
                            !.dest = IF ~l1.group /\ @ = RouterAddr[r] THEN 0 ELSE @]
         to   == IF drop THEN {} ELSE Targets(r, l2)
     IN  /\ ignore' = [ignore EXCEPT ![r] = IF ends THEN Prune(kept) ELSE kept]
         /\ inbox' = [q \in Routers |-> [m \in Media |->
                        IF m \in to /\ q \in Attached[m] \ {r} THEN Append(inbox[q][m], l2)
                        ELSE inbox[q][m]]]
         /\ on' = [m \in Media |->
                     IF m \notin to THEN on[m]
                     ELSE on[m] \cup {[id |-> l2.id, hopcount |-> l2.hopcount, by |-> r,
                                       nth |-> Cardinality(Copies(r, m, l2.id)) + 1]}]
         /\ got' = [c \in Clients |-> IF c \in to THEN got[c] \cup {l2} ELSE got[c]]
  /\ buf' = [buf EXCEPT ![r] = Tail(@)]
  /\ UNCHANGED <<addrs, caddr, client_addrs, client_addrs_pos, origin, late, repeats, opens>>

\* A second passes for the oldest entry.  Only a repetition reads the list, so it
\* is enough to let time pass while one is on its way to the router.
Expire(r) ==
  /\ \/ \E i \in DOMAIN buf[r] : buf[r][i].repeated
     \/ \E m \in Media : \E i \in DOMAIN inbox[r][m] : inbox[r][m][i].repeated
  /\ \E i \in DOMAIN ignore[r] :
       /\ ignore[r][i].fresh /\ \A j \in 1 .. i - 1 : ~ignore[r][j].fresh
       /\ ignore' = [ignore EXCEPT ![r][i].fresh = FALSE]
  /\ late' = TRUE
  /\ UNCHANGED <<addrs, buf, inbox, caddr, client_addrs, client_addrs_pos, got, on,
                 origin, repeats, opens>>
-----------------------------------------------------------------------------
\* mutant: always from the first position
Tries_First == [i \in 1 .. BlockLen |-> i - 1]

\* The positions get_client_addr tries, in order, starting behind the last one.
Tries == [i \in 1 .. BlockLen |-> (client_addrs_pos + i) % BlockLen]
Usable(pos) ==
  LET a == BlockStart + pos
  IN  /\ pos \notin client_addrs /\ a # RouterAddr[Gate]
      /\ ~\E k \in AllLinks(Gate) : hasAddress(Gate, k, a)

\* A client connects and opens a link; no free address, no connection.
Open(c) ==
  /\ caddr[c] = 0 /\ opens < MaxOpens
  /\ \E i \in 1 .. BlockLen :
       /\ Usable(Tries[i]) /\ \A j \in 1 .. i - 1 : ~Usable(Tries[j])
       /\ client_addrs_pos' = Tries[i]
       /\ client_addrs' = client_addrs \cup {Tries[i]}
       /\ caddr' = [caddr EXCEPT ![c] = BlockStart + Tries[i]]
  /\ opens' = opens + 1
  /\ got' = [got EXCEPT ![c] = {}]
  /\ UNCHANGED <<addrs, buf, ignore, inbox, on, origin, late, repeats>>

\* ClientConnection::stop: release_client_addr, then the link goes.
Close(c) ==
  /\ caddr[c] # 0
  /\ client_addrs' = client_addrs \ {caddr[c] - BlockStart}
  /\ caddr' = [caddr EXCEPT ![c] = 0]
  /\ UNCHANGED <<addrs, buf, ignore, inbox, client_addrs_pos, got, on, origin, late,
                 repeats, opens>>

Answerable == {i \in DOMAIN origin : origin[i].frame.source \in Block /\ origin[i].frame.dest \in Device}

Step ==
  \/ \E d \in Device, h \in Hops : DeviceSend(d, Group, TRUE, h)
  \/ \E d \in Device, e \in Dests, h \in Hops : d # e /\ DeviceSend(d, e, FALSE, h)
  \/ \E i \in Answerable, h \in Hops : DeviceSend(origin[i].frame.dest, origin[i].frame.source, FALSE, h)
  \/ \E i \in DOMAIN origin : DeviceRepeat(i)
  \/ \E r \in Routers : \E m \in Links(r) : BusRecv(r, m)
  \/ \E c \in Clients : ClientSend(c, Group, TRUE)
  \/ \E c \in Clients, e \in Dests : ClientSend(c, e, FALSE)
  \/ \E r \in Routers, ends \in BOOLEAN : Route(r, ends)
  \/ \E r \in Routers : Expire(r)
  \/ \E c \in Clients : Open(c) \/ Close(c)

Next == Step /\ UNCHANGED Attached

Spec == Init /\ [][Next]_vars
-----------------------------------------------------------------------------
\* Every router on the way takes one from the hop count of a telegram.
HopsCounted == \A m \in Media : \A f \in on[m] : f.hopcount < origin[f.id].frame.hopcount

\* Although two media join the routers into a loop, a router puts a telegram on
\* each medium at most once and never back on the medium it came from: the second
\* copy's source is known on another link (recv_L_Data), and a repetition within
\* a second is in the ignore list.  The source must be one that is learned; any
\* telegram crosses at most as many routers as its hop count says.
Once ==
  /\ \A i \in DOMAIN origin, r \in Routers, m \in Media :
       origin[i].frame.source # Unprogrammed /\ ~late =>
         Cardinality(Copies(r, m, i)) <= IF origin[i].from = m THEN 0 ELSE 1
  /\ HopsCounted

\* No bus link of the gate ever learns an address of the client block, not even
\* from an echo that arrives after its client has gone: recv_L_Data would then
\* refuse the next client with that address.
BlockStaysLocal == \A m \in Media : addrs[Gate][m] \cap Block = {}

\* A delayed answer to a client that has gone is not given to the client that came
\* after it: get_client_addr starts behind the last address it handed out.  This
\* holds for as many connections as the block has addresses.
NoStrayAnswer ==
  opens <= BlockLen =>
    \A c \in Clients : \A l \in got[c] :
      l.group \/ \E i \in DOMAIN origin : origin[i].from = c /\ origin[i].frame.source = l.dest

Quiet == \A r \in Routers : buf[r] = <<>> /\ \A m \in Media : inbox[r][m] = <<>>

\* A telegram to a device has reached the medium the device is on by the time
\* nothing is under way.
UnicastAlways ==
  Quiet => \A i \in DOMAIN origin :
    ~origin[i].frame.group /\ origin[i].frame.dest \in Device /\ origin[i].from # Home[origin[i].frame.dest]
        /\ origin[i].frame.hopcount >= Cardinality(Routers)
      => \E f \in on[Home[origin[i].frame.dest]] : f.id = i

NoLoop == \A m, n \in Media : m # n => Cardinality(Attached[m] \cap Attached[n]) < 2

\* A telegram with hops to spare has arrived by the time nothing is under way: a
\* group telegram on every other medium (learning an address never cuts off a bus),
\* one to a device on the device's medium.  The latter holds where no media are
\* parallel: in a loop two routers can learn each other's devices on different
\* media and then refuse all their telegrams.
Reaches ==
  /\ Quiet => \A i \in DOMAIN origin, m \in Media :
       origin[i].frame.group /\ origin[i].from # m /\ Attached[m] # {}
           /\ origin[i].frame.hopcount >= Cardinality(Routers)
         => \E f \in on[m] : f.id = i
  /\ NoLoop => UnicastAlways
=============================================================================
