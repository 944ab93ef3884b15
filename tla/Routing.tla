------------------------------ MODULE Routing ------------------------------
(***************************************************************************)
(* KNXnet/IP routing: daemons that exchange packets on a multicast group.  *)
(* A daemon takes part as the driver `ip' (backend/eibnetrouter.cpp) or as *)
(* a server that routes (EIBnetDriver in libserver/eibnetserver.cpp), with *)
(* one socket or with a socket of its own for multicasts (multi-port).     *)
(* EIBNetIPSocket (libserver/eibnetip.cpp) queues what is sent, retries    *)
(* after an error and tells foreign packets from its own.                  *)
(***************************************************************************)
EXTENDS Integers, Sequences, SequencesExt

CONSTANTS
    Hosts,       \* daemons, 1 .. n
    Setups,      \* each [Hosts -> [kind : "ip", "single" or "multi", on : a computer]]
    ErrorLimit,  \* 5, in io_send_cb
    Faulty,      \* kinds whose socket calls may fail
    MaxSend      \* bound: packets a daemon sends

VARIABLES
    h,           \* [Hosts -> daemon]
    air,         \* [Hosts -> packets that wait in the socket of the group]
    faults       \* history: socket errors so far

rvars == <<h, air, faults>>

\* A socket: fd, io_send, send_q, send_error, recvall = 2 and localaddr.
Closed == [fd |-> FALSE, io_send |-> FALSE, send_q |-> <<>>, send_error |-> 0, localaddr |-> <<0, 0>>]

\* sock sends; mc receives when the kind is "multi".  handed, out and got are
\* what the router gave, what left the socket and what the router got; due is
\* what others sent while the daemon was a member of the group.
Down(d) == [kind |-> d.kind, on |-> d.on, state |-> "down", sock |-> Closed, mc |-> Closed,
            aborted |-> FALSE, handed |-> <<>>, out |-> <<>>, got |-> <<>>, due |-> <<>>]

RInit ==
    /\ h \in {[x \in Hosts |-> Down(d[x])] : d \in Setups}
    /\ air = [x \in Hosts |-> <<>>] /\ faults = 0

-----------------------------------------------------------------------------
\* EIBNetIPSocket.

\* The address a daemon sends from: the standard port, or one of the system's choice.
From(x) == <<h[x].on, IF h[x].kind = "multi" THEN 1000 + x ELSE 3671>>

\* EIBNetIPSocket::EIBNetIPSocket and init: send_error is not initialized, so that
\* it may have any value.
NewSocket == {[Closed EXCEPT !.fd = TRUE, !.send_error = e] : e \in {0, ErrorLimit + 1}}

\* mutant: the port of the group in place of the server's
localaddr_Group(x, s) == [s EXCEPT !.localaddr = <<h[x].on, 3671>>]

\* GetSourceAddress, and the port: packets from there are the daemon's own.
localaddr(x, s) == [s EXCEPT !.localaddr = From(x)]

\* EIBNetIPSocket::stop and the destructor
CloseSocket(s) == [s EXCEPT !.fd = FALSE, !.io_send = FALSE]

\* EIBNetIPSocket::Send: the watcher is started for the first packet; libev
\* aborts if the socket has been closed.
Send(k, p) ==
    [k EXCEPT !.aborted = @ \/ (k.sock.send_q = <<>> /\ ~k.sock.fd),
              !.sock.io_send = @ \/ (k.sock.send_q = <<>> /\ k.sock.fd),
              !.sock.send_q = Append(@, p), !.handed = Append(@, p)]

\* Sockets of members of the group.
Member(x) == h[x].state = "up" /\ (IF h[x].kind = "multi" THEN h[x].mc.fd ELSE h[x].sock.fd)

\* EIBnetServer::stop_ with ~EIBnetDriver and EIBNetIPRouter::stop
stop_(k) == [k EXCEPT !.state = "stopped", !.sock = Closed, !.mc = Closed]

\* on_error: EIBnetServer::error_cb and EIBnetDriver::error_cb stop the server.  The
\* driver ip leaves it at the socket's own error_cb, which closes the socket.
on_error(k) == IF k.kind = "ip" THEN [k EXCEPT !.sock = CloseSocket(@)] ELSE stop_(k)

-----------------------------------------------------------------------------
\* EIBNetIPRouter::start
EIBNetIPRouter_start(x, s) == [h[x] EXCEPT !.state = "up", !.sock = localaddr(x, s)]

\* EIBnetDriver::EIBnetDriver, in EIBnetServer::start: the group has a socket of its
\* own when the server uses a port of its own.
EIBnetDriver(x, s, m) ==
    IF h[x].kind = "multi" THEN [h[x] EXCEPT !.state = "up", !.sock = s, !.mc = localaddr(x, m)]
    ELSE [h[x] EXCEPT !.state = "up", !.sock = localaddr(x, s)]

\* Without a socket, an interface or the group there is no driver.
start(x) ==
    /\ h[x].state = "down"
    /\ \/ \E s \in NewSocket, m \in NewSocket :
          h' = [h EXCEPT ![x] = IF h[x].kind = "ip" THEN EIBNetIPRouter_start(x, s)
                                ELSE EIBnetDriver(x, s, m)]
       \/ h[x].kind \in Faulty /\ h' = [h EXCEPT ![x].state = "stopped"]
    /\ UNCHANGED <<air, faults>>

\* The router stops the link or the server.
stop(x) ==
    /\ h[x].state = "up"
    /\ h' = [h EXCEPT ![x] = stop_(@)] /\ air' = [air EXCEPT ![x] = <<>>]
    /\ UNCHANGED faults

\* EIBNetIPRouter::send_L_Data and EIBnetDriver::send_L_Data
send_L_Data(x) ==
    /\ h[x].state = "up" /\ ~h[x].aborted /\ Len(h[x].handed) < MaxSend
    /\ h' = [h EXCEPT ![x] = Send(@, Len(@.handed) + 1)]
    /\ UNCHANGED <<air, faults>>

\* The packet p leaves x's socket, of which r is left, and reaches every member, the
\* sender included.
Multicast(x, p, r) ==
    /\ air' = [y \in Hosts |-> IF Member(y) THEN Append(air[y], [x |-> x, from |-> From(x), p |-> p])
                               ELSE air[y]]
    /\ h' = [y \in Hosts |-> IF y = x THEN [r EXCEPT !.out = Append(@, p)]
                             ELSE IF Member(y) THEN [h[y] EXCEPT !.due = Append(@, <<x, p>>)]
                             ELSE h[y]]

\* EIBNetIPSocket::io_send_cb
io_send_cb(x) ==
    LET k == h[x]
        Rest == [k EXCEPT !.sock.send_q = Tail(@), !.sock.send_error = 0]
    IN /\ k.sock.io_send
       /\ \/ /\ k.sock.send_q = <<>>
             /\ h' = [h EXCEPT ![x].sock.io_send = FALSE] /\ UNCHANGED <<air, faults>>
          \/ /\ k.sock.send_q # <<>>
             /\ Multicast(x, k.sock.send_q[1], Rest)
             /\ UNCHANGED faults
          \/ /\ k.sock.send_q # <<>> /\ k.kind \in Faulty
             /\ h' = [h EXCEPT ![x] = IF k.sock.send_error > ErrorLimit THEN on_error(Rest)
                                      ELSE [k EXCEPT !.sock.send_error = @ + 1]]
             /\ faults' = IF faults > ErrorLimit THEN faults ELSE faults + 1
             /\ UNCHANGED air

\* EIBNetIPRouter::read_cb and EIBnetServer::handle_packet for a ROUTING_INDICATION.
read_cb(k, m) == [k EXCEPT !.got = Append(@, <<m.x, m.p>>)]

\* EIBNetIPSocket::io_recv_cb
io_recv_cb(x) ==
    LET k == h[x]
        s == IF k.kind = "multi" THEN k.mc ELSE k.sock
    IN /\ Member(x)
       /\ \/ /\ air[x] # <<>>
             /\ h' = IF Head(air[x]).from # s.localaddr THEN [h EXCEPT ![x] = read_cb(@, Head(air[x]))]
                     ELSE h
             /\ air' = [air EXCEPT ![x] = Tail(@)] /\ UNCHANGED faults
          \/ /\ k.kind \in Faulty /\ faults =< ErrorLimit
             /\ h' = [h EXCEPT ![x] = on_error(@)] /\ air' = [air EXCEPT ![x] = <<>>]
             /\ faults' = faults + 1

RNext == \E x \in Hosts : start(x) \/ stop(x) \/ send_L_Data(x) \/ io_send_cb(x) \/ io_recv_cb(x)

-----------------------------------------------------------------------------
\* A daemon takes from the group exactly what the others send while it is a member,
\* in order, and never its own packets, though both may be on one computer
\* (doc/inifile.rst on multi-port: "This allows two KNX routers (knxd or otherwise)
\* to co-exist on the same computer").  While a link is up nothing is lost in the
\* daemon: what the router handed over has left the socket or waits in send_q with
\* the watcher running, though errors were retried, and no call is made for a socket
\* that was closed.
GroupExact ==
    \A x \in Hosts :
        /\ h[x].state = "up" =>
              LET others == SelectSeq(air[x], LAMBDA m : m.x # x)
              IN /\ h[x].due = h[x].got \o [i \in DOMAIN others |-> <<others[i].x, others[i].p>>]
                 /\ h[x].handed = h[x].out \o h[x].sock.send_q
                 /\ h[x].sock.send_q # <<>> => h[x].sock.io_send
        /\ ~h[x].aborted
=============================================================================
