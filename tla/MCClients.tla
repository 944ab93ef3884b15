------------------------------ MODULE MCClients -----------------------------
(***************************************************************************)
(* What clients meet: their connections in the daemon (Clients), and the   *)
(* frames that carry what they send to the other end (Frames).  A          *)
(* behaviour is one of either, chosen at the start, and the other's        *)
(* variables stay as they are.                                             *)
(*                                                                         *)
(* Small value sets for Frames: two values per member, different in every  *)
(* group of bits a class packs together, the payload lengths at which the  *)
(* frame formats change, and every service code with every short length.   *)
(***************************************************************************)
EXTENDS Clients, Frames

VARIABLE part

MCInit ==
  /\ ClientsInit /\ Init
  /\ part \in IF d.client_addrs_len = 1 THEN {"clients", "frames"} ELSE {"clients"}

MCNext ==
  /\ UNCHANGED part
  /\ \/ part = "clients" /\ ClientsNext /\ UNCHANGED vars
     \/ part = "frames" /\ Next /\ UNCHANGED client_vars

MCSpec == MCInit /\ [][MCNext]_<<part, client_vars, vars>>

-----------------------------------------------------------------------------
MCOctet == {5, 201}
MCWord  == {\h1234, \hFEDC}
MCData  == {<<>>, <<7>>, <<129, 0>>}
MCAddr  == {0, \h1101, \hFFFF}
MCChan  == {0, 255}
MCIp    == {<<0, 0>>, <<\hC0A8, \h0107>>}
MCPort  == {0, 3671}
MCHosts == {[ip |-> <<\h0A00, 9>>, port |-> 61000]}

Ramp(n) == [i \in 1 .. n |-> IF i = 1 THEN 0 ELSE (i + 126) % 256]
MCForeign == {Ramp(n) : n \in {1, 16, 17, 254}}
MCOverheard ==
  {<<g, s>> \o [i \in 1 .. n |-> 200 + i] : g \in 0 .. 3, s \in Byte, n \in 0 .. 12}

Name == [i \in 1 .. 30 |-> IF i < 5 \/ i = 30 THEN 96 + i ELSE 0]
Device1 ==
  [KNXmedium |-> 2, devicestatus |-> 1, individual_addr |-> \h1101, installid |-> \hFEDC,
   serial |-> <<1, 2, 3, 4, 5, 6>>, multicastaddr |-> <<224, 0, 23, 12>>,
   MAC |-> <<9, 8, 7, 6, 5, 4>>, name |-> Name]
MCDescribe ==
  {Device1 @@ [cls |-> "DescriptionResponse", services |-> s, optional |-> o] :
     s \in {<<>>, <<<<2, 1>>, <<4, 3>>>>}, o \in {<<>>, <<11, 12>>}}
  \cup
  {Device1 @@ [cls |-> "SearchResponse", services |-> s, caddr |-> a, nat |-> n] :
     s \in {<<>>, <<<<2, 1>>, <<4, 3>>>>}, a \in sockaddr_in, n \in BOOLEAN}
=============================================================================
