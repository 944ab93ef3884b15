------------------------------ MODULE MCTunnel ------------------------------
(* Tunnel with packets in both directions on one connection, and with a      *)
(* client that connects a second time while the server has the old one.      *)
EXTENDS Tunnel

MCBounds == { [c |-> 1, s |-> 2, starts |-> 1, channels |-> {1}],
              [c |-> 2, s |-> 0, starts |-> 1, channels |-> {1}],
              [c |-> 1, s |-> 0, starts |-> 2, channels |-> {1, 2}] }
MCGivesUp == { [c |-> 1, s |-> 0, starts |-> 1, channels |-> {1, 2}] }
=============================================================================
