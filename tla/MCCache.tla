------------------------------ MODULE MCCache -------------------------------
(* The group cache with one request of any kind while time passes, and with  *)
(* two requests that wait at the same time.                                  *)
EXTENDS GroupCache

MCBounds == { [addrs |-> {1, 2, 3}, writes |-> 3, kinds |-> Kinds, req |-> 1, age |-> 1],
              [addrs |-> {1}, writes |-> 2, kinds |-> {"ReadWait", "LastUpdates2"}, req |-> 2, age |-> 0] }
=============================================================================
