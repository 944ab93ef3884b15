------------------------------ MODULE MCRouter ------------------------------
(***************************************************************************)
(* Two configured links and one client link for the router's life cycle.   *)
(***************************************************************************)
EXTENDS Router

CONSTANTS a, b, c

MCLinks == {a, b, c}
MCTwo == {a, b}
MCTransient == {c}
MCNone == {}
MCOne == {b}
MCRetryDelay == [l \in Links |-> IF l = a THEN 1 ELSE 0]
MCAllRetry == [l \in Links |-> 1]
MCMaxRetries == [l \in Links |-> IF l = b THEN 1 ELSE 0]
=============================================================================
