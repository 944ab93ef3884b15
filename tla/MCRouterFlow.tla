---------------------------- MODULE MCRouterFlow ----------------------------
(***************************************************************************)
(* Two configured links; only link a retries.                              *)
(***************************************************************************)
EXTENDS RouterFlow

CONSTANTS a, b, c

MCTwo == {a, b}
MCA == {a}
MCNone == {}
MCRetryDelay == [l \in Links |-> IF l = a THEN 1 ELSE 0]
MCMaxRetries == [l \in Links |-> 0]
=============================================================================
