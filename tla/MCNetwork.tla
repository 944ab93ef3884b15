----------------------------- MODULE MCNetwork ------------------------------
(***************************************************************************)
(* Two routers: bus a on one, bus b on the other, and between them one     *)
(* backbone (MCTree) or two (MCRing).                                      *)
(***************************************************************************)
EXTENDS Network, TLC

CONSTANTS c1, c2
Perms == Permutations({c1, c2})

MCTree == [a |-> {"r1"}, x |-> {"r1", "r2"}, y |-> {}, b |-> {"r2"}]
MCRing == [a |-> {"r1"}, x |-> {"r1", "r2"}, y |-> {"r1", "r2"}, b |-> {"r2"}]
MCBoth == {MCTree, MCRing}
MCRouterAddr == [r1 |-> 1, r2 |-> 2]
MCDevice == {21, Unprogrammed}
MCHome == (21 :> "b") @@ (Unprogrammed :> "b")
=============================================================================
