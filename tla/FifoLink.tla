------------------------------ MODULE FifoLink ------------------------------
(***************************************************************************)
(* What a buffering filter promises to the link above it: packets reach    *)
(* the driver in the order in which they were sent, each at most once, and *)
(* are lost only together, when the link goes down.                        *)
(***************************************************************************)
EXTENDS Sequences

CONSTANT Packet

VARIABLES waiting, delivered

Init == waiting = <<>> /\ delivered = <<>>

Accept(p) == waiting' = Append(waiting, p) /\ UNCHANGED delivered

Deliver ==
    /\ waiting # <<>>
    /\ delivered' = Append(delivered, Head(waiting))
    /\ waiting' = Tail(waiting)

GoDown == waiting' = <<>> /\ UNCHANGED delivered

Next == Deliver \/ GoDown \/ \E p \in Packet : Accept(p)

Spec == Init /\ [][Next]_<<waiting, delivered>>
=============================================================================
