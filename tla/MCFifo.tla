------------------------------- MODULE MCFifo -------------------------------
(***************************************************************************)
(* The two places where packets wait: the filters of a link (FilterStack)  *)
(* and the socket of a client (Stream).  A behaviour is one of either.     *)
(***************************************************************************)
EXTENDS Stream

CONSTANTS Queue, Pace, EarlyNext, MaxPackets, MaxIncoming
VARIABLES part, st, sent, got, received

ASSUME FilterConfig ==
    Queue \in BOOLEAN /\ Pace \in BOOLEAN /\ EarlyNext \in BOOLEAN
    /\ MaxPackets \in Nat /\ MaxIncoming \in Nat

qvars == <<st, sent, got, received>>

Q == INSTANCE FilterStack

FifoInit == Init /\ Q!Init /\ part \in {"filters", "socket"}

FifoNext == /\ UNCHANGED part
            /\ \/ part = "filters" /\ Q!Next /\ UNCHANGED vars
               \/ part = "socket" /\ Next /\ UNCHANGED qvars

FifoSpec == FifoInit /\ [][FifoNext]_<<part, vars, qvars>> /\ Q!Fairness /\ Fairness

-----------------------------------------------------------------------------
\* No driver is handed a packet too early; see FilterStack.
OneAtATime == Q!OneAtATime

\* The filters of a link and both directions of a client's socket implement the
\* first-in first-out link of FifoLink; see IsFifo in FilterStack, DownIsFifo and
\* UpIsFifo in Stream.
EachIsFifo == Q!IsFifo /\ DownIsFifo /\ UpIsFifo

\* Nothing stays behind in a queue or a buffer; see Drains in FilterStack and
\* Arrives in Stream.
NothingStays == Q!Drains /\ Arrives

-----------------------------------------------------------------------------
\* The receive buffer has room for the first two messages together, but not for
\* the last one.
MCSizes == <<2, 2, 7>>
=============================================================================
