----------------------------- MODULE GroupCache -----------------------------
(***************************************************************************)
(* The group cache (libserver/groupcache.cpp) with the requests of its     *)
(* clients (groupcacheclient.cpp).  The cache is the driver of a link of   *)
(* its own, so it sees what the router sends; a client's request is        *)
(* answered at once or by a reader that waits for an update or its timer.  *)
(*                                                                         *)
(* A telegram is named by its number, so entries tell what they hold.      *)
(***************************************************************************)
EXTENDS Integers, Sequences, FiniteSets

CONSTANTS
    Addrs,          \* group addresses
    maxsize,        \* max-size=
    W,              \* 2^16, the range of the start of LastUpdates
    MaxWrites,      \* bound: telegrams
    MaxReq,         \* bound: requests of the clients
    Bounds          \* bounds of a behaviour: [addrs, writes, kinds of requests,
                    \* req : how many, age : how often time passes]

Kinds == {"Read", "ReadWait", "LastUpdates", "LastUpdates2"}

ASSUME CacheConfig ==
    /\ maxsize \in Nat \ {0} /\ W \in Nat \ {0} /\ MaxWrites \in Nat /\ MaxReq \in Nat
    /\ Bounds \subseteq [ addrs : SUBSET Addrs, writes : 0..MaxWrites, kinds : SUBSET Kinds,
                          req : 0..MaxReq, age : Nat ]

VARIABLES
    cache,          \* address -> entry or NoEntry
    cache_seq,      \* the pairs <<seq, address>>
    seq,            \* number of the last entry
    enable,
    link,           \* "new", "up" or "down"
    reader,         \* what waits: request -> GCReader or GCTracker
    remtrigger,
    req,            \* the requests so far
    replies,        \* request -> number of replies
    reply,          \* request -> the last reply
    last,           \* address -> number of the last telegram
    left            \* what may still happen

vars == <<cache, cache_seq, seq, enable, link, reader, remtrigger, req, replies, reply, last, left>>

NoEntry == [ v |-> 0, seq |-> 0, old |-> FALSE ]      \* GroupCacheEntry f(addr)
NoReader == [ active |-> FALSE ]
NoReply == [ kind |-> "none" ]
Writes == 0..MaxWrites
Ids == 1..MaxReq

Init ==
    /\ cache = [ a \in Addrs |-> NoEntry ] /\ cache_seq = {} /\ seq = 0
    /\ enable = FALSE /\ link = "new"
    /\ reader = [ r \in Ids |-> NoReader ] /\ remtrigger = FALSE
    /\ req = <<>> /\ replies = [ r \in Ids |-> 0 ] /\ reply = [ r \in Ids |-> NoReply ]
    /\ last = [ a \in Addrs |-> 0 ] /\ left \in Bounds

cached == <<cache, cache_seq, seq>>
waiting == <<reader, remtrigger, req, replies, reply>>
Highest(f) == CHOOSE n \in Writes : (\A a \in Addrs : f[a] <= n) /\ (n = 0 \/ \E a \in Addrs : f[a] = n)
Written == Highest(last)

-----------------------------------------------------------------------------
\* GroupCache::start and stop, by the router; stop() is part of its shutdown.
start ==
    /\ link = "new"
    /\ link' = "up" /\ enable' = TRUE
    /\ UNCHANGED <<cached, waiting, last, left>>

stop ==
    /\ link = "up"
    /\ link' = "down" /\ enable' = FALSE
    /\ UNCHANGED <<cached, waiting, last, left>>

-----------------------------------------------------------------------------
(* Readers.                                                                  *)

ReadReply(r, e) == [ kind |-> "read", r |-> r, v |-> e.v, old |-> e.old ]

\* GCTracker::handler: the newest first, down to `start'; cs is cache_seq.
Since(cs, from) == { x \in cs : x[1] >= from }
Nth(xs, i) == CHOOSE x \in xs : Cardinality({ y \in xs : y[1] > x[1] }) = i - 1
NewestFirst(xs) == [ i \in 1..Cardinality(xs) |-> Nth(xs, i)[2] ]
Handler(k, cs) == [k EXCEPT !.a = @ \o NewestFirst(Since(cs, k.start)), !.stopped = TRUE,
                            !.timer = FALSE]

\* Does an update of address a make reader k answer?  The trackers test their own
\* member `stopped', which nothing sets.
Hears(k, a) == k.active /\ (k.kind = "read" => k.addr = a /\ ~k.stopped)

\* GroupCache::updated, for an entry e of address a and the new cache_seq.
\* GCReader::stop leaves the timer running.
Updated(a, e, cs, s) ==
    LET hear == { r \in Ids : Hears(reader[r], a) }
        new(r) == IF reader[r].kind = "read" THEN [reader[r] EXCEPT !.stopped = TRUE]
                  ELSE Handler(reader[r], cs)
    IN /\ reader' = [ r \in Ids |-> IF r \in hear THEN new(r) ELSE reader[r] ]
       /\ replies' = [ r \in Ids |-> replies[r] + IF r \in hear THEN 1 ELSE 0 ]
       /\ reply' = [ r \in Ids |->
                       CASE r \in hear /\ reader[r].kind = "read" -> ReadReply(r, e)
                         [] r \in hear /\ reader[r].kind = "track" ->
                              [ kind |-> "list", a |-> new(r).a, end |-> s ]
                         [] OTHER -> reply[r] ]
       /\ remtrigger' = (remtrigger \/ hear # {})

\* The number of a new entry.
NextSeq == seq + 1

\* What makes room for a new entry: the oldest of cache_seq.
Oldest == { x \in cache_seq :
              Cardinality({ y \in cache_seq : y[1] < x[1] }) <= Cardinality(cache_seq) - maxsize }

\* mutant: the old number of a known address is kept
send_L_Data_Stale(a) ==
    /\ link = "up" /\ enable /\ Written < left.writes
    /\ last' = [last EXCEPT ![a] = Written + 1]
    /\ LET e == [ v |-> Written + 1, seq |-> NextSeq, old |-> FALSE ]
           gone == IF cache[a] = NoEntry THEN Oldest ELSE {}
       IN /\ seq' = NextSeq
          /\ cache' = [ b \in Addrs |-> CASE b = a -> e
                                          [] b # a /\ (\E x \in gone : x[2] = b) -> NoEntry
                                          [] OTHER -> cache[b] ]
          /\ cache_seq' = (cache_seq \ gone) \cup {<<NextSeq, a>>}
          /\ Updated(a, e, cache_seq', NextSeq)
    /\ UNCHANGED <<enable, link, req, left>>

\* A write or response for address a.
send_L_Data(a) ==
    /\ link = "up" /\ Written < left.writes
    /\ last' = [last EXCEPT ![a] = Written + 1]
    /\ IF enable
       THEN LET e == [ v |-> Written + 1, seq |-> NextSeq, old |-> FALSE ]
                gone == IF cache[a] = NoEntry THEN Oldest ELSE {<<cache[a].seq, a>>}
            IN /\ seq' = NextSeq
               /\ cache' = [ b \in Addrs |-> CASE b = a -> e
                                               [] b # a /\ (\E x \in gone : x[2] = b) -> NoEntry
                                               [] OTHER -> cache[b] ]
               /\ cache_seq' = (cache_seq \ gone) \cup {<<NextSeq, a>>}
               /\ Updated(a, e, cache_seq', NextSeq)
       ELSE UNCHANGED <<cached, reader, remtrigger, replies, reply>>
    /\ UNCHANGED <<enable, link, req, left>>

\* GCReader::timeout_cb and GCTracker::timeout_cb
timeout_cb(r) ==
    /\ reader[r].active /\ reader[r].timer
    /\ LET k == reader[r]
           late == k.kind = "read" /\ k.stopped
           t == IF k.kind = "read" THEN [k EXCEPT !.stopped = TRUE, !.timer = FALSE]
                ELSE Handler(k, cache_seq)
       IN /\ reader' = [reader EXCEPT ![r] = t]
          /\ replies' = [replies EXCEPT ![r] = @ + IF late THEN 0 ELSE 1]
          /\ reply' = [reply EXCEPT ![r] = CASE late -> @
                                             [] k.kind = "track" -> [ kind |-> "list", a |-> t.a, end |-> seq ]
                                             [] OTHER -> ReadReply(r, NoEntry)]
          /\ remtrigger' = (remtrigger \/ ~late)
    /\ UNCHANGED <<cached, enable, link, req, last, left>>

\* mutant: those that still wait are deleted, too
remtrigger_cb_All ==
    /\ remtrigger
    /\ remtrigger' = FALSE
    /\ reader' = [ r \in Ids |-> NoReader ]
    /\ UNCHANGED <<cached, enable, link, req, replies, reply, last, left>>

remtrigger_cb ==
    /\ remtrigger
    /\ remtrigger' = FALSE
    /\ reader' = [ r \in Ids |-> IF reader[r].active /\ reader[r].stopped THEN NoReader ELSE reader[r] ]
    /\ UNCHANGED <<cached, enable, link, req, replies, reply, last, left>>

-----------------------------------------------------------------------------
(* Requests of the clients (GroupCacheRequest).                              *)

New == Len(req) + 1
Ask(q) == New <= left.req /\ q.kind \in left.kinds /\ req' = Append(req, q)

Answer(x) ==
    /\ replies' = [replies EXCEPT ![New] = 1] /\ reply' = [reply EXCEPT ![New] = x]
    /\ UNCHANGED <<reader, remtrigger>>

Wait(k) == reader' = [reader EXCEPT ![New] = k] /\ UNCHANGED <<remtrigger, replies, reply>>

GCReader(a) == [ active |-> TRUE, kind |-> "read", addr |-> a, stopped |-> FALSE, timer |-> TRUE ]
GCTracker(s) == [ active |-> TRUE, kind |-> "track", start |-> s, a |-> <<>>, stopped |-> FALSE,
                  timer |-> TRUE ]

\* GroupCache::Read; aged: with an age that the old entries exceed.
Read(a, wait, aged) ==
    /\ Ask([ kind |-> IF wait THEN "ReadWait" ELSE "Read", addr |-> a, aged |-> aged ])
    /\ LET e == IF aged /\ cache[a].old THEN NoEntry ELSE cache[a]
       IN CASE ~enable                            -> Answer([ kind |-> "disabled" ])
            [] enable /\ (e # NoEntry \/ ~wait)   -> Answer(ReadReply(New, e))
            [] OTHER                              -> Wait(GCReader(a))
    /\ UNCHANGED <<cached, enable, link, last, left>>

\* GroupCache::LastUpdates: a start that lies ahead of seq & 0xFFFF gets no tracker.
LastUpdates(from) ==
    /\ Ask([ kind |-> "LastUpdates", start |-> from ])
    /\ LET st == seq - (seq % W) + from
       IN IF st > seq THEN UNCHANGED <<reader, remtrigger, replies, reply>> ELSE Wait(GCTracker(st))
    /\ UNCHANGED <<cached, enable, link, last, left>>

LastUpdates2(from) ==
    /\ Ask([ kind |-> "LastUpdates2", start |-> from ])
    /\ Wait(GCTracker(from))
    /\ UNCHANGED <<cached, enable, link, last, left>>

\* GroupCache::Start
Start ==
    /\ enable' = TRUE
    /\ UNCHANGED <<cached, link, waiting, last, left>>

\* GroupCache::Clear leaves cache_seq alone.
Clear ==
    /\ cache' = [ a \in Addrs |-> NoEntry ]
    /\ UNCHANGED <<cache_seq, seq, enable, link, waiting, last, left>>

\* mutant: the cache is not cleared
Stop_Keep ==
    /\ enable' = FALSE
    /\ UNCHANGED <<cached, link, waiting, last, left>>

Stop ==
    /\ cache' = [ a \in Addrs |-> NoEntry ] /\ enable' = FALSE
    /\ UNCHANGED <<cache_seq, seq, link, waiting, last, left>>

\* GroupCache::remove (eibaddr_t)
remove(a) ==
    /\ cache[a] # NoEntry
    /\ cache' = [cache EXCEPT ![a] = NoEntry]
    /\ cache_seq' = cache_seq \ {<<cache[a].seq, a>>}
    /\ UNCHANGED <<seq, enable, link, waiting, last, left>>

\* time (0) goes on: every entry becomes old.
Age ==
    /\ left.age > 0 /\ left' = [left EXCEPT !.age = @ - 1]
    /\ cache' = [ a \in Addrs |-> IF cache[a] = NoEntry THEN NoEntry ELSE [cache[a] EXCEPT !.old = TRUE] ]
    /\ UNCHANGED <<cache_seq, seq, enable, link, waiting, last>>

Requested ==
    \/ \E a \in left.addrs, w, o \in BOOLEAN : Read(a, w, o)
    \/ \E s \in 0..(W - 1) : LastUpdates(s)
    \/ \E s \in 0..left.writes : LastUpdates2(s)
    \/ Start \/ Clear \/ Stop
    \/ \E a \in left.addrs : remove(a)

Next ==
    \/ start \/ stop \/ Age \/ Requested \/ remtrigger_cb
    \/ \E a \in left.addrs : send_L_Data(a)
    \/ \E r \in Ids : timeout_cb(r)

Spec == Init /\ [][Next]_vars

\* Timers expire and the trigger is served; telegrams and clients are free.
FairSpec == Spec /\ WF_vars(remtrigger_cb) /\ \A r \in Ids : WF_vars(timeout_cb(r))

-----------------------------------------------------------------------------
\* The type invariant.
TypeOK ==
    /\ cache \in [Addrs -> [v : Writes, seq : Writes, old : BOOLEAN]]
    /\ cache_seq \subseteq Writes \X Addrs /\ seq \in Writes
    /\ \A x, y \in cache_seq : x[1] = y[1] => x = y
    /\ enable \in BOOLEAN /\ remtrigger \in BOOLEAN /\ link \in {"new", "up", "down"}
    /\ Len(req) <= MaxReq /\ \A r \in Ids : replies[r] \in Nat

\* Every entry is found under its number, so that LastUpdates reports it and the
\* limit on cache_seq in send_L_Data bounds the cache as well, also after Clear; and
\* readers that stopped are deleted by remtrigger_cb: the trigger is pending.
Indexed ==
    /\ TypeOK
    /\ \A a \in Addrs : cache[a] # NoEntry => <<cache[a].seq, a>> \in cache_seq
    /\ Cardinality(cache_seq) <= maxsize
    /\ \A r \in Ids : reader[r].active /\ reader[r].stopped => remtrigger

Latest ==
    \A r \in Ids : replies'[r] # replies[r] /\ reply'[r].kind = "read" =>
        /\ replies[r] = 0
        /\ reply'[r].v \in {0, last'[req'[r].addr]}
        /\ req'[r].aged => ~reply'[r].old

\* EIB_Cache_Read is answered once at most: its update and its timer do not both
\* answer (GCReader tests `stopped').  The reply holds the last telegram for the
\* address or none, whatever was disabled, cleared, removed or evicted before; with
\* an age it is no old one.
ReadLatest == [][Latest]_vars

Asked(r, kinds) == r <= Len(req) /\ req[r].kind \in kinds

\* Every Read and every LastUpdates2 is answered (timeout_cb).
Answered == \A r \in Ids : Asked(r, {"Read", "ReadWait", "LastUpdates2"}) ~> (replies[r] > 0)
=============================================================================
