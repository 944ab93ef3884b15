----------------------------- MODULE CacheProofs -----------------------------
(***************************************************************************)
(* What the group cache promises, for every set of addresses, every size   *)
(* and any number of telegrams and requests: it stays within its limit and *)
(* in step with its index (Indexed), and a Read gets the last telegram or  *)
(* none, once (ReadLatest).                                                *)
(***************************************************************************)
EXTENDS GroupCache, FiniteSetTheorems, WellFoundedInduction, TLAPS

-----------------------------------------------------------------------------
\* The inductive invariant.  The members have their types and the numbers of
\* cache_seq do not run ahead of `seq', nor that of the telegrams.
Entry == [ v : Writes, seq : Writes, old : BOOLEAN ]

Typed ==
    /\ cache \in [Addrs -> Entry] /\ cache_seq \subseteq Writes \X Addrs /\ seq \in Writes
    /\ enable \in BOOLEAN /\ remtrigger \in BOOLEAN /\ link \in {"new", "up", "down"}
    /\ last \in [Addrs -> Writes]
    /\ left \in [ addrs : SUBSET Addrs, writes : Writes, kinds : SUBSET Kinds, req : 0..MaxReq, age : Nat ]

Numbered ==
    /\ seq <= Written
    /\ \A x \in cache_seq : x[1] <= seq
    /\ \A x, y \in cache_seq : x[1] = y[1] => x = y

Limited == IsFiniteSet(cache_seq) /\ Cardinality(cache_seq) <= maxsize

\* An entry is found under its number and holds the last telegram: while the cache
\* is disabled and telegrams pass it by, it is empty.
Current ==
    /\ \A a \in Addrs : cache[a] # NoEntry => <<cache[a].seq, a>> \in cache_seq /\ cache[a].v = last[a]
    /\ link = "up" /\ ~enable => \A a \in Addrs : cache[a] = NoEntry

\* A reader belongs to a request, and one that has not stopped to a request without
\* a reply.
IsRead(k) == k.kind = "read" /\ k = [ active |-> TRUE, kind |-> "read", addr |-> k.addr,
                                      stopped |-> k.stopped, timer |-> k.timer ]
IsTrack(k) == k.kind = "track" /\ k = [ active |-> TRUE, kind |-> "track", start |-> k.start, a |-> k.a,
                                        stopped |-> k.stopped, timer |-> k.timer ]

Reads(r) ==
    \/ reader[r] = NoReader
    \/ IsTrack(reader[r]) /\ reader[r].stopped \in BOOLEAN
    \/ /\ IsRead(reader[r]) /\ reader[r].stopped \in BOOLEAN
       /\ r <= Len(req) /\ req[r].addr = reader[r].addr /\ req[r].addr \in Addrs
       /\ ~reader[r].stopped => replies[r] = 0

Request == [kind : {"Read", "ReadWait"}, addr : Addrs, aged : BOOLEAN]
           \cup [kind : {"LastUpdates", "LastUpdates2"}, start : Nat]

Waiting ==
    /\ req \in Seq(Request)
    /\ Len(req) <= MaxReq
    /\ reader = [r \in Ids |-> reader[r]] /\ replies \in [Ids -> Nat]
    /\ reply = [r \in Ids |-> reply[r]]
    /\ \A r \in Ids : Reads(r) /\ (r > Len(req) => reader[r] = NoReader /\ replies[r] = 0)
    /\ \A r \in Ids : reader[r].active /\ reader[r].stopped => remtrigger

CacheInv == Typed /\ Numbered /\ Limited /\ Current /\ Waiting

-----------------------------------------------------------------------------
\* Numbers: every set of them has a least one.
LEMMA Least == ASSUME NEW S \in SUBSET Nat, S # {} PROVE \E n \in S : \A m \in S : n <= m
<1> DEFINE R == { ss \in Nat \X Nat : ss[1] < ss[2] }
<1>1. IsWellFoundedOn(R, Nat)
    BY NatLessThanWellFounded, Zenon DEF OpToRel
<1>2. \A m, n \in Nat : m < n => <<m, n>> \in R
    OBVIOUS
<1> HIDE DEF R
<1>3. PICK n \in S : \A m \in S : ~(<<m, n>> \in R)
    BY <1>1, WFMin
<1>4. ASSUME NEW m \in S PROVE n <= m
    <2>1. m \in Nat /\ n \in Nat /\ ~(m < n)
        BY <1>2, <1>3
    <2> QED BY <2>1
<1> QED BY <1>4

\* The number of the last telegram.
LEMMA HighestIs ==
    ASSUME NEW f \in [Addrs -> Writes]
    PROVE  /\ Highest(f) \in Writes /\ \A a \in Addrs : f[a] <= Highest(f)
           /\ Highest(f) = 0 \/ \E a \in Addrs : f[a] = Highest(f)
<1> DEFINE S == { n \in Writes : \A a \in Addrs : f[a] <= n }
<1>1. MaxWrites \in S /\ S \in SUBSET Nat
    BY CacheConfig DEF Writes
<1>2. PICK n \in S : \A m \in S : n <= m
    BY <1>1, Least, ZenonT(20)
<1>3. n = 0 \/ \E a \in Addrs : f[a] = n
    <2> SUFFICES ASSUME n # 0, \A a \in Addrs : f[a] # n PROVE FALSE
        OBVIOUS
    <2>1. n - 1 \in S
        BY CacheConfig DEF Writes
    <2> QED BY <1>2, <2>1, CacheConfig DEF Writes
<1>4. \E k \in Writes : (\A a \in Addrs : f[a] <= k) /\ (k = 0 \/ \E a \in Addrs : f[a] = k)
    BY <1>3
<1> QED BY <1>4 DEF Highest

\* ... is one more after the next one.
LEMMA HighestGrows ==
    ASSUME NEW f \in [Addrs -> Writes], NEW a \in Addrs, Highest(f) + 1 \in Writes
    PROVE  /\ [f EXCEPT ![a] = Highest(f) + 1] \in [Addrs -> Writes]
           /\ Highest([f EXCEPT ![a] = Highest(f) + 1]) = Highest(f) + 1
<1> DEFINE h == Highest(f)
           g == [f EXCEPT ![a] = h + 1]
<1>1. h \in Writes /\ \A b \in Addrs : f[b] <= h
    BY HighestIs
<1> HIDE DEF h
<1>2. g \in [Addrs -> Writes] /\ g[a] = h + 1 /\ \A b \in Addrs : g[b] <= h + 1
    BY <1>1, CacheConfig DEF Writes, h
<1> HIDE DEF g
<1>3. /\ Highest(g) \in Writes /\ \A b \in Addrs : g[b] <= Highest(g)
      /\ Highest(g) = 0 \/ \E b \in Addrs : g[b] = Highest(g)
    BY <1>2, HighestIs
<1>4. Highest(g) = h + 1
    BY <1>1, <1>2, <1>3, CacheConfig DEF Writes
<1> QED BY <1>2, <1>4 DEF g, h

-----------------------------------------------------------------------------
\* send_L_Data makes room before it inserts a new address: below the limit nothing
\* is taken out, at the limit the oldest entry is.
LEMMA RoomMade ==
    ASSUME Typed, Limited
    PROVE  IsFiniteSet(cache_seq \ Oldest) /\ Cardinality(cache_seq \ Oldest) < maxsize
<1>0. IsFiniteSet(cache_seq) /\ Cardinality(cache_seq) \in Nat /\ Cardinality(cache_seq) <= maxsize
    BY FS_CardinalityType DEF Limited
<1>1. /\ IsFiniteSet(cache_seq \ Oldest) /\ Cardinality(cache_seq \ Oldest) \in Nat
      /\ Cardinality(cache_seq \ Oldest) <= Cardinality(cache_seq)
    <2>1. cache_seq \ Oldest \in SUBSET cache_seq
        OBVIOUS
    <2> QED BY <1>0, <2>1, FS_Subset, FS_CardinalityType
<1>2. CASE Cardinality(cache_seq) < maxsize
    BY <1>0, <1>1, <1>2, CacheConfig
<1>3. CASE Cardinality(cache_seq) = maxsize
    <2> DEFINE S == { x[1] : x \in cache_seq }
    <2>1. S # {} /\ S \in SUBSET Nat
        BY <1>0, <1>3, FS_EmptySet, CacheConfig DEF Typed, Writes
    <2>2. PICK n \in S : \A m \in S : n <= m
        BY <2>1, Least, ZenonT(20)
    <2>3. PICK x \in cache_seq : x[1] = n
        OBVIOUS
    <2> DEFINE below == { y \in cache_seq : y[1] < x[1] }
    <2>4. below = {}
        BY <2>1, <2>2, <2>3
    <2>5. Cardinality(below) = 0
        BY <2>4, FS_EmptySet
    <2>6. x \in Oldest
        <3>1. Cardinality(below) <= Cardinality(cache_seq) - maxsize
            BY <1>3, <2>5, CacheConfig
        <3> QED BY <3>1 DEF Oldest
    <2> HIDE DEF S, below
    <2>7. cache_seq \ Oldest \in SUBSET (cache_seq \ {x})
        BY <2>6
    <2>8. IsFiniteSet(cache_seq \ {x}) /\ Cardinality(cache_seq \ {x}) = maxsize - 1
        BY <1>0, <1>3, FS_RemoveElement
    <2> QED BY <2>7, <2>8, <1>1, FS_Subset, CacheConfig
<1> QED BY <1>0, <1>2, <1>3, CacheConfig

\* What send_L_Data takes out of the index, and that there is room afterwards.
Gone(a) == IF cache[a] = NoEntry THEN Oldest ELSE {<<cache[a].seq, a>>}

\* Evicting the lowest number keeps the index within its limit (GroupCache::add).
LEMMA StaysLimited ==
    ASSUME Typed, Limited, Current, NEW a \in Addrs, NEW n
    PROVE  /\ Gone(a) \subseteq cache_seq
           /\ IsFiniteSet((cache_seq \ Gone(a)) \cup {<<n, a>>})
           /\ Cardinality((cache_seq \ Gone(a)) \cup {<<n, a>>}) <= maxsize
<1> DEFINE rest == cache_seq \ Gone(a)
<1>1. Gone(a) \subseteq cache_seq
    BY DEF Gone, Oldest, Current
<1>2. IsFiniteSet(rest) /\ Cardinality(rest) < maxsize
    <2>1. CASE cache[a] = NoEntry
        BY <2>1, RoomMade DEF Gone
    <2>2. CASE cache[a] # NoEntry
        <3> DEFINE x == <<cache[a].seq, a>>
        <3>1. x \in cache_seq /\ Gone(a) = {x}
            BY <2>2 DEF Gone, Current
        <3>2. IsFiniteSet(cache_seq) /\ Cardinality(cache_seq) \in Nat /\ Cardinality(cache_seq) <= maxsize
            BY FS_CardinalityType DEF Limited
        <3> HIDE DEF x
        <3>3. rest = cache_seq \ {x}
            BY <3>1
        <3> HIDE DEF rest
        <3>4. IsFiniteSet(rest) /\ Cardinality(rest) = Cardinality(cache_seq) - 1
            BY <3>1, <3>2, <3>3, FS_RemoveElement
        <3> QED BY <3>2, <3>4, CacheConfig
    <2> QED BY <2>1, <2>2
<1> HIDE DEF rest
<1> DEFINE y == <<n, a>>
<1> HIDE DEF y
<1>3. Cardinality(rest) \in Nat
    BY <1>2, FS_CardinalityType
<1>4. /\ IsFiniteSet(rest \cup {y})
      /\ Cardinality(rest \cup {y}) = IF y \in rest THEN Cardinality(rest) ELSE Cardinality(rest) + 1
    BY <1>2, FS_AddElement
<1>5. Cardinality(rest \cup {y}) <= maxsize
    BY <1>2, <1>3, <1>4, CacheConfig
<1> QED BY <1>1, <1>4, <1>5 DEF rest, y

-----------------------------------------------------------------------------
\* The steps.  The first four parts of the invariant are about the cache, the last
\* one about its readers.
Stored == Typed /\ Numbered /\ Limited /\ Current

\* The invariant holds at the start.
LEMMA CacheStart == Init => CacheInv
<1> SUFFICES ASSUME Init PROVE CacheInv
    OBVIOUS
<1>0. 0 \in Writes /\ last \in [Addrs -> Writes] /\ (\A a \in Addrs : last[a] = 0)
    BY CacheConfig DEF Init, Writes
<1>1. Typed
    <2>1. cache \in [Addrs -> Entry]
        BY <1>0 DEF Init, NoEntry, Entry
    <2>2. left \in [ addrs : SUBSET Addrs, writes : Writes, kinds : SUBSET Kinds, req : 0..MaxReq, age : Nat ]
        BY CacheConfig DEF Init, Writes
    <2> QED BY <1>0, <2>1, <2>2 DEF Init, Typed
<1>2. Numbered
    BY <1>0, HighestIs, CacheConfig DEF Init, Numbered, Written, Writes
<1>3. Limited
    BY FS_EmptySet, CacheConfig DEF Init, Limited
<1>4. Current
    BY DEF Init, Current
<1>5. Waiting
    BY CacheConfig DEF Init, Waiting, Reads, NoReader
<1> QED BY <1>1, <1>2, <1>3, <1>4, <1>5 DEF CacheInv

\* A telegram, seen by the cache.
LEMMA TelegramStored ==
    ASSUME Stored, NEW a \in Addrs, send_L_Data(a), enable
    PROVE  Stored'
<1> DEFINE e == [ v |-> Written + 1, seq |-> seq + 1, old |-> FALSE ]
           gone == Gone(a)
           h == Written
<1>0. h \in Writes /\ h + 1 \in Writes /\ seq \in Writes /\ seq <= h
    BY HighestIs, CacheConfig DEF Stored, Typed, Numbered, Written, send_L_Data, Writes
<1>1. last' = [last EXCEPT ![a] = h + 1] /\ last' \in [Addrs -> Writes] /\ Written' = h + 1
    BY <1>0, HighestGrows DEF send_L_Data, Stored, Typed, Written
<1>2. seq + 1 \in Writes /\ e \in Entry /\ e # NoEntry /\ e.seq = seq + 1 /\ e.v = h + 1
    BY <1>0, CacheConfig DEF Writes, Entry, NoEntry
<1>3. /\ seq' = seq + 1
      /\ cache' = [ b \in Addrs |-> CASE b = a -> e
                                      [] b # a /\ (\E x \in gone : x[2] = b) -> NoEntry
                                      [] OTHER -> cache[b] ]
      /\ cache_seq' = (cache_seq \ gone) \cup {<<seq + 1, a>>}
    BY DEF send_L_Data, NextSeq, Gone
<1>4. UNCHANGED <<enable, link, left>> /\ remtrigger' \in BOOLEAN
    BY DEF send_L_Data, Updated, Stored, Typed
<1>5. gone \subseteq cache_seq /\ Limited'
    BY <1>3, StaysLimited, ZenonT(20) DEF Stored, Limited
<1> HIDE DEF e, gone, h
<1>6. Typed'
    <2>1. NoEntry \in Entry
        BY CacheConfig DEF NoEntry, Entry, Writes
    <2>2. cache' \in [Addrs -> Entry]
        BY <1>2, <1>3, <2>1 DEF Stored, Typed
    <2>3. cache_seq' \subseteq Writes \X Addrs
        BY <1>2, <1>3 DEF Stored, Typed
    <2> QED BY <1>1, <1>2, <1>3, <1>4, <2>2, <2>3 DEF Stored, Typed
<1>7. Numbered'
    <2>1. \A x \in cache_seq : x[1] \in Writes /\ x[1] <= seq
        BY DEF Stored, Typed, Numbered
    <2>2. \A x \in cache_seq' : x[1] <= seq + 1 /\ (x[1] = seq + 1 => x = <<seq + 1, a>>)
        BY <1>0, <1>3, <2>1, CacheConfig DEF Writes
    <2>3. \A x, y \in cache_seq' : x[1] = y[1] => x = y
        BY <1>3, <2>2 DEF Stored, Numbered
    <2> QED BY <1>0, <1>1, <1>3, <2>2, <2>3, CacheConfig DEF Numbered, Writes
<1>8. Current'
    <2>1. cache'[a] = e /\ last'[a] = h + 1 /\ <<e.seq, a>> \in cache_seq'
        BY <1>1, <1>2, <1>3 DEF Stored, Typed
    <2>2. ASSUME NEW b \in Addrs, b # a, cache'[b] # NoEntry
          PROVE  <<cache'[b].seq, b>> \in cache_seq' /\ cache'[b].v = last'[b]
        <3>1. cache'[b] = cache[b] /\ ~(\E x \in gone : x[2] = b)
            BY <1>3, <2>2
        <3>2. <<cache[b].seq, b>> \in cache_seq /\ cache[b].v = last[b] /\ last'[b] = last[b]
            BY <1>1, <2>2, <3>1 DEF Stored, Typed, Current
        <3> QED BY <1>3, <3>1, <3>2
    <2> QED BY <1>2, <1>4, <2>1, <2>2 DEF Current
<1> QED BY <1>5, <1>6, <1>7, <1>8 DEF Stored

\* A telegram that passes a disabled cache: there is no entry it could outdate.
LEMMA TelegramPasses ==
    ASSUME Stored, NEW a \in Addrs, send_L_Data(a), ~enable
    PROVE  Stored'
<1> DEFINE h == Written
<1>0. h \in Writes /\ h + 1 \in Writes /\ seq \in Writes /\ seq <= h
    BY HighestIs, CacheConfig DEF Stored, Typed, Numbered, Written, send_L_Data, Writes
<1>1. last' = [last EXCEPT ![a] = h + 1] /\ last' \in [Addrs -> Writes] /\ Written' = h + 1
    BY <1>0, HighestGrows DEF send_L_Data, Stored, Typed, Written
<1>2. UNCHANGED <<cache, cache_seq, seq, enable, link, left, remtrigger>>
    BY DEF send_L_Data, cached
<1> HIDE DEF h
<1>3. Typed'
    BY <1>1, <1>2 DEF Stored, Typed
<1>4. Numbered'
    BY <1>0, <1>1, <1>2, CacheConfig DEF Stored, Numbered, Writes
<1>5. Limited' /\ Current'
    BY <1>2 DEF Stored, Limited, Current, send_L_Data
<1> QED BY <1>3, <1>4, <1>5 DEF Stored

\* Steps that leave the entries and the telegrams alone.
LEMMA OthersStored ==
    ASSUME Stored, UNCHANGED <<cached, last, left>>, remtrigger' \in BOOLEAN,
           \/ UNCHANGED <<enable, link>>
           \/ link' \in {"new", "up", "down"} /\ enable' = TRUE
           \/ link' = "down" /\ enable' = FALSE
    PROVE  Stored'
BY DEF Stored, Typed, Numbered, Limited, Current, cached, Written

\* Clear and Stop empty the cache and leave its index as it is.
LEMMA ClearStored ==
    ASSUME Stored, Clear \/ Stop
    PROVE  Stored'
<1>0. cache' \in [Addrs -> Entry] /\ (\A a \in Addrs : cache'[a] = NoEntry) /\ enable' \in BOOLEAN
    <2>1. NoEntry \in Entry
        BY CacheConfig DEF NoEntry, Entry, Writes
    <2>2. cache' = [a \in Addrs |-> NoEntry] /\ (enable' = enable \/ enable' = FALSE)
        BY DEF Clear, Stop
    <2> QED BY <2>1, <2>2, ZenonT(20) DEF Stored, Typed
<1>1. UNCHANGED <<cache_seq, seq, link, remtrigger, last, left>>
    BY DEF Clear, Stop, waiting
<1> QED BY <1>0, <1>1 DEF Stored, Typed, Numbered, Limited, Current, Written

\* remove() takes an entry out of both.
LEMMA RemoveStored ==
    ASSUME Stored, NEW a \in Addrs, remove(a)
    PROVE  Stored'
<1> DEFINE x == <<cache[a].seq, a>>
<1>0. NoEntry \in Entry
    BY CacheConfig DEF NoEntry, Entry, Writes
<1>1. /\ UNCHANGED <<seq, enable, link, remtrigger, last, left>>
      /\ cache' = [cache EXCEPT ![a] = NoEntry] /\ cache_seq' = cache_seq \ {x}
    BY DEF remove, waiting
<1>2. Typed'
    BY <1>0, <1>1 DEF Stored, Typed
<1>3. Numbered'
    BY <1>1 DEF Stored, Numbered, Written
<1>4. Limited'
    <2>1. cache_seq' \in SUBSET cache_seq /\ IsFiniteSet(cache_seq)
        BY <1>1 DEF Stored, Limited
    <2>2. /\ IsFiniteSet(cache_seq') /\ Cardinality(cache_seq') <= Cardinality(cache_seq)
          /\ Cardinality(cache_seq') \in Nat /\ Cardinality(cache_seq) \in Nat
        BY <2>1, FS_Subset, FS_CardinalityType
    <2> QED BY <2>2, CacheConfig DEF Stored, Limited
<1>5. Current'
    BY <1>1 DEF Stored, Typed, Current
<1> QED BY <1>2, <1>3, <1>4, <1>5 DEF Stored

\* Time passes.
LEMMA AgeStored == ASSUME Stored, Age PROVE Stored'
<1>1. /\ UNCHANGED <<cache_seq, seq, enable, link, remtrigger, last>>
      /\ left' = [left EXCEPT !.age = @ - 1] /\ left.age > 0
    BY DEF Age, waiting
<1>2. /\ cache' \in [Addrs -> Entry]
      /\ \A a \in Addrs : /\ cache'[a] = NoEntry <=> cache[a] = NoEntry
                          /\ cache'[a].seq = cache[a].seq /\ cache'[a].v = cache[a].v
    <2>1. ASSUME NEW a \in Addrs
          PROVE  LET n == IF cache[a] = NoEntry THEN NoEntry ELSE [cache[a] EXCEPT !.old = TRUE]
                 IN n \in Entry /\ n.seq = cache[a].seq /\ n.v = cache[a].v /\ (n = NoEntry <=> cache[a] = NoEntry)
        BY ZenonT(20) DEF Stored, Typed, Entry, NoEntry
    <2> QED BY <2>1 DEF Age
<1>3. Typed'
    BY <1>1, <1>2 DEF Stored, Typed
<1>4. Numbered' /\ Limited' /\ Current'
    BY <1>1, <1>2 DEF Stored, Numbered, Limited, Current, Written
<1> QED BY <1>3, <1>4 DEF Stored

\* Every step keeps the cache in order.
LEMMA StepStored == ASSUME CacheInv, [Next]_vars PROVE Stored'
<1>0. Stored
    BY DEF CacheInv, Stored
<1>1. left.addrs \subseteq Addrs
    BY DEF CacheInv, Typed
<1>2. ASSUME NEW a \in left.addrs, send_L_Data(a) PROVE Stored'
    BY <1>0, <1>1, <1>2, TelegramStored, TelegramPasses
<1>3. ASSUME NEW a \in left.addrs, remove(a) PROVE Stored'
    BY <1>0, <1>1, <1>3, RemoveStored
<1>4. CASE UNCHANGED vars \/ start \/ stop \/ Start
    BY <1>0, <1>4, OthersStored DEF vars, start, stop, Start, cached, waiting, CacheInv, Typed
<1>5. CASE remtrigger_cb \/ \E r \in Ids : timeout_cb(r)
    BY <1>0, <1>5, OthersStored DEF remtrigger_cb, timeout_cb, CacheInv, Typed
<1>6. CASE \E a \in left.addrs, w, o \in BOOLEAN : Read(a, w, o)
    BY <1>0, <1>6, OthersStored DEF Read, Answer, Wait, CacheInv, Typed
<1>7. CASE (\E s \in 0..(W - 1) : LastUpdates(s)) \/ \E s \in 0..left.writes : LastUpdates2(s)
    BY <1>0, <1>7, OthersStored DEF LastUpdates, LastUpdates2, Wait, CacheInv, Typed
<1> QED BY <1>0, <1>2, <1>3, <1>4, <1>5, <1>6, <1>7, ClearStored, AgeStored DEF Next, Requested

-----------------------------------------------------------------------------
\* The readers.  A reader is one of three kinds.
LEMMA ReaderKinds ==
    ASSUME NEW r, Reads(r)
    PROVE  /\ reader[r].active => IsRead(reader[r]) \/ IsTrack(reader[r])
           /\ IsRead(reader[r]) => reader[r].active /\ reader[r].kind = "read" /\ reader[r].stopped \in BOOLEAN
                                  /\ r <= Len(req) /\ req[r].addr = reader[r].addr /\ req[r].addr \in Addrs
                                  /\ (~reader[r].stopped => replies[r] = 0)
           /\ IsTrack(reader[r]) => reader[r].active /\ reader[r].kind = "track" /\ reader[r].stopped \in BOOLEAN
<1>1. CASE reader[r] = NoReader
    <2>1. NoReader.active = FALSE /\ ~IsRead(NoReader) /\ ~IsTrack(NoReader)
        BY DEF NoReader, IsRead, IsTrack
    <2> QED BY <1>1, <2>1
<1>2. CASE IsTrack(reader[r]) /\ reader[r].stopped \in BOOLEAN
    <2>1. reader[r].active /\ reader[r].kind = "track"
        BY <1>2 DEF IsTrack
    <2> QED BY <1>2, <2>1 DEF IsRead
<1>3. CASE IsRead(reader[r]) /\ reader[r] # NoReader /\ ~IsTrack(reader[r])
    <2>1. reader[r].active /\ reader[r].kind = "read"
        BY <1>3 DEF IsRead
    <2> QED BY <1>3, <2>1 DEF Reads
<1> QED BY <1>1, <1>2, <1>3 DEF Reads

\* What stop() and the handlers of a reader make of it.
LEMMA ReaderStops ==
    ASSUME NEW k, NEW cs
    PROVE  /\ IsRead(k) => LET n == [k EXCEPT !.stopped = TRUE]
                               t == [k EXCEPT !.stopped = TRUE, !.timer = FALSE]
                           IN IsRead(n) /\ n.stopped = TRUE /\ n.addr = k.addr
                              /\ IsRead(t) /\ t.stopped = TRUE /\ t.addr = k.addr
           /\ IsTrack(k) => IsTrack(Handler(k, cs)) /\ Handler(k, cs).stopped = TRUE
<1>1. ASSUME IsRead(k) PROVE LET n == [k EXCEPT !.stopped = TRUE]
                                 t == [k EXCEPT !.stopped = TRUE, !.timer = FALSE]
                             IN IsRead(n) /\ n.stopped = TRUE /\ n.addr = k.addr
                                /\ IsRead(t) /\ t.stopped = TRUE /\ t.addr = k.addr
    <2> DEFINE a == k.addr
               s == k.stopped
               m == k.timer
               n == [k EXCEPT !.stopped = TRUE]
               t == [k EXCEPT !.stopped = TRUE, !.timer = FALSE]
    <2>1. k = [ active |-> TRUE, kind |-> "read", addr |-> a, stopped |-> s, timer |-> m ]
        BY <1>1 DEF IsRead
    <2>2. n = [k EXCEPT !.stopped = TRUE] /\ t = [k EXCEPT !.stopped = TRUE, !.timer = FALSE]
        OBVIOUS
    <2> HIDE DEF a, s, m, n, t
    <2>3. n = [ active |-> TRUE, kind |-> "read", addr |-> a, stopped |-> TRUE, timer |-> m ]
        BY <2>1, <2>2
    <2>4. t = [ active |-> TRUE, kind |-> "read", addr |-> a, stopped |-> TRUE, timer |-> FALSE ]
        BY <2>1, <2>2
    <2> QED BY <2>1, <2>3, <2>4 DEF IsRead, n, t
<1>2. ASSUME IsTrack(k) PROVE IsTrack(Handler(k, cs)) /\ Handler(k, cs).stopped = TRUE
    <2> DEFINE l == k.a \o NewestFirst(Since(cs, k.start))
               f == k.start
               a == k.a
               s == k.stopped
               m == k.timer
    <2>1. /\ Handler(k, cs) = [k EXCEPT !.a = l, !.stopped = TRUE, !.timer = FALSE]
          /\ k = [ active |-> TRUE, kind |-> "track", start |-> f, a |-> a, stopped |-> s, timer |-> m ]
        BY <1>2 DEF Handler, IsTrack
    <2> HIDE DEF l, f, a, s, m
    <2>2. Handler(k, cs) = [ active |-> TRUE, kind |-> "track", start |-> f, a |-> l, stopped |-> TRUE, timer |-> FALSE ]
        BY <2>1, ZenonT(20)
    <2> QED BY <2>2 DEF IsTrack
<1> QED BY <1>1, <1>2

\* An update: the readers of the address answer, once, and stop; so do all trackers.
LEMMA UpdateKeeps ==
    ASSUME Waiting, remtrigger \in BOOLEAN, UNCHANGED req, NEW a \in Addrs, NEW e, NEW cs, NEW s, Updated(a, e, cs, s)
    PROVE  /\ Waiting'
           /\ \A r \in Ids : replies'[r] # replies[r] /\ reply'[r].kind = "read" =>
                 replies[r] = 0 /\ req[r].addr = a /\ reply'[r] = ReadReply(r, e)
<1> DEFINE hear == { r \in Ids : Hears(reader[r], a) }
           new(r) == IF reader[r].kind = "read" THEN [reader[r] EXCEPT !.stopped = TRUE] ELSE Handler(reader[r], cs)
           list(r) == [ kind |-> "list", a |-> new(r).a, end |-> s ]
<1>1. /\ reader' = [ r \in Ids |-> IF r \in hear THEN new(r) ELSE reader[r] ]
      /\ replies' = [ r \in Ids |-> replies[r] + IF r \in hear THEN 1 ELSE 0 ]
      /\ reply' = [ r \in Ids |-> CASE r \in hear /\ reader[r].kind = "read" -> ReadReply(r, e)
                                     [] r \in hear /\ reader[r].kind = "track" -> list(r)
                                     [] OTHER -> reply[r] ]
      /\ remtrigger' = (remtrigger \/ hear # {})
    BY DEF Updated
<1>2. \A r \in Ids : list(r).kind = "list"
    OBVIOUS
<1>3. ASSUME NEW r \in hear
      PROVE  \/ /\ IsRead(reader[r]) /\ ~reader[r].stopped /\ reader[r].addr = a
                /\ IsRead(new(r)) /\ new(r).stopped = TRUE /\ new(r).addr = a
             \/ IsTrack(reader[r]) /\ IsTrack(new(r)) /\ new(r).stopped = TRUE
    <2>1. Reads(r) /\ Hears(reader[r], a)
        BY DEF Waiting
    <2>2. CASE IsRead(reader[r])
        BY <2>1, <2>2, ReaderKinds, ReaderStops DEF Hears
    <2>3. CASE IsTrack(reader[r])
        BY <2>1, <2>3, ReaderKinds, ReaderStops
    <2> QED BY <2>1, <2>2, <2>3, ReaderKinds DEF Hears
<1> HIDE DEF hear, new, list
<1>4. ASSUME NEW r \in Ids
      PROVE  /\ Reads(r)' /\ (r > Len(req) => reader'[r] = NoReader /\ replies'[r] = 0)
             /\ replies'[r] \in Nat
             /\ reader'[r].active /\ reader'[r].stopped => remtrigger'
             /\ replies'[r] # replies[r] /\ reply'[r].kind = "read" =>
                   replies[r] = 0 /\ req[r].addr = a /\ reply'[r] = ReadReply(r, e)
    <2>0. Reads(r) /\ replies[r] \in Nat /\ (r > Len(req) => reader[r] = NoReader /\ replies[r] = 0)
        BY DEF Waiting
    <2>r. r \in Int /\ Len(req) \in Int /\ req' = req
        BY CacheConfig DEF Waiting, Ids
    <2>1. CASE r \in hear
        <3>1. reader'[r] = new(r) /\ replies'[r] = replies[r] + 1 /\ remtrigger'
            BY <1>1, <2>0, <2>1, ZenonT(20)
        <3>2. reader[r].active /\ reader[r] # NoReader
            BY <2>1 DEF hear, Hears, NoReader
        <3>3. CASE IsRead(reader[r]) /\ ~reader[r].stopped /\ reader[r].addr = a
                   /\ IsRead(new(r)) /\ new(r).stopped = TRUE /\ new(r).addr = a
            <4>1. reply'[r] = ReadReply(r, e) /\ replies[r] = 0 /\ req[r].addr = a /\ r <= Len(req)
                BY <1>1, <2>0, <2>1, <3>3, ReaderKinds
            <4>2. Reads(r)'
                BY <2>r, <2>0, <3>1, <3>3, <4>1, ReaderKinds, ZenonT(20) DEF Reads
            <4> QED BY <2>r, <2>0, <3>1, <3>2, <3>3, <4>1, <4>2
        <3>4. CASE IsTrack(reader[r]) /\ IsTrack(new(r)) /\ new(r).stopped = TRUE
            <4>1. reply'[r] = list(r)
                BY <1>1, <2>0, <2>1, <3>4, ReaderKinds
            <4>2. Reads(r)'
                BY <3>1, <3>4, ZenonT(20) DEF Reads
            <4>3. reply'[r].kind = "list"
                BY <1>2, <4>1
            <4> QED BY <2>r, <2>0, <3>1, <3>2, <4>2, <4>3
        <3> QED BY <1>3, <2>1, <3>3, <3>4
    <2>2. CASE r \notin hear
        <3>1. reader'[r] = reader[r] /\ replies'[r] = replies[r] /\ reply'[r] = reply[r]
            BY <1>1, <2>0, <2>2
        <3>2. Reads(r)'
            BY <2>0, <3>1 DEF Reads
        <3>3. remtrigger => remtrigger'
            BY <1>1
        <3> QED BY <2>0, <3>1, <3>2, <3>3 DEF Waiting
    <2> QED BY <2>1, <2>2
<1>5. Waiting'
    BY <1>1, <1>4 DEF Waiting
<1> QED BY <1>4, <1>5

\* A timer: a reader that has stopped does not answer again.
LEMMA TimeoutKeeps ==
    ASSUME Waiting, remtrigger \in BOOLEAN, NEW i \in Ids, timeout_cb(i)
    PROVE  Waiting' /\ Latest
<1> DEFINE k == reader[i]
           late == k.kind = "read" /\ k.stopped
           t == IF k.kind = "read" THEN [k EXCEPT !.stopped = TRUE, !.timer = FALSE] ELSE Handler(k, cache_seq)
           list == [ kind |-> "list", a |-> t.a, end |-> seq ]
           count == replies[i] + IF late THEN 0 ELSE 1
           answer == CASE late -> reply[i] [] k.kind = "track" -> list [] OTHER -> ReadReply(i, NoEntry)
<1>0. Reads(i) /\ k.active /\ replies[i] \in Nat
    BY DEF timeout_cb, Waiting
<1>1. /\ reader' = [reader EXCEPT ![i] = t]
      /\ replies' = [replies EXCEPT ![i] = count]
      /\ reply' = [reply EXCEPT ![i] = answer]
      /\ remtrigger' = (remtrigger \/ ~late) /\ UNCHANGED <<req, last>>
    BY DEF timeout_cb
<1>2. list.kind = "list"
    OBVIOUS
<1>3. \/ IsRead(k) /\ IsRead(t) /\ t.stopped = TRUE /\ t.addr = k.addr
      \/ IsTrack(k) /\ IsTrack(t) /\ t.stopped = TRUE
    <2>1. CASE IsRead(k)
        BY <1>0, <2>1, ReaderKinds, ReaderStops
    <2>2. CASE IsTrack(k)
        BY <1>0, <2>2, ReaderKinds, ReaderStops
    <2> QED BY <1>0, <2>1, <2>2, ReaderKinds, ZenonT(20)
<1>4. late \in BOOLEAN /\ i \in Int /\ Len(req) \in Int /\ (IsTrack(k) => k.kind = "track") /\ (IsRead(k) => k.kind = "read")
    BY CacheConfig DEF Waiting, Ids, IsRead, IsTrack
<1>5. reader'[i] = t /\ replies'[i] = (IF late THEN replies[i] ELSE replies[i] + 1)
    BY <1>0, <1>1 DEF Waiting
<1>6. reply'[i] = answer
    BY <1>1 DEF Waiting
<1>7. \A r \in Ids : r # i => reader'[r] = reader[r] /\ replies'[r] = replies[r] /\ reply'[r] = reply[r]
    BY <1>1 DEF Waiting
<1>8. k # NoReader
    BY <1>0 DEF NoReader
<1>9. Reads(i)' /\ i <= Len(req) /\ (IsRead(k) /\ ~late => replies[i] = 0)
    <2>1. i <= Len(req)
        BY <1>4, <1>8 DEF Waiting
    <2> HIDE DEF t
    <2>2. CASE IsRead(k) /\ IsRead(t) /\ t.stopped = TRUE /\ t.addr = k.addr
        BY <1>0, <1>1, <1>4, <1>5, <2>1, <2>2, ReaderKinds DEF Reads
    <2>3. CASE IsTrack(k) /\ IsTrack(t) /\ t.stopped = TRUE
        BY <1>1, <1>4, <1>5, <2>1, <2>3, ZenonT(20) DEF Reads
    <2> QED BY <1>3, <2>2, <2>3
<1>10. late => remtrigger
    BY <1>0 DEF Waiting
<1>11. Latest
    <2>1. ASSUME replies'[i] # replies[i], reply'[i].kind = "read"
          PROVE  replies[i] = 0 /\ reply'[i] = ReadReply(i, NoEntry)
        BY <1>2, <1>3, <1>4, <1>5, <1>6, <1>9, <2>1
    <2>2. ReadReply(i, NoEntry).v = 0 /\ ReadReply(i, NoEntry).old = FALSE
        BY DEF ReadReply, NoEntry
    <2> QED BY <1>7, <2>1, <2>2 DEF Latest
<1> HIDE DEF t, late, list, count, answer
<1>12. remtrigger'
    BY <1>1, <1>4, <1>10
<1>13. ASSUME NEW r \in Ids, r # i PROVE Reads(r)' /\ (r > Len(req) => reader'[r] = NoReader /\ replies'[r] = 0)
    <2>1. Reads(r) /\ (r > Len(req) => reader[r] = NoReader /\ replies[r] = 0)
        BY DEF Waiting
    <2> QED BY <1>1, <1>7, <1>13, <2>1 DEF Reads
<1>14. /\ req' = req /\ reader' = [r \in Ids |-> reader'[r]] /\ replies' \in [Ids -> Nat]
       /\ reply' = [r \in Ids |-> reply'[r]]
    <2>1. \A r \in Ids : replies'[r] \in Nat
        BY <1>0, <1>4, <1>5, <1>7 DEF Waiting
    <2>2. req' = req /\ DOMAIN reader' = DOMAIN reader /\ DOMAIN replies' = DOMAIN replies /\ DOMAIN reply' = DOMAIN reply
        BY <1>1
    <2>3. DOMAIN reader = Ids /\ DOMAIN replies = Ids /\ DOMAIN reply = Ids
        BY DEF Waiting
    <2>4. reader' = [r \in Ids |-> reader'[r]]
        BY <1>1, <2>3
    <2>5. reply' = [r \in Ids |-> reply'[r]]
        BY <1>1, <2>3, ZenonT(20)
    <2>6. replies' = [r \in Ids |-> replies'[r]]
        BY <1>1, <2>3, ZenonT(20)
    <2> QED BY <2>1, <2>2, <2>4, <2>5, <2>6
<1>15. ASSUME NEW r \in Ids PROVE Reads(r)' /\ (r > Len(req) => reader'[r] = NoReader /\ replies'[r] = 0)
    BY <1>4, <1>9, <1>13
<1>16. Waiting'
    BY <1>12, <1>14, <1>15 DEF Waiting
<1> QED BY <1>11, <1>16

\* remtrigger_cb deletes the readers that have stopped.
LEMMA RemoveKeeps == ASSUME Waiting, remtrigger_cb PROVE Waiting' /\ Latest
<1>1. /\ UNCHANGED <<req, replies, reply>>
      /\ reader' = [ r \in Ids |-> IF reader[r].active /\ reader[r].stopped THEN NoReader ELSE reader[r] ]
    BY DEF remtrigger_cb
<1>2. ASSUME NEW r \in Ids
      PROVE  /\ Reads(r)' /\ (r > Len(req) => reader'[r] = NoReader /\ replies'[r] = 0)
             /\ ~(reader'[r].active /\ reader'[r].stopped)
    <2>1. Reads(r) /\ (r > Len(req) => reader[r] = NoReader /\ replies[r] = 0)
        BY DEF Waiting
    <2>2. CASE reader'[r] = NoReader
        BY <1>1, <2>1, <2>2 DEF Reads, NoReader
    <2>3. CASE reader'[r] = reader[r] /\ ~(reader[r].active /\ reader[r].stopped)
        BY <1>1, <2>1, <2>3 DEF Reads
    <2> QED BY <1>1, <2>2, <2>3
<1>3. Waiting'
    BY <1>1, <1>2 DEF Waiting
<1> QED BY <1>1, <1>3 DEF Latest

\* A request gets the next number.
LEMMA NewRequest ==
    ASSUME Typed, Waiting, NEW q \in Request, Ask(q)
    PROVE  /\ New \in Ids /\ New = Len(req) + 1 /\ req' \in Seq(Request) /\ Len(req') = New /\ req'[New] = q
           /\ Len(req) \in Nat /\ \A r \in Ids : r <= Len(req) => req'[r] = req[r]
           /\ reader[New] = NoReader /\ replies[New] = 0
<1>1. req \in Seq(Request) /\ req' = Append(req, q) /\ Len(req) \in Nat /\ New = Len(req) + 1
    BY DEF Waiting, Ask, New
<1>2. New \in Ids
    BY <1>1, CacheConfig DEF Typed, Ask, Ids
<1>3. req' \in Seq(Request) /\ Len(req') = New /\ req'[New] = q
    BY <1>1
<1>4. \A r \in Ids : r <= Len(req) => req'[r] = req[r]
    BY <1>1, CacheConfig DEF Ids
<1>5. reader[New] = NoReader /\ replies[New] = 0
    BY <1>1, <1>2 DEF Waiting
<1> QED BY <1>1, <1>2, <1>3, <1>4, <1>5, ZenonT(20)

\* ... and the requests before it are as they were.
LEMMA OldRequests ==
    ASSUME Typed, Waiting, NEW q \in Request, Ask(q), NEW r \in Ids, r # New,
           reader'[r] = reader[r], replies'[r] = replies[r]
    PROVE  Reads(r)' /\ (r > Len(req') => reader'[r] = NoReader /\ replies'[r] = 0)
<1>1. Reads(r) /\ (r > Len(req) => reader[r] = NoReader /\ replies[r] = 0) /\ r \in Int
    BY CacheConfig DEF Waiting, Ids
<1>2. Len(req') = Len(req) + 1 /\ Len(req) \in Nat /\ (r <= Len(req) => req'[r] = req[r])
    BY NewRequest
<1>3. CASE reader[r] = NoReader
    BY <1>1, <1>2, <1>3 DEF Reads
<1>4. CASE IsTrack(reader[r]) /\ reader[r].stopped \in BOOLEAN
    BY <1>1, <1>2, <1>4 DEF Reads
<1>5. CASE reader[r] # NoReader /\ ~IsTrack(reader[r])
    BY <1>1, <1>2, <1>5 DEF Reads
<1> QED BY <1>1, <1>3, <1>4, <1>5 DEF Reads

\* A request that is answered at once.
LEMMA AnswerKeeps ==
    ASSUME Typed, Waiting, NEW q \in Request, Ask(q), NEW x, Answer(x)
    PROVE  /\ Waiting' /\ replies[New] = 0 /\ reply'[New] = x /\ req'[New] = q
           /\ \A r \in Ids : r # New => replies'[r] = replies[r]
<1>0. PICK n \in Ids : n = New
    BY NewRequest
<1>1. /\ req' \in Seq(Request) /\ Len(req') = n /\ req'[n] = q
      /\ reader[n] = NoReader /\ replies[n] = 0
    BY <1>0, NewRequest
<1>2. /\ replies' = [replies EXCEPT ![n] = 1] /\ reply' = [reply EXCEPT ![n] = x] /\ UNCHANGED <<reader, remtrigger>>
    BY <1>0 DEF Answer
<1>3. ASSUME NEW r \in Ids, r # n PROVE Reads(r)' /\ (r > Len(req') => reader'[r] = NoReader /\ replies'[r] = 0)
    BY <1>0, <1>2, <1>3, OldRequests DEF Waiting
<1>4. Reads(n)' /\ ~(n > Len(req'))
    BY <1>1, <1>2, CacheConfig DEF Reads, Ids
<1>5. \A r \in Ids : Reads(r)' /\ (r > Len(req') => reader'[r] = NoReader /\ replies'[r] = 0)
    BY <1>3, <1>4
<1>6. Len(req') <= MaxReq
    BY <1>1, CacheConfig DEF Ids
<1>7. replies' \in [Ids -> Nat] /\ reply' = [r \in Ids |-> reply'[r]]
    BY <1>1, <1>2, ZenonT(20) DEF Waiting
<1>8. Waiting'
    BY <1>1, <1>2, <1>5, <1>6, <1>7 DEF Waiting
<1> QED BY <1>0, <1>1, <1>2, <1>8 DEF Waiting

\* A request that waits: for an update of its address, or of any.
LEMMA WaitKeeps ==
    ASSUME Typed, Waiting, NEW q \in Request, Ask(q), NEW k, Wait(k),
           k.stopped = FALSE, IsTrack(k) \/ (IsRead(k) /\ k.addr = q.addr /\ q.addr \in Addrs)
    PROVE  Waiting' /\ UNCHANGED replies
<1>0. PICK n \in Ids : n = New
    BY NewRequest
<1>1. /\ req' \in Seq(Request) /\ Len(req') = n /\ req'[n] = q
      /\ reader[n] = NoReader /\ replies[n] = 0
    BY <1>0, NewRequest
<1>2. reader' = [reader EXCEPT ![n] = k] /\ UNCHANGED <<remtrigger, replies, reply>>
    BY <1>0 DEF Wait
<1>3. ASSUME NEW r \in Ids, r # n PROVE Reads(r)' /\ (r > Len(req') => reader'[r] = NoReader /\ replies'[r] = 0)
    BY <1>0, <1>2, <1>3, OldRequests DEF Waiting
<1>4. reader'[n] = k /\ n \in Int
    BY <1>2, CacheConfig DEF Waiting, Ids
<1>5. Reads(n)' /\ ~(n > Len(req'))
    <2>s. reader'[n].stopped = FALSE
        BY <1>4
    <2>b. reader'[n].stopped \in BOOLEAN
        BY <2>s, ZenonT(20)
    <2>0. reader'[n].stopped \in BOOLEAN /\ ~(n > Len(req')) /\ n <= Len(req')
        BY <1>1, <1>4, <2>b
    <2>1. CASE IsTrack(k)
        BY <1>4, <2>0, <2>1 DEF Reads
    <2>2. CASE IsRead(k) /\ k.addr = q.addr /\ q.addr \in Addrs
        <3>1. IsRead(reader'[n]) /\ req'[n].addr = reader'[n].addr /\ req'[n].addr \in Addrs /\ replies'[n] = 0
            BY <1>1, <1>2, <1>4, <2>2
        <3> QED BY <2>0, <3>1 DEF Reads
    <2> QED BY <2>1, <2>2
<1>6. \A r \in Ids : Reads(r)' /\ (r > Len(req') => reader'[r] = NoReader /\ replies'[r] = 0)
    BY <1>3, <1>5
<1>7. \A r \in Ids : reader'[r].active /\ reader'[r].stopped => remtrigger'
    BY <1>2, <1>4 DEF Waiting
<1>8. Len(req') <= MaxReq
    BY <1>1, CacheConfig DEF Ids
<1>9. reader' = [r \in Ids |-> reader'[r]]
    BY <1>2 DEF Waiting
<1> QED BY <1>1, <1>2, <1>6, <1>7, <1>8, <1>9 DEF Waiting

\* GroupCache::Read answers from the cache what the entry says of the last telegram.
LEMMA ReadKeeps ==
    ASSUME CacheInv, NEW a \in Addrs, NEW w \in BOOLEAN, NEW o \in BOOLEAN, Read(a, w, o)
    PROVE  Waiting' /\ Latest
<1> DEFINE q == [ kind |-> IF w THEN "ReadWait" ELSE "Read", addr |-> a, aged |-> o ]
           e == IF o /\ cache[a].old THEN NoEntry ELSE cache[a]
<1>0. Typed /\ Waiting /\ Current
    BY DEF CacheInv
<1>1. q \in Request /\ q.addr = a /\ q.aged = o
    BY DEF Request
<1>2. /\ Ask(q) /\ last' = last
      /\ CASE ~enable                            -> Answer([ kind |-> "disabled" ])
           [] enable /\ (e # NoEntry \/ ~w)      -> Answer(ReadReply(New, e))
           [] OTHER                              -> Wait(GCReader(a))
    BY DEF Read
<1>3. e \in Entry /\ e.v \in {0, last[a]} /\ (o => ~e.old)
    <2>1. NoEntry \in Entry /\ NoEntry.v = 0 /\ NoEntry.old = FALSE
        BY CacheConfig DEF NoEntry, Entry, Writes
    <2>2. cache[a] \in Entry /\ (cache[a] # NoEntry => cache[a].v = last[a])
        BY <1>0, ZenonT(20) DEF Typed, Current
    <2>3. CASE o /\ cache[a].old
        BY <2>1, <2>3
    <2>4. CASE ~(o /\ cache[a].old)
        BY <2>1, <2>2, <2>4
    <2> QED BY <2>3, <2>4
<1>4. ReadReply(New, e).v = e.v /\ ReadReply(New, e).old = e.old
    BY DEF ReadReply
<1>5. /\ IsRead(GCReader(a)) /\ GCReader(a).stopped = FALSE /\ GCReader(a).addr = a
      /\ [ kind |-> "disabled" ].kind = "disabled"
    BY DEF GCReader, IsRead
<1>6. New \in Ids
    BY <1>0, <1>1, <1>2, NewRequest
<1> HIDE DEF q, e
<1>7. CASE Answer([ kind |-> "disabled" ])
    <2>1. /\ Waiting' /\ reply'[New] = [ kind |-> "disabled" ]
          /\ \A r \in Ids : r # New => replies'[r] = replies[r]
        BY <1>0, <1>1, <1>2, <1>7, AnswerKeeps
    <2> QED BY <1>5, <2>1 DEF Latest
<1>8. CASE Answer(ReadReply(New, e))
    <2>1. /\ Waiting' /\ replies[New] = 0 /\ reply'[New] = ReadReply(New, e) /\ req'[New] = q
          /\ \A r \in Ids : r # New => replies'[r] = replies[r]
        BY <1>0, <1>1, <1>2, <1>8, AnswerKeeps
    <2> QED BY <1>1, <1>2, <1>3, <1>4, <2>1 DEF Latest
<1>9. CASE Wait(GCReader(a))
    <2>1. Waiting' /\ UNCHANGED replies
        BY <1>0, <1>1, <1>2, <1>5, <1>9, WaitKeeps, ZenonT(20)
    <2> QED BY <2>1 DEF Latest
<1> QED BY <1>2, <1>7, <1>8, <1>9

\* A request that is dropped: LastUpdates with a start ahead of the cache.
LEMMA DropKeeps ==
    ASSUME Typed, Waiting, NEW q \in Request, Ask(q), UNCHANGED <<reader, remtrigger, replies, reply>>
    PROVE  Waiting'
<1>0. PICK n \in Ids : n = New
    BY NewRequest
<1>1. /\ req' \in Seq(Request) /\ Len(req') = n /\ reader[n] = NoReader /\ replies[n] = 0 /\ n \in Int
    BY <1>0, NewRequest, CacheConfig DEF Ids
<1>2. ASSUME NEW r \in Ids, r # n PROVE Reads(r)' /\ (r > Len(req') => reader'[r] = NoReader /\ replies'[r] = 0)
    BY <1>0, <1>2, OldRequests
<1>3. Reads(n)' /\ ~(n > Len(req'))
    BY <1>1 DEF Reads
<1>4. \A r \in Ids : Reads(r)' /\ (r > Len(req') => reader'[r] = NoReader /\ replies'[r] = 0)
    BY <1>2, <1>3
<1>5. Len(req') <= MaxReq
    BY <1>1, CacheConfig DEF Ids
<1> QED BY <1>1, <1>4, <1>5 DEF Waiting

\* LastUpdates and LastUpdates2.
LEMMA TrackKeeps ==
    ASSUME CacheInv, NEW f \in Nat, LastUpdates(f) \/ LastUpdates2(f)
    PROVE  Waiting' /\ Latest
<1>0. Typed /\ Waiting
    BY DEF CacheInv
<1>1. PICK q \in Request : Ask(q)
    <2>1. \A k \in {"LastUpdates", "LastUpdates2"} : [ kind |-> k, start |-> f ] \in Request
        BY DEF Request
    <2> QED BY <2>1 DEF LastUpdates, LastUpdates2
<1>2. \/ UNCHANGED <<reader, remtrigger, replies, reply>>
      \/ \E s : Wait(GCTracker(s))
    BY DEF LastUpdates, LastUpdates2
<1>3. ASSUME NEW s PROVE IsTrack(GCTracker(s)) /\ GCTracker(s).stopped = FALSE
    BY DEF GCTracker, IsTrack
<1>4. Waiting' /\ UNCHANGED replies
    BY <1>0, <1>1, <1>2, <1>3, DropKeeps, WaitKeeps, ZenonT(20)
<1> QED BY <1>4 DEF Latest

\* Every step keeps the readers in order and every reply it sends is right.
LEMMA StepWaiting == ASSUME CacheInv, [Next]_vars PROVE Waiting' /\ Latest
<1>0. Typed /\ Waiting /\ left.addrs \subseteq Addrs /\ remtrigger \in BOOLEAN
    BY DEF CacheInv, Typed
<1>1. ASSUME UNCHANGED waiting PROVE Waiting' /\ Latest
    BY <1>0, <1>1 DEF waiting, Waiting, Reads, Latest
<1>2. ASSUME NEW a \in left.addrs, send_L_Data(a) PROVE Waiting' /\ Latest
    <2>1. CASE ~enable
        BY <1>1, <1>2, <2>1 DEF send_L_Data, waiting
    <2>2. CASE enable
        <3> DEFINE e == [ v |-> Written + 1, seq |-> NextSeq, old |-> FALSE ]
        <3>1. Updated(a, e, cache_seq', NextSeq) /\ UNCHANGED req /\ last' = [last EXCEPT ![a] = Written + 1]
            BY <1>2, <2>2 DEF send_L_Data
        <3>2. /\ Waiting'
              /\ \A r \in Ids : replies'[r] # replies[r] /\ reply'[r].kind = "read" =>
                    replies[r] = 0 /\ req[r].addr = a /\ reply'[r] = ReadReply(r, e)
            <4> HIDE DEF e
            <4> QED BY <1>0, <1>2, <3>1, UpdateKeeps
        <3>3. \A r : ReadReply(r, e).v = Written + 1 /\ ReadReply(r, e).old = FALSE
            BY DEF ReadReply
        <3>4. last'[a] = Written + 1
            BY <1>0, <3>1 DEF Typed
        <3> HIDE DEF e
        <3> QED BY <3>1, <3>2, <3>3, <3>4 DEF Latest
    <2> QED BY <2>1, <2>2
<1>3. ASSUME NEW r \in Ids, timeout_cb(r) PROVE Waiting' /\ Latest
    BY <1>0, <1>3, TimeoutKeeps
<1>4. ASSUME NEW a \in left.addrs, NEW w \in BOOLEAN, NEW o \in BOOLEAN, Read(a, w, o) PROVE Waiting' /\ Latest
    BY <1>0, <1>4, ReadKeeps
<1>5. CASE (\E s \in 0..(W - 1) : LastUpdates(s)) \/ \E s \in 0..left.writes : LastUpdates2(s)
    <2>1. 0..(W - 1) \subseteq Nat /\ 0..left.writes \subseteq Nat
        BY <1>0, CacheConfig DEF Typed, Writes
    <2> QED BY <1>5, <2>1, TrackKeeps
<1>6. CASE start \/ stop \/ Age \/ Start \/ Clear \/ Stop \/ \E a \in left.addrs : remove(a)
    BY <1>1, <1>6 DEF start, stop, Age, Start, Clear, Stop, remove
<1>7. CASE UNCHANGED vars
    BY <1>1, <1>7 DEF vars, waiting
<1>8. CASE remtrigger_cb
    BY <1>0, <1>8, RemoveKeeps
<1> QED BY <1>2, <1>3, <1>4, <1>5, <1>6, <1>7, <1>8 DEF Next, Requested

-----------------------------------------------------------------------------
\* The invariant is inductive.
THEOREM CacheInductive == Spec => []CacheInv
<1>1. CacheInv /\ [Next]_vars => CacheInv'
    BY StepStored, StepWaiting DEF CacheInv, Stored
<1> QED BY CacheStart, <1>1, PTL DEF Spec

\* Indexed for every size of the cache and any number of telegrams: each entry is
\* found in cache_seq, and the eviction in GroupCache::send_L_Data keeps both within
\* max-size, although Clear empties only one of them.
THEOREM CacheIndexed == Spec => []Indexed
<1>1. CacheInv => Indexed
    <2> SUFFICES ASSUME CacheInv PROVE Indexed
        OBVIOUS
    <2>1. TypeOK
        BY DEF CacheInv, Typed, Entry, Numbered, Waiting, TypeOK
    <2> QED BY <2>1 DEF CacheInv, Limited, Current, Waiting, Indexed
<1> QED BY CacheInductive, <1>1, PTL

\* ReadLatest for every set of addresses and any number of clients: a Read is
\* answered once at most, with the last telegram or with none.
THEOREM RepliesAreLatest == Spec => ReadLatest
<1>1. CacheInv /\ [Next]_vars => [Latest]_vars
    BY StepWaiting
<1> QED BY CacheInductive, <1>1, PTL DEF Spec, ReadLatest
=============================================================================
