-------------------------------- MODULE Args --------------------------------
(***************************************************************************)
(* knxd_args (server/knxd_args.cpp): turns the options of the command      *)
(* line, whose order matters, into the sections of a configuration file.   *)
(* What modifies an interface (filters, arguments, flags, log levels) is   *)
(* collected in front of it and lands in its section.  A section is named  *)
(* by a word, or by a letter and a word ("A.tcp"; n is the letter); "debug" *)
(* marks the section of its log levels.                                    *)
(***************************************************************************)
EXTENDS Integers, Sequences, FiniteSetsExt, TLC

CONSTANT Lines      \* kinds of command lines: [opts, max], options and how many

VARIABLES args,     \* arguments, with ini, link and the build's HAVE_SYSTEMD
          given,    \* the options parsed: [key, arg, val], val the split argument
          at,       \* for each of them the section it filled or the filter it made
          line      \* the kind of command line

avars == <<args, given, at, line>>

Sec(name) == [n |-> 0, name |-> name, debug |-> FALSE]
Debug(sec) == [sec EXCEPT !.debug = TRUE]

Put(p, sec, opt, v) == [p EXCEPT !.ini = (<<sec, opt>> :> v) @@ @]
Main(p, opt, v) == Put(p, Sec("main"), opt, v)

\* The macro ADD: an entry more in a list.
ADD(p, sec, opt, v) ==
    Put(p, sec, opt, (IF <<sec, opt>> \in DOMAIN p.ini THEN p.ini[<<sec, opt>>] ELSE <<>>) \o v)

Die(p) == [p EXCEPT !.died = TRUE]

link_to(p, name) == [p EXCEPT !.link = [n |-> @.n + 1, name |-> name, debug |-> FALSE]]

\* emplace: the first value stays.
add_arg(p, name, form, v) ==
    CASE form = "set" -> [p EXCEPT !.more_args = @ @@ (name :> v)]
      [] form = "not" /\ name # "" -> [p EXCEPT !.more_args = @ @@ (name :> "false")]
      [] form = "flag" /\ name # "" -> [p EXCEPT !.more_args = @ @@ (name :> "true")]
      [] OTHER -> p

NoArgs == [o \in {} |-> ""]
PutAll(p, sec, f) == [p EXCEPT !.ini = [k \in {<<sec, o>> : o \in DOMAIN f} |-> f[k[2]]] @@ @]

\* mutant: the arguments of a filter are kept for the next
do_filter_Keep(p, name) ==
    IF p.more_args = NoArgs THEN [p EXCEPT !.filters = Append(@, Sec(name))]
    ELSE LET l == link_to(p, name) IN
         [Put(PutAll(l, l.link, l.more_args), l.link, "filter", name) EXCEPT
             !.filters = Append(@, l.link)]

do_filter(p, name) ==
    IF p.more_args = NoArgs THEN [p EXCEPT !.filters = Append(@, Sec(name))]
    ELSE LET l == link_to(p, name) IN
         [Put(PutAll(l, l.link, l.more_args), l.link, "filter", name) EXCEPT
             !.more_args = NoArgs, !.filters = Append(@, l.link)]

reset(p) ==
    [p EXCEPT !.filters = <<>>, !.flags = {}, !.send_delay = "0",
              !.tracelevel = "", !.errorlevel = "", !.no_timestamps = FALSE]

\* A flag and the option it becomes.
Flags == ("ack-group" :> "ack-group") @@ ("ack-individual" :> "ack-individual")
         @@ ("discharge-reset" :> "reset") @@ ("no-monitor" :> "monitor")

\* The three parts of stack: filters; flags and arguments; log levels.
Filtered(p, sec) ==
    LET q == IF p.send_delay = "0" THEN p
             ELSE do_filter(add_arg(p, "delay", "set", p.send_delay), "pace")
    IN  IF q.filters = <<>> THEN q ELSE ADD(q, sec, "filters", q.filters)

Modified(p, sec) ==
    LET q == PutAll(p, sec, [o \in {Flags[f] : f \in p.flags} |-> IF o = "monitor" THEN "false" ELSE "true"])
    IN  [PutAll(q, sec, q.more_args) EXCEPT !.more_args = NoArgs]

Levels(p) == (IF p.tracelevel = "" THEN NoArgs ELSE "trace-mask" :> p.tracelevel)
             @@ (IF p.errorlevel = "" THEN NoArgs ELSE "error-level" :> p.errorlevel)
             @@ (IF p.no_timestamps THEN "timestamps" :> "false" ELSE NoArgs)

Logged(p, sec) ==
    IF Levels(p) = NoArgs THEN p
    ELSE PutAll(Put(p, sec, "debug", Debug(sec)), Debug(sec), Levels(p))

stack(p, sec) == reset(Logged(Modified(Filtered(p, sec), sec), sec))

(* The names of the parts of a driver's argument, and how many are required. *)
Names(type) ==
    CASE type = "ip" -> <<"multicast-address", "port", "interface">>
      [] type \in {"tpuarttcp", "ft12tcp", "ncn5120tcp", "ft12cemitcp"} -> <<"ip-address", "dest-port">>
      [] type = "usb" -> <<"bus", "device", "config", "interface">>
      [] type = "ipt" -> <<"ip-address", "dest-port", "src-port">>
      [] type = "iptn" -> <<"ip-address", "dest-port", "src-port", "nat-ip", "data-port">>
      [] type \in {"ft12", "ncn5120", "tpuarts", "ft12cemi"} -> <<"device", "baudrate">>
      [] OTHER -> <<>>

Required(type) ==
    CASE type \in {"tpuarttcp", "ft12tcp", "ncn5120tcp", "ft12cemitcp"} -> 2
      [] type \in {"ipt", "iptn", "ft12", "ncn5120", "tpuarts", "ft12cemi"} -> 1
      [] OTHER -> 0

DriverOf(type) ==
    CASE type = "iptn" -> "ipt" [] type \in {"tpuarts", "tpuarttcp"} -> "tpuart"
      [] type = "ft12tcp" -> "ft12" [] type = "ncn5120tcp" -> "ncn5120"
      [] type = "ft12cemitcp" -> "ft12cemi" [] OTHER -> type

(* Parts in excess are refused unless it is one empty one.  What is required *)
(* is only asked for right after the last part given, so not where none is.  *)
driver_argsv(p, type, parts) ==
    LET names == Names(type)
        n == Len(parts)
        there == {i \in 1 .. n : i <= Len(names) /\ parts[i] # ""}
        q == PutAll(Put(p, p.link, "driver", DriverOf(type)), p.link,
                    [o \in {names[i] : i \in there} |-> parts[CHOOSE i \in there : names[i] = o]])
    IN  IF \/ n > Len(names) /\ (n > Len(names) + 1 \/ parts[n] # "")
           \/ n > 0 /\ n < Required(type)
        THEN Die(q) ELSE q

Drivers == {"ip", "tpuarttcp", "ft12tcp", "ncn5120tcp", "ft12cemitcp", "usb", "ipt", "iptn", "ft12",
            "ncn5120", "tpuarts", "ft12cemi", "dummy"}

driver_args(p, type, parts) ==
    IF type \notin Drivers THEN Die(p)
    ELSE LET q == driver_argsv(p, type, parts)
         IN  IF type = "iptn" THEN Put(q, q.link, "nat", "true") ELSE q

\* val: the numbers that sscanf finds
readaddr(p, val) == IF Len(val) # 3 THEN Die(p) ELSE Main(p, "addr", val)
readaddrblock(p, val) == IF Len(val) # 4 THEN Die(p) ELSE Main(p, "client-addrs", val)

-----------------------------------------------------------------------------
(* The options.                                                              *)
opt_T(p) == [stack(p, Sec("tunnel")) EXCEPT !.on = @ \cup {"T"}, !.want_server = TRUE]
opt_R(p) == [stack(p, Sec("router")) EXCEPT !.on = @ \cup {"R"}, !.want_server = TRUE]
opt_D(p) == [stack(p, Sec("server")) EXCEPT !.on = @ \cup {"D"}, !.want_server = TRUE]

\* --single-port, --multi-port and -I
opt_port(p, o) == [p EXCEPT !.on = @ \cup {o.key}]

OfferedServices(p) ==
    (IF "T" \in p.on THEN "tunnel" :> "tunnel" ELSE NoArgs)
    @@ (IF "R" \in p.on THEN "router" :> "router" ELSE NoArgs)
    @@ (IF "D" \in p.on THEN "discover" :> "true" ELSE NoArgs)
    @@ (IF "multi-port" \in p.on THEN "multi-port" :> "true" ELSE NoArgs)
    @@ (IF "single-port" \in p.on THEN "multi-port" :> "false" ELSE NoArgs)

\* The address and the port of -S or -X; a port that is no number is dropped.
Address(val) ==
    (IF Len(val) > 0 /\ val[1] # "" THEN "multicast-address" :> val[1] ELSE NoArgs)
    @@ (IF Len(val) > 1 /\ val[2] # "" THEN "port" :> val[2] ELSE NoArgs)

Served(p, o, sec, type) ==
    LET q == PutAll(p, sec, OfferedServices(p) @@ (IF "I" \in p.on THEN "interface" :> o.arg ELSE NoArgs))
        r == ADD([q EXCEPT !.on = {}, !.want_server = FALSE], Sec("main"), "connections", <<sec>>)
    IN  PutAll(r, sec, ("server" :> type) @@ Address(o.val))

Named(p, sec, name) == stack(Put(Put(p, Debug(sec), "name", name), sec, "debug", Debug(sec)), sec)

\* With -I, the address of -S itself is taken for the interface, and where there
\* is none the program fails.
opt_S(p, o) ==
    IF p.filters # <<>> \/ ("I" \in p.on /\ o.arg = "") THEN Die(p)
    ELSE Named(Served(p, o, Sec("server"), "ets_router"), Sec("server"), "mcast:knxd")

\* -X needs "]:" in its address.  The section of the router is always "router6".
opt_X(p, o) ==
    LET q == Served(p, o, Sec("server6"), "ets_router6") IN
    IF p.filters # <<>> \/ ("I" \in p.on /\ o.arg = "") \/ Len(o.val) < 2 THEN Die(p)
    ELSE Named(IF p.want_server THEN Put(q, Sec("server6"), "router", "router6") ELSE q,
               Sec("server6"), "mcast6:knxd")

opt_n(p, o) == IF o.val = <<"long">> THEN Die(p) ELSE Main(p, "name", o.arg)

\* link_to and the entry in "connections"
Linked(p, name) == LET l == link_to(p, name) IN ADD(l, Sec("main"), "connections", <<l.link>>)

opt_u(p, o) ==
    LET l == Put(Linked(p, "unix"), link_to(p, "unix").link, "server", "knxd_unix") IN
    IF p.want_server THEN Die(p)
    ELSE stack(PutAll(l, l.link, IF o.val = <<>> THEN "systemd-ignore" :> "true"
                                 ELSE ("path" :> o.val[1]) @@ ("systemd-ignore" :> "false")), l.link)

\* a port of 0 counts as none
opt_i(p, o) ==
    LET l == Put(Linked(p, "tcp"), link_to(p, "tcp").link, "server", "knxd_tcp") IN
    IF p.want_server THEN Die(p)
    ELSE stack(PutAll(l, l.link, IF o.val \in {<<>>, <<"0">>} THEN "systemd-ignore" :> "true"
                                 ELSE ("port" :> o.val[1]) @@ ("systemd-ignore" :> "false")), l.link)

opt_t(p, o) == IF o.val = <<"x">> THEN Die(p) ELSE [p EXCEPT !.tracelevel = o.val[1]]
opt_no_timestamp(p) == [p EXCEPT !.no_timestamps = TRUE]
opt_f(p, o) == [p EXCEPT !.errorlevel = o.val[1]]

Flagged(p) == p.flags # {} \/ p.send_delay # "0"

opt_e(p, o) == IF Flagged(p) THEN Die(p) ELSE readaddr(stack(p, Sec("main")), o.val)
opt_E(p, o) == readaddrblock(p, o.val)
opt_p(p, o) == Main(p, "pidfile", o.arg)
opt_d(p, o) == LET q == Main(p, "background", "true")
               IN  IF o.val = <<>> THEN q ELSE Main(q, "logfile", o.val[1])

opt_c(p) ==
    LET l == link_to(p, "cache") IN
    IF Flagged(p) THEN Die(p) ELSE stack(Main(l, "cache", l.link), l.link)

opt_global(p, o) == Main(p, IF o.key = "force-broadcast" THEN o.key ELSE "stop-after-setup", "true")

\* --send-delay and its two obsolete forms
DelayOf(o) == CASE o.key = "no-tunnel-queuing" -> "30" [] o.key = "no-emi-queuing" -> "500"
                [] OTHER -> IF o.val = <<>> THEN "30" ELSE o.val[1]
opt_delay(p, o) == [p EXCEPT !.send_delay = DelayOf(o)]

opt_flag(p, o) == [p EXCEPT !.flags = @ \cup {o.key}]

opt_b(p, o) ==
    LET l == driver_args(Linked(p, o.arg), o.arg, o.val) IN
    IF p.want_server THEN Die(p) ELSE IF l.died THEN l ELSE stack(l, l.link)

opt_B(p, o) == do_filter(p, o.arg)
opt_A(p, o) == add_arg(p, o.arg, o.val[1], o.val[2])

\* The end of the command line; with systemd, what is left is for its sockets.
opt_end(p) ==
    LET q == IF p.systemd THEN stack(Main(p, "systemd", Sec("systemd")), Sec("systemd")) ELSE p
    IN  IF p.want_server \/ q.filters # <<>> \/ q.more_args # NoArgs \/ Flagged(q) THEN Die(p)
        ELSE [q EXCEPT !.done = TRUE]

parse_opt(p, o) ==
    CASE o.key = "T" -> opt_T(p) [] o.key = "R" -> opt_R(p) [] o.key = "D" -> opt_D(p)
      [] o.key \in {"single-port", "multi-port", "I"} -> opt_port(p, o)
      [] o.key = "X" -> opt_X(p, o) [] o.key = "S" -> opt_S(p, o) [] o.key = "n" -> opt_n(p, o)
      [] o.key = "u" -> opt_u(p, o) [] o.key = "i" -> opt_i(p, o) [] o.key = "t" -> opt_t(p, o)
      [] o.key = "no-timestamp" -> opt_no_timestamp(p) [] o.key = "f" -> opt_f(p, o)
      [] o.key = "e" -> opt_e(p, o) [] o.key = "E" -> opt_E(p, o) [] o.key = "p" -> opt_p(p, o)
      [] o.key = "d" -> opt_d(p, o) [] o.key = "c" -> opt_c(p)
      [] o.key \in {"force-broadcast", "stop-now"} -> opt_global(p, o)
      [] o.key \in {"send-delay", "no-tunnel-queuing", "no-emi-queuing"} -> opt_delay(p, o)
      [] o.key \in DOMAIN Flags -> opt_flag(p, o)
      [] o.key = "b" -> opt_b(p, o) [] o.key = "B" -> opt_B(p, o) [] o.key = "A" -> opt_A(p, o)
      [] o.key = "end" -> opt_end(p)

-----------------------------------------------------------------------------
arguments ==
    [ini |-> [k \in {} |-> ""], link |-> Sec(""), filters |-> <<>>, more_args |-> NoArgs, flags |-> {},
     send_delay |-> "0", tracelevel |-> "", errorlevel |-> "", no_timestamps |-> FALSE,
     on |-> {}, want_server |-> FALSE, systemd |-> FALSE, died |-> FALSE, done |-> FALSE]

\* The section that an option fills, or the filter that -B adds.
Takers == {"T", "R", "D", "S", "X", "e", "u", "i", "b", "c"} \cup (IF args.systemd THEN {"end"} ELSE {})
Common == ("T" :> Sec("tunnel")) @@ ("R" :> Sec("router")) @@ ("D" :> Sec("server")) @@ ("S" :> Sec("server"))
          @@ ("X" :> Sec("server6")) @@ ("e" :> Sec("main")) @@ ("end" :> Sec("systemd"))
Filled(p, q, o) ==
    CASE o.key \in DOMAIN Common -> Common[o.key]
      [] o.key = "B" -> q.filters[Len(q.filters)]
      [] OTHER -> link_to(p, CASE o.key = "u" -> "unix" [] o.key = "i" -> "tcp" [] o.key = "c" -> "cache"
                               [] OTHER -> o.arg).link

Parse(o) ==
    /\ args' = parse_opt(args, o)
    /\ given' = Append(given, o) /\ at' = Append(at, Filled(args, args', o))
    /\ UNCHANGED line

AInit == /\ args \in {[arguments EXCEPT !.systemd = b] : b \in BOOLEAN}
         /\ given = <<>> /\ at = <<>> /\ line \in Lines

ANext == /\ ~args.died /\ ~args.done
         /\ \/ Len(given) < line.max /\ \E o \in line.opts : Parse(o)
            \/ Parse([key |-> "end", arg |-> "", val |-> <<>>])

-----------------------------------------------------------------------------
\* The first option of the given kinds after the j-th, or 0.
After(j, keys) ==
    LET K == {k \in j + 1 .. Len(given) : given[k].key \in keys} IN IF K = {} THEN 0 ELSE Min(K)

Taker(j) == After(j, Takers)
Owner(j) == After(j, Takers \cup {"B"})
Goes(j, sec) == Taker(j) # 0 /\ at[Taker(j)] = sec

All(keys) == {j \in 1 .. Len(given) : given[j].key \in keys}
Pick(S) == SelectSeq([j \in 1 .. Len(given) |-> j], LAMBDA j : j \in S)
Delays == {"send-delay", "no-tunnel-queuing", "no-emi-queuing"}

\* The delay that was asked for in front of the k-th option.
Delay(k) == LET J == {j \in All(Delays) : Taker(j) = k} IN IF J = {} THEN "0" ELSE DelayOf(given[Max(J)])
Paced(k) == k # 0 /\ given[k].key \in Takers /\ Delay(k) # "0"

Value(sec, opt, default) == IF <<sec, opt>> \in DOMAIN args.ini THEN args.ini[<<sec, opt>>] ELSE default
Sections == {at[k] : k \in All(Takers)}

\* The filters of a section are the ones in front of what filled it, in order,
\* and behind them the one that paces, if a delay was asked for.
FiltersLand ==
    \A sec \in Sections :
        LET want == Pick({j \in All({"B"}) : Goes(j, sec)} \cup {k \in All(Takers) : at[k] = sec /\ Paced(k)})
            have == Value(sec, "filters", <<>>)
        IN  /\ Len(have) = Len(want)
            /\ \A i \in 1 .. Len(want) :
                  IF given[want[i]].key = "B" THEN have[i] = at[want[i]] ELSE have[i].name = "pace"

\* An argument lands in the section of the filter, driver or server that it is
\* directly in front of, and nowhere else; of two with the same name the first one
\* counts.  (A delay comes in between: its filter takes them.)
Told(j) == given[j].key = "A" /\ given[j].arg # "" /\ Owner(j) # 0 /\ ~Paced(Owner(j))
Hidden(j) == \E i \in 1 .. Len(given) :
                 /\ Told(i) /\ i # j /\ given[i].arg = given[j].arg /\ at[Owner(i)] = at[Owner(j)]
                 /\ (i < j) = (Owner(i) = Owner(j))
Meant(o) == CASE o.val[1] = "set" -> o.val[2] [] o.val[1] = "not" -> "false" [] OTHER -> "true"

ArgsLand ==
    /\ \A j \in All({"A"}) : Told(j) /\ ~Hidden(j) => Value(at[Owner(j)], given[j].arg, "") = Meant(given[j])
    /\ \A k \in DOMAIN args.ini :
          k[1].name # "pace" /\ k[2] \in {given[j].arg : j \in All({"A"})} =>
            \E j \in All({"A"}) : Told(j) /\ given[j].arg = k[2] /\ at[Owner(j)] = k[1]

\* Flags and log levels land in the section of the interface that follows.
FlagsLand ==
    \A sec \in Sections, f \in DOMAIN Flags :
        (<<sec, Flags[f]>> \in DOMAIN args.ini) = \E j \in All({f}) : Goes(j, sec)

Level(sec, key, opt) ==
    LET J == {j \in All({key}) : Goes(j, sec)} IN
    Value(Debug(sec), opt, "") = IF J = {} THEN "" ELSE given[Max(J)].val[1]
LevelsLand == \A sec \in Sections : Level(sec, "t", "trace-mask") /\ Level(sec, "f", "error-level")

\* Every interface has a section of its own and is listed once, in the order given.
Own == {"u", "i", "b"}
Listed ==
    /\ \A j, k \in All(Own \cup {"c"}) : at[j] = at[k] => j = k
    /\ LET conns == Pick(All(Own \cup {"S", "X"})) IN
       Value(Sec("main"), "connections", <<>>) = [i \in 1 .. Len(conns) |-> at[conns[i]]]

\* A server offers what was asked for in front of it; nothing asked for is forgotten.
Offered(key, opt) ==
    \A s \in {"S", "X"} :
        (<<Common[s], opt>> \in DOMAIN args.ini) =
            \E j \in All({key}) : LET k == After(j, {"S", "X"}) IN k # 0 /\ given[k].key = s
NothingLeft ==
    args.done => /\ \A j \in All({"T", "R", "D"}) : After(j, {"S", "X"}) # 0
              /\ \A j \in All({"A", "B"} \cup DOMAIN Flags) :
                    Taker(j) # 0 \/ (given[j].key = "A" /\ given[j].arg = "")

\* Each modifier on the command line ends up in the section of the interface that
\* it stands in front of, and in no other: what one option took (stack, do_filter)
\* is gone for the next (reset, more_args.clear), in whatever order they come.
OptionsLand ==
    ~args.died => /\ FiltersLand /\ ArgsLand /\ FlagsLand /\ LevelsLand /\ Listed /\ NothingLeft
               /\ Offered("T", "tunnel") /\ Offered("D", "discover")
=============================================================================
