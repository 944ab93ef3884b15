------------------------------ MODULE MCServer ------------------------------
(***************************************************************************)
(* The KNXnet/IP server: how its command line becomes a configuration      *)
(* (Args), how the daemon is put together from that (Setup), the           *)
(* connections of its clients (EIBnetServer) and the multicast group       *)
(* (Routing).  A behaviour is one of these.                                *)
(***************************************************************************)
EXTENDS EIBnetServer

CONSTANTS Hosts, Setups, ErrorLimit, Faulty, MaxSend, Configs, MaxClients, Lines
VARIABLES part, h, air, faults, s, phase, args, given, at, line

R == INSTANCE Routing
S == INSTANCE Setup
A == INSTANCE Args

rvars == <<h, air, faults>>
svars == <<s, phase>>
avars == <<args, given, at, line>>

\* The parts that a behaviour is not about.
NoServer == Init /\ d.svc = (CHOOSE v \in Services : TRUE) /\ case = CHOOSE k \in Cases : TRUE
NoGroup == h = <<>> /\ air = <<>> /\ faults = 0
NoSetup == s = <<>> /\ phase = "none"
NoArgs == args = <<>> /\ given = <<>> /\ at = <<>> /\ line = <<>>

IPInit == \/ part = "args" /\ A!AInit /\ NoServer /\ NoGroup /\ NoSetup
          \/ part = "setup" /\ S!SInit /\ NoServer /\ NoGroup /\ NoArgs
          \/ part = "connections" /\ Init /\ NoGroup /\ NoSetup /\ NoArgs
          \/ part = "group" /\ R!RInit /\ NoServer /\ NoSetup /\ NoArgs

IPNext == /\ UNCHANGED part
          /\ \/ part = "args" /\ A!ANext /\ UNCHANGED <<vars, rvars, svars>>
             \/ part = "setup" /\ S!SNext /\ UNCHANGED <<vars, rvars, avars>>
             \/ part = "connections" /\ Next /\ UNCHANGED <<rvars, svars, avars>>
             \/ part = "group" /\ R!RNext /\ UNCHANGED <<vars, svars, avars>>

IPSpec == IPInit /\ [][IPNext]_<<part, vars, rvars, svars, avars>>

-----------------------------------------------------------------------------
\* A daemon takes from the group what the others sent, once, and loses nothing of
\* its own; see GroupExact in Routing.
GroupExact == part = "group" => R!GroupExact

\* Every chain of filters is complete, in order and set up once; see Setup.
ChainsComplete == part = "setup" => S!ChainsComplete

\* What modifies an interface on the command line lands in its section and in no
\* other; see Args.
OptionsLand == part = "args" => A!OptionsLand

-----------------------------------------------------------------------------
MCServices == {{"tunnel", "discover"}, {"route"}}
MCCases ==
    { [late |-> FALSE, conn |-> 3, ops |-> 4, types |-> Requests],
      [late |-> FALSE, conn |-> 2, ops |-> 5, types |-> {"link"}],
      [late |-> TRUE, conn |-> 1, ops |-> 5, types |-> Requests],
      [late |-> TRUE, conn |-> 1, ops |-> 6, types |-> {"config"}] }

\* Two daemons on one computer or on two; on one, the first has multi-port.
MCSetups ==
    {k \in [{1, 2} -> [kind : {"ip", "single", "multi"}, on : {1, 2}]] :
        k[1].on = 1 /\ (k[2].on = 1 => k[1].kind = "multi")}

(* Configurations with a driver "A" and a server "B", whose clients have the *)
(* filters of "T"; in one family A varies, in one T, in one the rest.        *)
Filters == {"queue", "myqueue", "pace", "bad", "log", "single", "nonsense"}
Lists(n) == UNION {[1 .. k -> Filters] : k \in 0 .. n}

None == [o \in {} |-> 0]
Opt(o, v) == [x \in {o} |-> v]
Both(f, g) == [x \in DOMAIN f \cup DOMAIN g |-> IF x \in DOMAIN f THEN f[x] ELSE g[x]]

IniWith(bad, a, b, t, main) ==
    [sec \in {"main", "A", "B", "T", "auto", ""} \cup Filters |->
        CASE sec = "main" -> main [] sec = "A" -> a [] sec = "B" -> b [] sec = "T" -> t
          [] sec = "myqueue" -> Opt("filter", "queue")
          [] sec = "bad" -> bad
          [] OTHER -> None]

Ini(a, b, t, main) == IniWith(Both(Opt("filter", "pace"), Opt("delay", 0)), a, b, t, main)

Main(conns, filters) ==
    Both(Opt("connections", conns), Both(Opt("filters", filters), Both(Opt("addr", "good"), Opt("client-addrs", "good"))))

Driver(type, filters) == Both(Opt("driver", type), Opt("filters", filters))
Tunnels == Both(Opt("server", "ets_router"), Opt("tunnel", "T"))
Routes == Both(Opt("server", "ets_router"), Both(Opt("tunnel", "T"), Opt("router", "T")))

MCConfigs ==
    {Ini(Driver(x, l), Tunnels, None, Main(<<"A", "B">>, <<>>)) :
        x \in {"dummy", "ip", "ipt", "nonsense"}, l \in Lists(3)}
    \cup {Ini(Driver("ip", <<>>), b, Opt("filters", l), Main(<<"B", "A">>, <<>>)) :
        b \in {Tunnels, Routes}, l \in Lists(3)}
    \cup {Ini(Driver("ipt", <<"pace">>), Both(Opt("server", "knxd_tcp"), Opt("filters", l)), None, Main(c, g)) :
        c \in {<<"A">>, <<"A", "A">>, <<"A", "B", "A">>, <<"B", "nonsense">>}, l \in Lists(1), g \in Lists(2)}
    \cup {Ini(Both(Driver(x, <<"log">>), o), None, None, Both(m, Main(<<"A", "A">>, <<>>))) :
        x \in {"dummy", "ip"}, o \in {Opt("port", 1), Opt("max-retry", 1), Opt("nonsense", 1)},
        m \in {None, Opt("unknown-ok", TRUE)}}
    \cup {IniWith(Both(Opt("filter", x), o), Driver("ipt", l), Tunnels, Opt("filters", <<"bad">>),
                  Both(m, Main(<<"A", "B">>, g))) :
        x \in {"pace", "single"},
        o \in {None, Opt("delay", 1), Opt("delay-per-byte", -1), Opt("incoming", -1),
               Opt("address", "good"), Opt("address", "malformed")},
        l \in {<<>>, <<"bad">>}, g \in {<<>>, <<"bad">>},
        m \in {None, Opt("timeout", 1), Opt("timeout", -1), Opt("addr", "malformed"),
               Opt("client-addrs", "malformed")}}

(* Command lines: modifiers in front of drivers and servers, at length; the  *)
(* services of the servers; each option with each other one.                 *)
Word(key, arg, val) == [key |-> key, arg |-> arg, val |-> val]
Plain(keys) == {Word(key, "", <<>>) : key \in keys}
Arg(name, form, v) == Word("A", name, <<form, v>>)
Driven(arg, vals) == {Word("b", arg, val) : val \in vals}

MCLines ==
    {[max |-> 5,
      opts |-> Plain({"send-delay", "T", "S"}) \cup Driven("ip", {<<>>})
               \cup {Arg("x", "set", "1"), Arg("x", "flag", ""), Word("B", "log", <<>>)}],
     [max |-> 4,
      opts |-> Plain({"T", "R", "D", "S", "i", "ack-group"})
               \cup {Word("B", "log", <<>>), Word("t", "1", <<"1">>), Word("X", "a", <<"a", "">>)}],
     [max |-> 2,
      opts |-> Plain({"T", "single-port", "multi-port", "I", "u", "c", "no-timestamp", "d", "send-delay",
                      "force-broadcast", "stop-now", "no-tunnel-queuing", "no-emi-queuing",
                      "discharge-reset", "ack-individual", "no-monitor"})
               \cup {Word("S", "a", <<"a", "1">>), Word("X", "a", <<"", "1">>), Word("X", "a", <<"a">>),
                     Word("n", "x", <<>>), Word("n", "x", <<"long">>), Word("u", "x", <<"x">>),
                     Word("i", "0", <<"0">>), Word("i", "1", <<"1">>), Word("t", "x", <<"x">>),
                     Word("f", "1", <<"1">>), Word("e", "1.1.1", <<"1", "1", "1">>), Word("e", "1", <<"1">>),
                     Word("E", "1.1.1:1", <<"1", "1", "1", "1">>), Word("E", "1.1.1", <<"1", "1", "1">>),
                     Word("p", "x", <<>>), Word("d", "x", <<"x">>), Word("send-delay", "0", <<"0">>),
                     Arg("x", "not", ""), Arg("", "not", ""), Arg("", "flag", "")}
               \cup Driven("ip", {<<"a", "", "b", "">>}) \cup Driven("ft12tcp", {<<"a">>})
               \cup Driven("iptn", {<<"a">>}) \cup Driven("tpuarts", {<<"a", "b">>, <<"a", "b", "c">>})
               \cup Driven("nonsense", {<<>>}) \cup Driven("dummy", {<<"">>}) \cup Driven("usb", {<<"a">>})
               \cup Driven("ncn5120tcp", {<<"a", "b">>}) \cup Driven("ft12cemitcp", {<<>>})
               \cup Driven("tpuarttcp", {<<>>}) \cup Driven("ipt", {<<"">>})]}
=============================================================================
