--------------------------- MODULE MC_FirewallRules ---------------------------
\* One target, address 4 of 0..7, in two nested zones; peers 1 and 6; scopes of
\* every kind: host, subnet, too broad, any, any written otherwise, unparsable,
\* and the subnet that begins with the target's address.
EXTENDS FirewallRules, TLC

CONSTANTS Outer, Inner

Host(a) == [addr |-> a, len |-> Bits, slash |-> FALSE]
Net(a, l) == [addr |-> a, len |-> l, slash |-> TRUE]

MC_Protocols == {"tcp", "udp"}
MC_Ports == 1..2

In(ev, rev, srcs, dst, proto, port) ==
    [direction |-> "inbound", evidence |-> ev, review |-> rev, source |-> srcs,
     destination |-> dst, protocol |-> proto, port |-> port]
Out(ev, rev, src, dst, port) ==
    [direction |-> "outbound", evidence |-> ev, review |-> rev, source |-> {src},
     destination |-> dst, protocol |-> "tcp", port |-> port]

MC_FlowPool ==
    {In("observed", FALSE, {Host(1)}, Host(4), "tcp", p) : p \in MC_Ports} \union
    {In("observed", FALSE, {Host(1)}, Host(4), "udp", 1),
     In("observed", TRUE, {Host(6)}, Host(4), "tcp", 1),
     In("observed", FALSE, {Host(6), Net(0, 1)}, Host(4), "tcp", 2),
     In("manual", FALSE, {Unparsable}, Host(4), "tcp", 2),
     In("observed", FALSE, {Unparsable}, Host(4), "tcp", 1),
     In("user-defined", FALSE, {Net(4, 2)}, Host(4), "tcp", 2),
     In("user-defined", FALSE, {Net(2, 0)}, Net(2, 0), "tcp", 2),
     In("user-defined", FALSE, {Host(1)}, Net(0, 0), "tcp", 2)} \union
    {Out("user-defined", FALSE, Host(4), d, 1) : d \in {Host(1), Net(0, 1), Net(2, 0)}} \union
    {Out("user-defined", FALSE, Net(2, 0), d, 1) : d \in {Host(1), Net(2, 0)}} \union
    {Out("user-defined", FALSE, Net(4, Bits), Host(1), 1),
     Out("inferred", TRUE, Host(4), Host(6), 2)}

List(s, d) == [source |-> s, destination |-> d]
Expected(srcs) == [host |-> 4, protocol |-> "tcp", port |-> 1, sources |-> srcs]

AllConfigs ==
    [hosts : {<<>>} \union {4 :> l : l \in {List({Host(1)}, {}), List({}, {Host(6)})}},
     zones : {Outer :> {Net(4, 1)} @@ Inner :> {Net(4, 2)}},
     zonePolicy : {Outer :> o @@ Inner :> i :
                     o \in {List(NoList, NoList), List({Net(0, 2)}, NoList)},
                     i \in {List(NoList, NoList), List({}, NoList),
                            List({Net(6, 2)}, {Net(0, 1)})}},
     global : {List(NoList, NoList), List({Host(1)}, {})},
     expected : {{}, {Expected({Net(1, Bits), Net(4, 2)})},
                 {Expected({Net(0, 1), Unparsable})}},
     strict : BOOLEAN, stateless : BOOLEAN, limit : {2}]

\* The lists of the host and those of expected_inbound are varied in turn.
MC_Configs == {c \in AllConfigs : c.hosts = <<>> \/ c.expected = {}}
===============================================================================
