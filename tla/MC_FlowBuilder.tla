---------------------------- MODULE MC_FlowBuilder ----------------------------
\* Reports of two hosts, the first of which may be listed twice with its
\* ports repeated in several states, and configurations that turn on each
\* part of the builder alone and all of them together.
EXTENDS FlowBuilder

MC_AddressOrder == <<"a", "b", "s", "v">>
MC_PortOrder == <<"tcp/443", "tcp/445", "tcp/3306", "tcp/8080", "udp/53">>
MC_RoleOrder == <<"Domain controller", "Web server", "Windows server">>
MC_Registry == [p \in ToSet(MC_PortOrder) |->
    CASE p = "tcp/3306" -> "" [] p = "tcp/443" -> "HTTPS" [] p = "tcp/445" -> "SMB"
      [] p = "tcp/8080" -> "Alternate HTTP" [] OTHER -> "DNS"]
MC_Alias == [m \in {"", "http", "https", "mysql", "domain", "http-proxy"} |->
    CASE m = "http" -> "HTTP" [] m = "https" -> "HTTPS" [] m = "mysql" -> "MySQL"
      [] m = "domain" -> "DNS" [] m = "http-proxy" -> "HTTP Proxy" [] OTHER -> ""]

\* b is below the threshold, v has two equal candidates.
MC_Scores == [a |-> [r \in {"Web server", "Windows server"} |-> IF r = "Web server" THEN 35 ELSE 120],
              b |-> [r \in {"Web server"} |-> 30],
              s |-> <<>>,
              v |-> [r \in {"Domain controller", "Web server"} |-> 45]]

Script(id, verdict, hint, mentions) == [id |-> id, verdict |-> verdict, hint |-> hint, mentions |-> mentions]
Weak == Script("ssl", "none", "tls", NoAddress)
Vulnerable == Script("vuln", "confirmed", "none", NoAddress)
Doubtful == Script("vuln", "potential", "none", NoAddress)
Naming == Script("dns", "informational", "none", "v")

Rec(port, state, name, probed, scripts) ==
    [port |-> port, state |-> state, sure |-> probed, name |-> name, probed |-> probed,
     ssl |-> name = "https", product |-> IF name = "mysql" THEN "end of life" ELSE "", scripts |-> scripts]
Records ==
    {Rec("tcp/443", "open", "https", TRUE, {Weak}), Rec("tcp/443", "open", "http", TRUE, {Vulnerable}),
     Rec("tcp/443", "open", "", FALSE, {}), Rec("tcp/443", "closed", "https", FALSE, {Doubtful}),
     Rec("udp/53", "open|filtered", "domain", FALSE, {Weak}),
     Rec("udp/53", "open|filtered", "domain", FALSE, {Naming, Vulnerable, Weak}),
     Rec("udp/53", "open", "", FALSE, {}), Rec("tcp/3306", "open", "mysql", TRUE, {})}

\* Nmap's table has another name for the port than the registry.
Proxy == Rec("tcp/8080", "open", "http-proxy", FALSE, {})

Element(ip, os, ports, scripts) == [ip |-> ip, os |-> os, ports |-> ports, scripts |-> scripts]
Singles == {<<r>> : r \in Records}
Pairs == {<<r, q>> : r, q \in Records}
SamePort == {p \in Pairs : p[1].port = p[2].port /\ p[1] # p[2]}
Other == Element("b", "windows", <<Rec("tcp/445", "open", "", TRUE, {}), Rec("tcp/443", "filtered", "", FALSE, {})>>,
                 {Script("nbt", "none", "none", "a")})

MC_Scans ==
    {<<Element("a", "", ports, {}), Other>> : ports \in Singles \union SamePort}
    \union {<<Other, Element("a", "", <<p[1]>>, {}), Element("a", "windows", <<p[2]>>, {Naming})>> : p \in Pairs}
    \union {<<Element(NoAddress, "", <<>>, {}), Element("s", "", s, {})>> : s \in Singles}
    \union {<<Element("a", "", <<Proxy>>, {}), Other>>, <<>>}

Host(role, deviceClass, purpose, approved, outbound, inbound) ==
    [role |-> role, deviceClass |-> deviceClass, purpose |-> purpose, approved |-> approved,
     outbound |-> outbound, inbound |-> inbound]
Entry(source, destination, port, purpose) ==
    [source |-> source, destination |-> destination, port |-> port, purpose |-> purpose]
Category(enabled) ==
    [enabled |-> enabled, protocols |-> {"udp"}, roles |-> {"Windows server"}, preferred |-> "tcp/443",
     fallback |-> <<"udp/514", "tcp/443">>]

Plain ==
    [scanner |-> "s", scannerZone |-> "", zones |-> [lan |-> {{"a", "b"}}, dmz |-> {{"a"}, {"s"}}],
     local |-> {"v"}, scope |-> "scanner-ip", strict |-> FALSE, openFiltered |-> TRUE, hosts |-> <<>>,
     always |-> {}, overrides |-> <<>>, defined |-> <<>>, networkOnly |-> FALSE,
     sourceOutbound |-> TRUE, destinationInbound |-> TRUE, infer |-> FALSE, threshold |-> 70,
     infra |-> <<>>, categories |-> [name \in DOMAIN InfraKey |-> Category(FALSE)]]

Hosts == [a |-> Host("", "", "web", "tcp/443" :> [approved |-> FALSE, purpose |-> "legacy"],
                     <<Entry("a", "b", "tcp/445", ""), Entry("a", "", "tcp/443", "")>>, FALSE),
          v |-> Host("Router", "network device", "", <<>>, <<>>, TRUE)]
Database == [a |-> Host("Web server", "printer", "db", "tcp/3306" :> [approved |-> TRUE, purpose |-> ""], <<>>, TRUE)]
Declarations == <<Entry("s", "a", "udp/53", "lookup"), Entry("s", "a", "tcp/443", "probe"),
                  Entry("a", "v", "tcp/443", "backup")>>
Servers == [backup_servers |-> <<"v", "a">>, patch_servers |-> <<"v", "b">>, domain_controllers |-> <<"b">>,
            dns_servers |-> <<"v", "v">>, ntp_servers |-> <<>>, logging_servers |-> <<"v", "b">>]

Declaring == [Plain EXCEPT !.hosts = Hosts, !.defined = Declarations]
Doubted == [Plain EXCEPT !.scannerZone = "lan", !.strict = TRUE]
Inferring == [Plain EXCEPT !.infer = TRUE, !.infra = Servers,
                           !.categories = [name \in DOMAIN InfraKey |-> Category(TRUE)]]

MC_Configs ==
    {Plain, Declaring, Doubted, Inferring,
     [Plain EXCEPT !.scanner = NoAddress, !.openFiltered = FALSE, !.always = {"MySQL", "https", "tcp/445", "HTTP Proxy"}],
     [Plain EXCEPT !.hosts = Database, !.overrides = <<[of |-> "MySQL", level |-> Medium], [of |-> "tcp/3306", level |-> Low]>>],
     [Doubted EXCEPT !.hosts = Hosts, !.always = {"HTTP"}],
     [Doubted EXCEPT !.scannerZone = "dmz", !.scope = "scanner-zone"],
     [Declaring EXCEPT !.networkOnly = TRUE, !.always = {"udp/53", "HTTPS"}],
     [Declaring EXCEPT !.destinationInbound = FALSE, !.sourceOutbound = FALSE],
     [Inferring EXCEPT !.hosts = Hosts, !.defined = Declarations, !.threshold = 52,
                       !.categories = [name \in DOMAIN InfraKey |-> [Category(name # "dns") EXCEPT !.preferred = ""]]]}
===============================================================================
