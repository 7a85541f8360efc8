----------------------------- MODULE ScanRecords ------------------------------
(***************************************************************************)
(* From the elements of an Nmap report to assessed service records, as     *)
(* functions: merging of duplicate ports and hosts (parser), the name of a *)
(* service (normalization), its risk, approval and policy review           *)
(* (risk_analysis), the zone of an address (config) and the role of a host *)
(* (role_inference).                                                       *)
(*                                                                         *)
(* A port, as "tcp/53", is a protocol and a number.  A port record is      *)
(*   [port, state, sure, name, probed, ssl, product, scripts]              *)
(* with scripts a set of [id, verdict, hint, mentions]: what the script    *)
(* says of vulnerability, the weakness it names ("service": an anonymous   *)
(* login, a default community; "tls": a weak cipher), and the address its  *)
(* output names.                                                           *)
(***************************************************************************)
EXTENDS Naturals, Sequences, SequencesExt

CONSTANTS
    Registry,        \* port -> the registered service, "" if none
    Alias,           \* Nmap's service name -> its normalized name, "" if unidentified
    RoleOrder,       \* the roles in alphabetical order
    NoAddress        \* no address: no scanner, nothing mentioned

-------------------------------------------------------------------------------
(* parser: duplicates.                                                     *)

If(condition, value) == IF condition THEN value ELSE 0

\* f with the value v for x.
With(f, x, v) == [y \in DOMAIN f \union {x} |-> IF y = x THEN v ELSE f[y]]

Richness(rec) ==
    If(rec.state = "open", 4) + If(rec.name # "", 2)
    + Min({Cardinality(rec.scripts), 3}) + If(rec.product # "", 1)

\* The scripts of the record that is dropped go with it.
MergePort_DropScripts(old, rec) == IF Richness(rec) > Richness(old) THEN rec ELSE old

\* The richer record is kept, the first of two equals, with the scripts of
\* the other whose ids it has not.
MergePort(old, rec) ==
    LET richer == Richness(rec) > Richness(old)
        keep == IF richer THEN rec ELSE old
        drop == IF richer THEN old ELSE rec
    IN [keep EXCEPT !.scripts = @ \union {s \in drop.scripts : \A k \in @ : k.id # s.id}]

AddPort(ports, rec) ==
    IF rec.port \in DOMAIN ports
    THEN [ports EXCEPT ![rec.port] = MergePort(@, rec)]
    ELSE With(ports, rec.port, rec)

\* A host element: [ip, os, ports (a sequence), scripts].
BuildHost(element) ==
    [os |-> element.os, ports |-> FoldLeft(AddPort, <<>>, element.ports), scripts |-> element.scripts]

\* A duplicate host brings its ports, its OS if there was none, and its new
\* host scripts.
MergeHost(base, extra) ==
    [os |-> IF base.os = "" THEN extra.os ELSE base.os,
     ports |-> [p \in DOMAIN base.ports \union DOMAIN extra.ports |->
                  CASE p \notin DOMAIN extra.ports -> base.ports[p]
                    [] p \notin DOMAIN base.ports -> extra.ports[p]
                    [] OTHER -> MergePort(base.ports[p], extra.ports[p])],
     scripts |-> base.scripts \union
                   {s \in extra.scripts : \A k \in base.scripts : k.id # s.id}]

ParseHost(hosts, element) ==
    CASE element.ip = NoAddress -> hosts
      [] element.ip \in DOMAIN hosts ->
           [hosts EXCEPT ![element.ip] = MergeHost(@, BuildHost(element))]
      [] OTHER -> With(hosts, element.ip, BuildHost(element))

-------------------------------------------------------------------------------
(* normalization.                                                          *)

EquivalentGroups ==
    {{"HTTP", "Alternate HTTP", "HTTP Proxy"},
     {"HTTPS", "Alternate HTTPS", "Proxmox Management", "WinRM HTTPS"},
     {"SMB", "NetBIOS Session"}, {"LDAP", "LDAP Global Catalog"},
     {"Syslog", "Syslog over TLS"}, {"SMTP", "SMTP Submission"}}
Equivalent(a, b) == a = b \/ \E g \in EquivalentGroups : {a, b} \subseteq g

NormalizeDetected(rec) ==
    IF rec.ssl /\ Alias[rec.name] = "HTTP" THEN "HTTPS" ELSE Alias[rec.name]

\* What Nmap probed is preferred to the registry, the registry to Nmap's table.
Normalize(rec) ==
    LET expected == Registry[rec.port]
        detected == NormalizeDetected(rec)
        named == {n \in {expected, detected} : n # ""}
    IN [expected |-> expected, detected |-> detected,
        final |-> CASE detected # "" /\ rec.probed -> detected
                    [] named = {} -> "Unknown"
                    [] OTHER -> IF expected # "" THEN expected ELSE detected,
        mismatch |-> expected # "" /\ detected # "" /\ rec.probed /\ ~Equivalent(expected, detected)]

-------------------------------------------------------------------------------
(* config: approvals, networks and zones.  A network is a set of addresses; *)
(* two networks are nested or disjoint.                                     *)

Nested(m, n) == m \subseteq n \/ n \subseteq m \/ m \intersect n = {}
Uncontradicted(zones) ==
    \A y, z \in DOMAIN zones : \A m \in zones[y], n \in zones[z] :
        Nested(m, n) /\ (y # z => m # n)

\* The zone of the longest prefix that contains the address, "" if none.
MappedZone(c, a) ==
    LET nets == {n \in [zone : DOMAIN c.zones, net : UNION {c.zones[z] : z \in DOMAIN c.zones}] :
                   n.net \in c.zones[n.zone] /\ a \in n.net}
    IN IF nets = {} THEN ""
       ELSE (CHOOSE n \in nets : \A m \in nets : n.net \subseteq m.net).zone

ZoneForIp(c, a) ==
    LET scanner == a = c.scanner /\ a # NoAddress /\ c.scannerZone # ""
    IN CASE scanner -> c.scannerZone
         [] ~scanner /\ MappedZone(c, a) # "" -> MappedZone(c, a)
         [] OTHER -> IF a \in c.local THEN "Internal" ELSE "Unknown"

Configured(c, a) == a \in DOMAIN c.hosts
Approvals(c, a) == IF Configured(c, a) THEN c.hosts[a].approved ELSE <<>>
ApprovedEntry(c, a, port) == port \in DOMAIN Approvals(c, a)

\* As the service inventory reports it.
Approved(c, a, port) ==
    CASE ApprovedEntry(c, a, port) -> IF Approvals(c, a)[port].approved THEN "yes" ELSE "no"
      [] ~ApprovedEntry(c, a, port) /\ DOMAIN Approvals(c, a) # {} -> "no"
      [] OTHER -> "not specified"

-------------------------------------------------------------------------------
(* risk_analysis.                                                          *)

Informational == 0
Low == 1
Medium == 2
High == 3
Critical == 4

Databases == {"Microsoft SQL Server", "Oracle", "MySQL", "PostgreSQL", "MS SQL Browser"}
InfraDevices == {"network device", "security appliance", "printer", "storage device", "hypervisor"}
InfraRoles == {"Network switch", "Router", "Firewall", "Wireless access point", "Printer",
               "Storage appliance", "Hypervisor", "Virtualization management server"}

\* What the name of an open service alone is worth.
Exposure(service, ssl) ==
    CASE service \in {"Telnet", "Proxmox Management", "VMware Management"} -> High
      [] service \in {"HTTP", "Alternate HTTP", "SMB", "NetBIOS Session", "SNMP", "SNMP Trap",
                      "RDP", "NFS", "LDAP", "MS RPC", "RPCbind", "LPD Print", "IPP Print",
                      "Raw Print", "WinRM HTTP", "VNC", "Unknown"} -> Medium
      [] service = "FTP" -> IF ssl THEN Low ELSE Medium
      [] OTHER -> Low

\* A weakness a script names counts for the services the rules name.
Hinted(service, ssl, hint) ==
    \/ hint = "tls" /\ ssl
    \/ hint = "service" /\ service \in {"SMB", "NetBIOS Session", "SNMP", "SNMP Trap"}
    \/ hint = "service" /\ service = "FTP" /\ ~ssl

\* script_vuln_category, as the level it raises a port to.
Verdict == [confirmed |-> Critical, likely |-> High, potential |-> Medium,
            undetermined |-> Low, informational |-> Low, none |-> Low]

\* The levels the rules of assess_port name for an open port.
Indicators(c, a, host, rec, norm) ==
    {Low, Exposure(norm.final, rec.ssl)}
    \union {Verdict[s.verdict] : s \in rec.scripts}
    \union {High : s \in {t \in rec.scripts : Hinted(norm.final, rec.ssl, t.hint)}}
    \union (IF norm.mismatch THEN {Medium} ELSE {})
    \union (IF rec.product = "end of life" THEN {High} ELSE {})
    \union (IF /\ norm.final \in {"HTTP", "Alternate HTTP"}
               /\ host.deviceClass \in InfraDevices \/ host.role \in InfraRoles
            THEN {High} ELSE {})
    \union (IF norm.final \in {"HTTPS", "Alternate HTTPS"} /\ rec.product = "management"
            THEN {High} ELSE {})
    \union (IF norm.final \in Databases
            THEN {IF ApprovedEntry(c, a, rec.port) THEN Medium ELSE High} ELSE {})

\* The highest of them, but the last matching override wins.
AssessPort(c, a, host, rec, norm) ==
    LET matching == {i \in DOMAIN c.overrides : c.overrides[i].of \in {rec.port, norm.final}}
    IN CASE rec.state # "open" -> Informational
         [] rec.state = "open" /\ matching # {} -> c.overrides[Max(matching)].level
         [] OTHER -> Max(Indicators(c, a, host, rec, norm))

\* always_manual_review, by port or by one of the service's names.
AlwaysReview(c, port, names) == \E entry \in c.always : entry \in {port} \union names

ServiceRecord(c, a, host, rec) ==
    LET norm == Normalize(rec)
    IN [ip |-> a, port |-> rec.port, state |-> rec.state, sure |-> rec.sure,
        raw |-> rec.name, final |-> norm.final, expected |-> norm.expected,
        mismatch |-> norm.mismatch, scripts |-> {s.id : s \in rec.scripts},
        risk |-> AssessPort(c, a, host, rec, norm), approved |-> Approved(c, a, rec.port),
        evidence |-> CASE rec.state = "open" -> "Observed"
                       [] rec.state = "open|filtered" -> "Manual Review Required"
                       [] OTHER -> "Unknown"]

-------------------------------------------------------------------------------
(* role_inference.  The score of a role is the sum of its evidence.        *)

Threshold == 40
Margin == 10

\* A configured role wins; else the best score, the first by name of equals,
\* if it reaches the threshold.  Rivals within the margin are reported.
InferRole(configured, scores) ==
    LET capped(r) == Min({100, scores[r]})
        best == CHOOSE i \in DOMAIN RoleOrder :
                  /\ RoleOrder[i] \in DOMAIN scores
                  /\ \A j \in DOMAIN RoleOrder :
                       RoleOrder[j] \in DOMAIN scores =>
                         \/ capped(RoleOrder[i]) > capped(RoleOrder[j])
                         \/ capped(RoleOrder[i]) = capped(RoleOrder[j]) /\ i <= j
        top == RoleOrder[best]
        rivals == {r \in DOMAIN scores \ {top} :
                     scores[r] > 0 /\ capped(top) <= capped(r) + Margin}
        found(role, rs) == [role |-> role, configured |-> FALSE, rivals |-> rs]
    IN CASE configured # "" -> [role |-> configured, configured |-> TRUE, rivals |-> {}]
         [] configured = "" /\ DOMAIN scores = {} -> found("Unknown", {})
         [] OTHER -> IF capped(top) < Threshold THEN found("Unknown", rivals) ELSE found(top, rivals)
===============================================================================
