----------------------------- MODULE FlowBuilder ------------------------------
(***************************************************************************)
(* The builder of flow_analysis.py on the hosts of one Nmap report: the    *)
(* report's elements are merged, hosts get zones and roles, then flows are *)
(* made of open ports (Observed), of declarations (User-Defined) and of    *)
(* infrastructure roles (Inferred), and of flows with one key the best is  *)
(* kept.  Each loop of the code takes one step per iteration.              *)
(*                                                                         *)
(* A configuration is a record with the fields of AnalyzerConfig and       *)
(* AnalysisOptions that the builder reads:                                 *)
(*   scanner, scannerZone, zones, local, scope, strict, openFiltered,      *)
(*   hosts       address -> [role, deviceClass, purpose, approved          *)
(*               (port -> [approved, purpose]), outbound, inbound]         *)
(*   always, overrides, defined, networkOnly, sourceOutbound,              *)
(*   destinationInbound, infer, threshold, infra (key -> sequence of       *)
(*   servers), categories (category -> [enabled, protocols, roles,         *)
(*   preferred, fallback])                                                 *)
(* where a declaration of defined or outbound is                           *)
(* [source, destination, port, purpose].                                   *)
(***************************************************************************)
EXTENDS ScanRecords

CONSTANTS
    Scans,           \* the reports: sequences of host elements
    Configs,         \* the configurations
    Scores,          \* address -> role -> score, what role_inference's rules add up to
    AddressOrder,    \* the addresses, sorted
    PortOrder,       \* the ports, sorted
    Unparsable       \* an endpoint that is neither an IP nor a CIDR; load_config refuses it

\* s is a sequence, of whatever elements.
IsSequence(s) == s \in Seq(ToSet(s))

ASSUME OrdersAssumption == IsSequence(AddressOrder) /\ IsSequence(PortOrder)

\* The reports name addresses and ports of the orders; script_vuln_category
\* gives one of the verdicts.
ASSUME ScansAssumption ==
    \A s \in Scans : IsSequence(s) /\ \A e \in ToSet(s) :
        /\ e.ip \in ToSet(AddressOrder) \union {NoAddress}
        /\ IsSequence(e.ports)
        /\ \A r \in ToSet(e.ports) :
             /\ {"port", "state", "scripts"} \subseteq DOMAIN r
             /\ r.port \in ToSet(PortOrder)
             /\ \A t \in r.scripts : t.verdict \in DOMAIN Verdict

\* load_config: no network is in two zones, and networks nest or are disjoint;
\* what a host is expected to send leaves from its own address.
ASSUME ConfigsAssumption ==
    \A c \in Configs :
        /\ Uncontradicted(c.zones)
        /\ IsSequence(c.defined)
        /\ \A a \in DOMAIN c.hosts :
             /\ IsSequence(c.hosts[a].outbound)
             /\ \A e \in ToSet(c.hosts[a].outbound) : e.source = a
        /\ \A key \in DOMAIN c.infra : IsSequence(c.infra[key])
        /\ IsSequence(c.categories["logging"].fallback)

VARIABLES
    scan, config,    \* the inputs
    phase, n,        \* the loop, and the iterations it has made
    hosts,           \* address -> host
    records,         \* the service inventory
    flows,           \* self.flows until they are merged
    reviews,         \* self.reviews: [category, of] with what the item is about
    emitted,         \* keys of the inferred flows
    best             \* key -> flow; its flows are the result

vars == <<scan, config, phase, n, hosts, records, flows, reviews, emitted, best>>
inputs == <<scan, config>>

Phases == {"parse", "observe", "define", "expect", "infer", "crossref", "dedupe", "done"}

Priority == [e \in {"Observed", "User-Defined", "Inferred", "Manual Review Required", "Unknown"} |->
               CASE e = "Observed" -> 4 [] e = "User-Defined" -> 3 [] e = "Inferred" -> 2
                 [] e = "Manual Review Required" -> 1 [] OTHER -> 0]
Rank(f) == <<Priority[f.evidence], f.confidence>>
Higher(r, q) == r[1] > q[1] \/ (r[1] = q[1] /\ r[2] > q[2])
Key(f) == <<f.source, f.destination, f.port, f.direction>>

Init ==
    /\ scan \in Scans /\ config \in Configs
    /\ phase = "parse" /\ n = 0
    /\ hosts = <<>> /\ records = <<>> /\ flows = <<>> /\ reviews = {} /\ emitted = {} /\ best = <<>>

\* The next iteration of the loop over the sequence, or the next loop.
In(p, sequence) == phase = p /\ n < Len(sequence) /\ n' = n + 1 /\ UNCHANGED <<phase, inputs>>
Leave(p, q, sequence) == phase = p /\ n = Len(sequence) /\ n' = 0 /\ phase' = q /\ UNCHANGED inputs
Review(category, of) == [category |-> category, of |-> of]

\* The elements of a sequence that are in S, in their order.
Among(sequence, S) ==
    FlattenSeq([i \in DOMAIN sequence |-> IF sequence[i] \in S THEN <<sequence[i]>> ELSE <<>>])

-------------------------------------------------------------------------------
(* The report and its hosts.                                               *)

Parse ==
    /\ In("parse", scan)
    /\ hosts' = ParseHost(hosts, scan[n + 1])
    /\ UNCHANGED <<records, flows, reviews, emitted, best>>

\* Configuration metadata and the inferred role of every host.
Enriched(a, host) ==
    LET given == Configured(config, a)
        role == InferRole(IF given THEN config.hosts[a].role ELSE "", Scores[a])
    IN [os |-> host.os, ports |-> host.ports, scripts |-> host.scripts,
        zone |-> ZoneForIp(config, a),
        role |-> role.role, roleConfigured |-> role.configured,
        deviceClass |-> IF given THEN config.hosts[a].deviceClass ELSE "",
        purpose |-> IF given THEN config.hosts[a].purpose ELSE ""]

\* --scanner-zone disagrees with the zone the networks give the scanner.
ZoneConflict ==
    /\ config.scanner # NoAddress /\ config.scannerZone # ""
    /\ MappedZone(config, config.scanner) \notin {"", config.scannerZone}

\* (value, zone) of the source of observed flows.
Scanner ==
    LET byZone == /\ config.scope = "scanner-zone" /\ config.scannerZone \in DOMAIN config.zones
                  /\ config.zones[config.scannerZone] # {}
    IN CASE config.scanner = NoAddress -> "unknown"
         [] config.scanner # NoAddress /\ byZone -> config.scannerZone
         [] OTHER -> config.scanner

\* The service inventory: every port of every host.
Known == Among(AddressOrder, DOMAIN hosts)
Inventory(known) ==
    LET ports(a) == Among(PortOrder, DOMAIN known[a].ports)
        service(a) == [i \in DOMAIN ports(a) |->
                         ServiceRecord(config, a, known[a], known[a].ports[ports(a)[i]])]
    IN FlattenSeq([i \in DOMAIN Known |-> service(Known[i])])

\* The hosts are completed, the services listed and the source determined.
Enrich ==
    /\ Leave("parse", "observe", scan)
    /\ hosts' = [a \in DOMAIN hosts |-> Enriched(a, hosts[a])]
    /\ records' = Inventory(hosts')
    /\ reviews' = reviews
         \union (IF ZoneConflict THEN {Review("Scan metadata", <<"zone">>)} ELSE {})
         \union (IF config.scanner = NoAddress THEN {Review("Scan metadata", <<"scanner">>)} ELSE {})
    /\ UNCHANGED <<flows, emitted, best>>

-------------------------------------------------------------------------------
(* Evidence.                                                               *)

\* compose_flow_evidence: one doubtful component makes the flow doubtful.
ComposeEvidence(service, source, destination) ==
    LET parts == {service, source, destination} \ {""}
    IN CASE parts = {} -> {"Unknown"}
         [] "Manual Review Required" \in parts -> {"Manual Review Required"}
         [] service = "Unknown" /\ "Inferred" \in parts -> {"Manual Review Required"}
         [] OTHER -> parts

RoleEvidence(a) ==
    CASE a \notin DOMAIN hosts -> ""
      [] a \in DOMAIN hosts /\ hosts[a].roleConfigured -> "User-Defined"
      [] OTHER -> IF hosts[a].role # "Unknown" THEN "Inferred" ELSE "Unknown"

FinalizeEvidence(f, a) ==
    [f EXCEPT !.roleEvidence = RoleEvidence(a),
              !.flowEvidence = ComposeEvidence(f.serviceEvidence, f.sourceEvidence, f.destinationEvidence)]

-------------------------------------------------------------------------------
(* Observed flows.                                                         *)

SourceEvidence ==
    CASE Scanner = "unknown" -> "Manual Review Required"
      [] config.scope = "scanner-zone" /\ Scanner \in DOMAIN config.zones
           /\ Cardinality(config.zones[Scanner]) > 1 -> "User-Defined"
      [] OTHER -> "Observed"

\* The policy clears a reason found before it.
OpenReason_PolicyOnly(sr) ==
    IF AlwaysReview(config, sr.port, {sr.final, sr.expected, sr.raw}) THEN "policy" ELSE ""

\* Why an open service is withheld, "" if it is not; a later reason of the
\* code replaces an earlier one but for the policy, which only fills in.
OpenReason(sr) ==
    CASE sr.approved = "no" -> "approval"
      [] sr.approved # "no" /\ ZoneConflict /\ config.strict -> "zone"
      [] OTHER -> IF AlwaysReview(config, sr.port, {sr.final, sr.expected, sr.raw})
                  THEN "policy" ELSE ""

\* The entry of the approval list gives the purpose, else the host does.
OpenPurpose(sr) ==
    LET entry == IF ApprovedEntry(config, sr.ip, sr.port)
                 THEN Approvals(config, sr.ip)[sr.port].purpose ELSE ""
    IN IF entry # "" THEN entry ELSE hosts[sr.ip].purpose

OpenFlow(sr) ==
    FinalizeEvidence(
        [source |-> Scanner, destination |-> sr.ip, port |-> sr.port, direction |-> "inbound",
         perspective |-> "destination-inbound", service |-> sr.final,
         evidence |-> "Observed", confidence |-> IF sr.sure THEN 90 ELSE 75,
         reason |-> OpenReason(sr), risk |-> sr.risk, scripts |-> sr.scripts,
         purpose |-> OpenPurpose(sr),
         purposeEvidence |-> IF OpenPurpose(sr) # "" THEN "User-Defined" ELSE "",
         serviceEvidence |-> "Observed", sourceEvidence |-> SourceEvidence,
         destinationEvidence |-> "Observed", roleEvidence |-> "", flowEvidence |-> {}], sr.ip)

OpenReviews(sr) ==
    {Review(category, <<sr.ip, sr.port>>) : category \in
        (IF sr.approved = "no" THEN {"Unapproved service"} ELSE {})
        \union (IF AlwaysReview(config, sr.port, {sr.final, sr.expected, sr.raw})
                THEN {"Policy: always review"} ELSE {})
        \union (IF sr.mismatch THEN {"Service mismatch"} ELSE {})}

\* A port that may be open is taken for an open one.
UncertainFlow_Open(sr) == OpenFlow(sr)

\* open|filtered: reported, and a flow that waits for review on request.
UncertainFlow(sr) ==
    FinalizeEvidence(
        [source |-> Scanner, destination |-> sr.ip, port |-> sr.port, direction |-> "inbound",
         perspective |-> "destination-inbound", service |-> sr.final,
         evidence |-> "Manual Review Required", confidence |-> 25,
         reason |-> "uncertain", risk |-> sr.risk, scripts |-> sr.scripts,
         purpose |-> hosts[sr.ip].purpose, purposeEvidence |-> "",
         serviceEvidence |-> "Manual Review Required",
         sourceEvidence |-> IF Scanner = "unknown" THEN "Manual Review Required" ELSE "Observed",
         destinationEvidence |-> "Observed", roleEvidence |-> "", flowEvidence |-> {}], sr.ip)

\* One record of the inventory; other states make nothing.
Observe ==
    /\ In("observe", records)
    /\ LET sr == records[n + 1]
           uncertain == sr.state = "open|filtered"
           made == CASE sr.state = "open" -> <<OpenFlow(sr)>>
                     [] uncertain /\ config.openFiltered -> <<UncertainFlow(sr)>>
                     [] OTHER -> <<>>
       IN /\ flows' = flows \o made
          /\ reviews' = reviews \union
               (IF sr.state = "open" THEN OpenReviews(sr) ELSE {}) \union
               (IF uncertain THEN {Review("Uncertain port state", <<sr.ip, sr.port>>)} ELSE {})
    /\ UNCHANGED <<hosts, records, emitted, best>>

ToDefinitions == Leave("observe", "define", records) /\ UNCHANGED <<hosts, records, flows, reviews, emitted, best>>

-------------------------------------------------------------------------------
(* Declared flows.                                                         *)

ConfigFlow(entry, direction, perspective) ==
    FinalizeEvidence(
        [source |-> entry.source, destination |-> entry.destination, port |-> entry.port,
         direction |-> direction, perspective |-> perspective,
         service |-> IF Registry[entry.port] # "" THEN Registry[entry.port] ELSE "Unknown",
         evidence |-> "User-Defined", confidence |-> 80, reason |-> "",
         risk |-> Low, scripts |-> {}, purpose |-> entry.purpose,
         purposeEvidence |-> IF entry.purpose # "" THEN "User-Defined" ELSE "",
         serviceEvidence |-> "User-Defined", sourceEvidence |-> "User-Defined",
         destinationEvidence |-> "User-Defined", roleEvidence |-> "", flowEvidence |-> {}],
        IF direction = "outbound" THEN entry.source ELSE entry.destination)

Resolvable(entry) == Unparsable \notin {entry.source, entry.destination}

\* The sides a declaration is enforced on.
Perspectives ==
    IF config.networkOnly THEN <<<<"inbound", "network">>>>
    ELSE (IF config.sourceOutbound THEN <<<<"outbound", "source-outbound">>>> ELSE <<>>)
         \o (IF config.destinationInbound THEN <<<<"inbound", "destination-inbound">>>> ELSE <<>>)

EmitConfigFlow(entry) ==
    IF Resolvable(entry)
    THEN [i \in DOMAIN Perspectives |-> ConfigFlow(entry, Perspectives[i][1], Perspectives[i][2])]
    ELSE <<>>

EmitReviews(entry) ==
    LET about == <<entry.source, entry.destination>>
    IN CASE ~Resolvable(entry) -> {Review("Unresolvable defined flow", about)}
         [] Resolvable(entry) /\ Perspectives = <<>> -> {Review("Configuration", about)}
         [] OTHER -> {}

Define ==
    /\ In("define", config.defined)
    /\ flows' = flows \o EmitConfigFlow(config.defined[n + 1])
    /\ reviews' = reviews \union EmitReviews(config.defined[n + 1])
    /\ UNCHANGED <<hosts, records, emitted, best>>

ToExpectations ==
    Leave("define", "expect", config.defined)
    /\ UNCHANGED <<hosts, records, flows, reviews, emitted, best>>

\* The expected traffic of one configured host, and whether it was scanned.
ConfiguredHosts == Among(AddressOrder, DOMAIN config.hosts)
Expect ==
    /\ In("expect", ConfiguredHosts)
    /\ LET a == ConfiguredHosts[n + 1]
           outbound == config.hosts[a].outbound
           expected == Among(outbound, {e \in ToSet(outbound) : e.destination # ""})
           drifted == a \notin DOMAIN hosts
                      /\ (config.hosts[a].inbound \/ outbound # <<>>)
       IN /\ flows' = flows \o FlattenSeq([i \in DOMAIN expected |-> EmitConfigFlow(expected[i])])
          /\ reviews' = reviews
               \union UNION {EmitReviews(expected[i]) : i \in DOMAIN expected}
               \union (IF drifted THEN {Review("Configuration drift", <<a>>)} ELSE {})
    /\ UNCHANGED <<hosts, records, emitted, best>>

ToInference ==
    Leave("expect", "infer", ConfiguredHosts)
    /\ UNCHANGED <<hosts, records, flows, reviews, emitted, best>>

-------------------------------------------------------------------------------
(* Inferred flows.                                                         *)

IsWindows(h) ==
    \/ h.os = "windows"
    \/ h.role \in {"Domain controller", "Windows server"}
    \/ \E p \in DOMAIN h.ports \intersect {"tcp/135", "tcp/445"} : h.ports[p].state = "open"

IsServer(h) == h.deviceClass \notin {"workstation", "printer"} /\ h.role # "Workstation"

AdApplies(h, roles) ==
    \/ h.role \in roles
    \/ /\ IsWindows(h)
       /\ \/ (IF IsServer(h) THEN "Windows server" ELSE "Windows workstation") \in roles
          \/ "Windows" \in roles

CategoryOrder == <<"active_directory", "backup", "dns", "logging", "ntp", "patch_management">>
InfraKey == [active_directory |-> "domain_controllers", backup |-> "backup_servers",
             dns |-> "dns_servers", logging |-> "logging_servers", ntp |-> "ntp_servers",
             patch_management |-> "patch_servers"]

Transport(port, service, confidence) == [port |-> port, service |-> service, confidence |-> confidence]
Transports ==
    [active_directory |-> <<Transport("tcp/88", "Kerberos", 75), Transport("tcp/389", "LDAP", 75),
                            Transport("tcp/445", "SMB", 75), Transport("tcp/135", "MS RPC", 70)>>,
     backup |-> <<Transport("tcp/443", "HTTPS", 50)>>,
     ntp |-> <<Transport("udp/123", "NTP", 72)>>,
     patch_management |-> <<Transport("tcp/443", "HTTPS", 55)>>]
Dns == [udp |-> Transport("udp/53", "DNS", 75), tcp |-> Transport("tcp/53", "DNS", 70)]

CategoryTransports(name, cat) ==
    CASE name = "logging" ->
           <<Transport(IF cat.preferred # "" THEN cat.preferred ELSE "tcp/6514", "Syslog", 72)>>
           \o [i \in DOMAIN cat.fallback |-> Transport(cat.fallback[i], "Syslog", 60)]
      [] name = "dns" ->
           LET wanted == Among(<<"udp", "tcp">>, IF cat.protocols = {} THEN DOMAIN Dns ELSE cat.protocols)
           IN [i \in DOMAIN wanted |-> Dns[wanted[i]]]
      [] OTHER -> Transports[name]

Clients == DOMAIN hosts \ {config.scanner}
Applicable(name) ==
    Among(AddressOrder, {a \in Clients : name = "active_directory"
                                           => AdApplies(hosts[a], config.categories[name].roles)})

InferredFlow(client, server, transport) ==
    FinalizeEvidence(
        [source |-> client, destination |-> server, port |-> transport.port,
         direction |-> "outbound", perspective |-> "source-outbound", service |-> transport.service,
         evidence |-> "Inferred", confidence |-> transport.confidence,
         reason |-> IF transport.confidence < config.threshold THEN "confidence" ELSE "",
         risk |-> Low, scripts |-> {}, purpose |-> transport.service, purposeEvidence |-> "Inferred",
         serviceEvidence |-> "Inferred", sourceEvidence |-> "Observed",
         destinationEvidence |-> "User-Defined", roleEvidence |-> "", flowEvidence |-> {}], client)

\* Every category makes its flow.
AddInferred_Again(acc, f) ==
    IF f.source = f.destination THEN acc
    ELSE [flows |-> Append(acc.flows, f),
          emitted |-> acc.emitted \union {<<f.source, f.destination, f.port>>}]

\* The first category with a dependency makes its flow; no host depends on itself.
AddInferred(acc, f) ==
    IF f.source = f.destination \/ <<f.source, f.destination, f.port>> \in acc.emitted THEN acc
    ELSE [flows |-> Append(acc.flows, f),
          emitted |-> acc.emitted \union {<<f.source, f.destination, f.port>>}]

Dependencies(name) ==
    LET clients == Applicable(name)
        servers == config.infra[InfraKey[name]]
        transports == CategoryTransports(name, config.categories[name])
    IN FlattenSeq([i \in DOMAIN clients |-> FlattenSeq([j \in DOMAIN servers |->
         [k \in DOMAIN transports |-> InferredFlow(clients[i], servers[j], transports[k])]])])

\* One category; without a server it is reported if its key is configured.
InferenceLoop == IF config.infer THEN CategoryOrder ELSE <<>>
Infer ==
    /\ In("infer", InferenceLoop)
    /\ LET name == CategoryOrder[n + 1]
           enabled == config.categories[name].enabled
           configured == InfraKey[name] \in DOMAIN config.infra
           servers == IF configured THEN config.infra[InfraKey[name]] ELSE <<>>
           made == IF enabled /\ servers # <<>>
                   THEN FoldLeft(AddInferred, [flows |-> flows, emitted |-> emitted], Dependencies(name))
                   ELSE [flows |-> flows, emitted |-> emitted]
       IN /\ flows' = made.flows /\ emitted' = made.emitted
          /\ reviews' = reviews \union
               (IF enabled /\ configured /\ servers = <<>> /\ Applicable(name) # <<>>
                THEN {Review("Unresolved inferred dependency", <<name>>)} ELSE {})
    /\ UNCHANGED <<hosts, records, best>>

ToCrossReferences ==
    Leave("infer", "crossref", InferenceLoop)
    /\ UNCHANGED <<hosts, records, flows, reviews, emitted, best>>

\* Scripts of one host that name another: reviewed, never a flow.
CrossReference ==
    /\ In("crossref", Known)
    /\ LET a == Known[n + 1]
           scripts == hosts[a].scripts
                        \union UNION {hosts[a].ports[p].scripts : p \in DOMAIN hosts[a].ports}
           servers == UNION {ToSet(config.infra[k]) : k \in DOMAIN config.infra}
           interesting == (DOMAIN hosts \union servers) \ {a, config.scanner}
       IN reviews' = reviews \union {Review("NSE cross-reference", <<a, s.id, s.mentions>>) :
                                       s \in {t \in scripts : t.mentions \in interesting}}
    /\ UNCHANGED <<hosts, records, flows, emitted, best>>

ToMerging ==
    Leave("crossref", "dedupe", Known)
    /\ UNCHANGED <<hosts, records, flows, reviews, emitted, best>>

-------------------------------------------------------------------------------
(* The best flow of each key.                                              *)

Merged(keep, drop) ==
    [keep EXCEPT !.scripts = @ \union drop.scripts, !.purpose = IF @ = "" THEN drop.purpose ELSE @]

\* The first flow of a key stays, whatever follows.
Better_First(f, g) == Merged(g, f)

Better(f, g) == IF Higher(Rank(f), Rank(g)) THEN Merged(f, g) ELSE Merged(g, f)

Dedupe ==
    /\ In("dedupe", flows)
    /\ LET f == flows[n + 1]
       IN best' = With(best, Key(f), IF Key(f) \in DOMAIN best THEN Better(f, best[Key(f)]) ELSE f)
    /\ UNCHANGED <<hosts, records, flows, reviews, emitted>>

Finish == Leave("dedupe", "done", flows) /\ UNCHANGED <<hosts, records, flows, reviews, emitted, best>>

Next ==
    \/ Parse \/ Enrich \/ Observe \/ ToDefinitions \/ Define \/ ToExpectations \/ Expect
    \/ ToInference \/ Infer \/ ToCrossReferences \/ CrossReference \/ ToMerging \/ Dedupe \/ Finish

Spec == Init /\ [][Next]_vars

-------------------------------------------------------------------------------
(* Properties.                                                             *)

\* What the elements of the report say of a port.
Reports(a, p) ==
    UNION {{r \in ToSet(scan[i].ports) : r.port = p} : i \in {j \in DOMAIN scan : scan[j].ip = a}}

\* A declaration of the configuration.
Declared(source, destination, port) ==
    \/ \E i \in DOMAIN config.defined :
         LET e == config.defined[i]
         IN e.source = source /\ e.destination = destination /\ e.port = port
    \/ /\ Configured(config, source)
       /\ \E i \in DOMAIN config.hosts[source].outbound :
            LET e == config.hosts[source].outbound[i]
            IN e.destination = destination /\ e.port = port

Results == {best[k] : k \in DOMAIN best}

\* Every flow of the result has its ground: an observed one goes from the
\* scanner to a port the report says is open, a doubtful one to a port the
\* report says may be, others are declared, or lead from a scanned host,
\* not the scanner, to another that is the server of an enabled category,
\* and are made once (the accuracy rules at the head of flow_analysis.py).
NothingInvented ==
    phase = "done" => \A f \in Results :
        CASE f.evidence = "Observed" ->
               f.source = Scanner /\ \E r \in Reports(f.destination, f.port) : r.state = "open"
          [] f.evidence = "Manual Review Required" ->
               /\ f.source = Scanner /\ config.openFiltered
               /\ \E r \in Reports(f.destination, f.port) : r.state = "open|filtered"
          [] f.evidence = "User-Defined" -> Declared(f.source, f.destination, f.port)
          [] f.evidence = "Inferred" ->
               /\ config.infer /\ f.source \in DOMAIN hosts \ {config.scanner, f.destination}
               /\ \E name \in DOMAIN InfraKey :
                    /\ config.categories[name].enabled
                    /\ InfraKey[name] \in DOMAIN config.infra
                    /\ f.destination \in ToSet(config.infra[InfraKey[name]])
               /\ \A i, j \in DOMAIN flows : Key(flows[i]) = Key(f) /\ Key(flows[j]) = Key(f) => i = j

\* A port all of whose records say open|filtered is reported for review and
\* never becomes an observed flow, whatever the configuration.  (Of records
\* in several states the richer one gives the state: see EvidenceKept.)
UncertainReviewed ==
    phase = "done" => \A a \in DOMAIN hosts : \A p \in DOMAIN hosts[a].ports :
        (\A r \in Reports(a, p) : r.state = "open|filtered") =>
            /\ Review("Uncertain port state", <<a, p>>) \in reviews
            /\ \A f \in Results : f.destination = a /\ f.port = p => f.evidence # "Observed"

\* The service of a port must not be let through unseen: the host's approval
\* list has not got it or refuses it, its source is in doubt under --strict,
\* or the policy names its port, its name, its registered name or the name
\* Nmap gave it.  (_norm_stub passes Nmap's name as Nmap wrote it: a policy that
\* lists its normalized form is not applied, though risk_analysis compares it.)
ToWithhold(a, p) ==
    LET rec == hosts[a].ports[p]
        norm == Normalize(rec)
    IN \/ /\ DOMAIN Approvals(config, a) # {}
          /\ ApprovedEntry(config, a, p) => ~Approvals(config, a)[p].approved
       \/ ZoneConflict /\ config.strict
       \/ AlwaysReview(config, p, {norm.final, norm.expected, rec.name})

\* What was withheld stays withheld, whatever flows it was merged with.  The
\* flow of an open service to withhold is in the result with a reason.  An
\* open|filtered port whose flow was asked for has one with a reason too,
\* unless the configuration declares the flow: a declaration outranks the
\* uncertain flow and has no reason, and what stays is the review item of
\* the port.  An inferred flow below the threshold has a reason.
WithheldStays ==
    phase = "done" =>
        /\ \A a \in DOMAIN hosts : \A p \in DOMAIN hosts[a].ports :
             /\ (hosts[a].ports[p].state = "open" /\ ToWithhold(a, p)) =>
                  \E f \in Results :
                     /\ Key(f) = <<Scanner, a, p, "inbound">>
                     /\ f.evidence = "Observed" /\ f.reason # ""
             /\ (hosts[a].ports[p].state = "open|filtered" /\ config.openFiltered) =>
                  /\ \E f \in Results :
                       /\ Key(f) = <<Scanner, a, p, "inbound">>
                       /\ f.reason # "" \/ Declared(Scanner, a, p)
                  /\ Review("Uncertain port state", <<a, p>>) \in reviews
        /\ \A f \in Results :
             f.evidence = "Inferred" /\ f.confidence < config.threshold => f.reason # ""

\* Of the flows with one key the result has the best, by evidence and then
\* by confidence, with the scripts of all and a purpose if one has it: the
\* keys of the result are distinct, and none is lost.
BestOfEachKey ==
    LET seen == CASE phase = "dedupe" -> n [] phase = "done" -> Len(flows) [] OTHER -> 0
    IN /\ DOMAIN best = {Key(flows[i]) : i \in 1..seen}
       /\ \A i \in 1..seen :
            LET b == best[Key(flows[i])]
            IN /\ Key(b) = Key(flows[i])
               /\ ~Higher(Rank(flows[i]), Rank(b))
               /\ flows[i].scripts \subseteq b.scripts
               /\ flows[i].purpose # "" => b.purpose # ""

\* Merging duplicate hosts, duplicate ports and duplicate flows loses no
\* script, and a verdict that is the only one for its script counts for the
\* risk of the flow unless the risk is overridden.
EvidenceKept ==
    phase = "done" => \A a \in DOMAIN hosts : \A p \in DOMAIN hosts[a].ports :
        LET said == UNION {r.scripts : r \in Reports(a, p)}
            rec == hosts[a].ports[p]
        IN rec.state = "open" => \E f \in Results :
             /\ Key(f) = <<Scanner, a, p, "inbound">>
             /\ {s.id : s \in said} \subseteq f.scripts
             /\ (config.overrides = <<>> =>
                   \A s \in said : (\A t \in said : t.id = s.id => t = s) => f.risk >= Verdict[s.verdict])
===============================================================================
