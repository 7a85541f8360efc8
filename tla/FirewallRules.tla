----------------------------- MODULE FirewallRules -----------------------------
(***************************************************************************)
(* firewall_rules.build_inbound and build_outbound, as cli._main calls     *)
(* them: from the flows of the analysis to candidate rules and manual-     *)
(* review items.  A step is one iteration of the loop over the flows; the  *)
(* inner loop over the sources of an inbound flow is part of it, as no     *)
(* two of its sources make the same rule.  Addresses, services, names and  *)
(* evidence texts that a rule only carries along are left out.             *)
(***************************************************************************)
EXTENDS PolicyScope, Sequences

CONSTANTS
    Configs,         \* the configurations considered, see PolicyScope; also
                     \*   expected  set of [host, protocol, port, sources]
                     \*   strict, stateless, limit (max_source_prefixlen)
    FlowPool,        \* the flows the analysis may deliver
    Protocols, Ports,
    Ephemeral,       \* "1024-65535"
    MaxFlows         \* bound on the number of flows

Evidence == {"observed", "user-defined", "inferred", "unknown", "manual"}
RULE_EVIDENCE == {"observed", "user-defined", "inferred"}

\* A flow's source is a set: the comma-separated networks of a scanner zone.
Flow == [direction : {"inbound", "outbound"}, evidence : Evidence,
         review : BOOLEAN, source : SUBSET Endpoint, destination : Endpoint,
         protocol : Protocols, port : Ports]

ASSUME FlowsAssumption ==
    /\ FlowPool \subseteq Flow /\ MaxFlows \in Nat
    /\ \A f \in FlowPool :
         /\ f.direction = "inbound" => f.destination \in Network
         /\ f.direction = "outbound" => \E n \in Network : f.source = {n}
ASSUME PortsAssumption == Ports \subseteq Nat /\ Ephemeral \notin Ports
ASSUME ConfigsAssumption ==
    \A c \in Configs : \A e \in c.expected : e.sources \subseteq Endpoint
\* load_config keeps only the networks that it can parse.
ASSUME NetworksAssumption ==
    \A c \in Configs :
        /\ \A z \in DOMAIN c.zones : c.zones[z] \subseteq Network
        /\ \A side \in Sides :
             /\ \A h \in DOMAIN c.hosts : c.hosts[h][side] \subseteq Network
             /\ \A z \in DOMAIN c.zones :
                  c.zonePolicy[z][side] = NoList \/ c.zonePolicy[z][side] \subseteq Network
             /\ c.global[side] = NoList \/ c.global[side] \subseteq Network

VARIABLES
    config,      \* the validated configuration and options
    flows,       \* AnalysisResult.flows
    phase,       \* the function that runs: "inbound", "outbound"; or "done"
    at,          \* index of its next flow
    seen,        \* the keys it has seen
    inbound,     \* the rules of build_inbound
    outbound,    \* the rules of build_outbound
    reviews      \* the manual-review items of both

vars == <<config, flows, phase, at, seen, inbound, outbound, reviews>>

\* What tells two rules of one list apart.
Key == [source : Endpoint, destination : Endpoint, protocol : Protocols,
        port : Ports \union {Ephemeral}]

\* flow is the index of the flow a rule or an item comes from.
Rule == [key : Key, flow : Nat, violation : BOOLEAN]
Review == [sources : SUBSET Endpoint, flow : Nat,
           category : {"Rule withheld", "Unsafe rule scope", "Overly broad rule",
                       "Approved-network policy"}]

TypeOK ==
    /\ config \in Configs
    /\ flows \in Seq(FlowPool)
    /\ phase \in {"inbound", "outbound", "done"}
    /\ at \in 1 .. Len(flows) + 1
    /\ seen \subseteq Key
    /\ inbound \subseteq Rule
    /\ outbound \subseteq Rule
    /\ reviews \subseteq Review

\* The analysis delivers one flow per source, destination, protocol, port and
\* direction (flow_analysis._dedupe_and_sort).
Distinct(s) ==
    \A i, j \in DOMAIN s : i # j =>
        \/ s[i].direction # s[j].direction \/ s[i].source # s[j].source
        \/ s[i].destination # s[j].destination
        \/ s[i].protocol # s[j].protocol \/ s[i].port # s[j].port

Init ==
    /\ config \in Configs
    /\ \E n \in 0..MaxFlows : flows \in [1..n -> FlowPool]
    /\ Distinct(flows)
    /\ phase = "inbound"
    /\ at = 1
    /\ seen = {}
    /\ inbound = {}
    /\ outbound = {}
    /\ reviews = {}

-------------------------------------------------------------------------------
(* What the two functions share.                                           *)

KeyOf(f, source) == [source |-> source, destination |-> f.destination,
                     protocol |-> f.protocol, port |-> f.port]

\* Mutant: only the text "0.0.0.0/0" is recognised.
ScopeProblem_Text(v) ==
    IF v \in {Unparsable, [addr |-> 0, len |-> 0, slash |-> TRUE]} THEN "reject"
    ELSE IF v.len < config.limit /\ v.len # 0 THEN "warn"
    ELSE ""

\* _scope_problem
ScopeProblem(v) ==
    IF v = Unparsable THEN "reject"
    ELSE IF v.len = 0 THEN "reject"
    ELSE IF v.len < config.limit THEN "warn"
    ELSE ""

Refused(v) == ScopeProblem(v) = "reject" \/ (ScopeProblem(v) = "warn" /\ config.strict)

\* The items: a bad scope v, and an approved-network policy that withholds.
ScopeReview(v, sources) ==
    [sources |-> sources, flow |-> at,
     category |-> IF ScopeProblem(v) = "warn" THEN "Overly broad rule" ELSE "Unsafe rule scope"]
PolicyReview(v) ==
    [sources |-> {v}, flow |-> at, category |-> "Approved-network policy"]

\* _apply_policy_scope: the rule's flag, and whether it is withheld.
IsViolation(target, key) == Violation(config, target, key.source, key.destination)
PolicyWithholds(target, key) ==
    \/ NeedsReview(config, target, key.source, key.destination)
    \/ IsViolation(target, key) /\ config.strict

RuleOf(target, key) ==
    [key |-> key, flow |-> at, violation |-> IsViolation(target, key)]

\* _sources_for_flow: the sources that the matching expected_inbound entry
\* authorises, or else the flow's own.
SourcesForFlow(f) ==
    LET matching == {e \in config.expected :
                       /\ f.destination = [addr |-> e.host, len |-> Bits, slash |-> FALSE]
                       /\ e.protocol = f.protocol /\ e.port = f.port
                       /\ e.sources # {}}
    IN IF matching # {} THEN (CHOOSE e \in matching : TRUE).sources ELSE f.source

IsCandidate(f, direction) == f.direction = direction /\ f.evidence \in RULE_EVIDENCE

\* A flow that carries a review reason makes one item and no rule.
Withhold(f) ==
    /\ reviews' = reviews \union
         {[sources |-> f.source, flow |-> at, category |-> "Rule withheld"]}
    /\ UNCHANGED <<seen, inbound, outbound>>

-------------------------------------------------------------------------------
(* build_inbound                                                           *)

\* The sources of f with fresh keys, those the policy withholds among them.
Register(f, fresh, refused) ==
    LET withheld == {s \in fresh : PolicyWithholds(f.destination, KeyOf(f, s))}
    IN /\ seen' = seen \union {KeyOf(f, s) : s \in fresh}
       /\ inbound' = inbound \union
            {RuleOf(f.destination, KeyOf(f, s)) : s \in fresh \ withheld}
       /\ reviews' = reviews \union {ScopeReview(s, {s}) : s \in refused}
                              \union {PolicyReview(s) : s \in withheld}

\* Mutant: a refused source ends the loop instead of its iteration.
TakeInbound_Break(f) ==
    LET refused == {s \in SourcesForFlow(f) : Refused(s)}
    IN Register(f, IF refused = {} THEN {s \in SourcesForFlow(f) : KeyOf(f, s) \notin seen}
                   ELSE {}, refused)

\* The loop over the sources.  A key stays seen when its rule is withheld.
TakeInbound(f) ==
    LET refused == {s \in SourcesForFlow(f) : Refused(s)}
        fresh == {s \in SourcesForFlow(f) \ refused : KeyOf(f, s) \notin seen}
    IN Register(f, fresh, refused)

InboundFlow ==
    /\ phase = "inbound"
    /\ at \in DOMAIN flows
    /\ at' = at + 1
    /\ UNCHANGED <<config, flows, phase, outbound>>
    /\ LET f == flows[at]
       IN \/ ~IsCandidate(f, "inbound") /\ UNCHANGED <<seen, inbound, reviews>>
          \/ IsCandidate(f, "inbound") /\ f.review /\ Withhold(f)
          \/ IsCandidate(f, "inbound") /\ ~f.review /\ TakeInbound(f)

BeginOutbound ==
    /\ phase = "inbound"
    /\ at = Len(flows) + 1
    /\ phase' = "outbound"
    /\ at' = 1
    /\ seen' = {}
    /\ UNCHANGED <<config, flows, inbound, outbound, reviews>>

-------------------------------------------------------------------------------
(* build_outbound                                                          *)

\* Only the destination's scope is checked; a withheld key is not kept.
TakeOutbound(f) ==
    LET source == CHOOSE s \in f.source : TRUE
        key == KeyOf(f, source)
    IN \/ /\ Refused(f.destination)
          /\ reviews' = reviews \union {ScopeReview(f.destination, f.source)}
          /\ UNCHANGED <<seen, outbound>>
       \/ /\ ~Refused(f.destination) /\ key \in seen
          /\ UNCHANGED <<seen, outbound, reviews>>
       \/ /\ ~Refused(f.destination) /\ key \notin seen
          /\ PolicyWithholds(source, key)
          /\ reviews' = reviews \union {PolicyReview(source)}
          /\ UNCHANGED <<seen, outbound>>
       \/ /\ ~Refused(f.destination) /\ key \notin seen
          /\ ~PolicyWithholds(source, key)
          /\ seen' = seen \union {key}
          /\ outbound' = outbound \union {RuleOf(source, key)}
          /\ UNCHANGED reviews

OutboundFlow ==
    /\ phase = "outbound"
    /\ at \in DOMAIN flows
    /\ at' = at + 1
    /\ UNCHANGED <<config, flows, phase, inbound>>
    /\ LET f == flows[at]
       IN \/ ~IsCandidate(f, "outbound") /\ UNCHANGED <<seen, outbound, reviews>>
          \/ IsCandidate(f, "outbound") /\ f.review /\ Withhold(f)
          \/ IsCandidate(f, "outbound") /\ ~f.review /\ TakeOutbound(f)

\* The return path of an inbound rule: the service's port is lost, and the
\* approved networks are not consulted.
ReturnKey(r) == [source |-> r.key.destination, destination |-> r.key.source,
                 protocol |-> r.key.protocol, port |-> Ephemeral]
ReturnRule(r) == [key |-> ReturnKey(r), flow |-> r.flow, violation |-> FALSE]

\* Mutant: one return path per pair of hosts, whatever the protocol.
ReturnRules_AnyProtocol ==
    LET first == {r \in inbound : \A q \in inbound :
                    q.key.destination = r.key.destination /\ q.key.source = r.key.source
                    => r.key.port <= q.key.port}
    IN {r \in first : config.stateless}

\* The rules whose return path is added.  The inbound rules come sorted, so of
\* those with one return path the one with the lowest port provides it.
ReturnRules ==
    LET first == {r \in inbound : \A q \in inbound :
                    ReturnKey(q) = ReturnKey(r) => r.key.port <= q.key.port}
    IN {r \in first : config.stateless /\ ReturnKey(r) \notin seen}

\* _return_rules and the end of build_outbound.
FinishOutbound ==
    /\ phase = "outbound"
    /\ at = Len(flows) + 1
    /\ phase' = "done"
    /\ outbound' = outbound \union {ReturnRule(r) : r \in ReturnRules}
    /\ seen' = seen \union {ReturnKey(r) : r \in ReturnRules}
    /\ UNCHANGED <<config, flows, at, inbound, reviews>>

Next == InboundFlow \/ BeginOutbound \/ OutboundFlow \/ FinishOutbound

Spec == Init /\ [][Next]_vars

-------------------------------------------------------------------------------
(* Properties.                                                             *)

\* No two rules of a list permit the same thing, although flows share keys once
\* their sources have been replaced by the configured ones, and return paths
\* of several services coincide.
KeysUnique ==
    /\ \A q, r \in inbound : q.key = r.key => q = r
    /\ \A q, r \in outbound : q.key = r.key => q = r

\* What became of source s of flow f: a rule, or an item that names it.
HasRule(f, s) == \E r \in inbound \union outbound : r.key = KeyOf(f, s)
HasReview(f, s) ==
    \E v \in reviews :
        /\ s \in v.sources /\ v.flow \in DOMAIN flows
        /\ flows[v.flow].direction = f.direction
        /\ KeyOf(flows[v.flow], s) = KeyOf(f, s)

ItsSources(f) == IF f.direction = "inbound" /\ ~f.review THEN SourcesForFlow(f) ELSE f.source
Covered(f) == \A s \in ItsSources(f) : HasRule(f, s) \/ HasReview(f, s)

\* Nothing disappears between the flows and the reports: each source of each
\* candidate flow has a rule or a review item, suppressed duplicates and one
\* refused source among several included.
Accounted ==
    phase = "done" =>
        \A i \in DOMAIN flows : flows[i].evidence \in RULE_EVIDENCE => Covered(flows[i])

\* README section 5: no rule permits any source and any destination.
NeverAnyAny ==
    \A r \in inbound \union outbound :
        r.key.source.len # 0 \/ r.key.destination.len # 0

\* The rules that come from a flow, with their target and their peer.
Peer(r) == IF flows[r.flow].direction = "inbound" THEN r.key.source ELSE r.key.destination
Target(r) == IF flows[r.flow].direction = "inbound" THEN r.key.destination ELSE r.key.source
Side(r) == IF flows[r.flow].direction = "inbound" THEN "source" ELSE "destination"
Direct == {r \in inbound \union outbound : r.key.port # Ephemeral}

\* README section 13: a rule whose peer is outside what the most specific policy
\* of its target approves is flagged, and under --strict it is not there; but
\* for a peer written with the target's own address, which the code exempts.
PolicyEnforced ==
    \A r \in Direct :
        /\ OutsidePolicy(config, Target(r), Peer(r), Side(r))
        /\ ~IsSelf(Target(r), Peer(r))
        => r.violation /\ ~config.strict

\* A stateless run lets answers back to every source it lets in, and opens a
\* return path for no one else; a stateful one opens none.
ReturnPaths ==
    phase = "done" =>
        {r.key : r \in outbound \ Direct} =
            IF config.stateless THEN {ReturnKey(r) : r \in inbound} ELSE {}

===============================================================================
