---------------------------- MODULE ZeekCorrelation ----------------------------
(***************************************************************************)
(* zeek_correlation.ZeekCorrelator.run: what the aggregates of a passive   *)
(* sensor do to the flows of the analysis, to the Nmap service records and *)
(* to the manual-review list.  Every aggregate is handled once; then the   *)
(* flows and the open services no traffic reached are annotated.           *)
(*                                                                         *)
(* Left out: names, times, byte counters and sample lists that a flow only *)
(* carries along, the service-name comparison, the endpoint inventory, the *)
(* sensor findings and the numbering of findings.                          *)
(***************************************************************************)
EXTENDS Integers, FiniteSets

CONSTANTS
    Addresses, Protocols, Ports,
    Scanner,         \* the configured scanner address
    External,        \* addresses outside the monitored networks
    Settings,        \* the configurations considered: a set of records
                     \*   perspectives   those _emit_zeek_flows generates
                     \*   externalRules  include_external_dependencies_in_rules
                     \*   attemptedFlows include_attempted_flows_in_diagram
                     \*   excludeScanner exclude_nmap_scanner_traffic_from_rules
                     \*   minimum, ratio the thresholds, the ratio in percent
    Sensors,         \* the sensor conditions considered, see Sensor
    Scans,           \* the Nmap results considered, see IsScan
    AggregatePool, FlowPool,
    MaxAggregates, MaxFlows      \* bounds on what one run is given

Key == [src : Addresses, dst : Addresses, proto : Protocols, port : Ports]
Service == [dst : Addresses, proto : Protocols, port : Ports]
ServiceOf(k) == [dst |-> k.dst, proto |-> k.proto, port |-> k.port]

CONFLICTING_NMAP_STATES == {"closed", "filtered", "open|filtered"}
PortState == {"open", "unfiltered", "closed|filtered", "unknown"} \union CONFLICTING_NMAP_STATES

\* A scan: hosts, the scanned addresses; ports, the state of every reported service.
IsScan(s) ==
    /\ s.hosts \subseteq Addresses
    /\ DOMAIN s.ports \subseteq Service /\ s.ports \in [DOMAIN s.ports -> PortState]
    /\ \A k \in DOMAIN s.ports : k.dst \in s.hosts

Sensor == [status : {"healthy", "unknown", "degraded", "unusable"}, overLoss : BOOLEAN]

\* One aggregate per originator, responder, protocol and port: ok successful
\* and other further connections, what was wrong with them, and whether the
\* configuration ignores it.
Aggregate == [key : Key, ok : Nat, other : Nat,
              flaws : SUBSET {"missed", "partial", "ambiguous"}, ignored : BOOLEAN]

Evidence == {"observed", "user-defined", "inferred", "unknown", "manual"}
RULE_EVIDENCE == {"observed", "user-defined", "inferred"}
Source == {"nmap", "zeek", "user", "inference"}
Status == {"", "nmap-only", "zeek-only", "nmap-and-zeek", "user-only",
           "user-and-zeek", "inferred-only", "attempted-only", "conflicting"}
Confidence == 0..100

\* slot tells the flows of one key apart: the direction, or the flow drawn for
\* attempted traffic.  review: whether manual_review_reason is set.
Flow == [key : Key, slot : {"inbound", "outbound", "attempted"}, evidence : Evidence,
         review : BOOLEAN, status : Status, sources : SUBSET Source,
         seen : {"", "traffic", "attempted", "scanner", "not observed"},
         confidence : Confidence]

ASSUME SettingsAssumption == \A c \in Settings :
    /\ c.perspectives \subseteq {"inbound", "outbound"}
    /\ c.externalRules \in BOOLEAN /\ c.attemptedFlows \in BOOLEAN
    /\ c.excludeScanner \in BOOLEAN /\ c.minimum \in Nat /\ c.ratio \in Nat
ASSUME InputsAssumption ==
    /\ Sensors \subseteq Sensor
    /\ \A s \in Sensors : s.overLoss => s.status = "degraded"
    /\ \A s \in Scans : IsScan(s)
    /\ AggregatePool \subseteq Aggregate /\ FlowPool \subseteq Flow
    /\ MaxAggregates \in Nat /\ MaxFlows \in Nat
\* classify_connection counts no ICMP exchange as successful; the analysis
\* hands over flows without correlation data, none of them drawn for Zeek.
ASSUME PoolsAssumption ==
    /\ \A a \in AggregatePool : a.ok + a.other > 0 /\ (a.key.proto = "icmp" => a.ok = 0)
    /\ \A f \in FlowPool : /\ f.slot # "attempted" /\ f.status = "" /\ f.seen = ""
                           /\ f.sources = {}

VARIABLES
    settings, sensor, scan,   \* the run's configuration and inputs
    aggregates,  \* what the aggregation of conn.log produced
    given,       \* the flows of the analysis
    pending,     \* aggregates not handled yet
    flows,       \* the flows, merged and new
    touched,     \* _services_any_traffic
    genuine,     \* _services_non_scanner_traffic
    observation, \* service of the scan -> zeek_observation of its record
    reviews,     \* [about, key]: manual-review items
    findings,    \* [about, key]: correlation findings
    done

inputs == <<settings, sensor, scan, aggregates, given>>
vars == <<inputs, pending, flows, touched, genuine, observation, reviews, findings, done>>

About == {"discrepancy", "icmp", "external", "unscanned", "declared"}

TypeOK ==
    /\ settings \in Settings /\ sensor \in Sensors /\ scan \in Scans
    /\ aggregates \subseteq AggregatePool /\ given \subseteq FlowPool
    /\ pending \subseteq aggregates
    /\ flows \subseteq Flow
    /\ touched \subseteq Service /\ genuine \subseteq touched
    /\ observation \in [DOMAIN scan.ports -> {"", "active", "scanner-only", "not observed"}]
    /\ reviews \subseteq [about : About, key : Key]
    /\ findings \subseteq [about : About, key : Key]
    /\ done \in BOOLEAN

\* The flows come deduplicated, and an Nmap flow stands for an open port; the
\* sensor is degraded as soon as one aggregate misses bytes (assess_sensor_health).
Init ==
    /\ settings \in Settings /\ sensor \in Sensors /\ scan \in Scans
    /\ aggregates \in {S \in SUBSET AggregatePool :
                         /\ Cardinality(S) <= MaxAggregates
                         /\ \A a, b \in S : a.key = b.key => a = b}
    /\ (\E a \in aggregates : "missed" \in a.flaws) => sensor.status = "degraded"
    /\ given \in {S \in SUBSET FlowPool :
                    /\ Cardinality(S) <= MaxFlows
                    /\ \A f, g \in S : f.key = g.key /\ f.slot = g.slot => f = g}
    /\ \A f \in given : f.evidence = "observed" =>
          ServiceOf(f.key) \in DOMAIN scan.ports /\ scan.ports[ServiceOf(f.key)] = "open"
    /\ pending = aggregates
    /\ flows = given
    /\ touched = {} /\ genuine = {}
    /\ observation = [s \in DOMAIN scan.ports |-> ""]
    /\ reviews = {} /\ findings = {}
    /\ done = FALSE

-------------------------------------------------------------------------------
(* What the steps share.                                                   *)

ScannerTraffic(a) == a.key.src = Scanner

\* _nmap_state
NmapState(k) ==
    IF ServiceOf(k) \in DOMAIN scan.ports THEN scan.ports[ServiceOf(k)]
    ELSE IF k.dst \notin scan.hosts /\ k.dst \in External THEN "out of scope"
    ELSE "not scanned"

Conflicting(k) == NmapState(k) \in CONFLICTING_NMAP_STATES

\* Enough successful connections, absolutely and of all of them; ICMP always.
Eligible(a) ==
    \/ a.key.proto = "icmp"
    \/ /\ a.ok >= 1 /\ a.ok >= settings.minimum
       /\ 100 * a.ok >= settings.ratio * (a.ok + a.other)

\* The aggregates that run passes to the two handlers.
Production(a) ==
    /\ ~a.ignored
    /\ ~(ScannerTraffic(a) /\ settings.excludeScanner)
    /\ a.key.proto \in {"tcp", "udp", "icmp"}

\* compute_zeek_confidence: the reasons, and the number.
Devalued(a) == a.flaws # {} \/ sensor.overLoss \/ sensor.status \in {"degraded", "unusable"}

Penalties(a) ==
    (IF sensor.status = "degraded" THEN 10 ELSE IF sensor.status = "unusable" THEN 30 ELSE 0)
    + (IF "missed" \in a.flaws THEN 10 ELSE 0) + (IF sensor.overLoss THEN 5 ELSE 0)
    + (IF "partial" \in a.flaws THEN 15 ELSE 0) + (IF "ambiguous" \in a.flaws THEN 20 ELSE 0)

ZeekConfidence(a) ==
    LET value == (IF a.ok > 0 THEN 85 ELSE 30) - Penalties(a)
    IN IF value < 20 THEN 20 ELSE value

\* Mutant: a devalued observation is averaged in.
MergedConfidence_Average(f, a) == (f.confidence + ZeekConfidence(a)) \div 2

\* A flow keeps its confidence unless the observation is devalued.
MergedConfidence(f, a) ==
    IF f.confidence = 0 THEN ZeekConfidence(a)
    ELSE IF Devalued(a) /\ ZeekConfidence(a) < f.confidence THEN ZeekConfidence(a)
    ELSE f.confidence

\* _merge_zeek_into_flow
Merge(f, a) ==
    [f EXCEPT !.sources = @ \union {"zeek"},
              !.seen = IF ScannerTraffic(a) THEN "scanner"
                       ELSE IF a.ok > 0 THEN "traffic" ELSE "attempted",
              !.confidence = MergedConfidence(f, a)]

\* Mutant: the index forgets the originator.
Existing_AnySource(a) == {f \in flows : ServiceOf(f.key) = ServiceOf(a.key)}

\* flow_index.get(agg.key); the flows drawn for attempts are not indexed.
Existing(a) == {f \in flows : f.key = a.key /\ f.slot # "attempted"}

Item(about, a) == [about |-> about, key |-> a.key]

\* Mutant: scanner probes count like any other traffic.
NoteTraffic_All(a) ==
    /\ touched' = touched \union {ServiceOf(a.key)}
    /\ genuine' = genuine \union {ServiceOf(a.key)}

\* _note_service_traffic
NoteTraffic(a) ==
    /\ touched' = touched \union {ServiceOf(a.key)}
    /\ genuine' = genuine \union IF ScannerTraffic(a) THEN {} ELSE {ServiceOf(a.key)}

\* The record of the service, if the scan reported it, is called active.
Activate(a) == observation' = [s \in DOMAIN observation |->
                                 IF s = ServiceOf(a.key) THEN "active" ELSE observation[s]]

-------------------------------------------------------------------------------
(* What a handler makes of one flow.                                       *)

\* Mutant: the review reason is computed anew.
Corroborated_Reset(f, a) ==
    [Merge(f, a) EXCEPT !.evidence = IF @ = "user-defined" THEN "observed" ELSE @,
                        !.status = IF Conflicting(a.key) THEN "conflicting" ELSE "nmap-and-zeek",
                        !.review = Conflicting(a.key)]

\* Mutant: declared flows are exempt from the check of the Nmap state.
Corroborated_NoCheck(f, a) ==
    IF f.evidence = "user-defined"
    THEN [Merge(f, a) EXCEPT !.evidence = "observed", !.status = "user-and-zeek",
                             !.sources = @ \union {"user"}]
    ELSE [Merge(f, a) EXCEPT !.status = "nmap-and-zeek", !.sources = @ \union {"nmap"},
                             !.review = @ \/ Conflicting(a.key)]

\* The loops of _handle_successful over the flows that exist.
Corroborated(f, a) ==
    LET open == NmapState(a.key) = "open"
        prior == f.evidence
    IN [Merge(f, a) EXCEPT
          !.evidence = IF prior = "user-defined" THEN "observed" ELSE prior,
          !.status = IF Conflicting(a.key) THEN "conflicting"
                     ELSE IF prior = "user-defined" THEN "user-and-zeek"
                     ELSE IF prior = "inferred" /\ ~open THEN "zeek-only"
                     ELSE "nmap-and-zeek",
          !.sources = @ \union (IF prior = "user-defined" THEN {"user"}
                                ELSE IF prior = "inferred" THEN {"inference"} ELSE {"nmap"})
                        \union (IF open \/ Conflicting(a.key) THEN {"nmap"} ELSE {}),
          !.review = @ \/ Conflicting(a.key) \/ sensor.status = "unusable"]

\* The merge of the scanner's own traffic in run.
Probed(f, a) ==
    [Merge(f, a) EXCEPT !.seen = "scanner", !.status = "nmap-and-zeek",
                        !.sources = @ \union {"nmap"}]

\* _new_zeek_flow
NewFlow(a, slot) ==
    [key |-> a.key, slot |-> slot, evidence |-> "observed", review |-> FALSE,
     status |-> IF NmapState(a.key) = "open" THEN "nmap-and-zeek"
                ELSE IF Conflicting(a.key) THEN "conflicting" ELSE "zeek-only",
     sources |-> {"zeek"} \union
        (IF NmapState(a.key) = "open" \/ Conflicting(a.key) THEN {"nmap"} ELSE {}),
     seen |-> IF ScannerTraffic(a) THEN "scanner" ELSE IF a.ok > 0 THEN "traffic" ELSE "attempted",
     confidence |-> ZeekConfidence(a)]

\* Mutant: external dependencies are always ruled on.
ReviewReason_External(a) ==
    Conflicting(a.key) \/ sensor.status = "unusable" \/ a.key.proto = "icmp"

\* The review_reason a new flow is emitted with.
ReviewReason(a) ==
    \/ Conflicting(a.key)
    \/ NmapState(a.key) = "out of scope" /\ ~settings.externalRules
    \/ sensor.status = "unusable"
    \/ a.key.proto = "icmp"

\* The flow _handle_attempted draws.
DrawnFlow(a) ==
    [NewFlow(a, "attempted") EXCEPT !.evidence = "manual", !.review = TRUE,
                                    !.status = "attempted-only", !.sources = {"zeek"},
                                    !.seen = "attempted"]

\* _annotate_uncorrelated
Annotated(f) ==
    IF f.status # "" \/ f.evidence \notin RULE_EVIDENCE THEN f
    ELSE LET found == CASE f.evidence = "user-defined" -> <<"user-only", "user">>
                        [] f.evidence = "inferred" -> <<"inferred-only", "inference">>
                        [] f.evidence = "observed" -> <<"nmap-only", "nmap">>
         IN [f EXCEPT !.status = found[1], !.seen = "not observed",
                      !.sources = @ \union {found[2]}]

-------------------------------------------------------------------------------
(* The steps.  run visits the aggregates in sorted order; the model in any. *)

Handle(a) == a \in pending /\ pending' = pending \ {a} /\ UNCHANGED <<inputs, done>>

Skip(a) ==
    /\ Handle(a)
    /\ ~Production(a)
    /\ a.ignored \/ ~(ScannerTraffic(a) /\ settings.excludeScanner)
    /\ UNCHANGED <<flows, touched, genuine, observation, reviews, findings>>

\* The scanner's own probes go into the flows they belong to.
MergeScanner(a) ==
    /\ Handle(a)
    /\ ~a.ignored /\ ScannerTraffic(a) /\ settings.excludeScanner
    /\ NoteTraffic(a)
    /\ flows' = (flows \ Existing(a)) \union {Probed(f, a) : f \in Existing(a)}
    /\ UNCHANGED <<observation, reviews, findings>>

\* _handle_successful when the communication is known.
Corroborate(a) ==
    /\ Handle(a)
    /\ Production(a) /\ Eligible(a) /\ Existing(a) # {}
    /\ NoteTraffic(a)
    /\ flows' = (flows \ Existing(a)) \union {Corroborated(f, a) : f \in Existing(a)}
    /\ IF Conflicting(a.key)
       THEN /\ reviews' = reviews \union {Item("discrepancy", a)}
            /\ findings' = findings \union {Item("discrepancy", a)}
       ELSE UNCHANGED <<reviews, findings>>
    /\ IF ScannerTraffic(a) THEN UNCHANGED observation ELSE Activate(a)

\* What is filed about a communication nobody knew.  One ICMP item is enough.
FiledReviews(a) ==
    (IF Conflicting(a.key) THEN {Item("discrepancy", a)} ELSE {})
    \union (IF a.key.proto = "icmp" /\ \A r \in reviews : r.about # "icmp"
            THEN {Item("icmp", a)} ELSE {})
FiledFindings(a) ==
    CASE NmapState(a.key) = "open" -> {}
      [] Conflicting(a.key) -> {Item("discrepancy", a)}
      [] NmapState(a.key) = "out of scope" -> {Item("external", a)}
      [] OTHER -> {Item("unscanned", a)}

\* _handle_successful for a new communication, and _emit_zeek_flows.
Discover(a) ==
    /\ Handle(a)
    /\ Production(a) /\ Eligible(a) /\ Existing(a) = {}
    /\ NoteTraffic(a)
    /\ flows' = flows \union {[NewFlow(a, p) EXCEPT !.review = ReviewReason(a)] :
                                p \in settings.perspectives}
    /\ reviews' = reviews \union FiledReviews(a)
    /\ findings' = findings \union FiledFindings(a)
    /\ IF NmapState(a.key) = "open" THEN Activate(a) ELSE UNCHANGED observation

\* _handle_attempted
Attempt(a) ==
    /\ Handle(a)
    /\ Production(a) /\ ~Eligible(a)
    /\ NoteTraffic(a)
    /\ flows' = flows \union IF settings.attemptedFlows THEN {DrawnFlow(a)} ELSE {}
    /\ UNCHANGED <<observation, reviews, findings>>

\* _annotate_nmap_only_services
FinalObservation(s) ==
    IF scan.ports[s] # "open" \/ s \in genuine THEN observation[s]
    ELSE IF s \in touched THEN "scanner-only" ELSE "not observed"

Annotate ==
    /\ pending = {} /\ ~done
    /\ done' = TRUE
    /\ flows' = {Annotated(f) : f \in flows}
    /\ observation' = [s \in DOMAIN scan.ports |-> FinalObservation(s)]
    /\ findings' = findings \union
         {[about |-> "declared", key |-> f.key] : f \in {g \in flows' : g.status = "user-only"}}
    /\ UNCHANGED <<inputs, pending, touched, genuine, reviews>>

Next ==
    \/ \E a \in pending :
          Skip(a) \/ MergeScanner(a) \/ Corroborate(a) \/ Discover(a) \/ Attempt(a)
    \/ Annotate

Spec == Init /\ [][Next]_vars

-------------------------------------------------------------------------------
(* Properties.                                                             *)

Handled == aggregates \ pending

\* What build_inbound and build_outbound turn into rules.
Candidate(f) == f.evidence \in RULE_EVIDENCE /\ ~f.review

IsNew(f) == \A g \in given : g.key # f.key \/ g.slot # f.slot

\* MIGRATION.md, v1.2.1: when production traffic succeeds to a port the scan
\* calls closed, filtered or open|filtered, every perspective of that
\* communication, declared, inferred, scanned or new, is withheld, and a finding
\* and a manual-review item say so.
ConflictsWithheld ==
    \A a \in Handled : Production(a) /\ Eligible(a) /\ Conflicting(a.key) =>
        /\ \A f \in flows : f.key = a.key => ~Candidate(f)
        /\ Item("discrepancy", a) \in reviews \intersect findings

\* README section 18: a flow the analysis did not know becomes a candidate only
\* through enough successful production traffic of its own originator, to a
\* port the scan does not contradict, and if external only on request.
NewCandidatesEarned ==
    \A f \in flows : Candidate(f) /\ IsNew(f) =>
        /\ \E a \in Handled : /\ a.key = f.key /\ Production(a) /\ Eligible(a) /\ a.ok > 0
                              /\ ~Conflicting(a.key)
        /\ f.key.dst \in External \ scan.hosts => settings.externalRules \/
              ServiceOf(f.key) \in DOMAIN scan.ports

\* Whatever Zeek saw, a flow that was withheld or not a candidate stays so.
NeverPromoted ==
    [][\A f \in flows, g \in flows' :
          g.key = f.key /\ g.slot = f.slot /\ Candidate(g) => Candidate(f)]_vars

\* README section 18, "different clients of the same server are never merged":
\* Zeek evidence on a flow comes from traffic of its very source, and from none
\* the configuration ignores.
OwnTraffic ==
    \A f \in flows : "zeek" \in f.sources => \E a \in Handled : a.key = f.key /\ ~a.ignored

\* "Degradation lowers confidence": no flow, merged or new, is more certain than
\* a devalued observation it rests on.
DegradedDevalues ==
    \A a \in Handled : \A f \in flows :
        f.key = a.key /\ "zeek" \in f.sources /\ Devalued(a) => f.confidence <= ZeekConfidence(a)

\* The traffic that counts for service s.
TrafficTo(s) ==
    {a \in aggregates : /\ ServiceOf(a.key) = s /\ ~a.ignored
                        /\ Production(a) \/ (ScannerTraffic(a) /\ settings.excludeScanner)}

\* The report of an open service: "not observed" means no traffic, "scanner only"
\* means the scanner's alone, and "active" needs successful traffic, of others
\* than the scanner as long as its traffic is excluded.
ServicesTruthful ==
    done => \A s \in DOMAIN scan.ports : scan.ports[s] = "open" =>
        /\ observation[s] = "not observed" <=> TrafficTo(s) = {}
        /\ observation[s] = "scanner-only" <=>
              TrafficTo(s) # {} /\ \A a \in TrafficTo(s) : ScannerTraffic(a)
        /\ observation[s] = "active" =>
              \E a \in TrafficTo(s) :
                  Eligible(a) /\ (ScannerTraffic(a) => ~settings.excludeScanner)

===============================================================================
