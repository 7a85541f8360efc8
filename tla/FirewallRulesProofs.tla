-------------------------- MODULE FirewallRulesProofs --------------------------
(***************************************************************************)
(* Proofs about FirewallRules, for every configuration, every list of      *)
(* flows and every address width.                                          *)
(***************************************************************************)
EXTENDS FirewallRules, FiniteSetTheorems, WellFoundedInduction, TLAPS

USE DEF Flow, Evidence, RULE_EVIDENCE

-------------------------------------------------------------------------------
(* Type correctness.                                                       *)

\* The sources of a flow, configured or its own, are endpoints.
LEMMA SourcesAreEndpoints ==
    ASSUME config \in Configs, NEW f \in FlowPool
    PROVE  SourcesForFlow(f) \subseteq Endpoint
<1> DEFINE matching == {e \in config.expected :
                       /\ f.destination = [addr |-> e.host, len |-> Bits, slash |-> FALSE]
                       /\ e.protocol = f.protocol /\ e.port = f.port
                       /\ e.sources # {}}
<1>1. f.source \subseteq Endpoint
  BY FlowsAssumption
<1>2. CASE matching = {}
  BY <1>1, <1>2 DEF SourcesForFlow
<1>3. CASE matching # {}
  <2>1. (CHOOSE e \in matching : TRUE) \in matching
    BY <1>3
  <2> HIDE DEF matching
  <2>2. \A e \in matching : e.sources \subseteq Endpoint
    BY ConfigsAssumption DEF matching
  <2>3. SourcesForFlow(f) = (CHOOSE e \in matching : TRUE).sources
    BY <1>3 DEF SourcesForFlow, matching
  <2> QED BY <2>1, <2>2, <2>3
<1> QED BY <1>2, <1>3

\* The key of a flow and an endpoint.
LEMMA KeyOfType ==
    ASSUME NEW f \in FlowPool, NEW s \in Endpoint, f.destination \in Endpoint
    PROVE  KeyOf(f, s) \in Key
BY FlowsAssumption DEF KeyOf, Key

\* What an item and a rule look like.
LEMMA ReviewType ==
    ASSUME NEW S \in SUBSET Endpoint, NEW i \in Nat, NEW c,
           c \in {"Rule withheld", "Unsafe rule scope", "Overly broad rule",
                  "Approved-network policy"}
    PROVE  [sources |-> S, flow |-> i, category |-> c] \in Review
BY DEF Review

LEMMA RuleType ==
    ASSUME NEW k \in Key, NEW target, at \in Nat
    PROVE  RuleOf(target, k) \in Rule
BY DEF RuleOf, Rule, IsViolation, Violation

\* The effect of an inbound flow on the types.
LEMMA RegisterTypes ==
    ASSUME TypeOK, NEW f \in FlowPool, f.destination \in Endpoint,
           NEW fresh \in SUBSET Endpoint, NEW refused \in SUBSET Endpoint,
           Register(f, fresh, refused)
    PROVE  /\ seen' \subseteq Key
           /\ inbound' \subseteq Rule
           /\ reviews' \subseteq Review
<1>1. at \in Nat
  BY DEF TypeOK
<1>2. \A s \in fresh : KeyOf(f, s) \in Key
  BY KeyOfType
<1>3. \A s \in fresh : RuleOf(f.destination, KeyOf(f, s)) \in Rule
  BY <1>1, <1>2, RuleType
<1>4. \A s \in Endpoint : ScopeReview(s, {s}) \in Review /\ PolicyReview(s) \in Review
  BY <1>1, ReviewType DEF ScopeReview, PolicyReview
<1> QED BY <1>2, <1>3, <1>4 DEF Register, TypeOK

LEMMA TypeInductive == TypeOK /\ [Next]_vars => TypeOK'
<1> SUFFICES ASSUME TypeOK, [Next]_vars PROVE TypeOK'
  OBVIOUS
<1>0. /\ at \in Nat /\ Len(flows) \in Nat
      /\ \A i \in DOMAIN flows : flows[i] \in FlowPool /\ i \in 1..Len(flows)
  BY DEF TypeOK
<1>1. CASE InboundFlow
  <2> DEFINE f == flows[at]
  <2>1. f \in FlowPool /\ at' \in 1 .. Len(flows) + 1
    BY <1>0, <1>1 DEF InboundFlow
  <2>2. CASE ~IsCandidate(f, "inbound") /\ UNCHANGED <<seen, inbound, reviews>>
    BY <1>1, <2>1, <2>2 DEF InboundFlow, TypeOK
  <2>3. CASE IsCandidate(f, "inbound") /\ f.review /\ Withhold(f)
    <3>1. [sources |-> f.source, flow |-> at, category |-> "Rule withheld"] \in Review
      BY <1>0, <2>1, FlowsAssumption, ReviewType
    <3> QED BY <1>1, <2>1, <2>3, <3>1 DEF InboundFlow, Withhold, TypeOK
  <2>4. CASE IsCandidate(f, "inbound") /\ ~f.review /\ TakeInbound(f)
    <3> DEFINE refused == {s \in SourcesForFlow(f) : Refused(s)}
               fresh == {s \in SourcesForFlow(f) \ refused : KeyOf(f, s) \notin seen}
    <3>1. SourcesForFlow(f) \subseteq Endpoint
      BY <2>1, SourcesAreEndpoints DEF TypeOK
    <3>2. Register(f, fresh, refused)
      BY <2>4 DEF TakeInbound
    <3>3. f.destination \in Endpoint
      BY <2>1, FlowsAssumption
    <3>4. seen' \subseteq Key /\ inbound' \subseteq Rule /\ reviews' \subseteq Review
      <4> HIDE DEF f, refused, fresh
      <4>1. fresh \in SUBSET Endpoint /\ refused \in SUBSET Endpoint
        BY <3>1 DEF fresh, refused
      <4> QED BY <2>1, <3>2, <3>3, <4>1, RegisterTypes
    <3> QED BY <1>1, <2>1, <3>4 DEF InboundFlow, TypeOK
  <2> QED BY <1>1, <2>2, <2>3, <2>4 DEF InboundFlow
<1>2. CASE BeginOutbound
  BY <1>0, <1>2 DEF BeginOutbound, TypeOK
<1>3. CASE OutboundFlow
  <2> DEFINE f == flows[at]
             source == CHOOSE s \in f.source : TRUE
             key == KeyOf(f, source)
  <2>1. f \in FlowPool /\ at' \in 1 .. Len(flows) + 1
    BY <1>0, <1>3 DEF OutboundFlow
  <2>2. CASE ~IsCandidate(f, "outbound") /\ UNCHANGED <<seen, outbound, reviews>>
    BY <1>3, <2>1, <2>2 DEF OutboundFlow, TypeOK
  <2>3. CASE IsCandidate(f, "outbound") /\ f.review /\ Withhold(f)
    <3>1. [sources |-> f.source, flow |-> at, category |-> "Rule withheld"] \in Review
      BY <1>0, <2>1, FlowsAssumption, ReviewType
    <3> QED BY <1>3, <2>1, <2>3, <3>1 DEF OutboundFlow, Withhold, TypeOK
  <2>4. CASE IsCandidate(f, "outbound") /\ ~f.review /\ TakeOutbound(f)
    <3>1. source \in Endpoint /\ f.source \subseteq Endpoint /\ f.destination \in Endpoint
      BY <2>1, <2>4, FlowsAssumption DEF IsCandidate
    <3>2. key \in Key
      BY <2>1, <3>1, KeyOfType
    <3>3. RuleOf(source, key) \in Rule
      BY <1>0, <3>2, RuleType
    <3>4. PolicyReview(source) \in Review
      BY <1>0, <3>1, ReviewType DEF PolicyReview
    <3>5. ScopeReview(f.destination, f.source) \in Review
      BY <1>0, <3>1, ReviewType DEF ScopeReview
    <3>6. TypeOK /\ UNCHANGED inbound
      BY <1>3 DEF OutboundFlow
    <3> HIDE DEF source, key
    <3>7. /\ seen' \subseteq Key /\ outbound' \subseteq Rule /\ reviews' \subseteq Review
      BY <2>4, <3>2, <3>3, <3>4, <3>5, <3>6 DEF TakeOutbound, TypeOK, source, key
    <3> QED BY <1>3, <2>1, <3>7 DEF OutboundFlow, TypeOK
  <2> QED BY <1>3, <2>2, <2>3, <2>4 DEF OutboundFlow
<1>4. CASE FinishOutbound
  <2>1. \A r \in inbound : ReturnKey(r) \in Key /\ ReturnRule(r) \in Rule
    BY DEF TypeOK, Rule, Key, ReturnKey, ReturnRule
  <2>2. ReturnRules \subseteq inbound
    BY DEF ReturnRules
  <2> QED BY <1>4, <2>1, <2>2 DEF FinishOutbound, TypeOK
<1>5. CASE UNCHANGED vars
  BY <1>5 DEF vars, TypeOK
<1> QED BY <1>1, <1>2, <1>3, <1>4, <1>5 DEF Next

\* Every variable keeps its type, for every configuration and list of flows.
THEOREM TypeCorrect == Spec => []TypeOK
<1>1. Init => TypeOK
  <2> SUFFICES ASSUME Init PROVE TypeOK
    OBVIOUS
  <2>1. PICK n \in 0..MaxFlows : flows \in [1..n -> FlowPool]
    BY DEF Init
  <2>2. n \in Nat
    BY FlowsAssumption
  <2>3. flows \in Seq(FlowPool) /\ Len(flows) \in Nat
    BY <2>1, <2>2
  <2> QED BY <2>3 DEF Init, TypeOK
<1> QED BY <1>1, TypeInductive, PTL DEF Spec

-------------------------------------------------------------------------------
(* No two rules share a key, and no rule is any-to-any.                    *)

\* The rules so far: their ends, and that "seen" holds their keys.
RulesInv ==
    /\ KeysUnique
    /\ \A r \in inbound : r.key.port \in Ports /\ r.key.source.len # 0
    /\ \A r \in outbound : r.key.destination.len # 0
    /\ phase = "inbound" => outbound = {} /\ \A r \in inbound : r.key \in seen
    /\ phase = "outbound" => \A r \in outbound : r.key \in seen

\* Fresh keys make new rules, each with a source that was not refused.
LEMMA RegisterRules ==
    ASSUME TypeOK, RulesInv, phase = "inbound", NEW f \in FlowPool,
           NEW refused, NEW fresh \in SUBSET Endpoint,
           \A s \in fresh : ~Refused(s),
           \A s \in fresh : KeyOf(f, s) \notin seen,
           Register(f, fresh, refused)
    PROVE  /\ \A q, r \in inbound' : q.key = r.key => q = r
           /\ \A r \in inbound' : r.key.port \in Ports /\ r.key.source.len # 0
           /\ \A r \in inbound' : r.key \in seen'
<1> DEFINE new == {RuleOf(f.destination, KeyOf(f, s)) : s \in
                     fresh \ {s \in fresh : PolicyWithholds(f.destination, KeyOf(f, s))}}
<1>1. /\ inbound' = inbound \union new
      /\ seen' = seen \union {KeyOf(f, s) : s \in fresh}
  BY DEF Register
<1>2. \A r \in new : \E s \in fresh : r = RuleOf(f.destination, KeyOf(f, s))
  OBVIOUS
<1>3. \A s \in fresh : /\ RuleOf(f.destination, KeyOf(f, s)).key = KeyOf(f, s)
                      /\ KeyOf(f, s).port \in Ports
                      /\ KeyOf(f, s).source = s
                      /\ s.len # 0
  BY FlowsAssumption DEF RuleOf, KeyOf, Refused, ScopeProblem
<1> HIDE DEF new
<1>4. \A r \in new : r.key \notin seen /\ r.key \in seen'
                    /\ r.key.port \in Ports /\ r.key.source.len # 0
  BY <1>1, <1>2, <1>3
<1>5. \A q, r \in new : q.key = r.key => q = r
  BY <1>2, <1>3
<1> QED BY <1>1, <1>4, <1>5 DEF RulesInv, KeysUnique

\* Of the inbound rules with one return path a single one provides it.
LEMMA ReturnsUnique ==
    ASSUME TypeOK, RulesInv, NEW q \in ReturnRules, NEW r \in ReturnRules,
           ReturnKey(q) = ReturnKey(r)
    PROVE  q = r
<1>1. q \in inbound /\ r \in inbound
  BY DEF ReturnRules
<1>2. q.key.port \in Nat /\ r.key.port \in Nat
  BY <1>1, PortsAssumption DEF RulesInv
<1>3. q.key.port <= r.key.port /\ r.key.port <= q.key.port
  BY <1>1 DEF ReturnRules
<1>4. q.key.port = r.key.port
  BY <1>2, <1>3
<1>5. /\ q.key.source = r.key.source /\ q.key.destination = r.key.destination
      /\ q.key.protocol = r.key.protocol
  BY DEF ReturnKey
<1>6. q.key \in Key /\ r.key \in Key
  BY <1>1 DEF TypeOK, Rule
<1>7. q.key = r.key
  BY <1>4, <1>5, <1>6 DEF Key
<1> QED BY <1>1, <1>7 DEF RulesInv, KeysUnique

LEMMA RulesInductive == TypeOK /\ RulesInv /\ [Next]_vars => RulesInv'
<1> SUFFICES ASSUME TypeOK, RulesInv, [Next]_vars PROVE RulesInv'
  OBVIOUS
<1>0. \A i \in DOMAIN flows : flows[i] \in FlowPool
  BY DEF TypeOK
<1>1. CASE InboundFlow
  <2> DEFINE f == flows[at]
  <2>1. CASE UNCHANGED <<seen, inbound>>
    BY <1>1, <2>1 DEF InboundFlow, RulesInv, KeysUnique
  <2>2. CASE TakeInbound(f)
    <3> DEFINE refused == {s \in SourcesForFlow(f) : Refused(s)}
               fresh == {s \in SourcesForFlow(f) \ refused : KeyOf(f, s) \notin seen}
    <3>1. f \in FlowPool /\ phase = "inbound" /\ Register(f, fresh, refused)
      BY <1>0, <1>1, <2>2 DEF InboundFlow, TakeInbound
    <3>2. /\ fresh \in SUBSET Endpoint
          /\ \A s \in fresh : ~Refused(s) /\ KeyOf(f, s) \notin seen
      BY <3>1, SourcesAreEndpoints DEF TypeOK
    <3> HIDE DEF f, refused, fresh
    <3>3. /\ \A q, r \in inbound' : q.key = r.key => q = r
          /\ \A r \in inbound' : r.key.port \in Ports /\ r.key.source.len # 0
          /\ \A r \in inbound' : r.key \in seen'
      BY <3>1, <3>2, RegisterRules
    <3>4. phase' = "inbound" /\ outbound' = {}
      BY <1>1 DEF InboundFlow, RulesInv
    <3> QED BY <3>3, <3>4 DEF RulesInv, KeysUnique
  <2> QED BY <1>1, <2>1, <2>2 DEF InboundFlow, Withhold
<1>2. CASE BeginOutbound
  BY <1>2 DEF BeginOutbound, RulesInv, KeysUnique
<1>3. CASE OutboundFlow
  <2> DEFINE f == flows[at]
             source == CHOOSE s \in f.source : TRUE
             key == KeyOf(f, source)
             rule == RuleOf(source, key)
  <2>1. CASE UNCHANGED <<seen, outbound>>
    BY <1>3, <2>1 DEF OutboundFlow, RulesInv, KeysUnique
  <2>2. CASE /\ ~Refused(f.destination) /\ key \notin seen
             /\ seen' = seen \union {key} /\ outbound' = outbound \union {rule}
    <3>1. rule.key = key /\ key.destination = f.destination
      BY DEF RuleOf, KeyOf
    <3>2. key.destination.len # 0
      BY <2>2, <3>1 DEF Refused, ScopeProblem
    <3>3. phase = "outbound" /\ phase' = "outbound" /\ inbound' = inbound
      BY <1>3 DEF OutboundFlow
    <3> HIDE DEF key, rule
    <3> QED BY <2>2, <3>1, <3>2, <3>3 DEF RulesInv, KeysUnique
  <2> QED BY <1>3, <2>1, <2>2 DEF OutboundFlow, TakeOutbound, Withhold
<1>4. CASE FinishOutbound
  <2> DEFINE new == {ReturnRule(r) : r \in ReturnRules}
  <2>1. ReturnRules \subseteq inbound /\ \A r \in ReturnRules : ReturnKey(r) \notin seen
    BY DEF ReturnRules
  <2>2. \A r \in ReturnRules : ReturnRule(r).key = ReturnKey(r)
    BY DEF ReturnRule
  <2>3. \A r \in ReturnRules : ReturnKey(r).destination.len # 0
    BY <2>1 DEF RulesInv, ReturnKey
  <2>4. \A x \in new : x.key \notin seen /\ x.key.destination.len # 0
    BY <2>1, <2>2, <2>3
  <2>5. \A x, y \in new : x.key = y.key => x = y
    BY <2>2, ReturnsUnique
  <2>6. /\ phase = "outbound" /\ phase' = "done" /\ inbound' = inbound
        /\ outbound' = outbound \union new
    BY <1>4 DEF FinishOutbound
  <2> HIDE DEF new
  <2> QED BY <2>4, <2>5, <2>6 DEF RulesInv, KeysUnique
<1>5. CASE UNCHANGED vars
  BY <1>5 DEF vars, RulesInv, KeysUnique
<1> QED BY <1>1, <1>2, <1>3, <1>4, <1>5 DEF Next

LEMMA RulesInvariant == Spec => []RulesInv
<1>1. Init => RulesInv
  BY DEF Init, RulesInv, KeysUnique
<1> QED BY <1>1, TypeCorrect, RulesInductive, PTL DEF Spec

\* The lists never hold two rules with one key, return paths included.
THEOREM RulesUnique == Spec => []KeysUnique
<1>1. RulesInv => KeysUnique
  BY DEF RulesInv
<1> QED BY <1>1, RulesInvariant, PTL

\* No rule has an "any" at both ends.  Each function checks one end only; the
\* return paths inherit the check of the inbound list.
THEOREM NoAnyAny == Spec => []NeverAnyAny
<1>1. RulesInv => NeverAnyAny
  BY DEF RulesInv, NeverAnyAny
<1> QED BY <1>1, RulesInvariant, PTL

-------------------------------------------------------------------------------
(* Return paths.                                                           *)

\* A nonempty set of naturals has a least element.
LEMMA Least ==
    ASSUME NEW T \in SUBSET Nat, T # {}
    PROVE  \E p \in T : \A q \in T : p <= q
<1> DEFINE less == {ss \in Nat \X Nat : ss[1] < ss[2]}
<1>1. IsWellFoundedOn(less, Nat)
  BY NatLessThanWellFounded, Zenon DEF OpToRel
<1> HIDE DEF less
<1>2. PICK p \in T : \A q \in T : ~(<<q, p>> \in less)
  BY <1>1, WFMin
<1>3. \A q \in T : ~(q < p)
  BY <1>2 DEF less
<1> QED BY <1>2, <1>3

\* Until the return rules are added no rule and no key has their port, so none of
\* them is taken for a duplicate.
PortsInv ==
    /\ phase # "done" => \A r \in outbound : r.key.port \in Ports
    /\ phase = "outbound" => \A k \in seen : k.port \in Ports

LEMMA PortsInductive ==
    ASSUME TypeOK, RulesInv, PortsInv, [Next]_vars
    PROVE  PortsInv'
<1>1. CASE InboundFlow
  BY <1>1 DEF InboundFlow, PortsInv
<1>2. CASE BeginOutbound
  BY <1>2 DEF BeginOutbound, PortsInv
<1>3. CASE OutboundFlow
  <2> DEFINE f == flows[at]
             source == CHOOSE s \in f.source : TRUE
             key == KeyOf(f, source)
             rule == RuleOf(source, key)
  <2>1. f \in FlowPool /\ phase = "outbound" /\ phase' = "outbound"
    BY <1>3 DEF OutboundFlow, TypeOK
  <2>2. key.port \in Ports /\ rule.key = key
    BY <2>1, FlowsAssumption DEF KeyOf, RuleOf
  <2>3. /\ seen' = seen \/ seen' = seen \union {key}
        /\ outbound' = outbound \/ outbound' = outbound \union {rule}
    BY <1>3 DEF OutboundFlow, TakeOutbound, Withhold
  <2> HIDE DEF f, source, key, rule
  <2> QED BY <2>1, <2>2, <2>3 DEF PortsInv
<1>4. CASE FinishOutbound
  BY <1>4 DEF FinishOutbound, PortsInv
<1>5. CASE UNCHANGED vars
  BY <1>5 DEF vars, PortsInv
<1> QED BY <1>1, <1>2, <1>3, <1>4, <1>5 DEF Next

\* Every inbound rule of a stateless run has a rule that provides its return path.
LEMMA ReturnProvided ==
    ASSUME TypeOK, RulesInv, PortsInv, phase = "outbound", config.stateless, NEW r \in inbound
    PROVE  \E q \in ReturnRules : ReturnKey(q) = ReturnKey(r)
<1> DEFINE alike == {q \in inbound : ReturnKey(q) = ReturnKey(r)}
           T == {q.key.port : q \in alike}
<1>1. T \in SUBSET Nat /\ T # {}
  BY PortsAssumption DEF RulesInv
<1>2. PICK p \in T : \A t \in T : p <= t
  BY <1>1, Least
<1>3. PICK q \in alike : q.key.port = p
  BY <1>2
<1>4. \A x \in inbound : ReturnKey(x) = ReturnKey(q) => q.key.port <= x.key.port
  BY <1>2, <1>3
<1>5. ReturnKey(q) \notin seen
  BY PortsAssumption DEF PortsInv, ReturnKey
<1> QED BY <1>3, <1>4, <1>5 DEF ReturnRules

\* What FinishOutbound adds.
PathsInv == PortsInv /\ ReturnPaths

LEMMA PathsInductive ==
    ASSUME TypeOK, RulesInv, PathsInv, [Next]_vars
    PROVE  PathsInv'
<1>1. PortsInv'
  BY PortsInductive DEF PathsInv
<1>2. CASE FinishOutbound
  <2> DEFINE new == {ReturnRule(r) : r \in ReturnRules}
  <2>1. /\ phase = "outbound" /\ outbound' = outbound \union new
        /\ inbound' = inbound /\ config' = config
    BY <1>2 DEF FinishOutbound
  <2>2. \A r \in ReturnRules : ReturnRule(r).key = ReturnKey(r) /\ ReturnKey(r).port = Ephemeral
    BY DEF ReturnRule, ReturnKey
  <2>3. \A r \in outbound : r.key.port # Ephemeral
    BY <2>1, PortsAssumption DEF PathsInv, PortsInv
  <2>4. \A r \in inbound : r.key.port # Ephemeral
    BY PortsAssumption DEF RulesInv
  <2>5. outbound' \ Direct' = new
    BY <2>1, <2>2, <2>3, <2>4 DEF Direct
  <2>6. {r.key : r \in new} = {ReturnKey(r) : r \in ReturnRules}
    BY <2>2
  <2>7. CASE config.stateless
    <3>1. {ReturnKey(r) : r \in ReturnRules} = {ReturnKey(r) : r \in inbound}
      BY <2>1, <2>7, ReturnProvided DEF ReturnRules, PathsInv
    <3>2. \A r : ReturnKey(r)' = ReturnKey(r)
      BY DEF ReturnKey
    <3> HIDE DEF new
    <3> QED BY <1>1, <2>1, <2>5, <2>6, <2>7, <3>1, <3>2 DEF ReturnPaths, PathsInv
  <2>8. CASE ~config.stateless
    <3>1. new = {}
      BY <2>8 DEF ReturnRules
    <3> HIDE DEF new
    <3> QED BY <1>1, <2>1, <2>5, <2>8, <3>1 DEF ReturnPaths, PathsInv
  <2> QED BY <2>7, <2>8
<1>3. CASE InboundFlow \/ BeginOutbound \/ OutboundFlow
  BY <1>1, <1>3 DEF InboundFlow, BeginOutbound, OutboundFlow, ReturnPaths, PathsInv
<1>4. CASE UNCHANGED vars
  BY <1>1, <1>4 DEF vars, PathsInv, ReturnPaths, ReturnKey, Direct
<1> QED BY <1>2, <1>3, <1>4 DEF Next

\* A stateless run lets answers back to every source it lets in and to no one else; a
\* stateful one opens no return path: the filter on keys already seen removes none.
THEOREM ReturnsMatch == Spec => []ReturnPaths
<1>1. Init => PathsInv
  BY DEF Init, PathsInv, PortsInv, ReturnPaths
<1>2. TypeOK /\ RulesInv /\ PathsInv /\ [Next]_vars => PathsInv'
  BY PathsInductive
<1>3. PathsInv => ReturnPaths
  BY DEF PathsInv
<1> QED BY <1>1, <1>2, <1>3, TypeCorrect, RulesInvariant, PTL DEF Spec

-------------------------------------------------------------------------------
(* Every source of every candidate flow is accounted for.                  *)

\* An item of an inbound flow names source s under the key of f and s.
InboundReview(k) ==
    \E v \in reviews :
        /\ k.source \in v.sources /\ v.flow \in DOMAIN flows
        /\ flows[v.flow].direction = "inbound"
        /\ KeyOf(flows[v.flow], k.source) = k

\* The flows the two functions have finished.
Done(i) == IF flows[i].direction = "inbound"
           THEN phase # "inbound" \/ i < at
           ELSE phase = "done" \/ (phase = "outbound" /\ i < at)

\* Finished flows are covered, and so is whatever "seen" suppresses: for an
\* inbound key by a rule or the item that withheld it, for an outbound one by
\* a rule.
CoverageInv ==
    /\ \A i \in DOMAIN flows :
         flows[i].evidence \in RULE_EVIDENCE /\ Done(i) => Covered(flows[i])
    /\ phase = "inbound" => \A k \in seen : (\E r \in inbound : r.key = k) \/ InboundReview(k)
    /\ phase = "outbound" => \A k \in seen : \E r \in outbound : r.key = k

\* Rules and items are only added, so what is covered stays covered.
LEMMA CoveredStays ==
    ASSUME UNCHANGED <<config, flows>>, inbound \subseteq inbound',
           outbound \subseteq outbound', reviews \subseteq reviews'
    PROVE  /\ \A f : Covered(f) => Covered(f)'
           /\ \A k : InboundReview(k) => InboundReview(k)'
<1>1. \A f : ItsSources(f)' = ItsSources(f)
  BY DEF ItsSources, SourcesForFlow
<1>2. \A f, s : HasRule(f, s) => HasRule(f, s)'
  BY DEF HasRule, KeyOf
<1>3. \A f, s : HasReview(f, s) => HasReview(f, s)'
  BY DEF HasReview, KeyOf
<1>4. \A k : InboundReview(k) => InboundReview(k)'
  BY DEF InboundReview, KeyOf
<1> QED BY <1>1, <1>2, <1>3, <1>4 DEF Covered

\* Each step only adds rules and items.
LEMMA OnlyAdded ==
    ASSUME [Next]_vars
    PROVE  /\ UNCHANGED <<config, flows>>
           /\ inbound \subseteq inbound' /\ outbound \subseteq outbound'
           /\ reviews \subseteq reviews'
BY DEF Next, vars, InboundFlow, BeginOutbound, OutboundFlow, FinishOutbound,
       Withhold, TakeInbound, Register, TakeOutbound

\* A withheld flow is covered by its item.
LEMMA WithholdCovers ==
    ASSUME TypeOK, at \in DOMAIN flows, NEW f, f = flows[at], f.review, Withhold(f),
           UNCHANGED <<config, flows>>
    PROVE  Covered(f)'
<1> DEFINE v == [sources |-> f.source, flow |-> at, category |-> "Rule withheld"]
<1>1. v \in reviews'
  BY DEF Withhold
<1>2. \A s \in f.source : HasReview(f, s)'
  BY <1>1 DEF HasReview, KeyOf
<1>3. ItsSources(f)' = f.source
  BY DEF ItsSources
<1> QED BY <1>2, <1>3 DEF Covered

\* An inbound flow: each source is refused, seen before, or registered.
LEMMA TakeInboundCovers ==
    ASSUME TypeOK, CoverageInv, phase = "inbound", at \in DOMAIN flows,
           NEW f, f = flows[at], IsCandidate(f, "inbound"), ~f.review,
           TakeInbound(f), UNCHANGED <<config, flows, outbound>>
    PROVE  /\ Covered(f)'
           /\ \A k \in seen' : (\E r \in inbound' : r.key = k) \/ InboundReview(k)'
<1> DEFINE refused == {s \in SourcesForFlow(f) : Refused(s)}
           fresh == {s \in SourcesForFlow(f) \ refused : KeyOf(f, s) \notin seen}
           withheld == {s \in fresh : PolicyWithholds(f.destination, KeyOf(f, s))}
<1>1. /\ seen' = seen \union {KeyOf(f, s) : s \in fresh}
      /\ inbound' = inbound \union {RuleOf(f.destination, KeyOf(f, s)) : s \in fresh \ withheld}
      /\ reviews' = reviews \union {ScopeReview(s, {s}) : s \in refused}
                           \union {PolicyReview(s) : s \in withheld}
  BY DEF TakeInbound, Register
<1>2. f.direction = "inbound"
  BY DEF IsCandidate
<1> HIDE DEF refused, withheld
<1>3. \A s \in refused : HasReview(f, s)'
  <2> TAKE s \in refused
  <2>1. ScopeReview(s, {s}) \in reviews'
    BY <1>1
  <2>2. s \in ScopeReview(s, {s}).sources /\ ScopeReview(s, {s}).flow = at
    BY DEF ScopeReview
  <2> QED BY <2>1, <2>2 DEF HasReview, KeyOf
<1>4. \A s \in withheld : HasReview(f, s)' /\ InboundReview(KeyOf(f, s))'
  <2> TAKE s \in withheld
  <2>1. PolicyReview(s) \in reviews'
    BY <1>1
  <2>2. s \in PolicyReview(s).sources /\ PolicyReview(s).flow = at
    BY DEF PolicyReview
  <2>3. KeyOf(f, s).source = s
    BY DEF KeyOf
  <2> QED BY <1>2, <2>1, <2>2, <2>3 DEF HasReview, InboundReview, KeyOf
<1>5. \A s \in fresh \ withheld : \E r \in inbound' : r.key = KeyOf(f, s)
  <2> HIDE DEF fresh
  <2> TAKE s \in fresh \ withheld
  <2>1. RuleOf(f.destination, KeyOf(f, s)) \in inbound'
    BY <1>1
  <2>2. RuleOf(f.destination, KeyOf(f, s)).key = KeyOf(f, s)
    BY DEF RuleOf
  <2> QED BY <2>1, <2>2
<1>6. \A k \in seen : (\E r \in inbound' : r.key = k) \/ InboundReview(k)'
  <2>1. \A k \in seen : (\E r \in inbound : r.key = k) \/ InboundReview(k)
    BY DEF CoverageInv
  <2>2. inbound \subseteq inbound' /\ reviews \subseteq reviews'
    BY <1>1
  <2>3. \A k : InboundReview(k) => InboundReview(k)'
    BY <2>2, CoveredStays
  <2> QED BY <2>1, <2>2, <2>3
<1>7. \A k \in seen' : (\E r \in inbound' : r.key = k) \/ InboundReview(k)'
  BY <1>1, <1>4, <1>5, <1>6
<1>8. \A s \in SourcesForFlow(f) \ refused : HasRule(f, s)' \/ HasReview(f, s)'
  <2> TAKE s \in SourcesForFlow(f) \ refused
  <2>1. KeyOf(f, s) \in seen' /\ KeyOf(f, s).source = s
    BY <1>1 DEF KeyOf
  <2>2. CASE \E r \in inbound' : r.key = KeyOf(f, s)
    BY <2>2 DEF HasRule, KeyOf
  <2>3. CASE InboundReview(KeyOf(f, s))'
    BY <1>2, <2>1, <2>3 DEF InboundReview, HasReview, KeyOf
  <2> QED BY <1>7, <2>1, <2>2, <2>3
<1>9. ItsSources(f)' = SourcesForFlow(f)
  BY <1>2 DEF ItsSources, SourcesForFlow
<1>10. Covered(f)'
  BY <1>3, <1>8, <1>9 DEF Covered
<1> QED BY <1>7, <1>10

\* An outbound flow: its destination is refused, its key was seen, its rule is
\* withheld, or it has a rule.
LEMMA TakeOutboundCovers ==
    ASSUME TypeOK, CoverageInv, phase = "outbound", at \in DOMAIN flows,
           NEW f, f = flows[at], IsCandidate(f, "outbound"), TakeOutbound(f),
           UNCHANGED <<config, flows, inbound>>
    PROVE  /\ Covered(f)'
           /\ \A k \in seen' : \E r \in outbound' : r.key = k
<1> DEFINE source == CHOOSE s \in f.source : TRUE
           key == KeyOf(f, source)
<1>1. f.direction = "outbound" /\ f.source = {source}
  <2>1. f \in FlowPool /\ f.direction = "outbound"
    BY DEF TypeOK, IsCandidate
  <2>2. \E m \in Network : f.source = {m}
    BY <2>1, FlowsAssumption
  <2> QED BY <2>1, <2>2
<1>2. ItsSources(f)' = {source}
  BY <1>1 DEF ItsSources
<1> SUFFICES /\ HasRule(f, source)' \/ HasReview(f, source)'
             /\ \A k \in seen' : \E r \in outbound' : r.key = k
  BY <1>2 DEF Covered
<1>3. \A k \in seen : \E r \in outbound : r.key = k
  BY DEF CoverageInv
<1> HIDE DEF source
<1>4. CASE /\ reviews' = reviews \union {ScopeReview(f.destination, f.source)}
           /\ UNCHANGED <<seen, outbound>>
  <2>1. /\ ScopeReview(f.destination, f.source).sources = f.source
        /\ ScopeReview(f.destination, f.source).flow = at
    BY DEF ScopeReview
  <2> QED BY <1>1, <1>3, <1>4, <2>1 DEF HasReview, KeyOf
<1>5. CASE key \in seen /\ UNCHANGED <<seen, outbound, reviews>>
  BY <1>3, <1>5 DEF HasRule, KeyOf
<1>6. CASE reviews' = reviews \union {PolicyReview(source)} /\ UNCHANGED <<seen, outbound>>
  <2>1. source \in PolicyReview(source).sources /\ PolicyReview(source).flow = at
    BY DEF PolicyReview
  <2> QED BY <1>3, <1>6, <2>1 DEF HasReview, KeyOf
<1>7. CASE seen' = seen \union {key} /\ outbound' = outbound \union {RuleOf(source, key)}
  <2>1. RuleOf(source, key).key = key
    BY DEF RuleOf
  <2> QED BY <1>3, <1>7, <2>1 DEF HasRule, KeyOf
<1> QED BY <1>4, <1>5, <1>6, <1>7 DEF TakeOutbound, source

LEMMA CoverageInductive == TypeOK /\ CoverageInv /\ [Next]_vars => CoverageInv'
<1> SUFFICES ASSUME TypeOK, CoverageInv, [Next]_vars PROVE CoverageInv'
  OBVIOUS
<1>1. /\ UNCHANGED <<config, flows>>
      /\ inbound \subseteq inbound' /\ outbound \subseteq outbound'
      /\ reviews \subseteq reviews'
  BY OnlyAdded
<1>2. \A i \in DOMAIN flows : flows[i].evidence \in RULE_EVIDENCE /\ Done(i)
                             => Covered(flows[i])'
  BY <1>1, CoveredStays DEF CoverageInv
<1>3. /\ DOMAIN flows = 1..Len(flows) /\ Len(flows) \in Nat /\ at \in Nat
      /\ \A i \in DOMAIN flows : flows[i].direction \in {"inbound", "outbound"}
  BY FlowsAssumption DEF TypeOK
<1> PICK n : n = at
  OBVIOUS
<1> PICK f : f = flows[n]
  OBVIOUS
<1>4. CASE InboundFlow
  <2>1. \A i \in DOMAIN flows : Done(i)' /\ i # n => Done(i)
    BY <1>1, <1>3, <1>4 DEF InboundFlow, Done
  <2>2. CASE ~IsCandidate(f, "inbound") /\ UNCHANGED <<seen, inbound, reviews>>
    <3>1. Done(n)' => f.evidence \notin RULE_EVIDENCE
      BY <1>1, <1>4, <2>2 DEF InboundFlow, Done, IsCandidate
    <3>2. UNCHANGED <<seen, inbound, reviews, flows, phase>> /\ phase = "inbound"
      BY <1>1, <1>4, <2>2 DEF InboundFlow
    <3>3. \A k \in seen' : (\E r \in inbound' : r.key = k) \/ InboundReview(k)'
      BY <1>1, <3>2, CoveredStays DEF CoverageInv
    <3> QED BY <1>1, <1>2, <2>1, <3>1, <3>2, <3>3 DEF CoverageInv
  <2>3. CASE f.review /\ Withhold(f)
    <3>1. Covered(f)'
      BY <1>1, <1>4, <2>3, WithholdCovers DEF InboundFlow
    <3>2. UNCHANGED <<seen, inbound, flows, phase>> /\ phase = "inbound"
      BY <1>1, <1>4, <2>3 DEF InboundFlow, Withhold
    <3>3. \A k \in seen' : (\E r \in inbound' : r.key = k) \/ InboundReview(k)'
      BY <1>1, <3>2, CoveredStays DEF CoverageInv
    <3> QED BY <1>1, <1>2, <2>1, <3>1, <3>2, <3>3 DEF CoverageInv
  <2>4. CASE IsCandidate(f, "inbound") /\ ~f.review /\ TakeInbound(f)
    <3>1. /\ Covered(f)'
          /\ \A k \in seen' : (\E r \in inbound' : r.key = k) \/ InboundReview(k)'
      BY <1>1, <1>4, <2>4, TakeInboundCovers DEF InboundFlow
    <3>2. phase' = "inbound"
      BY <1>4 DEF InboundFlow
    <3> QED BY <1>1, <1>2, <2>1, <3>1, <3>2 DEF CoverageInv
  <2> QED BY <1>4, <2>2, <2>3, <2>4 DEF InboundFlow
<1>5. CASE BeginOutbound
  <2>1. \A i \in DOMAIN flows : Done(i)' => Done(i)
    BY <1>1, <1>3, <1>5 DEF BeginOutbound, Done
  <2> QED BY <1>1, <1>2, <1>5, <2>1 DEF BeginOutbound, CoverageInv
<1>6. CASE OutboundFlow
  <2>1. \A i \in DOMAIN flows : Done(i)' /\ i # n => Done(i)
    BY <1>1, <1>3, <1>6 DEF OutboundFlow, Done
  <2>2. phase = "outbound" /\ phase' = "outbound"
    BY <1>6 DEF OutboundFlow
  <2>3. CASE ~IsCandidate(f, "outbound") /\ UNCHANGED <<seen, outbound, reviews>>
    <3>1. Done(n)' => f.evidence \notin RULE_EVIDENCE \/ Done(n)
      BY <1>1, <1>3, <1>6, <2>2, <2>3 DEF OutboundFlow, Done, IsCandidate
    <3> QED BY <1>1, <1>2, <2>1, <2>2, <2>3, <3>1 DEF CoverageInv
  <2>4. CASE f.review /\ Withhold(f)
    <3>1. Covered(f)'
      BY <1>1, <1>6, <2>4, WithholdCovers DEF OutboundFlow
    <3> QED BY <1>1, <1>2, <2>1, <2>2, <2>4, <3>1 DEF CoverageInv, Withhold
  <2>5. CASE IsCandidate(f, "outbound") /\ TakeOutbound(f)
    <3>1. /\ Covered(f)'
          /\ \A k \in seen' : \E r \in outbound' : r.key = k
      BY <1>1, <1>6, <2>5, TakeOutboundCovers DEF OutboundFlow
    <3> QED BY <1>1, <1>2, <2>1, <2>2, <3>1 DEF CoverageInv
  <2> QED BY <1>6, <2>3, <2>4, <2>5 DEF OutboundFlow
<1>7. CASE FinishOutbound
  <2>1. \A i \in DOMAIN flows : Done(i)
    BY <1>3, <1>7 DEF FinishOutbound, Done
  <2> QED BY <1>1, <1>2, <1>7, <2>1 DEF FinishOutbound, CoverageInv
<1>8. CASE UNCHANGED vars
  <2>1. UNCHANGED <<seen, inbound, outbound, reviews, flows, phase, at>>
    BY <1>8 DEF vars
  <2>2. \A i \in DOMAIN flows : Done(i)' => Done(i)
    BY <2>1 DEF Done
  <2>3. \A k : InboundReview(k) => InboundReview(k)'
    BY <1>1, CoveredStays
  <2> QED BY <1>1, <1>2, <2>1, <2>2, <2>3 DEF CoverageInv
<1> QED BY <1>4, <1>5, <1>6, <1>7, <1>8 DEF Next

\* Each source of each candidate flow ends in a rule or in a review item.
THEOREM NothingDisappears == Spec => []Accounted
<1>1. Init => CoverageInv
  BY FlowsAssumption DEF Init, CoverageInv, Done, Flow
<1>2. CoverageInv => Accounted
  BY DEF CoverageInv, Accounted, Done
<1> QED BY <1>1, <1>2, TypeCorrect, CoverageInductive, PTL DEF Spec

-------------------------------------------------------------------------------
(* The approved networks.  The code compares prefix lengths and network    *)
(* numbers; what README section 13 promises is about addresses.  First,    *)
(* the one says what the other says.                                       *)

\* A set of numbers with 0 that has k + 1 whenever it has k < n has all of 0..n.
LEMMA Counting ==
    ASSUME NEW n \in Nat, NEW T, 0 \in T, \A k \in 0..(n - 1) : k \in T => k + 1 \in T
    PROVE  0..n \subseteq T
<1> SUFFICES ASSUME (0..n) \ T # {}
             PROVE  FALSE
  OBVIOUS
<1>1. PICK p \in (0..n) \ T : \A q \in (0..n) \ T : p <= q
  BY Least, (0..n) \ T \in SUBSET Nat
<1>2. p # 0 /\ p - 1 \in 0..(n - 1) /\ p - 1 \in 0..n /\ ~(p <= p - 1) /\ p - 1 + 1 = p
  BY <1>1
<1> QED  BY <1>1, <1>2

\* The powers of two count the subsets of an interval.
LEMMA Power == \A k \in Nat : 2^k \in Nat \ {0} /\ 2^(k + 1) = 2 * 2^k
<1> SUFFICES ASSUME NEW k \in Nat
             PROVE  2^k \in Nat \ {0} /\ 2^(k + 1) = 2 * 2^k
  OBVIOUS
<1> DEFINE S == SUBSET (1..k)
           U == {s \union {k + 1} : s \in S}
           add == [s \in S |-> s \union {k + 1}]
<1>1. /\ IsFiniteSet(1..k) /\ Cardinality(1..k) = k
      /\ IsFiniteSet(1..(k + 1)) /\ Cardinality(1..(k + 1)) = k + 1
  BY FS_Interval
<1>2. IsFiniteSet(S) /\ Cardinality(S) = 2^k /\ Cardinality(SUBSET (1..(k + 1))) = 2^(k + 1)
  BY <1>1, FS_SUBSET
<1>3. add \in Bijection(S, U)
  <2>1. add \in Surjection(S, U)
    BY DEF Surjection
  <2>2. \A s, t \in S : add[s] = add[t] => s = t
    OBVIOUS
  <2> QED  BY <2>1, <2>2 DEF Bijection, Injection, IsInjective, Surjection
<1>4. IsFiniteSet(U) /\ Cardinality(U) = Cardinality(S)
  <2>1. ExistsBijection(S, U)
    BY <1>3 DEF ExistsBijection
  <2> QED  BY <1>2, <2>1, FS_Bijection, Zenon
<1>5. SUBSET (1..(k + 1)) = S \union U
  <2>1. \A s \in SUBSET (1..(k + 1)) : s \in S \union U
    <3> SUFFICES ASSUME NEW s \in SUBSET (1..(k + 1)), s \notin S
                 PROVE  s \in U
      OBVIOUS
    <3>1. s \ {k + 1} \in S /\ s = (s \ {k + 1}) \union {k + 1}
      OBVIOUS
    <3> QED  BY <3>1
  <2>2. \A s \in S \union U : s \in SUBSET (1..(k + 1))
    OBVIOUS
  <2> HIDE DEF S, U
  <2> QED  BY <2>1, <2>2
<1>6. S \intersect U = {}
  OBVIOUS
<1> HIDE DEF S, U, add
<1>7. Cardinality(S \union U) = Cardinality(S) + Cardinality(U)
  <2>1. Cardinality(S \intersect U) = 0
    BY <1>6, FS_EmptySet, Zenon
  <2>2. Cardinality(S \union U) = Cardinality(S) + Cardinality(U) - Cardinality(S \intersect U)
    BY <1>2, <1>4, FS_Union, Zenon
  <2>3. Cardinality(S) \in Nat /\ Cardinality(U) \in Nat
    BY <1>2, <1>4, FS_CardinalityType, Zenon
  <2> QED  BY <2>1, <2>2, <2>3
<1>8. Cardinality(S) # 0
  BY <1>2, FS_EmptySet DEF S
<1>9. Cardinality(S) \in Nat
  BY <1>2, FS_CardinalityType, Zenon
<1>10. 2^(k + 1) = Cardinality(S) + Cardinality(S)
  BY <1>2, <1>4, <1>5, <1>7, Zenon
<1> QED  BY <1>2, <1>8, <1>9, <1>10

LEMMA Halve == ASSUME NEW a \in Nat, NEW e \in Nat \ {0}
  PROVE a \div (2 * e) = (a \div e) \div 2
<1> DEFINE q == a \div e
           r == a % e
           h == q \div 2
           b == q % 2
<1>1. q \in Nat /\ r \in 0..(e - 1) /\ a = e * q + r
  OBVIOUS
<1>2. h \in Nat /\ b \in 0..1 /\ q = 2 * h + b
  BY <1>1
<1> HIDE DEF q, r, h, b
<1>3. a = (2 * e) * h + (e * b + r)
  BY <1>1, <1>2, SMTT(30)
<1>4. e * b + r \in 0..(2 * e - 1)
  <2>1. b = 0 \/ b = 1
    BY <1>2
  <2> QED BY <1>1, <2>1
<1>5. a \div (2 * e) = h
  BY <1>2, <1>3, <1>4, SMTT(30)
<1> QED BY <1>5 DEF h, q

\* One bit less of a prefix is half of it.
LEMMA PrefixHalves ==
    ASSUME NEW a \in Address, NEW len \in 0..(Bits - 1)
    PROVE  Prefix(a, len + 1) \in Nat /\ Prefix(a, len) = Prefix(a, len + 1) \div 2
<1> DEFINE k == Bits - (len + 1)
<1>1. k \in Nat /\ Bits - len = k + 1 /\ a \in Nat
  BY BitsAssumption DEF Address
<1>2. 2^k \in Nat \ {0} /\ 2^(Bits - len) = 2 * 2^k
  BY <1>1, Power
<1> HIDE DEF k
<1>3. a \div 2^k \in Nat
  BY <1>1, <1>2
<1>4. a \div (2 * 2^k) = (a \div 2^k) \div 2
  BY <1>1, <1>2, Halve
<1> QED  BY <1>2, <1>3, <1>4 DEF Prefix, k

\* Addresses that share a prefix share every shorter one.
LEMMA Coarser ==
    ASSUME NEW m \in 0..Bits, NEW a \in Address, NEW b \in Address,
           Prefix(a, m) = Prefix(b, m), NEW l \in 0..m
    PROVE  Prefix(a, l) = Prefix(b, l)
<1> DEFINE T == {d \in 0..m : Prefix(a, m - d) = Prefix(b, m - d)}
<1>1. 0 \in T
  BY BitsAssumption
<1>2. \A d \in 0..(m - 1) : d \in T => d + 1 \in T
  <2> SUFFICES ASSUME NEW d \in 0..(m - 1), d \in T
               PROVE  d + 1 \in T
    OBVIOUS
  <2>1. m - (d + 1) \in 0..(Bits - 1) /\ m - (d + 1) + 1 = m - d /\ d + 1 \in 0..m
    BY BitsAssumption
  <2>2. /\ Prefix(a, m - (d + 1)) = Prefix(a, m - d) \div 2
        /\ Prefix(b, m - (d + 1)) = Prefix(b, m - d) \div 2
    BY <2>1, PrefixHalves
  <2> QED  BY <2>1, <2>2
<1> HIDE DEF T
<1>3. 0..m \subseteq T
  BY <1>1, <1>2, Counting, BitsAssumption
<1>4. m - l \in 0..m /\ m - (m - l) = l
  OBVIOUS
<1> QED  BY <1>3, <1>4 DEF T

\* The addresses are 2^l blocks of one size.
LEMMA Blocks == \A l \in 0..Bits : 2^Bits = 2^(Bits - l) * 2^l
<1> DEFINE T == {l \in 0..Bits : 2^Bits = 2^(Bits - l) * 2^l}
<1>1. 0 \in T
  BY BitsAssumption, Power, 2^0 = 1
<1>2. \A l \in 0..(Bits - 1) : l \in T => l + 1 \in T
  <2> SUFFICES ASSUME NEW l \in 0..(Bits - 1), l \in T
               PROVE  l + 1 \in T
    OBVIOUS
  <2> DEFINE e == 2^(Bits - (l + 1))
             t == 2^l
  <2>1. Bits - (l + 1) \in Nat /\ Bits - (l + 1) + 1 = Bits - l /\ l \in Nat /\ l + 1 \in 0..Bits
    BY BitsAssumption
  <2>2. e \in Nat /\ t \in Nat /\ 2^(Bits - l) = 2 * e /\ 2^(l + 1) = 2 * t
    BY <2>1, Power
  <2>3. 2^Bits = (2 * e) * t
    BY <2>2
  <2> HIDE DEF e, t
  <2>4. (2 * e) * t = e * (2 * t)
    BY <2>2
  <2> QED  BY <2>1, <2>2, <2>3, <2>4 DEF e
<1> HIDE DEF T
<1> QED  BY <1>1, <1>2, Counting, BitsAssumption DEF T

\* A block of more than one address has two halves.
LEMMA TwoHalves ==
    ASSUME NEW a \in Address, NEW len \in 0..(Bits - 1)
    PROVE  \E b \in Address : /\ Prefix(b, len) = Prefix(a, len)
                              /\ Prefix(b, len + 1) # Prefix(a, len + 1)
<1> DEFINE e == 2^(Bits - (len + 1))
           t == 2^len
           d == a \div e
           q == d \div 2
           r == a % e
<1>1. /\ Bits - (len + 1) \in Nat /\ Bits - (len + 1) + 1 = Bits - len
      /\ len \in Nat /\ len \in 0..Bits
  BY BitsAssumption
<1>2. e \in Nat \ {0} /\ t \in Nat /\ 2^(Bits - len) = 2 * e
  BY <1>1, Power
<1>3. 2^Bits = (2 * e) * t
  BY <1>1, <1>2, Blocks
<1>4. a \in Nat /\ a < (2 * e) * t
  BY <1>2, <1>3 DEF Address
<1> HIDE DEF e, t
<1>5. d \in Nat /\ r \in 0..(e - 1) /\ a = e * d + r
  BY <1>2, <1>4
<1> HIDE DEF r
<1>6. q \in Nat /\ (d = 2 * q \/ d = 2 * q + 1)
  BY <1>5
<1>7. Prefix(a, len + 1) = d
  BY DEF Prefix, e
<1>8. Prefix(a, len) = q
  BY <1>7, PrefixHalves
<1>9. \A b \in Address : b \div e = Prefix(b, len + 1)
  BY DEF Prefix, e
<1> HIDE DEF d, q
\* Whatever lies in the block of a is an address.
<1>10. \A b \in Nat : b < (2 * e) * (q + 1) => b \in Address
  <2>1. q + 1 <= t
    <3> SUFFICES ASSUME q >= t
                 PROVE  FALSE
      BY <1>2, <1>6
    <3>1. e * d >= e * (2 * q)
      BY <1>2, <1>5, <1>6
    <3>2. e * (2 * q) = (2 * e) * q
      BY <1>2, <1>6
    <3>3. (2 * e) * q >= (2 * e) * t
      BY <1>2, <1>6
    <3>4. e * d \in Int /\ (2 * e) * q \in Int /\ (2 * e) * t \in Int
      BY <1>2, <1>5, <1>6
    <3>5. e * d <= a
      BY <1>5, <3>4
    <3> QED  BY <1>4, <3>1, <3>2, <3>3, <3>4, <3>5
  <2>2. (2 * e) * (q + 1) <= (2 * e) * t
    BY <1>2, <1>6, <2>1
  <2>3. (2 * e) * (q + 1) \in Int /\ (2 * e) * t \in Int
    BY <1>2, <1>6
  <2> QED  BY <1>3, <2>2, <2>3 DEF Address
<1>11. (2 * e) * (q + 1) = e * (2 * q) + e + e
  BY <1>2, <1>6
<1>12. /\ e * (2 * q + 1) = e * (2 * q) + e
       /\ e * (2 * q) \in Nat /\ e \in Nat \ {0}
  BY <1>2, <1>6
<1>13. \A k \in Nat : (e * k + r) \div e = k
  BY <1>2, <1>5
<1>14. CASE d = 2 * q
  <2> DEFINE b == e * (2 * q + 1) + r
  <2>1. b \in Nat /\ b < (2 * e) * (q + 1)
    BY <1>5, <1>11, <1>12
  <2>2. b \in Address
    BY <1>10, <2>1
  <2>3. b \div e = 2 * q + 1
    BY <1>6, <1>13, 2 * q + 1 \in Nat
  <2> HIDE DEF b
  <2>4. Prefix(b, len + 1) = 2 * q + 1
    BY <1>9, <2>2, <2>3
  <2>5. Prefix(b, len) = (2 * q + 1) \div 2
    BY <2>2, <2>4, PrefixHalves
  <2>6. (2 * q + 1) \div 2 = q /\ 2 * q + 1 # 2 * q
    BY <1>6
  <2> QED  BY <1>7, <1>8, <1>14, <2>2, <2>4, <2>5, <2>6
<1>15. CASE d = 2 * q + 1
  <2> DEFINE b == e * (2 * q) + r
  <2>1. b \in Nat /\ b < (2 * e) * (q + 1)
    BY <1>5, <1>11, <1>12
  <2>2. b \in Address
    BY <1>10, <2>1
  <2>3. b \div e = 2 * q
    BY <1>6, <1>13, 2 * q \in Nat
  <2> HIDE DEF b
  <2>4. Prefix(b, len + 1) = 2 * q
    BY <1>9, <2>2, <2>3
  <2>5. Prefix(b, len) = (2 * q) \div 2
    BY <2>2, <2>4, PrefixHalves
  <2>6. (2 * q) \div 2 = q /\ 2 * q + 1 # 2 * q
    BY <1>6
  <2> QED  BY <1>7, <1>8, <1>15, <2>2, <2>4, <2>5, <2>6
<1> QED  BY <1>6, <1>14, <1>15

\* subnet_of says what the addresses say.
LEMMA SubnetMeansSubset ==
    ASSUME NEW v \in Network, NEW n \in Network
    PROVE  SubnetOf(v, n) <=> AddressesOf(v) \subseteq AddressesOf(n)
<1>0. /\ v.addr \in Address /\ v.len \in 0..Bits
      /\ n.addr \in Address /\ n.len \in 0..Bits
      /\ v.len \in Nat /\ n.len \in Nat
  BY BitsAssumption DEF Network
<1>1. ASSUME SubnetOf(v, n), NEW a \in AddressesOf(v)
      PROVE  a \in AddressesOf(n)
  <2>1. a \in Address /\ Prefix(a, v.len) = Prefix(v.addr, v.len) /\ n.len \in 0..v.len
    BY <1>0, <1>1 DEF AddressesOf, SubnetOf
  <2>2. Prefix(a, n.len) = Prefix(v.addr, n.len)
    BY <1>0, <2>1, Coarser
  <2> QED  BY <1>1, <2>1, <2>2 DEF AddressesOf, SubnetOf
<1>2. ASSUME AddressesOf(v) \subseteq AddressesOf(n)
      PROVE  SubnetOf(v, n)
  <2>1. Prefix(v.addr, n.len) = Prefix(n.addr, n.len)
    BY <1>0, <1>2 DEF AddressesOf
  <2>2. ASSUME v.len < n.len
        PROVE  FALSE
    <3>1. v.len \in 0..(Bits - 1) /\ v.len + 1 \in 0..n.len
      BY <1>0, <2>2, BitsAssumption
    <3>2. PICK b \in Address : /\ Prefix(b, v.len) = Prefix(v.addr, v.len)
                               /\ Prefix(b, v.len + 1) # Prefix(v.addr, v.len + 1)
      BY <1>0, <3>1, TwoHalves
    <3>3. Prefix(b, n.len) = Prefix(v.addr, n.len)
      BY <1>2, <2>1, <3>2 DEF AddressesOf
    <3>4. Prefix(b, v.len + 1) = Prefix(v.addr, v.len + 1)
      BY <1>0, <3>1, <3>3, Coarser
    <3> QED  BY <3>2, <3>4
  <2> QED  BY <1>0, <2>1, <2>2 DEF SubnetOf
<1> QED  BY <1>1, <1>2

\* Of the networks of a set that contain the target, one has the longest prefix.
LEMMA LongestPrefix ==
    ASSUME NEW nets \in SUBSET Network, nets # {}
    PROVE  \E n \in nets : \A m \in nets : m.len <= n.len
<1> DEFINE T == {Bits - n.len : n \in nets}
<1>1. \A n \in nets : n.len \in 0..Bits
  BY DEF Network
<1>2. T \in SUBSET Nat /\ T # {}
  BY <1>1, BitsAssumption
<1>3. PICK p \in T : \A q \in T : p <= q
  <2> HIDE DEF T
  <2> QED  BY <1>2, Least
<1>4. PICK n \in nets : p = Bits - n.len
  BY <1>3
<1>5. \A m \in nets : Bits - n.len <= Bits - m.len
  BY <1>3, <1>4
<1> QED  BY <1>1, <1>4, <1>5, BitsAssumption

\* The zones the code finds by prefix length are those no smaller network of
\* another zone with a policy takes the target from.
LEMMA TopZonesGovern ==
    ASSUME NEW c \in Configs, NEW target \in Network, NEW side \in Sides
    PROVE  TopZones(c, target, side) = {z \in DOMAIN c.zones : Governs(c, z, target, side)}
<1> DEFINE nets(z) == {m \in c.zones[z] : SubnetOf(target, m)}
           lengths(z) == {n.len : n \in nets(z)}
           matches == {z \in DOMAIN c.zones :
                         c.zonePolicy[z][side] # NoList /\ Within(target, c.zones[z])}
<1>1. \A z \in DOMAIN c.zones : c.zones[z] \subseteq Network
  BY NetworksAssumption
<1>2. \A z \in DOMAIN c.zones : \A n \in c.zones[z] :
         n \in nets(z) <=> AddressesOf(target) \subseteq AddressesOf(n)
  BY <1>1, SubnetMeansSubset
<1>3. \A n \in Network : n.len \in 0..Bits /\ n.len \in Int /\ n.addr \in Address
  BY BitsAssumption DEF Network
<1>4. TopZones(c, target, side) =
        {z \in matches : \A y \in matches : \A k \in lengths(y) : \E l \in lengths(z) : l >= k}
  BY DEF TopZones
<1>5. ASSUME NEW z \in DOMAIN c.zones, Governs(c, z, target, side)
      PROVE  z \in TopZones(c, target, side)
  <2>1. PICK n \in c.zones[z] :
          /\ AddressesOf(target) \subseteq AddressesOf(n)
          /\ \A y \in DOMAIN c.zones : \A m \in c.zones[y] :
               /\ c.zonePolicy[y][side] # NoList
               /\ AddressesOf(target) \subseteq AddressesOf(m)
               => AddressesOf(n) \subseteq AddressesOf(m)
    BY <1>5 DEF Governs
  <2>2. n \in Network /\ n \in nets(z) /\ n.len \in lengths(z)
    BY <1>1, <1>2, <2>1
  <2>3. z \in matches
    BY <1>5, <2>2 DEF Governs, Within
  <2>4. ASSUME NEW y \in matches, NEW m \in nets(y)
        PROVE  n.len >= m.len
    <3>1. m \in Network /\ AddressesOf(target) \subseteq AddressesOf(m)
      BY <1>1, <1>2, <2>4
    <3>2. AddressesOf(n) \subseteq AddressesOf(m)
      BY <2>1, <2>4, <3>1
    <3>3. SubnetOf(n, m)
      BY <2>2, <3>1, <3>2, SubnetMeansSubset
    <3> QED  BY <3>3 DEF SubnetOf
  <2>5. \A y \in matches : \A k \in lengths(y) : \E l \in lengths(z) : l >= k
    BY <2>2, <2>4
  <2> QED  BY <1>4, <2>3, <2>5
<1>6. ASSUME NEW z \in TopZones(c, target, side)
      PROVE  z \in DOMAIN c.zones /\ Governs(c, z, target, side)
  <2>1. z \in matches /\ \A y \in matches : \A k \in lengths(y) : \E l \in lengths(z) : l >= k
    BY <1>4, <1>6
  <2>2. nets(z) # {} /\ nets(z) \in SUBSET Network
    BY <1>1, <2>1 DEF Within
  <2>3. PICK n \in nets(z) : \A m \in nets(z) : m.len <= n.len
    BY <2>2, LongestPrefix
  <2>4. n \in Network /\ SubnetOf(target, n) /\ AddressesOf(target) \subseteq AddressesOf(n)
    BY <1>2, <2>1, <2>2, <2>3
  <2>5. ASSUME NEW y \in DOMAIN c.zones, NEW m \in c.zones[y], c.zonePolicy[y][side] # NoList,
               AddressesOf(target) \subseteq AddressesOf(m)
        PROVE  AddressesOf(n) \subseteq AddressesOf(m)
    <3>1. m \in Network /\ SubnetOf(target, m) /\ m \in nets(y) /\ y \in matches
      BY <1>1, <1>2, <2>5 DEF Within
    <3>2. PICK l \in nets(z) : l.len >= m.len
      BY <2>1, <3>1
    <3>3. m.len <= n.len
      BY <1>3, <2>2, <2>3, <2>4, <3>1, <3>2
    <3>4. /\ Prefix(target.addr, n.len) = Prefix(n.addr, n.len)
          /\ Prefix(target.addr, m.len) = Prefix(m.addr, m.len)
      BY <2>4, <3>1 DEF SubnetOf
    <3>5. Prefix(n.addr, m.len) = Prefix(target.addr, m.len)
      <4>1. m.len \in 0..n.len
        BY <1>3, <2>4, <3>1, <3>3
      <4> QED  BY <1>3, <2>4, <3>4, <4>1, Coarser
    <3>6. SubnetOf(n, m)
      BY <1>3, <2>4, <3>1, <3>3, <3>4, <3>5 DEF SubnetOf
    <3> QED  BY <2>4, <3>1, <3>6, SubnetMeansSubset
  <2> QED  BY <2>1, <2>3, <2>4, <2>5 DEF Governs
<1> QED  BY <1>5, <1>6 DEF TopZones

\* A list approves an endpoint exactly if one of its networks has all its addresses.
LEMMA JudgeIsRight ==
    ASSUME NEW v \in Network, NEW list \in SUBSET Network,
           \A n \in list : ~(AddressesOf(v) \subseteq AddressesOf(n))
    PROVE  Judge(v, list) = "outside"
BY SubnetMeansSubset DEF Judge, Within

\* What the policy of the target does not approve is outside for the code, or
\* two zones disagree about it.
LEMMA StatusIsRight ==
    ASSUME NEW c \in Configs, NEW target \in Network, NEW v \in Network, v # Unparsable,
           NEW side \in Sides, OutsidePolicy(c, target, v, side), ~IsSelf(target, v)
    PROVE  Status(c, target, v, side) \in {"outside", "ambiguous"}
<1> DEFINE host == HostList(c, target, side)
           zone == {z \in DOMAIN c.zones : Governs(c, z, target, side)}
           lists == ZoneLists(c, target, side)
           outside(list) == \A n \in list : ~(AddressesOf(v) \subseteq AddressesOf(n))
<1>1. lists = {c.zonePolicy[z][side] : z \in zone}
  BY TopZonesGovern DEF ZoneLists
<1>2. host \subseteq Network
  BY NetworksAssumption DEF HostList
<1>3. \A z \in zone : c.zonePolicy[z][side] \subseteq Network
  BY NetworksAssumption DEF Governs
<1>4. CASE host # {}
  <2>1. outside(host)
    BY <1>4 DEF OutsidePolicy
  <2>2. Judge(v, host) = "outside"
    BY <1>2, <2>1, JudgeIsRight
  <2> QED  BY <1>4, <2>2 DEF Status
<1>5. CASE host = {} /\ zone # {}
  <2>1. PICK z \in zone : outside(c.zonePolicy[z][side])
    BY <1>5 DEF OutsidePolicy
  <2> DEFINE list == c.zonePolicy[z][side]
  <2>2. list \in lists /\ Judge(v, list) = "outside"
    BY <1>1, <1>3, <2>1, JudgeIsRight
  <2>3. CASE \E k, l \in lists : k # l
    BY <1>5, <2>3 DEF Status
  <2>4. CASE ~\E k, l \in lists : k # l
    <3> HIDE DEF list, lists
    <3>1. (CHOOSE l \in lists : TRUE) = list /\ lists # {}
      BY <2>2, <2>4
    <3> QED  BY <1>5, <2>2, <2>4, <3>1 DEF Status, lists
  <2> QED  BY <2>3, <2>4
<1>6. CASE host = {} /\ zone = {}
  <2>1. c.global[side] \notin {NoList, {}} /\ outside(c.global[side])
    BY <1>6 DEF OutsidePolicy
  <2>2. Judge(v, c.global[side]) = "outside"
    BY <2>1, NetworksAssumption, JudgeIsRight
  <2>3. lists = {}
    BY <1>1, <1>6
  <2> QED  BY <1>6, <2>1, <2>2, <2>3 DEF Status
<1> QED  BY <1>4, <1>5, <1>6

-------------------------------------------------------------------------------
(* The rules that come from flows.                                         *)

\* A rule was judged with its target, passed the judgement and says what it was.
Judged(r, target) == r.violation = IsViolation(target, r.key) /\ ~PolicyWithholds(target, r.key)

\* Which flow each rule is from, and that both ends were judged as they are.
JudgedInv ==
    /\ \A r \in inbound :
         /\ r.flow \in DOMAIN flows /\ flows[r.flow].direction = "inbound"
         /\ r.key.destination \in Network
         /\ r.key.source \in Network \ {Unparsable}
         /\ Judged(r, r.key.destination)
    /\ \A r \in outbound : r.key.port # Ephemeral =>
         /\ r.flow \in DOMAIN flows /\ flows[r.flow].direction = "outbound"
         /\ r.key.source \in Network
         /\ r.key.destination \in Network \ {Unparsable}
         /\ Judged(r, r.key.source)

\* An unparsable end never passes.
LEMMA PassedIsNetwork ==
    ASSUME NEW s \in Endpoint, ~Refused(s)
    PROVE  s \in Network \ {Unparsable}
BY DEF Refused, ScopeProblem, Endpoint

LEMMA JudgedInductive == TypeOK /\ JudgedInv /\ [Next]_vars => JudgedInv'
<1> SUFFICES ASSUME TypeOK, JudgedInv, [Next]_vars PROVE JudgedInv'
  OBVIOUS
<1>0. /\ \A i \in DOMAIN flows : flows[i] \in FlowPool
      /\ at \in Nat
  BY DEF TypeOK
<1>a. ASSUME UNCHANGED config
      PROVE  \A r, target : Judged(r, target) => Judged(r, target)'
  BY <1>a DEF Judged, IsViolation, PolicyWithholds
<1>b. \A target, k : Judged(RuleOf(target, k), target) <=> ~PolicyWithholds(target, k)
  BY DEF Judged, RuleOf
<1>1. CASE InboundFlow
  <2> DEFINE f == flows[at]
             refused == {s \in SourcesForFlow(f) : Refused(s)}
             fresh == {s \in SourcesForFlow(f) \ refused : KeyOf(f, s) \notin seen}
             passed == {s \in fresh : ~PolicyWithholds(f.destination, KeyOf(f, s))}
  <2>0. UNCHANGED <<config, flows, outbound>> /\ at \in DOMAIN flows /\ f \in FlowPool
    BY <1>0, <1>1 DEF InboundFlow
  <2>1. CASE UNCHANGED inbound
    BY <1>a, <2>0, <2>1 DEF JudgedInv
  <2>2. CASE IsCandidate(f, "inbound") /\ TakeInbound(f)
    <3>1. inbound' = inbound \union {RuleOf(f.destination, KeyOf(f, s)) : s \in passed}
      BY <2>2 DEF TakeInbound, Register
    <3>2. f.direction = "inbound" /\ f.destination \in Network
      BY <2>0, <2>2, FlowsAssumption DEF IsCandidate
    <3>3. \A s \in passed : s \in Network \ {Unparsable} /\ ~PolicyWithholds(f.destination, KeyOf(f, s))
      BY <2>0, SourcesAreEndpoints, PassedIsNetwork DEF TypeOK
    <3> HIDE DEF passed
    <3>4. ASSUME NEW s \in passed, NEW r, r = RuleOf(f.destination, KeyOf(f, s))
          PROVE  /\ r.flow \in DOMAIN flows /\ flows[r.flow].direction = "inbound"
                 /\ r.key.destination \in Network
                 /\ r.key.source \in Network \ {Unparsable}
                 /\ Judged(r, r.key.destination)
      <4>1. r.flow = at /\ r.key.source = s /\ r.key.destination = f.destination
        BY <3>4 DEF RuleOf, KeyOf
      <4>2. Judged(r, f.destination)
        BY <1>b, <3>3, <3>4
      <4> QED  BY <2>0, <3>2, <3>3, <4>1, <4>2
    <3> HIDE DEF f
    <3> QED  BY <1>a, <2>0, <3>1, <3>4 DEF JudgedInv
  <2> QED  BY <1>1, <2>1, <2>2 DEF InboundFlow, Withhold
<1>2. CASE BeginOutbound
  BY <1>a, <1>2 DEF BeginOutbound, JudgedInv
<1>3. CASE OutboundFlow
  <2> DEFINE f == flows[at]
             source == CHOOSE s \in f.source : TRUE
             key == KeyOf(f, source)
             rule == RuleOf(source, key)
  <2>0. UNCHANGED <<config, flows, inbound>> /\ at \in DOMAIN flows /\ f \in FlowPool
    BY <1>0, <1>3 DEF OutboundFlow
  <2>1. CASE UNCHANGED outbound
    BY <1>a, <2>0, <2>1 DEF JudgedInv
  <2>2. CASE /\ IsCandidate(f, "outbound") /\ ~Refused(f.destination)
             /\ ~PolicyWithholds(source, key) /\ outbound' = outbound \union {rule}
    <3>1. f.direction = "outbound" /\ source \in Network /\ f.destination \in Endpoint
      BY <2>0, <2>2, FlowsAssumption DEF IsCandidate
    <3>2. rule.flow = at /\ rule.key = key /\ key.source = source /\ key.destination = f.destination
      BY DEF RuleOf, KeyOf
    <3>3. f.destination \in Network \ {Unparsable}
      BY <2>2, <3>1, PassedIsNetwork
    <3>4. Judged(rule, source)
      BY <1>b, <2>2
    <3> HIDE DEF f, source, key, rule
    <3>5. flows[rule.flow].direction = "outbound"
      BY <3>1, <3>2 DEF f
    <3> QED  BY <1>a, <2>0, <2>2, <3>1, <3>2, <3>3, <3>4, <3>5 DEF JudgedInv
  <2> QED  BY <1>3, <2>1, <2>2 DEF OutboundFlow, TakeOutbound, Withhold
<1>4. CASE FinishOutbound
  <2>1. \A r \in ReturnRules : ReturnRule(r).key.port = Ephemeral
    BY DEF ReturnRule, ReturnKey
  <2>2. /\ UNCHANGED <<config, flows, inbound>>
        /\ outbound' = outbound \union {ReturnRule(r) : r \in ReturnRules}
    BY <1>4 DEF FinishOutbound
  <2> QED  BY <1>a, <2>1, <2>2 DEF JudgedInv
<1>5. CASE UNCHANGED vars
  BY <1>a, <1>5 DEF vars, JudgedInv
<1> QED  BY <1>1, <1>2, <1>3, <1>4, <1>5 DEF Next

\* A rule that was judged and whose peer is outside is flagged, and not there
\* under --strict.
LEMMA JudgedMeansEnforced ==
    ASSUME config \in Configs, NEW r, NEW target \in Network, NEW side \in Sides, NEW peer \in Network,
           peer # Unparsable, Judged(r, target),
           peer = IF side = "source" THEN r.key.source ELSE r.key.destination,
           OutsidePolicy(config, target, peer, side), ~IsSelf(target, peer)
    PROVE  r.violation /\ ~config.strict
<1>1. Status(config, target, peer, side) \in {"outside", "ambiguous"}
  BY StatusIsRight
<1>2. Status(config, target, peer, side) \in Statuses(config, target, r.key.source, r.key.destination)
  BY DEF Statuses, Sides
<1>3. ~NeedsReview(config, target, r.key.source, r.key.destination)
  BY DEF Judged, PolicyWithholds
<1>4. IsViolation(target, r.key)
  BY <1>1, <1>2, <1>3 DEF NeedsReview, IsViolation, Violation
<1> QED  BY <1>4 DEF Judged, PolicyWithholds

\* README section 13 (evaluate_rule_scope): a rule whose peer has addresses
\* that no approved network of the most specific policy of its target has is
\* flagged, and under --strict there is none, for addresses of any width and
\* any nesting of zones, but for peers written with the target's address.
THEOREM PolicyIsEnforced == Spec => []PolicyEnforced
<1>1. Init => JudgedInv
  BY DEF Init, JudgedInv
<1>2. TypeOK /\ JudgedInv => PolicyEnforced
  <2> SUFFICES ASSUME TypeOK, JudgedInv, NEW r \in Direct,
                      OutsidePolicy(config, Target(r), Peer(r), Side(r)),
                      ~IsSelf(Target(r), Peer(r))
               PROVE  r.violation /\ ~config.strict
    BY DEF PolicyEnforced
  <2>1. CASE r \in inbound
    <3>1. /\ Target(r) = r.key.destination /\ Peer(r) = r.key.source /\ Side(r) = "source"
          /\ Target(r) \in Network /\ Peer(r) \in Network \ {Unparsable} /\ Judged(r, Target(r))
      BY <2>1 DEF JudgedInv, Target, Peer, Side
    <3> QED  BY <3>1, JudgedMeansEnforced DEF TypeOK, Sides
  <2>2. CASE r \in outbound /\ r.key.port # Ephemeral
    <3>1. /\ Target(r) = r.key.source /\ Peer(r) = r.key.destination /\ Side(r) = "destination"
          /\ Target(r) \in Network /\ Peer(r) \in Network \ {Unparsable} /\ Judged(r, Target(r))
      BY <2>2 DEF JudgedInv, Target, Peer, Side
    <3> QED  BY <3>1, JudgedMeansEnforced DEF TypeOK, Sides
  <2> QED  BY <2>1, <2>2 DEF Direct
<1> QED  BY <1>1, <1>2, JudgedInductive, TypeCorrect, PTL DEF Spec
===============================================================================
