------------------------- MODULE ZeekCorrelationProofs -------------------------
(***************************************************************************)
(* Proofs about ZeekCorrelation, for every set of flows, aggregates, scans,*)
(* sensors and settings.  First what a handler makes of one flow, then the *)
(* types, then the properties: an aggregate is handled once (KeysInv), so  *)
(* what its handler established of the flows of its key stays.             *)
(***************************************************************************)
EXTENDS ZeekCorrelation, TLAPS

-------------------------------------------------------------------------------
(* What a handler makes of one flow.                                       *)

LEMMA ConfidenceType ==
    ASSUME NEW a \in Aggregate
    PROVE  ZeekConfidence(a) \in Confidence
<1>1. Penalties(a) \in Nat
  BY DEF Penalties
<1> QED  BY <1>1 DEF ZeekConfidence, Confidence

LEMMA MergedConfidenceType ==
    ASSUME NEW f \in Flow, NEW a \in Aggregate
    PROVE  /\ MergedConfidence(f, a) \in Confidence
           /\ Devalued(a) => MergedConfidence(f, a) <= ZeekConfidence(a)
<1>1. f.confidence \in Confidence
  BY DEF Flow
<1> QED  BY <1>1, ConfidenceType DEF MergedConfidence, Confidence

LEMMA MergeFacts ==
    ASSUME NEW f \in Flow, NEW a \in Aggregate
    PROVE  /\ Merge(f, a) \in Flow
           /\ Merge(f, a).key = f.key /\ Merge(f, a).slot = f.slot
           /\ Merge(f, a).evidence = f.evidence /\ Merge(f, a).review = f.review
           /\ Merge(f, a).sources = f.sources \union {"zeek"}
           /\ Merge(f, a).confidence = MergedConfidence(f, a)
<1> DEFINE seen == IF ScannerTraffic(a) THEN "scanner"
                    ELSE IF a.ok > 0 THEN "traffic" ELSE "attempted"
           confidence == MergedConfidence(f, a)
<1>1. confidence \in Confidence
  BY MergedConfidenceType
<1>2. seen \in {"traffic", "attempted", "scanner"}
  OBVIOUS
<1>3. Merge(f, a) = [f EXCEPT !.sources = @ \union {"zeek"}, !.seen = seen,
                              !.confidence = confidence]
  BY DEF Merge
<1> HIDE DEF seen, confidence
<1>4. /\ Merge(f, a) \in Flow
      /\ Merge(f, a).key = f.key /\ Merge(f, a).slot = f.slot
      /\ Merge(f, a).evidence = f.evidence /\ Merge(f, a).review = f.review
      /\ Merge(f, a).sources = f.sources \union {"zeek"}
      /\ Merge(f, a).confidence = confidence
  BY <1>1, <1>2, <1>3 DEF Flow, Source
<1> QED  BY <1>4 DEF confidence

LEMMA ProbedFacts ==
    ASSUME NEW f \in Flow, NEW a \in Aggregate
    PROVE  /\ Probed(f, a) \in Flow
           /\ Probed(f, a).key = f.key /\ Probed(f, a).slot = f.slot
           /\ Probed(f, a).evidence = f.evidence /\ Probed(f, a).review = f.review
           /\ "zeek" \in Probed(f, a).sources
           /\ Probed(f, a).confidence = MergedConfidence(f, a)
<1>1. PICK m \in Flow :
         /\ m = Merge(f, a)
         /\ m.key = f.key /\ m.slot = f.slot /\ m.evidence = f.evidence
         /\ m.review = f.review /\ m.sources = f.sources \union {"zeek"}
         /\ m.confidence = MergedConfidence(f, a)
  BY MergeFacts
<1> DEFINE seen == "scanner"
           status == "nmap-and-zeek"
           sources == m.sources \union {"nmap"}
<1>2. Probed(f, a) = [m EXCEPT !.seen = seen, !.status = status, !.sources = sources]
  BY <1>1 DEF Probed
<1>3. /\ seen = "scanner" /\ status \in Status
      /\ sources \subseteq Source /\ "zeek" \in sources
  BY <1>1 DEF Flow, Source, Status
<1> HIDE DEF seen, status, sources
<1>4. /\ Probed(f, a) \in Flow
      /\ Probed(f, a).key = m.key /\ Probed(f, a).slot = m.slot
      /\ Probed(f, a).evidence = m.evidence /\ Probed(f, a).review = m.review
      /\ Probed(f, a).sources = sources
      /\ Probed(f, a).confidence = m.confidence
  BY <1>2, <1>3 DEF Flow
<1> QED  BY <1>1, <1>3, <1>4

LEMMA CorroboratedFacts ==
    ASSUME NEW f \in Flow, NEW a \in Aggregate
    PROVE  /\ Corroborated(f, a) \in Flow
           /\ Corroborated(f, a).key = f.key /\ Corroborated(f, a).slot = f.slot
           /\ Corroborated(f, a).evidence \in RULE_EVIDENCE => f.evidence \in RULE_EVIDENCE
           /\ f.review \/ Conflicting(a.key) => Corroborated(f, a).review
           /\ "zeek" \in Corroborated(f, a).sources
           /\ Corroborated(f, a).confidence = MergedConfidence(f, a)
<1>1. PICK m \in Flow :
         /\ m = Merge(f, a)
         /\ m.key = f.key /\ m.slot = f.slot /\ m.evidence = f.evidence
         /\ m.review = f.review /\ m.sources = f.sources \union {"zeek"}
         /\ m.confidence = MergedConfidence(f, a)
  BY MergeFacts
<1> DEFINE evidence == IF f.evidence = "user-defined" THEN "observed" ELSE f.evidence
           status == IF Conflicting(a.key) THEN "conflicting"
                     ELSE IF f.evidence = "user-defined" THEN "user-and-zeek"
                     ELSE IF f.evidence = "inferred" /\ ~(NmapState(a.key) = "open")
                     THEN "zeek-only" ELSE "nmap-and-zeek"
           sources == m.sources \union
                        (IF f.evidence = "user-defined" THEN {"user"}
                         ELSE IF f.evidence = "inferred" THEN {"inference"} ELSE {"nmap"})
                      \union (IF NmapState(a.key) = "open" \/ Conflicting(a.key) THEN {"nmap"}
                              ELSE {})
           review == m.review \/ Conflicting(a.key) \/ sensor.status = "unusable"
<1>2. Corroborated(f, a) = [m EXCEPT !.evidence = evidence, !.status = status,
                                     !.sources = sources, !.review = review]
  BY <1>1 DEF Corroborated
<1>3. /\ evidence \in Evidence /\ status \in Status
      /\ evidence \in RULE_EVIDENCE => f.evidence \in RULE_EVIDENCE
  BY DEF Flow, Evidence, Status, RULE_EVIDENCE
<1>4. sources \subseteq Source /\ "zeek" \in sources
  BY <1>1 DEF Flow, Source
<1>5. review \in BOOLEAN
  OBVIOUS
<1>6. f.review \/ Conflicting(a.key) => review
  BY <1>1
<1> HIDE DEF evidence, status, sources, review
<1>7. /\ Corroborated(f, a) \in Flow
      /\ Corroborated(f, a).key = m.key /\ Corroborated(f, a).slot = m.slot
      /\ Corroborated(f, a).evidence = evidence
      /\ Corroborated(f, a).sources = sources
      /\ Corroborated(f, a).confidence = m.confidence
  BY <1>2, <1>3, <1>4, <1>5 DEF Flow
<1>8. Corroborated(f, a).review = review
  BY <1>2, <1>5 DEF Flow
<1> QED  BY <1>1, <1>3, <1>4, <1>6, <1>7, <1>8

LEMMA NewFlowFacts ==
    ASSUME NEW a \in Aggregate, NEW slot \in {"inbound", "outbound", "attempted"},
           NEW review \in BOOLEAN
    PROVE  LET g == [NewFlow(a, slot) EXCEPT !.review = review]
           IN  /\ g \in Flow /\ g.key = a.key /\ g.slot = slot
               /\ g.evidence = "observed" /\ g.review = review
               /\ g.confidence = ZeekConfidence(a)
<1>1. ZeekConfidence(a) \in Confidence
  BY ConfidenceType
<1> QED  BY <1>1 DEF NewFlow, Flow, Evidence, Source, Status, Aggregate

LEMMA DrawnFlowFacts ==
    ASSUME NEW a \in Aggregate
    PROVE  /\ DrawnFlow(a) \in Flow
           /\ DrawnFlow(a).key = a.key /\ DrawnFlow(a).slot = "attempted"
           /\ DrawnFlow(a).evidence = "manual"
           /\ DrawnFlow(a).confidence = ZeekConfidence(a)
<1>1. ZeekConfidence(a) \in Confidence
  BY ConfidenceType
<1> QED  BY <1>1 DEF DrawnFlow, NewFlow, Flow, Evidence, Source, Status, Aggregate

LEMMA AnnotatedFacts ==
    ASSUME NEW f \in Flow
    PROVE  /\ Annotated(f) \in Flow
           /\ Annotated(f).key = f.key /\ Annotated(f).slot = f.slot
           /\ Annotated(f).evidence = f.evidence /\ Annotated(f).review = f.review
           /\ "zeek" \in Annotated(f).sources => "zeek" \in f.sources
           /\ Annotated(f).confidence = f.confidence
<1>1. CASE f.status # "" \/ f.evidence \notin RULE_EVIDENCE
  BY <1>1 DEF Annotated
<1>2. CASE ~(f.status # "" \/ f.evidence \notin RULE_EVIDENCE)
  <2> DEFINE
         found == CASE f.evidence = "user-defined" -> <<"user-only", "user">>
                        [] f.evidence = "inferred" -> <<"inferred-only", "inference">>
                        [] f.evidence = "observed" -> <<"nmap-only", "nmap">>
         status == found[1]
         seen == "not observed"
         sources == f.sources \union {found[2]}
  <2>1. Annotated(f) = [f EXCEPT !.status = status, !.seen = seen, !.sources = sources]
    BY <1>2 DEF Annotated
  <2>2. /\ status \in Status /\ seen = "not observed" /\ sources \subseteq Source
        /\ "zeek" \in sources => "zeek" \in f.sources
    BY <1>2 DEF RULE_EVIDENCE, Flow, Status, Source
  <2> HIDE DEF found, status, seen, sources
  <2>3. /\ Annotated(f) \in Flow
        /\ Annotated(f).key = f.key /\ Annotated(f).slot = f.slot
        /\ Annotated(f).evidence = f.evidence /\ Annotated(f).review = f.review
        /\ Annotated(f).sources = sources
        /\ Annotated(f).confidence = f.confidence
    BY <2>1, <2>2 DEF Flow
  <2> QED  BY <2>2, <2>3
<1> QED  BY <1>1, <1>2

-------------------------------------------------------------------------------
(* Types.                                                                  *)

\* Types, and what the inputs are: one aggregate per key, one flow per key and
\* slot, and a run that is done has nothing pending.
KeysInv ==
    /\ \A a, b \in aggregates : a.key = b.key => a = b
    /\ \A f, g \in flows : f.key = g.key /\ f.slot = g.slot => f = g
    /\ \A f \in flows : f.slot = "attempted" =>
          f.evidence = "manual" /\ \E a \in Handled : a.key = f.key
    /\ done => pending = {}

TypeInv == TypeOK /\ KeysInv

LEMMA InputTypes ==
    ASSUME TypeOK
    PROVE  /\ aggregates \subseteq Aggregate /\ given \subseteq Flow
           /\ \A a \in pending : a \in Aggregate /\ a.key \in Key
           /\ settings.perspectives \subseteq {"inbound", "outbound"}
           /\ settings.externalRules \in BOOLEAN /\ settings.attemptedFlows \in BOOLEAN
           /\ settings.excludeScanner \in BOOLEAN
           /\ settings.minimum \in Nat /\ settings.ratio \in Nat
           /\ \A s \in DOMAIN scan.ports : s \in Service /\ scan.ports[s] \in PortState
BY SettingsAssumption, InputsAssumption DEF TypeOK, IsScan, Aggregate

\* The flows of the next state: those a handler leaves alone, those it merges the
\* aggregate into, those it draws for it.
SameFlow(f, g) ==
    /\ g.key = f.key /\ g.slot = f.slot
    /\ g.evidence \in RULE_EVIDENCE => f.evidence \in RULE_EVIDENCE
    /\ f.review => g.review

Untouched(g, a) == g \in flows /\ (Production(a) /\ Eligible(a) => g \notin Existing(a))

Merged(g, a) ==
    \E f \in Existing(a) : /\ SameFlow(f, g)
                           /\ g.confidence = MergedConfidence(f, a)
                           /\ Production(a) /\ Conflicting(a.key) => g.review

Drawn(g, a) ==
    /\ g.key = a.key /\ g.confidence = ZeekConfidence(a)
    /\ Existing(a) = {} \/ ~Eligible(a)
    /\ \/ g.slot = "attempted" /\ g.evidence = "manual"
       \/ /\ g.slot # "attempted" /\ Production(a) /\ Eligible(a)
          /\ ReviewReason(a) => g.review

HandleSome(a) ==
    Skip(a) \/ MergeScanner(a) \/ Corroborate(a) \/ Discover(a) \/ Attempt(a)

LEMMA DiscoveredFacts ==
    ASSUME TypeOK, NEW a \in pending, NEW p \in settings.perspectives
    PROVE  LET g == [NewFlow(a, p) EXCEPT !.review = ReviewReason(a)]
           IN  /\ g \in Flow /\ g.key = a.key /\ g.slot = p /\ p # "attempted"
               /\ g.review = ReviewReason(a) /\ g.confidence = ZeekConfidence(a)
<1>1. a \in Aggregate /\ p \in {"inbound", "outbound", "attempted"} /\ p # "attempted"
  BY InputTypes
<1>2. ReviewReason(a) \in BOOLEAN
  BY DEF ReviewReason
<1> DEFINE g == [NewFlow(a, p) EXCEPT !.review = ReviewReason(a)]
<1>3. /\ g \in Flow /\ g.key = a.key /\ g.slot = p
      /\ g.review = ReviewReason(a) /\ g.confidence = ZeekConfidence(a)
  BY <1>1, <1>2, NewFlowFacts
<1> QED  BY <1>1, <1>3

LEMMA HandlingFlows ==
    ASSUME TypeOK, NEW a \in pending, HandleSome(a)
    PROVE  /\ pending' = pending \ {a} /\ inputs' = inputs /\ done' = done
           /\ flows' \subseteq Flow
           /\ \A g \in flows' : \/ Untouched(g, a)
                                \/ ~a.ignored /\ (Merged(g, a) \/ Drawn(g, a))
<1> USE DEF inputs
<1>0. /\ a \in Aggregate /\ a.key \in Key /\ flows \subseteq Flow /\ Existing(a) \subseteq flows
      /\ \A f \in Existing(a) : f.key = a.key /\ f.slot # "attempted"
  BY InputTypes DEF TypeOK, Existing
<1>1. CASE Skip(a)
  BY <1>0, <1>1 DEF Skip, Handle, Untouched
<1>2. CASE MergeScanner(a)
  <2>1. \A f \in Existing(a) : Probed(f, a) \in Flow /\ Merged(Probed(f, a), a)
    BY <1>0, <1>2, ProbedFacts DEF MergeScanner, Merged, SameFlow, Production
  <2>2. ~Production(a)
    BY <1>2 DEF MergeScanner, Production
  <2> QED  BY <1>0, <1>2, <2>1, <2>2 DEF MergeScanner, Handle, Untouched
<1>3. CASE Corroborate(a)
  <2>1. \A f \in Existing(a) : Corroborated(f, a) \in Flow /\ Merged(Corroborated(f, a), a)
    BY <1>0, CorroboratedFacts DEF Merged, SameFlow
  <2> QED  BY <1>0, <1>3, <2>1 DEF Corroborate, Handle, Untouched, Production
<1>4. CASE Discover(a)
  <2> DEFINE new(p) == [NewFlow(a, p) EXCEPT !.review = ReviewReason(a)]
  <2>1. settings.perspectives \subseteq {"inbound", "outbound"}
    BY InputTypes
  <2>2. ASSUME NEW p \in settings.perspectives
        PROVE  /\ new(p) \in Flow /\ new(p).key = a.key
               /\ new(p).slot = p /\ new(p).review = ReviewReason(a)
               /\ new(p).confidence = ZeekConfidence(a)
    BY DiscoveredFacts
  <2>3. Existing(a) = {} /\ Production(a) /\ Eligible(a) /\ ~a.ignored
    BY <1>4 DEF Discover, Production
  <2> HIDE DEF new
  <2>4. \A p \in settings.perspectives : Drawn(new(p), a)
    BY <2>1, <2>2, <2>3 DEF Drawn
  <2>5. flows' = flows \union {new(p) : p \in settings.perspectives}
    BY <1>4 DEF Discover, new
  <2> QED  BY <1>0, <1>4, <2>2, <2>3, <2>4, <2>5 DEF Discover, Handle, Untouched
<1>5. CASE Attempt(a)
  <2>1. DrawnFlow(a) \in Flow /\ Drawn(DrawnFlow(a), a)
    BY <1>0, <1>5, DrawnFlowFacts DEF Attempt, Drawn
  <2>2. flows' \subseteq flows \union {DrawnFlow(a)} /\ ~a.ignored /\ ~Eligible(a)
    BY <1>5 DEF Attempt, Production
  <2> QED  BY <1>0, <1>5, <2>1, <2>2 DEF Attempt, Handle, Untouched
<1> QED  BY <1>1, <1>2, <1>3, <1>4, <1>5 DEF HandleSome

LEMMA AnnotatingFlows ==
    ASSUME TypeOK, Annotate
    PROVE  /\ pending' = pending /\ inputs' = inputs /\ done' /\ pending = {}
           /\ flows' \subseteq Flow
           /\ \A g \in flows' : \E f \in flows :
                 /\ g.key = f.key /\ g.slot = f.slot /\ g.evidence = f.evidence
                 /\ g.review = f.review /\ g.confidence = f.confidence
                 /\ "zeek" \in g.sources => "zeek" \in f.sources
<1>1. flows \subseteq Flow
  BY DEF TypeOK
<1>2. flows' = {Annotated(f) : f \in flows}
  BY DEF Annotate
<1> QED  BY <1>1, <1>2, AnnotatedFacts DEF Annotate, inputs

LEMMA TypeStep ==
    ASSUME TypeOK, [Next]_vars
    PROVE  TypeOK'
<1>1. ASSUME NEW a \in pending, HandleSome(a)
      PROVE  TypeOK'
  <2>1. /\ pending' \subseteq pending /\ UNCHANGED <<inputs, done>> /\ flows' \subseteq Flow
    BY <1>1, HandlingFlows
  <2>2. ServiceOf(a.key) \in Service /\ a.key \in Key
    BY InputTypes DEF ServiceOf, Service, Key
  <2>3. touched' \subseteq Service /\ genuine' \subseteq touched'
    BY <1>1, <2>2 DEF TypeOK, HandleSome, Skip, MergeScanner, Corroborate, Discover, Attempt,
                      NoteTraffic
  <2>4. observation' \in [DOMAIN scan.ports -> {"", "active", "scanner-only", "not observed"}]
    BY <1>1 DEF TypeOK, HandleSome, Skip, MergeScanner, Corroborate, Discover, Attempt, Activate
  <2>5. \A about \in About : Item(about, a) \in [about : About, key : Key]
    BY <2>2 DEF Item
  <2>6. FiledReviews(a) \subseteq [about : About, key : Key]
    BY <2>5 DEF FiledReviews, About
  <2>7. FiledFindings(a) \subseteq [about : About, key : Key]
    BY <2>5 DEF FiledFindings, About
  <2>8. /\ reviews' \subseteq [about : About, key : Key]
        /\ findings' \subseteq [about : About, key : Key]
    BY <1>1, <2>5, <2>6, <2>7
       DEF TypeOK, HandleSome, Skip, MergeScanner, Corroborate, Discover, Attempt, About
  <2> QED  BY <2>1, <2>3, <2>4, <2>8 DEF TypeOK, inputs
<1>2. ASSUME Annotate
      PROVE  TypeOK'
  <2>1. UNCHANGED <<inputs, pending>> /\ done' = TRUE /\ flows' \subseteq Flow
    BY <1>2, AnnotatingFlows DEF Annotate
  <2>2. observation' \in [DOMAIN scan.ports -> {"", "active", "scanner-only", "not observed"}]
    BY <1>2 DEF TypeOK, Annotate, FinalObservation
  <2>3. findings' \subseteq [about : About, key : Key]
    <3>1. \A f \in flows' : [about |-> "declared", key |-> f.key] \in [about : About, key : Key]
      BY <2>1 DEF About, Flow
    <3> DEFINE new == {[about |-> "declared", key |-> f.key] :
                         f \in {g \in flows' : g.status = "user-only"}}
    <3>2. new \subseteq [about : About, key : Key]
      BY <3>1
    <3>3. findings' = findings \union new
      BY <1>2 DEF Annotate
    <3> HIDE DEF new
    <3> QED  BY <3>2, <3>3 DEF TypeOK
  <2> QED  BY <1>2, <2>1, <2>2, <2>3 DEF TypeOK, Annotate, inputs
<1>3. ASSUME UNCHANGED vars
      PROVE  TypeOK'
  BY <1>3 DEF TypeOK, vars, inputs
<1> QED  BY <1>1, <1>2, <1>3 DEF Next, HandleSome

\* The flows, service sets, annotations, review items and findings of
\* ZeekCorrelator.run keep their types, whatever the inputs.
THEOREM TypeCorrect == Spec => []TypeOK
<1>1. Init => TypeOK
  BY InputsAssumption DEF Init, TypeOK
<1>2. TypeOK /\ [Next]_vars => TypeOK'
  BY TypeStep
<1> QED  BY <1>1, <1>2, PTL DEF Spec

-------------------------------------------------------------------------------
(* Safety.                                                                 *)

LEMMA KeysInit == Init => KeysInv
<1> SUFFICES ASSUME Init PROVE KeysInv
  OBVIOUS
<1>1. \A f \in flows : f.slot # "attempted"
  BY PoolsAssumption DEF Init
<1>2. /\ \A a, b \in aggregates : a.key = b.key => a = b
      /\ \A f, g \in flows : f.key = g.key /\ f.slot = g.slot => f = g
  BY DEF Init
<1> QED  BY <1>1, <1>2 DEF Init, KeysInv

\* A flow drawn while a is handled has a key and slot of its own.
LEMMA DrawnIsNew ==
    ASSUME KeysInv, NEW a \in pending, NEW g, Drawn(g, a), NEW f \in flows,
           pending \subseteq aggregates
    PROVE  ~(f.key = g.key /\ f.slot = g.slot /\ (g.slot = "attempted" \/ Existing(a) = {}))
<1> SUFFICES ASSUME f.key = a.key, f.slot = g.slot, g.slot = "attempted" \/ Existing(a) = {}
             PROVE  FALSE
  BY DEF Drawn
<1>1. CASE f.slot = "attempted"
  BY <1>1 DEF KeysInv, Handled
<1>2. CASE f.slot # "attempted"
  BY <1>2 DEF Existing
<1> QED  BY <1>1, <1>2

\* Each handler keeps one flow per key and slot.
LEMMA UniqueFlows ==
    ASSUME TypeOK, KeysInv, NEW a \in pending, HandleSome(a), NEW f \in flows', NEW g \in flows',
           f.key = g.key, f.slot = g.slot
    PROVE  f = g
<1>0. /\ a \in Aggregate /\ flows \subseteq Flow /\ pending \subseteq aggregates
      /\ Existing(a) \subseteq flows
      /\ \A h \in Existing(a) : h.key = a.key /\ h.slot # "attempted"
      /\ \A h \in flows : h.key = a.key => h \in Existing(a) \/ h.slot = "attempted"
  BY InputTypes DEF TypeOK, Existing
<1>00. \A h \in flows : h.slot = "attempted" => h.key # a.key
  BY <1>0 DEF KeysInv, Handled
<1>1. CASE Skip(a)
  BY <1>1 DEF Skip, KeysInv
<1>2. CASE MergeScanner(a)
  <2>1. \A h \in Existing(a) : Probed(h, a).key = h.key /\ Probed(h, a).slot = h.slot
    BY <1>0, ProbedFacts
  <2>2. flows' = (flows \ Existing(a)) \union {Probed(h, a) : h \in Existing(a)}
    BY <1>2 DEF MergeScanner
  <2> QED  BY <1>0, <1>00, <2>1, <2>2 DEF KeysInv
<1>3. CASE Corroborate(a)
  <2>1. \A h \in Existing(a) : /\ Corroborated(h, a).key = h.key
                               /\ Corroborated(h, a).slot = h.slot
    BY <1>0, CorroboratedFacts
  <2>2. flows' = (flows \ Existing(a)) \union {Corroborated(h, a) : h \in Existing(a)}
    BY <1>3 DEF Corroborate
  <2> QED  BY <1>0, <1>00, <2>1, <2>2 DEF KeysInv
<1>4. CASE Discover(a)
  <2> DEFINE new(p) == [NewFlow(a, p) EXCEPT !.review = ReviewReason(a)]
  <2>1. ASSUME NEW p \in settings.perspectives
        PROVE  new(p).key = a.key /\ new(p).slot = p /\ p # "attempted"
    BY DiscoveredFacts
  <2>2. flows' = flows \union {new(p) : p \in settings.perspectives} /\ Existing(a) = {}
    BY <1>4 DEF Discover
  <2> HIDE DEF new
  <2> QED  BY <1>0, <1>00, <2>1, <2>2 DEF KeysInv
<1>5. CASE Attempt(a)
  <2>1. DrawnFlow(a).key = a.key /\ DrawnFlow(a).slot = "attempted"
    BY <1>0, DrawnFlowFacts
  <2>2. flows' \subseteq flows \union {DrawnFlow(a)}
    BY <1>5 DEF Attempt
  <2> QED  BY <1>0, <1>00, <2>1, <2>2 DEF KeysInv
<1> QED  BY <1>1, <1>2, <1>3, <1>4, <1>5 DEF HandleSome

LEMMA KeysStep ==
    ASSUME TypeOK, KeysInv, [Next]_vars
    PROVE  KeysInv'
<1>1. ASSUME NEW a \in pending, HandleSome(a)
      PROVE  KeysInv'
  <2>1. /\ pending' = pending \ {a} /\ inputs' = inputs /\ done' = done
        /\ pending \subseteq aggregates
    BY <1>1, HandlingFlows DEF TypeOK
  <2>2. \A f, g \in flows' : f.key = g.key /\ f.slot = g.slot => f = g
    BY <1>1, UniqueFlows
  <2>3. ASSUME NEW g \in flows', g.slot = "attempted"
        PROVE  g.evidence = "manual" /\ \E b \in Handled' : b.key = g.key
    <3>1. CASE g \in flows
      BY <2>1, <2>3, <3>1 DEF KeysInv, Handled, inputs
    <3>2. CASE Merged(g, a)
      BY <2>3, <3>2 DEF Merged, SameFlow, Existing
    <3>3. CASE Drawn(g, a)
      <4>1. a \in Handled'
        BY <2>1 DEF Handled, inputs
      <4> QED  BY <2>3, <3>3, <4>1 DEF Drawn
    <3> QED  BY <1>1, <3>1, <3>2, <3>3, HandlingFlows DEF Untouched
  <2> QED  BY <2>1, <2>2, <2>3 DEF KeysInv, inputs
<1>2. ASSUME Annotate
      PROVE  KeysInv'
  <2>1. flows' = {Annotated(f) : f \in flows} /\ flows \subseteq Flow
    BY <1>2 DEF Annotate, TypeOK
  <2>2. pending' = pending /\ inputs' = inputs /\ pending = {}
    BY <1>2, AnnotatingFlows
  <2>3. \A f, g \in flows' : f.key = g.key /\ f.slot = g.slot => f = g
    BY <2>1, AnnotatedFacts DEF KeysInv
  <2>4. \A g \in flows' : g.slot = "attempted" =>
           g.evidence = "manual" /\ \E b \in Handled' : b.key = g.key
    BY <1>2, <2>2, AnnotatingFlows DEF KeysInv, Handled, inputs
  <2> QED  BY <2>2, <2>3, <2>4 DEF KeysInv, inputs
<1>3. ASSUME UNCHANGED vars
      PROVE  KeysInv'
  BY <1>3 DEF KeysInv, Handled, vars, inputs
<1> QED  BY <1>1, <1>2, <1>3 DEF Next, HandleSome

\* One flow per communication and perspective, whatever is merged or drawn: the
\* index of run never misses a flow that an aggregate belongs to.
THEOREM KeysAreUnique == Spec => []TypeInv
<1>1. Init => TypeInv
  BY KeysInit, InputsAssumption DEF Init, TypeOK, TypeInv
<1>2. TypeInv /\ [Next]_vars => TypeInv'
  BY TypeStep, KeysStep DEF TypeInv
<1> QED  BY <1>1, <1>2, PTL DEF Spec

\* Whatever Zeek saw, no flow that was withheld becomes a candidate, however
\* many aggregates are merged into it.
THEOREM PassiveNeverPromotes == Spec => NeverPromoted
<1> DEFINE Steps == \A f \in flows, g \in flows' :
                       g.key = f.key /\ g.slot = f.slot /\ Candidate(g) => Candidate(f)
<1>1. ASSUME TypeInv, [Next]_vars
      PROVE  [Steps]_vars
  <2>1. ASSUME NEW a \in pending, HandleSome(a), NEW f \in flows, NEW g \in flows',
               g.key = f.key, g.slot = f.slot, Candidate(g)
        PROVE  Candidate(f)
    <3>1. \A h \in flows : h.key = f.key /\ h.slot = f.slot => h = f
      BY <1>1 DEF TypeInv, KeysInv
    <3>2. CASE g \in flows
      BY <2>1, <3>1, <3>2
    <3>3. CASE Merged(g, a)
      <4>1. PICK h \in Existing(a) : SameFlow(h, g)
        BY <3>3 DEF Merged
      <4>2. h = f
        BY <2>1, <3>1, <4>1 DEF SameFlow, Existing
      <4> QED  BY <2>1, <4>1, <4>2 DEF SameFlow, Candidate
    <3>4. CASE Drawn(g, a)
      <4>1. g.slot # "attempted" /\ Eligible(a)
        BY <2>1, <3>4 DEF Drawn, Candidate, RULE_EVIDENCE
      <4> QED  BY <1>1, <2>1, <3>4, <4>1, DrawnIsNew DEF Drawn, TypeInv, TypeOK
    <3> QED  BY <1>1, <2>1, <3>2, <3>3, <3>4, HandlingFlows DEF Untouched, TypeInv
  <2>2. ASSUME Annotate, NEW f \in flows, NEW g \in flows',
               g.key = f.key, g.slot = f.slot, Candidate(g)
        PROVE  Candidate(f)
    <3>1. PICK h \in flows : /\ g.key = h.key /\ g.slot = h.slot /\ g.evidence = h.evidence
                             /\ g.review = h.review
      BY <1>1, <2>2, AnnotatingFlows DEF TypeInv
    <3>2. h = f
      BY <1>1, <2>2, <3>1 DEF TypeInv, KeysInv
    <3> QED  BY <2>2, <3>1, <3>2 DEF Candidate
  <2>3. UNCHANGED vars => [Steps]_vars
    OBVIOUS
  <2> QED  BY <1>1, <2>1, <2>2, <2>3 DEF Next, HandleSome
<1>2. TypeInv /\ [Next]_vars => [Steps]_vars
  BY <1>1
<1> QED  BY <1>2, KeysAreUnique, PTL DEF Spec, NeverPromoted

\* What the next steps do to the aggregates that were handled.
LEMMA HandledGrows ==
    ASSUME TypeOK, KeysInv, NEW a \in pending, HandleSome(a)
    PROVE  /\ Handled' = Handled \union {a} /\ a \notin Handled
           /\ \A b \in Handled : b.key # a.key
           /\ \A b : /\ Production(b)' = Production(b) /\ Eligible(b)' = Eligible(b)
                     /\ Devalued(b)' = Devalued(b) /\ ZeekConfidence(b)' = ZeekConfidence(b)
           /\ \A k : Conflicting(k)' = Conflicting(k)
<1>1. inputs' = inputs /\ pending' = pending \ {a} /\ pending \subseteq aggregates
  BY HandlingFlows DEF TypeOK
<1>2. /\ Handled' = Handled \union {a} /\ a \notin Handled
      /\ \A b \in Handled : b.key # a.key
  BY <1>1 DEF Handled, inputs, KeysInv
<1> QED  BY <1>1, <1>2 DEF inputs, Production, Eligible, Devalued, ZeekConfidence, Penalties,
                           ScannerTraffic, Conflicting, NmapState

LEMMA HandledStays ==
    ASSUME TypeOK, Annotate \/ UNCHANGED vars
    PROVE  /\ Handled' = Handled
           /\ \A b : /\ Production(b)' = Production(b) /\ Eligible(b)' = Eligible(b)
                     /\ Devalued(b)' = Devalued(b) /\ ZeekConfidence(b)' = ZeekConfidence(b)
           /\ \A k : Conflicting(k)' = Conflicting(k)
<1>1. inputs' = inputs /\ pending' = pending
  BY DEF Annotate, vars
<1> QED  BY <1>1 DEF Handled, inputs, Production, Eligible, Devalued, ZeekConfidence, Penalties,
                     ScannerTraffic, Conflicting, NmapState

LEMMA OwnTrafficStep ==
    ASSUME TypeInv, OwnTraffic, [Next]_vars
    PROVE  OwnTraffic'
<1>1. ASSUME NEW a \in pending, HandleSome(a), NEW g \in flows', "zeek" \in g.sources
      PROVE  \E b \in Handled' : b.key = g.key /\ ~b.ignored
  <2>1. CASE g \in flows
    BY <1>1, <2>1, HandledGrows DEF OwnTraffic, TypeInv
  <2>2. CASE ~a.ignored /\ (Merged(g, a) \/ Drawn(g, a))
    BY <1>1, <2>2, HandledGrows DEF Merged, SameFlow, Existing, Drawn, TypeInv
  <2> QED  BY <1>1, <2>1, <2>2, HandlingFlows DEF Untouched, TypeInv
<1>2. ASSUME Annotate, NEW g \in flows', "zeek" \in g.sources
      PROVE  \E b \in Handled' : b.key = g.key /\ ~b.ignored
  BY <1>2, AnnotatingFlows, HandledStays DEF OwnTraffic, TypeInv
<1>3. ASSUME UNCHANGED vars
      PROVE  OwnTraffic'
  BY <1>3 DEF OwnTraffic, Handled, vars, inputs
<1> QED  BY <1>1, <1>2, <1>3 DEF Next, HandleSome, OwnTraffic

\* Zeek evidence on a flow comes from traffic of its very source, and from none the
\* configuration ignores: different clients of one server are never merged.
THEOREM OwnTrafficOnly == Spec => []OwnTraffic
<1>1. Init => OwnTraffic
  BY PoolsAssumption DEF Init, OwnTraffic
<1>2. TypeInv /\ OwnTraffic /\ [Next]_vars => OwnTraffic'
  BY OwnTrafficStep
<1> QED  BY <1>1, <1>2, KeysAreUnique, PTL DEF Spec

LEMMA DegradedStep ==
    ASSUME TypeInv, OwnTraffic, DegradedDevalues, [Next]_vars
    PROVE  DegradedDevalues'
<1>0. flows \subseteq Flow /\ pending \subseteq Aggregate
  BY InputTypes DEF TypeInv, TypeOK
<1>1. ASSUME NEW a \in pending, HandleSome(a), NEW b \in Handled', NEW g \in flows',
             g.key = b.key, "zeek" \in g.sources, Devalued(b)
      PROVE  g.confidence <= ZeekConfidence(b)
  <2>1. /\ Handled' = Handled \union {a} /\ \A c \in Handled : c.key # a.key
    BY <1>1, HandledGrows DEF TypeInv
  <2>2. CASE g \in flows
    <3>1. PICK c \in Handled : c.key = g.key
      BY <1>1, <2>2 DEF OwnTraffic
    <3>2. b \in Handled
      BY <1>1, <2>1, <3>1
    <3> QED  BY <1>1, <2>2, <3>2 DEF DegradedDevalues
  <2>3. CASE Merged(g, a)
    <3>1. PICK f \in Existing(a) : g.key = f.key /\ g.confidence = MergedConfidence(f, a)
      BY <2>3 DEF Merged, SameFlow
    <3>2. f \in Flow /\ f.key = a.key
      BY <1>0, <3>1 DEF Existing
    <3>3. b = a
      BY <1>1, <2>1, <3>1, <3>2
    <3> QED  BY <1>0, <1>1, <3>1, <3>2, <3>3, MergedConfidenceType
  <2>4. CASE Drawn(g, a)
    <3>1. g.key = a.key /\ g.confidence = ZeekConfidence(a)
      BY <2>4 DEF Drawn
    <3>2. b = a
      BY <1>1, <2>1, <3>1
    <3>3. ZeekConfidence(a) \in Int
      BY <1>0, ConfidenceType DEF Confidence
    <3> QED  BY <3>1, <3>2, <3>3
  <2> QED  BY <1>1, <2>2, <2>3, <2>4, HandlingFlows DEF Untouched, TypeInv
<1>2. ASSUME NEW a \in pending, HandleSome(a)
      PROVE  DegradedDevalues'
  BY <1>1, <1>2, HandledGrows DEF DegradedDevalues, TypeInv
<1>3. ASSUME Annotate
      PROVE  DegradedDevalues'
  BY <1>3, AnnotatingFlows, HandledStays DEF DegradedDevalues, TypeInv
<1>4. ASSUME UNCHANGED vars
      PROVE  DegradedDevalues'
  BY <1>4, HandledStays DEF DegradedDevalues, TypeInv, vars
<1> QED  BY <1>2, <1>3, <1>4 DEF Next, HandleSome

\* No flow, merged or new, is more certain than a devalued observation it rests on:
\* the penalties of compute_zeek_confidence cannot be averaged or merged away.
THEOREM DegradationCounts == Spec => []DegradedDevalues
<1>1. Init => DegradedDevalues
  BY DEF Init, DegradedDevalues, Handled
<1>2. TypeInv /\ OwnTraffic /\ DegradedDevalues /\ [Next]_vars => DegradedDevalues'
  BY DegradedStep
<1> QED  BY <1>1, <1>2, KeysAreUnique, OwnTrafficOnly, PTL DEF Spec

\* Review items and findings are never taken back; a contradicted success files both.
LEMMA ItemsFiled ==
    ASSUME NEW a \in pending, HandleSome(a)
    PROVE  /\ reviews \subseteq reviews' /\ findings \subseteq findings'
           /\ Production(a) /\ Eligible(a) /\ Conflicting(a.key) =>
                 Item("discrepancy", a) \in reviews' \intersect findings'
<1>1. CASE Skip(a) \/ MergeScanner(a) \/ Attempt(a)
  BY <1>1 DEF Skip, MergeScanner, Attempt, Production
<1>2. CASE Corroborate(a)
  BY <1>2 DEF Corroborate
<1>3. CASE Discover(a)
  <2>1. Conflicting(a.key) => NmapState(a.key) # "open"
    BY DEF Conflicting, CONFLICTING_NMAP_STATES
  <2>2. Conflicting(a.key) => /\ Item("discrepancy", a) \in FiledReviews(a)
                              /\ Item("discrepancy", a) \in FiledFindings(a)
    BY <2>1 DEF FiledReviews, FiledFindings, Conflicting, CONFLICTING_NMAP_STATES
  <2> QED  BY <1>3, <2>2 DEF Discover
<1> QED  BY <1>1, <1>2, <1>3 DEF HandleSome

LEMMA ConflictsStep ==
    ASSUME TypeInv, ConflictsWithheld, [Next]_vars
    PROVE  ConflictsWithheld'
<1>1. ASSUME NEW a \in pending, HandleSome(a), NEW b \in Handled',
             Production(b), Eligible(b), Conflicting(b.key)
      PROVE  /\ \A g \in flows' : g.key = b.key => ~Candidate(g)
             /\ Item("discrepancy", b) \in reviews' \intersect findings'
  <2>1. /\ Handled' = Handled \union {a} /\ \A c \in Handled : c.key # a.key
    BY <1>1, HandledGrows DEF TypeInv
  <2>2. \A g \in flows' : \/ Untouched(g, a) \/ Merged(g, a) \/ Drawn(g, a)
    BY <1>1, HandlingFlows DEF TypeInv
  <2>3. CASE b \in Handled
    <3>1. \A g \in flows' : g.key = b.key => g \in flows
      BY <2>1, <2>2, <2>3 DEF Untouched, Merged, SameFlow, Existing, Drawn
    <3> QED  BY <1>1, <2>3, <3>1, ItemsFiled DEF ConflictsWithheld
  <2>4. CASE b = a
    <3>1. ASSUME NEW g \in flows', g.key = a.key, Untouched(g, a)
          PROVE  FALSE
      <4>1. g \in flows /\ g.slot = "attempted"
        BY <1>1, <2>4, <3>1 DEF Untouched, Existing
      <4>2. PICK c \in Handled : c.key = a.key
        BY <3>1, <4>1 DEF TypeInv, KeysInv
      <4> QED  BY <2>1, <4>2
    <3>2. ASSUME NEW g \in flows', Merged(g, a)
          PROVE  ~Candidate(g)
      BY <1>1, <2>4, <3>2 DEF Merged, Candidate
    <3>3. ASSUME NEW g \in flows', Drawn(g, a)
          PROVE  ~Candidate(g)
      BY <1>1, <2>4, <3>3 DEF Drawn, Candidate, RULE_EVIDENCE, ReviewReason
    <3> QED  BY <1>1, <2>2, <2>4, <3>1, <3>2, <3>3, ItemsFiled
  <2> QED  BY <2>1, <2>3, <2>4
<1>2. ASSUME NEW a \in pending, HandleSome(a)
      PROVE  ConflictsWithheld'
  <2>1. \A g : Candidate(g)' = Candidate(g)
    BY DEF Candidate
  <2> QED  BY <1>1, <1>2, <2>1, HandledGrows DEF ConflictsWithheld, TypeInv, Item
<1>3. ASSUME Annotate
      PROVE  ConflictsWithheld'
  <2>1. reviews \subseteq reviews' /\ findings \subseteq findings'
    BY <1>3 DEF Annotate
  <2>2. \A g \in flows' : Candidate(g)' => \E f \in flows : f.key = g.key /\ Candidate(f)
    BY <1>3, AnnotatingFlows DEF TypeInv, Candidate
  <2> QED  BY <1>3, <2>1, <2>2, HandledStays DEF ConflictsWithheld, TypeInv, Item
<1>4. ASSUME UNCHANGED vars
      PROVE  ConflictsWithheld'
  BY <1>4, HandledStays DEF ConflictsWithheld, TypeInv, vars, Candidate, Item
<1> QED  BY <1>2, <1>3, <1>4 DEF Next, HandleSome

\* When production traffic succeeds to a port the scan contradicts, every flow of
\* that communication is withheld, whatever is handled later, and both records say so.
THEOREM ConflictsAreWithheld == Spec => []ConflictsWithheld
<1>1. Init => ConflictsWithheld
  BY DEF Init, ConflictsWithheld, Handled
<1>2. TypeInv /\ ConflictsWithheld /\ [Next]_vars => ConflictsWithheld'
  BY ConflictsStep
<1> QED  BY <1>1, <1>2, KeysAreUnique, PTL DEF Spec

LEMMA EarnedStep ==
    ASSUME TypeInv, NewCandidatesEarned, [Next]_vars
    PROVE  NewCandidatesEarned'
<1> DEFINE Earned(k) ==
       /\ \E b \in Handled : /\ b.key = k /\ Production(b) /\ Eligible(b) /\ b.ok > 0
                             /\ ~Conflicting(b.key)
       /\ k.dst \in External \ scan.hosts => settings.externalRules \/
             ServiceOf(k) \in DOMAIN scan.ports
<1>0. \A f \in flows : Candidate(f) /\ IsNew(f) => Earned(f.key)
  BY DEF NewCandidatesEarned
<1>1. ASSUME NEW a \in pending, HandleSome(a), NEW g \in flows', Candidate(g), IsNew(g)
      PROVE  \/ Earned(g.key)
             \/ /\ g.key = a.key /\ Production(a) /\ Eligible(a) /\ a.ok > 0
                /\ ~Conflicting(a.key)
                /\ a.key.dst \in External \ scan.hosts => settings.externalRules \/
                      ServiceOf(a.key) \in DOMAIN scan.ports
  <2>1. CASE g \in flows
    BY <1>0, <1>1, <2>1
  <2>2. CASE Merged(g, a)
    <3>1. PICK f \in Existing(a) : SameFlow(f, g)
      BY <2>2 DEF Merged
    <3>2. f \in flows /\ Candidate(f) /\ IsNew(f) /\ f.key = g.key
      BY <1>1, <3>1 DEF SameFlow, Existing, Candidate, IsNew
    <3> QED  BY <1>0, <3>2
  <2>3. CASE Drawn(g, a)
    <3>1. g.key = a.key /\ Production(a) /\ Eligible(a) /\ ~ReviewReason(a)
      BY <1>1, <2>3 DEF Drawn, Candidate, RULE_EVIDENCE
    <3>2. ~Conflicting(a.key) /\ a.ok > 0
      <4>1. a.ok \in Nat
        BY InputTypes DEF TypeInv, Aggregate
      <4>2. ~Conflicting(a.key) /\ a.key.proto # "icmp"
        BY <3>1 DEF ReviewReason
      <4>3. a.ok >= 1
        BY <3>1, <4>2 DEF Eligible
      <4> QED  BY <4>1, <4>2, <4>3
    <3>3. a.key.dst \in External \ scan.hosts => settings.externalRules \/
             ServiceOf(a.key) \in DOMAIN scan.ports
      BY <3>1 DEF ReviewReason, NmapState
    <3> QED  BY <3>1, <3>2, <3>3
  <2> QED  BY <1>1, <2>1, <2>2, <2>3, HandlingFlows DEF Untouched, TypeInv
<1>2. ASSUME NEW a \in pending, HandleSome(a)
      PROVE  NewCandidatesEarned'
  <2>1. inputs' = inputs /\ \A g : Candidate(g)' = Candidate(g) /\ IsNew(g)' = IsNew(g)
    BY <1>2, HandlingFlows DEF Candidate, IsNew, inputs, TypeInv
  <2> QED  BY <1>1, <1>2, <2>1, HandledGrows DEF NewCandidatesEarned, TypeInv, inputs
<1>3. ASSUME Annotate
      PROVE  NewCandidatesEarned'
  <2>1. inputs' = inputs /\ \A g \in flows' : Candidate(g)' /\ IsNew(g)' =>
           \E f \in flows : f.key = g.key /\ Candidate(f) /\ IsNew(f)
    BY <1>3, AnnotatingFlows DEF TypeInv, Candidate, IsNew, inputs
  <2> QED  BY <1>3, <2>1, HandledStays DEF NewCandidatesEarned, TypeInv, inputs
<1>4. ASSUME UNCHANGED vars
      PROVE  NewCandidatesEarned'
  BY <1>4, HandledStays DEF NewCandidatesEarned, TypeInv, vars, inputs, Candidate, IsNew
<1> QED  BY <1>2, <1>3, <1>4 DEF Next, HandleSome

\* A flow the analysis did not know becomes a candidate only through enough
\* successful production traffic of its own originator to an uncontradicted port.
THEOREM CandidatesAreEarned == Spec => []NewCandidatesEarned
<1>1. Init => NewCandidatesEarned
  BY DEF Init, NewCandidatesEarned, IsNew
<1>2. TypeInv /\ NewCandidatesEarned /\ [Next]_vars => NewCandidatesEarned'
  BY EarnedStep
<1> QED  BY <1>1, <1>2, KeysAreUnique, PTL DEF Spec

-------------------------------------------------------------------------------
(* Services.                                                               *)

\* Traffic that counts, and the three records kept of it.
Counts(a) == ~a.ignored /\ (Production(a) \/ (ScannerTraffic(a) /\ settings.excludeScanner))

ServiceInv ==
    /\ touched = {ServiceOf(a.key) : a \in {b \in Handled : Counts(b)}}
    /\ genuine = {ServiceOf(a.key) : a \in {b \in Handled : Counts(b) /\ ~ScannerTraffic(b)}}
    /\ \A s \in DOMAIN scan.ports : observation[s] = "active" =>
          \E a \in Handled : ServiceOf(a.key) = s /\ Production(a) /\ Eligible(a)
    /\ ~done => \A s \in DOMAIN scan.ports : observation[s] \in {"", "active"}

LEMMA ServiceStep ==
    ASSUME TypeInv, ServiceInv, [Next]_vars
    PROVE  ServiceInv'
<1>1. ASSUME NEW a \in pending, HandleSome(a)
      PROVE  ServiceInv'
  <2>1. /\ Handled' = Handled \union {a} /\ inputs' = inputs /\ done' = done
        /\ \A b : /\ Production(b)' = Production(b) /\ Eligible(b)' = Eligible(b)
                  /\ Counts(b)' = Counts(b) /\ ScannerTraffic(b)' = ScannerTraffic(b)
    BY <1>1, HandledGrows, HandlingFlows DEF TypeInv, Counts, ScannerTraffic, inputs
  <2>2. CASE Skip(a)
    BY <2>1, <2>2 DEF Skip, ServiceInv, Counts, inputs
  <2>3. CASE ~Skip(a)
    <3>1. NoteTraffic(a) /\ Counts(a)
      BY <1>1, <2>3 DEF HandleSome, MergeScanner, Corroborate, Discover, Attempt, Counts,
                        Production
    <3>2. /\ touched' = {ServiceOf(b.key) : b \in {c \in Handled' : Counts(c)'}}
          /\ genuine' = {ServiceOf(b.key) : b \in {c \in Handled' : Counts(c)' /\ ~ScannerTraffic(c)'}}
      BY <2>1, <3>1 DEF NoteTraffic, ServiceInv
    <3>3. \/ observation' = observation
          \/ Activate(a) /\ Production(a) /\ Eligible(a)
      BY <1>1, <2>3 DEF HandleSome, MergeScanner, Corroborate, Discover, Attempt
    <3>4. observation \in [DOMAIN scan.ports -> {"", "active", "scanner-only", "not observed"}]
      BY DEF TypeInv, TypeOK
    <3>5. ASSUME NEW s \in DOMAIN scan.ports
          PROVE  /\ observation'[s] = "active" =>
                      \E b \in Handled' : ServiceOf(b.key) = s /\ Production(b) /\ Eligible(b)
                 /\ ~done => observation'[s] \in {"", "active"}
      <4>1. CASE observation' = observation
        BY <2>1, <4>1 DEF ServiceInv
      <4>2. CASE Activate(a) /\ Production(a) /\ Eligible(a)
        <5>1. observation'[s] = IF s = ServiceOf(a.key) THEN "active" ELSE observation[s]
          BY <3>4, <4>2 DEF Activate
        <5> QED  BY <2>1, <4>2, <5>1 DEF ServiceInv
      <4> QED  BY <3>3, <4>1, <4>2
    <3> QED  BY <2>1, <3>2, <3>5 DEF ServiceInv, inputs
  <2> QED  BY <2>2, <2>3
<1>2. ASSUME Annotate
      PROVE  ServiceInv'
  <2>1. /\ Handled' = Handled /\ inputs' = inputs /\ done' /\ UNCHANGED <<touched, genuine>>
        /\ \A b : /\ Production(b)' = Production(b) /\ Eligible(b)' = Eligible(b)
                  /\ Counts(b)' = Counts(b) /\ ScannerTraffic(b)' = ScannerTraffic(b)
    BY <1>2, HandledStays DEF Annotate, TypeInv, Counts, ScannerTraffic, inputs
  <2>2. \A s \in DOMAIN scan.ports : observation'[s] = "active" => observation[s] = "active"
    BY <1>2 DEF Annotate, FinalObservation
  <2> QED  BY <2>1, <2>2 DEF ServiceInv, inputs
<1>3. ASSUME UNCHANGED vars
      PROVE  ServiceInv'
  <2>1. /\ Handled' = Handled /\ \A b : Production(b)' = Production(b) /\ Eligible(b)' = Eligible(b)
    BY <1>3, HandledStays DEF TypeInv
  <2> QED  BY <1>3, <2>1 DEF ServiceInv, vars, inputs, Counts, ScannerTraffic
<1> QED  BY <1>1, <1>2, <1>3 DEF Next, HandleSome

\* When the services are annotated every aggregate was handled, so the records
\* tell what the whole input says.
LEMMA TruthfulStep ==
    ASSUME TypeInv, ServiceInv, ServicesTruthful, [Next]_vars
    PROVE  ServicesTruthful'
<1>1. ASSUME Annotate, NEW s \in DOMAIN scan.ports, scan.ports[s] = "open"
      PROVE  /\ observation'[s] = "not observed" <=> TrafficTo(s) = {}
             /\ observation'[s] = "scanner-only" <=>
                   TrafficTo(s) # {} /\ \A a \in TrafficTo(s) : ScannerTraffic(a)
             /\ observation'[s] = "active" =>
                   \E a \in TrafficTo(s) :
                       Eligible(a) /\ (ScannerTraffic(a) => ~settings.excludeScanner)
  <2>1. Handled = aggregates /\ ~done
    BY <1>1 DEF Annotate, Handled
  <2>2. /\ s \in touched <=> TrafficTo(s) # {}
        /\ s \in genuine <=> \E a \in TrafficTo(s) : ~ScannerTraffic(a)
    BY <2>1 DEF ServiceInv, TrafficTo, Counts
  <2>3. observation[s] \in {"", "active"}
    BY <2>1 DEF ServiceInv
  <2>4. observation[s] = "active" => \E a \in TrafficTo(s) :
           Eligible(a) /\ (ScannerTraffic(a) => ~settings.excludeScanner)
    BY <2>1 DEF ServiceInv, TrafficTo, Production
  <2>5. observation'[s] = IF s \in genuine THEN observation[s]
                          ELSE IF s \in touched THEN "scanner-only" ELSE "not observed"
    BY <1>1 DEF Annotate, FinalObservation
  <2> QED  BY <2>2, <2>3, <2>4, <2>5
<1>2. ASSUME Annotate
      PROVE  ServicesTruthful'
  <2>1. inputs' = inputs
    BY <1>2 DEF Annotate
  <2>2. \A s : TrafficTo(s)' = TrafficTo(s)
    BY <2>1 DEF TrafficTo, inputs, Production, ScannerTraffic
  <2> QED  BY <1>1, <1>2, <2>1, <2>2 DEF ServicesTruthful, inputs, Eligible, ScannerTraffic
<1>3. ASSUME NEW a \in pending, HandleSome(a)
      PROVE  ServicesTruthful'
  BY <1>3, HandlingFlows DEF ServicesTruthful, TypeInv, KeysInv
<1>4. ASSUME UNCHANGED vars
      PROVE  ServicesTruthful'
  <2>1. UNCHANGED <<inputs, done, observation>>
    BY <1>4 DEF vars
  <2>2. \A s : TrafficTo(s)' = TrafficTo(s)
    BY <2>1 DEF TrafficTo, inputs, Production, ScannerTraffic
  <2> QED  BY <2>1, <2>2 DEF ServicesTruthful, inputs, Eligible, ScannerTraffic
<1> QED  BY <1>2, <1>3, <1>4 DEF Next, HandleSome

\* What the report says of an open service agrees with the traffic that counts:
\* "not observed" means none, "scanner only" the scanner's alone, "active" success.
THEOREM ServiceReportsTrue == Spec => []ServicesTruthful
<1>1. Init => ServiceInv /\ ServicesTruthful
  <2> SUFFICES ASSUME Init PROVE ServiceInv /\ ServicesTruthful
    OBVIOUS
  <2>1. Handled = {} /\ touched = {} /\ genuine = {} /\ ~done
    BY DEF Init, Handled
  <2>2. \A s \in DOMAIN scan.ports : observation[s] = ""
    BY DEF Init
  <2> QED  BY <2>1, <2>2 DEF ServiceInv, ServicesTruthful
<1>2. TypeInv /\ ServiceInv /\ ServicesTruthful /\ [Next]_vars => ServiceInv' /\ ServicesTruthful'
  BY ServiceStep, TruthfulStep
<1> QED  BY <1>1, <1>2, KeysAreUnique, PTL DEF Spec

===============================================================================
