----------------------------- MODULE ZeekLogsProofs -----------------------------
(***************************************************************************)
(* Theorems about ZeekLogs, for any set of inputs and any limits.          *)
(***************************************************************************)
EXTENDS ZeekLogs, FiniteSetTheorems, WellFoundedInduction, TLAPS

-------------------------------------------------------------------------------
(* Types.                                                                  *)

\* An open file is one of the log's.
TypeInv == TypeOK /\ (mode # "closed" => at <= Len(Files))

LEMMA StageType ==
    ASSUME TypeOK
    PROVE  Type \in Types /\ Files \in Seq(File)
<1>1. stage = 1 \/ stage = 2 \/ stage = 3 \/ stage = 4
  BY DEF TypeOK
<1>2. Type \in Types
  BY <1>1 DEF Type, Types, LogTypes
<1> QED
  BY <1>2 DEF TypeOK, Files

LEMMA CurrentType ==
    ASSUME TypeOK, at <= Len(Files)
    PROVE  Current \in File
<1>1. Files \in Seq(File)
  BY StageType
<1>2. at \in 1..Len(Files)
  BY <1>1 DEF TypeOK
<1> QED
  BY <1>1, <1>2 DEF Current

LEMMA LineType ==
    ASSUME TypeInv, mode # "closed", lineno \in Delivered(Current)
    PROVE  Current.lines[lineno] \in Line
<1>1. Current.lines \in Seq(Line)
  BY CurrentType DEF TypeInv, File
<1>2. lineno \in DOMAIN Current.lines
  BY DEF Delivered
<1> QED
  BY <1>1, <1>2

LEMMA AddType ==
    ASSUME TypeOK, NEW c \in Record, Add(c)
    PROVE  aggregates' \in [Key -> Aggregate] /\ seen' \subseteq Uids
<1>1. c.key \in Key /\ c.uid \in Uids \union {NoUid}
  BY DEF Record
<1>2. Flaws(c) \subseteq Flaw
  BY DEF Flaws, Flaw
<1>3. CASE c.uid \in seen
  BY <1>3 DEF Add, TypeOK
<1>4. CASE c.uid \notin seen
  <2> DEFINE agg == aggregates[c.key]
             new == [count |-> agg.count + 1,
                     ok |-> agg.ok + (IF Outcome(c) = "successful" THEN 1 ELSE 0),
                     flaws |-> agg.flaws \union Flaws(c)]
  <2>1. agg \in Aggregate
    BY <1>1 DEF TypeOK
  <2>2. new \in Aggregate
    BY <2>1, <1>2 DEF Aggregate
  <2>3. aggregates' = [aggregates EXCEPT ![c.key] = new]
    BY <1>4 DEF Add
  <2>4. seen' \subseteq Uids
    BY <1>4, <1>1 DEF Add, TypeOK
  <2> HIDE DEF new
  <2> QED
    BY <2>2, <2>3, <2>4 DEF TypeOK
<1> QED
  BY <1>3, <1>4

LEMMA TakeType ==
    ASSUME TypeOK, NEW c \in Record, Take(c)
    PROVE  /\ aggregates' \in [Key -> Aggregate] /\ seen' \subseteq Uids
           /\ retained' \in 0..SampleCap /\ truncated' \in Nat
           /\ evidence' \subseteq {"capture", "loss", "error"}
<1>1. CASE Type = "conn"
  <2>1. Add(c) /\ UNCHANGED <<retained, truncated, evidence>>
    BY <1>1 DEF Take
  <2> QED
    BY <2>1, AddType DEF TypeOK
<1>2. CASE Type = "files"
  <2>1. KeepSample /\ UNCHANGED <<aggregates, seen, evidence>>
    BY <1>2 DEF Take
  <2> QED
    BY <2>1, LimitsAssumption DEF TypeOK, KeepSample
<1>3. CASE Type \notin {"conn", "files"}
  <2>1. /\ evidence' = evidence \union Testimony(Type, c)
        /\ UNCHANGED <<aggregates, seen, retained, truncated>>
    BY <1>3 DEF Take
  <2> QED
    BY <2>1 DEF TypeOK, Testimony
<1> QED
  BY <1>1, <1>2, <1>3

LEMMA CountType ==
    ASSUME TypeOK, NEW counter \in [Types -> Nat]
    PROVE  Count(counter) \in [Types -> Nat]
BY StageType DEF Count

LEMMA HereType ==
    ASSUME TypeOK
    PROVE  Here \in Place /\ warned \union {Here} \subseteq Place
BY StageType DEF Here, Place, TypeOK

LEMMA AppendType ==
    ASSUME TypeOK, NEW e \in Entry
    PROVE  Append(processed, [place |-> Here, entry |-> e])
             \in Seq([place : Place, entry : Entry])
BY HereType DEF TypeOK

LEMMA InitType == Init => TypeInv
<1> SUFFICES ASSUME Init PROVE TypeInv
  OBVIOUS
<1>1. input \in [Types -> Seq(File)]
  BY InputsAssumption DEF Init
<1>2. aggregates \in [Key -> Aggregate]
  BY DEF Init, Aggregate, Flaw
<1>3. NoCount \in [Types -> Nat] /\ NoEntry \in Entry
  BY DEF NoCount, NoEntry, Entry
<1>4. processed \in Seq([place : Place, entry : Entry])
  BY DEF Init
<1>5. /\ raw \in [Types -> Nat] /\ usable \in [Types -> Nat]
      /\ malformed \in [Types -> Nat] /\ entry \in Entry
  BY <1>3 DEF Init
<1>6. /\ stage \in 1..4 /\ retained \in 0..SampleCap /\ truncated \in Nat
      /\ at \in Nat \ {0} /\ lineno \in Nat \ {0}
  BY LimitsAssumption DEF Init
<1> QED
  BY <1>1, <1>2, <1>4, <1>5, <1>6 DEF Init, TypeInv, TypeOK

LEMMA ReadLineType ==
    ASSUME TypeInv, ReadLine
    PROVE  TypeInv'
<1> DEFINE l == Current.lines[lineno]
           verdict == Verdict(Type, mode, headed, l)
<1>1. l \in Line
  BY LineType DEF ReadLine
<1>2. l.record \in Record
  BY <1>1 DEF Line
<1>3. /\ raw' \in [Types -> Nat] /\ usable' \in [Types -> Nat]
      /\ malformed' \in [Types -> Nat]
  <2>1. /\ Count(raw) \in [Types -> Nat] /\ Count(usable) \in [Types -> Nat]
        /\ Count(malformed) \in [Types -> Nat]
    BY CountType DEF TypeInv, TypeOK
  <2> QED
    BY <2>1 DEF ReadLine, TypeInv, TypeOK
<1>4. entry' \in Entry
  BY DEF ReadLine, TypeInv, TypeOK, Entry
<1>5. /\ aggregates' \in [Key -> Aggregate] /\ seen' \subseteq Uids
      /\ retained' \in 0..SampleCap /\ truncated' \in Nat
      /\ evidence' \subseteq {"capture", "loss", "error"}
  <2>1. CASE verdict = "record"
    <3>1. Take(l.record)
      BY <2>1 DEF ReadLine
    <3> QED
      BY <3>1, <1>2, TakeType DEF TypeInv
  <2>2. CASE verdict # "record"
    BY <2>2 DEF ReadLine, results, TypeInv, TypeOK
  <2> QED
    BY <2>1, <2>2
<1>6. /\ headed' \in BOOLEAN /\ lineno' \in Nat \ {0}
      /\ status' \in {"reading", "crashed"}
  BY DEF ReadLine, TypeInv, TypeOK
<1>7. UNCHANGED <<input, format, stage, at, mode, processed, warned>>
  BY DEF ReadLine
<1> QED
  BY <1>3, <1>4, <1>5, <1>6, <1>7 DEF TypeInv, TypeOK, Files, Type

LEMMA StepType ==
    ASSUME TypeInv, [Step]_vars
    PROVE  TypeInv'
<1> USE DEF TypeInv
<1>1. CASE SkipUnreadable
  BY <1>1, HereType DEF SkipUnreadable, Opening, TypeOK, results
<1>2. CASE SkipUnrecognized
  <2>1. NoEntry \in Entry
    BY DEF NoEntry, Entry
  <2>2. processed' \in Seq([place : Place, entry : Entry])
    BY <1>2, <2>1, AppendType DEF SkipUnrecognized
  <2> QED
    BY <1>2, <2>2, HereType DEF SkipUnrecognized, Opening, TypeOK, results
<1>3. CASE Open
  <2>1. NoEntry \in Entry
    BY DEF NoEntry, Entry
  <2>2. mode' \in {"json", "tsv"}
    BY <1>3 DEF Open
  <2>3. at' <= Len(Files')
    BY <1>3 DEF Open, Opening, Files, Type
  <2>4. UNCHANGED <<input, format, stage, at, processed, warned, raw, usable, malformed,
                    aggregates, seen, retained, truncated, evidence, status>>
    BY <1>3 DEF Open, books, results
  <2>5. lineno' \in Nat \ {0} /\ headed' \in BOOLEAN /\ entry' \in Entry
    <3>1. lineno' = 1 /\ headed' = FALSE /\ entry' = NoEntry
      BY <1>3, Zenon DEF Open
    <3>2. headed' \in BOOLEAN
      BY <3>1, Zenon
    <3> QED
      BY <2>1, <3>1, <3>2
  <2>6. TypeOK'
    BY <2>2, <2>4, <2>5 DEF TypeOK
  <2> QED
    BY <2>3, <2>6
<1>4. CASE ReadLine
  BY <1>4, ReadLineType
<1>5. CASE Close
  <2>1. processed' \in Seq([place : Place, entry : Entry])
    <3>1. entry \in Entry
      BY DEF TypeOK
    <3> QED
      BY <1>5, <3>1, AppendType DEF Close
  <2>2. warned' \subseteq Place
    BY <1>5, HereType DEF Close, TypeOK
  <2> QED
    BY <1>5, <2>1, <2>2 DEF Close, TypeOK, results
<1>6. CASE BreakOff
  BY <1>6 DEF BreakOff, TypeOK, position, books, results, Files, Type
<1>7. CASE NextLog
  BY <1>7 DEF NextLog, LogRead, TypeOK, books, results
<1>8. CASE GiveUp
  BY <1>8 DEF GiveUp, LogRead, TypeOK, position, books, results
<1>9. CASE Judge
  <2>1. Health \in {"healthy", "degraded", "unknown"}
    BY DEF Health
  <2> QED
    BY <1>9, <2>1 DEF Judge, LogRead, TypeOK, position, books, results
<1>10. CASE UNCHANGED vars
  BY <1>10 DEF vars, TypeOK, position, books, results, Files, Type
<1> QED
  BY <1>1, <1>2, <1>3, <1>4, <1>5, <1>6, <1>7, <1>8, <1>9, <1>10 DEF Step

\* The position in the input, the books, the aggregates and the sample counters keep
\* their types: whatever files are given, no access is out of range.
THEOREM TypeCorrect == Spec => []TypeOK
<1>1. Spec => []TypeInv
  BY InitType, StepType, PTL DEF Spec
<1>2. TypeInv => TypeOK
  BY DEF TypeInv
<1> QED
  BY <1>1, <1>2, PTL

-------------------------------------------------------------------------------
(* Accounting.                                                             *)

\* What a step does to the counters and to what Take changes: nothing, unless it
\* reads a line.
LEMMA OnlyReadLineCounts ==
    ASSUME [Step]_vars, ~ReadLine
    PROVE  /\ UNCHANGED <<raw, usable, malformed>>
           /\ UNCHANGED <<aggregates, seen, retained, truncated, evidence>>
BY DEF Step, SkipUnreadable, SkipUnrecognized, Open, Close, BreakOff, NextLog, GiveUp,
       Judge, vars, books, results

\* A line that is read is counted as nothing, as usable or as malformed, or
\* its validation raises.
LEMMA ReadLineCounts ==
    ASSUME ReadLine
    PROVE  \/ UNCHANGED <<raw, usable, malformed>> /\ UNCHANGED results
           \/ /\ raw' = Count(raw) /\ usable' = Count(usable) /\ UNCHANGED malformed
              /\ Take(Current.lines[lineno].record)
           \/ /\ raw' = Count(raw) /\ malformed' = Count(malformed) /\ UNCHANGED usable
              /\ UNCHANGED results
           \/ /\ status' = "crashed" /\ UNCHANGED <<usable, malformed>>
              /\ UNCHANGED results
<1> DEFINE verdict == Verdict(Type, mode, headed, Current.lines[lineno])
<1>1. verdict \in {"skip", "record", "malformed", "raises"}
  BY DEF Verdict, Parsed
<1>2. /\ status' = IF verdict = "raises" THEN "crashed" ELSE status
      /\ raw' = IF verdict = "skip" THEN raw ELSE Count(raw)
      /\ usable' = IF verdict = "record" THEN Count(usable) ELSE usable
      /\ malformed' = IF verdict = "malformed" THEN Count(malformed) ELSE malformed
      /\ IF verdict = "record" THEN Take(Current.lines[lineno].record)
         ELSE UNCHANGED results
  BY DEF ReadLine
<1> HIDE DEF verdict
<1> QED
  BY <1>1, <1>2

RecordsInv == status # "crashed" => \A t \in Types : raw[t] = usable[t] + malformed[t]

\* Every data record that was seen is counted as usable or as malformed, never as
\* both and never as neither.
THEOREM RecordsBalance == Spec => []RecordsInv
<1>1. Init => RecordsInv
  BY DEF Init, RecordsInv, NoCount
<1>2. TypeInv /\ RecordsInv /\ [Step]_vars => RecordsInv'
  <2> SUFFICES ASSUME TypeInv, RecordsInv, [Step]_vars, status' # "crashed",
                      NEW t \in Types
               PROVE  raw'[t] = usable'[t] + malformed'[t]
    BY DEF RecordsInv
  <2>1. status # "crashed"
    BY DEF Step, SkipUnreadable, SkipUnrecognized, Open, ReadLine, Opening, LogRead,
           Close, BreakOff, NextLog, GiveUp, Judge, vars
  <2>2. raw[t] = usable[t] + malformed[t]
    BY <2>1 DEF RecordsInv
  <2>3. raw[t] \in Nat /\ usable[t] \in Nat /\ malformed[t] \in Nat
    BY DEF TypeInv, TypeOK
  <2>4. CASE ~ReadLine
    BY <2>2, <2>4, OnlyReadLineCounts
  <2>5. CASE ReadLine
    <3>1. Count(raw)[t] - raw[t] = Count(usable)[t] - usable[t]
      BY <2>3 DEF Count, TypeInv, TypeOK
    <3>2. Count(raw)[t] - raw[t] = Count(malformed)[t] - malformed[t]
      BY <2>3 DEF Count, TypeInv, TypeOK
    <3>3. Count(raw)[t] \in Nat /\ Count(usable)[t] \in Nat /\ Count(malformed)[t] \in Nat
      BY CountType DEF TypeInv, TypeOK
    <3> QED
      BY <2>2, <2>3, <2>5, <3>1, <3>2, <3>3, ReadLineCounts
  <2> QED
    BY <2>4, <2>5
<1>3. Spec => []TypeInv
  BY InitType, StepType, PTL DEF Spec
<1> QED
  BY <1>1, <1>2, <1>3, PTL DEF Spec

\* Every transfer that was read is kept or counted as truncated, for any cap.
THEOREM SamplesKept == Spec => []SamplesAccounted
<1>1. Init => SamplesAccounted
  BY DEF Init, SamplesAccounted, NoCount, Types
<1>2. TypeInv /\ SamplesAccounted /\ [Step]_vars => SamplesAccounted'
  <2> SUFFICES ASSUME TypeInv, SamplesAccounted, [Step]_vars PROVE SamplesAccounted'
    OBVIOUS
  <2>1. CASE ~ReadLine
    BY <2>1, OnlyReadLineCounts DEF SamplesAccounted
  <2>2. CASE ReadLine
    <3>1. CASE UNCHANGED <<usable, results>>
      BY <3>1 DEF SamplesAccounted, results
    <3>2. CASE usable' = Count(usable) /\ Take(Current.lines[lineno].record)
      <4>1. usable \in [Types -> Nat] /\ "files" \in Types
        BY DEF TypeInv, TypeOK, Types
      <4>2. CASE Type = "files"
        <5>1. usable'["files"] = usable["files"] + 1
          BY <3>2, <4>1, <4>2 DEF Count
        <5>2. KeepSample
          BY <3>2, <4>2 DEF Take
        <5> QED
          BY <5>1, <5>2, LimitsAssumption DEF SamplesAccounted, KeepSample, TypeInv, TypeOK
      <4>3. CASE Type # "files"
        <5>1. usable'["files"] = usable["files"]
          BY <3>2, <4>1, <4>3 DEF Count
        <5>2. UNCHANGED <<retained, truncated>>
          BY <3>2, <4>3 DEF Take
        <5> QED
          BY <5>1, <5>2 DEF SamplesAccounted
      <4> QED
        BY <4>2, <4>3
    <3> QED
      BY <2>2, <3>1, <3>2, ReadLineCounts
  <2> QED
    BY <2>1, <2>2
<1>3. Spec => []TypeInv
  BY InitType, StepType, PTL DEF Spec
<1> QED
  BY <1>1, <1>2, <1>3, PTL DEF Spec

-------------------------------------------------------------------------------
(* What the correlation is given.                                          *)

Somewhere == \E k \in Key : aggregates[k].count > 0

\* A uid is remembered only of a connection that was counted, and no other log
\* is read before a connection was usable.
FitInv ==
    /\ seen # {} => Somewhere
    /\ usable["conn"] > 0 => Somewhere
    /\ stage > 1 => usable["conn"] > 0
    /\ \A k \in Key : /\ aggregates[k].ok <= aggregates[k].count
                      /\ k.proto = "icmp" => aggregates[k].ok = 0
    /\ Judged => /\ stage > 1
                 /\ \A k \in Key : "missed" \in aggregates[k].flaws => status = "degraded"

LEMMA AddKeepsFit ==
    ASSUME TypeInv, FitInv, NEW c \in Record, Add(c)
    PROVE  /\ Somewhere'
           /\ \A k \in Key : /\ aggregates'[k].ok <= aggregates'[k].count
                             /\ k.proto = "icmp" => aggregates'[k].ok = 0
<1>1. CASE c.uid \in seen
  BY <1>1 DEF Add, FitInv, Somewhere
<1>2. CASE c.uid \notin seen
  <2> DEFINE agg == aggregates[c.key]
             one == IF Outcome(c) = "successful" THEN 1 ELSE 0
             new == [count |-> agg.count + 1, ok |-> agg.ok + one,
                     flaws |-> agg.flaws \union Flaws(c)]
  <2>1. c.key \in Key /\ agg \in Aggregate
    BY DEF Record, TypeInv, TypeOK
  <2>2. agg.count \in Nat /\ agg.ok \in Nat /\ agg.ok <= agg.count
    BY <2>1 DEF Aggregate, FitInv
  <2>3. aggregates' = [aggregates EXCEPT ![c.key] = new]
    BY <1>2 DEF Add
  <2>4. one \in {0, 1} /\ (c.key.proto = "icmp" => one = 0)
    BY DEF Outcome
  <2>5. aggregates'[c.key] = new
    BY <2>1, <2>3 DEF TypeInv, TypeOK
  <2>6. \A k \in Key \ {c.key} : aggregates'[k] = aggregates[k]
    BY <2>3 DEF TypeInv, TypeOK
  <2>7. new.count = agg.count + 1 /\ new.ok = agg.ok + one
    OBVIOUS
  <2> HIDE DEF one, new
  <2>8. new.ok <= new.count /\ new.count > 0
    BY <2>2, <2>4, <2>7
  <2>9. c.key.proto = "icmp" => new.ok = 0
    <3>1. c.key.proto = "icmp" => agg.ok = 0
      BY <2>1 DEF FitInv
    <3> QED
      BY <3>1, <2>2, <2>4, <2>7
  <2>10. Somewhere'
    BY <2>1, <2>5, <2>8 DEF Somewhere
  <2> QED
    BY <2>5, <2>6, <2>8, <2>9, <2>10 DEF FitInv
<1> QED
  BY <1>1, <1>2

LEMMA FitInductive ==
    ASSUME TypeInv, FitInv, [Step]_vars
    PROVE  FitInv'
<1>1. CASE ReadLine
  <2>1. ~Judged' /\ UNCHANGED stage /\ mode # "closed"
    BY <1>1 DEF ReadLine, Judged
  <2>2. CASE UNCHANGED <<usable, results>>
    BY <2>1, <2>2 DEF FitInv, Somewhere, results
  <2>3. CASE usable' = Count(usable) /\ Take(Current.lines[lineno].record)
    <3>1. Current.lines[lineno].record \in Record
      BY <1>1, LineType DEF ReadLine, Line
    <3>2. usable \in [Types -> Nat] /\ "conn" \in Types
      BY DEF TypeInv, TypeOK, Types
    <3>3. CASE Type = "conn"
      <4>1. Add(Current.lines[lineno].record)
        BY <2>3, <3>3 DEF Take
      <4>2. usable'["conn"] = usable["conn"] + 1
        BY <2>3, <3>2, <3>3 DEF Count
      <4>3. usable'["conn"] > 0
        BY <3>2, <4>2
      <4> QED
        BY <2>1, <3>1, <4>1, <4>3, AddKeepsFit DEF FitInv
    <3>4. CASE Type # "conn"
      <4>1. usable'["conn"] = usable["conn"]
        BY <2>3, <3>2, <3>4 DEF Count
      <4>2. UNCHANGED <<aggregates, seen>>
        BY <2>3, <3>4 DEF Take
      <4> QED
        BY <2>1, <4>1, <4>2 DEF FitInv, Somewhere
    <3> QED
      BY <3>3, <3>4
  <2> QED
    BY <1>1, <2>2, <2>3, ReadLineCounts
<1>2. CASE ~ReadLine
  <2>1. UNCHANGED <<usable, aggregates, seen>>
    BY <1>2, OnlyReadLineCounts
  <2>2. CASE UNCHANGED <<stage, status>>
    BY <2>1, <2>2 DEF FitInv, Somewhere, Judged
  <2>3. CASE NextLog
    <3>1. stage = 1 => usable["conn"] > 0
      BY <2>3 DEF NextLog
    <3>2. stage \in 1..4 /\ stage' = stage + 1 /\ status' = "reading"
      BY <2>3 DEF NextLog, LogRead, TypeInv, TypeOK
    <3> QED
      BY <2>1, <3>1, <3>2 DEF FitInv, Somewhere, Judged
  <2>4. CASE Judge
    <3>1. stage = 4 /\ stage' = 4 /\ status' = Health
      BY <2>4 DEF Judge, position
    <3>2. \A k \in Key : "missed" \in aggregates[k].flaws => Health = "degraded"
      BY DEF Health
    <3> QED
      BY <2>1, <3>1, <3>2 DEF FitInv, Somewhere, Judged
  <2>5. CASE GiveUp
    BY <2>1, <2>5 DEF GiveUp, position, FitInv, Somewhere, Judged
  <2>6. CASE BreakOff
    BY <2>1, <2>6 DEF BreakOff, position, FitInv, Somewhere, Judged
  <2> QED
    BY <1>2, <2>2, <2>3, <2>4, <2>5, <2>6
    DEF Step, SkipUnreadable, SkipUnrecognized, Open, Close, vars, position
<1> QED
  BY <1>1, <1>2

\* The assumptions ZeekCorrelation makes about its aggregates and its sensor hold of
\* whatever load_zeek returns, for every input: ICMP never counts as
\* successful, and missing bytes degrade the sensor.
THEOREM CorrelationServed == Spec => []FitForCorrelation
<1>1. Init => FitInv
  <2> SUFFICES ASSUME Init PROVE FitInv
    OBVIOUS
  <2>1. \A k \in Key : aggregates[k].ok = 0 /\ aggregates[k].count = 0
    BY DEF Init
  <2>2. usable["conn"] = 0 /\ seen = {} /\ stage = 1 /\ ~Judged
    BY DEF Init, NoCount, Types, Judged
  <2> QED
    BY <2>1, <2>2 DEF FitInv
<1>2. FitInv => FitForCorrelation
  BY DEF FitInv, FitForCorrelation, Somewhere
<1>3. Spec => []TypeInv
  BY InitType, StepType, PTL DEF Spec
<1> QED
  BY <1>1, <1>2, <1>3, FitInductive, PTL DEF Spec

-------------------------------------------------------------------------------
(* The health of the sensor against an independent reading of the input.   *)

\* The reader's state belongs to the open file and to the lines read of it.
ReaderInv ==
    mode # "closed" =>
        /\ Current.readable /\ mode = Chosen(Current)
        /\ mode = "tsv" =>
             (headed <=> \E h \in 1..(lineno - 1) : Current.lines[h].kind = "fields")

LEMMA SameFile ==
    ASSUME UNCHANGED <<input, format, stage, at>>
    PROVE  Current' = Current /\ Chosen(Current)' = Chosen(Current)
<1>1. Current' = Current
  BY DEF Current, Files, Type
<1>2. Chosen(Current)' = Chosen(Current)
  BY <1>1 DEF Chosen
<1> QED
  BY <1>1, <1>2

LEMMA ReaderInductive ==
    ASSUME TypeInv, ReaderInv, [Step]_vars
    PROVE  ReaderInv'
<1>1. CASE Open
  <2>1. Current' = Current /\ Chosen(Current)' = Chosen(Current)
    BY <1>1, SameFile DEF Open
  <2>2. Current.readable /\ mode' = Chosen(Current) /\ lineno' = 1 /\ ~headed'
    BY <1>1 DEF Open
  <2> QED
    BY <2>1, <2>2 DEF ReaderInv
<1>2. CASE ReadLine
  <2>1. Current' = Current /\ Chosen(Current)' = Chosen(Current)
    BY <1>2, SameFile DEF ReadLine
  <2>2. /\ mode' = mode /\ mode # "closed" /\ lineno' = lineno + 1
        /\ headed' = (headed \/ (mode = "tsv" /\ Current.lines[lineno].kind = "fields"))
    BY <1>2 DEF ReadLine
  <2>3. lineno \in Nat \ {0}
    BY DEF TypeInv, TypeOK
  <2>4. 1..(lineno' - 1) = 1..(lineno - 1) \union {lineno}
    BY <2>2, <2>3
  <2> QED
    BY <2>1, <2>2, <2>4 DEF ReaderInv
<1>3. CASE ~Open /\ ~ReadLine
  <2>1. CASE mode' = "closed"
    BY <2>1 DEF ReaderInv
  <2>2. CASE mode' # "closed"
    <3>1. UNCHANGED <<input, format, stage, at, mode, lineno, headed>>
      BY <1>3, <2>2 DEF Step, SkipUnreadable, SkipUnrecognized, Opening, Close, BreakOff,
                        NextLog, GiveUp, Judge, LogRead, vars, position
    <3>2. Current' = Current /\ Chosen(Current)' = Chosen(Current)
      BY <3>1, SameFile
    <3> QED
      BY <3>1, <3>2 DEF ReaderInv
  <2> QED
    BY <2>1, <2>2
<1> QED
  BY <1>1, <1>2, <1>3

\* The reader takes a line for a record exactly if the reference does.
LEMMA VerdictCorrect ==
    ASSUME TypeInv, ReaderInv, ReadLine
    PROVE  /\ (Verdict(Type, mode, headed, Current.lines[lineno]) = "record")
                <=> UsableAt(Type, at, lineno)
           /\ UsableAt(Type, at, lineno) => <<at, lineno>> \in UsablePlaces(Type)
<1> DEFINE l == Current.lines[lineno]
<1>1. /\ mode \in {"json", "tsv"} /\ mode = Chosen(Current) /\ Current.readable
      /\ lineno \in Delivered(Current) /\ Current = input[Type][at]
  BY DEF ReadLine, ReaderInv, TypeInv, TypeOK, Current, Files
<1>2. l.record.valid \in {"yes", "no", "raises"}
  BY LineType DEF ReadLine, Line, Record
<1>3. Parsed(mode, headed, l.kind) = "record"
        <=> \/ mode = "json" /\ l.kind = "json"
            \/ mode = "tsv" /\ l.kind = "row" /\ headed
  BY <1>1 DEF Parsed
<1>4. (Verdict(Type, mode, headed, l) = "record")
        <=> /\ Parsed(mode, headed, l.kind) = "record"
            /\ Type = "conn" => l.record.valid = "yes"
  BY <1>2 DEF Verdict
<1>5. mode = "tsv" =>
        (headed <=> \E h \in 1..(lineno - 1) : Current.lines[h].kind = "fields")
  BY <1>1 DEF ReaderInv
<1>6. (Verdict(Type, mode, headed, l) = "record") <=> UsableAt(Type, at, lineno)
  BY <1>1, <1>3, <1>4, <1>5 DEF UsableAt
<1>7. at \in DOMAIN input[Type] /\ lineno \in 1..MaxRecords
  <2>1. at \in 1..Len(Files) /\ Files \in Seq(File)
    BY StageType, <1>1 DEF TypeInv, TypeOK
  <2>2. lineno \in DOMAIN Current.lines /\ lineno <= MaxRecords /\ lineno \in Nat \ {0}
    BY <1>1 DEF Delivered, TypeInv, TypeOK
  <2> QED
    BY <2>1, <2>2, LimitsAssumption DEF Files
<1>8. lineno \in DOMAIN input[Type][at].lines
  BY <1>1 DEF Delivered
<1> QED
  BY <1>6, <1>7, <1>8 DEF UsablePlaces

\* The place p of log t lies behind the reader.
Passed(t, p) ==
    \/ \E s \in 1..(stage - 1) : LogTypes[s] = t
    \/ Type = t /\ p[1] < at
    \/ Type = t /\ p[1] = at /\ mode # "closed" /\ p[2] < lineno

\* The reader takes the record at p of log t.
Taken(t, p) ==
    /\ ReadLine /\ Type = t /\ p = <<at, lineno>>
    /\ Take(Current.lines[lineno].record)

LEMMA SameInput ==
    ASSUME [Step]_vars
    PROVE  UNCHANGED <<input, format>>
BY DEF Step, SkipUnreadable, SkipUnrecognized, Open, ReadLine, Close, BreakOff, NextLog,
       GiveUp, Judge, vars

LEMMA SamePlaces ==
    ASSUME UNCHANGED <<input, format>>, NEW t
    PROVE  /\ UsablePlaces(t)' = UsablePlaces(t)
           /\ \A p : RecordAt(t, p)' = RecordAt(t, p)
<1>1. \A f : Chosen(f)' = Chosen(f)
  BY DEF Chosen
<1>2. \A n, l : UsableAt(t, n, l)' = UsableAt(t, n, l)
  BY <1>1 DEF UsableAt
<1> QED
  BY <1>2 DEF UsablePlaces, RecordAt

LEMMA PlaceType ==
    ASSUME NEW t, NEW p \in UsablePlaces(t)
    PROVE  /\ p = <<p[1], p[2]>> /\ p[1] \in DOMAIN input[t] /\ p[2] \in 1..MaxRecords
           /\ UsableAt(t, p[1], p[2])
BY DEF UsablePlaces

\* A usable place comes to lie behind the reader only by being taken.
LEMMA PassedByTaking ==
    ASSUME TypeInv, ReaderInv, [Step]_vars,
           NEW t \in Types, NEW p \in UsablePlaces(t), Passed(t, p)'
    PROVE  Passed(t, p) \/ Taken(t, p)
<1>1. /\ p = <<p[1], p[2]>> /\ p[1] \in DOMAIN input[t] /\ p[2] \in Nat
      /\ UsableAt(t, p[1], p[2]) /\ p[1] \in Nat
  <2>1. input[t] \in Seq(File)
    BY DEF TypeInv, TypeOK
  <2> QED
    BY <2>1, PlaceType, LimitsAssumption
<1>2. /\ at \in Nat \ {0} /\ lineno \in Nat \ {0} /\ stage \in 1..4
      /\ input[t] \in Seq(File)
  BY DEF TypeInv, TypeOK
<1>3. CASE SkipUnreadable \/ SkipUnrecognized
  <2>1. /\ UNCHANGED <<input, stage, mode, lineno>> /\ at' = at + 1 /\ mode = "closed"
        /\ ~Current.readable \/ Chosen(Current) \notin {"json", "tsv"}
    BY <1>3 DEF SkipUnreadable, SkipUnrecognized, Opening
  <2>2. Type = t /\ p[1] = at => FALSE
    BY <1>1, <2>1 DEF UsableAt, Current, Files
  <2> QED
    BY <1>1, <1>2, <2>1, <2>2 DEF Passed, Type
<1>4. CASE Open
  <2>1. UNCHANGED <<input, stage, at>> /\ lineno' = 1
    BY <1>4 DEF Open
  <2> QED
    BY <1>1, <1>2, <2>1, PlaceType, LimitsAssumption DEF Passed, Type
<1>5. CASE ReadLine
  <2>1. UNCHANGED <<input, stage, at, mode>> /\ lineno' = lineno + 1 /\ mode # "closed"
    BY <1>5 DEF ReadLine
  <2>2. CASE Type = t /\ p[1] = at /\ p[2] = lineno
    <3>1. Verdict(Type, mode, headed, Current.lines[lineno]) = "record"
      BY <1>1, <1>5, <2>2, VerdictCorrect
    <3>2. Take(Current.lines[lineno].record)
      BY <1>5, <3>1 DEF ReadLine
    <3> QED
      BY <1>1, <1>5, <2>2, <3>2 DEF Taken
  <2>3. CASE ~(Type = t /\ p[1] = at /\ p[2] = lineno)
    BY <1>1, <1>2, <2>1, <2>3 DEF Passed, Type
  <2> QED
    BY <2>2, <2>3
<1>6. CASE Close
  <2>1. /\ UNCHANGED <<input, stage, lineno>> /\ at' = at + 1 /\ mode # "closed"
        /\ mode' = "closed" /\ lineno \notin Delivered(Current)
    BY <1>6 DEF Close
  <2>2. Type = t /\ p[1] = at => p[2] < lineno
    <3> SUFFICES ASSUME Type = t, p[1] = at, lineno <= p[2] PROVE FALSE
      BY <1>1, <1>2
    <3>1. p[2] \in Delivered(Current)
      BY <1>1 DEF UsableAt, Current, Files
    <3>2. Current.lines \in Seq(Line)
      BY CurrentType, <2>1 DEF TypeInv, File
    <3>3. p[2] \in 1..Len(Current.lines) /\ p[2] <= MaxRecords
      BY <3>1, <3>2 DEF Delivered
    <3>4. lineno \in DOMAIN Current.lines /\ lineno <= MaxRecords /\ 1..lineno \subseteq 1..p[2]
      BY <1>1, <1>2, <3>2, <3>3, LimitsAssumption
    <3>5. lineno \in Delivered(Current)
      BY <3>1, <3>4 DEF Delivered
    <3> QED
      BY <2>1, <3>5
  <2> QED
    BY <1>1, <1>2, <2>1, <2>2 DEF Passed, Type
<1>7. CASE NextLog
  <2>1. /\ UNCHANGED <<input, mode, lineno>> /\ stage' = stage + 1 /\ at' = 1
        /\ mode = "closed" /\ at > Len(Files)
    BY <1>7 DEF NextLog, LogRead
  <2>2. Type = t => p[1] < at
    BY <1>1, <1>2, <2>1 DEF Files
  <2>3. ~(Type' = t /\ p[1] < at') /\ ~(mode' # "closed")
    BY <1>1, <1>2, <2>1
  <2>4. PICK s \in 1..stage : LogTypes[s] = t
    BY <1>2, <2>1, <2>3 DEF Passed
  <2> QED
    BY <1>2, <2>2, <2>4 DEF Passed, Type
<1>8. CASE GiveUp \/ Judge \/ BreakOff \/ UNCHANGED vars
  BY <1>8 DEF GiveUp, Judge, BreakOff, vars, position, Passed, Type
<1> QED
  BY <1>3, <1>4, <1>5, <1>6, <1>7, <1>8 DEF Step

\* What is behind the reader stays there.
LEMMA PassedStays ==
    ASSUME TypeInv, [Step]_vars, NEW t \in Types, NEW p \in UsablePlaces(t), Passed(t, p)
    PROVE  Passed(t, p)'
<1>1. p[1] \in Nat /\ p[2] \in Nat /\ p[1] \in DOMAIN input[t]
  <2>1. input[t] \in Seq(File)
    BY DEF TypeInv, TypeOK
  <2> QED
    BY <2>1, PlaceType, LimitsAssumption
<1>2. at \in Nat \ {0} /\ lineno \in Nat \ {0} /\ stage \in 1..4
  BY DEF TypeInv, TypeOK
<1>3. CASE NextLog
  <2>1. stage' = stage + 1
    BY <1>3 DEF NextLog
  <2>2. \E s \in 1..stage : LogTypes[s] = t
    BY <1>2 DEF Passed, Type
  <2> QED
    BY <1>2, <2>1, <2>2 DEF Passed
<1>4. CASE ~NextLog
  <2>1. /\ UNCHANGED stage
        /\ \/ UNCHANGED <<at, mode, lineno>>
           \/ at' = at + 1
           \/ at' = at /\ mode = "closed"
           \/ at' = at /\ mode' = mode /\ lineno' = lineno + 1
    BY <1>4 DEF Step, SkipUnreadable, SkipUnrecognized, Opening, Open, ReadLine, Close,
                BreakOff, GiveUp, Judge, vars, position
  <2> QED
    BY <1>1, <1>2, <2>1 DEF Passed, Type
<1> QED
  BY <1>3, <1>4

\* A record that is taken is one the reference counts.
LEMMA TakenPlace ==
    ASSUME TypeInv, ReaderInv, ReadLine, NEW t, t = Type, NEW p, p = <<at, lineno>>,
           Verdict(Type, mode, headed, Current.lines[lineno]) = "record"
    PROVE  /\ p \in UsablePlaces(t)
           /\ RecordAt(t, p) = Current.lines[lineno].record
           /\ Passed(t, p)'
           /\ Current.lines[lineno].record \in Record
<1>1. p \in UsablePlaces(t)
  BY VerdictCorrect
<1>2. RecordAt(t, p) = Current.lines[lineno].record
  BY DEF RecordAt, Current, Files
<1>3. Passed(t, p)'
  <2>1. UNCHANGED <<stage, at, mode>> /\ mode # "closed" /\ lineno' = lineno + 1
    BY DEF ReadLine
  <2>2. p[1] = at /\ p[2] = lineno /\ lineno \in Nat
    BY DEF TypeInv, TypeOK
  <2> QED
    BY <2>1, <2>2 DEF Passed, Type
<1>4. Current.lines[lineno].record \in Record
  BY LineType DEF ReadLine, Line
<1> QED
  BY <1>1, <1>2, <1>3, <1>4

\* Reading of the last log ended: every usable record was taken.
LEMMA AllPassed ==
    ASSUME TypeInv, LogRead, stage = 4, NEW t \in Types, NEW p \in UsablePlaces(t)
    PROVE  Passed(t, p)
<1>1. \E s \in 1..4 : LogTypes[s] = t
  <2>1. /\ LogTypes[1] = "conn" /\ LogTypes[2] = "files"
        /\ LogTypes[3] = "capture_loss" /\ LogTypes[4] = "reporter"
    BY DEF LogTypes
  <2> QED
    BY <2>1 DEF Types
<1>2. CASE Type = t
  <2>1. input[t] \in Seq(File) /\ p[1] \in DOMAIN input[t] /\ at \in Nat
    BY PlaceType DEF TypeInv, TypeOK
  <2> QED
    BY <1>2, <2>1 DEF Passed, LogRead, Files
<1>3. CASE Type # t
  BY <1>1, <1>3 DEF Passed, Type
<1> QED
  BY <1>2, <1>3

MissedSomewhere == \E k \in Key : "missed" \in aggregates[k].flaws

\* A connection of the same uid precedes p.
Repeats(p) ==
    \E q \in UsablePlaces("conn") :
        /\ Before(q, p) /\ RecordAt("conn", p).uid # NoUid
        /\ RecordAt("conn", q).uid = RecordAt("conn", p).uid

BadNoticed ==
    \A t \in {"capture_loss", "reporter"} : \A p \in UsablePlaces(t) :
        Passed(t, p) /\ RecordAt(t, p).says = "bad" => evidence \intersect {"loss", "error"} # {}

UidsFromRecords ==
    /\ NoUid \notin seen
    /\ \A u \in seen : \E q \in UsablePlaces("conn") :
         Passed("conn", q) /\ RecordAt("conn", q).uid = u

MissedNoticed ==
    \A p \in UsablePlaces("conn") :
        Passed("conn", p) /\ RecordAt("conn", p).missed => MissedSomewhere \/ Repeats(p)

CaptureRead == "capture" \in evidence => UsablePlaces("capture_loss") # {}

EvidenceInv == /\ BadNoticed /\ UidsFromRecords /\ MissedNoticed /\ CaptureRead
               /\ NotHealthyAgainstEvidence

\* What speaks against the sensor is never taken back.
LEMMA EvidenceStays ==
    ASSUME TypeInv, ReaderInv, [Step]_vars
    PROVE  /\ evidence \subseteq evidence' /\ seen \subseteq seen'
           /\ MissedSomewhere => MissedSomewhere'
<1>1. CASE UNCHANGED <<evidence, seen, aggregates>>
  BY <1>1 DEF MissedSomewhere
<1>2. CASE ReadLine /\ Take(Current.lines[lineno].record)
             /\ Verdict(Type, mode, headed, Current.lines[lineno]) = "record"
  <2> DEFINE c == Current.lines[lineno].record
  <2>1. c \in Record
    BY <1>2, TakenPlace
  <2>2. CASE Type = "conn"
    <3>1. Add(c) /\ UNCHANGED evidence
      BY <1>2, <2>2 DEF Take
    <3>2. seen \subseteq seen'
      BY <3>1 DEF Add
    <3>3. ASSUME NEW k \in Key, "missed" \in aggregates[k].flaws
          PROVE  "missed" \in aggregates'[k].flaws
      <4>1. CASE c.uid \in seen
        BY <3>1, <3>3, <4>1 DEF Add
      <4>2. CASE c.uid \notin seen
        <5>1. c.key \in Key
          BY <2>1 DEF Record
        <5>2. aggregates' =
                [aggregates EXCEPT ![c.key] =
                  [count |-> aggregates[c.key].count + 1,
                   ok |-> aggregates[c.key].ok
                            + (IF Outcome(c) = "successful" THEN 1 ELSE 0),
                   flaws |-> aggregates[c.key].flaws \union Flaws(c)]]
          BY <3>1, <4>2 DEF Add
        <5>3. k = c.key => aggregates'[k].flaws = aggregates[k].flaws \union Flaws(c)
          BY <5>1, <5>2 DEF TypeInv, TypeOK
        <5>4. k # c.key => aggregates'[k] = aggregates[k]
          BY <5>1, <5>2 DEF TypeInv, TypeOK
        <5> QED
          BY <3>3, <5>3, <5>4
      <4> QED
        BY <4>1, <4>2
    <3> QED
      BY <3>1, <3>2, <3>3 DEF MissedSomewhere
  <2>3. CASE Type # "conn"
    BY <1>2, <2>3 DEF Take, MissedSomewhere
  <2> QED
    BY <2>2, <2>3
<1>3. ReadLine => \/ UNCHANGED results
                  \/ /\ Take(Current.lines[lineno].record)
                     /\ Verdict(Type, mode, headed, Current.lines[lineno]) = "record"
  BY DEF ReadLine
<1> QED
  BY <1>1, <1>2, <1>3, OnlyReadLineCounts DEF results

LEMMA BadNoticedStep ==
    ASSUME TypeInv, ReaderInv, BadNoticed, [Step]_vars
    PROVE  BadNoticed'
<1> SUFFICES ASSUME NEW t \in {"capture_loss", "reporter"}, NEW p \in UsablePlaces(t)',
                    Passed(t, p)', RecordAt(t, p)'.says = "bad"
             PROVE  evidence' \intersect {"loss", "error"} # {}
  BY DEF BadNoticed
<1>1. p \in UsablePlaces(t) /\ RecordAt(t, p).says = "bad" /\ t \in Types
  BY SameInput, SamePlaces DEF Types
<1>2. CASE Passed(t, p)
  BY <1>1, <1>2, EvidenceStays DEF BadNoticed
<1>3. CASE Taken(t, p)
  <2>1. /\ Take(RecordAt(t, p)) /\ Type = t
    BY <1>3 DEF Taken, RecordAt, Current, Files
  <2>2. evidence' = evidence \union Testimony(t, RecordAt(t, p))
    BY <2>1 DEF Take
  <2> QED
    BY <1>1, <2>2 DEF Testimony
<1> QED
  BY <1>1, <1>2, <1>3, PassedByTaking

LEMMA UidsStep ==
    ASSUME TypeInv, ReaderInv, UidsFromRecords, [Step]_vars
    PROVE  UidsFromRecords'
<1>1. /\ UsablePlaces("conn")' = UsablePlaces("conn") /\ "conn" \in Types
      /\ \A p : RecordAt("conn", p)' = RecordAt("conn", p)
  BY SameInput, SamePlaces DEF Types
<1>2. ASSUME NEW u \in seen
      PROVE  \E q \in UsablePlaces("conn") : Passed("conn", q)' /\ RecordAt("conn", q).uid = u
  <2>1. PICK q \in UsablePlaces("conn") : Passed("conn", q) /\ RecordAt("conn", q).uid = u
    BY DEF UidsFromRecords
  <2> QED
    BY <1>1, <2>1, PassedStays
<1>3. CASE UNCHANGED seen
  BY <1>1, <1>2, <1>3 DEF UidsFromRecords
<1>4. CASE ReadLine /\ Take(Current.lines[lineno].record) /\ Type = "conn"
             /\ Verdict(Type, mode, headed, Current.lines[lineno]) = "record"
  <2> DEFINE c == Current.lines[lineno].record
  <2>1. Add(c)
    BY <1>4 DEF Take
  <2>2. PICK p : p = <<at, lineno>>
    OBVIOUS
  <2>3. /\ p \in UsablePlaces("conn") /\ RecordAt("conn", p) = c
        /\ Passed("conn", p)'
    BY <1>4, <2>2, TakenPlace
  <2>4. seen' = seen \/ seen' = seen \union ({c.uid} \ {NoUid})
    BY <2>1 DEF Add
  <2>5. NoUid \notin seen'
    BY <2>4 DEF UidsFromRecords
  <2>6. \A u \in seen' : u \in seen \/ u = RecordAt("conn", p).uid
    BY <2>3, <2>4
  <2> QED
    BY <1>1, <1>2, <2>3, <2>5, <2>6 DEF UidsFromRecords
<1>5. ReadLine => \/ UNCHANGED results
                  \/ /\ Take(Current.lines[lineno].record)
                     /\ Verdict(Type, mode, headed, Current.lines[lineno]) = "record"
  BY DEF ReadLine
<1>6. \A c : Take(c) /\ Type # "conn" => UNCHANGED seen
  BY DEF Take
<1> QED
  BY <1>3, <1>4, <1>5, <1>6, OnlyReadLineCounts DEF results

LEMMA MissedStep ==
    ASSUME TypeInv, ReaderInv, UidsFromRecords, MissedNoticed, [Step]_vars
    PROVE  MissedNoticed'
<1> SUFFICES ASSUME NEW p \in UsablePlaces("conn")', Passed("conn", p)',
                    RecordAt("conn", p)'.missed
             PROVE  MissedSomewhere' \/ Repeats(p)'
  BY DEF MissedNoticed
<1>1. /\ UsablePlaces("conn")' = UsablePlaces("conn") /\ "conn" \in Types
      /\ \A q : RecordAt("conn", q)' = RecordAt("conn", q)
  BY SameInput, SamePlaces DEF Types
<1>2. p \in UsablePlaces("conn") /\ RecordAt("conn", p).missed
  BY <1>1
<1>3. Repeats(p) => Repeats(p)'
  BY <1>1 DEF Repeats
<1>4. CASE Passed("conn", p)
  BY <1>2, <1>3, <1>4, EvidenceStays DEF MissedNoticed
<1>5. CASE Taken("conn", p)
  <2> DEFINE c == RecordAt("conn", p)
  <2>1. /\ Type = "conn" /\ p = <<at, lineno>> /\ ReadLine /\ Take(c)
        /\ c = Current.lines[lineno].record
    BY <1>5 DEF Taken, RecordAt, Current, Files
  <2>2. Add(c)
    BY <2>1 DEF Take
  <2>3. CASE c.uid \in seen
    <3>1. PICK q \in UsablePlaces("conn") : Passed("conn", q) /\ RecordAt("conn", q).uid = c.uid
      BY <2>3 DEF UidsFromRecords
    <3>2. c.uid # NoUid
      BY <2>3 DEF UidsFromRecords
    <3>3. stage = 1
      <4>1. stage \in 1..4
        BY DEF TypeInv, TypeOK
      <4>2. LogTypes[2] # "conn" /\ LogTypes[3] # "conn" /\ LogTypes[4] # "conn"
        BY DEF LogTypes
      <4> QED
        BY <2>1, <4>1, <4>2 DEF Type
    <3>4. Before(q, p)
      BY <2>1, <3>1, <3>3 DEF Passed, Before
    <3> QED
      BY <1>3, <3>1, <3>2, <3>4 DEF Repeats
  <2>4. CASE c.uid \notin seen
    <3>1. c \in Record
      BY <2>1, LineType DEF ReadLine, Line
    <3>2. c.key \in Key /\ "missed" \in Flaws(c)
      BY <1>2, <3>1 DEF Record, Flaws
    <3>3. aggregates' =
            [aggregates EXCEPT ![c.key] =
              [count |-> aggregates[c.key].count + 1,
               ok |-> aggregates[c.key].ok + (IF Outcome(c) = "successful" THEN 1 ELSE 0),
               flaws |-> aggregates[c.key].flaws \union Flaws(c)]]
      BY <2>2, <2>4 DEF Add
    <3>4. "missed" \in aggregates'[c.key].flaws
      BY <3>2, <3>3 DEF TypeInv, TypeOK
    <3> QED
      BY <3>2, <3>4 DEF MissedSomewhere
  <2> QED
    BY <2>3, <2>4
<1> QED
  BY <1>1, <1>2, <1>4, <1>5, PassedByTaking

LEMMA CaptureStep ==
    ASSUME TypeInv, ReaderInv, CaptureRead, [Step]_vars
    PROVE  CaptureRead'
<1>1. UsablePlaces("capture_loss")' = UsablePlaces("capture_loss")
  BY SameInput, SamePlaces
<1>2. CASE UNCHANGED evidence
  BY <1>1, <1>2 DEF CaptureRead
<1>3. CASE ReadLine /\ Take(Current.lines[lineno].record)
             /\ Verdict(Type, mode, headed, Current.lines[lineno]) = "record"
  <2>1. CASE Type = "capture_loss"
    BY <1>1, <1>3, <2>1, TakenPlace DEF CaptureRead
  <2>2. CASE Type # "capture_loss"
    BY <1>1, <1>3, <2>2 DEF CaptureRead, Take, Testimony
  <2> QED
    BY <2>1, <2>2
<1>4. ReadLine => \/ UNCHANGED results
                  \/ /\ Take(Current.lines[lineno].record)
                     /\ Verdict(Type, mode, headed, Current.lines[lineno]) = "record"
  BY DEF ReadLine
<1> QED
  BY <1>2, <1>3, <1>4, OnlyReadLineCounts DEF results

LEMMA HealthStep ==
    ASSUME TypeInv, ReaderInv, EvidenceInv, [Step]_vars
    PROVE  NotHealthyAgainstEvidence'
<1> SUFFICES ASSUME status' = "healthy" PROVE NotHealthyAgainstEvidence'
  BY DEF NotHealthyAgainstEvidence
<1>1. \A t : /\ UsablePlaces(t)' = UsablePlaces(t)
             /\ \A p : RecordAt(t, p)' = RecordAt(t, p)
  BY SameInput, SamePlaces
<1>2. CASE status = "healthy"
  BY <1>1, <1>2 DEF EvidenceInv, NotHealthyAgainstEvidence
<1>3. CASE status # "healthy"
  <2>1. Judge /\ Health = "healthy"
    BY <1>3 DEF Step, SkipUnreadable, SkipUnrecognized, Opening, Open, ReadLine, Close,
                BreakOff, NextLog, LogRead, GiveUp, Judge, vars
  <2>2. /\ ~MissedSomewhere /\ "capture" \in evidence
        /\ evidence \intersect {"loss", "error"} = {}
    BY <2>1 DEF Health, MissedSomewhere
  <2>3. \A t \in Types : \A p \in UsablePlaces(t) : Passed(t, p)
    BY <2>1, AllPassed DEF Judge
  <2>4. UsablePlaces("capture_loss") # {}
    BY <2>2 DEF EvidenceInv, CaptureRead
  <2>5. \A t \in {"capture_loss", "reporter"} : \A p \in UsablePlaces(t) :
          RecordAt(t, p).says # "bad"
    BY <2>2, <2>3 DEF EvidenceInv, BadNoticed, Types
  <2>6. \A p \in UsablePlaces("conn") : RecordAt("conn", p).missed => Repeats(p)
    BY <2>2, <2>3 DEF EvidenceInv, MissedNoticed, Types
  <2> QED
    BY <1>1, <2>4, <2>5, <2>6 DEF NotHealthyAgainstEvidence, Repeats
<1> QED
  BY <1>2, <1>3

\* Whatever logs are given, in however many files, cut, limited or malformed: a sensor
\* called healthy has a record of capture_loss, and no usable record of any log
\* speaks against it.
THEOREM HealthEarned == Spec => []NotHealthyAgainstEvidence
<1>1. Init => ReaderInv /\ EvidenceInv
  <2> SUFFICES ASSUME Init PROVE ReaderInv /\ EvidenceInv
    OBVIOUS
  <2>1. ReaderInv /\ CaptureRead /\ UidsFromRecords /\ NotHealthyAgainstEvidence
    BY DEF Init, ReaderInv, CaptureRead, UidsFromRecords, NotHealthyAgainstEvidence
  <2>2. ASSUME NEW t \in Types, NEW p \in UsablePlaces(t) PROVE ~Passed(t, p)
    <3>1. input[t] \in Seq(File)
      BY InputsAssumption DEF Init
    <3>2. p[1] \in Nat \ {0}
      BY <3>1, PlaceType
    <3> QED
      BY <3>2 DEF Init, Passed
  <2> QED
    BY <2>1, <2>2 DEF EvidenceInv, BadNoticed, MissedNoticed, Types
<1>2. TypeInv /\ ReaderInv /\ EvidenceInv /\ [Step]_vars => EvidenceInv'
  BY BadNoticedStep, UidsStep, MissedStep, CaptureStep, HealthStep DEF EvidenceInv
<1>3. Spec => []TypeInv
  BY InitType, StepType, PTL DEF Spec
<1>4. EvidenceInv => NotHealthyAgainstEvidence
  BY DEF EvidenceInv
<1> QED
  BY <1>1, <1>2, <1>3, <1>4, ReaderInductive, PTL DEF Spec

-------------------------------------------------------------------------------
(* Every line of a log that was read is accounted for.                     *)

DataLines(f) == {l \in DOMAIN f.lines : f.lines[l].kind \in {"json", "row", "text", "long"}}
DataBefore(f, n) == {l \in DataLines(f) : l < n}

\* What NothingSkipped says of file n of log t.
Accounted(t, n) ==
    LET place == [type |-> t, file |-> n]
    IN \/ place \in warned
       \/ \E i \in DOMAIN processed :
            /\ processed[i].place = place
            /\ processed[i].entry.records + processed[i].entry.malformed
                 >= Cardinality(DataLines(input[t][n]))

\* The reader is done with file n of log t.
Behind(t, n) ==
    \/ \E s \in 1..(stage - 1) : LogTypes[s] = t
    \/ Type = t /\ n < at

BehindAccounted ==
    \A t \in Types : \A n \in DOMAIN input[t] : Behind(t, n) => Accounted(t, n)

EntryKeepsUp ==
    mode # "closed" /\ status # "crashed" =>
        entry.records + entry.malformed >= Cardinality(DataBefore(Current, lineno))

JudgedLast == Judged => stage = 4 /\ at > Len(Files)

LEMMA DataFinite ==
    ASSUME NEW f \in File, NEW n \in Nat \ {0}
    PROVE  /\ Cardinality(DataBefore(f, n)) \in Nat
           /\ DataBefore(f, 1) = {}
           /\ n > Len(f.lines) => DataBefore(f, n) = DataLines(f)
           /\ Cardinality(DataBefore(f, n + 1)) =
                Cardinality(DataBefore(f, n)) + IF n \in DataLines(f) THEN 1 ELSE 0
<1>1. f.lines \in Seq(Line)
  BY DEF File
<1>2. DataLines(f) \subseteq 1..Len(f.lines) /\ Len(f.lines) \in Nat
  BY <1>1 DEF DataLines
<1>3. IsFiniteSet(1..Len(f.lines)) /\ DataBefore(f, n) \in SUBSET (1..Len(f.lines))
  BY <1>2, FS_Interval DEF DataBefore
<1>4. IsFiniteSet(DataBefore(f, n)) /\ Cardinality(DataBefore(f, n)) \in Nat
  BY <1>3, FS_Subset, FS_CardinalityType
<1>5. DataBefore(f, n + 1) = IF n \in DataLines(f) THEN DataBefore(f, n) \union {n} ELSE DataBefore(f, n)
  BY <1>2 DEF DataBefore
<1>6. n \notin DataBefore(f, n)
  BY DEF DataBefore
<1>7. Cardinality(DataBefore(f, n) \union {n}) = Cardinality(DataBefore(f, n)) + 1
  BY <1>4, <1>6, FS_AddElement
<1>8. Cardinality(DataBefore(f, n + 1)) =
        Cardinality(DataBefore(f, n)) + IF n \in DataLines(f) THEN 1 ELSE 0
  BY <1>4, <1>5, <1>7
<1>9. DataBefore(f, 1) = {} /\ (n > Len(f.lines) => DataBefore(f, n) = DataLines(f))
  BY <1>2 DEF DataBefore
<1> QED
  BY <1>4, <1>8, <1>9

\* An account is never withdrawn.
LEMMA AccountedStays ==
    ASSUME TypeInv, [Step]_vars, NEW t, NEW n, Accounted(t, n)
    PROVE  Accounted(t, n)'
<1>1. warned \subseteq warned' /\ input' = input
  BY DEF Step, SkipUnreadable, SkipUnrecognized, Open, ReadLine, Close, BreakOff, NextLog,
         GiveUp, Judge, vars, books
<1>2. \/ processed' = processed
      \/ \E e \in {entry, NoEntry} : processed' = Append(processed, [place |-> Here, entry |-> e])
  BY DEF Step, SkipUnreadable, SkipUnrecognized, Open, ReadLine, Close, BreakOff, NextLog,
         GiveUp, Judge, vars, books
<1>3. ASSUME NEW x \in [place : Place, entry : Entry], processed' = Append(processed, x)
      PROVE  \A i \in DOMAIN processed : i \in DOMAIN processed' /\ processed'[i] = processed[i]
  BY <1>3 DEF TypeInv, TypeOK
<1>4. \A e \in {entry, NoEntry} : [place |-> Here, entry |-> e] \in [place : Place, entry : Entry]
  BY HereType DEF TypeInv, TypeOK, NoEntry, Entry
<1>5. \A i \in DOMAIN processed : i \in DOMAIN processed' /\ processed'[i] = processed[i]
  BY <1>2, <1>3, <1>4
<1> QED
  BY <1>1, <1>5 DEF Accounted

\* The counters of the open file keep up with its data lines.
LEMMA ReadLineKeepsUp ==
    ASSUME TypeInv, ReadLine, status' # "crashed",
           entry.records + entry.malformed >= Cardinality(DataBefore(Current, lineno))
    PROVE  entry'.records + entry'.malformed >= Cardinality(DataBefore(Current, lineno'))
<1> DEFINE l == Current.lines[lineno]
           verdict == Verdict(Type, mode, headed, l)
<1>1. /\ Current \in File /\ lineno \in Nat \ {0} /\ lineno' = lineno + 1
      /\ entry.records \in Nat /\ entry.malformed \in Nat
      /\ mode \in {"json", "tsv"} /\ lineno \in Delivered(Current)
  BY CurrentType DEF ReadLine, TypeInv, TypeOK, Entry
<1>2. /\ verdict # "raises"
      /\ entry' = [records |-> entry.records + (IF verdict = "record" THEN 1 ELSE 0),
                   malformed |-> entry.malformed + (IF verdict = "malformed" THEN 1 ELSE 0)]
  BY DEF ReadLine
<1>3. lineno \in DataLines(Current) => verdict \in {"record", "malformed", "raises"}
  <2>1. lineno \in 1..lineno
    BY <1>1
  <2>2. l.kind # "long"
    BY <1>1, <2>1 DEF Delivered
  <2> QED
    BY <1>1, <2>2 DEF DataLines, Verdict, Parsed
<1>4. Cardinality(DataBefore(Current, lineno')) =
        Cardinality(DataBefore(Current, lineno)) + IF lineno \in DataLines(Current) THEN 1 ELSE 0
  BY <1>1, DataFinite
<1>5. Cardinality(DataBefore(Current, lineno)) \in Nat
  BY <1>1, DataFinite
<1> HIDE DEF verdict
<1> QED
  BY <1>1, <1>2, <1>3, <1>4, <1>5

LEMMA EntryStep ==
    ASSUME TypeInv, EntryKeepsUp, [Step]_vars
    PROVE  EntryKeepsUp'
<1>1. SUFFICES ASSUME mode' # "closed", status' # "crashed"
               PROVE  entry'.records + entry'.malformed >= Cardinality(DataBefore(Current, lineno))'
  BY DEF EntryKeepsUp
<1>2. CASE Open
  <2>1. /\ Current' = Current /\ lineno' = 1 /\ entry' = NoEntry /\ Current \in File
    BY <1>2, SameFile, CurrentType DEF Open, Opening, TypeInv
  <2>2. DataBefore(Current, lineno)' = DataBefore(Current, 1)
    BY <2>1 DEF DataBefore, DataLines
  <2>3. DataBefore(Current, 1) = {}
    BY <2>1, DataFinite
  <2> QED
    BY <2>1, <2>2, <2>3, FS_EmptySet DEF NoEntry
<1>3. CASE ReadLine
  <2>1. Current' = Current /\ mode' = mode /\ status # "crashed"
    BY <1>3, SameFile DEF ReadLine
  <2>2. DataBefore(Current, lineno)' = DataBefore(Current, lineno')
    BY <2>1 DEF DataBefore, DataLines
  <2> QED
    BY <1>1, <1>3, <2>1, <2>2, ReadLineKeepsUp DEF EntryKeepsUp
<1>4. CASE ~Open /\ ~ReadLine
  <2>1. UNCHANGED <<input, format, stage, at, mode, lineno, entry>> /\ status # "crashed"
    BY <1>1, <1>4 DEF Step, SkipUnreadable, SkipUnrecognized, Opening, Close, BreakOff, NextLog,
                      GiveUp, Judge, LogRead, vars, position
  <2>2. DataBefore(Current, lineno)' = DataBefore(Current, lineno)
    BY <2>1, SameFile DEF DataBefore, DataLines
  <2> QED
    BY <1>1, <2>1, <2>2 DEF EntryKeepsUp
<1> QED
  BY <1>2, <1>3, <1>4

LEMMA BehindStep ==
    ASSUME TypeInv, TypeInv', EntryKeepsUp, BehindAccounted, [Step]_vars
    PROVE  BehindAccounted'
<1>1. /\ input' = input /\ at \in Nat \ {0} /\ stage \in 1..4 /\ Here = [type |-> Type, file |-> at]
      /\ lineno \in Nat \ {0} /\ \A t \in Types : DOMAIN input[t] = 1..Len(input[t])
      /\ \A t \in Types : Len(input[t]) \in Nat
  BY SameInput DEF TypeInv, TypeOK, Here
<1>2. \A t \in Types : \A n \in DOMAIN input[t] : Behind(t, n) => Accounted(t, n)'
  BY AccountedStays DEF BehindAccounted
<1>3. CASE UNCHANGED <<stage, at>>
  <2>1. \A t, n : Behind(t, n)' = Behind(t, n)
    BY <1>3 DEF Behind, Type
  <2> QED
    BY <1>1, <1>2, <2>1 DEF BehindAccounted
\* Going on to the next file: the one left is accounted for.
<1>4. ASSUME UNCHANGED stage, at' = at + 1, \A t, n : t = Type /\ n = at => Accounted(t, n)'
      PROVE  BehindAccounted'
  <2>1. \A t \in Types : \A n \in DOMAIN input[t] :
          Behind(t, n)' => Behind(t, n) \/ (t = Type /\ n = at)
    BY <1>1, <1>4 DEF Behind, Type
  <2> QED
    BY <1>1, <1>2, <1>4, <2>1 DEF BehindAccounted
<1>5. Here \in warned' => \A t, n : t = Type /\ n = at => Accounted(t, n)'
  BY <1>1 DEF Accounted
<1>6. CASE SkipUnreadable \/ SkipUnrecognized
  <2>1. UNCHANGED stage /\ at' = at + 1 /\ Here \in warned'
    BY <1>6 DEF SkipUnreadable, SkipUnrecognized
  <2> QED
    BY <1>4, <1>5, <2>1
<1>7. CASE Close
  <2>1. UNCHANGED stage /\ at' = at + 1 /\ Current \in File
        /\ (Limited(Current) => Here \in warned')
        /\ processed' = Append(processed, [place |-> Here, entry |-> entry])
        /\ lineno \notin Delivered(Current) /\ Current = input[Type][at] /\ Type \in Types
        /\ entry.records + entry.malformed >= Cardinality(DataBefore(Current, lineno))
    BY <1>7, CurrentType, StageType DEF Close, TypeInv, EntryKeepsUp, Current, Files
  <2>2. CASE Limited(Current)
    BY <1>4, <1>5, <2>1, <2>2
  <2>3. CASE ~Limited(Current)
    <3>1. Current.lines \in Seq(Line)
      BY <2>1 DEF File
    <3>2. DOMAIN Current.lines = 1..Len(Current.lines) /\ Len(Current.lines) \in Nat
      BY <3>1
    <3>3. lineno > Len(Current.lines)
      BY <1>1, <2>1, <2>3, <3>2 DEF Limited
    <3>4. DataBefore(Current, lineno) = DataLines(Current)
      BY <1>1, <2>1, <3>3, DataFinite
    <3>5. [place |-> Here, entry |-> entry] \in [place : Place, entry : Entry]
      BY HereType DEF TypeInv, TypeOK
    <3>6. \E i \in DOMAIN processed' : processed'[i] = [place |-> Here, entry |-> entry]
      <4>1. /\ Len(processed) + 1 \in DOMAIN processed'
            /\ processed'[Len(processed) + 1] = [place |-> Here, entry |-> entry]
        BY <2>1, <3>5 DEF TypeInv, TypeOK
      <4> QED
        BY <4>1
    <3>7. \A t, n : t = Type /\ n = at => Accounted(t, n)'
      <4>1. PICK i \in DOMAIN processed' : processed'[i] = [place |-> Here, entry |-> entry]
        BY <3>6
      <4>2. /\ processed'[i].place = [type |-> Type, file |-> at]
            /\ processed'[i].entry.records + processed'[i].entry.malformed
                 >= Cardinality(DataLines(input[Type][at]))
        BY <1>1, <2>1, <3>4, <4>1
      <4>3. \A f : DataLines(f)' = DataLines(f)
        BY DEF DataLines
      <4> QED
        BY <1>1, <4>2, <4>3 DEF Accounted
    <3> QED
      BY <1>4, <2>1, <3>7
  <2> QED
    BY <2>2, <2>3
<1>8. CASE NextLog
  <2>1. stage' = stage + 1 /\ at' = 1 /\ at > Len(Files) /\ Files = input[Type]
    BY <1>8 DEF NextLog, LogRead, Files
  <2>2. \A t \in Types : \A n \in DOMAIN input[t] : Behind(t, n)' => Behind(t, n)
    BY <1>1, <2>1 DEF Behind, Type
  <2> QED
    BY <1>1, <1>2, <2>2 DEF BehindAccounted
<1>9. Step \/ UNCHANGED vars => \/ UNCHANGED <<stage, at>> \/ SkipUnreadable \/ SkipUnrecognized
                                \/ Close \/ NextLog
  BY DEF Step, Open, ReadLine, BreakOff, GiveUp, Judge, vars, position
<1> QED
  BY <1>3, <1>6, <1>7, <1>8, <1>9

LEMMA JudgedStep ==
    ASSUME TypeInv, JudgedLast, [Step]_vars
    PROVE  JudgedLast'
<1>1. CASE Judge
  BY <1>1 DEF Judge, LogRead, JudgedLast, position, Files, Type
<1>2. CASE ~Judge /\ Step
  BY <1>2 DEF Step, SkipUnreadable, SkipUnrecognized, Opening, Open, ReadLine, Close, BreakOff,
              NextLog, LogRead, GiveUp, JudgedLast, Judged
<1>3. CASE UNCHANGED vars
  BY <1>3 DEF vars, position, JudgedLast, Judged, Files, Type
<1> QED
  BY <1>1, <1>2, <1>3

\* No line of a log that was read goes missing in silence: for every file there is a
\* warning, or an entry whose counters reach the number of its data lines.
THEOREM NothingIsSkipped == Spec => []NothingSkipped
<1>1. Init => EntryKeepsUp /\ BehindAccounted /\ JudgedLast
  <2> SUFFICES ASSUME Init PROVE EntryKeepsUp /\ BehindAccounted /\ JudgedLast
    OBVIOUS
  <2>1. \A t \in Types : \A n \in DOMAIN input[t] : ~Behind(t, n)
    <3>1. \A t \in Types : input[t] \in Seq(File)
      BY InputsAssumption DEF Init
    <3> QED
      BY <3>1 DEF Init, Behind
  <2> QED
    BY <2>1 DEF Init, EntryKeepsUp, BehindAccounted, JudgedLast, Judged
<1>2. ASSUME TypeInv, BehindAccounted, JudgedLast PROVE NothingSkipped
  <2> SUFFICES ASSUME NEW t \in Finished, NEW n \in DOMAIN input[t]
               PROVE  t \in Types /\ Accounted(t, n)
    <3>1. \A t \in Finished : \A n \in DOMAIN input[t] : Accounted(t, n)
      OBVIOUS
    <3> QED
      BY <3>1, Zenon DEF NothingSkipped, Accounted, DataLines
  <2>1. stage \in 1..4 /\ \A s \in 1..4 : LogTypes[s] \in Types
    BY <1>2 DEF TypeInv, TypeOK, LogTypes, Types
  <2>2. t \in Types
    BY <2>1 DEF Finished
  <2>3. input[t] \in Seq(File) /\ at \in Nat
    BY <1>2, <2>2 DEF TypeInv, TypeOK
  <2>4. CASE \E s \in 1..(stage - 1) : LogTypes[s] = t
    BY <1>2, <2>2, <2>4 DEF BehindAccounted, Behind
  <2>5. CASE Judged
    <3>1. stage = 4 /\ at > Len(Files)
      BY <1>2, <2>5 DEF JudgedLast
    <3>2. \E s \in 1..4 : LogTypes[s] = t
      BY <2>2 DEF Types, LogTypes
    <3>3. Behind(t, n)
      BY <2>3, <3>1, <3>2 DEF Behind, Type, Files
    <3> QED
      BY <1>2, <2>2, <3>3 DEF BehindAccounted
  <2> QED
    BY <2>2, <2>4, <2>5 DEF Finished
<1>3. Spec => []TypeInv
  BY InitType, StepType, PTL DEF Spec
<1> QED
  BY <1>1, <1>2, <1>3, EntryStep, BehindStep, JudgedStep, PTL DEF Spec

-------------------------------------------------------------------------------
(* Every connection counts once.                                           *)

\* The records of communication k that count, and those of them behind the reader.
FirstOf(k) ==
    {p \in UsablePlaces("conn") : RecordAt("conn", p).key = k /\ ~Repeats(p)}
FirstPassed(k) == {p \in FirstOf(k) : Passed("conn", p)}

CountsFirst == \A k \in Key : aggregates[k].count = Cardinality(FirstPassed(k))

\* seen_uids holds every uid behind the reader.
UidsComplete ==
    \A q \in UsablePlaces("conn") :
        Passed("conn", q) /\ RecordAt("conn", q).uid # NoUid => RecordAt("conn", q).uid \in seen

LEMMA SameFirst ==
    ASSUME [Step]_vars
    PROVE  \A k : FirstOf(k)' = FirstOf(k)
<1>1. /\ UsablePlaces("conn")' = UsablePlaces("conn")
      /\ \A p : RecordAt("conn", p)' = RecordAt("conn", p)
  BY SameInput, SamePlaces
<1>2. \A p : Repeats(p)' = Repeats(p)
  BY <1>1 DEF Repeats
<1> QED
  BY <1>1, <1>2 DEF FirstOf

LEMMA FirstFinite ==
    ASSUME TypeInv, NEW k
    PROVE  IsFiniteSet(FirstPassed(k)) /\ Cardinality(FirstPassed(k)) \in Nat
<1>1. input["conn"] \in Seq(File)
  BY DEF TypeInv, TypeOK, Types
<1>2. DOMAIN input["conn"] = 1..Len(input["conn"]) /\ Len(input["conn"]) \in Nat
  BY <1>1
<1>3. IsFiniteSet(DOMAIN input["conn"]) /\ IsFiniteSet(1..MaxRecords)
  BY <1>2, LimitsAssumption, FS_Interval
<1>4. IsFiniteSet((DOMAIN input["conn"]) \X (1..MaxRecords))
  BY <1>3, FS_Product
<1>5. FirstPassed(k) \in SUBSET ((DOMAIN input["conn"]) \X (1..MaxRecords))
  BY DEF FirstPassed, FirstOf, UsablePlaces
<1> QED
  BY <1>4, <1>5, FS_Subset, FS_CardinalityType

\* Taking the record at p: connections are taken while the first log is read, p was not
\* behind the reader before, and everything before p was.
LEMMA TakenFacts ==
    ASSUME TypeInv, ReaderInv, [Step]_vars, NEW p \in UsablePlaces("conn"), Taken("conn", p)
    PROVE  /\ Add(RecordAt("conn", p)) /\ RecordAt("conn", p) \in Record
           /\ ~Passed("conn", p) /\ Passed("conn", p)'
           /\ \A q \in UsablePlaces("conn") : Passed("conn", q) <=> Before(q, p)
<1>1. /\ Type = "conn" /\ p = <<at, lineno>> /\ ReadLine /\ Take(RecordAt("conn", p))
      /\ RecordAt("conn", p) = Current.lines[lineno].record
  BY DEF Taken, RecordAt, Current, Files
<1>2. Add(RecordAt("conn", p)) /\ RecordAt("conn", p) \in Record
  BY <1>1, LineType DEF Take, ReadLine, Line
<1>3. stage = 1 /\ at \in Nat /\ lineno \in Nat /\ mode # "closed"
  <2>1. stage \in 1..4
    BY DEF TypeInv, TypeOK
  <2>2. LogTypes[2] # "conn" /\ LogTypes[3] # "conn" /\ LogTypes[4] # "conn"
    BY DEF LogTypes
  <2> QED
    BY <1>1, <2>1, <2>2 DEF Type, ReadLine, TypeInv, TypeOK
<1>4. \A q \in UsablePlaces("conn") : Passed("conn", q) <=> Before(q, p)
  BY <1>1, <1>3 DEF Passed, Before
<1>5. ~Passed("conn", p)
  BY <1>1, <1>3 DEF Passed
<1>6. Passed("conn", p)'
  <2>1. UNCHANGED <<stage, at, mode>> /\ lineno' = lineno + 1
    BY <1>1 DEF ReadLine
  <2> QED
    BY <1>1, <1>3, <2>1 DEF Passed, Type
<1> QED
  BY <1>2, <1>4, <1>5, <1>6

LEMMA UidsCompleteStep ==
    ASSUME TypeInv, ReaderInv, UidsComplete, [Step]_vars
    PROVE  UidsComplete'
<1> SUFFICES ASSUME NEW q \in UsablePlaces("conn")', Passed("conn", q)',
                    RecordAt("conn", q)'.uid # NoUid
             PROVE  RecordAt("conn", q)'.uid \in seen'
  BY DEF UidsComplete
<1>1. /\ q \in UsablePlaces("conn") /\ "conn" \in Types
      /\ RecordAt("conn", q)' = RecordAt("conn", q)
  BY SameInput, SamePlaces DEF Types
<1>2. CASE Passed("conn", q)
  BY <1>1, <1>2, EvidenceStays DEF UidsComplete
<1>3. CASE Taken("conn", q)
  BY <1>1, <1>3, TakenFacts DEF Add
<1> QED
  BY <1>1, <1>2, <1>3, PassedByTaking

LEMMA CountsStep ==
    ASSUME TypeInv, TypeInv', ReaderInv, UidsFromRecords, UidsComplete, CountsFirst, [Step]_vars
    PROVE  CountsFirst'
<1>1. /\ UsablePlaces("conn")' = UsablePlaces("conn") /\ "conn" \in Types
      /\ \A q : RecordAt("conn", q)' = RecordAt("conn", q)
      /\ \A k : FirstOf(k)' = FirstOf(k)
  BY SameInput, SamePlaces, SameFirst DEF Types
<1>2. \A q \in UsablePlaces("conn") : Passed("conn", q)' <=> Passed("conn", q) \/ Taken("conn", q)
  <2>1. ASSUME NEW q \in UsablePlaces("conn"), Taken("conn", q) PROVE Passed("conn", q)'
    BY <2>1, TakenFacts
  <2> QED
    BY <1>1, <2>1, PassedByTaking, PassedStays
<1>3. \A k : FirstOf(k) \subseteq UsablePlaces("conn")
  BY DEF FirstOf
<1>4. CASE \E p \in UsablePlaces("conn") : Taken("conn", p)
  <2>1. PICK p \in UsablePlaces("conn") : Taken("conn", p)
    BY <1>4
  <2> DEFINE c == RecordAt("conn", p)
  <2>2. /\ Add(c) /\ c \in Record /\ ~Passed("conn", p)
        /\ \A q \in UsablePlaces("conn") : Passed("conn", q) <=> Before(q, p)
    BY <2>1, TakenFacts
  <2>3. \A q : Taken("conn", q) <=> q = p
    BY <2>1 DEF Taken
  <2>4. \A k : FirstPassed(k)' = FirstPassed(k) \union (FirstOf(k) \intersect {p})
    BY <1>1, <1>2, <1>3, <2>3 DEF FirstPassed
  <2>5. c.uid \in seen <=> Repeats(p)
    BY <2>2 DEF Repeats, UidsFromRecords, UidsComplete
  <2>6. CASE c.uid \in seen
    <3>1. \A k : p \notin FirstOf(k)
      BY <2>5, <2>6 DEF FirstOf
    <3>2. \A k : FirstPassed(k)' = FirstPassed(k)
      BY <2>4, <3>1
    <3> QED
      BY <2>2, <2>6, <3>2 DEF Add, CountsFirst
  <2>7. CASE c.uid \notin seen
    <3>1. c.key \in Key /\ p \in FirstOf(c.key) /\ \A k : k # c.key => p \notin FirstOf(k)
      BY <2>1, <2>2, <2>5, <2>7 DEF FirstOf, Record
    <3>2. /\ aggregates'[c.key].count = aggregates[c.key].count + 1
          /\ \A k \in Key \ {c.key} : aggregates'[k] = aggregates[k]
      <4>1. aggregates' =
              [aggregates EXCEPT ![c.key] =
                [count |-> aggregates[c.key].count + 1,
                 ok |-> aggregates[c.key].ok + (IF Outcome(c) = "successful" THEN 1 ELSE 0),
                 flaws |-> aggregates[c.key].flaws \union Flaws(c)]]
        BY <2>2, <2>7 DEF Add
      <4> QED
        BY <3>1, <4>1 DEF TypeInv, TypeOK
    <3>3. \A k \in Key \ {c.key} : FirstPassed(k)' = FirstPassed(k)
      BY <2>4, <3>1
    <3>4. ASSUME NEW k \in Key
          PROVE  aggregates'[k].count = Cardinality(FirstPassed(k)')
      <4>1. CASE k # c.key
        BY <3>2, <3>3, <4>1 DEF CountsFirst
      <4>2. CASE k = c.key
        <5>1. FirstPassed(k)' = FirstPassed(k) \union {p} /\ p \notin FirstPassed(k)
          BY <2>2, <2>4, <3>1, <4>2 DEF FirstPassed
        <5>2. Cardinality(FirstPassed(k) \union {p}) = Cardinality(FirstPassed(k)) + 1
          BY <5>1, FirstFinite, FS_AddElement
        <5>3. aggregates[k].count = Cardinality(FirstPassed(k))
          BY DEF CountsFirst
        <5> QED
          BY <3>2, <4>2, <5>1, <5>2, <5>3
      <4> QED
        BY <4>1, <4>2
    <3> QED
      BY <3>4 DEF CountsFirst
  <2> QED
    BY <2>6, <2>7
<1>5. CASE ~\E p \in UsablePlaces("conn") : Taken("conn", p)
  <2>1. \A k : FirstPassed(k)' = FirstPassed(k)
    BY <1>1, <1>2, <1>3, <1>5 DEF FirstPassed
  <2>2. ASSUME ReadLine, Take(Current.lines[lineno].record), Type = "conn",
               Verdict(Type, mode, headed, Current.lines[lineno]) = "record"
        PROVE  FALSE
    <3>1. PICK p : p = <<at, lineno>>
      OBVIOUS
    <3>2. p \in UsablePlaces("conn")
      BY <2>2, <3>1, TakenPlace
    <3> QED
      BY <1>5, <2>2, <3>1, <3>2 DEF Taken
  <2>3. ReadLine => \/ UNCHANGED results
                    \/ /\ Take(Current.lines[lineno].record)
                       /\ Verdict(Type, mode, headed, Current.lines[lineno]) = "record"
    BY DEF ReadLine
  <2>4. \A c : Take(c) /\ Type # "conn" => UNCHANGED aggregates
    BY DEF Take
  <2>5. UNCHANGED aggregates
    BY <2>2, <2>3, <2>4, OnlyReadLineCounts DEF results
  <2> QED
    BY <2>1, <2>5 DEF CountsFirst
<1> QED
  BY <1>4, <1>5

\* However the connections are spread over rotated files, and whatever lines or files
\* are skipped: once conn.log was read, a communication's count is the number of its
\* usable records, those not counted whose uid an earlier usable record has.
THEOREM EachCountsOnce == Spec => []CountedOnce
<1>1. Init => UidsFromRecords /\ UidsComplete /\ CountsFirst /\ ReaderInv /\ JudgedLast
  <2> SUFFICES ASSUME Init
               PROVE  UidsFromRecords /\ UidsComplete /\ CountsFirst /\ ReaderInv /\ JudgedLast
    OBVIOUS
  <2>1. UidsFromRecords /\ ReaderInv /\ JudgedLast
    BY DEF Init, UidsFromRecords, ReaderInv, JudgedLast, Judged
  <2>2. ASSUME NEW p \in UsablePlaces("conn") PROVE ~Passed("conn", p)
    <3>1. input["conn"] \in Seq(File)
      BY InputsAssumption DEF Init, Types
    <3>2. p[1] \in Nat \ {0}
      BY <3>1, PlaceType
    <3> QED
      BY <3>2 DEF Init, Passed
  <2>3. \A k : FirstPassed(k) = {}
    BY <2>2 DEF FirstPassed, FirstOf
  <2>4. \A k \in Key : aggregates[k].count = 0
    BY DEF Init
  <2> QED
    BY <2>1, <2>2, <2>3, <2>4, FS_EmptySet DEF UidsComplete, CountsFirst
<1>2. ASSUME TypeInv, JudgedLast, CountsFirst PROVE CountedOnce
  <2> SUFFICES ASSUME "conn" \in Finished, NEW k \in Key
               PROVE  aggregates[k].count = Cardinality(FirstOf(k))
    <3>1. \A k : FirstOf(k) =
            {p \in UsablePlaces("conn") :
               LET uid == RecordAt("conn", p).uid
               IN /\ RecordAt("conn", p).key = k
                  /\ uid # NoUid =>
                       ~\E q \in UsablePlaces("conn") :
                           Before(q, p) /\ RecordAt("conn", q).uid = uid}
      BY DEF FirstOf, Repeats
    <3> QED
      BY <3>1, Zenon DEF CountedOnce
  <2>1. stage = 4 \/ \E s \in 1..(stage - 1) : LogTypes[s] = "conn"
    BY <1>2 DEF Finished, JudgedLast
  <2>2. \E s \in 1..(stage - 1) : LogTypes[s] = "conn"
    BY <2>1 DEF LogTypes
  <2>3. FirstPassed(k) = FirstOf(k)
    BY <2>2 DEF FirstPassed, Passed
  <2> QED
    BY <1>2, <2>3 DEF CountsFirst
<1>3. Spec => []TypeInv
  BY InitType, StepType, PTL DEF Spec
<1> QED
  BY <1>1, <1>2, <1>3, ReaderInductive, UidsStep, UidsCompleteStep, CountsStep, JudgedStep,
     PTL DEF Spec

-------------------------------------------------------------------------------
(* The totals.  A fold over a sequence takes its elements in an order that *)
(* is not specified, so first: its recursion has a solution, and every     *)
(* solution counts each element once.                                      *)

\* What an entry adds to the total of a field of one log type, and that total,
\* over the entries of seq and the counter base of the open file.
Value(t, field, e) == IF e.place.type = t THEN e.entry[field] ELSE 0
TotalOf(t, field, base, seq) ==
    FoldSeq(LAMBDA e, sum : sum + (IF e.place.type = t THEN e.entry[field] ELSE 0), base, seq)

FileEntry == [place : Place, entry : Entry]

\* A set of numbers with 0 that has k + 1 whenever it has k < n has all of 0..n.
LEMMA Counting ==
    ASSUME NEW n \in Nat, NEW T, 0 \in T, \A k \in 0..(n - 1) : k \in T => k + 1 \in T
    PROVE  0..n \subseteq T
<1> SUFFICES ASSUME (0..n) \ T # {}
             PROVE  FALSE
  OBVIOUS
<1> DEFINE less == {ss \in Nat \X Nat : ss[1] < ss[2]}
<1>1. IsWellFoundedOn(less, Nat)
  BY NatLessThanWellFounded, Zenon DEF OpToRel
<1> HIDE DEF less
<1>2. PICK p \in (0..n) \ T : \A q \in (0..n) \ T : ~(<<q, p>> \in less)
  BY <1>1, WFMin, (0..n) \ T \in SUBSET Nat
<1>3. p # 0 /\ p - 1 \in 0..(n - 1) /\ p - 1 \in 0..n /\ p - 1 < p /\ p - 1 + 1 = p
  BY <1>2
<1>4. <<p - 1, p>> \in less
  BY <1>3 DEF less
<1> QED  BY <1>2, <1>3, <1>4

\* The element the fold takes next from a set of indices.
Pick(s) == CHOOSE x \in s : TRUE

\* The sets of at most k of n indices.
UpTo(n, k) == {s \in SUBSET (1..n) : Cardinality(s) <= k}

LEMMA UpToBounds ==
    ASSUME NEW n \in Nat
    PROVE  UpTo(n, 0) = {{}} /\ UpTo(n, n) = SUBSET (1..n)
<1>1. IsFiniteSet(1..n) /\ Cardinality(1..n) = n
  BY FS_Interval
<1>2. \A s \in SUBSET (1..n) : IsFiniteSet(s) /\ Cardinality(s) \in Nat /\ Cardinality(s) <= n
  BY <1>1, FS_Subset, FS_CardinalityType
<1>3. \A s \in SUBSET (1..n) : Cardinality(s) = 0 <=> s = {}
  BY <1>2, FS_EmptySet, Zenon
<1> QED  BY <1>2, <1>3 DEF UpTo

\* Without one of its elements a set is one of those of at most k indices.
LEMMA UpToStep ==
    ASSUME NEW n \in Nat, NEW k \in Nat
    PROVE  /\ UpTo(n, k) \subseteq UpTo(n, k + 1)
           /\ \A s \in UpTo(n, k + 1) : \A x \in s : s \ {x} \in UpTo(n, k)
<1>1. \A s \in SUBSET (1..n) : IsFiniteSet(s) /\ Cardinality(s) \in Nat
  <2>1. IsFiniteSet(1..n)
    BY FS_Interval
  <2> QED  BY <2>1, FS_Subset, FS_CardinalityType
<1>2. UpTo(n, k) \subseteq UpTo(n, k + 1)
  BY <1>1 DEF UpTo
<1>3. ASSUME NEW s \in UpTo(n, k + 1), NEW x \in s
      PROVE  s \ {x} \in UpTo(n, k)
  <2>1. s \in SUBSET (1..n) /\ Cardinality(s) <= k + 1
    BY DEF UpTo
  <2>2. Cardinality(s \ {x}) = Cardinality(s) - 1
    BY <1>1, <2>1, FS_RemoveElement
  <2> QED  BY <1>1, <2>1, <2>2 DEF UpTo
<1> QED  BY <1>2, <1>3

LEMMA PickType == \A n : \A s \in SUBSET (1..n) : s # {} => Pick(s) \in s /\ Pick(s) \in 1..n
BY DEF Pick

\* The recursion that a fold of the numbers v[1], ..., v[n] is defined by.
SumsUp(g, n, base, v) ==
    \A s \in SUBSET (1..n) : g[s] = IF s = {} THEN base ELSE g[s \ {Pick(s)}] + v[Pick(s)]

\* It has a solution.
LEMMA SumExists ==
    ASSUME NEW n \in Nat, NEW base \in Int, NEW v \in [1..n -> Int]
    PROVE  \E g \in [SUBSET (1..n) -> Int] : SumsUp(g, n, base, v)
<1> DEFINE Next1(g, s) == IF s = {} THEN base ELSE g[s \ {Pick(s)}] + v[Pick(s)]
           Solves(g, k) == \A s \in UpTo(n, k) : g[s] = Next1(g, s)
           T == {k \in 0..n : \E g \in [UpTo(n, k) -> Int] : Solves(g, k)}
<1>1. 0 \in T
  <2> DEFINE g == [s \in {{}} |-> base]
  <2>1. g \in [{{}} -> Int] /\ \A s \in {{}} : g[s] = Next1(g, s)
    OBVIOUS
  <2>2. UpTo(n, 0) = {{}}
    BY UpToBounds
  <2>3. g \in [UpTo(n, 0) -> Int] /\ Solves(g, 0)
    BY <2>1, <2>2
  <2> HIDE DEF g, Solves
  <2> QED  BY <2>3
<1>2. ASSUME NEW k \in 0..(n - 1), k \in T
      PROVE  k + 1 \in T
  <2>0. k \in Nat /\ k + 1 \in Nat /\ k + 1 \in 0..n
    OBVIOUS
  <2>1. PICK g \in [UpTo(n, k) -> Int] : Solves(g, k)
    BY <1>2
  <2> DEFINE h == [s \in UpTo(n, k + 1) |-> Next1(g, s)]
  <2>2. \A s \in UpTo(n, k + 1) : s # {} => Pick(s) \in 1..n /\ s \ {Pick(s)} \in UpTo(n, k)
    <3>1. \A s \in UpTo(n, k + 1) : s \in SUBSET (1..n)
      BY DEF UpTo
    <3> QED  BY <2>0, <3>1, PickType, UpToStep
  <2>3. \A s \in UpTo(n, k) : h[s] = g[s]
    <3>1. UpTo(n, k) \subseteq UpTo(n, k + 1)
      BY <2>0, UpToStep
    <3> HIDE DEF Next1
    <3> QED  BY <2>1, <3>1
  <2>4. h \in [UpTo(n, k + 1) -> Int]
    BY <2>2
  <2>5. \A s \in UpTo(n, k + 1) : Next1(g, s) = Next1(h, s)
    <3> HIDE DEF h
    <3> QED  BY <2>2, <2>3
  <2>6. Solves(h, k + 1)
    <3> HIDE DEF Next1
    <3> QED  BY <2>5
  <2> HIDE DEF h, Solves
  <2> QED  BY <2>0, <2>4, <2>6
<1> HIDE DEF T
<1>3. 0..n \subseteq T
  BY <1>1, <1>2, Counting
<1>4. n \in T
  BY <1>3
<1> QED  BY <1>4, UpToBounds DEF T, SumsUp

\* Every solution counts each element once, in whatever order it takes them.
TakesAny(g, n, v) ==
    \A s \in SUBSET (1..n) : g[s] \in Int /\ \A x \in s : g[s] = g[s \ {x}] + v[x]

LEMMA SumTakesAny ==
    ASSUME NEW n \in Nat, NEW base \in Int, NEW v \in [1..n -> Int],
           NEW g, SumsUp(g, n, base, v)
    PROVE  TakesAny(g, n, v)
<1> DEFINE AnyOut(s) == g[s] \in Int /\ \A x \in s : g[s] = g[s \ {x}] + v[x]
           T == {k \in 0..n : \A s \in UpTo(n, k) : AnyOut(s)}
<1>1. 0 \in T
  <2>1. AnyOut({})
    BY DEF SumsUp
  <2>2. UpTo(n, 0) = {{}}
    BY UpToBounds
  <2> HIDE DEF AnyOut
  <2>3. \A s \in UpTo(n, 0) : AnyOut(s)
    BY <2>1, <2>2
  <2> QED  BY <2>3
<1>2. ASSUME NEW k \in 0..(n - 1), \A s \in UpTo(n, k) : AnyOut(s), NEW s \in UpTo(n, k + 1), s # {}
      PROVE  AnyOut(s)
  <2> DEFINE c == Pick(s)
  <2>a. k \in Nat /\ s \in SUBSET (1..n)
    BY DEF UpTo
  <2>0. k \in Nat /\ s \in SUBSET (1..n) /\ c \in s /\ c \in 1..n
    BY <1>2, <2>a, PickType
  <2>1. g[s] = g[s \ {c}] + v[c]
    BY <1>2, <2>0 DEF SumsUp
  <2>2. \A x \in s : s \ {x} \in UpTo(n, k)
    BY <2>0, UpToStep
  <2> HIDE DEF c
  <2>3. g[s] \in Int
    BY <1>2, <2>0, <2>1, <2>2
  <2>4. ASSUME NEW x \in s, x # c
        PROVE  g[s] = g[s \ {x}] + v[x]
    <3> DEFINE rest == (s \ {c}) \ {x}
    <3>1. g[s \ {c}] = g[rest] + v[x]
      BY <1>2, <2>0, <2>2, <2>4
    <3>2. rest = (s \ {x}) \ {c}
      OBVIOUS
    <3>3. g[s \ {x}] = g[rest] + v[c]
      BY <1>2, <2>0, <2>2, <2>4, <3>2
    <3>4. g[s \ {x}] \in Int /\ g[s \ {c}] \in Int /\ v[x] \in Int /\ v[c] \in Int
      BY <1>2, <2>0, <2>2
    <3>5. g[rest] \in Int
      <4>1. IsFiniteSet(s \ {c}) /\ s \ {c} \in SUBSET (1..n) /\ rest \in SUBSET (s \ {c})
        <5>1. IsFiniteSet(1..n)
          BY FS_Interval
        <5> QED  BY <2>0, <5>1, FS_Subset
      <4>2. Cardinality(rest) <= Cardinality(s \ {c}) /\ Cardinality(s \ {c}) <= k
        BY <2>0, <2>2, <4>1, FS_Subset DEF UpTo
      <4>3. Cardinality(rest) \in Nat /\ Cardinality(s \ {c}) \in Nat
        BY <4>1, FS_Subset, FS_CardinalityType
      <4>4. rest \in UpTo(n, k)
        BY <2>0, <4>1, <4>2, <4>3 DEF UpTo
      <4> QED  BY <1>2, <4>4
    <3> HIDE DEF rest
    <3> QED  BY <2>1, <3>1, <3>3, <3>4, <3>5
  <2> QED  BY <2>1, <2>3, <2>4
<1>3. ASSUME NEW k \in 0..(n - 1), k \in T
      PROVE  k + 1 \in T
  <2>1. AnyOut({})
    BY DEF SumsUp
  <2> HIDE DEF AnyOut
  <2>2. \A s \in UpTo(n, k + 1) : AnyOut(s)
    BY <1>2, <1>3, <2>1
  <2> QED  BY <2>2
<1> HIDE DEF T, AnyOut
<1>4. 0..n \subseteq T
  BY <1>1, <1>3, Counting
<1>5. n \in T
  BY <1>4
<1> QED  BY <1>5, UpToBounds DEF T, AnyOut, TakesAny

LEMMA ValueType ==
    ASSUME NEW t, NEW field \in {"records", "malformed"}, NEW e \in FileEntry
    PROVE  Value(t, field, e) \in Nat
<1>1. e.entry \in Entry
  BY DEF FileEntry
<1>2. e.entry[field] \in Nat
  BY <1>1 DEF Entry
<1> QED  BY <1>2 DEF Value

\* The total of the first k entries, for every k.
PrefixTotals(t, field, base, seq, p) ==
    /\ p \in [0..Len(seq) -> Int] /\ p[0] = base
    /\ \A k \in 1..Len(seq) : p[k] = p[k - 1] + Value(t, field, seq[k])
    /\ TotalOf(t, field, base, seq) = p[Len(seq)]

LEMMA SumOfPrefixes ==
    ASSUME NEW t, NEW field \in {"records", "malformed"}, NEW base \in Int, NEW seq \in Seq(FileEntry)
    PROVE  \E p : PrefixTotals(t, field, base, seq, p)
<1> DEFINE n == Len(seq)
           v == [i \in 1..n |-> Value(t, field, seq[i])]
           body(f) == [s \in SUBSET DOMAIN seq |->
                         IF s = {} THEN base
                         ELSE f[s \ {CHOOSE x \in s : TRUE}]
                                + Value(t, field, seq[CHOOSE x \in s : TRUE])]
           g == CHOOSE f : f = body(f)
<1>1. TotalOf(t, field, base, seq) = g[DOMAIN seq]
  BY DEF TotalOf, Value, FoldSeq, FoldFunction, FoldFunctionOnSet, MapThenFoldSet
<1>2. n \in Nat /\ DOMAIN seq = 1..n /\ v \in [1..n -> Int]
  <2>0. \A i \in 1..n : seq[i] \in FileEntry
    OBVIOUS
  <2>1. \A i \in 1..n : Value(t, field, seq[i]) \in Nat
    BY <2>0, ValueType
  <2> QED  BY <2>1
<1>3. PICK h \in [SUBSET (1..n) -> Int] : SumsUp(h, n, base, v)
  <2> HIDE DEF v, n
  <2> QED  BY <1>2, SumExists
<1>4. h = body(h)
  <2>1. \A s \in SUBSET (1..n) : s # {} => Pick(s) \in 1..n
    BY DEF Pick
  <2>2. \A s \in SUBSET (1..n) :
           h[s] = IF s = {} THEN base ELSE h[s \ {Pick(s)}] + Value(t, field, seq[Pick(s)])
    BY <1>3, <2>1 DEF SumsUp
  <2> QED  BY <1>2, <2>2 DEF Pick
<1>5. g = body(g)
  <2> HIDE DEF body
  <2> QED  BY <1>4
<1> HIDE DEF g
<1>6. SumsUp(g, n, base, v)
  <2>1. \A s \in SUBSET (1..n) :
           g[s] = IF s = {} THEN base ELSE g[s \ {Pick(s)}] + Value(t, field, seq[Pick(s)])
    BY <1>2, <1>5 DEF Pick
  <2>2. \A s \in SUBSET (1..n) : s # {} => v[Pick(s)] = Value(t, field, seq[Pick(s)])
    BY PickType
  <2> HIDE DEF v
  <2> QED  BY <2>1, <2>2 DEF SumsUp
<1> DEFINE p == [k \in 0..n |-> g[1..k]]
<1>7. \A k \in 0..n : 1..k \in SUBSET (1..n)
  BY <1>2
<1>8. TakesAny(g, n, v)
  <2> HIDE DEF v, n
  <2> QED  BY <1>2, <1>6, SumTakesAny
<1>9. p \in [0..n -> Int]
  BY <1>7, <1>8 DEF TakesAny
<1>10. p[0] = base
  <2>1. 1..0 = {} /\ 0 \in 0..n
    BY <1>2
  <2>2. g[{}] = base
    BY <1>6 DEF SumsUp
  <2> QED  BY <2>1, <2>2
<1>11. ASSUME NEW k \in 1..n
       PROVE  p[k] = p[k - 1] + Value(t, field, seq[k])
  <2>1. (1..k) \ {k} = 1..(k - 1) /\ k \in 1..k /\ 1..k \in SUBSET (1..n)
    OBVIOUS
  <2>2. g[1..k] = g[1..(k - 1)] + v[k]
    BY <1>8, <2>1 DEF TakesAny
  <2>3. v[k] = Value(t, field, seq[k]) /\ k \in 0..n /\ k - 1 \in 0..n
    OBVIOUS
  <2> HIDE DEF v, n
  <2> QED  BY <2>2, <2>3
<1>12. TotalOf(t, field, base, seq) = p[n]
  BY <1>1, <1>2
<1> HIDE DEF p
<1>13. PrefixTotals(t, field, base, seq, p)
  BY <1>9, <1>10, <1>11, <1>12 DEF PrefixTotals
<1> QED  BY <1>13

\* The total of no entries, and how it changes with the base and with an entry.
LEMMA TotalOfNone ==
    ASSUME NEW t, NEW field \in {"records", "malformed"}, NEW base \in Int
    PROVE  TotalOf(t, field, base, <<>>) = base
<1>1. <<>> \in Seq(FileEntry) /\ Len(<<>>) = 0
  OBVIOUS
<1>2. PICK p : PrefixTotals(t, field, base, <<>>, p)
  BY <1>1, SumOfPrefixes
<1> QED  BY <1>1, <1>2 DEF PrefixTotals

LEMMA TotalMoves ==
    ASSUME NEW t, NEW field \in {"records", "malformed"}, NEW base \in Int, NEW d \in Int,
           NEW seq \in Seq(FileEntry)
    PROVE  /\ TotalOf(t, field, base, seq) \in Int
           /\ TotalOf(t, field, base + d, seq) = TotalOf(t, field, base, seq) + d
<1> DEFINE n == Len(seq)
<1>1. n \in Nat /\ base + d \in Int
  OBVIOUS
<1>2. PICK p : PrefixTotals(t, field, base, seq, p)
  BY SumOfPrefixes
<1>3. PICK q : PrefixTotals(t, field, base + d, seq, q)
  BY <1>1, SumOfPrefixes
<1>a. /\ p \in [0..n -> Int] /\ p[0] = base /\ TotalOf(t, field, base, seq) = p[n]
      /\ \A k \in 1..n : p[k] = p[k - 1] + Value(t, field, seq[k])
  BY <1>2 DEF PrefixTotals
<1>b. /\ q \in [0..n -> Int] /\ q[0] = base + d /\ TotalOf(t, field, base + d, seq) = q[n]
      /\ \A k \in 1..n : q[k] = q[k - 1] + Value(t, field, seq[k])
  BY <1>3 DEF PrefixTotals
<1> HIDE DEF n
<1> DEFINE T == {k \in 0..n : q[k] = p[k] + d}
<1>4. 0 \in T
  BY <1>1, <1>a, <1>b
<1>5. ASSUME NEW k \in 0..(n - 1), k \in T
      PROVE  k + 1 \in T
  <2> DEFINE x == Value(t, field, seq[k + 1])
  <2>1. k + 1 \in 1..n /\ k + 1 - 1 = k /\ k \in 0..n /\ k + 1 \in 0..n
    BY <1>1
  <2>2. p[k + 1] = p[k] + x /\ q[k + 1] = q[k] + x
    BY <1>a, <1>b, <2>1
  <2>3. p[k] \in Int /\ q[k] \in Int /\ p[k + 1] \in Int /\ q[k + 1] \in Int
    BY <1>a, <1>b, <2>1
  <2>4. x \in Int
    BY <2>1, ValueType DEF n
  <2> HIDE DEF x
  <2> QED  BY <1>5, <2>1, <2>2, <2>3, <2>4
<1> HIDE DEF T
<1>6. n \in T
  <2>1. 0..n \subseteq T
    BY <1>1, <1>4, <1>5, Counting
  <2> QED  BY <1>1, <2>1
<1> QED  BY <1>1, <1>a, <1>b, <1>6 DEF T

LEMMA TotalGrows ==
    ASSUME NEW t, NEW field \in {"records", "malformed"}, NEW base \in Int,
           NEW seq \in Seq(FileEntry), NEW e \in FileEntry
    PROVE  TotalOf(t, field, base, Append(seq, e))
             = TotalOf(t, field, base, seq) + Value(t, field, e)
<1> DEFINE n == Len(seq)
           longer == Append(seq, e)
<1>1. /\ n \in Nat /\ longer \in Seq(FileEntry) /\ Len(longer) = n + 1
      /\ longer[n + 1] = e /\ \A k \in 1..n : longer[k] = seq[k]
  OBVIOUS
<1>2. PICK p : PrefixTotals(t, field, base, seq, p)
  BY SumOfPrefixes
<1>3. PICK q : PrefixTotals(t, field, base, longer, q)
  <2> HIDE DEF longer
  <2> QED  BY <1>1, SumOfPrefixes
<1>a. /\ p \in [0..n -> Int] /\ p[0] = base /\ TotalOf(t, field, base, seq) = p[n]
      /\ \A k \in 1..n : p[k] = p[k - 1] + Value(t, field, seq[k])
  BY <1>2 DEF PrefixTotals
<1>b. /\ q \in [0..(n + 1) -> Int] /\ q[0] = base /\ TotalOf(t, field, base, longer) = q[n + 1]
      /\ \A k \in 1..(n + 1) : q[k] = q[k - 1] + Value(t, field, longer[k])
  BY <1>1, <1>3 DEF PrefixTotals
<1> HIDE DEF n, longer
<1> DEFINE T == {k \in 0..n : q[k] = p[k]}
<1>4. 0 \in T
  BY <1>1, <1>a, <1>b
<1>5. ASSUME NEW k \in 0..(n - 1), k \in T
      PROVE  k + 1 \in T
  <2>1. /\ k + 1 \in 1..n /\ k + 1 - 1 = k /\ k \in 0..n /\ k + 1 \in 0..n
        /\ k + 1 \in 1..(n + 1)
    BY <1>1
  <2>2. p[k + 1] = p[k] + Value(t, field, seq[k + 1]) /\ q[k + 1] = q[k] + Value(t, field, seq[k + 1])
    BY <1>1, <1>a, <1>b, <2>1
  <2> QED  BY <1>5, <2>1, <2>2
<1> HIDE DEF T
<1>6. n \in T
  <2>1. 0..n \subseteq T
    BY <1>1, <1>4, <1>5, Counting
  <2> QED  BY <1>1, <2>1
<1>7. q[n] = p[n]
  BY <1>6 DEF T
<1>8. n + 1 \in 1..(n + 1) /\ n + 1 - 1 = n
  BY <1>1
<1>9. q[n + 1] = q[n] + Value(t, field, e)
  BY <1>1, <1>b, <1>8
<1> QED  BY <1>a, <1>b, <1>7, <1>9 DEF longer

-------------------------------------------------------------------------------
(* The books.                                                              *)

\* The counter per log type behind a field of an entry, and what the open file
\* has of it.
Counter(field) == IF field = "records" THEN usable ELSE malformed
Base(t, field) == IF mode # "closed" /\ Type = t THEN entry[field] ELSE 0

\* The counter of a log type is the total over its files, the open one included.
SumsInv ==
    status # "crashed" =>
        \A t \in Types : \A field \in {"records", "malformed"} :
            Counter(field)[t] = TotalOf(t, field, Base(t, field), processed)

LEMMA TotalIsSum ==
    ASSUME NEW t, NEW field
    PROVE  Total(t, field) = TotalOf(t, field, Base(t, field), processed)
BY DEF Total, TotalOf, Base

\* A line adds as much to the counter as to the entry of its file.
LEMMA ReadLineSums ==
    ASSUME TypeInv, ReadLine, status' # "crashed", NEW t \in Types,
           NEW field \in {"records", "malformed"},
           Counter(field)[t] = TotalOf(t, field, Base(t, field), processed)
    PROVE  Counter(field)'[t] = TotalOf(t, field, Base(t, field)', processed')
<1> DEFINE verdict == Verdict(Type, mode, headed, Current.lines[lineno])
           d == IF verdict = (IF field = "records" THEN "record" ELSE "malformed") THEN 1 ELSE 0
           b == Base(t, field)
<1>1. /\ usable' = IF verdict = "record" THEN Count(usable) ELSE usable
      /\ malformed' = IF verdict = "malformed" THEN Count(malformed) ELSE malformed
      /\ entry' = [records |-> entry.records + (IF verdict = "record" THEN 1 ELSE 0),
                   malformed |-> entry.malformed + (IF verdict = "malformed" THEN 1 ELSE 0)]
      /\ mode' = mode /\ mode # "closed" /\ stage' = stage /\ processed' = processed
  BY DEF ReadLine
<1>2. Type' = Type /\ entry \in Entry /\ d \in {0, 1}
  BY <1>1 DEF Type, TypeInv, TypeOK
<1>3. usable \in [Types -> Nat] /\ malformed \in [Types -> Nat] /\ processed \in Seq(FileEntry)
  BY DEF TypeInv, TypeOK, FileEntry
<1>4. entry'[field] = entry[field] + d /\ entry[field] \in Nat
  <2> HIDE DEF verdict
  <2> QED  BY <1>1, <1>2 DEF Entry
<1>5. Counter(field)'[t] = Counter(field)[t] + (IF t = Type THEN d ELSE 0)
  <2> HIDE DEF verdict
  <2>1. CASE field = "records"
    BY <1>1, <1>3, <2>1 DEF Counter, Count
  <2>2. CASE field = "malformed"
    BY <1>1, <1>3, <2>2 DEF Counter, Count
  <2> QED  BY <2>1, <2>2
<1>6. b \in Int /\ b' = b + (IF t = Type THEN d ELSE 0)
  <2> HIDE DEF d
  <2> QED  BY <1>1, <1>2, <1>4 DEF Base
<1> HIDE DEF d, b
<1>7. \A e \in Int : TotalOf(t, field, b + e, processed) = TotalOf(t, field, b, processed) + e
  BY <1>3, <1>6, TotalMoves
<1> QED  BY <1>1, <1>2, <1>5, <1>6, <1>7 DEF b

\* A new entry takes over what the open file had.
LEMMA EntrySums ==
    ASSUME TypeInv, NEW t \in Types, NEW field \in {"records", "malformed"}, NEW e \in FileEntry,
           Base(t, field) = Value(t, field, e)
    PROVE  TotalOf(t, field, 0, Append(processed, e)) = TotalOf(t, field, Base(t, field), processed)
<1> DEFINE b == Base(t, field)
<1>1. processed \in Seq(FileEntry)
  BY DEF TypeInv, TypeOK, FileEntry
<1>2. b \in Int
  BY ValueType
<1> HIDE DEF b
<1>3. PICK z \in Int : z = 0
  OBVIOUS
<1>4. TotalOf(t, field, z + b, processed) = TotalOf(t, field, z, processed) + b
  BY <1>1, <1>2, TotalMoves
<1>5. TotalOf(t, field, z, Append(processed, e)) = TotalOf(t, field, z, processed) + Value(t, field, e)
  BY <1>1, TotalGrows
<1>6. z + b = b
  BY <1>2, <1>3
<1> QED  BY <1>3, <1>4, <1>5, <1>6 DEF b

LEMMA SumsInductive == TypeInv /\ SumsInv /\ [Step]_vars => SumsInv'
<1> SUFFICES ASSUME TypeInv, SumsInv, [Step]_vars, status' # "crashed",
                    NEW t \in Types, NEW field \in {"records", "malformed"}
             PROVE  Counter(field)'[t] = TotalOf(t, field, Base(t, field)', processed')
  BY DEF SumsInv
<1>1. status # "crashed"
  BY DEF Step, SkipUnreadable, SkipUnrecognized, Open, ReadLine, Opening, LogRead,
         Close, BreakOff, NextLog, GiveUp, Judge, vars
<1>2. Counter(field)[t] = TotalOf(t, field, Base(t, field), processed)
  BY <1>1 DEF SumsInv
<1>3. ~ReadLine => Counter(field)' = Counter(field)
  BY OnlyReadLineCounts DEF Counter
<1>4. CASE ReadLine
  BY <1>2, <1>4, ReadLineSums
<1>5. CASE SkipUnrecognized
  <2> DEFINE e == [place |-> Here, entry |-> NoEntry]
  <2>1. processed' = Append(processed, e) /\ mode = "closed" /\ mode' = "closed" /\ ~ReadLine
    BY <1>5 DEF SkipUnrecognized, Opening, ReadLine
  <2>2. e \in FileEntry
    BY HereType DEF FileEntry, NoEntry, Entry, TypeInv
  <2>3. Base(t, field) = 0 /\ Base(t, field)' = 0 /\ Value(t, field, e) = 0
    BY <2>1 DEF Base, Value, NoEntry
  <2> HIDE DEF e
  <2> QED  BY <1>2, <1>3, <2>1, <2>2, <2>3, EntrySums
<1>6. CASE Close
  <2> DEFINE e == [place |-> Here, entry |-> entry]
  <2>1. processed' = Append(processed, e) /\ mode # "closed" /\ mode' = "closed" /\ ~ReadLine
    BY <1>6 DEF Close, ReadLine
  <2>2. e \in FileEntry
    BY HereType DEF FileEntry, TypeInv, TypeOK
  <2>3. Base(t, field)' = 0 /\ Base(t, field) = Value(t, field, e)
    BY <2>1 DEF Base, Value, Here
  <2> HIDE DEF e
  <2> QED  BY <1>2, <1>3, <2>1, <2>2, <2>3, EntrySums
<1>7. CASE Open
  <2>1. UNCHANGED processed /\ Base(t, field) = 0 /\ Base(t, field)' = 0 /\ ~ReadLine
    BY <1>7 DEF Open, Opening, ReadLine, Base, NoEntry, books
  <2> QED  BY <1>2, <1>3, <2>1
<1>8. CASE SkipUnreadable \/ BreakOff \/ NextLog \/ GiveUp \/ Judge \/ UNCHANGED vars
  <2>1. UNCHANGED processed /\ Base(t, field)' = Base(t, field)
    BY <1>8 DEF SkipUnreadable, BreakOff, NextLog, GiveUp, Judge, LogRead, vars, position, books,
                Base, Type
  <2>2. Counter(field)' = Counter(field)
    BY <1>8 DEF SkipUnreadable, BreakOff, NextLog, GiveUp, Judge, vars, books, Counter
  <2> QED  BY <1>2, <2>1, <2>2
<1> QED  BY <1>4, <1>5, <1>6, <1>7, <1>8 DEF Step

\* The books balance at any moment, whatever files are given: the counters per log
\* type are the sums of those of the files, the one that is open included
\* (load_zeek and _iter_limited_lines).
THEOREM TheBooksBalance == Spec => []BooksBalance
<1>1. Init => SumsInv
  <2> SUFFICES ASSUME Init, NEW t \in Types, NEW field \in {"records", "malformed"}
               PROVE  Counter(field)[t] = TotalOf(t, field, Base(t, field), processed)
    BY DEF SumsInv
  <2>1. Counter(field)[t] = 0 /\ Base(t, field) = 0 /\ processed = <<>>
    BY DEF Init, Counter, Base, NoCount
  <2> QED  BY <2>1, TotalOfNone
<1>2. RecordsInv /\ SumsInv => BooksBalance
  BY TotalIsSum DEF RecordsInv, SumsInv, BooksBalance, Counter
<1>3. Spec => []TypeInv
  BY InitType, StepType, PTL DEF Spec
<1> QED  BY <1>1, <1>2, <1>3, SumsInductive, RecordsBalance, PTL DEF Spec
===============================================================================
