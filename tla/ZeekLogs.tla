-------------------------------- MODULE ZeekLogs --------------------------------
(***************************************************************************)
(* zeek_aggregation.load_zeek: the logs of a sensor are read file by file  *)
(* and line by line (zeek_parser.iter_log_records), connections are        *)
(* counted per communication (ZeekAggregator.add), samples of the          *)
(* supporting logs are kept up to a cap, and the sensor's health is judged *)
(* (assess_sensor_health).  What comes out is what ZeekCorrelation takes.  *)
(*                                                                         *)
(* A line is one of the kinds the readers tell apart.  Of the logs, conn   *)
(* is the core one, files stands for those with a cap on samples (files,   *)
(* notice), capture_loss and reporter decide about the sensor.  Names,     *)
(* byte counts, times and the enrichment by uid are left out.              *)
(***************************************************************************)
EXTENDS Integers, Sequences, FiniteSets, SequencesExt

CONSTANTS
    Pairs,           \* an originator, a responder and a responder port
    Uids, NoUid,
    Inputs,          \* the inputs considered: log type -> its files, in order
    Formats,         \* values of --zeek-format considered
    MaxRecords,      \* max_records_per_file
    SampleCap        \* FILES_CAP, NOTICE_CAP

\* The logs in the order in which load_zeek reads them.
LogTypes == <<"conn", "files", "capture_loss", "reporter">>
Types == {"conn", "files", "capture_loss", "reporter"}

Key == [pair : Pairs, proto : {"tcp", "udp", "icmp", "other"}]

\* What a record says.  Of a connection: valid is what validate_conn_record
\* finds (an infinite port makes it raise), replied whether the responder sent
\* anything, missed whether bytes are missing.  Of another log: says is "bad" for
\* a loss above the threshold or an error, "none" for a loss without a number.
Record == [valid : {"yes", "no", "raises"}, uid : Uids \union {NoUid}, key : Key,
           state : {"SF", "S0", "REJ", "SH", "OTH", "SHR"},
           replied : BOOLEAN, missed : BOOLEAN, says : {"none", "fine", "bad"}]

\* "fields" is the #fields header, "directive" another directive of Zeek, "bom"
\* a directive behind a byte-order mark, "comment" any other line with a #,
\* "row" a line with as many fields as the header names, "text" any other line.
Kind == {"blank", "space", "fields", "directive", "bom", "comment",
         "json", "row", "text", "long"}

\* record matters in a line of kind "json" or "row" only.
Line == [kind : Kind, record : Record]

\* readable: the file can be opened; cut: its gzip stream ends too early.
File == [lines : Seq(Line), readable : BOOLEAN, cut : BOOLEAN]

ASSUME LimitsAssumption == MaxRecords \in Nat \ {0} /\ SampleCap \in Nat
ASSUME FormatsAssumption == Formats \subseteq {"auto", "json", "tsv"}
ASSUME InputsAssumption == Inputs \subseteq [Types -> Seq(File)]

VARIABLES
    input, format,       \* the run's input and --zeek-format
    stage,               \* index in LogTypes of the log being read
    at,                  \* index of the file
    mode,                \* "closed", or the format chosen for the open file
    lineno,              \* its next line
    headed,              \* whether it had a #fields header
    entry,               \* its counters
    processed,           \* metadata.files_processed
    warned,              \* the files with a warning
    raw, usable, malformed,  \* log type -> counter
    aggregates,          \* key -> its counters
    seen,                \* seen_uids
    retained, truncated, \* samples of files.log
    evidence,            \* what capture_loss and reporter say of the sensor
    status               \* "reading", "crashed", or the sensor's health

position == <<stage, at, mode, lineno, headed, entry>>
books == <<processed, warned, raw, usable, malformed>>
results == <<aggregates, seen, retained, truncated, evidence>>
vars == <<input, format, position, books, results, status>>

Place == [type : Types, file : Nat]
Entry == [records : Nat, malformed : Nat]
Flaw == {"missed", "partial", "ambiguous"}
Aggregate == [count : Nat, ok : Nat, flaws : SUBSET Flaw]

TypeOK ==
    /\ input \in [Types -> Seq(File)] /\ format \in Formats
    /\ stage \in 1..4 /\ at \in Nat \ {0} /\ lineno \in Nat \ {0}
    /\ mode \in {"closed", "json", "tsv"} /\ headed \in BOOLEAN
    /\ entry \in Entry
    /\ processed \in Seq([place : Place, entry : Entry])
    /\ warned \subseteq Place
    /\ raw \in [Types -> Nat] /\ usable \in [Types -> Nat] /\ malformed \in [Types -> Nat]
    /\ aggregates \in [Key -> Aggregate]
    /\ seen \subseteq Uids
    /\ retained \in 0..SampleCap /\ truncated \in Nat
    /\ evidence \subseteq {"capture", "loss", "error"}
    /\ status \in {"reading", "crashed", "healthy", "degraded", "unknown", "unusable"}

NoEntry == [records |-> 0, malformed |-> 0]
NoCount == [t \in Types |-> 0]

Init ==
    /\ input \in Inputs /\ format \in Formats
    /\ stage = 1 /\ at = 1 /\ mode = "closed" /\ lineno = 1
    /\ headed = FALSE /\ entry = NoEntry
    /\ processed = <<>> /\ warned = {}
    /\ raw = NoCount /\ usable = NoCount /\ malformed = NoCount
    /\ aggregates = [k \in Key |-> [count |-> 0, ok |-> 0, flaws |-> {}]]
    /\ seen = {} /\ retained = 0 /\ truncated = 0 /\ evidence = {}
    /\ status = "reading"

-------------------------------------------------------------------------------
(* What the readers make of a line.                                        *)

Type == LogTypes[stage]
Files == input[Type]
Current == Files[at]
Here == [type |-> Type, file |-> at]

\* The lines _iter_limited_lines delivers.
Delivered(f) ==
    {l \in DOMAIN f.lines : l <= MaxRecords /\ \A m \in 1..l : f.lines[m].kind # "long"}

\* Mutant: the rest of a file that reached the limit goes without a warning.
Limited_Silent(f) == \E l \in DOMAIN f.lines : f.lines[l].kind = "long"

\* Some lines are not delivered.
Limited(f) == Delivered(f) # DOMAIN f.lines

\* The first line that is not blank, of which the format is guessed.
Meaningful(f) == {l \in Delivered(f) : f.lines[l].kind \notin {"blank", "space"}}
FirstKind(f) == f.lines[CHOOSE l \in Meaningful(f) : \A m \in Meaningful(f) : l <= m].kind

\* detect_zeek_format
Detected(f) ==
    CASE Meaningful(f) = {} -> "empty"
      [] Meaningful(f) # {} /\ FirstKind(f) = "json" -> "json"
      [] Meaningful(f) # {} /\ FirstKind(f) \in {"fields", "directive", "bom"} -> "tsv"
      [] OTHER -> "indeterminate"

Chosen(f) == IF format = "auto" THEN Detected(f) ELSE format

\* _json_records and _tsv_records, in mode m and with or without a header h.
Parsed(m, h, kind) ==
    IF m = "json"
    THEN CASE kind \in {"blank", "space"} -> "skip"
           [] kind = "json" -> "record"
           [] OTHER -> "malformed"
    ELSE CASE kind \in {"fields", "directive", "comment", "blank"} -> "skip"
           [] kind = "row" /\ h -> "record"
           [] OTHER -> "malformed"

\* Connections only are validated.
Verdict(t, m, h, l) ==
    LET parsed == Parsed(m, h, l.kind)
    IN CASE parsed = "record" /\ t = "conn" /\ l.record.valid = "no" -> "malformed"
         [] parsed = "record" /\ t = "conn" /\ l.record.valid = "raises" -> "raises"
         [] OTHER -> parsed

TCP_STATE_OUTCOME ==
    [SF |-> "successful", S0 |-> "failed", REJ |-> "rejected", SH |-> "one-way",
     OTH |-> "partial", SHR |-> "ambiguous"]

\* classify_connection
Outcome(c) ==
    CASE c.key.proto = "tcp" -> TCP_STATE_OUTCOME[c.state]
      [] c.key.proto = "udp" /\ c.replied -> "successful"
      [] c.key.proto = "udp" /\ ~c.replied ->
           (IF c.state = "REJ" THEN "rejected" ELSE "one-way")
      [] c.key.proto = "icmp" -> (IF c.replied THEN "partial" ELSE "one-way")
      [] OTHER -> "ambiguous"

Flaws(c) == ({Outcome(c)} \intersect Flaw) \union (IF c.missed THEN {"missed"} ELSE {})

-------------------------------------------------------------------------------
(* What becomes of a record.                                               *)

\* Mutant: a uid is a duplicate only where its communication was seen.
Add_SameKey(c) ==
    IF c.uid \in seen /\ aggregates[c.key].count > 0
    THEN UNCHANGED <<aggregates, seen>>
    ELSE /\ seen' = seen \union ({c.uid} \ {NoUid})
         /\ aggregates' =
              [aggregates EXCEPT ![c.key] =
                [count |-> @.count + 1,
                 ok |-> @.ok + (IF Outcome(c) = "successful" THEN 1 ELSE 0),
                 flaws |-> @.flaws \union Flaws(c)]]

\* ZeekAggregator.add: the first connection with a uid counts.
Add(c) ==
    IF c.uid \in seen
    THEN UNCHANGED <<aggregates, seen>>
    ELSE /\ seen' = seen \union ({c.uid} \ {NoUid})
         /\ aggregates' =
              [aggregates EXCEPT ![c.key] =
                [count |-> @.count + 1,
                 ok |-> @.ok + (IF Outcome(c) = "successful" THEN 1 ELSE 0),
                 flaws |-> @.flaws \union Flaws(c)]]

\* process_optional_logs, for files and notice: streamed in full, stored up to a cap.
KeepSample ==
    IF retained < SampleCap
    THEN retained' = retained + 1 /\ UNCHANGED truncated
    ELSE truncated' = truncated + 1 /\ UNCHANGED retained

\* Mutant: reporter.log is read for its warnings only.
Testimony_NoErrors(t, c) ==
    IF t = "capture_loss"
    THEN {"capture"} \union (IF c.says = "bad" THEN {"loss"} ELSE {})
    ELSE {}

\* assess_sensor_health, on a record of capture_loss or reporter.
Testimony(t, c) ==
    IF t = "capture_loss"
    THEN {"capture"} \union (IF c.says = "bad" THEN {"loss"} ELSE {})
    ELSE IF c.says = "bad" THEN {"error"} ELSE {}

Take(c) ==
    CASE Type = "conn" -> Add(c) /\ UNCHANGED <<retained, truncated, evidence>>
      [] Type = "files" -> KeepSample /\ UNCHANGED <<aggregates, seen, evidence>>
      [] OTHER -> /\ evidence' = evidence \union Testimony(Type, c)
                  /\ UNCHANGED <<aggregates, seen, retained, truncated>>

Count(counter) == [counter EXCEPT ![Type] = @ + 1]

-------------------------------------------------------------------------------
(* load_zeek.                                                              *)

Opening == status = "reading" /\ mode = "closed" /\ at <= Len(Files)

\* The end of the delivered lines can be reached without an error.
Ends(f) == ~f.cut \/ Limited(f)

\* Mutant: the file is tried again.
SkipUnreadable_Retry ==
    /\ Opening /\ ~Current.readable
    /\ warned' = warned \union {Here}
    /\ UNCHANGED <<input, format, stage, at, mode, lineno, headed, entry,
                   processed, raw, usable, malformed, results, status>>

\* The file cannot be opened.
SkipUnreadable ==
    /\ Opening /\ ~Current.readable
    /\ warned' = warned \union {Here}
    /\ at' = at + 1
    /\ UNCHANGED <<input, format, stage, mode, lineno, headed, entry,
                   processed, raw, usable, malformed, results, status>>

\* It holds nothing, or nothing that is recognized.
SkipUnrecognized ==
    /\ Opening /\ Current.readable
    /\ \/ Chosen(Current) = "empty" /\ Ends(Current)
       \/ Chosen(Current) = "indeterminate"
    /\ warned' = warned \union {Here}
    /\ processed' = Append(processed, [place |-> Here, entry |-> NoEntry])
    /\ at' = at + 1
    /\ UNCHANGED <<input, format, stage, mode, lineno, headed, entry,
                   raw, usable, malformed, results, status>>

\* Mutant: the counters of the previous file go on.
Open_KeepEntry ==
    /\ Opening /\ Current.readable
    /\ Chosen(Current) \in {"json", "tsv"}
    /\ mode' = Chosen(Current)
    /\ lineno' = 1 /\ headed' = FALSE
    /\ UNCHANGED <<input, format, stage, at, entry, books, results, status>>

\* The lines looked at for the format are fed to the reader again.
Open ==
    /\ Opening /\ Current.readable
    /\ Chosen(Current) \in {"json", "tsv"}
    /\ mode' = Chosen(Current)
    /\ lineno' = 1 /\ headed' = FALSE /\ entry' = NoEntry
    /\ UNCHANGED <<input, format, stage, at, books, results, status>>

ReadLine ==
    /\ status = "reading" /\ mode # "closed" /\ lineno \in Delivered(Current)
    /\ LET l == Current.lines[lineno]
           verdict == Verdict(Type, mode, headed, l)
       IN /\ headed' = (headed \/ (mode = "tsv" /\ l.kind = "fields"))
          /\ status' = IF verdict = "raises" THEN "crashed" ELSE status
          /\ raw' = IF verdict = "skip" THEN raw ELSE Count(raw)
          /\ usable' = IF verdict = "record" THEN Count(usable) ELSE usable
          /\ malformed' = IF verdict = "malformed" THEN Count(malformed) ELSE malformed
          /\ entry' = [records |-> entry.records + (IF verdict = "record" THEN 1 ELSE 0),
                       malformed |-> entry.malformed
                                       + (IF verdict = "malformed" THEN 1 ELSE 0)]
          /\ IF verdict = "record" THEN Take(l.record) ELSE UNCHANGED results
    /\ lineno' = lineno + 1
    /\ UNCHANGED <<input, format, stage, at, mode, processed, warned>>

\* _iter_limited_lines stops, at the end of the file or at a limit.
Close ==
    /\ status = "reading" /\ mode # "closed" /\ lineno \notin Delivered(Current)
    /\ Ends(Current)
    /\ warned' = IF Limited(Current) THEN warned \union {Here} ELSE warned
    /\ processed' = Append(processed, [place |-> Here, entry |-> entry])
    /\ mode' = "closed" /\ at' = at + 1
    /\ UNCHANGED <<input, format, stage, lineno, headed, entry, raw, usable, malformed,
                   results, status>>

\* Reading reaches the place where the stream was cut: gzip raises EOFError, which
\* nothing catches.  How far ahead gzip reads is up to its buffers.
BreakOff ==
    /\ status = "reading" /\ at <= Len(Files)
    /\ Current.readable /\ Current.cut
    /\ status' = "crashed"
    /\ UNCHANGED <<input, format, position, books, results>>

LogRead == status = "reading" /\ mode = "closed" /\ at > Len(Files)

\* Without a usable connection no other log is read.
NextLog ==
    /\ LogRead /\ stage < 4
    /\ stage = 1 => usable["conn"] > 0
    /\ stage' = stage + 1 /\ at' = 1
    /\ UNCHANGED <<input, format, mode, lineno, headed, entry, books, results, status>>

GiveUp ==
    /\ LogRead /\ stage = 1 /\ usable["conn"] = 0
    /\ status' = "unusable"
    /\ UNCHANGED <<input, format, position, books, results>>

Health ==
    LET missed == \E k \in Key : "missed" \in aggregates[k].flaws
    IN IF missed \/ evidence \intersect {"loss", "error"} # {} THEN "degraded"
       ELSE IF "capture" \in evidence THEN "healthy" ELSE "unknown"

\* assess_sensor_health, its last part.
Judge ==
    /\ LogRead /\ stage = 4
    /\ status' = Health
    /\ UNCHANGED <<input, format, position, books, results>>

Step == \/ SkipUnreadable \/ SkipUnrecognized \/ Open \/ ReadLine \/ Close
        \/ BreakOff \/ NextLog \/ GiveUp \/ Judge

Spec == Init /\ [][Step]_vars
FairSpec == Spec /\ WF_vars(Step)

-------------------------------------------------------------------------------
(* Properties.                                                             *)

Judged == status \in {"healthy", "degraded", "unknown"}

\* The logs read to their end.
Finished == {LogTypes[s] : s \in 1..(stage - 1)} \union (IF Judged THEN Types ELSE {})

\* An independent reading of the input: the places of the usable records.
UsableAt(t, n, l) ==
    LET f == input[t][n]
        line == f.lines[l]
    IN /\ f.readable /\ l \in Delivered(f)
       /\ \/ Chosen(f) = "json" /\ line.kind = "json"
          \/ /\ Chosen(f) = "tsv" /\ line.kind = "row"
             /\ \E h \in 1..(l - 1) : f.lines[h].kind = "fields"
       /\ t = "conn" => line.record.valid = "yes"
UsablePlaces(t) ==
    {p \in (DOMAIN input[t]) \X (1..MaxRecords) :
        p[2] \in DOMAIN input[t][p[1]].lines /\ UsableAt(t, p[1], p[2])}
RecordAt(t, p) == input[t][p[1]].lines[p[2]].record
Before(p, q) == p[1] < q[1] \/ (p[1] = q[1] /\ p[2] < q[2])

Total(t, field) ==
    FoldSeq(LAMBDA e, sum : sum + (IF e.place.type = t THEN e.entry[field] ELSE 0),
            IF mode # "closed" /\ Type = t THEN entry[field] ELSE 0, processed)

\* Every record seen is either usable or malformed, and the counters per log type
\* are the sums of those per file, at any moment ("the invariant
\* data_records_seen == usable_records + malformed_records").
BooksBalance ==
    status # "crashed" =>
        \A t \in Types : /\ raw[t] = usable[t] + malformed[t]
                         /\ usable[t] = Total(t, "records")
                         /\ malformed[t] = Total(t, "malformed")

\* No data is lost in silence: of a log that was read, each file has a warning or
\* an entry that accounts for every line that is neither blank nor a comment.
NothingSkipped ==
    \A t \in Finished : \A n \in DOMAIN input[t] :
        LET place == [type |-> t, file |-> n]
            data == {l \in DOMAIN input[t][n].lines :
                       input[t][n].lines[l].kind \in {"json", "row", "text", "long"}}
        IN \/ place \in warned
           \/ \E i \in DOMAIN processed :
                /\ processed[i].place = place
                /\ processed[i].entry.records + processed[i].entry.malformed
                     >= Cardinality(data)

\* A connection counts once, whatever files it was logged in: an aggregate
\* has one count per uid, that of its first usable record, and one per record
\* without uid.
CountedOnce ==
    "conn" \in Finished =>
        \A k \in Key :
            aggregates[k].count =
                Cardinality({p \in UsablePlaces("conn") :
                    LET uid == RecordAt("conn", p).uid
                    IN /\ RecordAt("conn", p).key = k
                       /\ uid # NoUid =>
                            ~\E q \in UsablePlaces("conn") :
                                Before(q, p) /\ RecordAt("conn", q).uid = uid})

\* What the correlation relies on: there is something to correlate, no ICMP
\* exchange counts as successful, and the sensor is degraded as soon as one
\* aggregate misses bytes.
FitForCorrelation ==
    Judged => /\ \E k \in Key : aggregates[k].count > 0
              /\ \A k \in Key :
                   /\ aggregates[k].ok <= aggregates[k].count
                   /\ k.proto = "icmp" => aggregates[k].ok = 0
                   /\ "missed" \in aggregates[k].flaws => status = "degraded"

\* A sensor is not called healthy against the evidence: some record of
\* capture_loss was read, none shows a loss above the threshold, and reporter
\* has no error, over all files of these logs.
NotHealthyAgainstEvidence ==
    status = "healthy" =>
        /\ UsablePlaces("capture_loss") # {}
        /\ \A t \in {"capture_loss", "reporter"} : \A p \in UsablePlaces(t) :
             RecordAt(t, p).says # "bad"
        /\ \A p \in UsablePlaces("conn") :
             RecordAt("conn", p).missed =>
                 \E q \in UsablePlaces("conn") :
                     /\ Before(q, p) /\ RecordAt("conn", p).uid # NoUid
                     /\ RecordAt("conn", q).uid = RecordAt("conn", p).uid

\* Only storage is capped: every transfer is either kept or counted as
\* truncated, and none is truncated while there is room.
SamplesAccounted ==
    /\ retained + truncated = usable["files"]
    /\ truncated > 0 => retained = SampleCap

\* Reading ends, with a judgement or with an error.
LoadEnds == <>(status # "reading")

\* Without --zeek-required the run continues with a warning when conn.log is
\* unusable (README): reading a damaged log does not end the run.
DamageIsReported ==
    (\A t \in Types : \A n \in DOMAIN input[t] : \A l \in DOMAIN input[t][n].lines :
        input[t][n].lines[l].record.valid # "raises")
    => status # "crashed"
===============================================================================
