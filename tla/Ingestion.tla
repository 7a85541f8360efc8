------------------------------- MODULE Ingestion ------------------------------
(***************************************************************************)
(* The three streaming adapters of ingestion.py, SuricataEveAdapter,       *)
(* PcapAdapter and PcapngAdapter, each as the generator records() driven   *)
(* by a consumer that may stop at any record, be cancelled, and resume     *)
(* from the checkpoint in the summary of an earlier session.  A file is a  *)
(* sequence of items (lines, packets or blocks); a byte offset is the      *)
(* number of items before it.                                              *)
(***************************************************************************)
EXTENDS Naturals, FiniteSets, Sequences

CONSTANTS
    Files,           \* the files read: records [format, header, items]
    Rewritten,       \* what a file may be replaced with between sessions
    Budgets,         \* ResourceBudget.max_records
    FlowLimit,       \* ResourceBudget.max_active_flows
    DiagnosticCap,   \* the 1000 diagnostics the EVE adapter keeps
    MaxSessions,     \* bound: sessions of one chain
    NoFlow, NoFile

Formats == {"eve", "pcap", "pcapng"}
Kinds == {"event", "malformed", "torn", "long", "exact",
          "packet", "oversized", "cut", "section", "interface", "unknown", "silent", "bad"}

AllFiles == Files \union Rewritten

ASSUME FilesAssumption ==
    /\ NoFile \notin AllFiles
    /\ \A f \in AllFiles :
        /\ f.format \in Formats /\ f.header \in BOOLEAN
        /\ Len(f.items) \in Nat /\ DOMAIN f.items = 1..Len(f.items)
        /\ \A i \in DOMAIN f.items : f.items[i].kind \in Kinds
ASSUME BoundsAssumption ==
    /\ Budgets \subseteq Nat \ {0} /\ FlowLimit \in Nat \ {0}
    /\ DiagnosticCap \in Nat /\ MaxSessions \in Nat

VARIABLES
    file, strict, budget,     \* the source and the AdapterContext
    stage,        \* where the session is
    cancelled,    \* context.cancellation
    at,           \* handle.tell()
    line,         \* EVE: the line counter
    count,        \* records of this session (EVE), of the chain (PCAP, PCAPNG)
    status,       \* the local status, later the summary's
    last,         \* the local checkpoint, later the summary's
    interfaces,   \* PCAPNG: interfaces of the current section
    flows,        \* PCAP: the flow table, least recently used first
    delivered,    \* records this session yielded
    diagnosed,    \* positions with a diagnostic
    checkpoint,   \* what the consumer resumes from
    accepted,     \* records of earlier sessions that returned a summary
    sessions

source   == <<file, strict, budget>>
reader   == <<at, line, count, interfaces, flows>>
consumer == <<checkpoint, accepted, sessions>>
vars == <<source, stage, cancelled, reader, status, last, delivered, diagnosed, consumer>>

Items   == file.items
Reading == {"reading", "yielded"}
Raised  == {"cancelled", "refused", "broken"}
Ended   == Raised \union {"summarised", "abandoned"}
Statuses == {"complete", "partial", "resource_limited", "fatal", "cancelled"}

NoCheckpoint == [of |-> NoFile, at |-> 0, number |-> 0]

TypeOK ==
    /\ file \in AllFiles /\ strict \in BOOLEAN /\ budget \in Budgets
    /\ stage \in {"idle", "leaving"} \union Reading \union Ended
    /\ cancelled \in BOOLEAN
    /\ at \in 0..Len(Items) /\ line \in Nat /\ count \in Nat /\ interfaces \in Nat
    /\ status \in Statuses
    /\ checkpoint \in [of : AllFiles \union {NoFile}, at : Nat, number : Nat]
    /\ last \in [of : AllFiles \union {NoFile}, at : Nat, number : Nat]
    /\ Len(flows) <= FlowLimit
    /\ delivered \subseteq [at : 1..Len(Items), number : Nat]
    /\ accepted \subseteq [at : Nat, number : Nat]
    /\ diagnosed \subseteq 1..Len(Items)
    /\ sessions \in 0..MaxSessions

Init ==
    /\ file \in Files /\ strict \in BOOLEAN /\ budget \in Budgets
    /\ stage = "idle" /\ cancelled = FALSE
    /\ at = 0 /\ line = 0 /\ count = 0 /\ interfaces = 0 /\ flows = <<>>
    /\ status = "complete" /\ last = NoCheckpoint
    /\ delivered = {} /\ diagnosed = {}
    /\ checkpoint = NoCheckpoint /\ accepted = {} /\ sessions = 0

-------------------------------------------------------------------------------
(* The flow table.                                                         *)

\* The five-tuple of a packet, empty unless the frame is Ethernet carrying IP.
FlowKey(item) == IF item.kind = "packet" THEN item.flow ELSE NoFlow

Keys(table) == {table[i].key : i \in DOMAIN table}
PlaceOf(table, key) == CHOOSE i \in DOMAIN table : table[i].key = key
PacketsOf(table, key) == IF key \in Keys(table) THEN table[PlaceOf(table, key)].packets ELSE 0
Without(table, i) == SubSeq(table, 1, i - 1) \o SubSeq(table, i + 1, Len(table))

\* The flow that was entered first is evicted, not the least recently used.
Observe_FirstIn(table, key) ==
    IF key \in Keys(table)
    THEN [i \in DOMAIN table |->
            IF table[i].key = key THEN [table[i] EXCEPT !.packets = @ + 1] ELSE table[i]]
    ELSE Append(IF Len(table) >= FlowLimit THEN Tail(table) ELSE table, [key |-> key, packets |-> 1])

\* BoundedFlowTable.observe: a full table drops its least recently used flow
\* for a new key; the key moves to the end.
Observe(table, key) ==
    LET others == IF key \in Keys(table) THEN Without(table, PlaceOf(table, key))
                  ELSE IF Len(table) >= FlowLimit THEN Tail(table) ELSE table
    IN Append(others, [key |-> key, packets |-> PacketsOf(table, key) + 1])

-------------------------------------------------------------------------------
(* A session: opening, the shared parts of the loop, leaving.              *)

\* A resumed session starts without looking at the file's hash.
Open_AnyFile ==
    /\ stage = "idle" /\ sessions < MaxSessions
    /\ sessions' = sessions + 1
    /\ stage' = IF file.format = "pcap" /\ ~file.header THEN "refused" ELSE "reading"
    /\ at' = IF checkpoint.at <= Len(Items) THEN checkpoint.at ELSE Len(Items)
    /\ line' = checkpoint.number
    /\ count' = IF file.format = "eve" THEN 0 ELSE checkpoint.number
    /\ interfaces' = 0 /\ flows' = <<>>
    /\ status' = "complete" /\ last' = checkpoint
    /\ delivered' = {} /\ diagnosed' = {}
    /\ UNCHANGED <<source, cancelled, checkpoint, accepted>>

\* Everything before the loop: the PCAP header, the checkpoint, the seek.
Open ==
    LET refused == \/ file.format = "pcap" /\ ~file.header
                   \/ checkpoint.of \notin {NoFile, file}
    IN /\ stage = "idle" /\ sessions < MaxSessions
       /\ sessions' = sessions + 1
       /\ stage' = IF refused THEN "refused" ELSE "reading"
       /\ at' = IF refused THEN 0 ELSE checkpoint.at
       /\ line' = checkpoint.number
       /\ count' = IF file.format = "eve" THEN 0 ELSE checkpoint.number
       /\ interfaces' = 0 /\ flows' = <<>>
       /\ status' = "complete" /\ last' = checkpoint
       /\ delivered' = {} /\ diagnosed' = {}
       /\ UNCHANGED <<source, cancelled, checkpoint, accepted>>

\* raise_if_cancelled at the top of the loop: no summary is made.
RaiseIfCancelled ==
    /\ stage \in Reading /\ cancelled
    /\ stage' = "cancelled"
    /\ UNCHANGED <<source, cancelled, reader, status, last, delivered, diagnosed, consumer>>

\* The loop reads the item after `at`, which is of one of the kinds.
AtTop == stage \in Reading /\ ~cancelled
Meets(kinds) == AtTop /\ at < Len(Items) /\ Items[at + 1].kind \in kinds
Unless(broken) == stage' = IF broken THEN "leaving" ELSE "reading"

\* The end of the file is polled for more.
EndOfFile_Wait ==
    /\ AtTop /\ at = Len(Items)
    /\ UNCHANGED vars

EndOfFile ==
    /\ AtTop /\ at = Len(Items)
    /\ stage' = "leaving"
    /\ UNCHANGED <<source, cancelled, reader, status, last, delivered, diagnosed, consumer>>

Diagnose == diagnosed' = diagnosed \union
    IF file.format = "eve" /\ Cardinality(diagnosed) >= DiagnosticCap THEN {} ELSE {at + 1}

\* The checkpoint is set, then the record is yielded.
Yield(number) ==
    /\ stage' = "yielded"
    /\ last' = [of |-> file, at |-> at + 1, number |-> number]
    /\ delivered' = delivered \union {[at |-> at + 1, number |-> number]}

\* After the loop: a cancellation overrides every status.
Summarise ==
    /\ stage = "leaving"
    /\ stage' = "summarised"
    /\ status' = IF cancelled THEN "cancelled" ELSE status
    /\ UNCHANGED <<source, cancelled, reader, last, delivered, diagnosed, consumer>>

-------------------------------------------------------------------------------
(* SuricataEveAdapter.                                                     *)

\* A line over max_line_bytes.  readline was given one byte more than the
\* limit: a line of exactly the limit is read with its newline, and the
\* readline() meant for its rest takes the line after it.
EveLong ==
    /\ file.format = "eve" /\ Meets({"long", "exact"})
    /\ at' = IF Items[at + 1].kind = "exact" /\ ~strict /\ at + 2 <= Len(Items) THEN at + 2 ELSE at + 1
    /\ line' = line + 1
    /\ status' = "resource_limited" /\ Diagnose /\ Unless(strict)
    /\ UNCHANGED <<source, cancelled, count, interfaces, flows, last, delivered, consumer>>

\* A malformed line is skipped without a word.
EveMalformed_Silent ==
    /\ file.format = "eve" /\ Meets({"malformed", "torn"})
    /\ at' = at + 1 /\ line' = line + 1
    /\ Unless(strict)
    /\ UNCHANGED <<source, cancelled, count, interfaces, flows, last, delivered, diagnosed, status, consumer>>

\* No JSON object, a shape over the limits or no timestamp with an offset;
\* fatal in strict mode and on an unterminated last line.
EveMalformed ==
    LET fatal == strict \/ Items[at + 1].kind = "torn"
    IN /\ file.format = "eve" /\ Meets({"malformed", "torn"})
       /\ at' = at + 1 /\ line' = line + 1
       /\ status' = IF fatal THEN "fatal" ELSE "partial"
       /\ Diagnose /\ Unless(fatal)
       /\ UNCHANGED <<source, cancelled, count, interfaces, flows, last, delivered, consumer>>

EveEvent ==
    /\ file.format = "eve" /\ Meets({"event"})
    /\ at' = at + 1 /\ line' = line + 1 /\ count' = count + 1
    /\ \/ /\ count' > budget
          /\ status' = "resource_limited" /\ Diagnose /\ Unless(TRUE)
          /\ UNCHANGED <<last, delivered>>
       \/ /\ count' <= budget
          /\ Yield(line')
          /\ UNCHANGED <<status, diagnosed>>
    /\ UNCHANGED <<source, cancelled, interfaces, flows, consumer>>

-------------------------------------------------------------------------------
(* PcapAdapter.                                                            *)

\* A packet header or body cut off, or a captured length over a limit.
PcapDamage ==
    /\ file.format = "pcap" /\ Meets({"oversized", "cut"})
    /\ at' = at + 1
    /\ status' = IF Items[at + 1].kind = "cut" THEN "partial" ELSE "resource_limited"
    /\ Diagnose /\ Unless(TRUE)
    /\ UNCHANGED <<source, cancelled, line, count, interfaces, flows, last, delivered, consumer>>

\* The packet counter continues from the checkpoint, and with it the limit,
\* which ends the session without a diagnostic.
PcapPacket ==
    /\ file.format = "pcap" /\ Meets({"packet"})
    /\ at' = at + 1 /\ count' = count + 1
    /\ \/ /\ count' > budget
          /\ status' = "resource_limited" /\ Unless(TRUE)
          /\ UNCHANGED <<flows, last, delivered>>
       \/ /\ count' <= budget
          /\ flows' = LET key == FlowKey(Items[at + 1])
                      IN IF key = NoFlow THEN flows ELSE Observe(flows, key)
          /\ Yield(count')
          /\ UNCHANGED status
    /\ UNCHANGED <<source, cancelled, line, interfaces, diagnosed, consumer>>

-------------------------------------------------------------------------------
(* PcapngAdapter.  Every packet names interface 0.                         *)

\* A section header starts a new list of interfaces.
Block ==
    LET kind == Items[at + 1].kind
    IN /\ file.format = "pcapng" /\ Meets({"section", "interface", "unknown", "silent"})
       /\ at' = at + 1
       /\ interfaces' = CASE kind = "section" -> 0
                          [] kind = "interface" -> interfaces + 1
                          [] OTHER -> interfaces
       /\ IF kind = "unknown" THEN Diagnose ELSE UNCHANGED diagnosed
       /\ stage' = "reading"
       /\ UNCHANGED <<source, cancelled, line, count, flows, status, last, delivered, consumer>>

\* A truncated block prefix ends the file.
BlockCut ==
    /\ file.format = "pcapng" /\ Meets({"cut"})
    /\ at' = at + 1
    /\ status' = "partial" /\ Diagnose /\ Unless(TRUE)
    /\ UNCHANGED <<source, cancelled, line, count, interfaces, flows, last, delivered, consumer>>

\* A bad length or byte-order mark, or a packet of an interface the section
\* has not described: ValueError.
BlockRaises ==
    /\ file.format = "pcapng" /\ Meets({"bad", "packet"})
    /\ Items[at + 1].kind = "packet" => interfaces = 0
    /\ stage' = "broken"
    /\ UNCHANGED <<source, cancelled, reader, status, last, delivered, diagnosed, consumer>>

\* The packets of a session are limited, as those of the other adapters are.
BlockPacket_Limited ==
    /\ file.format = "pcapng" /\ Meets({"packet"}) /\ interfaces > 0
    /\ at' = at + 1 /\ count' = count + 1
    /\ \/ /\ count' > checkpoint.number + budget
          /\ status' = "resource_limited" /\ Unless(TRUE)
          /\ UNCHANGED <<last, delivered>>
       \/ /\ count' <= checkpoint.number + budget
          /\ Yield(count')
          /\ UNCHANGED status
    /\ UNCHANGED <<source, cancelled, line, interfaces, flows, diagnosed, consumer>>

\* An enhanced packet block; max_records is not consulted.
BlockPacket ==
    /\ file.format = "pcapng" /\ Meets({"packet"}) /\ interfaces > 0
    /\ at' = at + 1 /\ count' = count + 1
    /\ Yield(count')
    /\ UNCHANGED <<source, cancelled, line, interfaces, flows, status, diagnosed, consumer>>

-------------------------------------------------------------------------------
(* The consumer.                                                           *)

\* Another thread, or the consumer between two records, sets the token.
Cancel ==
    /\ stage \in Reading \union {"leaving"} /\ ~cancelled
    /\ cancelled' = TRUE
    /\ UNCHANGED <<source, stage, reader, status, last, delivered, diagnosed, consumer>>

\* The consumer closes the generator at a record.
Abandon ==
    /\ stage = "yielded"
    /\ stage' = "abandoned"
    /\ UNCHANGED <<source, cancelled, reader, status, last, delivered, diagnosed, consumer>>

\* A session with a summary is kept with its checkpoint, any other dropped.
Conclude ==
    /\ stage \in Ended
    /\ stage' = "idle" /\ cancelled' = FALSE
    /\ checkpoint' = IF stage = "summarised" THEN last ELSE checkpoint
    /\ accepted' = IF stage = "summarised" THEN accepted \union delivered ELSE accepted
    /\ at' = 0 /\ count' = 0 /\ line' = 0
    /\ delivered' = {} /\ diagnosed' = {} /\ last' = NoCheckpoint
    /\ UNCHANGED <<source, interfaces, flows, status, sessions>>

\* The file is replaced between two sessions.
Rewrite ==
    /\ stage = "idle" /\ 0 < sessions /\ sessions < MaxSessions
    /\ file' \in {f \in Rewritten : f.format = file.format}
    /\ UNCHANGED <<strict, budget, stage, cancelled, reader, status, last, delivered, diagnosed, consumer>>

Read == \/ EndOfFile \/ EveLong \/ EveMalformed \/ EveEvent \/ PcapDamage \/ PcapPacket
        \/ Block \/ BlockCut \/ BlockRaises \/ BlockPacket
Adapter == Open \/ RaiseIfCancelled \/ Read \/ Summarise
Next == Adapter \/ Cancel \/ Abandon \/ Conclude \/ Rewrite

\* The consumer asks for the next record, or stops.
Fairness == WF_vars(RaiseIfCancelled \/ Read \/ Summarise)
Spec == Init /\ [][Next]_vars
FairSpec == Spec /\ Fairness

-------------------------------------------------------------------------------
(* What a single uninterrupted, unlimited, lenient read would deliver.     *)

\* A line is swallowed if an odd number of lines of exactly the limit,
\* each of them read, stand right before it.
Swallowed(items, p) == \E first \in 1..(p - 1) :
    /\ (p - first) % 2 = 1
    /\ \A q \in first..(p - 1) : items[q].kind = "exact"
    /\ first = 1 \/ items[first - 1].kind # "exact"

\* A packet's interface is one its section described before it.
Described(items, p) == \E i \in 1..(p - 1) :
    /\ items[i].kind = "interface"
    /\ \A j \in i..(p - 1) : items[j].kind # "section"

Unreadable(f, p) ==
    \/ f.items[p].kind \in {"bad", "oversized", "cut"}
    \/ f.format = "pcapng" /\ f.items[p].kind = "packet" /\ ~Described(f.items, p)

Number(f, p) ==
    IF f.format = "eve"
    THEN p - Cardinality({q \in 1..p : Swallowed(f.items, q)})
    ELSE Cardinality({q \in 1..p : f.items[q].kind = "packet"})

Records(f) == {p \in DOMAIN f.items :
                 /\ f.items[p].kind \in {"event", "packet"}
                 /\ f.format = "eve" => ~Swallowed(f.items, p)
                 /\ f.format # "eve" => \A q \in 1..p : ~Unreadable(f, q)}

\* The records of f up to position n, numbered.
OneRead(f, n) == {[at |-> p, number |-> Number(f, p)] : p \in {q \in Records(f) : q <= n}}

\* Across a chain of resumed sessions, whatever ended each, the records kept
\* and those being delivered are exactly the records of the file up to the
\* checkpoint, none twice, none missing, numbered as one read of the whole
\* file numbers them (a lost or repeated record, an id that changes on resume).
ChainIsOneRead ==
    stage \notin {"idle", "refused"} =>
        /\ accepted \union delivered = OneRead(file, last.at)
        /\ \A record \in delivered : record.at > checkpoint.at
        /\ \A record \in accepted : record.at <= checkpoint.at

\* Whatever the final status, which a later malformed line or a cancellation
\* overwrites, each line or packet read and not delivered has a diagnostic:
\* but for lines swallowed behind one of exactly the limit, the packet that
\* meets the PCAP record limit, diagnostics over the cap and the simple packet
\* blocks of PCAPNG (type 3, "silent"), which are skipped without one.  A
\* summary that says complete has none of these exceptions but the last, and
\* nothing left unread: all but simple packet blocks and unknown blocks, which
\* have a diagnostic, was delivered.
LossesShow ==
    stage = "summarised" =>
        \A p \in (checkpoint.at + 1)..(IF status = "complete" THEN Len(Items) ELSE at) :
            \/ \E record \in delivered : record.at = p
            \/ Items[p].kind \in {"section", "interface", "silent"}
            \/ p \in diagnosed /\ (status = "complete" => Items[p].kind = "unknown")
            \/ /\ file.format = "eve" /\ status # "complete"
               /\ Swallowed(Items, p) \/ Cardinality(diagnosed) >= DiagnosticCap
            \/ file.format = "pcap" /\ p = at /\ status \in {"resource_limited", "cancelled"}

\* The distinct flows of this session's packets after position p.
Seen == {p \in {record.at : record \in delivered} : FlowKey(Items[p]) # NoFlow}
LastOf(key, upto) == CHOOSE p \in Seen : /\ FlowKey(Items[p]) = key /\ p <= upto
                                         /\ \A q \in Seen : FlowKey(Items[q]) = key /\ q <= upto => q <= p
Between(p, upto) == {FlowKey(Items[q]) : q \in {r \in Seen : p < r /\ r <= upto}}
Survived(key, upto) == Cardinality(Between(LastOf(key, upto), upto)) < FlowLimit

\* The flow table holds the FlowLimit flows seen last, in the order of their
\* last packets, and each counts its packets since it was last out of the
\* table: an evicted flow that returns starts again, and so does every flow
\* of a resumed session.
TableIsRecent ==
    file.format = "pcap" /\ stage \in Reading \union {"leaving", "summarised"} =>
        /\ Keys(flows) = {key \in Between(0, at) : Survived(key, at)}
        /\ \A i, j \in DOMAIN flows : i < j => LastOf(flows[i].key, at) < LastOf(flows[j].key, at)
        /\ \A i \in DOMAIN flows : flows[i].packets = Cardinality({p \in Seen :
               /\ FlowKey(Items[p]) = flows[i].key
               /\ \A upto \in p..at : Survived(flows[i].key, upto)})

\* A PCAPNG session raises only where a read of the whole file would: a
\* resumed session has forgotten the interfaces of the section, but meets no
\* packet, because only the end of the file makes a checkpoint.
RaiseDeserved == stage = "broken" => \E p \in 1..(at + 1) : Unreadable(file, p)

\* A session whose consumer keeps asking ends.
SessionsEnd == stage \in Reading \union {"leaving"} ~> stage \in Ended \union {"idle"}
===============================================================================
