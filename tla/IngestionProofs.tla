---------------------------- MODULE IngestionProofs ----------------------------
(***************************************************************************)
(* Proofs about Ingestion, for all files, budgets and numbers of sessions. *)
(* First the two scans of a file that the reference makes (which lines are *)
(* swallowed, how records are numbered) as facts about one position and    *)
(* the next, then the invariants of a session and of a chain of them.      *)
(***************************************************************************)
EXTENDS Ingestion, FiniteSetTheorems, SequenceTheorems, WellFoundedInduction, TLAPS

-------------------------------------------------------------------------------
(* Swallowed lines.                                                        *)

\* A nonempty set of naturals has a least element.
LEMMA Least ==
    ASSUME NEW T \in SUBSET Nat, T # {}
    PROVE  \E p \in T : \A q \in T : p <= q
<1> DEFINE less == {ss \in Nat \X Nat : ss[1] < ss[2]}
<1>1. IsWellFoundedOn(less, Nat)
  BY NatLessThanWellFounded, Zenon DEF OpToRel
<1> HIDE DEF less
<1>2. PICK p \in T : \A q \in T : ~(<<q, p>> \in less)
  BY <1>1, WFMin
<1>3. \A q \in T : ~(q < p)
  BY <1>2 DEF less
<1> QED  BY <1>2, <1>3

\* Only a line behind one of exactly the limit can be swallowed.
LEMMA NotSwallowed ==
    ASSUME NEW items, NEW p \in Nat \ {0}, p = 1 \/ items[p - 1].kind # "exact"
    PROVE  ~Swallowed(items, p)
<1>1. SUFFICES ASSUME NEW first \in 1..(p - 1),
                      \A q \in first..(p - 1) : items[q].kind = "exact"
               PROVE  FALSE
  BY DEF Swallowed
<1> QED  BY <1>1

\* A line of exactly the limit that is read swallows the next one.
LEMMA NextSwallowed ==
    ASSUME NEW items, NEW p \in Nat \ {0}, items[p].kind = "exact", ~Swallowed(items, p)
    PROVE  Swallowed(items, p + 1)
<1> DEFINE T == {t \in 1..p : \A q \in t..p : items[q].kind = "exact"}
<1>1. T \in SUBSET Nat /\ p \in T
  OBVIOUS
<1>2. PICK first \in T : \A t \in T : first <= t
  BY <1>1, Least
<1>3. first \in 1..p /\ \A q \in first..p : items[q].kind = "exact"
  BY <1>2
<1>4. first = 1 \/ items[first - 1].kind # "exact"
  <2> SUFFICES ASSUME first # 1, items[first - 1].kind = "exact"
               PROVE  FALSE
    OBVIOUS
  <2>1. first - 1 \in 1..p /\ \A q \in (first - 1)..p : q = first - 1 \/ q \in first..p
    BY <1>3
  <2>2. first - 1 \in T
    BY <1>3, <2>1
  <2> QED  BY <1>2, <1>3, <2>2
<1>5. (p + 1 - first) % 2 = 1
  <2>1. CASE first = p
    BY <2>1
  <2>2. CASE first # p
    <3>1. first \in 1..(p - 1) /\ \A q \in first..(p - 1) : items[q].kind = "exact"
      BY <1>3, <2>2
    <3>2. (p - first) % 2 # 1
      BY <1>4, <3>1 DEF Swallowed
    <3> QED  BY <1>3, <3>2
  <2> QED  BY <2>1, <2>2
<1> QED  BY <1>3, <1>4, <1>5 DEF Swallowed

\* No two lines in a row are swallowed.
LEMMA SwallowedOnce ==
    ASSUME NEW items, NEW p \in Nat \ {0}, Swallowed(items, p)
    PROVE  ~Swallowed(items, p + 1)
<1>1. PICK s \in 1..(p - 1) : /\ (p - s) % 2 = 1
                              /\ \A q \in s..(p - 1) : items[q].kind = "exact"
                              /\ s = 1 \/ items[s - 1].kind # "exact"
  BY DEF Swallowed
<1>2. SUFFICES ASSUME NEW t \in 1..p, (p + 1 - t) % 2 = 1,
                      \A q \in t..p : items[q].kind = "exact",
                      t = 1 \/ items[t - 1].kind # "exact"
               PROVE  FALSE
  BY DEF Swallowed
<1>3. ~(s < t)
  <2> SUFFICES ASSUME s < t PROVE FALSE
    OBVIOUS
  <2>1. t - 1 \in s..(p - 1) /\ t # 1
    OBVIOUS
  <2> QED  BY <1>1, <1>2, <2>1
<1>4. ~(t < s)
  <2> SUFFICES ASSUME t < s PROVE FALSE
    OBVIOUS
  <2>1. s - 1 \in t..p /\ s # 1
    OBVIOUS
  <2> QED  BY <1>1, <1>2, <2>1
<1>5. s = t
  BY <1>3, <1>4
<1> QED  BY <1>1, <1>2, <1>5

\* Interfaces are described up to the next section header.
LEMMA DescribedOn ==
    ASSUME NEW items, NEW p \in Nat \ {0}
    PROVE  /\ items[p].kind = "interface" => Described(items, p + 1)
           /\ Described(items, p) /\ items[p].kind # "section" => Described(items, p + 1)
           /\ items[p].kind = "section" => ~Described(items, p + 1)
           /\ Described(items, p + 1) => Described(items, p) \/ items[p].kind = "interface"
<1>1. ASSUME items[p].kind = "interface" PROVE Described(items, p + 1)
  <2>1. p \in 1..(p + 1 - 1) /\ \A j \in p..(p + 1 - 1) : j = p
    OBVIOUS
  <2> QED  BY <1>1, <2>1 DEF Described
<1>2. ASSUME Described(items, p), items[p].kind # "section" PROVE Described(items, p + 1)
  <2>1. PICK i \in 1..(p - 1) : /\ items[i].kind = "interface"
                                /\ \A j \in i..(p - 1) : items[j].kind # "section"
    BY <1>2 DEF Described
  <2>2. i \in 1..(p + 1 - 1) /\ \A j \in i..(p + 1 - 1) : j = p \/ j \in i..(p - 1)
    BY <2>1
  <2> QED  BY <1>2, <2>1, <2>2 DEF Described
<1>3. ASSUME items[p].kind = "section" PROVE ~Described(items, p + 1)
  <2>1. \A i \in 1..(p + 1 - 1) : p \in i..(p + 1 - 1)
    OBVIOUS
  <2> QED  BY <1>3, <2>1 DEF Described
<1>4. ASSUME Described(items, p + 1), items[p].kind # "interface" PROVE Described(items, p)
  <2>1. PICK i \in 1..(p + 1 - 1) : /\ items[i].kind = "interface"
                                    /\ \A j \in i..(p + 1 - 1) : items[j].kind # "section"
    BY <1>4 DEF Described
  <2>2. i \in 1..(p - 1) /\ \A j \in i..(p - 1) : j \in i..(p + 1 - 1)
    BY <1>4, <2>1
  <2> QED  BY <2>1, <2>2 DEF Described
<1> QED  BY <1>1, <1>2, <1>3, <1>4

-------------------------------------------------------------------------------
(* The numbers of records, and the records of a file up to a position.     *)

SwallowedUpTo(items, n) == {q \in 1..n : Swallowed(items, q)}
PacketsUpTo(items, n) == {q \in 1..n : items[q].kind = "packet"}

LEMMA CountSwallowed ==
    ASSUME NEW items, NEW n \in Nat
    PROVE  /\ Cardinality(SwallowedUpTo(items, n)) \in 0..n
           /\ Cardinality(SwallowedUpTo(items, n + 1)) =
                Cardinality(SwallowedUpTo(items, n)) + IF Swallowed(items, n + 1) THEN 1 ELSE 0
<1> DEFINE S == SwallowedUpTo(items, n)
<1>1. IsFiniteSet(1..n) /\ Cardinality(1..n) = n
  BY FS_Interval
<1>2. S \in SUBSET (1..n)
  BY DEF SwallowedUpTo
<1>3. IsFiniteSet(S) /\ Cardinality(S) \in Nat /\ Cardinality(S) <= n
  BY <1>1, <1>2, FS_Subset, FS_CardinalityType
<1>4. n + 1 \notin S
  BY <1>2
<1>5. SwallowedUpTo(items, n + 1) = IF Swallowed(items, n + 1) THEN S \union {n + 1} ELSE S
  BY DEF SwallowedUpTo
<1>6. Cardinality(S \union {n + 1}) = Cardinality(S) + 1
  BY <1>3, <1>4, FS_AddElement
<1> HIDE DEF S
<1>7. Cardinality(SwallowedUpTo(items, n + 1)) =
         Cardinality(S) + IF Swallowed(items, n + 1) THEN 1 ELSE 0
  BY <1>3, <1>5, <1>6
<1> QED  BY <1>3, <1>7 DEF S

LEMMA CountPackets ==
    ASSUME NEW items, NEW n \in Nat
    PROVE  /\ Cardinality(PacketsUpTo(items, n)) \in Nat
           /\ Cardinality(PacketsUpTo(items, n + 1)) =
                Cardinality(PacketsUpTo(items, n)) + IF items[n + 1].kind = "packet" THEN 1 ELSE 0
<1> DEFINE S == PacketsUpTo(items, n)
<1>1. IsFiniteSet(1..n)
  BY FS_Interval
<1>2. S \in SUBSET (1..n)
  BY DEF PacketsUpTo
<1>3. IsFiniteSet(S) /\ Cardinality(S) \in Nat
  BY <1>1, <1>2, FS_Subset, FS_CardinalityType
<1>4. n + 1 \notin S
  BY <1>2
<1>5. PacketsUpTo(items, n + 1) = IF items[n + 1].kind = "packet" THEN S \union {n + 1} ELSE S
  BY DEF PacketsUpTo
<1>6. Cardinality(S \union {n + 1}) = Cardinality(S) + 1
  BY <1>3, <1>4, FS_AddElement
<1> HIDE DEF S
<1>7. Cardinality(PacketsUpTo(items, n + 1)) =
         Cardinality(S) + IF items[n + 1].kind = "packet" THEN 1 ELSE 0
  BY <1>3, <1>5, <1>6
<1> QED  BY <1>3, <1>7 DEF S

\* How the number goes on from one position to the next.
LEMMA NumberNext ==
    ASSUME NEW f, NEW n \in Nat
    PROVE  /\ Number(f, n) \in Nat /\ Number(f, 0) = 0
           /\ f.format = "eve" => Number(f, n + 1) =
                 Number(f, n) + IF Swallowed(f.items, n + 1) THEN 0 ELSE 1
           /\ f.format # "eve" => Number(f, n + 1) =
                 Number(f, n) + IF f.items[n + 1].kind = "packet" THEN 1 ELSE 0
<1>1. \A k \in Nat : Number(f, k) = IF f.format = "eve"
                                    THEN k - Cardinality(SwallowedUpTo(f.items, k))
                                    ELSE Cardinality(PacketsUpTo(f.items, k))
  BY DEF Number, SwallowedUpTo, PacketsUpTo
<1>2. \A k \in Nat : Cardinality(SwallowedUpTo(f.items, k)) \in 0..k
  BY CountSwallowed
<1>3. PacketsUpTo(f.items, 0) = {}
  BY DEF PacketsUpTo
<1>4. Cardinality(PacketsUpTo(f.items, 0)) = 0
  BY <1>3, FS_EmptySet
<1>5. ASSUME f.format = "eve"
      PROVE  /\ Number(f, n) \in Nat /\ Number(f, 0) = 0
             /\ Number(f, n + 1) = Number(f, n) + IF Swallowed(f.items, n + 1) THEN 0 ELSE 1
  <2> DEFINE C(k) == Cardinality(SwallowedUpTo(f.items, k))
  <2>1. Number(f, n) = n - C(n) /\ Number(f, 0) = 0 - C(0) /\ Number(f, n + 1) = (n + 1) - C(n + 1)
    BY <1>1, <1>5
  <2>2. C(n) \in 0..n /\ C(0) \in 0..0
    BY <1>2
  <2>3. C(n + 1) = C(n) + IF Swallowed(f.items, n + 1) THEN 1 ELSE 0
    BY CountSwallowed
  <2> HIDE DEF C
  <2> QED  BY <2>1, <2>2, <2>3
<1>6. ASSUME f.format # "eve"
      PROVE  /\ Number(f, n) \in Nat /\ Number(f, 0) = 0
             /\ Number(f, n + 1) = Number(f, n) + IF f.items[n + 1].kind = "packet" THEN 1 ELSE 0
  BY <1>1, <1>4, <1>6, CountPackets
<1> QED  BY <1>5, <1>6

LEMMA RecordPlaces ==
    ASSUME NEW f \in AllFiles
    PROVE  /\ Len(f.items) \in Nat /\ DOMAIN f.items = 1..Len(f.items)
           /\ Records(f) \subseteq 1..Len(f.items)
BY FilesAssumption DEF Records

LEMMA OneReadNext ==
    ASSUME NEW f \in AllFiles, NEW n \in Nat
    PROVE  /\ OneRead(f, 0) = {}
           /\ n + 1 \notin Records(f) => OneRead(f, n + 1) = OneRead(f, n)
           /\ n + 1 \in Records(f) =>
                 OneRead(f, n + 1) = OneRead(f, n) \union {[at |-> n + 1, number |-> Number(f, n + 1)]}
<1>1. Records(f) \subseteq Nat \ {0}
  BY RecordPlaces
<1>2. {q \in Records(f) : q <= 0} = {}
  BY <1>1
<1>3. n + 1 \notin Records(f) => {q \in Records(f) : q <= n + 1} = {q \in Records(f) : q <= n}
  BY <1>1
<1>4. n + 1 \in Records(f) =>
         {q \in Records(f) : q <= n + 1} = {q \in Records(f) : q <= n} \union {n + 1}
  BY <1>1
<1>5. OneRead(f, 0) = {}
  BY <1>2 DEF OneRead
<1>6. n + 1 \notin Records(f) => OneRead(f, n + 1) = OneRead(f, n)
  BY <1>3 DEF OneRead
<1>7. n + 1 \in Records(f) =>
         OneRead(f, n + 1) = OneRead(f, n) \union {[at |-> n + 1, number |-> Number(f, n + 1)]}
  BY <1>4 DEF OneRead
<1> QED  BY <1>5, <1>6, <1>7

\* Positions without a record add nothing.
LEMMA OneReadSkips ==
    ASSUME NEW f \in AllFiles, NEW m \in Nat, NEW n \in Nat, m <= n,
           \A p \in Records(f) : p <= n => p <= m
    PROVE  OneRead(f, m) = OneRead(f, n)
<1>1. Records(f) \subseteq Nat
  BY RecordPlaces
<1>2. {q \in Records(f) : q <= m} = {q \in Records(f) : q <= n}
  BY <1>1
<1> QED  BY <1>2 DEF OneRead

-------------------------------------------------------------------------------
(* Invariants.                                                             *)

\* A checkpoint and what was read up to it.
KeptOK(c, records) ==
    \/ c = NoCheckpoint /\ records = {}
    \/ /\ c.of \in AllFiles /\ c.at \in Records(c.of)
       /\ c.number = Number(c.of, c.at) /\ records = OneRead(c.of, c.at)

Mark == [of : AllFiles \union {NoFile}, at : Nat, number : Nat]

TypeInv ==
    /\ file \in AllFiles /\ strict \in BOOLEAN /\ budget \in Budgets
    /\ stage \in {"idle", "leaving"} \union Reading \union Ended
    /\ cancelled \in BOOLEAN
    /\ at \in 0..Len(Items) /\ line \in Nat /\ count \in Nat /\ interfaces \in Nat
    /\ status \in Statuses
    /\ checkpoint \in Mark /\ last \in Mark
    /\ delivered \subseteq [at : 1..Len(Items), number : Nat]
    /\ accepted \subseteq [at : Nat, number : Nat]
    /\ diagnosed \subseteq 1..Len(Items)
    /\ sessions \in 0..MaxSessions
    /\ stage = "idle" => at = 0 /\ delivered = {} /\ diagnosed = {}

\* A session reads the file of its checkpoint, and what is kept and delivered is
\* one read of it up to the local checkpoint.
SessionInv ==
    /\ checkpoint.of \in {NoFile, file} /\ last.of \in {NoFile, file}
    /\ KeptOK(last, accepted \union delivered)
    /\ checkpoint.at <= last.at /\ last.at <= at
    /\ \A record \in delivered : record.at > checkpoint.at

\* Between two items no record is outstanding, the counters are those of one read,
\* and the next item is one that a read of the whole file comes to.
LoopInv ==
    /\ \A p \in Records(file) : p <= at => p <= last.at
    /\ file.format = "eve" => /\ line = Number(file, at)
                              /\ at < Len(Items) => ~Swallowed(Items, at + 1)
    /\ file.format # "eve" => /\ count = Number(file, at)
                              /\ \A q \in 1..at : ~Unreadable(file, q)
    /\ file.format = "pcapng" /\ interfaces > 0 => Described(Items, at + 1)

ChainInv ==
    /\ KeptOK(checkpoint, accepted)
    /\ stage \notin {"idle", "refused"} => SessionInv
    /\ stage \in Reading => LoopInv

LEMMA OpenType ==
    ASSUME TypeInv, ChainInv, Open
    PROVE  TypeInv'
<1>1. checkpoint.of = file => checkpoint.at \in 0..Len(Items)
  BY RecordPlaces DEF TypeInv, ChainInv, KeptOK, Items, NoCheckpoint
<1>2. checkpoint.of = NoFile => checkpoint.at = 0
  BY FilesAssumption DEF ChainInv, KeptOK, NoCheckpoint
<1>3. at' \in 0..Len(Items)
  <2>1. Len(Items) \in Nat
    BY RecordPlaces DEF TypeInv, Items
  <2> QED  BY <1>1, <1>2, <2>1 DEF Open
<1>4. line' \in Nat /\ count' \in Nat
  BY DEF Open, TypeInv, Mark
<1>5. stage' \in {"idle", "leaving"} \union Reading \union Ended /\ stage' # "idle"
  BY DEF Open, Reading, Ended, Raised
<1>6. sessions' \in 0..MaxSessions
  BY BoundsAssumption DEF Open, TypeInv
<1> QED  BY <1>3, <1>4, <1>5, <1>6 DEF Open, TypeInv, source, Statuses, Items

LEMMA TypeStep ==
    ASSUME TypeInv, ChainInv, [Next]_vars
    PROVE  TypeInv'
<1> USE DEF source, reader, consumer, Items
<1>0. Len(Items) \in Nat
  BY RecordPlaces DEF TypeInv
<1>1. CASE Open
  BY <1>1, OpenType
<1>2. CASE RaiseIfCancelled \/ EndOfFile \/ Summarise \/ Cancel \/ Abandon \/ BlockRaises
  BY <1>2 DEF RaiseIfCancelled, EndOfFile, Summarise, Cancel, Abandon, BlockRaises, AtTop, Meets,
              TypeInv, Reading, Ended, Raised, Statuses
<1>3. ASSUME Meets(Kinds)
      PROVE  /\ at + 1 \in 0..Len(Items) /\ at + 1 \in 1..Len(Items) /\ stage \in Reading
             /\ (IF file.format = "eve" /\ Cardinality(diagnosed) >= DiagnosticCap
                 THEN diagnosed ELSE diagnosed \union {at + 1}) \subseteq 1..Len(Items)
  BY <1>0, <1>3 DEF Meets, AtTop, TypeInv
<1>4. Diagnose /\ Meets(Kinds) => diagnosed' \subseteq 1..Len(Items)
  BY <1>3 DEF Diagnose
<1>5. ASSUME NEW n \in Nat, Yield(n), Meets(Kinds)
      PROVE  /\ last' \in Mark /\ delivered' \subseteq [at : 1..Len(Items), number : Nat]
             /\ stage' = "yielded"
  BY <1>0, <1>3, <1>5 DEF Yield, Mark, TypeInv
<1>6. CASE EveLong
  <2>1. Meets(Kinds) /\ at' \in 0..Len(Items) /\ line' \in Nat
    BY <1>0, <1>6 DEF EveLong, Meets, Kinds, AtTop, TypeInv
  <2> QED  BY <1>3, <1>4, <1>6, <2>1 DEF EveLong, TypeInv, Unless, Reading, Statuses
<1>7. CASE EveMalformed \/ PcapDamage \/ BlockCut \/ Block
  <2>1. Meets(Kinds) /\ at' = at + 1 /\ line' \in Nat /\ interfaces' \in Nat /\ count' = count
    <3>1. CASE EveMalformed
      BY <3>1 DEF EveMalformed, Meets, Kinds, TypeInv
    <3>2. CASE PcapDamage
      BY <3>2 DEF PcapDamage, Meets, Kinds, TypeInv
    <3>3. CASE BlockCut
      BY <3>3 DEF BlockCut, Meets, Kinds, TypeInv
    <3>4. CASE Block
      BY <3>4 DEF Block, Meets, Kinds, TypeInv
    <3> QED  BY <1>7, <3>1, <3>2, <3>3, <3>4
  <2>2. diagnosed' \subseteq 1..Len(Items)
    BY <1>4, <1>7, <2>1 DEF EveMalformed, PcapDamage, BlockCut, Block, TypeInv
  <2>3. stage' \in {"leaving", "reading"} /\ status' \in Statuses
    BY <1>7 DEF EveMalformed, PcapDamage, BlockCut, Block, Unless, Statuses, TypeInv
  <2> QED  BY <1>3, <1>7, <2>1, <2>2, <2>3
           DEF EveMalformed, PcapDamage, BlockCut, Block, TypeInv, Reading
<1>8. CASE EveEvent \/ PcapPacket \/ BlockPacket
  <2>1. Meets(Kinds) /\ at' = at + 1 /\ line' \in Nat /\ count' \in Nat /\ interfaces' = interfaces
    <3>1. CASE EveEvent
      BY <3>1 DEF EveEvent, Meets, Kinds, TypeInv
    <3>2. CASE PcapPacket
      BY <3>2 DEF PcapPacket, Meets, Kinds, TypeInv
    <3>3. CASE BlockPacket
      BY <3>3 DEF BlockPacket, Meets, Kinds, TypeInv
    <3> QED  BY <1>8, <3>1, <3>2, <3>3
  <2>2. \/ Yield(line') \/ Yield(count')
        \/ UNCHANGED <<last, delivered>> /\ stage' = "leaving"
    BY <1>8 DEF EveEvent, PcapPacket, BlockPacket, Unless
  <2>3. /\ last' \in Mark /\ delivered' \subseteq [at : 1..Len(Items), number : Nat]
        /\ stage' \in {"yielded", "leaving"}
    BY <1>5, <2>1, <2>2 DEF TypeInv
  <2>4. diagnosed' \subseteq 1..Len(Items) /\ status' \in Statuses
    BY <1>4, <1>8, <2>1 DEF EveEvent, PcapPacket, BlockPacket, Statuses, TypeInv
  <2> QED  BY <1>3, <1>8, <2>1, <2>3, <2>4 DEF EveEvent, PcapPacket, BlockPacket, TypeInv, Reading
<1>9. CASE Conclude
  <2>1. accepted' \subseteq [at : Nat, number : Nat]
    BY <1>9 DEF Conclude, TypeInv
  <2>2. last' \in Mark
    BY <1>9 DEF Conclude, Mark, NoCheckpoint
  <2>3. checkpoint' \in Mark
    BY <1>9 DEF Conclude, TypeInv
  <2>4. /\ at' = 0 /\ count' = 0 /\ line' = 0 /\ delivered' = {} /\ diagnosed' = {}
        /\ cancelled' = FALSE /\ stage' = "idle"
        /\ UNCHANGED <<file, strict, budget, interfaces, status, sessions>>
    BY <1>9 DEF Conclude
  <2>5. /\ file' \in AllFiles /\ strict' \in BOOLEAN /\ budget' \in Budgets /\ cancelled' \in BOOLEAN
        /\ interfaces' \in Nat /\ status' \in Statuses /\ sessions' \in 0..MaxSessions
    BY <2>4 DEF TypeInv
  <2>6. Len(file'.items) \in Nat
    BY <1>0, <2>4
  <2> QED  BY <2>1, <2>2, <2>3, <2>4, <2>5, <2>6 DEF TypeInv
<1>10. CASE Rewrite
  <2>1. file' \in AllFiles
    BY <1>10 DEF Rewrite, AllFiles
  <2>2. Len(file'.items) \in Nat
    BY <2>1, RecordPlaces
  <2> QED  BY <1>10, <2>1, <2>2 DEF Rewrite, TypeInv
<1>11. CASE UNCHANGED vars
  BY <1>11 DEF vars, TypeInv
<1> QED  BY <1>1, <1>2, <1>6, <1>7, <1>8, <1>9, <1>10, <1>11 DEF Next, Adapter, Read

-------------------------------------------------------------------------------
(* A chain of sessions is one read.                                        *)

\* What was kept and delivered is one read of the session's file.
LEMMA KeptIsOneRead ==
    ASSUME TypeInv, SessionInv
    PROVE  /\ last.at \in Nat /\ at \in Nat /\ checkpoint.at \in Nat
           /\ accepted \union delivered = OneRead(file, last.at)
<1>1. last.at \in Nat /\ at \in Nat /\ checkpoint.at \in Nat
  BY RecordPlaces DEF TypeInv, Mark, Items
<1>2. OneRead(file, 0) = {}
  BY OneReadNext DEF TypeInv
<1>3. CASE last = NoCheckpoint /\ accepted \union delivered = {}
  BY <1>1, <1>2, <1>3 DEF NoCheckpoint
<1>4. CASE last.of \in AllFiles /\ accepted \union delivered = OneRead(last.of, last.at)
  BY <1>1, <1>4, FilesAssumption DEF SessionInv
<1> QED  BY <1>3, <1>4 DEF SessionInv, KeptOK

\* A record that the loop comes to is delivered with its number in one read.
LEMMA YieldStep ==
    ASSUME TypeInv, SessionInv, \A p \in Records(file) : p <= at => p <= last.at,
           at + 1 \in Records(file), Yield(Number(file, at + 1)), at' = at + 1,
           UNCHANGED <<file, checkpoint, accepted>>
    PROVE  /\ SessionInv'
           /\ \A p \in Records(file') : p <= at' => p <= last'.at
<1>1. /\ last.at \in Nat /\ at \in Nat /\ checkpoint.at \in Nat
      /\ accepted \union delivered = OneRead(file, last.at)
  BY KeptIsOneRead
<1>2. file \in AllFiles /\ Records(file) \subseteq Nat
  BY RecordPlaces DEF TypeInv
<1>3. OneRead(file, last.at) = OneRead(file, at)
  BY <1>1, <1>2, OneReadSkips DEF SessionInv
<1>4. accepted' \union delivered' = OneRead(file, at + 1)
  BY <1>1, <1>2, <1>3, OneReadNext DEF Yield
<1>5. last' = [of |-> file, at |-> at + 1, number |-> Number(file, at + 1)]
  BY DEF Yield
<1>6. KeptOK(last', accepted' \union delivered')
  BY <1>2, <1>4, <1>5 DEF KeptOK
<1>7. \A record \in delivered' : record.at > checkpoint'.at
  BY <1>1 DEF Yield, SessionInv
<1> QED  BY <1>1, <1>2, <1>5, <1>6, <1>7 DEF SessionInv

\* A step over items that hold no record keeps the session as it was.
LEMMA SkipStep ==
    ASSUME TypeInv, SessionInv, at' \in Nat, at <= at',
           UNCHANGED <<file, checkpoint, accepted, last, delivered>>
    PROVE  /\ SessionInv'
           /\ /\ \A p \in Records(file) : p <= at => p <= last.at
              /\ \A p \in Records(file) : p <= at' => p <= at
              => \A p \in Records(file') : p <= at' => p <= last'.at
<1>1. last.at \in Nat /\ at \in Nat /\ checkpoint.at \in Nat
  BY KeptIsOneRead
<1>2. SessionInv'
  BY <1>1 DEF SessionInv
<1> QED  BY <1>2

LEMMA OpenChain ==
    ASSUME TypeInv, ChainInv, Open
    PROVE  ChainInv'
<1>1. SUFFICES ASSUME stage' = "reading"
               PROVE  SessionInv' /\ LoopInv'
  BY DEF Open, ChainInv, Reading, source
<1>2. /\ checkpoint.of \in {NoFile, file}
      /\ at' = checkpoint.at /\ line' = checkpoint.number
      /\ count' = IF file.format = "eve" THEN 0 ELSE checkpoint.number
      /\ interfaces' = 0 /\ last' = checkpoint /\ delivered' = {}
      /\ UNCHANGED <<file, checkpoint, accepted>>
  BY <1>1 DEF Open, source
<1>3. /\ file \in AllFiles /\ Len(Items) \in Nat /\ DOMAIN Items = 1..Len(Items)
      /\ Records(file) \subseteq 1..Len(Items) /\ NoFile \notin AllFiles
  BY RecordPlaces, FilesAssumption DEF TypeInv, Items
<1>4. \/ checkpoint.at = 0 /\ checkpoint.number = 0
      \/ checkpoint.at \in Records(file) /\ checkpoint.number = Number(file, checkpoint.at)
  BY <1>2, <1>3 DEF ChainInv, KeptOK, NoCheckpoint
<1>5. checkpoint.at \in Nat /\ checkpoint.number = Number(file, checkpoint.at)
  <2>1. Number(file, 0) = 0
    BY NumberNext
  <2> QED  BY <1>3, <1>4, <2>1
<1>6. SessionInv'
  BY <1>2, <1>5 DEF SessionInv, ChainInv
<1>7. \A q \in 1..checkpoint.at : file.format # "eve" => ~Unreadable(file, q)
  BY <1>4 DEF Records
<1>8. checkpoint.at + 1 = 1 \/ Items[checkpoint.at + 1 - 1].kind # "exact"
  BY <1>3, <1>4 DEF Records, Items
<1>9. ~Swallowed(Items, checkpoint.at + 1)
  BY <1>5, <1>8, NotSwallowed
<1> QED  BY <1>2, <1>3, <1>5, <1>6, <1>7, <1>9 DEF LoopInv, Items

\* The EVE lines that hold no record.
LEMMA EveLongChain ==
    ASSUME TypeInv, TypeInv', SessionInv, LoopInv, EveLong, ~strict
    PROVE  SessionInv' /\ LoopInv'
<1> DEFINE n == at + 1
<1>1. /\ file.format = "eve" /\ at \in Nat /\ n \in Nat \ {0} /\ at' \in 0..Len(Items)
      /\ Len(Items) \in Nat /\ file \in AllFiles /\ n <= Len(Items)
      /\ UNCHANGED <<file, checkpoint, accepted, last, delivered, interfaces>>
      /\ line' = line + 1 /\ Items[n].kind \in {"long", "exact"}
      /\ Records(file) \subseteq Nat
  BY RecordPlaces DEF EveLong, TypeInv, Items, Meets, AtTop, source, consumer
<1>2. Items' = Items /\ Items = file.items
  BY <1>1 DEF Items
<1>3. line = Number(file, at) /\ ~Swallowed(Items, n)
  BY <1>1 DEF LoopInv
<1>4. line' = Number(file, n)
  <2>1. Number(file, n) = Number(file, at) + 1
    BY <1>1, <1>2, <1>3, NumberNext
  <2> QED  BY <1>1, <1>3, <2>1
<1>5. n \notin Records(file)
  BY <1>1, <1>2 DEF Records
<1>6. CASE at' = n
  <2>1. at' < Len(Items) => Items[n].kind # "exact"
    BY <1>1, <1>6 DEF EveLong
  <2>2. at' < Len(Items) => ~Swallowed(Items, n + 1)
    <3>1. n + 1 \in Nat \ {0} /\ (n + 1) - 1 = n
      BY <1>1
    <3> QED  BY <1>6, <2>1, <3>1, NotSwallowed
  <2>3. \A p \in Records(file) : p <= at' => p <= at
    BY <1>1, <1>5, <1>6
  <2>4. at' \in Nat /\ at <= at'
    BY <1>1, <1>6
  <2>5. SessionInv' /\ \A p \in Records(file') : p <= at' => p <= last'.at
    BY <1>1, <2>3, <2>4, SkipStep DEF LoopInv
  <2> HIDE DEF n
  <2> QED  BY <1>1, <1>2, <1>4, <1>6, <2>2, <2>5 DEF LoopInv
<1>7. CASE at' # n
  <2>1. at' = n + 1 /\ Items[n].kind = "exact"
    BY <1>1, <1>7 DEF EveLong
  <2>2. Swallowed(Items, n + 1)
    BY <1>1, <1>3, <2>1, NextSwallowed
  <2>3. ~Swallowed(Items, at' + 1)
    BY <1>1, <2>1, <2>2, SwallowedOnce
  <2>4. line' = Number(file, at')
    <3>1. Number(file, n + 1) = Number(file, n) + 0 /\ Number(file, n) \in Nat
      BY <1>1, <1>2, <2>2, NumberNext
    <3> QED  BY <1>4, <2>1, <3>1
  <2>5. n + 1 \notin Records(file)
    BY <1>1, <1>2, <2>2 DEF Records
  <2>6. \A p \in Records(file) : p <= at' => p <= at
    BY <1>1, <1>5, <2>1, <2>5
  <2>7. at' \in Nat /\ at <= at'
    BY <1>1, <2>1
  <2>8. SessionInv' /\ \A p \in Records(file') : p <= at' => p <= last'.at
    BY <1>1, <2>6, <2>7, SkipStep DEF LoopInv
  <2> QED  BY <1>1, <1>2, <2>3, <2>4, <2>8 DEF LoopInv
<1> QED  BY <1>6, <1>7

LEMMA EveMalformedChain ==
    ASSUME TypeInv, TypeInv', SessionInv, LoopInv, EveMalformed
    PROVE  SessionInv' /\ LoopInv'
<1> DEFINE n == at + 1
<1>1. /\ file.format = "eve" /\ at \in Nat /\ n \in Nat \ {0} /\ at' = n
      /\ Len(Items) \in Nat /\ file \in AllFiles /\ n <= Len(Items)
      /\ UNCHANGED <<file, checkpoint, accepted, last, delivered>>
      /\ line' = line + 1 /\ Items[n].kind \in {"malformed", "torn"}
      /\ Records(file) \subseteq Nat
  BY RecordPlaces DEF EveMalformed, TypeInv, Items, Meets, AtTop, source, consumer
<1>2. Items' = Items /\ Items = file.items
  BY <1>1 DEF Items
<1>3. line' = Number(file, n)
  <2>1. line = Number(file, at) /\ ~Swallowed(Items, n)
    BY <1>1 DEF LoopInv
  <2>2. Number(file, n) = Number(file, at) + 1
    BY <1>1, <1>2, <2>1, NumberNext
  <2> QED  BY <1>1, <2>1, <2>2
<1>4. ~Swallowed(Items, n + 1)
  <2>1. n + 1 \in Nat \ {0} /\ (n + 1) - 1 = n
    BY <1>1
  <2> QED  BY <1>1, <2>1, NotSwallowed
<1>5. SessionInv' /\ \A p \in Records(file') : p <= at' => p <= last'.at
  <2>1. n \notin Records(file)
    BY <1>1, <1>2 DEF Records
  <2>2. \A p \in Records(file) : p <= at' => p <= at
    BY <1>1, <2>1
  <2> QED  BY <1>1, <2>2, SkipStep DEF LoopInv
<1> HIDE DEF n
<1> QED  BY <1>1, <1>2, <1>3, <1>4, <1>5 DEF LoopInv

LEMMA EveEventChain ==
    ASSUME TypeInv, TypeInv', SessionInv, LoopInv, EveEvent, stage' = "yielded"
    PROVE  SessionInv' /\ LoopInv'
<1> DEFINE n == at + 1
<1>1. /\ file.format = "eve" /\ at \in Nat /\ n \in Nat \ {0} /\ at' = n
      /\ Len(Items) \in Nat /\ file \in AllFiles /\ n <= Len(Items)
      /\ UNCHANGED <<file, checkpoint, accepted>> /\ Yield(line')
      /\ line' = line + 1 /\ Items[n].kind = "event"
      /\ DOMAIN Items = 1..Len(Items)
  BY RecordPlaces DEF EveEvent, TypeInv, Items, Meets, AtTop, Unless, source, consumer
<1>2. Items' = Items /\ Items = file.items
  BY <1>1 DEF Items
<1>3. line = Number(file, at) /\ ~Swallowed(Items, n)
  BY <1>1 DEF LoopInv
<1>4. line' = Number(file, n)
  <2>1. Number(file, n) = Number(file, at) + 1
    BY <1>1, <1>2, <1>3, NumberNext
  <2> QED  BY <1>1, <1>3, <2>1
<1>5. ~Swallowed(Items, n + 1)
  <2>1. n + 1 \in Nat \ {0} /\ (n + 1) - 1 = n
    BY <1>1
  <2> QED  BY <1>1, <2>1, NotSwallowed
<1>6. n \in Records(file)
  BY <1>1, <1>2, <1>3 DEF Records
<1>7. SessionInv' /\ \A p \in Records(file') : p <= at' => p <= last'.at
  BY <1>1, <1>4, <1>6, YieldStep DEF LoopInv
<1> HIDE DEF n
<1> QED  BY <1>1, <1>2, <1>4, <1>5, <1>7 DEF LoopInv

LEMMA PacketChain ==
    ASSUME TypeInv, TypeInv', SessionInv, LoopInv, PcapPacket \/ BlockPacket, stage' = "yielded"
    PROVE  SessionInv' /\ LoopInv'
<1> DEFINE n == at + 1
<1>1. /\ file.format \in {"pcap", "pcapng"} /\ at \in Nat /\ n \in Nat \ {0} /\ at' = n
      /\ Len(Items) \in Nat /\ file \in AllFiles /\ n <= Len(Items)
      /\ UNCHANGED <<file, checkpoint, accepted, interfaces>> /\ Yield(count')
      /\ count' = count + 1 /\ Items[n].kind = "packet"
      /\ DOMAIN Items = 1..Len(Items)
      /\ file.format = "pcapng" => interfaces > 0
  <2>1. CASE PcapPacket
    BY <2>1, RecordPlaces DEF PcapPacket, TypeInv, Items, Meets, AtTop, Unless, source, consumer
  <2>2. CASE BlockPacket
    BY <2>2, RecordPlaces DEF BlockPacket, TypeInv, Items, Meets, AtTop, Unless, source, consumer
  <2> QED  BY <2>1, <2>2
<1>2. Items' = Items /\ Items = file.items
  BY <1>1 DEF Items
<1>3. count' = Number(file, n)
  <2>1. count = Number(file, at)
    BY <1>1 DEF LoopInv
  <2>2. Number(file, n) = Number(file, at) + 1
    BY <1>1, <1>2, NumberNext
  <2> QED  BY <1>1, <2>1, <2>2
<1>4. file.format = "pcapng" => Described(Items, n)
  BY <1>1 DEF LoopInv
<1>5. ~Unreadable(file, n)
  BY <1>1, <1>2, <1>4 DEF Unreadable
<1>6. \A q \in 1..n : ~Unreadable(file, q)
  BY <1>1, <1>5 DEF LoopInv
<1>7. n \in Records(file)
  BY <1>1, <1>2, <1>6 DEF Records
<1>8. SessionInv' /\ \A p \in Records(file') : p <= at' => p <= last'.at
  BY <1>1, <1>3, <1>7, YieldStep DEF LoopInv
<1>9. file.format = "pcapng" => Described(Items, n + 1)
  BY <1>1, <1>4, DescribedOn
<1> HIDE DEF n
<1> QED  BY <1>1, <1>2, <1>3, <1>6, <1>8, <1>9 DEF LoopInv

LEMMA BlockChain ==
    ASSUME TypeInv, TypeInv', SessionInv, LoopInv, Block
    PROVE  SessionInv' /\ LoopInv'
<1> DEFINE n == at + 1
<1>1. /\ file.format = "pcapng" /\ at \in Nat /\ n \in Nat \ {0} /\ at' = n
      /\ Len(Items) \in Nat /\ file \in AllFiles /\ n <= Len(Items)
      /\ UNCHANGED <<file, checkpoint, accepted, last, delivered, count>>
      /\ Items[n].kind \in {"section", "interface", "unknown", "silent"}
      /\ Items[n].kind = "section" => interfaces' = 0
      /\ Items[n].kind \notin {"section", "interface"} => interfaces' = interfaces
      /\ Records(file) \subseteq Nat
  BY RecordPlaces DEF Block, TypeInv, Items, Meets, AtTop, source, consumer
<1>2. Items' = Items /\ Items = file.items
  BY <1>1 DEF Items
<1>3. count' = Number(file, n)
  <2>1. count = Number(file, at)
    BY <1>1 DEF LoopInv
  <2>2. Number(file, n) = Number(file, at) + 0 /\ Number(file, at) \in Nat
    BY <1>1, <1>2, NumberNext
  <2> QED  BY <1>1, <2>1, <2>2
<1>4. \A q \in 1..n : ~Unreadable(file, q)
  <2>1. ~Unreadable(file, n)
    BY <1>1, <1>2 DEF Unreadable
  <2> QED  BY <1>1, <2>1 DEF LoopInv
<1>5. SessionInv' /\ \A p \in Records(file') : p <= at' => p <= last'.at
  <2>1. n \notin Records(file)
    BY <1>1, <1>2 DEF Records
  <2>2. \A p \in Records(file) : p <= at' => p <= at
    BY <1>1, <2>1
  <2> QED  BY <1>1, <2>2, SkipStep DEF LoopInv
<1>6. interfaces' > 0 => Described(Items, n + 1)
  <2>1. CASE Items[n].kind = "section"
    BY <1>1, <2>1
  <2>2. CASE Items[n].kind = "interface"
    BY <1>1, <2>2, DescribedOn
  <2>3. CASE Items[n].kind \notin {"section", "interface"}
    BY <1>1, <2>3, DescribedOn DEF LoopInv
  <2> QED  BY <2>1, <2>2, <2>3
<1> HIDE DEF n
<1> QED  BY <1>1, <1>2, <1>3, <1>4, <1>5, <1>6 DEF LoopInv

LEMMA ReadChain ==
    ASSUME TypeInv, TypeInv', ChainInv, Read
    PROVE  ChainInv'
<1> USE DEF source, reader, consumer
<1>1. /\ stage \in Reading /\ SessionInv /\ LoopInv /\ at \in Nat /\ at' \in Nat
      /\ UNCHANGED <<file, checkpoint, accepted>> /\ KeptOK(checkpoint, accepted)
  <2>1. stage \in Reading
    BY DEF Read, EndOfFile, EveLong, EveMalformed, EveEvent, PcapDamage, PcapPacket, Block,
           BlockCut, BlockRaises, BlockPacket, Meets, AtTop
  <2>2. UNCHANGED <<file, checkpoint, accepted>>
    BY DEF Read, EndOfFile, EveLong, EveMalformed, EveEvent, PcapDamage, PcapPacket, Block,
           BlockCut, BlockRaises, BlockPacket
  <2> QED  BY <2>1, <2>2 DEF ChainInv, Reading, TypeInv, Items
<1>2. ASSUME stage' \in {"leaving", "broken"}, at <= at', UNCHANGED <<last, delivered>>
      PROVE  ChainInv'
  BY <1>1, <1>2, SkipStep DEF ChainInv, Reading
<1>3. ASSUME SessionInv', LoopInv' PROVE ChainInv'
  BY <1>1, <1>3 DEF ChainInv
<1>4. CASE EndOfFile \/ BlockRaises
  BY <1>1, <1>2, <1>4 DEF EndOfFile, BlockRaises
<1>5. CASE PcapDamage \/ BlockCut
  BY <1>1, <1>2, <1>5 DEF PcapDamage, BlockCut, Unless
<1>6. CASE EveLong
  <2>1. at <= at' /\ UNCHANGED <<last, delivered>> /\ (strict => stage' = "leaving")
    BY <1>1, <1>6 DEF EveLong, Unless
  <2> QED  BY <1>1, <1>2, <1>3, <1>6, <2>1, EveLongChain
<1>7. CASE EveMalformed
  BY <1>1, <1>3, <1>7, EveMalformedChain
<1>8. CASE EveEvent
  <2>1. \/ stage' = "yielded"
        \/ stage' = "leaving" /\ at <= at' /\ UNCHANGED <<last, delivered>>
    BY <1>1, <1>8 DEF EveEvent, Unless, Yield
  <2> QED  BY <1>1, <1>2, <1>3, <1>8, <2>1, EveEventChain
<1>9. CASE PcapPacket \/ BlockPacket
  <2>1. \/ stage' = "yielded"
        \/ stage' = "leaving" /\ at <= at' /\ UNCHANGED <<last, delivered>>
    BY <1>1, <1>9 DEF PcapPacket, BlockPacket, Unless, Yield
  <2> QED  BY <1>1, <1>2, <1>3, <1>9, <2>1, PacketChain
<1>10. CASE Block
  BY <1>1, <1>3, <1>10, BlockChain
<1> QED  BY <1>4, <1>5, <1>6, <1>7, <1>8, <1>9, <1>10 DEF Read

LEMMA ChainStep ==
    ASSUME TypeInv, TypeInv', ChainInv, [Next]_vars
    PROVE  ChainInv'
<1> USE DEF source, reader, consumer
<1>1. CASE Open
  BY <1>1, OpenChain
<1>2. CASE Read
  BY <1>2, ReadChain
<1>3. CASE RaiseIfCancelled \/ Summarise \/ Cancel \/ Abandon
  <2>1. /\ stage \notin {"idle", "refused"} /\ (stage' = stage \/ stage' \notin Reading)
        /\ UNCHANGED <<file, at, line, count, interfaces, last, delivered, checkpoint, accepted>>
    BY <1>3 DEF RaiseIfCancelled, Summarise, Cancel, Abandon, Reading
  <2>2. SessionInv' /\ (stage' \in Reading => LoopInv')
    BY <2>1 DEF ChainInv, SessionInv, LoopInv, Items
  <2> QED  BY <2>1, <2>2 DEF ChainInv
<1>4. CASE Conclude
  <2>1. stage' = "idle" /\ KeptOK(checkpoint', accepted')
    BY <1>4 DEF Conclude, ChainInv, SessionInv, Ended, Raised
  <2> QED  BY <2>1 DEF ChainInv, Reading
<1>5. CASE Rewrite
  BY <1>5 DEF Rewrite, ChainInv, Reading
<1>6. CASE UNCHANGED vars
  BY <1>6 DEF vars, ChainInv, SessionInv, LoopInv, Items
<1> QED  BY <1>1, <1>2, <1>3, <1>4, <1>5, <1>6 DEF Next, Adapter

LEMMA InitInv == Init => TypeInv /\ ChainInv
<1> SUFFICES ASSUME Init PROVE TypeInv /\ ChainInv
  OBVIOUS
<1>1. file \in AllFiles /\ Len(Items) \in Nat
  BY RecordPlaces DEF Init, AllFiles, Items
<1>2. sessions \in 0..MaxSessions
  BY BoundsAssumption DEF Init
<1>3. checkpoint \in Mark /\ last \in Mark
  BY DEF Init, NoCheckpoint, Mark
<1>4. TypeInv
  <2>1. /\ file \in AllFiles /\ strict \in BOOLEAN /\ budget \in Budgets /\ cancelled \in BOOLEAN
        /\ stage = "idle" /\ status \in Statuses
        /\ at = 0 /\ line = 0 /\ count = 0 /\ interfaces = 0
        /\ delivered = {} /\ diagnosed = {} /\ accepted = {}
    BY <1>1 DEF Init, Statuses
  <2> QED  BY <1>1, <1>2, <1>3, <2>1 DEF TypeInv
<1>5. ChainInv
  BY DEF Init, ChainInv, KeptOK, Reading
<1> QED  BY <1>4, <1>5

\* The two invariants of every reachable state, from which the theorems follow.
THEOREM Invariant == Spec => [](TypeInv /\ ChainInv)
<1>1. TypeInv /\ ChainInv /\ [Next]_vars => (TypeInv /\ ChainInv)'
  BY TypeStep, ChainStep
<1> QED  BY <1>1, InitInv, PTL DEF Spec

\* Whatever ends the sessions of a chain (a consumer that stops, a cancellation,
\* a limit, a damaged item) and however often it resumes, the records kept and being
\* delivered are those of one uninterrupted read of the same file up to the checkpoint,
\* each once, under the number that read gives it; a replaced file is never mixed in.
THEOREM OneReadOnly == Spec => []ChainIsOneRead
<1>1. ASSUME TypeInv, ChainInv PROVE ChainIsOneRead
  <2> SUFFICES ASSUME stage \notin {"idle", "refused"}
               PROVE  /\ accepted \union delivered = OneRead(file, last.at)
                      /\ \A record \in delivered : record.at > checkpoint.at
                      /\ \A record \in accepted : record.at <= checkpoint.at
    BY DEF ChainIsOneRead
  <2>1. SessionInv /\ accepted \union delivered = OneRead(file, last.at)
    BY <1>1, KeptIsOneRead DEF ChainInv
  <2>2. \A record \in accepted : record.at <= checkpoint.at
    <3>1. \A f, k : \A record \in OneRead(f, k) : record.at <= k
      BY DEF OneRead
    <3> QED  BY <1>1, <3>1 DEF ChainInv, KeptOK
  <2> QED  BY <2>1, <2>2 DEF SessionInv
<1> QED  BY <1>1, Invariant, PTL

-------------------------------------------------------------------------------
(* A PCAPNG session that raises.                                           *)

\* Every packet of f after c is behind something no read gets past.
ReadOut(c, f) ==
    f.format = "pcapng" =>
        \A p \in DOMAIN f.items : f.items[p].kind = "packet" /\ p > c.at
            => \E q \in 1..p : Unreadable(f, q)

\* A checkpoint is only made where nothing more can be read, and a session that
\* started at the beginning of the file knows the interfaces of the section.
CutInv ==
    /\ checkpoint.of \in AllFiles => ReadOut(checkpoint, checkpoint.of)
    /\ stage \in {"leaving", "summarised"} => ReadOut(last, file)
    /\ stage \in Reading /\ file.format = "pcapng" /\ interfaces = 0 /\ checkpoint.of = NoFile
       => ~Described(Items, at + 1)
    /\ RaiseDeserved

LEMMA CutStep ==
    ASSUME TypeInv, TypeInv', ChainInv, ChainInv', CutInv, [Next]_vars
    PROVE  CutInv'
<1> USE DEF source, reader, consumer
<1>1. /\ file \in AllFiles /\ NoFile \notin AllFiles /\ at \in Nat /\ checkpoint.at \in Nat
      /\ DOMAIN Items = 1..Len(Items) /\ Len(Items) \in Nat /\ interfaces \in Nat
  BY RecordPlaces, FilesAssumption DEF TypeInv, Items, Mark
<1>2. ASSUME Read \/ RaiseIfCancelled
      PROVE  /\ stage \in Reading /\ SessionInv /\ LoopInv
             /\ UNCHANGED <<file, checkpoint>>
             /\ checkpoint.of \in AllFiles => ReadOut(checkpoint, checkpoint.of)
             /\ last.at \in Nat
  <2>1. stage \in Reading
    BY <1>2 DEF Read, RaiseIfCancelled, EndOfFile, EveLong, EveMalformed, EveEvent, PcapDamage,
           PcapPacket, Block, BlockCut, BlockRaises, BlockPacket, Meets, AtTop
  <2>2. UNCHANGED <<file, checkpoint>>
    BY <1>2 DEF Read, RaiseIfCancelled, EndOfFile, EveLong, EveMalformed, EveEvent, PcapDamage,
           PcapPacket, Block, BlockCut, BlockRaises, BlockPacket
  <2>3. SessionInv /\ LoopInv
    BY <2>1 DEF ChainInv, Reading
  <2> QED  BY <2>1, <2>2, <2>3, KeptIsOneRead DEF CutInv
<1>3. CASE Open
  <2>1. stage' \in {"refused", "reading"} /\ UNCHANGED <<file, checkpoint>> /\ interfaces' = 0
        /\ (stage' = "reading" => at' = checkpoint.at)
    BY <1>3 DEF Open
  <2>2. checkpoint.of = NoFile => checkpoint.at = 0
    BY <1>1 DEF ChainInv, KeptOK, NoCheckpoint
  <2>3. ~Described(Items, 1)
    BY DEF Described
  <2> QED  BY <2>1, <2>2, <2>3 DEF CutInv, RaiseDeserved, Items, Reading
<1>4. CASE EndOfFile
  <2>1. at = Len(Items) /\ stage' = "leaving" /\ last' = last
    BY <1>4 DEF EndOfFile, AtTop
  <2>2. ReadOut(last, file)
    <3> SUFFICES ASSUME file.format = "pcapng", NEW p \in DOMAIN Items,
                        Items[p].kind = "packet", p > last.at
                 PROVE  \E q \in 1..p : Unreadable(file, q)
      BY DEF ReadOut, Items
    <3>1. LoopInv /\ last.at \in Nat
      BY <1>2, <1>4 DEF Read
    <3>2. p \notin Records(file)
      BY <1>1, <2>1, <3>1 DEF LoopInv
    <3> QED  BY <3>2 DEF Records, Items
  <2> QED  BY <1>2, <1>4, <2>1, <2>2 DEF CutInv, RaiseDeserved, Read, Reading
<1>5. CASE BlockCut
  <2>1. /\ Items[at + 1].kind = "cut" /\ stage' = "leaving" /\ last' = last
    BY <1>5 DEF BlockCut, Meets, Unless
  <2>2. ReadOut(last, file)
    <3> SUFFICES ASSUME file.format = "pcapng", NEW p \in DOMAIN Items,
                        Items[p].kind = "packet", p > last.at
                 PROVE  \E q \in 1..p : Unreadable(file, q)
      BY DEF ReadOut, Items
    <3>1. CASE p <= at
      <4>1. LoopInv /\ last.at \in Nat
        BY <1>2, <1>5 DEF Read
      <4>2. p \notin Records(file)
        BY <1>1, <3>1, <4>1 DEF LoopInv
      <4> QED  BY <4>2 DEF Records, Items
    <3>2. CASE p > at
      <4>1. at + 1 \in 1..p /\ Unreadable(file, at + 1)
        BY <1>1, <2>1, <3>2 DEF Unreadable, Items
      <4> QED  BY <4>1
    <3> QED  BY <1>1, <3>1, <3>2
  <2> QED  BY <1>2, <1>5, <2>1, <2>2 DEF CutInv, RaiseDeserved, Read, Reading
<1>6. CASE BlockRaises
  <2>1. /\ stage' = "broken" /\ at' = at /\ file.format = "pcapng" /\ at + 1 \in DOMAIN Items
        /\ Items[at + 1].kind \in {"bad", "packet"}
        /\ Items[at + 1].kind = "packet" => interfaces = 0
    BY <1>1, <1>6 DEF BlockRaises, Meets
  <2>2. \E q \in 1..(at + 1) : Unreadable(file, q)
    <3>1. CASE Items[at + 1].kind = "bad" \/ ~Described(Items, at + 1)
      <4>1. Unreadable(file, at + 1) /\ at + 1 \in 1..(at + 1)
        BY <1>1, <2>1, <3>1 DEF Unreadable, Items
      <4> QED  BY <4>1
    <3>2. CASE Items[at + 1].kind = "packet" /\ Described(Items, at + 1)
      <4>1. checkpoint.of = file /\ at + 1 > checkpoint.at
        BY <1>1, <1>2, <1>6, <2>1, <3>2, KeptIsOneRead DEF CutInv, SessionInv, Read
      <4> QED  BY <1>1, <1>2, <1>6, <2>1, <3>2, <4>1 DEF ReadOut, Read, Items
    <3> QED  BY <2>1, <3>1, <3>2
  <2>3. RaiseDeserved'
    BY <1>2, <1>6, <2>1, <2>2 DEF RaiseDeserved, Read
  <2> QED  BY <1>2, <1>6, <2>1, <2>3 DEF CutInv, Read, Reading
<1>7. CASE Block \/ BlockPacket
  <2>1. /\ at' = at + 1 /\ stage' \in Reading
        /\ Items[at + 1].kind = "interface" => interfaces' > 0
        /\ Items[at + 1].kind # "interface" => interfaces' = interfaces \/ Items[at + 1].kind = "section"
    BY <1>1, <1>7 DEF Block, BlockPacket, Meets, Yield, Reading
  <2>2. at + 1 \in Nat \ {0}
    BY <1>1
  <2>3. ASSUME file.format = "pcapng", interfaces' = 0, checkpoint.of = NoFile
        PROVE  ~Described(Items, at' + 1)
    BY <1>2, <1>7, <2>1, <2>2, <2>3, DescribedOn DEF CutInv, Read
  <2> QED  BY <1>2, <1>7, <2>1, <2>3 DEF CutInv, RaiseDeserved, Read, Reading, Items
<1>8. CASE EveLong \/ EveMalformed \/ EveEvent \/ PcapDamage \/ PcapPacket
  <2>1. file.format # "pcapng" /\ stage' # "broken"
    BY <1>8 DEF EveLong, EveMalformed, EveEvent, PcapDamage, PcapPacket, Unless, Yield
  <2> QED  BY <1>2, <1>8, <2>1 DEF CutInv, RaiseDeserved, Read, ReadOut
<1>9. CASE RaiseIfCancelled
  BY <1>2, <1>9 DEF RaiseIfCancelled, CutInv, RaiseDeserved, Reading
<1>10. CASE Summarise \/ Cancel \/ Abandon
  <2>1. /\ (stage' = stage \/ stage' = "abandoned" \/ (stage = "leaving" /\ stage' = "summarised"))
        /\ stage # "broken"
        /\ UNCHANGED <<file, checkpoint, last, interfaces, at>>
    <3>1. CASE Summarise
      BY <3>1 DEF Summarise
    <3>2. CASE Cancel
      BY <3>2 DEF Cancel, Reading
    <3>3. CASE Abandon
      BY <3>3 DEF Abandon
    <3> QED  BY <1>10, <3>1, <3>2, <3>3
  <2> QED  BY <2>1 DEF CutInv, RaiseDeserved, Reading, Items
<1>11. CASE Conclude
  <2>1. /\ stage' = "idle" /\ checkpoint' = IF stage = "summarised" THEN last ELSE checkpoint
        /\ file' = file
    BY <1>11 DEF Conclude
  <2>2. stage = "summarised" => last.of \in {NoFile, file} /\ ReadOut(last, file)
    BY DEF ChainInv, SessionInv, CutInv
  <2>3. checkpoint'.of \in AllFiles => ReadOut(checkpoint', checkpoint'.of)
    BY <1>1, <2>1, <2>2 DEF CutInv
  <2> QED  BY <2>1, <2>3 DEF CutInv, RaiseDeserved, Reading
<1>12. CASE Rewrite
  BY <1>12 DEF Rewrite, CutInv, RaiseDeserved, Reading
<1>13. CASE UNCHANGED vars
  BY <1>13 DEF vars, CutInv, RaiseDeserved, Items
<1> QED  BY <1>3, <1>4, <1>5, <1>6, <1>7, <1>8, <1>9, <1>10, <1>11, <1>12, <1>13
         DEF Next, Adapter, Read

\* A PCAPNG session raises only if no read of the whole file would get past the same
\* place: that a resumed session has forgotten the interfaces of the section never
\* stops it, because a checkpoint is only kept where no more packets can be read.
THEOREM RaisesOnlyIfDamaged == Spec => []RaiseDeserved
<1>1. Init => CutInv
  BY FilesAssumption DEF Init, CutInv, RaiseDeserved, NoCheckpoint, Reading
<1>2. (TypeInv /\ ChainInv) /\ (TypeInv /\ ChainInv)' /\ CutInv /\ [Next]_vars => CutInv'
  BY CutStep
<1>3. CutInv => RaiseDeserved
  BY DEF CutInv
<1> QED  BY <1>1, <1>2, <1>3, Invariant, PTL DEF Spec

-------------------------------------------------------------------------------
(* What is not delivered is diagnosed.                                     *)

Shown(p) ==
    \/ \E record \in delivered : record.at = p
    \/ Items[p].kind \in {"section", "interface", "silent"}
    \/ p \in diagnosed /\ (status = "complete" => Items[p].kind = "unknown")
    \/ /\ file.format = "eve" /\ status # "complete"
       /\ Swallowed(Items, p) \/ Cardinality(diagnosed) >= DiagnosticCap
    \/ /\ file.format = "pcap" /\ p = at /\ status \in {"resource_limited", "cancelled"}
       /\ stage \notin Reading

LossInv ==
    stage \in Reading \union {"leaving", "summarised"} =>
        /\ \A p \in (checkpoint.at + 1)..at : Shown(p)
        /\ stage \notin Reading /\ status = "complete" => at = Len(Items)

\* A position shown stays so while nothing is taken back.
LEMMA ShownStays ==
    ASSUME NEW p, Shown(p), UNCHANGED file, delivered \subseteq delivered',
           diagnosed' = diagnosed \/ Diagnose, status' = status \/ status' # "complete",
           stage \in Reading \/ (at' = at /\ stage' \notin Reading /\ status' \in {status, "cancelled"})
    PROVE  Shown(p)'
<1>1. Items' = Items
  BY DEF Items
<1>2. /\ diagnosed \subseteq diagnosed'
      /\ file.format = "eve" /\ Cardinality(diagnosed) >= DiagnosticCap => diagnosed' = diagnosed
  BY DEF Diagnose
<1>3. status' = "complete" => status = "complete"
  OBVIOUS
<1>4. CASE \E record \in delivered : record.at = p
  BY <1>4 DEF Shown
<1>7. CASE Items[p].kind \in {"section", "interface", "silent"}
  BY <1>1, <1>7 DEF Shown
<1>8. CASE p \in diagnosed /\ (status = "complete" => Items[p].kind = "unknown")
  BY <1>1, <1>2, <1>3, <1>8 DEF Shown
<1>5. CASE /\ file.format = "eve" /\ status # "complete"
           /\ Swallowed(Items, p) \/ Cardinality(diagnosed) >= DiagnosticCap
  BY <1>1, <1>2, <1>3, <1>5 DEF Shown
<1>6. CASE /\ file.format = "pcap" /\ p = at /\ status \in {"resource_limited", "cancelled"}
           /\ stage \notin Reading
  BY <1>1, <1>6 DEF Shown
<1> QED  BY <1>4, <1>5, <1>6, <1>7, <1>8 DEF Shown

\* The item at the top of the loop is shown if it is diagnosed under a status that
\* is not complete, or delivered.
LEMMA DiagnosedShown ==
    ASSUME Diagnose, file' = file, status' # "complete"
    PROVE  \A n : n = at + 1 => Shown(n)'
<1>1. CASE file.format = "eve" /\ Cardinality(diagnosed) >= DiagnosticCap
  BY <1>1 DEF Diagnose, Shown
<1>2. CASE ~(file.format = "eve" /\ Cardinality(diagnosed) >= DiagnosticCap)
  BY <1>2 DEF Diagnose, Shown
<1> QED  BY <1>1, <1>2

LEMMA YieldShown ==
    ASSUME NEW k, Yield(k)
    PROVE  /\ stage' \in Reading /\ delivered \subseteq delivered'
           /\ \A n : n = at + 1 => Shown(n)'
<1>1. stage' \in Reading /\ delivered \subseteq delivered'
  BY DEF Yield, Reading
<1>2. [at |-> at + 1, number |-> k] \in delivered'
  BY DEF Yield
<1>3. \E record \in delivered' : record.at = at + 1
  BY <1>2
<1> QED  BY <1>1, <1>3 DEF Shown

LEMMA LossStep ==
    ASSUME TypeInv, TypeInv', ChainInv, LossInv, [Next]_vars
    PROVE  LossInv'
<1> USE DEF source, reader, consumer
<1>1. /\ file \in AllFiles /\ at \in Nat /\ checkpoint.at \in Nat
      /\ DOMAIN Items = 1..Len(Items) /\ Len(Items) \in Nat
  BY RecordPlaces DEF TypeInv, Items, Mark
<1>2. CASE Open
  BY <1>1, <1>2 DEF Open, LossInv, Reading
<1>3. ASSUME stage' \notin Reading \union {"leaving", "summarised"}
      PROVE  LossInv'
  BY <1>3 DEF LossInv
\* A step of the loop shows what it read and keeps the rest shown.
<1>4. ASSUME stage \in Reading, UNCHANGED <<file, checkpoint>>, delivered \subseteq delivered',
             diagnosed' = diagnosed \/ Diagnose, status' = status \/ status' # "complete",
             at' \in at..Len(Items), \A p \in (at + 1)..at' : Shown(p)',
             stage' \notin Reading /\ status' = "complete" => at' = Len(Items)
      PROVE  LossInv'
  <2>1. \A p \in (checkpoint.at + 1)..at : Shown(p)'
    BY <1>4, ShownStays DEF LossInv
  <2>2. \A p \in (checkpoint.at + 1)..at' : p \in (checkpoint.at + 1)..at \/ p \in (at + 1)..at'
    BY <1>1, <1>4
  <2> QED  BY <1>4, <2>1, <2>2 DEF LossInv, Items
<1>5. ASSUME stage \in Reading, UNCHANGED <<file, checkpoint>>, delivered \subseteq delivered',
             diagnosed' = diagnosed \/ Diagnose, status' = status \/ status' # "complete",
             at' = at + 1, at < Len(Items), (\A n : n = at + 1 => Shown(n)'),
             stage' \notin Reading => status' # "complete"
      PROVE  LossInv'
  <2>1. at' \in at..Len(Items) /\ \A p \in (at + 1)..at' : p = at + 1
    BY <1>1, <1>5
  <2> QED  BY <1>4, <1>5, <2>1
<1>6. CASE EveLong
  <2>1. /\ stage \in Reading /\ UNCHANGED <<file, checkpoint, delivered>> /\ Diagnose
        /\ status' = "resource_limited" /\ at < Len(Items) /\ at' \in at..Len(Items)
        /\ at' \in {at + 1, at + 2} /\ file.format = "eve"
        /\ at' = at + 2 => Items[at + 1].kind = "exact"
    BY <1>1, <1>6 DEF EveLong, Meets, AtTop
  <2>2. \A n : n = at + 1 => Shown(n)'
    BY <2>1, DiagnosedShown
  <2>3. \A n : at' = at + 2 /\ n = at + 2 => Shown(n)'
    <3>1. stage \in Reading => ~Swallowed(Items, at + 1)
      BY <2>1 DEF ChainInv, LoopInv
    <3>2. at' = at + 2 => Swallowed(Items, (at + 1) + 1)
      BY <1>1, <2>1, <3>1, NextSwallowed
    <3>3. Items' = Items /\ (at + 1) + 1 = at + 2
      BY <1>1, <2>1 DEF Items
    <3> QED  BY <2>1, <3>2, <3>3 DEF Shown
  <2>4. \A p \in (at + 1)..at' : p = at + 1 \/ (p = at + 2 /\ at' = at + 2)
    BY <1>1, <2>1
  <2> QED  BY <1>4, <2>1, <2>2, <2>3, <2>4
<1>7. CASE EveMalformed \/ PcapDamage \/ BlockCut
  <2>1. /\ stage \in Reading /\ UNCHANGED <<file, checkpoint, delivered>> /\ Diagnose
        /\ status' # "complete" /\ at' = at + 1 /\ at < Len(Items)
    BY <1>7 DEF EveMalformed, PcapDamage, BlockCut, Meets, AtTop
  <2> QED  BY <1>5, <2>1, DiagnosedShown
<1>8. CASE EveEvent
  <2>1. /\ stage \in Reading /\ UNCHANGED <<file, checkpoint>> /\ at' = at + 1 /\ at < Len(Items)
        /\ \/ Diagnose /\ status' = "resource_limited" /\ delivered' = delivered
           \/ Yield(line') /\ UNCHANGED <<status, diagnosed>>
    BY <1>8 DEF EveEvent, Meets, AtTop
  <2>2. CASE Diagnose /\ status' = "resource_limited" /\ delivered' = delivered
    BY <1>5, <2>1, <2>2, DiagnosedShown
  <2>3. CASE Yield(line') /\ UNCHANGED <<status, diagnosed>>
    <3>1. stage' \in Reading /\ delivered \subseteq delivered' /\ (\A n : n = at + 1 => Shown(n)')
      BY <2>3, YieldShown
    <3> QED  BY <1>5, <2>1, <2>3, <3>1
  <2> QED  BY <2>1, <2>2, <2>3
<1>9. CASE PcapPacket
  <2>1. /\ stage \in Reading /\ UNCHANGED <<file, checkpoint, diagnosed>> /\ at' = at + 1
        /\ at < Len(Items) /\ file.format = "pcap"
        /\ \/ status' = "resource_limited" /\ stage' = "leaving" /\ delivered' = delivered
           \/ Yield(count') /\ UNCHANGED status
    BY <1>9 DEF PcapPacket, Meets, AtTop, Unless
  <2>2. CASE status' = "resource_limited" /\ stage' = "leaving" /\ delivered' = delivered
    <3>1. \A n : n = at + 1 => Shown(n)'
      BY <2>1, <2>2 DEF Shown, Reading
    <3> QED  BY <1>5, <2>1, <2>2, <3>1
  <2>3. CASE Yield(count') /\ UNCHANGED status
    <3>1. stage' \in Reading /\ delivered \subseteq delivered' /\ (\A n : n = at + 1 => Shown(n)')
      BY <2>3, YieldShown
    <3> QED  BY <1>5, <2>1, <2>3, <3>1
  <2> QED  BY <2>1, <2>2, <2>3
<1>10. CASE BlockPacket
  <2>1. /\ stage \in Reading /\ UNCHANGED <<file, checkpoint, diagnosed, status>> /\ at' = at + 1
        /\ at < Len(Items) /\ Yield(count')
    BY <1>10 DEF BlockPacket, Meets, AtTop
  <2>2. stage' \in Reading /\ delivered \subseteq delivered' /\ (\A n : n = at + 1 => Shown(n)')
    BY <2>1, YieldShown
  <2> QED  BY <1>5, <2>1, <2>2
<1>11. CASE Block
  <2>1. /\ stage \in Reading /\ UNCHANGED <<file, checkpoint, delivered, status>> /\ at' = at + 1
        /\ at < Len(Items) /\ stage' = "reading" /\ file.format = "pcapng"
        /\ \/ Items[at + 1].kind \in {"section", "interface", "silent"} /\ diagnosed' = diagnosed
           \/ Items[at + 1].kind = "unknown" /\ Diagnose
    BY <1>11 DEF Block, Meets, AtTop
  <2>2. Items' = Items /\ (Items[at + 1].kind = "unknown" => at + 1 \in diagnosed')
    BY <2>1 DEF Items, Diagnose
  <2>3. \A n : n = at + 1 => Shown(n)'
    BY <2>1, <2>2 DEF Shown
  <2>4. stage' \in Reading
    BY <2>1 DEF Reading
  <2> QED  BY <1>5, <2>1, <2>3, <2>4
<1>12. CASE EndOfFile
  <2>1. /\ stage \in Reading /\ UNCHANGED <<file, checkpoint, delivered, status, diagnosed>>
        /\ at' = at /\ at = Len(Items)
    BY <1>12 DEF EndOfFile, AtTop
  <2>2. (at + 1)..at' = {} /\ at' \in at..Len(Items)
    BY <1>1, <2>1
  <2> QED  BY <1>4, <2>1, <2>2
<1>13. CASE BlockRaises \/ RaiseIfCancelled \/ Abandon \/ Conclude \/ Rewrite
  BY <1>3, <1>13 DEF BlockRaises, RaiseIfCancelled, Abandon, Conclude, Rewrite, Reading
<1>14. CASE Summarise
  <2>1. /\ stage = "leaving" /\ stage' = "summarised" /\ status' \in {status, "cancelled"}
        /\ UNCHANGED <<file, checkpoint, delivered, diagnosed, at>>
    BY <1>14 DEF Summarise
  <2>2. \A p \in (checkpoint.at + 1)..at : Shown(p)'
    BY <2>1, ShownStays DEF LossInv, Reading
  <2> QED  BY <2>1, <2>2 DEF LossInv, Items, Reading
<1>15. CASE Cancel \/ UNCHANGED vars
  <2>1. UNCHANGED <<file, checkpoint, delivered, diagnosed, at, status, stage>>
    BY <1>15 DEF Cancel, vars
  <2>2. \A p : Shown(p)' = Shown(p)
    BY <2>1 DEF Shown, Items
  <2> QED  BY <2>1, <2>2 DEF LossInv, Items
<1> QED  BY <1>2, <1>6, <1>7, <1>8, <1>9, <1>10, <1>11, <1>12, <1>13, <1>14, <1>15
         DEF Next, Adapter, Read

\* A line or packet that was read and not delivered has a diagnostic, whatever later
\* replaces the status, but for the cases the property names; a summary that says
\* complete read everything and delivered everything a record is made of.
THEOREM NothingLostSilently == Spec => []LossesShow
<1>1. Init => LossInv
  BY DEF Init, LossInv, Reading
<1>2. (TypeInv /\ ChainInv) /\ (TypeInv /\ ChainInv)' /\ LossInv /\ [Next]_vars => LossInv'
  BY LossStep
<1>3. LossInv => LossesShow
  BY DEF LossInv, LossesShow, Shown, Reading
<1> QED  BY <1>1, <1>2, <1>3, Invariant, PTL DEF Spec

-------------------------------------------------------------------------------
(***************************************************************************)
(* The flow table.  The packets seen are a set S of positions of items up  *)
(* to n; the definitions of the property are stated here for any S.        *)
(***************************************************************************)

LastSeen(S, items, key, upto) ==
    CHOOSE p \in S : /\ FlowKey(items[p]) = key /\ p <= upto
                     /\ \A q \in S : FlowKey(items[q]) = key /\ q <= upto => q <= p
KeysAfter(S, items, p, upto) == {FlowKey(items[q]) : q \in {r \in S : p < r /\ r <= upto}}
Stayed(S, items, key, upto) ==
    Cardinality(KeysAfter(S, items, LastSeen(S, items, key, upto), upto)) < FlowLimit
Counted(S, items, key, n) ==
    {p \in S : FlowKey(items[p]) = key /\ \A upto \in p..n : Stayed(S, items, key, upto)}

\* A flow with a packet up to a position has a last one.
LEMMA LastSeenFacts ==
    ASSUME NEW S \in SUBSET Nat, NEW items, NEW key, NEW upto \in Nat,
           NEW p \in S, FlowKey(items[p]) = key, p <= upto
    PROVE  LET last1 == LastSeen(S, items, key, upto)
           IN /\ last1 \in S /\ FlowKey(items[last1]) = key /\ last1 <= upto
              /\ \A q \in S : FlowKey(items[q]) = key /\ q <= upto => q <= last1
<1> DEFINE T == {d \in Nat : \E q \in S : FlowKey(items[q]) = key /\ q <= upto /\ d = upto - q}
<1>1. upto - p \in T /\ T \in SUBSET Nat
  OBVIOUS
<1>2. PICK d \in T : \A e \in T : d <= e
  BY <1>1, Least
<1>3. PICK q \in S : FlowKey(items[q]) = key /\ q <= upto /\ d = upto - q
  BY <1>2
<1>4. \A r \in S : FlowKey(items[r]) = key /\ r <= upto => r <= q
  <2> SUFFICES ASSUME NEW r \in S, FlowKey(items[r]) = key, r <= upto
               PROVE  r <= q
    OBVIOUS
  <2>1. upto - r \in T
    OBVIOUS
  <2>2. upto - q <= upto - r
    BY <1>2, <1>3, <2>1
  <2> QED  BY <2>2
<1>5. \E x \in S : /\ FlowKey(items[x]) = key /\ x <= upto
                   /\ \A r \in S : FlowKey(items[r]) = key /\ r <= upto => r <= x
  BY <1>3, <1>4
<1> QED  BY <1>5, Zenon DEF LastSeen

LEMMA LastSeenIs ==
    ASSUME NEW S \in SUBSET Nat, NEW items, NEW key, NEW upto \in Nat,
           NEW p \in S, FlowKey(items[p]) = key, p <= upto,
           \A q \in S : FlowKey(items[q]) = key /\ q <= upto => q <= p
    PROVE  LastSeen(S, items, key, upto) = p
<1> DEFINE x == LastSeen(S, items, key, upto)
<1>1. x \in S /\ FlowKey(items[x]) = key /\ x <= upto
      /\ \A q \in S : FlowKey(items[q]) = key /\ q <= upto => q <= x
  BY LastSeenFacts
<1> HIDE DEF x
<1>2. x <= p /\ p <= x
  BY <1>1
<1>3. x = p
  BY <1>1, <1>2
<1> QED  BY <1>3 DEF x

\* What is seen later changes nothing of what was up to a position.
LEMMA LaterKeepsEarlier ==
    ASSUME NEW S \in SUBSET Nat, NEW items, NEW n \in Nat, NEW Q, Q \in {S, S \union {n + 1}},
           NEW key, NEW upto \in 0..n, NEW p \in S, FlowKey(items[p]) = key, p <= upto
    PROVE  /\ LastSeen(Q, items, key, upto) = LastSeen(S, items, key, upto)
           /\ \A r : KeysAfter(Q, items, r, upto) = KeysAfter(S, items, r, upto)
           /\ Stayed(Q, items, key, upto) <=> Stayed(S, items, key, upto)
<1>1. /\ Q \in SUBSET Nat /\ S \subseteq Q /\ upto \in Nat
      /\ \A q \in Q : q <= upto => q \in S
  OBVIOUS
<1> DEFINE x == LastSeen(S, items, key, upto)
<1>2. x \in S /\ FlowKey(items[x]) = key /\ x <= upto
      /\ \A q \in S : FlowKey(items[q]) = key /\ q <= upto => q <= x
  BY <1>1, LastSeenFacts
<1> HIDE DEF x
<1>3. LastSeen(Q, items, key, upto) = x
  BY <1>1, <1>2, LastSeenIs
<1>4. \A r : KeysAfter(Q, items, r, upto) = KeysAfter(S, items, r, upto)
  <2>1. \A r : {q \in Q : r < q /\ q <= upto} = {q \in S : r < q /\ q <= upto}
    BY <1>1
  <2> QED  BY <2>1 DEF KeysAfter
<1> QED  BY <1>3, <1>4 DEF Stayed, x

\* The table that TableIsRecent describes.
Rows(S, items) == [key : {FlowKey(items[p]) : p \in S}, packets : Nat]
Recent(S, items, n, table) ==
    /\ table \in Seq(Rows(S, items))
    /\ Keys(table) = {key \in KeysAfter(S, items, 0, n) : Stayed(S, items, key, n)}
    /\ \A i, j \in DOMAIN table : i < j =>
         LastSeen(S, items, table[i].key, n) < LastSeen(S, items, table[j].key, n)
    /\ \A i \in DOMAIN table : table[i].packets = Cardinality(Counted(S, items, table[i].key, n))

LEMMA KeysAreFinite ==
    ASSUME NEW S \in SUBSET Nat, NEW items, NEW p, NEW n \in Nat
    PROVE  IsFiniteSet(KeysAfter(S, items, p, n))
<1> DEFINE R == {r \in S : p < r /\ r <= n}
<1>1. R \in SUBSET (0..n)
  <2>1. \A r \in S : r \in Nat
    OBVIOUS
  <2>2. \A r \in S : r <= n => r \in 0..n
    BY <2>1
  <2> QED  BY <2>2
<1>0. IsFiniteSet(0..n)
  BY 0 \in Int, n \in Int, FS_Interval
<1>2. IsFiniteSet(R)
  BY <1>0, <1>1, FS_Subset
<1> HIDE DEF R
<1>3. IsFiniteSet({FlowKey(items[q]) : q \in R})
  <2> DEFINE f == [q \in R |-> FlowKey(items[q])]
             T == {FlowKey(items[q]) : q \in R}
  <2>1. f \in Surjection(R, T)
    BY DEF Surjection
  <2> HIDE DEF f, T
  <2>2. IsFiniteSet(T)
    BY <1>2, <2>1, FS_Surjection
  <2> QED  BY <2>2 DEF T
<1> QED  BY <1>3 DEF KeysAfter, R

\* Rows with distinct keys have as many keys as rows.
KeysFrom(table, i) == {table[j].key : j \in {k \in DOMAIN table : i < k}}
LEMMA KeysFromCount ==
    ASSUME NEW R, NEW table \in Seq(R), NEW i \in 0..Len(table),
           \A j, k \in DOMAIN table : table[j].key = table[k].key => j = k
    PROVE  IsFiniteSet(KeysFrom(table, i)) /\ Cardinality(KeysFrom(table, i)) = Len(table) - i
<1>1. Len(table) \in Nat /\ DOMAIN table = 1..Len(table)
  OBVIOUS
<1> DEFINE P == (i + 1)..Len(table)
           f == [j \in P |-> table[j].key]
           T == KeysFrom(table, i)
<1>2. {k \in DOMAIN table : i < k} = P
  BY <1>1
<1>3. IsFiniteSet(P) /\ Cardinality(P) = Len(table) - i
  <2>1. i + 1 \in Int /\ Len(table) \in Int /\ i \in Int /\ i <= Len(table)
    BY <1>1
  <2>2. IsFiniteSet(P) /\ Cardinality(P) = IF i + 1 > Len(table) THEN 0 ELSE Len(table) - (i + 1) + 1
    BY <2>1, FS_Interval
  <2> HIDE DEF P
  <2> QED  BY <2>1, <2>2
<1>4. P \subseteq DOMAIN table
  BY <1>1
<1>5. T = {table[j].key : j \in P}
  BY <1>2 DEF KeysFrom
<1> HIDE DEF P, T
<1>6. f \in Bijection(P, T)
  <2>1. f \in [P -> T] /\ \A y \in T : \E x \in P : f[x] = y
    BY <1>5
  <2>2. \A x, y \in P : f[x] = f[y] => x = y
    BY <1>4
  <2> HIDE DEF f
  <2>3. f \in Injection(P, T) /\ f \in Surjection(P, T)
    BY <2>1, <2>2 DEF Injection, Surjection, IsInjective
  <2> QED  BY <2>3, Zenon DEF Bijection
<1>7. ExistsBijection(P, T)
  BY <1>6 DEF ExistsBijection
<1>8. IsFiniteSet(T) /\ Cardinality(T) = Cardinality(P)
  BY <1>3, <1>7, FS_Bijection
<1> QED  BY <1>3, <1>8 DEF T

\* The rows of the table: their keys are seen and distinct, and the flows
\* seen after the last packet of one are those of the rows behind it.
LEMMA RowsFacts ==
    ASSUME NEW S \in SUBSET Nat, NEW items, NEW n \in Nat, NEW table, Recent(S, items, n, table), 0 \notin S
    PROVE  /\ Len(table) \in Nat /\ DOMAIN table = 1..Len(table) /\ Len(table) <= FlowLimit
           /\ \A i \in DOMAIN table : \E p \in S : FlowKey(items[p]) = table[i].key /\ p <= n
           /\ \A i, j \in DOMAIN table : table[i].key = table[j].key => i = j
           /\ \A i \in DOMAIN table :
                KeysAfter(S, items, LastSeen(S, items, table[i].key, n), n) = KeysFrom(table, i)
<1> DEFINE L(i) == LastSeen(S, items, table[i].key, n)
<1>1. Len(table) \in Nat /\ DOMAIN table = 1..Len(table)
  BY DEF Recent
<1>2. ASSUME NEW i \in DOMAIN table
      PROVE  /\ table[i].key \in KeysAfter(S, items, 0, n) /\ Stayed(S, items, table[i].key, n)
             /\ \E p \in S : FlowKey(items[p]) = table[i].key /\ p <= n
  <2>1. table[i].key \in Keys(table)
    BY DEF Keys
  <2>2. table[i].key \in KeysAfter(S, items, 0, n) /\ Stayed(S, items, table[i].key, n)
    BY <2>1 DEF Recent
  <2> QED  BY <2>2 DEF KeysAfter
<1>3. ASSUME NEW i \in DOMAIN table
      PROVE  L(i) \in S /\ FlowKey(items[L(i)]) = table[i].key /\ L(i) <= n /\ L(i) \in Nat
  <2>1. PICK p \in S : FlowKey(items[p]) = table[i].key /\ p <= n
    BY <1>2
  <2>2. L(i) \in S /\ FlowKey(items[L(i)]) = table[i].key /\ L(i) <= n
    BY <2>1, LastSeenFacts
  <2> HIDE DEF L
  <2> QED  BY <2>2
<1>4. \A i, j \in DOMAIN table : i < j => L(i) < L(j)
  BY DEF Recent
<1>5. ASSUME NEW i \in DOMAIN table, NEW j \in DOMAIN table, table[i].key = table[j].key
      PROVE  i = j
  <2>1. L(i) = L(j)
    BY <1>5
  <2> HIDE DEF L
  <2>2. ~(i < j) /\ ~(j < i)
    BY <1>3, <1>4, <2>1
  <2>3. i \in Int /\ j \in Int
    BY <1>1
  <2> QED  BY <2>2, <2>3
<1>6. ASSUME NEW i \in DOMAIN table
      PROVE  KeysAfter(S, items, L(i), n) = KeysFrom(table, i)
  <2>1. KeysFrom(table, i) \subseteq KeysAfter(S, items, L(i), n)
    <3> SUFFICES ASSUME NEW j \in DOMAIN table, i < j
                 PROVE  table[j].key \in KeysAfter(S, items, L(i), n)
      BY DEF KeysFrom
    <3>1. L(i) < L(j)
      BY <1>4
    <3>2. L(j) \in S /\ FlowKey(items[L(j)]) = table[j].key /\ L(j) <= n
      BY <1>3
    <3> HIDE DEF L
    <3> QED  BY <3>1, <3>2 DEF KeysAfter
  <2>2. ASSUME NEW key \in KeysAfter(S, items, L(i), n)
        PROVE  key \in KeysFrom(table, i)
    <3>1. PICK q \in S : L(i) < q /\ q <= n /\ FlowKey(items[q]) = key
      BY <2>2 DEF KeysAfter
    <3> DEFINE x == LastSeen(S, items, key, n)
    <3>2. x \in S /\ FlowKey(items[x]) = key /\ x <= n /\ q <= x
      BY <3>1, LastSeenFacts
    <3> HIDE DEF x
    <3>3. L(i) \in Nat
      BY <1>3
    <3> HIDE DEF L
    <3>4. L(i) < x /\ x \in Nat
      BY <3>1, <3>2, <3>3
    <3>5. KeysAfter(S, items, x, n) \subseteq KeysAfter(S, items, L(i), n)
      BY <3>3, <3>4 DEF KeysAfter
    <3>6. /\ IsFiniteSet(KeysAfter(S, items, L(i), n)) /\ IsFiniteSet(KeysAfter(S, items, x, n))
      BY KeysAreFinite
    <3>7. Cardinality(KeysAfter(S, items, x, n)) <= Cardinality(KeysAfter(S, items, L(i), n))
      BY <3>5, <3>6, FS_Subset
    <3>8. Cardinality(KeysAfter(S, items, L(i), n)) < FlowLimit
      BY <1>2 DEF Stayed, L
    <3>9. Cardinality(KeysAfter(S, items, x, n)) < FlowLimit
      <4>1. Cardinality(KeysAfter(S, items, x, n)) \in Nat /\ Cardinality(KeysAfter(S, items, L(i), n)) \in Nat
        BY <3>6, FS_CardinalityType
      <4> QED  BY <3>7, <3>8, <4>1, BoundsAssumption
    <3>10. key \in Keys(table)
      <4>1. Stayed(S, items, key, n)
        BY <3>9 DEF Stayed, x
      <4>2. key \in KeysAfter(S, items, 0, n)
        BY <3>2, <3>4 DEF KeysAfter
      <4> QED  BY <4>1, <4>2 DEF Recent
    <3>11. PICK j \in DOMAIN table : table[j].key = key
      BY <3>10 DEF Keys
    <3>12. L(j) = x
      BY <3>11 DEF L, x
    <3>13. ~(j < i) /\ j # i
      BY <1>3, <1>4, <3>3, <3>4, <3>12
    <3>14. i < j
      BY <1>1, <3>13
    <3> QED  BY <3>11, <3>14 DEF KeysFrom
  <2> QED  BY <2>1, <2>2
<1>7. Len(table) <= FlowLimit
  <2>1. CASE Len(table) = 0
    BY <2>1, BoundsAssumption
  <2>2. CASE Len(table) # 0
    <3>1. 1 \in DOMAIN table /\ 1 \in 0..Len(table)
      BY <1>1, <2>2
    <3>2. Cardinality(KeysFrom(table, 1)) = Len(table) - 1
      BY <1>5, <3>1, KeysFromCount DEF Recent
    <3>3. Cardinality(KeysFrom(table, 1)) < FlowLimit
      BY <1>2, <1>6, <3>1 DEF Stayed
    <3> QED  BY <1>1, <3>2, <3>3, BoundsAssumption
  <2> QED  BY <2>1, <2>2
<1> QED  BY <1>1, <1>2, <1>5, <1>6, <1>7

\* Observing a key drops a row, or none if d is 0, and adds one at the end.
Moved(table, d, row, new) ==
    /\ Len(new) = IF d = 0 THEN Len(table) + 1 ELSE Len(table)
    /\ new[Len(new)] = row
    /\ \A i \in 1..(Len(new) - 1) : new[i] = table[IF d = 0 \/ i < d THEN i ELSE i + 1]
DropsRow(table, key, d) ==
    /\ key \in Keys(table) => d # 0 /\ table[d].key = key
    /\ key \notin Keys(table) => d = IF Len(table) >= FlowLimit THEN 1 ELSE 0

LEMMA AppendMoves ==
    ASSUME NEW R, NEW table \in Seq(R), NEW others \in Seq(R), NEW row \in R, NEW d \in 0..Len(table),
           Len(others) = IF d = 0 THEN Len(table) ELSE Len(table) - 1,
           \A i \in 1..Len(others) : others[i] = table[IF d = 0 \/ i < d THEN i ELSE i + 1]
    PROVE  Append(others, row) \in Seq(R) /\ Moved(table, d, row, Append(others, row))
<1> DEFINE new == Append(others, row)
<1>1. /\ new \in Seq(R) /\ Len(new) = Len(others) + 1
      /\ \A i \in 1..Len(others) : new[i] = others[i]
      /\ new[Len(others) + 1] = row
  BY AppendProperties
<1>2. Len(others) \in Nat /\ Len(table) \in Nat
  OBVIOUS
<1> HIDE DEF new
<1>3. Len(new) = IF d = 0 THEN Len(table) + 1 ELSE Len(table)
  BY <1>1, <1>2
<1>4. Len(new) - 1 = Len(others)
  BY <1>1, <1>2
<1>5. \A i \in 1..(Len(new) - 1) : new[i] = table[IF d = 0 \/ i < d THEN i ELSE i + 1]
  BY <1>1, <1>4
<1> QED  BY <1>1, <1>3, <1>5 DEF Moved, new

LEMMA ObserveMoves ==
    ASSUME NEW R, NEW table \in Seq(R), NEW key, NEW row \in R,
           row = [key |-> key, packets |-> PacketsOf(table, key) + 1]
    PROVE  \E d \in 0..Len(table) :
             /\ DropsRow(table, key, d) /\ Observe(table, key) \in Seq(R)
             /\ Moved(table, d, row, Observe(table, key))
<1>1. Len(table) \in Nat /\ DOMAIN table = 1..Len(table)
  OBVIOUS
<1>2. CASE key \in Keys(table)
  <2> DEFINE d == PlaceOf(table, key)
             others == Without(table, d)
             front == SubSeq(table, 1, d - 1)
             back == SubSeq(table, d + 1, Len(table))
  <2>1. d \in DOMAIN table /\ table[d].key = key
    BY <1>2 DEF Keys, PlaceOf
  <2> HIDE DEF d
  <2>2. d \in 1..Len(table) /\ d - 1 \in 0..Len(table) /\ d + 1 \in Int /\ d \in 0..Len(table) /\ d # 0
    BY <1>1, <2>1
  <2>3. front \in Seq(R) /\ Len(front) = d - 1 /\ \A i \in 1..(d - 1) : front[i] = table[i]
    <3>1. \A i \in 1..(d - 1) : table[i] \in R
      BY <1>1, <2>2
    <3>2. /\ SubSeq(table, 1, d - 1) \in Seq(R)
          /\ Len(SubSeq(table, 1, d - 1)) = IF 1 <= d - 1 THEN (d - 1) - 1 + 1 ELSE 0
          /\ \A i \in 1..((d - 1) - 1 + 1) : SubSeq(table, 1, d - 1)[i] = table[1 + i - 1]
      BY <2>2, <3>1, SubSeqProperties
    <3> QED  BY <2>2, <3>2
  <2>4. /\ back \in Seq(R) /\ Len(back) = Len(table) - d
        /\ \A i \in 1..(Len(table) - d) : back[i] = table[d + i]
    <3>1. \A i \in (d + 1)..Len(table) : table[i] \in R
      BY <1>1, <2>2
    <3>2. /\ SubSeq(table, d + 1, Len(table)) \in Seq(R)
          /\ Len(SubSeq(table, d + 1, Len(table))) = IF d + 1 <= Len(table) THEN Len(table) - (d + 1) + 1 ELSE 0
          /\ \A i \in 1..(Len(table) - (d + 1) + 1) :
               SubSeq(table, d + 1, Len(table))[i] = table[(d + 1) + i - 1]
      BY <1>1, <2>2, <3>1, SubSeqProperties
    <3> DEFINE length == Len(back)
    <3>3. length = Len(table) - d
      <4>1. length = IF d + 1 <= Len(table) THEN Len(table) - (d + 1) + 1 ELSE 0
        BY <3>2
      <4> HIDE DEF length
      <4>2. \A x, y \in Int : x <= y => (IF x + 1 <= y THEN y - (x + 1) + 1 ELSE 0) = y - x
        OBVIOUS
      <4>3. d \in Int /\ Len(table) \in Int /\ d <= Len(table)
        BY <1>1, <2>2
      <4> QED  BY <4>1, <4>2, <4>3
    <3>4. Len(table) - (d + 1) + 1 = Len(table) - d
      BY <1>1, <2>2
    <3>5. \A i \in 1..(Len(table) - d) : back[i] = table[(d + 1) + i - 1] /\ (d + 1) + i - 1 = d + i
      BY <1>1, <2>2, <3>2, <3>4
    <3> HIDE DEF back
    <3>6. back \in Seq(R)
      BY <3>2 DEF back
    <3> QED  BY <3>3, <3>5, <3>6
  <2>5. others = front \o back
    BY DEF Without
  <2> HIDE DEF front, back, others
  <2>6. /\ others \in Seq(R) /\ Len(others) = Len(front) + Len(back)
        /\ \A i \in 1..(Len(front) + Len(back)) :
             others[i] = IF i <= Len(front) THEN front[i] ELSE back[i - Len(front)]
    BY <2>3, <2>4, <2>5, ConcatProperties
  <2>7. Len(others) = Len(table) - 1
    BY <1>1, <2>2, <2>3, <2>4, <2>6
  <2>8. ASSUME NEW i \in 1..Len(others)
        PROVE  others[i] = table[IF d = 0 \/ i < d THEN i ELSE i + 1]
    <3>1. CASE i <= d - 1
      BY <2>2, <2>3, <2>6, <3>1
    <3>2. CASE ~(i <= d - 1)
      <4>1. i - (d - 1) \in 1..(Len(table) - d) /\ d + (i - (d - 1)) = i + 1 /\ ~(i < d)
        BY <1>1, <2>2, <2>7, <3>2
      <4>2. others[i] = back[i - (d - 1)]
        BY <2>3, <2>6, <3>2
      <4> QED  BY <2>2, <2>4, <4>1, <4>2
    <3> QED  BY <3>1, <3>2
  <2>9. Append(others, row) \in Seq(R) /\ Moved(table, d, row, Append(others, row))
    BY <2>2, <2>6, <2>7, <2>8, AppendMoves
  <2>10. Observe(table, key) = Append(others, row)
    BY <1>2 DEF Observe, others, d
  <2>11. DropsRow(table, key, d)
    BY <1>2, <2>1, <2>2 DEF DropsRow
  <2> QED  BY <2>2, <2>9, <2>10, <2>11
<1>3. CASE key \notin Keys(table) /\ Len(table) >= FlowLimit
  <2>1. table # <<>> /\ 1 \in 0..Len(table)
    BY <1>1, <1>3, BoundsAssumption
  <2> DEFINE others == Tail(table)
  <2>2. /\ others \in Seq(R) /\ Len(others) = Len(table) - 1
        /\ \A i \in 1..Len(others) : others[i] = table[i + 1]
    BY <2>1, HeadTailProperties
  <2> HIDE DEF others
  <2>3. \A i \in 1..Len(others) : others[i] = table[IF 1 = 0 \/ i < 1 THEN i ELSE i + 1]
    BY <2>2
  <2>4. Append(others, row) \in Seq(R) /\ Moved(table, 1, row, Append(others, row))
    <3>1. Len(others) = IF 1 = 0 THEN Len(table) ELSE Len(table) - 1
      BY <2>2
    <3> QED  BY <2>1, <2>2, <2>3, <3>1, AppendMoves
  <2>5. Observe(table, key) = Append(others, row)
    BY <1>3 DEF Observe, others
  <2>6. DropsRow(table, key, 1)
    BY <1>3 DEF DropsRow
  <2> QED  BY <2>1, <2>4, <2>5, <2>6
<1>4. CASE key \notin Keys(table) /\ ~(Len(table) >= FlowLimit)
  <2>1. 0 \in 0..Len(table)
    BY <1>1
  <2>2. Append(table, row) \in Seq(R) /\ Moved(table, 0, row, Append(table, row))
    BY <2>1, AppendMoves
  <2>3. Observe(table, key) = Append(table, row)
    BY <1>4 DEF Observe
  <2>4. DropsRow(table, key, 0)
    BY <1>4 DEF DropsRow
  <2> QED  BY <2>1, <2>2, <2>3, <2>4
<1> QED  BY <1>2, <1>3, <1>4

\* A packet whose flow is not looked at, or an item that is no packet,
\* leaves the table as recent as it was.
LEMMA SkipTable ==
    ASSUME NEW n \in Nat, NEW S \in SUBSET (1..n), NEW items, NEW table, Recent(S, items, n, table)
    PROVE  Recent(S, items, n + 1, table)
<1>1. S \in SUBSET Nat /\ n + 1 \in Nat /\ n \in 0..n /\ \A p \in S : p <= n /\ p <= n + 1 /\ p \in Nat
  OBVIOUS
<1>2. \A r : KeysAfter(S, items, r, n + 1) = KeysAfter(S, items, r, n)
  BY <1>1 DEF KeysAfter
<1>3. ASSUME NEW p \in S
      PROVE  LET key == FlowKey(items[p])
             IN /\ LastSeen(S, items, key, n + 1) = LastSeen(S, items, key, n)
                /\ Stayed(S, items, key, n + 1) = Stayed(S, items, key, n)
                /\ Counted(S, items, key, n + 1) = Counted(S, items, key, n)
  <2> DEFINE key == FlowKey(items[p])
             x == LastSeen(S, items, key, n)
  <2>1. x \in S /\ FlowKey(items[x]) = key /\ \A q \in S : FlowKey(items[q]) = key /\ q <= n => q <= x
    BY <1>1, LastSeenFacts
  <2> HIDE DEF x, key
  <2>2. LastSeen(S, items, key, n + 1) = x
    BY <1>1, <2>1, LastSeenIs
  <2>3. Stayed(S, items, key, n + 1) = Stayed(S, items, key, n)
    BY <1>2, <2>2 DEF Stayed, x
  <2>4. \A q \in S : q..(n + 1) = (q..n) \union {n + 1} /\ n \in q..n
    BY <1>1
  <2>5. \A q \in S : (\A upto \in q..(n + 1) : Stayed(S, items, key, upto))
                      <=> (\A upto \in q..n : Stayed(S, items, key, upto))
    BY <2>3, <2>4
  <2>6. Counted(S, items, key, n + 1) = Counted(S, items, key, n)
    BY <2>5, Zenon DEF Counted
  <2> QED  BY <2>2, <2>3, <2>6 DEF x, key
<1>4. \A key \in KeysAfter(S, items, 0, n) : Stayed(S, items, key, n + 1) = Stayed(S, items, key, n)
  BY <1>3 DEF KeysAfter
<1>5. \A i \in DOMAIN table : \E p \in S : FlowKey(items[p]) = table[i].key
  <2>1. 0 \notin S
    OBVIOUS
  <2> QED  BY <1>1, <2>1, RowsFacts
<1>6. \A i \in DOMAIN table :
        /\ LastSeen(S, items, table[i].key, n + 1) = LastSeen(S, items, table[i].key, n)
        /\ Counted(S, items, table[i].key, n + 1) = Counted(S, items, table[i].key, n)
  BY <1>3, <1>5
<1>7. {key \in KeysAfter(S, items, 0, n + 1) : Stayed(S, items, key, n + 1)} =
        {key \in KeysAfter(S, items, 0, n) : Stayed(S, items, key, n)}
  BY <1>2, <1>4
<1> QED  BY <1>6, <1>7 DEF Recent

OnePacketMore(n, m, S, items, key, Q) ==
    n \in Nat /\ m = n + 1 /\ S \in SUBSET (1..n) /\ key = FlowKey(items[m]) /\ Q = S \union {m}

\* One packet more: its flow is the last one seen, and counts as seen after
\* every other.
LEMMA NewestSeen ==
    ASSUME NEW n, NEW m, NEW S, NEW items, NEW key, NEW Q, OnePacketMore(n, m, S, items, key, Q)
    PROVE  /\ LastSeen(Q, items, key, m) = m /\ Stayed(Q, items, key, m)
           /\ KeysAfter(Q, items, 0, m) = KeysAfter(S, items, 0, n) \union {key}
<1> n \in Nat /\ m = n + 1 /\ S \in SUBSET (1..n) /\ key = FlowKey(items[m]) /\ Q = S \union {m}
  BY DEF OnePacketMore
<1>1. Q \in SUBSET Nat /\ m \in Nat /\ m \in Q /\ \A q \in Q : q <= m
  OBVIOUS
<1>2. LastSeen(Q, items, key, m) = m
  BY <1>1, LastSeenIs
<1>3. KeysAfter(Q, items, m, m) = {}
  <2>1. \A r \in Q : ~(m < r)
    BY <1>1
  <2> QED  BY <2>1 DEF KeysAfter
<1>4. Stayed(Q, items, key, m)
  <2>1. Cardinality({}) < FlowLimit
    BY FS_EmptySet, BoundsAssumption
  <2> QED  BY <1>2, <1>3, <2>1 DEF Stayed
<1>5. {r \in Q : 0 < r /\ r <= m} = {r \in S : 0 < r /\ r <= n} \union {m}
  <2>1. \A r \in S : 0 < r /\ r <= n /\ r <= m
    OBVIOUS
  <2>2. 0 < m /\ m <= m
    OBVIOUS
  <2> QED  BY <2>1, <2>2
<1>6. KeysAfter(Q, items, 0, m) = KeysAfter(S, items, 0, n) \union {key}
  BY <1>5 DEF KeysAfter
<1> QED  BY <1>2, <1>4, <1>6

LEMMA OthersSeen ==
    ASSUME NEW n, NEW m, NEW S, NEW items, NEW key, NEW Q, OnePacketMore(n, m, S, items, key, Q),
           NEW other, other # key, NEW p \in S, FlowKey(items[p]) = other
    PROVE  /\ LastSeen(Q, items, other, m) = LastSeen(S, items, other, n)
           /\ KeysAfter(Q, items, LastSeen(Q, items, other, m), m) =
                KeysAfter(S, items, LastSeen(S, items, other, n), n) \union {key}
           /\ LastSeen(S, items, other, n) \in S
<1> n \in Nat /\ m = n + 1 /\ S \in SUBSET (1..n) /\ key = FlowKey(items[m]) /\ Q = S \union {m}
  BY DEF OnePacketMore
<1>1. /\ Q \in SUBSET Nat /\ S \in SUBSET Nat /\ m \in Nat /\ m \in Q
      /\ \A q \in S : q <= n /\ q <= m /\ q \in Q
  OBVIOUS
<1> DEFINE x == LastSeen(S, items, other, n)
<1>2. x \in S /\ FlowKey(items[x]) = other
      /\ \A q \in S : FlowKey(items[q]) = other /\ q <= n => q <= x
  <2>1. p \in S /\ p <= n /\ n \in Nat /\ S \in SUBSET Nat /\ FlowKey(items[p]) = other
    BY <1>1
  <2> QED  BY <2>1, LastSeenFacts
<1> HIDE DEF x
<1>3. \A q \in Q : FlowKey(items[q]) = other => q \in S
  OBVIOUS
<1>4. \A q \in Q : FlowKey(items[q]) = other /\ q <= m => q <= x
  BY <1>1, <1>2, <1>3
<1>5. LastSeen(Q, items, other, m) = x
  <2>1. x \in Q /\ x <= m /\ m \in Nat /\ Q \in SUBSET Nat /\ FlowKey(items[x]) = other
    BY <1>1, <1>2
  <2> QED  BY <1>4, <2>1, LastSeenIs
<1>6. {r \in Q : x < r /\ r <= m} = {r \in S : x < r /\ r <= n} \union {m}
  <2>1. x < m /\ m <= m
    BY <1>1, <1>2
  <2> QED  BY <1>1, <2>1
<1>7. KeysAfter(Q, items, x, m) = KeysAfter(S, items, x, n) \union {key}
  BY <1>6 DEF KeysAfter
<1> QED  BY <1>2, <1>5, <1>7 DEF x

\* A flow that another packet's flow leaves in the table goes on counting.
LEMMA OthersCounted ==
    ASSUME NEW n, NEW m, NEW S, NEW items, NEW key, NEW Q, OnePacketMore(n, m, S, items, key, Q),
           NEW other, other # key, Stayed(Q, items, other, m)
    PROVE  Counted(Q, items, other, m) = Counted(S, items, other, n)
<1> n \in Nat /\ m = n + 1 /\ S \in SUBSET (1..n) /\ key = FlowKey(items[m]) /\ Q = S \union {m}
  BY DEF OnePacketMore
<1>1. S \in SUBSET Nat /\ Q \in {S, S \union {m}} /\ \A p \in S : p..m = (p..n) \union {m}
  OBVIOUS
<1>2. ASSUME NEW p \in S, FlowKey(items[p]) = other
      PROVE  (\A upto \in p..m : Stayed(Q, items, other, upto))
               <=> (\A upto \in p..n : Stayed(S, items, other, upto))
  <2>1. ASSUME NEW upto \in p..n
        PROVE  Stayed(Q, items, other, upto) <=> Stayed(S, items, other, upto)
    <3>1. upto \in 0..n /\ p <= upto
      BY <1>1
    <3>2. Q \in {S, S \union {m}} /\ S \in SUBSET Nat
      BY <1>1
    <3> QED  BY <1>2, <3>1, <3>2, LaterKeepsEarlier
  <2> QED  BY <1>1, <2>1
<1>3. \A p \in Q : FlowKey(items[p]) = other => p \in S
  OBVIOUS
<1> QED  BY <1>2, <1>3 DEF Counted

\* The flow of the packet counts it, with its earlier ones if it was there.
LEMMA NewestCounted ==
    ASSUME NEW n, NEW m, NEW S, NEW items, NEW key, NEW Q, OnePacketMore(n, m, S, items, key, Q)
    PROVE  /\ key \in KeysAfter(S, items, 0, n) /\ Stayed(S, items, key, n) =>
                Counted(Q, items, key, m) = Counted(S, items, key, n) \union {m}
           /\ ~(key \in KeysAfter(S, items, 0, n) /\ Stayed(S, items, key, n)) =>
                Counted(Q, items, key, m) = {m}
           /\ IsFiniteSet(Counted(S, items, key, n)) /\ m \notin Counted(S, items, key, n)
<1> n \in Nat /\ m = n + 1 /\ S \in SUBSET (1..n) /\ key = FlowKey(items[m]) /\ Q = S \union {m}
  BY DEF OnePacketMore
<1>1. /\ S \in SUBSET Nat /\ Q \in {S, S \union {m}}
      /\ \A p \in S : p..m = (p..n) \union {m} /\ n \in p..n /\ 0 < p /\ p <= n
      /\ m..m = {m} /\ m \notin S
  OBVIOUS
<1>2. Stayed(Q, items, key, m)
  BY NewestSeen
<1>3. ASSUME NEW p \in S, FlowKey(items[p]) = key
      PROVE  (\A upto \in p..m : Stayed(Q, items, key, upto))
               <=> (\A upto \in p..n : Stayed(S, items, key, upto))
  <2>1. ASSUME NEW upto \in p..n
        PROVE  Stayed(Q, items, key, upto) <=> Stayed(S, items, key, upto)
    <3>1. upto \in 0..n /\ p <= upto
      BY <1>1
    <3>2. Q \in {S, S \union {m}} /\ S \in SUBSET Nat
      BY <1>1
    <3> QED  BY <1>3, <3>1, <3>2, LaterKeepsEarlier
  <2> QED  BY <1>1, <1>2, <2>1
<1>4. Counted(Q, items, key, m) = Counted(S, items, key, n) \union {m}
  <2>1. \A upto \in m..m : Stayed(Q, items, key, upto)
    BY <1>1, <1>2
  <2> QED  BY <1>3, <2>1 DEF Counted
<1>5. ASSUME ~(key \in KeysAfter(S, items, 0, n) /\ Stayed(S, items, key, n))
      PROVE  Counted(S, items, key, n) = {}
  BY <1>1, <1>5 DEF Counted, KeysAfter
<1>6. IsFiniteSet(Counted(S, items, key, n)) /\ m \notin Counted(S, items, key, n)
  <2>1. Counted(S, items, key, n) \in SUBSET (1..n)
    BY DEF Counted
  <2>2. IsFiniteSet(1..n)
    BY 1 \in Int, n \in Int, FS_Interval
  <2>3. m \notin 1..n
    OBVIOUS
  <2> QED  BY <2>1, <2>2, <2>3, FS_Subset
<1> QED  BY <1>4, <1>5, <1>6

\* Of the other flows in the table all stay but the one whose row is dropped.
LEMMA OthersStay ==
    ASSUME NEW n, NEW m, NEW S, NEW items, NEW key, NEW Q, OnePacketMore(n, m, S, items, key, Q),
           NEW table, Recent(S, items, n, table),
           NEW d \in 0..Len(table), DropsRow(table, key, d),
           NEW i \in DOMAIN table, table[i].key # key
    PROVE  Stayed(Q, items, table[i].key, m) <=> i # d
<1> n \in Nat /\ m = n + 1 /\ S \in SUBSET (1..n) /\ key = FlowKey(items[m]) /\ Q = S \union {m}
  BY DEF OnePacketMore
<1>1. /\ Len(table) \in Nat /\ DOMAIN table = 1..Len(table) /\ Len(table) <= FlowLimit
      /\ \E p \in S : FlowKey(items[p]) = table[i].key /\ p <= n
      /\ \A j, k \in DOMAIN table : table[j].key = table[k].key => j = k
      /\ KeysAfter(S, items, LastSeen(S, items, table[i].key, n), n) = KeysFrom(table, i)
  <2>1. S \in SUBSET Nat /\ 0 \notin S
    OBVIOUS
  <2> QED  BY <2>1, RowsFacts
<1>2. /\ LastSeen(Q, items, table[i].key, m) = LastSeen(S, items, table[i].key, n)
      /\ KeysAfter(Q, items, LastSeen(Q, items, table[i].key, m), m) =
           KeysFrom(table, i) \union {key}
  <2> DEFINE other == table[i].key
  <2>1. PICK p \in S : FlowKey(items[p]) = other
    BY <1>1
  <2> HIDE DEF other
  <2>2. other # key
    BY DEF other
  <2>3. LastSeen(Q, items, other, m) = LastSeen(S, items, other, n)
    BY <2>1, <2>2, OthersSeen
  <2>4. KeysAfter(Q, items, LastSeen(Q, items, other, m), m) =
          KeysAfter(S, items, LastSeen(S, items, other, n), n) \union {key}
    BY <2>1, <2>2, OthersSeen
  <2>5. KeysAfter(S, items, LastSeen(S, items, other, n), n) = KeysFrom(table, i)
    BY <1>1 DEF other
  <2> QED  BY <2>3, <2>4, <2>5 DEF other
<1> DEFINE C == Cardinality(KeysFrom(table, i) \union {key})
<1>3. C = IF key \in KeysFrom(table, i) THEN Len(table) - i ELSE Len(table) - i + 1
  <2>1. table \in Seq(Rows(S, items)) /\ i \in 0..Len(table)
    BY <1>1 DEF Recent
  <2>2. IsFiniteSet(KeysFrom(table, i)) /\ Cardinality(KeysFrom(table, i)) = Len(table) - i
    BY <1>1, <2>1, KeysFromCount
  <2> QED  BY <2>2, FS_AddElement
<1>4. Stayed(Q, items, table[i].key, m) <=> C < FlowLimit
  BY <1>2 DEF Stayed
<1> HIDE DEF C
<1>5. i \in 1..Len(table) /\ FlowLimit \in Nat \ {0} /\ Len(table) \in Nat
  BY <1>1, BoundsAssumption
<1>6. CASE key \in Keys(table)
  <2>1. d \in 1..Len(table) /\ table[d].key = key /\ i # d
    BY <1>5, <1>6 DEF DropsRow
  <2>2. i < d => key \in KeysFrom(table, i)
    BY <1>1, <2>1 DEF KeysFrom
  <2>3. C < FlowLimit
    <3>1. CASE i < d
      BY <1>1, <1>3, <1>5, <2>2, <3>1
    <3>2. CASE ~(i < d)
      <4>1. i > d /\ d >= 1 /\ i \in Nat
        BY <1>5, <2>1, <3>2
      <4>2. Len(table) - i + 1 < FlowLimit /\ Len(table) - i < FlowLimit
        BY <1>1, <1>5, <2>1, <4>1
      <4> QED  BY <1>3, <4>2
    <3> QED  BY <3>1, <3>2
  <2> QED  BY <1>4, <2>1, <2>3
<1>7. CASE key \notin Keys(table)
  <2>1. key \notin KeysFrom(table, i)
    BY <1>7 DEF KeysFrom, Keys
  <2>2. C = Len(table) - i + 1
    BY <1>3, <2>1
  <2>3. d = IF Len(table) >= FlowLimit THEN 1 ELSE 0
    BY <1>7 DEF DropsRow
  <2>4. C < FlowLimit <=> i # d
    BY <1>1, <1>5, <2>2, <2>3
  <2> QED  BY <1>4, <2>4
<1> QED  BY <1>6, <1>7

\* Observing the flow of a packet keeps the table recent.
LEMMA ObserveTable ==
    ASSUME NEW n, NEW m, NEW S, NEW items, NEW key, NEW Q, OnePacketMore(n, m, S, items, key, Q),
           NEW table, Recent(S, items, n, table)
    PROVE  Recent(Q, items, m, Observe(table, key))
<1> n \in Nat /\ m = n + 1 /\ S \in SUBSET (1..n) /\ key = FlowKey(items[m]) /\ Q = S \union {m}
  BY DEF OnePacketMore
<1> DEFINE row == [key |-> key, packets |-> PacketsOf(table, key) + 1]
           new == Observe(table, key)
<1>1. /\ Len(table) \in Nat /\ DOMAIN table = 1..Len(table)
      /\ \A i \in DOMAIN table : \E p \in S : FlowKey(items[p]) = table[i].key
      /\ \A i, j \in DOMAIN table : table[i].key = table[j].key => i = j
  <2>1. S \in SUBSET Nat /\ 0 \notin S
    OBVIOUS
  <2> QED  BY <2>1, RowsFacts
<1>2. PacketsOf(table, key) \in Nat /\ PacketsOf(table, key) + 1 = Cardinality(Counted(Q, items, key, m))
  <2>1. CASE key \in Keys(table)
    <3>1. PlaceOf(table, key) \in DOMAIN table /\ table[PlaceOf(table, key)].key = key
      BY <2>1 DEF Keys, PlaceOf
    <3>2. PacketsOf(table, key) = Cardinality(Counted(S, items, key, n))
      BY <2>1, <3>1 DEF PacketsOf, Recent
    <3>3. key \in KeysAfter(S, items, 0, n) /\ Stayed(S, items, key, n)
      BY <2>1 DEF Recent
    <3>4. Counted(Q, items, key, m) = Counted(S, items, key, n) \union {m}
      BY <3>3, NewestCounted
    <3>5. IsFiniteSet(Counted(S, items, key, n)) /\ m \notin Counted(S, items, key, n)
      BY NewestCounted
    <3>6. /\ Cardinality(Counted(S, items, key, n)) \in Nat
          /\ Cardinality(Counted(S, items, key, n) \union {m}) = Cardinality(Counted(S, items, key, n)) + 1
      BY <3>5, FS_AddElement, FS_CardinalityType
    <3> QED  BY <3>2, <3>4, <3>6
  <2>2. CASE key \notin Keys(table)
    <3>1. PacketsOf(table, key) = 0
      BY <2>2 DEF PacketsOf
    <3>2. Counted(Q, items, key, m) = {m}
      <4>1. ~(key \in KeysAfter(S, items, 0, n) /\ Stayed(S, items, key, n))
        BY <2>2 DEF Recent
      <4> QED  BY <4>1, NewestCounted
    <3>3. Cardinality({m}) = 1
      BY FS_Singleton
    <3>4. 0 \in Nat /\ 0 + 1 = 1
      OBVIOUS
    <3>5. PacketsOf(table, key) + 1 = 1
      BY <3>1, <3>4
    <3> QED  BY <3>1, <3>2, <3>3, <3>4, <3>5
  <2> QED  BY <2>1, <2>2
<1>3. row \in Rows(Q, items) /\ table \in Seq(Rows(Q, items))
  <2>1. row \in Rows(Q, items)
    BY <1>2 DEF Rows
  <2>2. Rows(S, items) \subseteq Rows(Q, items)
    BY DEF Rows
  <2>3. table \in Seq(Rows(S, items))
    BY DEF Recent
  <2> DEFINE R == Rows(S, items)
             T == Rows(Q, items)
  <2> HIDE DEF R, T
  <2>4. R \subseteq T /\ table \in Seq(R)
    BY <2>2, <2>3 DEF R, T
  <2>5. table \in Seq(T)
    BY <2>4
  <2> QED  BY <2>1, <2>5 DEF T
<1>4. PICK d \in 0..Len(table) : /\ DropsRow(table, key, d) /\ new \in Seq(Rows(Q, items))
                                 /\ Moved(table, d, row, new)
  BY <1>3, ObserveMoves
<1> DEFINE h(i) == IF d = 0 \/ i < d THEN i ELSE i + 1
           last1 == Len(new)
<1>5. /\ DOMAIN new = 1..last1 /\ last1 \in Nat \ {0} /\ last1 = IF d = 0 THEN Len(table) + 1 ELSE Len(table)
      /\ new[last1] = row /\ \A i \in 1..(last1 - 1) : new[i] = table[h(i)]
  <2>1. DOMAIN new = 1..last1
    BY <1>4
  <2>2. /\ last1 = IF d = 0 THEN Len(table) + 1 ELSE Len(table)
        /\ new[last1] = row /\ \A i \in 1..(last1 - 1) : new[i] = table[h(i)]
    BY <1>4 DEF Moved
  <2> HIDE DEF last1, new
  <2>3. last1 \in Nat \ {0}
    <3>1. d = 0 => last1 = Len(table) + 1
      BY <2>2
    <3>2. d # 0 => last1 = Len(table) /\ Len(table) # 0
      BY <1>1, <1>4, <2>2
    <3> QED  BY <1>1, <3>1, <3>2
  <2> QED  BY <2>1, <2>2, <2>3
<1> HIDE DEF new, row, last1
<1> DEFINE len == Len(table)
<1>18. /\ len \in Nat /\ d \in 0..len /\ last1 = IF d = 0 THEN len + 1 ELSE len
       /\ last1 \in Nat /\ DOMAIN table = 1..len
  BY <1>1, <1>4, <1>5
<1> HIDE DEF len
<1>6. \A i \in 1..(last1 - 1) : h(i) \in DOMAIN table /\ h(i) # d
  BY <1>18
<1>7. \A i \in DOMAIN table : i # d => \E j \in 1..(last1 - 1) : h(j) = i
  <2> SUFFICES ASSUME NEW i \in DOMAIN table, i # d
               PROVE  \E j \in 1..(last1 - 1) : h(j) = i
    OBVIOUS
  <2>1. CASE d = 0 \/ i < d
    <3>1. i \in 1..(last1 - 1)
      BY <1>18, <2>1
    <3> QED  BY <2>1, <3>1
  <2>2. CASE d # 0 /\ i > d
    <3>1. i - 1 \in 1..(last1 - 1) /\ ~(i - 1 < d) /\ i - 1 + 1 = i
      BY <1>18, <2>2
    <3> QED  BY <2>2, <3>1
  <2> QED  BY <1>18, <2>1, <2>2
<1>8. \A i, j \in 1..(last1 - 1) : i < j => h(i) < h(j)
  BY <1>18
<1> HIDE DEF h
<1>9. \A i \in DOMAIN table : i # d => table[i].key # key
  <2>1. CASE key \in Keys(table)
    <3>1. d \in DOMAIN table /\ table[d].key = key
      BY <1>1, <1>4, <2>1 DEF DropsRow
    <3> QED  BY <1>1, <3>1
  <2>2. CASE key \notin Keys(table)
    BY <2>2 DEF Keys
  <2> QED  BY <2>1, <2>2
<1>10. \A i \in DOMAIN table : table[i].key # key => (Stayed(Q, items, table[i].key, m) <=> i # d)
  BY <1>4, OthersStay
<1>11. Keys(new) = {table[i].key : i \in {j \in DOMAIN table : j # d}} \union {key}
  <2>1. DOMAIN new = (1..(last1 - 1)) \union {last1}
    BY <1>5
  <2>2. Keys(new) = {new[i].key : i \in 1..(last1 - 1)} \union {key}
    BY <1>5, <2>1 DEF Keys, row
  <2>3. {new[i].key : i \in 1..(last1 - 1)} = {table[i].key : i \in {j \in DOMAIN table : j # d}}
    <3>1. \A i \in 1..(last1 - 1) : new[i].key = table[h(i)].key
      BY <1>5
    <3>2. \A i \in 1..(last1 - 1) : h(i) \in {j \in DOMAIN table : j # d}
      BY <1>6
    <3>3. \A i \in {j \in DOMAIN table : j # d} : \E j \in 1..(last1 - 1) : h(j) = i
      BY <1>7
    <3> QED  BY <3>1, <3>2, <3>3
  <2> QED  BY <2>2, <2>3
<1>12. Keys(new) = {k \in KeysAfter(Q, items, 0, m) : Stayed(Q, items, k, m)}
  <2>1. Stayed(Q, items, key, m) /\ KeysAfter(Q, items, 0, m) = KeysAfter(S, items, 0, n) \union {key}
    <3>1. Stayed(Q, items, key, m)
      BY NewestSeen
    <3>2. KeysAfter(Q, items, 0, m) = KeysAfter(S, items, 0, n) \union {key}
      BY NewestSeen
    <3> QED  BY <3>1, <3>2
  <2>2. ASSUME NEW k \in KeysAfter(S, items, 0, n), k # key, Stayed(Q, items, k, m)
        PROVE  k \in Keys(table)
    <3>1. PICK p \in S : FlowKey(items[p]) = k
      BY <2>2 DEF KeysAfter
    <3> DEFINE x == LastSeen(S, items, k, n)
               A == KeysAfter(S, items, x, n)
               B == KeysAfter(Q, items, LastSeen(Q, items, k, m), m)
    <3>2. B = A \union {key}
      BY <2>2, <3>1, OthersSeen
    <3>3. IsFiniteSet(B) /\ A \in SUBSET B
      <4>1. Q \in SUBSET Nat /\ m \in Nat
        OBVIOUS
      <4> HIDE DEF A
      <4> QED  BY <3>2, <4>1, KeysAreFinite
    <3>4. Cardinality(B) < FlowLimit
      BY <2>2 DEF Stayed
    <3> HIDE DEF A, B
    <3>5. Cardinality(A) <= Cardinality(B) /\ Cardinality(A) \in Nat /\ Cardinality(B) \in Nat
      BY <3>3, FS_Subset, FS_CardinalityType
    <3>6. Cardinality(A) < FlowLimit
      BY <3>4, <3>5, BoundsAssumption
    <3>7. Stayed(S, items, k, n)
      BY <3>6 DEF Stayed, A, x
    <3> QED  BY <2>2, <3>7 DEF Recent
  <2>3. \A k \in KeysAfter(S, items, 0, n) : k # key /\ Stayed(Q, items, k, m) =>
          \E i \in DOMAIN table : i # d /\ table[i].key = k
    BY <1>10, <2>2 DEF Keys
  <2>4. \A i \in DOMAIN table : i # d =>
          table[i].key \in KeysAfter(S, items, 0, n) /\ Stayed(Q, items, table[i].key, m)
    BY <1>9, <1>10 DEF Recent, Keys
  <2> DEFINE A == KeysAfter(S, items, 0, n)
             B == KeysAfter(Q, items, 0, m)
  <2>5. key \in B /\ A \subseteq B /\ \A k \in B : k \in A \/ k = key
    BY <2>1
  <2>6. key \in Keys(new) /\ \A i \in DOMAIN table : i # d => table[i].key \in Keys(new)
    BY <1>11
  <2>7. \A k \in Keys(new) : k = key \/ \E i \in DOMAIN table : i # d /\ table[i].key = k
    BY <1>11
  <2>8. \A k \in A : k # key /\ Stayed(Q, items, k, m) => k \in Keys(new)
    BY <2>3, <2>6
  <2>9. \A k \in Keys(new) : k \in B /\ Stayed(Q, items, k, m)
    BY <2>1, <2>4, <2>5, <2>7
  <2> HIDE DEF A, B
  <2>10. \A k \in B : Stayed(Q, items, k, m) => k \in Keys(new)
    BY <2>5, <2>6, <2>8
  <2>11. Keys(new) = {k \in B : Stayed(Q, items, k, m)}
    BY <2>9, <2>10
  <2> QED  BY <2>11 DEF B
<1>13. ASSUME NEW i \in 1..(last1 - 1)
       PROVE  /\ LastSeen(Q, items, new[i].key, m) = LastSeen(S, items, table[h(i)].key, n)
              /\ LastSeen(S, items, table[h(i)].key, n) \in S
              /\ new[i].packets = Cardinality(Counted(Q, items, new[i].key, m))
  <2>1. new[i] = table[h(i)] /\ h(i) \in DOMAIN table /\ h(i) # d
    BY <1>5, <1>6
  <2>2. table[h(i)].key # key /\ Stayed(Q, items, table[h(i)].key, m)
    BY <1>9, <1>10, <2>1
  <2>3. PICK p \in S : FlowKey(items[p]) = table[h(i)].key
    BY <1>1, <2>1
  <2>4. /\ LastSeen(Q, items, table[h(i)].key, m) = LastSeen(S, items, table[h(i)].key, n)
        /\ LastSeen(S, items, table[h(i)].key, n) \in S
    BY <2>2, <2>3, OthersSeen
  <2>5. Counted(Q, items, table[h(i)].key, m) = Counted(S, items, table[h(i)].key, n)
    BY <2>2, OthersCounted
  <2>6. table[h(i)].packets = Cardinality(Counted(S, items, table[h(i)].key, n))
    BY <2>1 DEF Recent
  <2> QED  BY <2>1, <2>4, <2>5, <2>6
<1>14. new[last1].key = key /\ LastSeen(Q, items, key, m) = m
       /\ new[last1].packets = Cardinality(Counted(Q, items, key, m))
  <2>1. LastSeen(Q, items, key, m) = m
    BY NewestSeen
  <2> QED  BY <1>2, <1>5, <2>1 DEF row
<1>15. ASSUME NEW i \in DOMAIN new, NEW j \in DOMAIN new, i < j
       PROVE  LastSeen(Q, items, new[i].key, m) < LastSeen(Q, items, new[j].key, m)
  <2>1. i \in 1..(last1 - 1)
    BY <1>5, <1>15
  <2>2. CASE j = last1
    <3>1. LastSeen(Q, items, new[i].key, m) \in S
      BY <1>13, <2>1
    <3>2. LastSeen(Q, items, new[j].key, m) = m
      BY <1>14, <2>2
    <3>3. \A s \in S : s < m
      OBVIOUS
    <3> QED  BY <3>1, <3>2, <3>3
  <2>3. CASE j # last1
    <3>1. j \in 1..(last1 - 1) /\ h(i) < h(j) /\ h(i) \in DOMAIN table /\ h(j) \in DOMAIN table
      <4>1. j \in 1..(last1 - 1)
        BY <1>5, <1>18, <2>3
      <4>2. i < j
        BY <1>15
      <4> QED  BY <1>6, <1>8, <2>1, <4>1, <4>2
    <3>2. LastSeen(S, items, table[h(i)].key, n) < LastSeen(S, items, table[h(j)].key, n)
      BY <3>1 DEF Recent
    <3>3. /\ LastSeen(Q, items, new[i].key, m) = LastSeen(S, items, table[h(i)].key, n)
          /\ LastSeen(Q, items, new[j].key, m) = LastSeen(S, items, table[h(j)].key, n)
      BY <1>13, <2>1, <3>1
    <3> QED  BY <3>2, <3>3
  <2> QED  BY <2>2, <2>3
<1>16. \A i \in DOMAIN new : new[i].packets = Cardinality(Counted(Q, items, new[i].key, m))
  <2>1. DOMAIN new = (1..(last1 - 1)) \union {last1}
    BY <1>5
  <2> QED  BY <1>13, <1>14, <2>1
<1>17. Recent(Q, items, m, new)
  BY <1>4, <1>12, <1>15, <1>16 DEF Recent
<1> QED  BY <1>17 DEF new

-------------------------------------------------------------------------------
(* The flow table of a session.                                            *)

TableInv ==
    file.format = "pcap" /\ stage \in Reading \union {"leaving", "summarised"}
        => Recent(Seen, Items, at, flows)

\* A session has seen packets it has read.
LEMMA SeenPlaces ==
    ASSUME TypeInv, ChainInv, stage \in Reading \union {"leaving", "summarised"}
    PROVE  at \in Nat /\ Seen \in SUBSET (1..at)
<1>1. SessionInv
  BY DEF ChainInv, Reading
<1>2. last.at \in Nat /\ at \in Nat /\ accepted \union delivered = OneRead(file, last.at) /\ last.at <= at
  BY <1>1, KeptIsOneRead DEF SessionInv
<1>3. \A record \in delivered : record.at <= last.at
  <2>1. \A record \in OneRead(file, last.at) : record.at <= last.at
    BY DEF OneRead
  <2> QED  BY <1>2, <2>1
<1>4. \A record \in delivered : record.at \in 1..Len(Items)
  BY DEF TypeInv
<1>5. \A record \in delivered : record.at \in 1..at
  BY <1>2, <1>3, <1>4
<1> QED  BY <1>2, <1>5 DEF Seen

\* Before the first packet the table is empty.
LEMMA EmptyTable ==
    ASSUME NEW items, NEW n
    PROVE  Recent({}, items, n, <<>>)
<1>1. KeysAfter({}, items, 0, n) = {}
  BY DEF KeysAfter
<1>2. Keys(<<>>) = {}
  BY DEF Keys
<1>3. <<>> \in Seq(Rows({}, items)) /\ DOMAIN <<>> = {}
  OBVIOUS
<1> QED  BY <1>1, <1>2, <1>3 DEF Recent

LEMMA TableStep ==
    ASSUME TypeInv, ChainInv, TableInv, [Next]_vars
    PROVE  TableInv'
<1> USE DEF source, reader, consumer
<1>1. CASE Open
  <2>1. delivered' = {} /\ flows' = <<>>
    BY <1>1 DEF Open
  <2>2. Seen' = {}
    BY <2>1 DEF Seen
  <2> QED  BY <2>1, <2>2, EmptyTable DEF TableInv
<1>2. ASSUME file' = file, file.format = "pcap" => stage' \notin Reading \union {"leaving", "summarised"}
      PROVE  TableInv'
  BY <1>2 DEF TableInv
\* A step that reads nothing.
<1>3. ASSUME UNCHANGED <<file, at, flows, delivered>>,
             stage \in Reading \union {"leaving", "summarised"}
      PROVE  TableInv'
  BY <1>3 DEF TableInv, Seen, Items
\* A step that reads an item without observing a flow.
<1>4. ASSUME UNCHANGED <<file, flows>>, at' = at + 1, Seen' = Seen, stage \in Reading
      PROVE  TableInv'
  <2> SUFFICES ASSUME file.format = "pcap" PROVE Recent(Seen, Items, at + 1, flows)
    BY <1>4 DEF TableInv, Items
  <2>1. at \in Nat /\ Seen \in SUBSET (1..at) /\ Recent(Seen, Items, at, flows)
    BY <1>4, SeenPlaces DEF TableInv
  <2> QED  BY <2>1, SkipTable
<1>5. CASE PcapPacket
  <2>1. /\ stage \in Reading /\ UNCHANGED file /\ at' = at + 1 /\ file.format = "pcap"
        /\ \/ UNCHANGED <<flows, delivered>>
           \/ /\ flows' = IF FlowKey(Items[at + 1]) = NoFlow THEN flows
                          ELSE Observe(flows, FlowKey(Items[at + 1]))
              /\ Yield(count')
    BY <1>5 DEF PcapPacket, Meets, AtTop
  <2>2. Items' = Items
    BY <2>1 DEF Items
  <2>3. CASE UNCHANGED <<flows, delivered>>
    BY <1>4, <2>1, <2>2, <2>3 DEF Seen
  <2>4. CASE Yield(count')
    <3> DEFINE m == at + 1
               key == FlowKey(Items[m])
    <3>1. {record.at : record \in delivered'} = {record.at : record \in delivered} \union {m}
      <4>1. delivered' = delivered \union {[at |-> m, number |-> count']}
        BY <2>4 DEF Yield
      <4> DEFINE x == [at |-> m, number |-> count']
      <4>2. x.at = m
        OBVIOUS
      <4> HIDE DEF m, x
      <4>3. delivered' = delivered \union {x}
        BY <4>1 DEF x
      <4>4. \A p : p \in {record.at : record \in delivered'}
                     <=> p \in {record.at : record \in delivered} \/ p = m
        BY <4>2, <4>3
      <4> QED  BY <4>4
    <3>2. Seen' = IF key = NoFlow THEN Seen ELSE Seen \union {m}
      BY <2>2, <3>1 DEF Seen
    <3>3. at \in Nat /\ Seen \in SUBSET (1..at) /\ Recent(Seen, Items, at, flows)
      BY <2>1, SeenPlaces DEF TableInv
    <3>4. CASE key = NoFlow
      <4>1. CASE flows' = flows
        BY <1>4, <2>1, <3>2, <3>4, <4>1
      <4> QED  BY <2>1, <3>4, <4>1
    <3>5. CASE key # NoFlow
      <4>1. flows' = flows => delivered' = delivered \/ flows' = Observe(flows, key)
        BY <2>1, <3>5
      <4>2. CASE flows' = Observe(flows, key)
        <5>1. OnePacketMore(at, m, Seen, Items, key, Seen')
          BY <3>2, <3>3, <3>5 DEF OnePacketMore
        <5>2. Recent(Seen', Items, m, Observe(flows, key))
          BY <3>3, <5>1, ObserveTable
        <5> QED  BY <2>1, <2>2, <4>2, <5>2 DEF TableInv
      <4>3. CASE UNCHANGED <<flows, delivered>>
        BY <2>3, <4>3
      <4> QED  BY <2>1, <3>5, <4>2, <4>3
    <3> QED  BY <3>4, <3>5
  <2> QED  BY <2>1, <2>3, <2>4
<1>6. CASE PcapDamage
  <2>1. UNCHANGED <<file, flows, delivered>> /\ at' = at + 1 /\ stage \in Reading
    BY <1>6 DEF PcapDamage, Meets, AtTop
  <2> QED  BY <1>4, <2>1 DEF Seen, Items
<1>7. CASE EveLong \/ EveMalformed \/ EveEvent \/ Block \/ BlockCut \/ BlockRaises \/ BlockPacket
  <2>1. file' = file /\ file.format # "pcap"
    BY <1>7 DEF EveLong, EveMalformed, EveEvent, Block, BlockCut, BlockRaises, BlockPacket
  <2> QED  BY <1>2, <2>1
<1>8. CASE RaiseIfCancelled \/ Abandon \/ Conclude \/ Rewrite
  BY <1>8 DEF RaiseIfCancelled, Abandon, Conclude, Rewrite, TableInv, Reading
<1>9. CASE EndOfFile \/ Summarise
  BY <1>3, <1>9 DEF EndOfFile, Summarise, AtTop
<1>10. CASE Cancel \/ UNCHANGED vars
  <2>1. UNCHANGED <<file, at, flows, delivered, stage>>
    BY <1>10 DEF Cancel, vars
  <2> QED  BY <2>1 DEF TableInv, Seen, Items
<1> QED  BY <1>1, <1>5, <1>6, <1>7, <1>8, <1>9, <1>10 DEF Next, Adapter, Read

\* The flow table of a PCAP session is at every moment what a reader of the packets
\* delivered so far would call the FlowLimit flows seen last: in the order of their
\* last packets, each with the packets it had since it last came into the table.
\* So an eviction takes the flow longest silent, whatever the order of packets.
THEOREM TableHoldsTheRecent == Spec => []TableIsRecent
<1>1. Init => TableInv
  BY DEF Init, TableInv, Reading
<1>2. TypeInv /\ ChainInv /\ TableInv /\ [Next]_vars => TableInv'
  BY TableStep
<1>3. TableInv => TableIsRecent
  <2>1. /\ \A key, upto : LastOf(key, upto) = LastSeen(Seen, Items, key, upto)
        /\ \A p, upto : Between(p, upto) = KeysAfter(Seen, Items, p, upto)
    BY Zenon DEF LastOf, LastSeen, Between, KeysAfter
  <2>2. \A key, upto : Survived(key, upto) <=> Stayed(Seen, Items, key, upto)
    BY <2>1 DEF Survived, Stayed
  <2> SUFFICES ASSUME TableInv, file.format = "pcap", stage \in Reading \union {"leaving", "summarised"}
               PROVE  /\ Keys(flows) = {key \in Between(0, at) : Survived(key, at)}
                      /\ \A i, j \in DOMAIN flows : i < j => LastOf(flows[i].key, at) < LastOf(flows[j].key, at)
                      /\ \A i \in DOMAIN flows : flows[i].packets = Cardinality({p \in Seen :
                            /\ FlowKey(Items[p]) = flows[i].key
                            /\ \A upto \in p..at : Survived(flows[i].key, upto)})
    BY DEF TableIsRecent
  <2>3. Recent(Seen, Items, at, flows)
    BY DEF TableInv
  <2>4. Keys(flows) = {key \in Between(0, at) : Survived(key, at)}
    BY <2>1, <2>2, <2>3 DEF Recent
  <2>5. \A i, j \in DOMAIN flows : i < j => LastOf(flows[i].key, at) < LastOf(flows[j].key, at)
    BY <2>1, <2>3 DEF Recent
  <2>6. \A key : Counted(Seen, Items, key, at) = {p \in Seen :
           FlowKey(Items[p]) = key /\ \A upto \in p..at : Survived(key, upto)}
    BY <2>2 DEF Counted
  <2>7. \A i \in DOMAIN flows : flows[i].packets = Cardinality(Counted(Seen, Items, flows[i].key, at))
    BY <2>3 DEF Recent
  <2> QED  BY <2>4, <2>5, <2>6, <2>7
<1> QED  BY <1>1, <1>2, <1>3, Invariant, PTL DEF Spec

-------------------------------------------------------------------------------
(* The flow table never outgrows its limit.                                *)

LimitInv ==
    /\ \E R : flows \in Seq(R)
    /\ Len(flows) <= FlowLimit

LEMMA ObserveLimit ==
    ASSUME NEW table, NEW R, table \in Seq(R), Len(table) <= FlowLimit, NEW key
    PROVE  (\E Q : Observe(table, key) \in Seq(Q)) /\ Len(Observe(table, key)) <= FlowLimit
<1> DEFINE row == [key |-> key, packets |-> PacketsOf(table, key) + 1]
           Q == R \union {row}
           new == Observe(table, key)
<1>1. row \in Q /\ R \subseteq Q
  OBVIOUS
<1>2. table \in Seq(Q)
  <2> HIDE DEF Q
  <2> QED  BY <1>1
<1>3. PICK d \in 0..Len(table) : DropsRow(table, key, d) /\ new \in Seq(Q) /\ Moved(table, d, row, new)
  <2> HIDE DEF Q
  <2> QED  BY <1>1, <1>2, ObserveMoves
<1>4. Len(table) \in Nat /\ DOMAIN table = 1..Len(table)
  OBVIOUS
<1> HIDE DEF new, row, Q
<1>5. d = 0 => Len(table) < FlowLimit
  BY <1>3, <1>4, BoundsAssumption DEF DropsRow
<1>6. Len(new) = IF d = 0 THEN Len(table) + 1 ELSE Len(table)
  BY <1>3 DEF Moved
<1>7. Len(new) <= FlowLimit
  BY <1>4, <1>5, <1>6, BoundsAssumption
<1> QED  BY <1>3, <1>7 DEF new

LEMMA LimitStep == LimitInv /\ [Next]_vars => LimitInv'
<1> SUFFICES ASSUME LimitInv, [Next]_vars PROVE LimitInv'
  OBVIOUS
<1> USE DEF source, reader, consumer
<1>1. CASE flows' = flows
  BY <1>1 DEF LimitInv
<1>2. CASE Open
  <2>1. flows' = <<>> /\ <<>> \in Seq({}) /\ Len(<<>>) = 0 /\ 0 <= FlowLimit
    BY <1>2, BoundsAssumption DEF Open
  <2> QED  BY <2>1 DEF LimitInv
<1>3. CASE PcapPacket
  <2>1. flows' = flows \/ flows' = Observe(flows, FlowKey(Items[at + 1]))
    BY <1>3 DEF PcapPacket
  <2>2. CASE flows' = Observe(flows, FlowKey(Items[at + 1]))
    <3>1. PICK R : flows \in Seq(R)
      BY DEF LimitInv
    <3> DEFINE key == FlowKey(Items[at + 1])
    <3>2. flows' = Observe(flows, key)
      BY <2>2
    <3> HIDE DEF key
    <3>3. (\E Q : Observe(flows, key) \in Seq(Q)) /\ Len(Observe(flows, key)) <= FlowLimit
      BY <3>1, ObserveLimit DEF LimitInv
    <3> QED  BY <3>2, <3>3 DEF LimitInv
  <2> QED  BY <1>1, <2>1, <2>2
<1>4. CASE EveLong \/ EveMalformed \/ EveEvent \/ PcapDamage \/ Block \/ BlockCut \/ BlockRaises
           \/ BlockPacket \/ EndOfFile
  BY <1>1, <1>4 DEF EveLong, EveMalformed, EveEvent, PcapDamage, Block, BlockCut, BlockRaises,
                    BlockPacket, EndOfFile
<1>5. CASE RaiseIfCancelled \/ Summarise \/ Cancel \/ Abandon \/ Conclude \/ Rewrite \/ UNCHANGED vars
  BY <1>1, <1>5 DEF RaiseIfCancelled, Summarise, Cancel, Abandon, Conclude, Rewrite, vars
<1> QED  BY <1>2, <1>3, <1>4, <1>5 DEF Next, Adapter, Read

\* Types, and the bounds that the adapters promise: offsets stay within the file,
\* and the flow table of a PCAP session never holds more than max_flows rows.
THEOREM TypeCorrect == Spec => []TypeOK
<1>1. Init => LimitInv
  <2>1. <<>> \in Seq({}) /\ Len(<<>>) = 0 /\ 0 <= FlowLimit
    BY BoundsAssumption
  <2> QED  BY <2>1 DEF Init, LimitInv
<1>2. TypeInv /\ LimitInv => TypeOK
  BY DEF TypeInv, LimitInv, TypeOK, Mark
<1> QED  BY <1>1, <1>2, LimitStep, Invariant, PTL DEF Spec
===============================================================================
