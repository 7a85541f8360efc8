-------------------------- MODULE FlowBuilderProofs ---------------------------
EXTENDS FlowBuilder, WellFoundedInduction, TLAPS

(***************************************************************************)
(* Sequences, and the recursive functions FlattenSeq and FoldLeft are      *)
(* defined by.                                                             *)
(***************************************************************************)

\* A set with 0 and with the successor of each of its members up to n.
LEMMA Counting ==
    ASSUME NEW k \in Nat, NEW T, 0 \in T, \A i \in 0..(k - 1) : i \in T => i + 1 \in T
    PROVE  0..k \subseteq T
<1> SUFFICES ASSUME (0..k) \ T # {}
             PROVE  FALSE
  OBVIOUS
<1> DEFINE less == {ss \in Nat \X Nat : ss[1] < ss[2]}
<1>1. IsWellFoundedOn(less, Nat)
  BY NatLessThanWellFounded, Zenon DEF OpToRel
<1> HIDE DEF less
<1>2. PICK p \in (0..k) \ T : \A q \in (0..k) \ T : ~(<<q, p>> \in less)
  BY <1>1, WFMin, (0..k) \ T \in SUBSET Nat
<1>3. p # 0 /\ p - 1 \in 0..(k - 1) /\ p - 1 \in 0..k /\ p - 1 < p /\ p - 1 + 1 = p
  BY <1>2
<1>4. <<p - 1, p>> \in less
  BY <1>3 DEF less
<1> QED  BY <1>2, <1>3, <1>4

LEMMA SequenceOf ==
    ASSUME NEW S, NEW s \in Seq(S)
    PROVE  IsSequence(s) /\ ToSet(s) \subseteq S /\ Len(s) \in Nat /\ DOMAIN s = 1..Len(s)
BY DEF IsSequence, ToSet

LEMMA SequenceFacts ==
    ASSUME NEW s, IsSequence(s)
    PROVE  /\ Len(s) \in Nat /\ DOMAIN s = 1..Len(s)
           /\ s = [i \in 1..Len(s) |-> s[i]]
           /\ \A i \in 1..Len(s) : s[i] \in ToSet(s)
           /\ \A x \in ToSet(s) : \E i \in 1..Len(s) : x = s[i]
BY DEF IsSequence, ToSet

\* A function on 1..k is a sequence.
LEMMA FunctionIsSequence ==
    ASSUME NEW k \in Nat, NEW s, s = [i \in 1..k |-> s[i]]
    PROVE  IsSequence(s) /\ Len(s) = k
<1>1. DOMAIN s = 1..k /\ s \in [1..k -> ToSet(s)]
  BY DEF ToSet
<1>2. s \in Seq(ToSet(s))
  BY <1>1
<1> QED  BY <1>1, <1>2 DEF IsSequence

LEMMA Joined ==
    ASSUME NEW s, NEW t, IsSequence(s), IsSequence(t)
    PROVE  /\ IsSequence(s \o t)
           /\ ToSet(s \o t) = ToSet(s) \union ToSet(t)
           /\ Len(s \o t) = Len(s) + Len(t)
           /\ \A i \in 1..Len(s) : (s \o t)[i] = s[i]
           /\ \A i \in (Len(s) + 1)..(Len(s) + Len(t)) :
                i - Len(s) \in 1..Len(t) /\ (s \o t)[i] = t[i - Len(s)]
<1> DEFINE S == ToSet(s) \union ToSet(t)
<1>1. s \in Seq(S) /\ t \in Seq(S) /\ Len(s) \in Nat /\ Len(t) \in Nat
  BY DEF IsSequence
<1> HIDE DEF S
<1>2. /\ s \o t \in Seq(S) /\ Len(s \o t) = Len(s) + Len(t)
      /\ \A i \in 1..Len(s) : (s \o t)[i] = s[i]
      /\ \A i \in (Len(s) + 1)..(Len(s) + Len(t)) :
           i - Len(s) \in 1..Len(t) /\ (s \o t)[i] = t[i - Len(s)]
  BY <1>1
<1>3. IsSequence(s \o t) /\ DOMAIN (s \o t) = 1..(Len(s) + Len(t)) /\ ToSet(s \o t) \subseteq S
  BY <1>1, <1>2, SequenceOf
<1>4. ASSUME NEW x \in ToSet(s) \union ToSet(t)
      PROVE  x \in ToSet(s \o t)
  <2>1. CASE x \in ToSet(s)
    <3>1. PICK i \in 1..Len(s) : x = s[i]
      BY <2>1, SequenceFacts
    <3>2. i \in 1..(Len(s) + Len(t)) /\ (s \o t)[i] = x
      BY <1>1, <1>2, <3>1
    <3> QED  BY <1>3, <3>2 DEF ToSet
  <2>2. CASE x \in ToSet(t)
    <3>1. PICK i \in 1..Len(t) : x = t[i]
      BY <2>2, SequenceFacts
    <3>2. /\ i + Len(s) \in 1..(Len(s) + Len(t))
          /\ i + Len(s) \in (Len(s) + 1)..(Len(s) + Len(t)) /\ i + Len(s) - Len(s) = i
      BY <1>1, <3>1
    <3>3. (s \o t)[i + Len(s)] = x
      BY <1>2, <3>1, <3>2
    <3> QED  BY <1>3, <3>2, <3>3 DEF ToSet
  <2> QED  BY <1>4, <2>1, <2>2
<1> QED  BY <1>2, <1>3, <1>4 DEF S

LEMMA SingleSequence ==
    ASSUME NEW x
    PROVE  IsSequence(<<x>>) /\ ToSet(<<x>>) = {x} /\ Len(<<x>>) = 1
BY DEF IsSequence, ToSet

LEMMA EmptySequence == IsSequence(<<>>) /\ ToSet(<<>>) = {} /\ Len(<<>>) = 0
BY DEF IsSequence, ToSet

LEMMA Appended ==
    ASSUME NEW s, IsSequence(s), NEW x
    PROVE  /\ IsSequence(Append(s, x)) /\ ToSet(Append(s, x)) = ToSet(s) \union {x}
           /\ Len(Append(s, x)) = Len(s) + 1
           /\ \A i \in 1..Len(s) : Append(s, x)[i] = s[i]
           /\ Append(s, x)[Len(s) + 1] = x
<1>1. Append(s, x) = s \o <<x>>
  <2> DEFINE S == ToSet(s) \union {x}
  <2>1. s \in Seq(S) /\ x \in S
    BY DEF IsSequence
  <2> HIDE DEF S
  <2> QED  BY <2>1
<1>2. Len(s) + 1 \in (Len(s) + 1)..(Len(s) + 1) /\ Len(s) + 1 - Len(s) = 1
  BY SequenceFacts
<1> QED  BY <1>1, <1>2, Joined, SingleSequence

\* The recursion of FlattenSeq over the first k sequences.
Flattens(F, ss, k) == F = [i \in 1..k |-> IF i = 1 THEN ss[i] ELSE F[i - 1] \o ss[i]]

LEMMA FlattensExists ==
    ASSUME NEW k \in Nat, NEW ss
    PROVE  \E F : Flattens(F, ss, k)
<1> DEFINE T == {i \in 0..k : \E F : Flattens(F, ss, i)}
<1>1. 0 \in T
  <2> DEFINE F == [i \in 1..0 |-> IF i = 1 THEN ss[i] ELSE ss[i - 1] \o ss[i]]
  <2>1. F = [i \in 1..0 |-> IF i = 1 THEN ss[i] ELSE F[i - 1] \o ss[i]]
    OBVIOUS
  <2> HIDE DEF F
  <2>2. Flattens(F, ss, 0)
    BY <2>1 DEF Flattens
  <2> QED  BY <2>2
<1>2. ASSUME NEW j \in 0..(k - 1), j \in T
      PROVE  j + 1 \in T
  <2>1. PICK F : Flattens(F, ss, j)
    BY <1>2
  <2> DEFINE G == [i \in 1..(j + 1) |-> IF i = 1 THEN ss[i] ELSE F[i - 1] \o ss[i]]
  <2>a. \A i \in 1..j : F[i] = IF i = 1 THEN ss[i] ELSE F[i - 1] \o ss[i]
    BY <2>1, Zenon DEF Flattens
  <2>b. \A i \in 1..j : i \in 1..(j + 1)
    BY <1>2
  <2>2. \A i \in 1..j : i \in 1..(j + 1) /\ G[i] = F[i]
    BY <2>a, <2>b, Zenon
  <2>3. \A i \in 1..(j + 1) : i # 1 => i - 1 \in 1..j
    BY <1>2
  <2>4. G = [i \in 1..(j + 1) |-> IF i = 1 THEN ss[i] ELSE G[i - 1] \o ss[i]]
    <3>1. \A i \in 1..(j + 1) : i # 1 => G[i - 1] = F[i - 1]
      BY <2>2, <2>3
    <3>2. DOMAIN G = 1..(j + 1) /\ \A i \in 1..(j + 1) : G[i] = IF i = 1 THEN ss[i] ELSE F[i - 1] \o ss[i]
      OBVIOUS
    <3>3. G = [i \in 1..(j + 1) |-> G[i]]
      OBVIOUS
    <3> HIDE DEF G
    <3>4. \A i \in 1..(j + 1) : G[i] = IF i = 1 THEN ss[i] ELSE G[i - 1] \o ss[i]
      BY <3>1, <3>2
    <3> QED  BY <3>3, <3>4
  <2> HIDE DEF G
  <2>5. j + 1 \in 0..k
    BY <1>2
  <2>6. Flattens(G, ss, j + 1)
    BY <2>4, Zenon DEF Flattens
  <2> QED  BY <2>5, <2>6
<1> HIDE DEF T
<1>3. k \in T
  BY <1>1, <1>2, Counting, k \in 0..k
<1> QED  BY <1>3 DEF T

LEMMA Flattened ==
    ASSUME NEW ss, IsSequence(ss), \A i \in 1..Len(ss) : IsSequence(ss[i])
    PROVE  /\ IsSequence(FlattenSeq(ss))
           /\ ToSet(FlattenSeq(ss)) = UNION {ToSet(ss[i]) : i \in 1..Len(ss)}
<1> DEFINE k == Len(ss)
<1>0. k \in Nat
  BY SequenceFacts
<1>1. CASE k = 0
  <2>1. ss = <<>> /\ FlattenSeq(ss) = ss
    BY <1>1 DEF FlattenSeq, IsSequence
  <2> QED  BY <1>1, <2>1, EmptySequence
<1>2. CASE k # 0
  <2> DEFINE F == CHOOSE F : Flattens(F, ss, k)
  <2>1. FlattenSeq(ss) = F[k]
    BY <1>2 DEF FlattenSeq, Flattens
  <2>2. Flattens(F, ss, k)
    BY <1>0, FlattensExists
  <2>a. \A i \in 1..k : F[i] = IF i = 1 THEN ss[i] ELSE F[i - 1] \o ss[i]
    BY <2>2, Zenon DEF Flattens
  <2> HIDE DEF F
  <2> DEFINE Good(i) == IsSequence(F[i]) /\ ToSet(F[i]) = UNION {ToSet(ss[j]) : j \in 1..i}
             T == {0} \union {i \in 1..k : Good(i)}
  <2>3. ASSUME NEW i \in 0..(k - 1), i \in T
        PROVE  i + 1 \in T
    <3>0. i + 1 \in 1..k
      BY <1>0, <2>3
    <3>1. CASE i = 0
      <4>1. F[1] = ss[1] /\ 1 \in 1..k
        BY <1>0, <1>2, <2>a
      <4>2. 1..1 = {1}
        OBVIOUS
      <4> QED  BY <3>0, <3>1, <4>1, <4>2
    <3>2. CASE i # 0
      <4>1. i \in 1..k /\ Good(i)
        BY <2>3, <3>2
      <4>2. F[i + 1] = F[i] \o ss[i + 1]
        <5>1. i + 1 # 1 /\ i + 1 - 1 = i
          BY <1>0, <2>3, <3>2
        <5>2. F[i + 1] = IF i + 1 = 1 THEN ss[i + 1] ELSE F[i + 1 - 1] \o ss[i + 1]
          <6> HIDE DEF F, k
          <6> QED  BY <2>a, <3>0
        <5>3. F[i + 1 - 1] = F[i]
          BY <5>1
        <5> QED  BY <5>1, <5>2, <5>3, Zenon
      <4>3. IsSequence(F[i + 1]) /\ ToSet(F[i + 1]) = ToSet(F[i]) \union ToSet(ss[i + 1])
        BY <3>0, <4>1, <4>2, Joined
      <4>4. 1..(i + 1) = (1..i) \union {i + 1}
        BY <2>3, <1>0
      <4>5. UNION {ToSet(ss[j]) : j \in 1..(i + 1)} = (UNION {ToSet(ss[j]) : j \in 1..i}) \union ToSet(ss[i + 1])
        BY <4>4
      <4>6. Good(i + 1)
        BY <4>1, <4>3, <4>5
      <4> HIDE DEF Good
      <4> QED  BY <3>0, <4>6
    <3> QED  BY <3>1, <3>2
  <2> HIDE DEF T
  <2>4. k \in T
    BY <1>0, <2>3, Counting, 0 \in T, k \in 0..k DEF T
  <2> QED  BY <1>0, <1>2, <2>1, <2>4 DEF T
<1> QED  BY <1>1, <1>2

LEMMA AmongFacts ==
    ASSUME NEW s, IsSequence(s), NEW S
    PROVE  IsSequence(Among(s, S)) /\ ToSet(Among(s, S)) = ToSet(s) \intersect S
<1> DEFINE ss == [i \in DOMAIN s |-> IF s[i] \in S THEN <<s[i]>> ELSE <<>>]
<1>1. Len(s) \in Nat /\ DOMAIN s = 1..Len(s)
  BY SequenceFacts
<1>2. ss = [i \in 1..Len(s) |-> ss[i]] /\ \A i \in 1..Len(s) : ss[i] = IF s[i] \in S THEN <<s[i]>> ELSE <<>>
  BY <1>1
<1>3. Among(s, S) = FlattenSeq(ss)
  BY DEF Among
<1> HIDE DEF ss
<1>4. IsSequence(ss) /\ Len(ss) = Len(s)
  BY <1>1, <1>2, FunctionIsSequence
<1>5. \A i \in 1..Len(s) : IsSequence(ss[i]) /\ ToSet(ss[i]) = {s[i]} \intersect S
  BY <1>2, SingleSequence, EmptySequence
<1>6. IsSequence(FlattenSeq(ss)) /\ ToSet(FlattenSeq(ss)) = UNION {ToSet(ss[i]) : i \in 1..Len(s)}
  BY <1>4, <1>5, Flattened
<1>7. UNION {ToSet(ss[i]) : i \in 1..Len(s)} = ToSet(s) \intersect S
  BY <1>1, <1>5 DEF ToSet
<1> QED  BY <1>3, <1>6, <1>7

LEMMA MaxIsIn ==
    ASSUME NEW k \in Nat, NEW t \in SUBSET (1..k), t # {}
    PROVE  Max(t) \in t /\ \A y \in t : Max(t) >= y
<1> DEFINE T == {i \in 0..k : \A u \in SUBSET (1..i) : u # {} => \E x \in u : \A y \in u : x >= y}
<1>1. 0 \in T
  <2>1. 1..0 = {} /\ 0 \in 0..k
    OBVIOUS
  <2>2. \A u \in SUBSET (1..0) : u = {}
    BY <2>1
  <2> QED  BY <2>1, <2>2
<1>2. ASSUME NEW i \in 0..(k - 1), i \in T
      PROVE  i + 1 \in T
  <2>1. ASSUME NEW u \in SUBSET (1..(i + 1)), u # {}
        PROVE  \E x \in u : \A y \in u : x >= y
    <3>1. CASE i + 1 \in u
      BY <3>1
    <3>2. CASE i + 1 \notin u
      <4>1. u \in SUBSET (1..i)
        BY <3>2
      <4> QED  BY <1>2, <2>1, <4>1
    <3> QED  BY <3>1, <3>2
  <2> QED  BY <2>1
<1> HIDE DEF T
<1>3. k \in T
  BY <1>1, <1>2, Counting, k \in 0..k
<1>4. \E x \in t : \A y \in t : x >= y
  BY <1>3 DEF T
<1> QED  BY <1>4 DEF Max

LEMMA MaxOfPrefix ==
    ASSUME NEW k \in Nat \ {0}
    PROVE  Max(1..k) = k /\ (1..k) \ {k} = 1..(k - 1)
<1>1. Max(1..k) \in 1..k /\ \A y \in 1..k : Max(1..k) >= y
  <2>1. k \in 1..k /\ \A y \in 1..k : k >= y
    OBVIOUS
  <2> QED  BY <2>1 DEF Max
<1> QED  BY <1>1

\* The operators the builder folds a sequence with.
Op(kind, acc, x) == IF kind = "port" THEN AddPort(acc, x) ELSE AddInferred(acc, x)

\* The recursion of FoldLeft over the first k elements of s.
Folds(f, kind, base, s, k) ==
    f = [t \in SUBSET (1..k) |->
           IF t = {} THEN base ELSE Op(kind, f[t \ {Max(t)}], s[Max(t)])]

LEMMA FoldsExists ==
    ASSUME NEW k \in Nat, NEW kind, NEW base, NEW s
    PROVE  \E f : Folds(f, kind, base, s, k)
<1> DEFINE New(f, t) == IF t = {} THEN base ELSE Op(kind, f[t \ {Max(t)}], s[Max(t)])
           Solves(f, i) == f = [t \in SUBSET (1..i) |-> New(f, t)]
           T == {i \in 0..k : \E f : Solves(f, i)}
<1>1. 0 \in T
  <2> DEFINE f == [t \in SUBSET (1..0) |-> base]
  <2>1. SUBSET (1..0) = {{}}
    OBVIOUS
  <2>2. f = [t \in SUBSET (1..0) |-> New(f, t)]
    BY <2>1
  <2> HIDE DEF f, Solves
  <2>3. Solves(f, 0)
    BY <2>2 DEF Solves
  <2> QED  BY <2>3
<1>2. ASSUME NEW i \in 0..(k - 1), i \in T
      PROVE  i + 1 \in T
  <2>0. i \in Nat /\ i + 1 \in Nat /\ i + 1 \in 0..k
    OBVIOUS
  <2>1. PICK f : Solves(f, i)
    BY <1>2
  <2>2. \A t \in SUBSET (1..i) : f[t] = New(f, t)
    <3> HIDE DEF New
    <3> QED  BY <2>1
  <2> DEFINE g == [t \in SUBSET (1..(i + 1)) |-> New(f, t)]
  <2>3. \A t \in SUBSET (1..i) : t \in SUBSET (1..(i + 1)) /\ g[t] = f[t]
    <3>1. SUBSET (1..i) \subseteq SUBSET (1..(i + 1))
      BY <2>0
    <3> HIDE DEF New
    <3> QED  BY <2>2, <3>1
  <2>4. \A t \in SUBSET (1..(i + 1)) : t # {} => t \ {Max(t)} \in SUBSET (1..i)
    <3> SUFFICES ASSUME NEW t \in SUBSET (1..(i + 1)), t # {}
                 PROVE  t \ {Max(t)} \in SUBSET (1..i)
      OBVIOUS
    <3>1. Max(t) \in t /\ \A y \in t : Max(t) >= y
      BY <2>0, MaxIsIn
    <3>2. \A y \in t : y \in 1..(i + 1) /\ Max(t) >= y
      BY <3>1
    <3>3. Max(t) \in 1..(i + 1)
      BY <3>1
    <3>4. \A y \in t \ {Max(t)} : y \in 1..i
      BY <2>0, <3>2, <3>3
    <3> QED  BY <3>4
  <2>5. \A t \in SUBSET (1..(i + 1)) : New(f, t) = New(g, t)
    <3> HIDE DEF g
    <3> QED  BY <2>3, <2>4
  <2>6. g = [t \in SUBSET (1..(i + 1)) |-> New(g, t)]
    <3>1. DOMAIN g = SUBSET (1..(i + 1)) /\ \A t \in SUBSET (1..(i + 1)) : g[t] = New(g, t)
      <4> HIDE DEF New
      <4> QED  BY <2>5
    <3>2. g = [t \in SUBSET (1..(i + 1)) |-> g[t]]
      OBVIOUS
    <3> HIDE DEF New, g
    <3> QED  BY <3>1, <3>2
  <2> HIDE DEF g, New
  <2>7. Solves(g, i + 1)
    BY <2>6
  <2> HIDE DEF Solves
  <2> QED  BY <2>0, <2>7
<1> HIDE DEF T
<1>3. k \in T
  BY <1>1, <1>2, Counting, k \in 0..k
<1> QED  BY <1>3 DEF T, Folds

\* The fold of a sequence is the last of the values that the operator makes
\* one after the other of its elements.
Fold(kind, base, s) == (CHOOSE f : Folds(f, kind, base, s, Len(s)))[1..Len(s)]

LEMMA FoldPath ==
    ASSUME NEW kind, NEW base, NEW s, IsSequence(s)
    PROVE  \E h : /\ h[0] = base
                  /\ \A i \in 0..(Len(s) - 1) : h[i + 1] = Op(kind, h[i], s[i + 1])
                  /\ h[Len(s)] = Fold(kind, base, s)
<1> DEFINE k == Len(s)
           f == CHOOSE f : Folds(f, kind, base, s, k)
           h == [i \in 0..k |-> f[1..i]]
<1>0. k \in Nat
  BY SequenceFacts
<1>1. Folds(f, kind, base, s, k)
  BY <1>0, FoldsExists
<1> HIDE DEF f
<1>2. \A t \in SUBSET (1..k) : f[t] = IF t = {} THEN base ELSE Op(kind, f[t \ {Max(t)}], s[Max(t)])
  BY <1>1, Zenon DEF Folds
<1>3. h[0] = base
  <2>1. 1..0 = {} /\ 0 \in 0..k
    BY <1>0
  <2>2. f[{}] = base
    BY <1>2
  <2> QED  BY <2>1, <2>2
<1>4. ASSUME NEW i \in 0..(k - 1)
      PROVE  h[i + 1] = Op(kind, h[i], s[i + 1])
  <2>1. i + 1 \in Nat \ {0} /\ i + 1 - 1 = i /\ i \in 0..k /\ i + 1 \in 0..k
    BY <1>0
  <2>2. 1..(i + 1) \in SUBSET (1..k) /\ 1..(i + 1) # {}
    <3>1. 1 \in 1..(i + 1)
      BY <2>1
    <3>2. 1..(i + 1) \subseteq 1..k
      BY <1>0
    <3> QED  BY <3>1, <3>2
  <2>3. Max(1..(i + 1)) = i + 1 /\ (1..(i + 1)) \ {i + 1} = 1..(i + 1 - 1)
    BY <2>1, MaxOfPrefix
  <2>4. f[1..(i + 1)] = Op(kind, f[(1..(i + 1)) \ {Max(1..(i + 1))}], s[Max(1..(i + 1))])
    BY <1>2, <2>2
  <2>5. f[1..(i + 1)] = Op(kind, f[1..i], s[i + 1])
    BY <2>1, <2>3, <2>4
  <2> QED  BY <2>1, <2>5
<1>5. h[k] = Fold(kind, base, s)
  BY <1>0, k \in 0..k DEF Fold, f
<1> HIDE DEF h
<1> QED  BY <1>3, <1>4, <1>5

LEMMA FoldOfPorts ==
    ASSUME NEW s, IsSequence(s), NEW base
    PROVE  FoldLeft(AddPort, base, s) = Fold("port", base, s)
<1>1. DOMAIN s = 1..Len(s)
  BY SequenceFacts
<1>2. FoldLeft(AddPort, base, s) =
        (CHOOSE f : f = [t \in SUBSET DOMAIN s |->
           IF t = {} THEN base ELSE AddPort(f[t \ {Max(t)}], s[Max(t)])])[DOMAIN s]
  BY DEF FoldLeft, MapThenFoldSet
<1> QED  BY <1>1, <1>2 DEF Fold, Folds, Op

LEMMA FoldOfFlows ==
    ASSUME NEW s, IsSequence(s), NEW base
    PROVE  FoldLeft(AddInferred, base, s) = Fold("flow", base, s)
<1>1. DOMAIN s = 1..Len(s)
  BY SequenceFacts
<1>2. FoldLeft(AddInferred, base, s) =
        (CHOOSE f : f = [t \in SUBSET DOMAIN s |->
           IF t = {} THEN base ELSE AddInferred(f[t \ {Max(t)}], s[Max(t)])])[DOMAIN s]
  BY DEF FoldLeft, MapThenFoldSet
<1> QED  BY <1>1, <1>2 DEF Fold, Folds, Op

-------------------------------------------------------------------------------
(***************************************************************************)
(* The parser: what is kept of the records of a port when they are merged. *)
(***************************************************************************)

\* What records say, and by the scripts of which ids.
Said(R) == UNION {r.scripts : r \in R}
Ids(S) == {s.id : s \in S}

\* The record kept for port p of the records R: its state is one that was
\* reported, its scripts were all reported, and no id of a script is lost.
Kept(rec, p, R) ==
    /\ {"port", "state", "scripts"} \subseteq DOMAIN rec
    /\ rec.port = p
    /\ \E r \in R : r.state = rec.state
    /\ rec.scripts \subseteq Said(R)
    /\ Ids(Said(R)) \subseteq Ids(rec.scripts)

\* The ports of a host of which the records R were reported.
OfPort(R, p) == {r \in R : r.port = p}
Holds(ports, R) ==
    /\ DOMAIN ports = {r.port : r \in R}
    /\ \A p \in DOMAIN ports : Kept(ports[p], p, OfPort(R, p))

LEMMA SaidOfBoth ==
    ASSUME NEW R, NEW Q
    PROVE  Said(R \union Q) = Said(R) \union Said(Q)
BY DEF Said

LEMMA IdsOfBoth ==
    ASSUME NEW S, NEW T
    PROVE  Ids(S \union T) = Ids(S) \union Ids(T)
BY DEF Ids

\* The record that stays takes the scripts it has not.
LEMMA Absorb ==
    ASSUME NEW p, NEW R, NEW Q, NEW keep, NEW drop, Kept(keep, p, R), Kept(drop, p, Q)
    PROVE  Kept([keep EXCEPT !.scripts = @ \union {s \in drop.scripts : \A k \in @ : k.id # s.id}],
                p, R \union Q)
<1> DEFINE new == {s \in drop.scripts : \A k \in keep.scripts : k.id # s.id}
           m == [keep EXCEPT !.scripts = @ \union {s \in drop.scripts : \A k \in @ : k.id # s.id}]
<1>1. /\ DOMAIN m = DOMAIN keep /\ m.port = keep.port /\ m.state = keep.state
      /\ m.scripts = keep.scripts \union new
  BY DEF Kept
<1>2. Ids(drop.scripts) \subseteq Ids(keep.scripts) \union Ids(new)
  BY DEF Ids
<1>3. new \subseteq drop.scripts
  OBVIOUS
<1> HIDE DEF new, m
<1>4. m.scripts \subseteq Said(R \union Q)
  BY <1>1, <1>3, SaidOfBoth DEF Kept
<1>5. Ids(Said(R \union Q)) \subseteq Ids(m.scripts)
  <2>1. Ids(Said(R \union Q)) = Ids(Said(R)) \union Ids(Said(Q))
    BY SaidOfBoth, IdsOfBoth
  <2>2. Ids(m.scripts) = Ids(keep.scripts) \union Ids(new)
    BY <1>1, IdsOfBoth
  <2> QED  BY <1>2, <2>1, <2>2 DEF Kept
<1>6. Kept(m, p, R \union Q)
  BY <1>1, <1>4, <1>5 DEF Kept
<1> QED  BY <1>6 DEF m

LEMMA MergeKept ==
    ASSUME NEW p, NEW R, NEW Q, NEW old, NEW rec, Kept(old, p, R), Kept(rec, p, Q)
    PROVE  Kept(MergePort(old, rec), p, R \union Q)
<1>1. CASE Richness(rec) > Richness(old)
  <2>1. Kept([rec EXCEPT !.scripts = @ \union {s \in old.scripts : \A k \in @ : k.id # s.id}], p, Q \union R)
    BY Absorb
  <2>2. Q \union R = R \union Q
    OBVIOUS
  <2>3. MergePort(old, rec) = [rec EXCEPT !.scripts = @ \union {s \in old.scripts : \A k \in @ : k.id # s.id}]
    BY <1>1 DEF MergePort
  <2> QED  BY <2>1, <2>2, <2>3
<1>2. CASE ~(Richness(rec) > Richness(old))
  <2>1. Kept([old EXCEPT !.scripts = @ \union {s \in rec.scripts : \A k \in @ : k.id # s.id}], p, R \union Q)
    BY Absorb
  <2>3. MergePort(old, rec) = [old EXCEPT !.scripts = @ \union {s \in rec.scripts : \A k \in @ : k.id # s.id}]
    BY <1>2 DEF MergePort
  <2> QED  BY <2>1, <2>3
<1> QED  BY <1>1, <1>2

\* A record alone keeps itself.
LEMMA AloneKept ==
    ASSUME NEW rec, {"port", "state", "scripts"} \subseteq DOMAIN rec
    PROVE  Kept(rec, rec.port, {rec})
BY DEF Kept, Said, Ids

LEMMA OfPortOfBoth ==
    ASSUME NEW R, NEW Q, NEW p
    PROVE  OfPort(R \union Q, p) = OfPort(R, p) \union OfPort(Q, p)
BY DEF OfPort

LEMMA AddPortHolds ==
    ASSUME NEW ports, NEW R, Holds(ports, R),
           NEW rec, {"port", "state", "scripts"} \subseteq DOMAIN rec
    PROVE  Holds(AddPort(ports, rec), R \union {rec})
<1> DEFINE new == AddPort(ports, rec)
           mine == OfPort({rec}, rec.port)
<1>1. DOMAIN new = DOMAIN ports \union {rec.port}
  BY DEF AddPort, With
<1>2. \A p \in DOMAIN ports : p # rec.port => new[p] = ports[p]
  BY DEF AddPort, With
<1>3. mine = {rec} /\ \A p : p # rec.port => OfPort({rec}, p) = {}
  BY DEF OfPort
<1>4. Kept(new[rec.port], rec.port, OfPort(R, rec.port) \union {rec})
  <2>1. CASE rec.port \in DOMAIN ports
    <3>1. new[rec.port] = MergePort(ports[rec.port], rec)
      BY <2>1 DEF AddPort
    <3>2. Kept(ports[rec.port], rec.port, OfPort(R, rec.port))
      BY <2>1 DEF Holds
    <3>3. Kept(rec, rec.port, {rec})
      BY AloneKept
    <3>4. Kept(MergePort(ports[rec.port], rec), rec.port, OfPort(R, rec.port) \union {rec})
      BY <3>2, <3>3, MergeKept
    <3> QED  BY <3>1, <3>4
  <2>2. CASE rec.port \notin DOMAIN ports
    <3>1. new[rec.port] = rec
      BY <2>2 DEF AddPort, With
    <3>2. OfPort(R, rec.port) = {}
      BY <2>2 DEF Holds, OfPort
    <3>3. OfPort(R, rec.port) \union {rec} = {rec}
      BY <3>2
    <3> QED  BY <3>1, <3>3, AloneKept
  <2> QED  BY <2>1, <2>2
<1> HIDE DEF new
<1>5. ASSUME NEW p \in DOMAIN new
      PROVE  Kept(new[p], p, OfPort(R \union {rec}, p))
  <2>1. CASE p = rec.port
    <3>1. OfPort(R \union {rec}, rec.port) = OfPort(R, rec.port) \union OfPort({rec}, rec.port)
      BY OfPortOfBoth
    <3> QED  BY <1>3, <1>4, <2>1, <3>1
  <2>2. CASE p # rec.port
    <3>1. p \in DOMAIN ports /\ new[p] = ports[p]
      BY <1>1, <1>2, <2>2
    <3>2. OfPort(R \union {rec}, p) = OfPort(R, p)
      <4>1. OfPort(R \union {rec}, p) = OfPort(R, p) \union OfPort({rec}, p)
        BY OfPortOfBoth
      <4> QED  BY <1>3, <2>2, <4>1
    <3> QED  BY <3>1, <3>2 DEF Holds
  <2> QED  BY <2>1, <2>2
<1>6. DOMAIN new = {r.port : r \in R \union {rec}}
  BY <1>1 DEF Holds
<1> QED  BY <1>5, <1>6 DEF Holds, new

LEMMA MergeHostHolds ==
    ASSUME NEW base, NEW extra, NEW R, NEW Q, Holds(base.ports, R), Holds(extra.ports, Q)
    PROVE  Holds(MergeHost(base, extra).ports, R \union Q)
<1> DEFINE new == MergeHost(base, extra).ports
<1>1. new = [p \in DOMAIN base.ports \union DOMAIN extra.ports |->
                  CASE p \notin DOMAIN extra.ports -> base.ports[p]
                    [] p \notin DOMAIN base.ports -> extra.ports[p]
                    [] OTHER -> MergePort(base.ports[p], extra.ports[p])]
  BY DEF MergeHost
<1>2. DOMAIN new = {r.port : r \in R \union Q}
  BY <1>1 DEF Holds
<1> HIDE DEF new
<1>3. ASSUME NEW p \in DOMAIN new
      PROVE  Kept(new[p], p, OfPort(R \union Q, p))
  <2>0. OfPort(R \union Q, p) = OfPort(R, p) \union OfPort(Q, p)
    BY OfPortOfBoth
  <2>1. CASE p \notin DOMAIN extra.ports
    <3>1. new[p] = base.ports[p] /\ p \in DOMAIN base.ports
      BY <1>1, <2>1
    <3>2. OfPort(Q, p) = {}
      BY <2>1 DEF Holds, OfPort
    <3>3. OfPort(R \union Q, p) = OfPort(R, p)
      BY <2>0, <3>2
    <3> QED  BY <3>1, <3>3 DEF Holds
  <2>2. CASE p \in DOMAIN extra.ports /\ p \notin DOMAIN base.ports
    <3>1. new[p] = extra.ports[p]
      BY <1>1, <2>2
    <3>2. OfPort(R, p) = {}
      BY <2>2 DEF Holds, OfPort
    <3>3. OfPort(R \union Q, p) = OfPort(Q, p)
      BY <2>0, <3>2
    <3> QED  BY <2>2, <3>1, <3>3 DEF Holds
  <2>3. CASE p \in DOMAIN extra.ports /\ p \in DOMAIN base.ports
    <3>1. new[p] = MergePort(base.ports[p], extra.ports[p])
      BY <1>1, <2>3
    <3>2. Kept(base.ports[p], p, OfPort(R, p)) /\ Kept(extra.ports[p], p, OfPort(Q, p))
      BY <2>3 DEF Holds
    <3>3. Kept(MergePort(base.ports[p], extra.ports[p]), p, OfPort(R, p) \union OfPort(Q, p))
      BY <3>2, MergeKept
    <3> QED  BY <2>0, <3>1, <3>3
  <2> QED  BY <2>1, <2>2, <2>3
<1> QED  BY <1>2, <1>3 DEF Holds, new

LEMMA NothingHolds == Holds(<<>>, {})
BY DEF Holds

\* The ports of a host element.
LEMMA BuildHostHolds ==
    ASSUME NEW element, IsSequence(element.ports),
           \A r \in ToSet(element.ports) : {"port", "state", "scripts"} \subseteq DOMAIN r
    PROVE  Holds(BuildHost(element).ports, ToSet(element.ports))
<1> DEFINE s == element.ports
           k == Len(s)
<1>0. k \in Nat /\ DOMAIN s = 1..k
  BY SequenceFacts
<1>1. BuildHost(element).ports = Fold("port", <<>>, s)
  BY FoldOfPorts DEF BuildHost
<1>2. PICK h : /\ h[0] = <<>> /\ \A i \in 0..(k - 1) : h[i + 1] = Op("port", h[i], s[i + 1])
               /\ h[k] = Fold("port", <<>>, s)
  BY FoldPath
<1> DEFINE First(i) == {s[j] : j \in 1..i}
           T == {i \in 0..k : Holds(h[i], First(i))}
<1>3. 0 \in T
  <2>1. First(0) = {} /\ 0 \in 0..k
    BY <1>0
  <2> HIDE DEF First
  <2> QED  BY <1>2, <2>1, NothingHolds
<1>4. ASSUME NEW i \in 0..(k - 1), i \in T
      PROVE  i + 1 \in T
  <2>1. i \in Nat /\ i + 1 \in 1..k /\ i + 1 \in 0..k /\ 1..(i + 1) = (1..i) \union {i + 1}
    BY <1>0
  <2>2. First(i + 1) = First(i) \union {s[i + 1]}
    BY <2>1
  <2>3. {"port", "state", "scripts"} \subseteq DOMAIN s[i + 1]
    BY <1>0, <2>1, SequenceFacts
  <2>4. h[i + 1] = AddPort(h[i], s[i + 1])
    BY <1>2 DEF Op
  <2> HIDE DEF First, s, k
  <2>5. Holds(h[i + 1], First(i) \union {s[i + 1]})
    BY <1>4, <2>3, <2>4, AddPortHolds
  <2> QED  BY <2>1, <2>2, <2>5
<1>5. k \in T
  <2> HIDE DEF T, s, k
  <2> QED  BY <1>0, <1>3, <1>4, Counting, k \in 0..k
<1>6. First(k) = ToSet(s)
  BY <1>0 DEF ToSet
<1> QED  BY <1>1, <1>2, <1>5, <1>6

-------------------------------------------------------------------------------
(***************************************************************************)
(* The invariant, in parts.                                                *)
(***************************************************************************)

InputsInv == scan \in Scans /\ config \in Configs /\ phase \in Phases /\ n \in Nat

\* How much of the report, of the inventory and of the flows is done with.
ReadElements == IF phase = "parse" THEN n ELSE Len(scan)
SeenRecords == CASE phase = "parse" -> 0 [] phase = "observe" -> n [] OTHER -> Len(records)
SeenFlows == CASE phase = "dedupe" -> n [] phase = "done" -> Len(flows) [] OTHER -> 0

\* The hosts are those of the elements read, and hold what these report.
ReportedOf(a, k) == UNION {ToSet(scan[i].ports) : i \in {j \in 1..k : scan[j].ip = a}}
AllRead == \A a \in ToSet(AddressOrder) \ {NoAddress} :
               a \notin DOMAIN hosts => \A i \in 1..ReadElements : scan[i].ip # a
HostsInv ==
    /\ DOMAIN hosts \subseteq ToSet(AddressOrder) \ {NoAddress}
    /\ \A a \in DOMAIN hosts : Holds(hosts[a].ports, ReportedOf(a, ReadElements))
    /\ AllRead

\* The inventory has the record of every port of every host and no other.
RecordOf(a, p) == ServiceRecord(config, a, hosts[a], hosts[a].ports[p])
EveryPort == \A a \in DOMAIN hosts : \A p \in DOMAIN hosts[a].ports : RecordOf(a, p) \in ToSet(records)
OnlyPorts == \A sr \in ToSet(records) :
                \E a \in DOMAIN hosts : \E p \in DOMAIN hosts[a].ports : sr = RecordOf(a, p)
RecordsInv ==
    /\ IsSequence(records)
    /\ IF phase = "parse" THEN records = <<>> ELSE EveryPort /\ OnlyPorts

\* A flow, or what it has become by merging others into it, and its ground.
Fields == {"source", "destination", "port", "direction", "evidence", "confidence",
           "reason", "risk", "scripts", "purpose"}
WellFormed(f) == Fields \subseteq DOMAIN f /\ f.evidence \in DOMAIN Priority /\ f.confidence \in Int

FromOpen(f, sr) ==
    /\ sr.state = "open" /\ f.evidence = "Observed"
    /\ Key(f) = <<Scanner, sr.ip, sr.port, "inbound">>
    /\ f.reason = OpenReason(sr) /\ f.risk = sr.risk /\ sr.scripts \subseteq f.scripts

FromUncertain(f, sr) ==
    /\ sr.state = "open|filtered" /\ config.openFiltered
    /\ f.evidence = "Manual Review Required"
    /\ Key(f) = <<Scanner, sr.ip, sr.port, "inbound">> /\ f.reason # ""

FromDeclaration(f) == f.evidence = "User-Defined" /\ Declared(f.source, f.destination, f.port)

FromRole(f) ==
    /\ f.evidence = "Inferred" /\ f.direction = "outbound"
    /\ config.infer /\ f.source \in DOMAIN hosts \ {config.scanner, f.destination}
    /\ \E name \in DOMAIN InfraKey :
         /\ config.categories[name].enabled
         /\ InfraKey[name] \in DOMAIN config.infra
         /\ f.destination \in ToSet(config.infra[InfraKey[name]])
    /\ f.confidence < config.threshold => f.reason # ""

Grounded(f) ==
    /\ WellFormed(f)
    /\ \/ \E sr \in ToSet(records) : FromOpen(f, sr)
       \/ \E sr \in ToSet(records) : FromUncertain(f, sr)
       \/ FromDeclaration(f)
       \/ FromRole(f)

FlowsInv ==
    /\ IsSequence(flows)
    /\ phase = "parse" => flows = <<>>
    /\ \A f \in ToSet(flows) : Grounded(f)

\* Every record that was looked at has had its effect.
Treated(sr) ==
    /\ sr.state = "open" => \E f \in ToSet(flows) : FromOpen(f, sr)
    /\ (sr.state = "open|filtered" /\ config.openFiltered) => \E f \in ToSet(flows) : FromUncertain(f, sr)
    /\ sr.state = "open|filtered" => Review("Uncertain port state", <<sr.ip, sr.port>>) \in reviews
TreatedInv == \A i \in 1..SeenRecords : Treated(records[i])

\* No two inferred flows have one key.
Triple(f) == <<f.source, f.destination, f.port>>
Once(fs, triples) ==
    \A i \in 1..Len(fs) : fs[i].evidence = "Inferred" =>
        /\ Triple(fs[i]) \in triples
        /\ \A j \in 1..Len(fs) : fs[j].evidence = "Inferred" /\ Triple(fs[j]) = Triple(fs[i]) => i = j
OnceInv == Once(flows, emitted)

\* The best flows so far.
Beaten(f, b) ==
    /\ Key(b) = Key(f) /\ ~Higher(Rank(f), Rank(b))
    /\ f.scripts \subseteq b.scripts /\ (f.purpose # "" => b.purpose # "")
BestInv ==
    /\ phase = "dedupe" => n <= Len(flows)
    /\ DOMAIN best = {Key(flows[i]) : i \in 1..SeenFlows}
    /\ \A k \in DOMAIN best : Grounded(best[k])
    /\ \A i \in 1..SeenFlows : Beaten(flows[i], best[Key(flows[i])])

Inv == InputsInv /\ HostsInv /\ RecordsInv /\ FlowsInv /\ TreatedInv /\ OnceInv /\ BestInv

-------------------------------------------------------------------------------
(***************************************************************************)
(* The steps.  Those that end a loop, like the cross-references, leave the *)
(* invariant's state alone.                                                *)
(***************************************************************************)

Quiet ==
    /\ UNCHANGED <<scan, config, hosts, records, flows, emitted, best>>
    /\ reviews \subseteq reviews'
    /\ phase # "parse" /\ phase' # "parse"
    /\ SeenRecords' = SeenRecords /\ SeenFlows' = SeenFlows
    /\ phase' = "dedupe" => n' <= Len(flows)

LEMMA QuietSteps ==
    ASSUME FlowsInv,
           \/ ToDefinitions \/ ToExpectations \/ ToInference \/ ToCrossReferences
           \/ CrossReference \/ ToMerging \/ Finish
    PROVE  Quiet
<1>0. Len(flows) \in Nat
  BY SequenceFacts DEF FlowsInv
<1>1. CASE ToDefinitions
  BY <1>1 DEF ToDefinitions, Leave, inputs, Quiet, SeenRecords, SeenFlows
<1>2. CASE ToExpectations
  BY <1>2 DEF ToExpectations, Leave, inputs, Quiet, SeenRecords, SeenFlows
<1>3. CASE ToInference
  BY <1>3 DEF ToInference, Leave, inputs, Quiet, SeenRecords, SeenFlows
<1>4. CASE ToCrossReferences
  BY <1>4 DEF ToCrossReferences, Leave, inputs, Quiet, SeenRecords, SeenFlows
<1>5. CASE CrossReference
  BY <1>5 DEF CrossReference, In, inputs, Quiet, SeenRecords, SeenFlows
<1>6. CASE ToMerging
  BY <1>0, <1>6 DEF ToMerging, Leave, inputs, Quiet, SeenRecords, SeenFlows
<1>7. CASE Finish
  BY <1>7 DEF Finish, Leave, inputs, Quiet, SeenRecords, SeenFlows
<1> QED  BY <1>1, <1>2, <1>3, <1>4, <1>5, <1>6, <1>7

\* What is said of the inventory and of flows, and does not change after
\* the hosts are enriched.
LEMMA SameRecords ==
    ASSUME UNCHANGED <<scan, config, hosts, records>>, phase # "parse", phase' # "parse", RecordsInv
    PROVE  RecordsInv'
<1>1. \A a, p : RecordOf(a, p)' = RecordOf(a, p)
  BY DEF RecordOf
<1> QED  BY <1>1 DEF RecordsInv, EveryPort, OnlyPorts

LEMMA SameGround ==
    ASSUME UNCHANGED <<scan, config, hosts, records>>, NEW f, Grounded(f)
    PROVE  Grounded(f)'
BY DEF Grounded, FromOpen, FromUncertain, FromDeclaration, FromRole, Scanner, Declared, OpenReason,
       ZoneConflict, Configured, Key

LEMMA InputsStep == InputsInv /\ [Next]_vars => InputsInv'
<1> SUFFICES ASSUME InputsInv, [Next]_vars
             PROVE  InputsInv'
  OBVIOUS
<1> USE DEF InputsInv, Leave, inputs, Phases
<1>1. CASE Parse
  BY <1>1 DEF Parse, In
<1>2. CASE Enrich
  BY <1>2 DEF Enrich
<1>3. CASE Observe
  <2>1. In("observe", records)
    BY <1>3, Zenon DEF Observe
  <2> QED  BY <2>1 DEF In
<1>4. CASE ToDefinitions
  BY <1>4 DEF ToDefinitions
<1>5. CASE Define
  BY <1>5 DEF Define, In
<1>6. CASE ToExpectations
  BY <1>6 DEF ToExpectations
<1>7. CASE Expect
  <2>1. In("expect", ConfiguredHosts)
    BY <1>7, Zenon DEF Expect
  <2> QED  BY <2>1 DEF In
<1>8. CASE ToInference
  BY <1>8 DEF ToInference
<1>9. CASE Infer
  <2>1. In("infer", InferenceLoop)
    BY <1>9, Zenon DEF Infer
  <2> QED  BY <2>1 DEF In
<1>10. CASE ToCrossReferences
  BY <1>10 DEF ToCrossReferences
<1>11. CASE CrossReference
  <2>1. In("crossref", Known)
    BY <1>11, Zenon DEF CrossReference
  <2> QED  BY <2>1 DEF In
<1>12. CASE ToMerging
  BY <1>12 DEF ToMerging
<1>13. CASE Dedupe
  BY <1>13 DEF Dedupe, In
<1>14. CASE Finish
  BY <1>14 DEF Finish
<1>15. CASE UNCHANGED vars
  BY <1>15 DEF vars
<1> QED  BY <1>1, <1>2, <1>3, <1>4, <1>5, <1>6, <1>7, <1>8, <1>9, <1>10, <1>11, <1>12, <1>13, <1>14, <1>15 DEF Next

\* The elements of the report, as the assumptions describe them.
LEMMA ScanFacts ==
    ASSUME InputsInv
    PROVE  /\ IsSequence(scan) /\ Len(scan) \in Nat
           /\ \A i \in 1..Len(scan) :
                /\ scan[i].ip \in ToSet(AddressOrder) \union {NoAddress}
                /\ IsSequence(scan[i].ports)
                /\ \A r \in ToSet(scan[i].ports) :
                     /\ {"port", "state", "scripts"} \subseteq DOMAIN r
                     /\ r.port \in ToSet(PortOrder)
                     /\ \A t \in r.scripts : t.verdict \in DOMAIN Verdict
<1>1. IsSequence(scan) /\ \A e \in ToSet(scan) :
        /\ e.ip \in ToSet(AddressOrder) \union {NoAddress}
        /\ IsSequence(e.ports)
        /\ \A r \in ToSet(e.ports) :
             /\ {"port", "state", "scripts"} \subseteq DOMAIN r
             /\ r.port \in ToSet(PortOrder)
             /\ \A t \in r.scripts : t.verdict \in DOMAIN Verdict
  BY ScansAssumption DEF InputsInv
<1>2. Len(scan) \in Nat /\ \A i \in 1..Len(scan) : scan[i] \in ToSet(scan)
  BY <1>1, SequenceFacts
<1> QED  BY <1>1, <1>2

\* One element more is what was reported before, and its own ports if it is
\* of the host.
LEMMA ReportedStep ==
    ASSUME NEW k \in Nat, NEW a
    PROVE  ReportedOf(a, k + 1) =
             ReportedOf(a, k) \union (IF scan[k + 1].ip = a THEN ToSet(scan[k + 1].ports) ELSE {})
<1>1. 1..(k + 1) = (1..k) \union {k + 1}
  OBVIOUS
<1>2. CASE scan[k + 1].ip = a
  <2>1. {j \in 1..(k + 1) : scan[j].ip = a} = {j \in 1..k : scan[j].ip = a} \union {k + 1}
    BY <1>1, <1>2
  <2> QED  BY <1>2, <2>1 DEF ReportedOf
<1>3. CASE scan[k + 1].ip # a
  <2>1. {j \in 1..(k + 1) : scan[j].ip = a} = {j \in 1..k : scan[j].ip = a}
    BY <1>1, <1>3
  <2> QED  BY <1>3, <2>1 DEF ReportedOf
<1> QED  BY <1>2, <1>3

LEMMA ParseStep == InputsInv /\ HostsInv /\ Parse => HostsInv'
<1> SUFFICES ASSUME InputsInv, HostsInv, Parse
             PROVE  HostsInv'
  OBVIOUS
<1> DEFINE e == scan[n + 1]
           built == BuildHost(e)
<1>1. /\ phase = "parse" /\ phase' = "parse" /\ n < Len(scan) /\ n' = n + 1 /\ scan' = scan
      /\ hosts' = ParseHost(hosts, e)
  BY DEF Parse, In, inputs
<1>2. n \in Nat /\ n + 1 \in 1..Len(scan) /\ Len(scan) \in Nat
  BY <1>1, ScanFacts DEF InputsInv
<1>3. ReadElements = n /\ ReadElements' = n + 1
  BY <1>1 DEF ReadElements
<1>5. /\ e.ip \in ToSet(AddressOrder) \union {NoAddress}
      /\ Holds(built.ports, ToSet(e.ports))
  BY <1>2, ScanFacts, BuildHostHolds
<1> DEFINE old(a) == ReportedOf(a, n)
           new(a) == ReportedOf(a, n + 1)
<1>4. DOMAIN hosts' \subseteq ToSet(AddressOrder) \ {NoAddress}
  BY <1>1, <1>5 DEF ParseHost, With, HostsInv
<1>6. \A a : new(a) = old(a) \union (IF e.ip = a THEN ToSet(e.ports) ELSE {})
  BY <1>2, ReportedStep
<1>7. \A a \in DOMAIN hosts : Holds(hosts[a].ports, old(a))
  BY <1>3 DEF HostsInv
<1>8. \A a \in ToSet(AddressOrder) \ {NoAddress} : a \notin DOMAIN hosts => \A i \in 1..n : scan[i].ip # a
  BY <1>3 DEF HostsInv, AllRead
<1>9. \A a \in ToSet(AddressOrder) \ {NoAddress} : a \notin DOMAIN hosts => old(a) = {}
  BY <1>8 DEF ReportedOf
<1> HIDE DEF e, built, old, new
<1>10. ASSUME NEW a \in DOMAIN hosts'
       PROVE  Holds(hosts'[a].ports, new(a))
  <2>1. CASE e.ip # a
    <3>1. a \in DOMAIN hosts /\ hosts'[a] = hosts[a]
      BY <1>1, <1>10, <2>1 DEF ParseHost, With
    <3>2. new(a) = old(a)
      BY <1>6, <2>1
    <3> QED  BY <1>7, <3>1, <3>2
  <2>2. CASE e.ip = a /\ e.ip = NoAddress
    BY <1>4, <1>10, <2>2
  <2>3. CASE e.ip = a /\ e.ip # NoAddress /\ a \in DOMAIN hosts
    <3>1. hosts'[a] = MergeHost(hosts[a], built)
      BY <1>1, <2>3 DEF ParseHost, built
    <3>2. Holds(hosts'[a].ports, old(a) \union ToSet(e.ports))
      BY <1>5, <1>7, <2>3, <3>1, MergeHostHolds
    <3> QED  BY <1>6, <2>3, <3>2
  <2>4. CASE e.ip = a /\ e.ip # NoAddress /\ a \notin DOMAIN hosts
    <3>1. hosts'[a] = built
      BY <1>1, <2>4 DEF ParseHost, built, With
    <3>2. a \in ToSet(AddressOrder) \ {NoAddress}
      BY <1>5, <2>4
    <3>3. new(a) = ToSet(e.ports)
      BY <1>6, <1>9, <2>4, <3>2
    <3> QED  BY <1>5, <3>1, <3>3
  <2> QED  BY <2>1, <2>2, <2>3, <2>4
<1>12. ASSUME NEW a \in ToSet(AddressOrder) \ {NoAddress}, a \notin DOMAIN hosts', NEW i \in 1..(n + 1)
       PROVE  scan[i].ip # a
  <2>1. a \notin DOMAIN hosts /\ e.ip # a
    BY <1>1, <1>12 DEF ParseHost, With
  <2>2. i \in 1..n \/ i = n + 1
    BY <1>2
  <2> QED  BY <1>8, <2>1, <2>2 DEF e
<1> QED
  <2>1. AllRead'
    BY <1>1, <1>3, <1>12 DEF AllRead
  <2>2. \A a \in DOMAIN hosts' : Holds(hosts'[a].ports, ReportedOf(a, ReadElements)')
    <3> SUFFICES ASSUME NEW a \in DOMAIN hosts'
                 PROVE  Holds(hosts'[a].ports, ReportedOf(a, ReadElements)')
      OBVIOUS
    <3>1. ReportedOf(a, ReadElements)' = new(a)
      BY <1>1, <1>3 DEF new, ReportedOf
    <3> QED  BY <1>10, <3>1
  <2> QED  BY <1>4, <2>1, <2>2 DEF HostsInv

LEMMA HostsStay ==
    ASSUME HostsInv, scan' = scan, ReadElements' = ReadElements,
           DOMAIN hosts' = DOMAIN hosts, \A a \in DOMAIN hosts : hosts'[a].ports = hosts[a].ports
    PROVE  HostsInv'
<1>1. AllRead'
  BY DEF HostsInv, AllRead
<1>2. \A a \in DOMAIN hosts' : Holds(hosts'[a].ports, ReportedOf(a, ReadElements)')
  <2> SUFFICES ASSUME NEW a \in DOMAIN hosts'
               PROVE  Holds(hosts'[a].ports, ReportedOf(a, ReadElements)')
    OBVIOUS
  <2>1. ReportedOf(a, ReadElements)' = ReportedOf(a, ReadElements)
    BY DEF ReportedOf
  <2> QED  BY <2>1 DEF HostsInv
<1> QED  BY <1>1, <1>2 DEF HostsInv

LEMMA EnrichedHosts ==
    ASSUME Enrich
    PROVE  /\ phase = "parse" /\ phase' = "observe" /\ n' = 0 /\ n = Len(scan)
           /\ UNCHANGED <<scan, config, flows, emitted, best>>
           /\ DOMAIN hosts' = DOMAIN hosts /\ \A a \in DOMAIN hosts : hosts'[a].ports = hosts[a].ports
           /\ records' = Inventory(hosts')
<1>1. /\ Leave("parse", "observe", scan) /\ hosts' = [a \in DOMAIN hosts |-> Enriched(a, hosts[a])]
      /\ records' = Inventory(hosts') /\ UNCHANGED <<flows, emitted, best>>
  BY Zenon DEF Enrich
<1>2. \A a : Enriched(a, hosts[a]).ports = hosts[a].ports
  BY DEF Enriched
<1> QED  BY <1>1, <1>2 DEF Leave, inputs

LEMMA EnrichStep == InputsInv /\ HostsInv /\ Enrich => HostsInv'
<1> SUFFICES ASSUME InputsInv, HostsInv, Enrich
             PROVE  HostsInv'
  OBVIOUS
<1>1. ReadElements' = ReadElements
  BY EnrichedHosts DEF ReadElements
<1> QED  BY <1>1, EnrichedHosts, HostsStay

\* A host's ports are ports of the order.
LEMMA PortsAreOrdered ==
    ASSUME InputsInv, HostsInv, ReadElements <= Len(scan), NEW a \in DOMAIN hosts
    PROVE  DOMAIN hosts[a].ports \subseteq ToSet(PortOrder)
<1>0. ReadElements \in Nat
  BY ScanFacts DEF ReadElements, InputsInv
<1>1. ASSUME NEW r \in ReportedOf(a, ReadElements)
      PROVE  r.port \in ToSet(PortOrder)
  <2>1. PICK i \in 1..ReadElements : r \in ToSet(scan[i].ports)
    BY DEF ReportedOf
  <2>2. i \in 1..Len(scan)
    BY <1>0, ScanFacts
  <2> QED  BY <2>1, <2>2, ScanFacts
<1> QED  BY <1>1 DEF HostsInv, Holds

LEMMA KnownFacts ==
    ASSUME DOMAIN hosts \subseteq ToSet(AddressOrder)
    PROVE  IsSequence(Known) /\ ToSet(Known) = DOMAIN hosts
<1>1. IsSequence(Among(AddressOrder, DOMAIN hosts))
      /\ ToSet(Among(AddressOrder, DOMAIN hosts)) = ToSet(AddressOrder) \intersect DOMAIN hosts
  BY OrdersAssumption, AmongFacts
<1> QED  BY <1>1 DEF Known

LEMMA InventoryFacts ==
    ASSUME DOMAIN hosts \subseteq ToSet(AddressOrder),
           NEW known, \A a \in DOMAIN hosts : DOMAIN known[a].ports \subseteq ToSet(PortOrder)
    PROVE  /\ IsSequence(Inventory(known))
           /\ \A a \in DOMAIN hosts : \A p \in DOMAIN known[a].ports :
                ServiceRecord(config, a, known[a], known[a].ports[p]) \in ToSet(Inventory(known))
           /\ \A sr \in ToSet(Inventory(known)) : \E a \in DOMAIN hosts : \E p \in DOMAIN known[a].ports :
                sr = ServiceRecord(config, a, known[a], known[a].ports[p])
<1> DEFINE ports(a) == Among(PortOrder, DOMAIN known[a].ports)
           record(a, p) == ServiceRecord(config, a, known[a], known[a].ports[p])
           service(a) == [i \in DOMAIN ports(a) |-> record(a, ports(a)[i])]
           ss == [i \in DOMAIN Known |-> service(Known[i])]
<1>0. IsSequence(AddressOrder) /\ IsSequence(PortOrder)
  BY OrdersAssumption
<1>1. IsSequence(Known) /\ ToSet(Known) = DOMAIN hosts
  BY KnownFacts
<1>2. \A a \in DOMAIN hosts : IsSequence(ports(a)) /\ ToSet(ports(a)) = DOMAIN known[a].ports
  <2> SUFFICES ASSUME NEW a \in DOMAIN hosts
               PROVE  IsSequence(ports(a)) /\ ToSet(ports(a)) = DOMAIN known[a].ports
    OBVIOUS
  <2>1. IsSequence(ports(a)) /\ ToSet(ports(a)) = ToSet(PortOrder) \intersect DOMAIN known[a].ports
    BY <1>0, AmongFacts
  <2> HIDE DEF ports
  <2> QED  BY <2>1
<1>3. Inventory(known) = FlattenSeq(ss)
  BY DEF Inventory
<1> HIDE DEF ports, record
<1>4. ASSUME NEW a \in DOMAIN hosts
      PROVE  IsSequence(service(a)) /\ ToSet(service(a)) = {record(a, p) : p \in DOMAIN known[a].ports}
  <2>1. DOMAIN ports(a) = 1..Len(ports(a)) /\ Len(ports(a)) \in Nat
    BY <1>2, SequenceFacts
  <2>2. service(a) = [i \in 1..Len(ports(a)) |-> service(a)[i]]
    BY <2>1
  <2>3. IsSequence(service(a))
    <3> HIDE DEF service
    <3> QED  BY <2>1, <2>2, FunctionIsSequence
  <2>4. ToSet(service(a)) = {record(a, ports(a)[i]) : i \in DOMAIN ports(a)}
    BY DEF ToSet
  <2>5. ToSet(ports(a)) = {ports(a)[i] : i \in DOMAIN ports(a)}
    BY DEF ToSet
  <2> QED  BY <1>2, <2>3, <2>4, <2>5
<1>5. IsSequence(ss) /\ Len(ss) = Len(Known) /\ Len(Known) \in Nat /\ DOMAIN Known = 1..Len(Known)
  <2>1. DOMAIN Known = 1..Len(Known) /\ Len(Known) \in Nat
    BY <1>1, SequenceFacts
  <2>2. ss = [i \in 1..Len(Known) |-> ss[i]]
    BY <2>1
  <2> HIDE DEF ss
  <2> QED  BY <2>1, <2>2, FunctionIsSequence
<1>6. \A i \in 1..Len(Known) : Known[i] \in DOMAIN hosts /\ ss[i] = service(Known[i])
  BY <1>1, <1>5, SequenceFacts
<1> HIDE DEF ss
<1>7. \A i \in 1..Len(ss) : IsSequence(ss[i]) /\ ToSet(ss[i]) = {record(Known[i], p) : p \in DOMAIN known[Known[i]].ports}
  <2> HIDE DEF service
  <2> QED  BY <1>4, <1>5, <1>6
<1>8. IsSequence(FlattenSeq(ss)) /\ ToSet(FlattenSeq(ss)) = UNION {ToSet(ss[i]) : i \in 1..Len(ss)}
  BY <1>5, <1>7, Flattened
<1>9. ASSUME NEW a \in DOMAIN hosts, NEW p \in DOMAIN known[a].ports
      PROVE  record(a, p) \in ToSet(FlattenSeq(ss))
  <2>1. PICK i \in 1..Len(Known) : Known[i] = a
    BY <1>1, SequenceFacts
  <2> QED  BY <1>5, <1>7, <1>8, <2>1
<1>10. ASSUME NEW sr \in ToSet(FlattenSeq(ss))
       PROVE  \E a \in DOMAIN hosts : \E p \in DOMAIN known[a].ports : sr = record(a, p)
  <2>1. PICK i \in 1..Len(ss) : sr \in ToSet(ss[i])
    BY <1>8
  <2>2. i \in 1..Len(Known) /\ sr \in {record(Known[i], p) : p \in DOMAIN known[Known[i]].ports}
    BY <1>5, <1>7, <2>1
  <2>3. PICK p \in DOMAIN known[Known[i]].ports : sr = record(Known[i], p)
    BY <2>2
  <2> QED  BY <1>6, <2>2, <2>3
<1> QED  BY <1>3, <1>8, <1>9, <1>10 DEF record

LEMMA ListStep == InputsInv /\ HostsInv /\ Enrich => RecordsInv'
<1> SUFFICES ASSUME InputsInv, HostsInv, Enrich
             PROVE  RecordsInv'
  OBVIOUS
<1>1. /\ phase = "parse" /\ phase' = "observe" /\ n = Len(scan) /\ config' = config
      /\ DOMAIN hosts' = DOMAIN hosts /\ \A a \in DOMAIN hosts : hosts'[a].ports = hosts[a].ports
      /\ records' = Inventory(hosts')
  BY EnrichedHosts
<1>2. ReadElements <= Len(scan)
  BY <1>1, ScanFacts DEF ReadElements
<1>3. \A a \in DOMAIN hosts : DOMAIN hosts'[a].ports \subseteq ToSet(PortOrder)
  BY <1>1, <1>2, PortsAreOrdered
<1>4. DOMAIN hosts \subseteq ToSet(AddressOrder)
  BY DEF HostsInv
<1>5. /\ IsSequence(Inventory(hosts'))
      /\ \A a \in DOMAIN hosts : \A p \in DOMAIN hosts'[a].ports :
           ServiceRecord(config, a, hosts'[a], hosts'[a].ports[p]) \in ToSet(Inventory(hosts'))
      /\ \A sr \in ToSet(Inventory(hosts')) : \E a \in DOMAIN hosts : \E p \in DOMAIN hosts'[a].ports :
           sr = ServiceRecord(config, a, hosts'[a], hosts'[a].ports[p])
  BY <1>3, <1>4, InventoryFacts
<1>6. EveryPort' /\ OnlyPorts'
  BY <1>1, <1>5 DEF EveryPort, OnlyPorts, RecordOf
<1> QED  BY <1>1, <1>5, <1>6 DEF RecordsInv

-------------------------------------------------------------------------------
(***************************************************************************)
(* The flows, as they are made.                                            *)
(***************************************************************************)

LEMMA PriorityFacts ==
    /\ DOMAIN Priority = {"Observed", "User-Defined", "Inferred", "Manual Review Required", "Unknown"}
    /\ Priority["Observed"] = 4 /\ Priority["User-Defined"] = 3 /\ Priority["Inferred"] = 2
    /\ Priority["Manual Review Required"] = 1 /\ Priority["Unknown"] = 0
    /\ \A e \in DOMAIN Priority : Priority[e] \in 0..4
<1>1. /\ DOMAIN Priority = {"Observed", "User-Defined", "Inferred", "Manual Review Required", "Unknown"}
      /\ Priority["Observed"] = 4 /\ Priority["User-Defined"] = 3 /\ Priority["Inferred"] = 2
      /\ Priority["Manual Review Required"] = 1 /\ Priority["Unknown"] = 0
  BY DEF Priority
<1>2. 0 \in 0..4 /\ 1 \in 0..4 /\ 2 \in 0..4 /\ 3 \in 0..4 /\ 4 \in 0..4
  OBVIOUS
<1> QED  BY <1>1, <1>2

\* The composed evidence is all that finalizing changes.
LEMMA FinalizeFacts ==
    ASSUME NEW f, Fields \subseteq DOMAIN f, NEW a
    PROVE  LET g == FinalizeEvidence(f, a)
           IN /\ DOMAIN g = DOMAIN f
              /\ \A x \in Fields : g[x] = f[x]
BY DEF FinalizeEvidence, Fields

LEMMA OpenFlowFacts ==
    ASSUME NEW sr, sr.state = "open"
    PROVE  WellFormed(OpenFlow(sr)) /\ FromOpen(OpenFlow(sr), sr)
<1> DEFINE f == [source |-> Scanner, destination |-> sr.ip, port |-> sr.port, direction |-> "inbound",
         perspective |-> "destination-inbound", service |-> sr.final,
         evidence |-> "Observed", confidence |-> IF sr.sure THEN 90 ELSE 75,
         reason |-> OpenReason(sr), risk |-> sr.risk, scripts |-> sr.scripts,
         purpose |-> OpenPurpose(sr),
         purposeEvidence |-> IF OpenPurpose(sr) # "" THEN "User-Defined" ELSE "",
         serviceEvidence |-> "Observed", sourceEvidence |-> SourceEvidence,
         destinationEvidence |-> "Observed", roleEvidence |-> "", flowEvidence |-> {}]
       g == OpenFlow(sr)
<1>1. /\ Fields \subseteq DOMAIN f /\ f["evidence"] = "Observed" /\ f["source"] = Scanner
      /\ f["destination"] = sr.ip /\ f["port"] = sr.port /\ f["direction"] = "inbound"
      /\ f["reason"] = OpenReason(sr) /\ f["risk"] = sr.risk /\ f["scripts"] = sr.scripts
      /\ f["confidence"] \in Int
  BY DEF Fields
<1>2. g = FinalizeEvidence(f, sr.ip)
  BY DEF OpenFlow
<1> HIDE DEF f, g
<1>3. DOMAIN g = DOMAIN f /\ \A x \in Fields : g[x] = f[x]
  BY <1>1, <1>2, FinalizeFacts
<1>4. /\ g.evidence = "Observed" /\ g.source = Scanner /\ g.destination = sr.ip /\ g.port = sr.port
      /\ g.direction = "inbound" /\ g.reason = OpenReason(sr) /\ g.risk = sr.risk
      /\ g.scripts = sr.scripts /\ g.confidence \in Int
  BY <1>1, <1>3 DEF Fields
<1>5. WellFormed(g)
  BY <1>1, <1>3, <1>4, PriorityFacts DEF WellFormed
<1>6. FromOpen(g, sr)
  BY <1>4 DEF FromOpen, Key
<1> QED  BY <1>5, <1>6 DEF g

LEMMA UncertainFlowFacts ==
    ASSUME NEW sr, sr.state = "open|filtered", config.openFiltered
    PROVE  WellFormed(UncertainFlow(sr)) /\ FromUncertain(UncertainFlow(sr), sr)
<1> DEFINE f == [source |-> Scanner, destination |-> sr.ip, port |-> sr.port, direction |-> "inbound",
         perspective |-> "destination-inbound", service |-> sr.final,
         evidence |-> "Manual Review Required", confidence |-> 25,
         reason |-> "uncertain", risk |-> sr.risk, scripts |-> sr.scripts,
         purpose |-> hosts[sr.ip].purpose, purposeEvidence |-> "",
         serviceEvidence |-> "Manual Review Required",
         sourceEvidence |-> IF Scanner = "unknown" THEN "Manual Review Required" ELSE "Observed",
         destinationEvidence |-> "Observed", roleEvidence |-> "", flowEvidence |-> {}]
       g == UncertainFlow(sr)
<1>1. /\ Fields \subseteq DOMAIN f /\ f["evidence"] = "Manual Review Required" /\ f["source"] = Scanner
      /\ f["destination"] = sr.ip /\ f["port"] = sr.port /\ f["direction"] = "inbound"
      /\ f["confidence"] \in Int /\ f["reason"] = "uncertain"
  BY DEF Fields
<1>2. g = FinalizeEvidence(f, sr.ip)
  BY DEF UncertainFlow
<1> HIDE DEF f, g
<1>3. DOMAIN g = DOMAIN f /\ \A x \in Fields : g[x] = f[x]
  BY <1>1, <1>2, FinalizeFacts
<1>4. /\ g.evidence = "Manual Review Required" /\ g.source = Scanner /\ g.destination = sr.ip
      /\ g.port = sr.port /\ g.direction = "inbound" /\ g.confidence \in Int /\ g.reason # ""
  BY <1>1, <1>3 DEF Fields
<1>5. WellFormed(g)
  BY <1>1, <1>3, <1>4, PriorityFacts DEF WellFormed
<1>6. FromUncertain(g, sr)
  BY <1>4 DEF FromUncertain, Key
<1> QED  BY <1>5, <1>6 DEF g

LEMMA ConfigFlowFacts ==
    ASSUME NEW e, NEW direction, NEW perspective, Declared(e.source, e.destination, e.port)
    PROVE  LET f == ConfigFlow(e, direction, perspective) IN WellFormed(f) /\ FromDeclaration(f)
<1> DEFINE f == [source |-> e.source, destination |-> e.destination, port |-> e.port,
         direction |-> direction, perspective |-> perspective,
         service |-> IF Registry[e.port] # "" THEN Registry[e.port] ELSE "Unknown",
         evidence |-> "User-Defined", confidence |-> 80, reason |-> "",
         risk |-> Low, scripts |-> {}, purpose |-> e.purpose,
         purposeEvidence |-> IF e.purpose # "" THEN "User-Defined" ELSE "",
         serviceEvidence |-> "User-Defined", sourceEvidence |-> "User-Defined",
         destinationEvidence |-> "User-Defined", roleEvidence |-> "", flowEvidence |-> {}]
       g == ConfigFlow(e, direction, perspective)
<1>1. /\ Fields \subseteq DOMAIN f /\ f["evidence"] = "User-Defined" /\ f["source"] = e.source
      /\ f["destination"] = e.destination /\ f["port"] = e.port /\ f["confidence"] \in Int
  BY DEF Fields
<1>2. g = FinalizeEvidence(f, IF direction = "outbound" THEN e.source ELSE e.destination)
  BY DEF ConfigFlow
<1> HIDE DEF f, g
<1>3. DOMAIN g = DOMAIN f /\ \A x \in Fields : g[x] = f[x]
  BY <1>1, <1>2, FinalizeFacts
<1>4. /\ g.evidence = "User-Defined" /\ g.source = e.source /\ g.destination = e.destination
      /\ g.port = e.port /\ g.confidence \in Int
  BY <1>1, <1>3 DEF Fields
<1>5. WellFormed(g)
  BY <1>1, <1>3, <1>4, PriorityFacts DEF WellFormed
<1>6. FromDeclaration(g)
  BY <1>4 DEF FromDeclaration
<1> QED  BY <1>5, <1>6 DEF g

\* An inferred flow that leads from the client to the server.
Leads(f, client, server) ==
    /\ WellFormed(f)
    /\ f.evidence = "Inferred" /\ f.direction = "outbound"
    /\ f.source = client /\ f.destination = server
    /\ f.confidence < config.threshold => f.reason # ""

LEMMA InferredFlowFacts ==
    ASSUME NEW client, NEW server, NEW transport, transport.confidence \in Int
    PROVE  Leads(InferredFlow(client, server, transport), client, server)
<1> DEFINE f == [source |-> client, destination |-> server, port |-> transport.port,
         direction |-> "outbound", perspective |-> "source-outbound", service |-> transport.service,
         evidence |-> "Inferred", confidence |-> transport.confidence,
         reason |-> IF transport.confidence < config.threshold THEN "confidence" ELSE "",
         risk |-> Low, scripts |-> {}, purpose |-> transport.service, purposeEvidence |-> "Inferred",
         serviceEvidence |-> "Inferred", sourceEvidence |-> "Observed",
         destinationEvidence |-> "User-Defined", roleEvidence |-> "", flowEvidence |-> {}]
       g == InferredFlow(client, server, transport)
<1>1. /\ Fields \subseteq DOMAIN f /\ f["evidence"] = "Inferred" /\ f["direction"] = "outbound"
      /\ f["source"] = client /\ f["destination"] = server /\ f["confidence"] = transport.confidence
      /\ f["reason"] = IF transport.confidence < config.threshold THEN "confidence" ELSE ""
  BY DEF Fields
<1>2. g = FinalizeEvidence(f, client)
  BY DEF InferredFlow
<1> HIDE DEF f, g
<1>3. DOMAIN g = DOMAIN f /\ \A x \in Fields : g[x] = f[x]
  BY <1>1, <1>2, FinalizeFacts
<1>4. /\ g.evidence = "Inferred" /\ g.direction = "outbound" /\ g.source = client /\ g.destination = server
      /\ g.confidence = transport.confidence
      /\ g.reason = IF transport.confidence < config.threshold THEN "confidence" ELSE ""
  BY <1>1, <1>3 DEF Fields
<1>5. WellFormed(g)
  BY <1>1, <1>3, <1>4, PriorityFacts DEF WellFormed
<1>6. Leads(g, client, server)
  BY <1>4, <1>5 DEF Leads
<1> QED  BY <1>6 DEF g

\* Merging changes the scripts and the purpose of the flow that is kept.
LEMMA MergedFacts ==
    ASSUME NEW f, NEW g, WellFormed(f)
    PROVE  LET m == Merged(f, g)
           IN /\ WellFormed(m) /\ Key(m) = Key(f) /\ Rank(m) = Rank(f)
              /\ m.scripts = f.scripts \union g.scripts
              /\ m.purpose = IF f.purpose = "" THEN g.purpose ELSE f.purpose
              /\ Grounded(f) => Grounded(m)
<1> DEFINE m == Merged(f, g)
<1>1. DOMAIN m = DOMAIN f /\ \A x \in DOMAIN f : x \notin {"scripts", "purpose"} => m[x] = f[x]
  BY DEF Merged
<1>2. m.scripts = f.scripts \union g.scripts /\ m.purpose = IF f.purpose = "" THEN g.purpose ELSE f.purpose
  BY DEF Merged, WellFormed, Fields
<1> HIDE DEF m
<1>3. /\ m.source = f.source /\ m.destination = f.destination /\ m.port = f.port
      /\ m.direction = f.direction /\ m.evidence = f.evidence /\ m.confidence = f.confidence
      /\ m.reason = f.reason /\ m.risk = f.risk
  BY <1>1 DEF WellFormed, Fields
<1>4. WellFormed(m)
  BY <1>1, <1>3 DEF WellFormed
<1>5. Key(m) = Key(f) /\ Rank(m) = Rank(f)
  BY <1>3 DEF Key, Rank
<1>6. Grounded(f) => Grounded(m)
  BY <1>2, <1>3, <1>4, <1>5 DEF Grounded, FromOpen, FromUncertain, FromDeclaration, FromRole
<1> QED  BY <1>2, <1>4, <1>5, <1>6 DEF m

-------------------------------------------------------------------------------
(***************************************************************************)
(* The loops that make flows.                                              *)
(***************************************************************************)

LEMMA FlowsGrow ==
    ASSUME FlowsInv, phase' # "parse", UNCHANGED <<scan, config, hosts, records>>,
           NEW made, IsSequence(made), \A f \in ToSet(made) : Grounded(f), flows' = flows \o made
    PROVE  FlowsInv'
<1>1. IsSequence(flows') /\ ToSet(flows') = ToSet(flows) \union ToSet(made)
  BY Joined DEF FlowsInv
<1>2. \A f \in ToSet(flows') : Grounded(f)'
  <2> SUFFICES ASSUME NEW f \in ToSet(flows')
               PROVE  Grounded(f)'
    OBVIOUS
  <2>1. Grounded(f)
    BY <1>1 DEF FlowsInv
  <2> QED  BY <2>1, SameGround
<1> QED  BY <1>1, <1>2 DEF FlowsInv

LEMMA OnceGrow ==
    ASSUME OnceInv, IsSequence(flows), emitted' = emitted,
           NEW made, IsSequence(made), \A f \in ToSet(made) : f.evidence # "Inferred", flows' = flows \o made
    PROVE  OnceInv'
<1> DEFINE k == Len(flows)
           m == Len(made)
<1>1. k \in Nat /\ m \in Nat
  BY SequenceFacts
<1>2. /\ Len(flows') = k + m
      /\ \A i \in 1..k : flows'[i] = flows[i]
      /\ \A i \in (k + 1)..(k + m) : i - k \in 1..m /\ flows'[i] = made[i - k]
  BY Joined
<1>3. \A i \in (k + 1)..(k + m) : flows'[i].evidence # "Inferred"
  BY <1>2, SequenceFacts
<1>4. \A i \in 1..(k + m) : i \in 1..k \/ i \in (k + 1)..(k + m)
  BY <1>1
<1>5. \A i \in 1..(k + m) : flows'[i].evidence = "Inferred" => i \in 1..k /\ flows'[i] = flows[i]
  BY <1>2, <1>3, <1>4
<1> QED  BY <1>2, <1>5 DEF OnceInv, Once

LEMMA TreatedGrow ==
    ASSUME UNCHANGED <<scan, config, hosts, records>>, ToSet(flows) \subseteq ToSet(flows'),
           reviews \subseteq reviews', NEW sr, Treated(sr)
    PROVE  Treated(sr)'
<1>1. \A f : FromOpen(f, sr)' <=> FromOpen(f, sr)
  BY DEF FromOpen, Scanner, OpenReason, ZoneConflict, Key
<1>2. (\E f \in ToSet(flows) : FromOpen(f, sr)) => (\E f \in ToSet(flows') : FromOpen(f, sr)')
  BY <1>1
<1>3. \A f : FromUncertain(f, sr)' <=> FromUncertain(f, sr)
  BY DEF FromUncertain, Scanner, Key
<1>4. (\E f \in ToSet(flows) : FromUncertain(f, sr)) => (\E f \in ToSet(flows') : FromUncertain(f, sr)')
  BY <1>3
<1> QED  BY <1>2, <1>4 DEF Treated

\* What a record of the inventory makes.
MadeOf(sr) ==
    CASE sr.state = "open" -> <<OpenFlow(sr)>>
      [] sr.state = "open|filtered" /\ config.openFiltered -> <<UncertainFlow(sr)>>
      [] OTHER -> <<>>

LEMMA MadeOfFacts ==
    ASSUME NEW sr \in ToSet(records)
    PROVE  /\ IsSequence(MadeOf(sr))
           /\ \A f \in ToSet(MadeOf(sr)) : Grounded(f) /\ f.evidence # "Inferred"
           /\ sr.state = "open" => \E f \in ToSet(MadeOf(sr)) : FromOpen(f, sr)
           /\ (sr.state = "open|filtered" /\ config.openFiltered)
                => \E f \in ToSet(MadeOf(sr)) : FromUncertain(f, sr)
<1>1. CASE sr.state = "open"
  <2>1. IsSequence(MadeOf(sr)) /\ ToSet(MadeOf(sr)) = {OpenFlow(sr)}
    BY <1>1, SingleSequence DEF MadeOf
  <2>2. WellFormed(OpenFlow(sr)) /\ FromOpen(OpenFlow(sr), sr)
    BY <1>1, OpenFlowFacts
  <2>3. Grounded(OpenFlow(sr)) /\ OpenFlow(sr).evidence = "Observed"
    BY <2>2 DEF Grounded, FromOpen
  <2> QED  BY <1>1, <2>1, <2>2, <2>3
<1>2. CASE sr.state = "open|filtered" /\ config.openFiltered
  <2>1. IsSequence(MadeOf(sr)) /\ ToSet(MadeOf(sr)) = {UncertainFlow(sr)}
    BY <1>2, SingleSequence DEF MadeOf
  <2>2. WellFormed(UncertainFlow(sr)) /\ FromUncertain(UncertainFlow(sr), sr)
    BY <1>2, UncertainFlowFacts
  <2>3. Grounded(UncertainFlow(sr)) /\ UncertainFlow(sr).evidence = "Manual Review Required"
    BY <2>2 DEF Grounded, FromUncertain
  <2> QED  BY <1>2, <2>1, <2>2, <2>3
<1>3. CASE sr.state # "open" /\ ~(sr.state = "open|filtered" /\ config.openFiltered)
  <2>1. MadeOf(sr) = <<>>
    BY <1>3 DEF MadeOf
  <2> QED  BY <1>3, <2>1, EmptySequence
<1> QED  BY <1>1, <1>2, <1>3

LEMMA ObserveFacts ==
    ASSUME Observe, RecordsInv, InputsInv
    PROVE  /\ phase = "observe" /\ phase' = "observe" /\ n' = n + 1 /\ n + 1 \in 1..Len(records)
           /\ records[n + 1] \in ToSet(records)
           /\ UNCHANGED <<scan, config, hosts, records, emitted, best>>
           /\ flows' = flows \o MadeOf(records[n + 1])
           /\ reviews \subseteq reviews'
           /\ LET sr == records[n + 1]
              IN sr.state = "open|filtered" => Review("Uncertain port state", <<sr.ip, sr.port>>) \in reviews'
<1>1. /\ In("observe", records) /\ UNCHANGED <<hosts, records, emitted, best>>
      /\ flows' = flows \o MadeOf(records[n + 1])
      /\ LET sr == records[n + 1]
             uncertain == sr.state = "open|filtered"
         IN reviews' = reviews \union
               (IF sr.state = "open" THEN OpenReviews(sr) ELSE {}) \union
               (IF uncertain THEN {Review("Uncertain port state", <<sr.ip, sr.port>>)} ELSE {})
  BY DEF Observe, MadeOf
<1>2. n + 1 \in 1..Len(records) /\ records[n + 1] \in ToSet(records)
  <2>1. IsSequence(records) /\ n \in Nat /\ n < Len(records)
    BY <1>1 DEF In, InputsInv, RecordsInv
  <2>2. Len(records) \in Nat /\ \A i \in 1..Len(records) : records[i] \in ToSet(records)
    BY <2>1, SequenceFacts
  <2> QED  BY <2>1, <2>2
<1> QED  BY <1>1, <1>2 DEF In, inputs

Loops == FlowsInv /\ TreatedInv /\ OnceInv

LEMMA ObserveStep == InputsInv /\ RecordsInv /\ Loops /\ Observe => Loops'
<1> SUFFICES ASSUME InputsInv, RecordsInv, Loops, Observe
             PROVE  Loops'
  OBVIOUS
<1> DEFINE sr == records[n + 1]
           made == MadeOf(sr)
<1>1. /\ phase = "observe" /\ phase' = "observe" /\ n' = n + 1 /\ n + 1 \in 1..Len(records)
      /\ sr \in ToSet(records) /\ UNCHANGED <<scan, config, hosts, records, emitted, best>>
      /\ flows' = flows \o made /\ reviews \subseteq reviews'
      /\ sr.state = "open|filtered" => Review("Uncertain port state", <<sr.ip, sr.port>>) \in reviews'
  BY ObserveFacts
<1>2. /\ IsSequence(made)
      /\ \A f \in ToSet(made) : Grounded(f) /\ f.evidence # "Inferred"
      /\ sr.state = "open" => \E f \in ToSet(made) : FromOpen(f, sr)
      /\ (sr.state = "open|filtered" /\ config.openFiltered) => \E f \in ToSet(made) : FromUncertain(f, sr)
  BY <1>1, MadeOfFacts
<1> HIDE DEF sr, made
<1>3. FlowsInv'
  BY <1>1, <1>2, FlowsGrow DEF Loops
<1>4. OnceInv'
  BY <1>1, <1>2, OnceGrow DEF Loops, FlowsInv
<1>5. ToSet(flows') = ToSet(flows) \union ToSet(made)
  BY <1>1, <1>2, Joined DEF Loops, FlowsInv
<1>6. ASSUME NEW x, x = sr
      PROVE  Treated(x)'
  <2>1. \A f : FromOpen(f, x)' <=> FromOpen(f, x)
    BY <1>1 DEF FromOpen, Scanner, OpenReason, ZoneConflict, Key
  <2>2. x.state = "open" => \E f \in ToSet(flows') : FromOpen(f, x)'
    BY <1>2, <1>5, <1>6, <2>1
  <2>3. \A f : FromUncertain(f, x)' <=> FromUncertain(f, x)
    BY <1>1 DEF FromUncertain, Scanner, Key
  <2>4. (x.state = "open|filtered" /\ config'.openFiltered) => \E f \in ToSet(flows') : FromUncertain(f, x)'
    BY <1>1, <1>2, <1>5, <1>6, <2>3
  <2> QED  BY <1>1, <1>6, <2>2, <2>4 DEF Treated
<1>7. TreatedInv'
  <2>1. SeenRecords = n /\ SeenRecords' = n + 1 /\ n \in Nat
    BY <1>1 DEF SeenRecords, InputsInv
  <2>2. ASSUME NEW i \in 1..(n + 1), NEW x, x = records[i]
        PROVE  Treated(x)'
    <3>1. CASE i = n + 1
      BY <1>6, <2>2, <3>1 DEF sr
    <3>2. CASE i # n + 1
      <4>1. Treated(x)
        BY <2>1, <2>2, <3>2 DEF Loops, TreatedInv
      <4> QED  BY <1>1, <1>5, <4>1, TreatedGrow
    <3> QED  BY <3>1, <3>2
  <2> QED  BY <1>1, <2>1, <2>2 DEF TreatedInv
<1> QED  BY <1>3, <1>4, <1>7 DEF Loops

\* A step of a later loop adds flows and keeps the rest.
LEMMA LoopsGrow ==
    ASSUME Loops, phase \notin {"parse", "observe"}, phase' = phase,
           UNCHANGED <<scan, config, hosts, records, emitted>>, reviews \subseteq reviews',
           NEW made, IsSequence(made), flows' = flows \o made,
           \A f \in ToSet(made) : Grounded(f) /\ f.evidence # "Inferred"
    PROVE  Loops'
<1>1. FlowsInv'
  BY FlowsGrow DEF Loops
<1>2. OnceInv'
  BY OnceGrow DEF Loops, FlowsInv
<1>3. ToSet(flows') = ToSet(flows) \union ToSet(made)
  BY Joined DEF Loops, FlowsInv
<1>4. TreatedInv'
  <2>1. SeenRecords' = SeenRecords
    BY DEF SeenRecords
  <2>2. ASSUME NEW i \in 1..SeenRecords, NEW x, x = records[i]
        PROVE  Treated(x)'
    <3>1. Treated(x)
      BY <2>2 DEF Loops, TreatedInv
    <3> QED  BY <1>3, <3>1, TreatedGrow
  <2> QED  BY <2>1, <2>2 DEF TreatedInv
<1> QED  BY <1>1, <1>2, <1>4 DEF Loops

LEMMA PerspectivesFacts ==
    IsSequence(Perspectives) /\ DOMAIN Perspectives = 1..Len(Perspectives) /\ Len(Perspectives) \in Nat
<1>1. \A d, v : IsSequence(<<<<d, v>>>>)
  BY SingleSequence
<1>2. IsSequence(IF config.sourceOutbound THEN <<<<"outbound", "source-outbound">>>> ELSE <<>>)
  BY <1>1, EmptySequence
<1>3. IsSequence(IF config.destinationInbound THEN <<<<"inbound", "destination-inbound">>>> ELSE <<>>)
  BY <1>1, EmptySequence
<1>4. IsSequence(Perspectives)
  BY <1>1, <1>2, <1>3, Joined DEF Perspectives
<1> QED  BY <1>4, SequenceFacts

LEMMA EmitFacts ==
    ASSUME NEW e, Declared(e.source, e.destination, e.port)
    PROVE  /\ IsSequence(EmitConfigFlow(e))
           /\ \A f \in ToSet(EmitConfigFlow(e)) : Grounded(f) /\ f.evidence # "Inferred"
<1>1. CASE Resolvable(e)
  <2> DEFINE flow(i) == ConfigFlow(e, Perspectives[i][1], Perspectives[i][2])
             m == [i \in DOMAIN Perspectives |-> flow(i)]
  <2>1. EmitConfigFlow(e) = m
    BY <1>1 DEF EmitConfigFlow
  <2>2. \A i : WellFormed(flow(i)) /\ FromDeclaration(flow(i))
    BY ConfigFlowFacts
  <2>3. \A i : Grounded(flow(i)) /\ flow(i).evidence # "Inferred"
    BY <2>2 DEF Grounded, FromDeclaration
  <2> HIDE DEF flow
  <2>4. m = [i \in 1..Len(Perspectives) |-> m[i]] /\ \A f \in ToSet(m) : \E i : f = flow(i)
    BY PerspectivesFacts DEF ToSet
  <2>5. IsSequence(m)
    <3> HIDE DEF m
    <3> QED  BY <2>4, PerspectivesFacts, FunctionIsSequence
  <2> HIDE DEF m
  <2> QED  BY <2>1, <2>3, <2>4, <2>5
<1>2. CASE ~Resolvable(e)
  BY <1>2, EmptySequence DEF EmitConfigFlow
<1> QED  BY <1>1, <1>2

LEMMA DefineStep == InputsInv /\ Loops /\ Define => Loops'
<1> SUFFICES ASSUME InputsInv, Loops, Define
             PROVE  Loops'
  OBVIOUS
<1> DEFINE e == config.defined[n + 1]
<1>1. /\ phase = "define" /\ phase' = "define" /\ n < Len(config.defined)
      /\ UNCHANGED <<scan, config, hosts, records, emitted, best>>
      /\ flows' = flows \o EmitConfigFlow(e) /\ reviews \subseteq reviews'
  BY DEF Define, In, inputs
<1>2. n + 1 \in DOMAIN config.defined
  <2>1. IsSequence(config.defined)
    BY ConfigsAssumption DEF InputsInv
  <2> QED  BY <1>1, <2>1, SequenceFacts DEF InputsInv
<1>3. Declared(e.source, e.destination, e.port)
  BY <1>2 DEF Declared
<1> HIDE DEF e
<1>4. IsSequence(EmitConfigFlow(e)) /\ \A f \in ToSet(EmitConfigFlow(e)) : Grounded(f) /\ f.evidence # "Inferred"
  BY <1>3, EmitFacts
<1> QED  BY <1>1, <1>4, LoopsGrow

\* What a configured host is expected to send.
LEMMA ExpectedFacts ==
    ASSUME InputsInv, NEW a \in DOMAIN config.hosts
    PROVE  LET outbound == config.hosts[a].outbound
               expected == Among(outbound, {e \in ToSet(outbound) : e.destination # ""})
               made == FlattenSeq([i \in DOMAIN expected |-> EmitConfigFlow(expected[i])])
           IN IsSequence(made) /\ \A f \in ToSet(made) : Grounded(f) /\ f.evidence # "Inferred"
<1> DEFINE outbound == config.hosts[a].outbound
           expected == Among(outbound, {e \in ToSet(outbound) : e.destination # ""})
           ss == [i \in DOMAIN expected |-> EmitConfigFlow(expected[i])]
<1>1. IsSequence(outbound) /\ \A e \in ToSet(outbound) : e.source = a
  BY ConfigsAssumption DEF InputsInv
<1>2. IsSequence(expected) /\ ToSet(expected) \subseteq ToSet(outbound)
  <2> DEFINE S == {e \in ToSet(outbound) : e.destination # ""}
  <2> HIDE DEF S, outbound
  <2>1. IsSequence(Among(outbound, S)) /\ ToSet(Among(outbound, S)) \subseteq ToSet(outbound)
    BY <1>1, AmongFacts
  <2> QED  BY <2>1 DEF S
<1>3. ASSUME NEW e \in ToSet(outbound)
      PROVE  Declared(e.source, e.destination, e.port)
  <2>1. PICK i \in DOMAIN outbound : outbound[i] = e
    BY <1>3 DEF ToSet
  <2>2. e.source = a
    BY <1>1
  <2> QED  BY <2>1, <2>2 DEF Declared, Configured
<1> HIDE DEF outbound, expected
<1>4. Len(expected) \in Nat /\ DOMAIN expected = 1..Len(expected)
      /\ \A i \in 1..Len(expected) : expected[i] \in ToSet(outbound)
  BY <1>2, SequenceFacts
<1>5. ss = [i \in 1..Len(expected) |-> ss[i]] /\ \A i \in 1..Len(expected) : ss[i] = EmitConfigFlow(expected[i])
  BY <1>4
<1> HIDE DEF ss
<1>6. IsSequence(ss) /\ Len(ss) = Len(expected)
  BY <1>4, <1>5, FunctionIsSequence
<1>7. ASSUME NEW i \in 1..Len(ss)
      PROVE  IsSequence(ss[i]) /\ \A f \in ToSet(ss[i]) : Grounded(f) /\ f.evidence # "Inferred"
  <2>1. Declared(expected[i].source, expected[i].destination, expected[i].port)
    BY <1>3, <1>4, <1>6
  <2> QED  BY <1>5, <1>6, <2>1, EmitFacts
<1>8. IsSequence(FlattenSeq(ss)) /\ ToSet(FlattenSeq(ss)) = UNION {ToSet(ss[i]) : i \in 1..Len(ss)}
  BY <1>6, <1>7, Flattened
<1>9. \A f \in ToSet(FlattenSeq(ss)) : Grounded(f) /\ f.evidence # "Inferred"
  BY <1>7, <1>8
<1> QED  BY <1>8, <1>9 DEF ss, expected, outbound

LEMMA ExpectStep == InputsInv /\ Loops /\ Expect => Loops'
<1> SUFFICES ASSUME InputsInv, Loops, Expect
             PROVE  Loops'
  OBVIOUS
<1> DEFINE a == ConfiguredHosts[n + 1]
           outbound == config.hosts[a].outbound
           expected == Among(outbound, {e \in ToSet(outbound) : e.destination # ""})
           made == FlattenSeq([i \in DOMAIN expected |-> EmitConfigFlow(expected[i])])
<1>1. /\ In("expect", ConfiguredHosts) /\ UNCHANGED <<hosts, records, emitted, best>>
      /\ flows' = flows \o made /\ reviews \subseteq reviews'
  BY DEF Expect
<1>2. a \in DOMAIN config.hosts
  <2>1. IsSequence(ConfiguredHosts) /\ ToSet(ConfiguredHosts) \subseteq DOMAIN config.hosts
    <3>1. /\ IsSequence(Among(AddressOrder, DOMAIN config.hosts))
          /\ ToSet(Among(AddressOrder, DOMAIN config.hosts)) = ToSet(AddressOrder) \intersect DOMAIN config.hosts
      BY OrdersAssumption, AmongFacts
    <3> QED  BY <3>1 DEF ConfiguredHosts
  <2>2. n + 1 \in 1..Len(ConfiguredHosts)
    <3>1. n < Len(ConfiguredHosts) /\ n \in Nat
      BY <1>1 DEF In, InputsInv
    <3>2. Len(ConfiguredHosts) \in Nat
      BY <2>1, SequenceFacts
    <3> QED  BY <3>1, <3>2
  <2> QED  BY <2>1, <2>2, SequenceFacts
<1> HIDE DEF a
<1>3. IsSequence(made) /\ \A f \in ToSet(made) : Grounded(f) /\ f.evidence # "Inferred"
  BY <1>2, ExpectedFacts
<1> HIDE DEF made
<1> QED  BY <1>1, <1>3, LoopsGrow DEF In, inputs

-------------------------------------------------------------------------------
(***************************************************************************)
(* Inference.                                                              *)
(***************************************************************************)

LEMMA AppendIsOnce ==
    ASSUME NEW fs, IsSequence(fs), NEW triples, Once(fs, triples),
           NEW f, Triple(f) \notin triples
    PROVE  Once(Append(fs, f), triples \union {Triple(f)})
<1> DEFINE k == Len(fs)
           gs == Append(fs, f)
<1>1. /\ k \in Nat /\ Len(gs) = k + 1 /\ gs[k + 1] = f /\ \A i \in 1..k : gs[i] = fs[i]
  BY Appended, SequenceFacts
<1>2. \A i \in 1..(k + 1) : i \in 1..k \/ i = k + 1
  BY <1>1
<1> HIDE DEF gs
<1>3. \A i \in 1..k : fs[i].evidence = "Inferred" => Triple(fs[i]) # Triple(f)
  BY DEF Once
<1>4. ASSUME NEW i \in 1..(k + 1), gs[i].evidence = "Inferred"
      PROVE  Triple(gs[i]) \in triples \union {Triple(f)}
  BY <1>1, <1>2, <1>4 DEF Once
<1>5. ASSUME NEW i \in 1..(k + 1), NEW j \in 1..(k + 1), gs[i].evidence = "Inferred",
             gs[j].evidence = "Inferred", Triple(gs[j]) = Triple(gs[i])
      PROVE  i = j
  <2>1. CASE i \in 1..k /\ j \in 1..k
    BY <1>1, <1>5, <2>1 DEF Once
  <2>2. CASE i \in 1..k /\ j = k + 1
    BY <1>1, <1>3, <1>5, <2>2
  <2>3. CASE i = k + 1 /\ j \in 1..k
    BY <1>1, <1>3, <1>5, <2>3
  <2> QED  BY <1>2, <2>1, <2>2, <2>3
<1> QED  BY <1>1, <1>4, <1>5 DEF Once, gs

\* What AddInferred keeps: the flows it had come first, and those it has
\* taken since are of the set S and lead elsewhere.
Taking(acc, old, S) ==
    /\ IsSequence(acc.flows) /\ Once(acc.flows, acc.emitted)
    /\ ToSet(old) \subseteq ToSet(acc.flows)
    /\ ToSet(acc.flows) \subseteq ToSet(old) \union {f \in S : f.source # f.destination}

LEMMA AddInferredTakes ==
    ASSUME NEW acc, NEW old, NEW S, Taking(acc, old, S), NEW f \in S
    PROVE  Taking(AddInferred(acc, f), old, S)
<1>1. CASE f.source = f.destination \/ <<f.source, f.destination, f.port>> \in acc.emitted
  BY <1>1 DEF AddInferred
<1>2. CASE ~(f.source = f.destination \/ <<f.source, f.destination, f.port>> \in acc.emitted)
  <2> DEFINE new == AddInferred(acc, f)
  <2>1. new.flows = Append(acc.flows, f) /\ new.emitted = acc.emitted \union {Triple(f)}
    BY <1>2 DEF AddInferred, Triple
  <2>2. Triple(f) \notin acc.emitted /\ f.source # f.destination
    BY <1>2 DEF Triple
  <2> HIDE DEF new
  <2>3. IsSequence(new.flows) /\ ToSet(new.flows) = ToSet(acc.flows) \union {f}
    BY <2>1, Appended DEF Taking
  <2>4. Once(new.flows, new.emitted)
    BY <2>1, <2>2, AppendIsOnce DEF Taking
  <2>5. Taking(new, old, S)
    BY <2>2, <2>3, <2>4 DEF Taking
  <2> QED  BY <2>5 DEF new
<1> QED  BY <1>1, <1>2

LEMMA FoldTakes ==
    ASSUME NEW s, IsSequence(s), NEW acc, NEW old, Taking(acc, old, ToSet(s))
    PROVE  Taking(FoldLeft(AddInferred, acc, s), old, ToSet(s))
<1> DEFINE k == Len(s)
<1>0. k \in Nat /\ \A i \in 1..k : s[i] \in ToSet(s)
  BY SequenceFacts
<1>1. PICK h : /\ h[0] = acc /\ \A i \in 0..(k - 1) : h[i + 1] = Op("flow", h[i], s[i + 1])
               /\ h[k] = Fold("flow", acc, s)
  BY FoldPath
<1> DEFINE T == {i \in 0..k : Taking(h[i], old, ToSet(s))}
<1>2. 0 \in T
  BY <1>0, <1>1
<1>3. ASSUME NEW i \in 0..(k - 1), i \in T
      PROVE  i + 1 \in T
  <2>1. i + 1 \in 1..k /\ i + 1 \in 0..k
    BY <1>0
  <2>2. h[i + 1] = AddInferred(h[i], s[i + 1])
    BY <1>1 DEF Op
  <2>3. Taking(AddInferred(h[i], s[i + 1]), old, ToSet(s))
    BY <1>0, <1>3, <2>1, AddInferredTakes
  <2> QED  BY <2>1, <2>2, <2>3
<1>4. k \in T
  <2> HIDE DEF T, k
  <2> QED  BY <1>0, <1>2, <1>3, Counting, k \in 0..k
<1> QED  BY <1>1, <1>4, FoldOfFlows

\* The transports of a category.
LEMMA TransportsFacts ==
    ASSUME InputsInv, NEW name \in DOMAIN InfraKey
    PROVE  LET ts == CategoryTransports(name, config.categories[name])
           IN IsSequence(ts) /\ \A t \in ToSet(ts) : t.confidence \in Int
<1> DEFINE cat == config.categories[name]
           good(ts) == IsSequence(ts) /\ \A t \in ToSet(ts) : t.confidence \in Int
<1>0. DOMAIN InfraKey = {"active_directory", "backup", "dns", "logging", "ntp", "patch_management"}
  BY DEF InfraKey
<1>1. CASE name = "logging"
  <2> DEFINE first == <<Transport(IF cat.preferred # "" THEN cat.preferred ELSE "tcp/6514", "Syslog", 72)>>
             rest == [i \in DOMAIN cat.fallback |-> Transport(cat.fallback[i], "Syslog", 60)]
  <2>1. CategoryTransports(name, cat) = first \o rest
    BY <1>1 DEF CategoryTransports
  <2>2. good(first)
    <3> DEFINE t == Transport(IF cat.preferred # "" THEN cat.preferred ELSE "tcp/6514", "Syslog", 72)
    <3>1. t.confidence = 72
      BY DEF Transport
    <3> HIDE DEF t
    <3>2. good(<<t>>)
      BY <3>1, SingleSequence
    <3> QED  BY <3>2 DEF t
  <2>3. IsSequence(cat.fallback)
    BY <1>1, ConfigsAssumption DEF InputsInv
  <2>4. Len(cat.fallback) \in Nat /\ DOMAIN cat.fallback = 1..Len(cat.fallback)
    BY <2>3, SequenceFacts
  <2>5. rest = [i \in 1..Len(cat.fallback) |-> rest[i]] /\ \A t \in ToSet(rest) : t.confidence = 60
    <3> DEFINE t(i) == Transport(cat.fallback[i], "Syslog", 60)
    <3>1. \A i : t(i).confidence = 60
      BY DEF Transport
    <3>2. rest = [i \in 1..Len(cat.fallback) |-> t(i)]
      BY <2>4
    <3> HIDE DEF t, rest
    <3>3. \A u \in ToSet(rest) : u.confidence = 60
      BY <3>1, <3>2 DEF ToSet
    <3> QED  BY <3>2, <3>3
  <2> HIDE DEF rest, first, cat
  <2>6. IsSequence(rest)
    BY <2>4, <2>5, FunctionIsSequence
  <2>7. good(first \o rest)
    BY <2>2, <2>5, <2>6, Joined
  <2> QED  BY <2>1, <2>7 DEF cat
<1>2. CASE name = "dns"
  <2> DEFINE S == IF cat.protocols = {} THEN DOMAIN Dns ELSE cat.protocols
             wanted == Among(<<"udp", "tcp">>, S)
             ts == [i \in DOMAIN wanted |-> Dns[wanted[i]]]
  <2>1. CategoryTransports(name, cat) = ts
    BY <1>2 DEF CategoryTransports
  <2>2. IsSequence(<<"udp", "tcp">>) /\ ToSet(<<"udp", "tcp">>) = {"udp", "tcp"}
    BY DEF IsSequence, ToSet
  <2> HIDE DEF S
  <2>3. IsSequence(wanted) /\ ToSet(wanted) \subseteq {"udp", "tcp"}
    BY <2>2, AmongFacts
  <2>4. Dns["udp"].confidence = 75 /\ Dns["tcp"].confidence = 70
    BY DEF Dns, Transport
  <2> HIDE DEF wanted
  <2>5. Len(wanted) \in Nat /\ DOMAIN wanted = 1..Len(wanted) /\ \A i \in 1..Len(wanted) : wanted[i] \in {"udp", "tcp"}
    BY <2>3, SequenceFacts
  <2>6. ts = [i \in 1..Len(wanted) |-> ts[i]] /\ \A t \in ToSet(ts) : t.confidence \in Int
    BY <2>4, <2>5 DEF ToSet
  <2> HIDE DEF ts
  <2>7. IsSequence(ts)
    BY <2>5, <2>6, FunctionIsSequence
  <2> QED  BY <2>1, <2>6, <2>7
<1>3. CASE name \notin {"logging", "dns"}
  <2>1. CategoryTransports(name, cat) = Transports[name]
    BY <1>3 DEF CategoryTransports
  <2>2. name \in {"active_directory", "backup", "ntp", "patch_management"}
    BY <1>0, <1>3
  <2>3. good(Transports["active_directory"])
    <3>1. \A a, b, c, d : IsSequence(<<a, b, c, d>>) /\ ToSet(<<a, b, c, d>>) = {a, b, c, d}
      BY DEF IsSequence, ToSet
    <3>2. Transports["active_directory"] =
            <<Transport("tcp/88", "Kerberos", 75), Transport("tcp/389", "LDAP", 75),
              Transport("tcp/445", "SMB", 75), Transport("tcp/135", "MS RPC", 70)>>
      BY DEF Transports
    <3> DEFINE t1 == Transport("tcp/88", "Kerberos", 75)
               t2 == Transport("tcp/389", "LDAP", 75)
               t3 == Transport("tcp/445", "SMB", 75)
               t4 == Transport("tcp/135", "MS RPC", 70)
    <3>3. t1.confidence \in Int /\ t2.confidence \in Int /\ t3.confidence \in Int /\ t4.confidence \in Int
      BY DEF Transport
    <3> HIDE DEF t1, t2, t3, t4
    <3>4. good(<<t1, t2, t3, t4>>)
      BY <3>1, <3>3
    <3> QED  BY <3>2, <3>4 DEF t1, t2, t3, t4
  <2>4. good(Transports["backup"]) /\ good(Transports["ntp"]) /\ good(Transports["patch_management"])
    BY SingleSequence DEF Transports, Transport
  <2> HIDE DEF good
  <2>5. good(Transports[name])
    BY <2>2, <2>3, <2>4
  <2> QED  BY <2>1, <2>5 DEF good
<1> QED  BY <1>1, <1>2, <1>3

\* A sequence made by rewriting the elements of another.
LEMMA Rewritten ==
    ASSUME NEW s, IsSequence(s), NEW m, m = [i \in DOMAIN s |-> m[i]]
    PROVE  /\ IsSequence(m) /\ Len(m) = Len(s)
           /\ \A x \in ToSet(m) : \E i \in 1..Len(s) : x = m[i]
<1>1. Len(s) \in Nat /\ DOMAIN s = 1..Len(s)
  BY SequenceFacts
<1>2. IsSequence(m) /\ Len(m) = Len(s)
  BY <1>1, FunctionIsSequence
<1> QED  BY <1>2, SequenceFacts

\* From a client that is not the scanner to a server, over a transport.
Dependency(d, servers) ==
    \E client \in Clients : \E server \in ToSet(servers) : \E transport :
        transport.confidence \in Int /\ d = InferredFlow(client, server, transport)

LEMMA DependenciesFacts ==
    ASSUME InputsInv, NEW name \in DOMAIN InfraKey, InfraKey[name] \in DOMAIN config.infra
    PROVE  /\ IsSequence(Dependencies(name))
           /\ \A d \in ToSet(Dependencies(name)) : Dependency(d, config.infra[InfraKey[name]])
<1> DEFINE clients == Applicable(name)
           servers == config.infra[InfraKey[name]]
           transports == CategoryTransports(name, config.categories[name])
           flow(i, j, k) == InferredFlow(clients[i], servers[j], transports[k])
           overs(i, j) == [k \in DOMAIN transports |-> flow(i, j, k)]
           tos(i) == [j \in DOMAIN servers |-> overs(i, j)]
           to(i) == FlattenSeq(tos(i))
           froms == [i \in DOMAIN clients |-> to(i)]
<1>1. Dependencies(name) = FlattenSeq(froms)
  BY DEF Dependencies
<1>2. IsSequence(transports) /\ \A t \in ToSet(transports) : t.confidence \in Int
  BY TransportsFacts
<1>3. IsSequence(servers)
  BY ConfigsAssumption DEF InputsInv
<1>4. IsSequence(clients) /\ ToSet(clients) \subseteq Clients
  <2> DEFINE S == {a \in Clients : name = "active_directory"
                                     => AdApplies(hosts[a], config.categories[name].roles)}
  <2>0. S \subseteq Clients /\ clients = Among(AddressOrder, S)
    BY DEF Applicable
  <2> HIDE DEF S, clients
  <2>1. /\ IsSequence(Among(AddressOrder, S))
        /\ ToSet(Among(AddressOrder, S)) = ToSet(AddressOrder) \intersect S
    BY OrdersAssumption, AmongFacts
  <2> QED  BY <2>0, <2>1
<1> DEFINE Good(d) == Dependency(d, servers)
<1>5. ASSUME NEW i \in 1..Len(clients), NEW j \in 1..Len(servers), NEW k \in 1..Len(transports)
      PROVE  Good(flow(i, j, k))
  <2>1. clients[i] \in Clients
    BY <1>4, SequenceFacts
  <2>2. servers[j] \in ToSet(servers)
    BY <1>3, SequenceFacts
  <2>3. transports[k].confidence \in Int
    BY <1>2, SequenceFacts
  <2> HIDE DEF clients, servers, transports
  <2> QED  BY <2>1, <2>2, <2>3 DEF Dependency
<1> HIDE DEF clients, servers, transports, flow, Good
<1>6. ASSUME NEW i \in 1..Len(clients), NEW j \in 1..Len(servers)
      PROVE  IsSequence(overs(i, j)) /\ \A d \in ToSet(overs(i, j)) : Good(d)
  <2> DEFINE m == overs(i, j)
  <2>0. DOMAIN transports = 1..Len(transports)
    BY <1>2, SequenceFacts
  <2>1. m = [k \in DOMAIN transports |-> m[k]] /\ \A k \in 1..Len(transports) : m[k] = flow(i, j, k)
    BY <2>0
  <2> HIDE DEF m
  <2>2. IsSequence(m) /\ \A d \in ToSet(m) : \E k \in 1..Len(transports) : d = m[k]
    BY <1>2, <2>1, Rewritten
  <2>3. IsSequence(m) /\ \A d \in ToSet(m) : Good(d)
    BY <1>5, <2>1, <2>2
  <2> QED  BY <2>3 DEF m
<1> HIDE DEF overs
<1>7. ASSUME NEW i \in 1..Len(clients)
      PROVE  IsSequence(to(i)) /\ \A d \in ToSet(to(i)) : Good(d)
  <2> DEFINE m == tos(i)
  <2>0. DOMAIN servers = 1..Len(servers)
    BY <1>3, SequenceFacts
  <2>1. m = [j \in DOMAIN servers |-> m[j]] /\ \A j \in 1..Len(servers) : m[j] = overs(i, j)
    BY <2>0
  <2> HIDE DEF m
  <2>2. IsSequence(m) /\ Len(m) = Len(servers)
    BY <1>3, <2>1, Rewritten
  <2>3. \A j \in 1..Len(m) : IsSequence(m[j]) /\ \A d \in ToSet(m[j]) : Good(d)
    BY <1>6, <2>1, <2>2
  <2>4. IsSequence(FlattenSeq(m)) /\ ToSet(FlattenSeq(m)) = UNION {ToSet(m[j]) : j \in 1..Len(m)}
    BY <2>2, <2>3, Flattened
  <2>5. \A d \in ToSet(FlattenSeq(m)) : Good(d)
    BY <2>3, <2>4
  <2> QED  BY <2>4, <2>5 DEF m
<1> HIDE DEF to
<1>8. /\ IsSequence(froms) /\ Len(froms) = Len(clients)
      /\ \A i \in 1..Len(froms) : IsSequence(froms[i]) /\ \A d \in ToSet(froms[i]) : Good(d)
  <2>0. DOMAIN clients = 1..Len(clients)
    BY <1>4, SequenceFacts
  <2>1. froms = [i \in DOMAIN clients |-> froms[i]] /\ \A i \in 1..Len(clients) : froms[i] = to(i)
    BY <2>0
  <2> HIDE DEF froms
  <2>2. IsSequence(froms) /\ Len(froms) = Len(clients)
    BY <1>4, <2>1, Rewritten
  <2> QED  BY <1>7, <2>1, <2>2
<1> HIDE DEF froms
<1>9. IsSequence(FlattenSeq(froms)) /\ ToSet(FlattenSeq(froms)) = UNION {ToSet(froms[i]) : i \in 1..Len(froms)}
  BY <1>8, Flattened
<1>10. \A d \in ToSet(FlattenSeq(froms)) : Good(d)
  BY <1>8, <1>9
<1> QED  BY <1>1, <1>9, <1>10 DEF Good, servers

\* A dependency of an enabled category has its ground, unless a host would
\* depend on itself.
LEMMA DependencyGrounded ==
    ASSUME NEW name \in DOMAIN InfraKey, InfraKey[name] \in DOMAIN config.infra,
           config.infer, config.categories[name].enabled,
           NEW d, Dependency(d, config.infra[InfraKey[name]]), d.source # d.destination
    PROVE  Grounded(d)
<1>a. PICK client \in Clients, server \in ToSet(config.infra[InfraKey[name]]) :
        \E transport : transport.confidence \in Int /\ d = InferredFlow(client, server, transport)
  BY DEF Dependency
<1>1. PICK transport : transport.confidence \in Int /\ d = InferredFlow(client, server, transport)
  BY <1>a
<1>2. Leads(d, client, server)
  BY <1>1, InferredFlowFacts
<1>3. FromRole(d)
  BY <1>1, <1>2 DEF FromRole, Clients, Leads
<1> QED  BY <1>2, <1>3 DEF Grounded, Leads

LEMMA InferStep == InputsInv /\ Loops /\ Infer => Loops'
<1> SUFFICES ASSUME InputsInv, Loops, Infer
             PROVE  Loops'
  OBVIOUS
<1> DEFINE name == CategoryOrder[n + 1]
           enabled == config.categories[name].enabled
           configured == InfraKey[name] \in DOMAIN config.infra
           servers == IF configured THEN config.infra[InfraKey[name]] ELSE <<>>
           before == [flows |-> flows, emitted |-> emitted]
           S == ToSet(Dependencies(name))
           made == IF enabled /\ servers # <<>>
                   THEN FoldLeft(AddInferred, before, Dependencies(name))
                   ELSE before
<1>1. /\ In("infer", InferenceLoop) /\ UNCHANGED <<hosts, records, best>>
      /\ flows' = made.flows /\ emitted' = made.emitted /\ reviews \subseteq reviews'
  BY DEF Infer
<1>2. config.infer /\ name \in DOMAIN InfraKey
  <2>1. n \in Nat /\ n < Len(InferenceLoop)
    BY <1>1 DEF In, InputsInv
  <2>2. CASE ~config.infer
    <3>1. InferenceLoop = <<>>
      BY <2>2 DEF InferenceLoop
    <3> QED  BY <2>1, <3>1, EmptySequence
  <2>3. CASE config.infer
    <3>1. Len(CategoryOrder) = 6 /\ InferenceLoop = CategoryOrder
      BY <2>3 DEF InferenceLoop, CategoryOrder
    <3>2. n + 1 \in 1..6
      <4>1. n < 6
        BY <2>1, <3>1, Zenon
      <4> QED  BY <2>1, <4>1
    <3>3. \A i \in 1..6 : CategoryOrder[i] \in DOMAIN InfraKey
      BY DEF CategoryOrder, InfraKey
    <3> QED  BY <2>3, <3>2, <3>3
  <2> QED  BY <2>2, <2>3
<1>3. Taking(made, flows, S) /\ \A d \in S : made # before /\ d.source # d.destination => Grounded(d)
  <2>0. before.flows = flows /\ before.emitted = emitted
    OBVIOUS
  <2>1. Taking(before, flows, S)
    <3> HIDE DEF before, S
    <3> QED  BY <2>0 DEF Taking, Loops, FlowsInv, OnceInv
  <2>2. CASE enabled /\ servers # <<>>
    <3>1. configured /\ servers = config.infra[InfraKey[name]] /\ made = FoldLeft(AddInferred, before, Dependencies(name))
      BY <2>2
    <3>2. IsSequence(Dependencies(name)) /\ \A d \in S : Dependency(d, config.infra[InfraKey[name]])
      BY <1>2, <3>1, DependenciesFacts
    <3>3. enabled
      BY <2>2
    <3>4. \A d \in S : d.source # d.destination => Grounded(d)
      <4> HIDE DEF S, name
      <4> QED  BY <1>2, <3>1, <3>2, <3>3, DependencyGrounded
    <3>5. Taking(FoldLeft(AddInferred, before, Dependencies(name)), flows, S)
      <4> HIDE DEF before, name
      <4> QED  BY <2>1, <3>2, FoldTakes
    <3> HIDE DEF S, before, made
    <3> QED  BY <3>1, <3>4, <3>5
  <2>3. CASE ~(enabled /\ servers # <<>>)
    <3>1. made = before
      BY <2>3
    <3> HIDE DEF S, before, made
    <3> QED  BY <2>1, <3>1
  <2> QED  BY <2>2, <2>3
<1>4. made = before => made.flows = flows
  OBVIOUS
<1> HIDE DEF made, before, S
<1>5. \A f \in ToSet(flows') : Grounded(f)
  <2>1. CASE made = before
    BY <1>1, <1>4, <2>1 DEF Loops, FlowsInv
  <2>2. CASE made # before
    BY <1>1, <1>3, <2>2 DEF Taking, Loops, FlowsInv
  <2> QED  BY <2>1, <2>2
<1>6. IsSequence(flows') /\ Once(flows', emitted') /\ ToSet(flows) \subseteq ToSet(flows')
  BY <1>1, <1>3 DEF Taking
<1>7. phase = "infer" /\ phase' = "infer" /\ UNCHANGED <<scan, config, hosts, records>>
  BY <1>1 DEF In, inputs
<1>8. FlowsInv'
  <2>1. ASSUME NEW f \in ToSet(flows')
        PROVE  Grounded(f)'
    BY <1>5, <1>7, SameGround
  <2> QED  BY <1>6, <1>7, <2>1 DEF FlowsInv
<1>9. OnceInv'
  BY <1>6 DEF OnceInv
<1>10. TreatedInv'
  <2>1. SeenRecords' = SeenRecords
    BY <1>7 DEF SeenRecords
  <2>2. ASSUME NEW i \in 1..SeenRecords, NEW x, x = records[i]
        PROVE  Treated(x)'
    <3>1. Treated(x)
      BY <2>2 DEF Loops, TreatedInv
    <3> QED  BY <1>1, <1>6, <1>7, <3>1, TreatedGrow
  <2> QED  BY <1>7, <2>1, <2>2 DEF TreatedInv
<1> QED  BY <1>8, <1>9, <1>10 DEF Loops

-------------------------------------------------------------------------------
(***************************************************************************)
(* Merging by key.                                                         *)
(***************************************************************************)

\* Not to be higher is a linear order on the ranks of flows.
LEMMA RanksAreLinear ==
    ASSUME NEW f, NEW g, NEW h, WellFormed(f), WellFormed(g), WellFormed(h)
    PROVE  /\ ~Higher(Rank(f), Rank(f))
           /\ Higher(Rank(f), Rank(g)) => ~Higher(Rank(g), Rank(f))
           /\ ~Higher(Rank(f), Rank(g)) /\ ~Higher(Rank(g), Rank(h)) => ~Higher(Rank(f), Rank(h))
<1>1. \A x : WellFormed(x) => Priority[x.evidence] \in Int /\ x.confidence \in Int
  <2>1. \A e \in DOMAIN Priority : Priority[e] \in 0..4
    BY PriorityFacts
  <2>2. \A e \in DOMAIN Priority : Priority[e] \in Int
    BY <2>1
  <2> QED  BY <2>2 DEF WellFormed
<1>2. \A x, y : Higher(Rank(x), Rank(y)) <=>
        Priority[x.evidence] > Priority[y.evidence]
          \/ (Priority[x.evidence] = Priority[y.evidence] /\ x.confidence > y.confidence)
  BY DEF Higher, Rank
<1> QED  BY <1>1, <1>2

\* Of two flows with one key the better one beats both.
LEMMA BetterBeats ==
    ASSUME NEW f, NEW g, WellFormed(f), WellFormed(g), Key(f) = Key(g)
    PROVE  /\ Beaten(f, Better(f, g)) /\ Beaten(g, Better(f, g))
           /\ Grounded(f) /\ Grounded(g) => Grounded(Better(f, g))
<1>0. /\ ~Higher(Rank(f), Rank(f)) /\ ~Higher(Rank(g), Rank(g))
      /\ Higher(Rank(f), Rank(g)) => ~Higher(Rank(g), Rank(f))
  BY RanksAreLinear
<1>1. CASE Higher(Rank(f), Rank(g))
  <2> DEFINE m == Merged(f, g)
  <2>1. /\ Key(m) = Key(f) /\ Rank(m) = Rank(f) /\ m.scripts = f.scripts \union g.scripts
        /\ m.purpose = IF f.purpose = "" THEN g.purpose ELSE f.purpose
        /\ Grounded(f) => Grounded(m)
    BY MergedFacts
  <2>2. Better(f, g) = m
    BY <1>1 DEF Better
  <2> HIDE DEF m
  <2> QED  BY <1>0, <1>1, <2>1, <2>2 DEF Beaten
<1>2. CASE ~Higher(Rank(f), Rank(g))
  <2> DEFINE m == Merged(g, f)
  <2>1. /\ Key(m) = Key(g) /\ Rank(m) = Rank(g) /\ m.scripts = g.scripts \union f.scripts
        /\ m.purpose = IF g.purpose = "" THEN f.purpose ELSE g.purpose
        /\ Grounded(g) => Grounded(m)
    BY MergedFacts
  <2>2. Better(f, g) = m
    BY <1>2 DEF Better
  <2> HIDE DEF m
  <2> QED  BY <1>0, <1>2, <2>1, <2>2 DEF Beaten
<1> QED  BY <1>1, <1>2

\* What is beaten by what is beaten is beaten.
LEMMA BeatenByBeaten ==
    ASSUME NEW f, NEW g, NEW h, WellFormed(f), WellFormed(g), WellFormed(h), Beaten(f, g), Beaten(g, h)
    PROVE  Beaten(f, h)
<1>1. ~Higher(Rank(f), Rank(h))
  BY RanksAreLinear DEF Beaten
<1> QED  BY <1>1 DEF Beaten

LEMMA DedupeStep == InputsInv /\ FlowsInv /\ BestInv /\ Dedupe => BestInv'
<1> SUFFICES ASSUME InputsInv, FlowsInv, BestInv, Dedupe
             PROVE  BestInv'
  OBVIOUS
<1> DEFINE f == flows[n + 1]
           k == Key(f)
           new == IF k \in DOMAIN best THEN Better(f, best[k]) ELSE f
<1>1. /\ phase = "dedupe" /\ phase' = "dedupe" /\ n' = n + 1 /\ n < Len(flows)
      /\ UNCHANGED <<scan, config, hosts, records, flows>> /\ best' = With(best, k, new)
  BY DEF Dedupe, In, inputs
<1>2. /\ n \in Nat /\ Len(flows) \in Nat /\ \A i \in 1..Len(flows) : flows[i] \in ToSet(flows)
  BY SequenceFacts DEF InputsInv, FlowsInv
<1>3. n + 1 \in 1..Len(flows) /\ 1..(n + 1) = (1..n) \union {n + 1} /\ 1..n \subseteq 1..Len(flows)
  BY <1>1, <1>2
<1>4. SeenFlows = n /\ SeenFlows' = n + 1
  BY <1>1 DEF SeenFlows
<1>5. Grounded(f) /\ WellFormed(f)
  BY <1>2, <1>3 DEF FlowsInv, Grounded
<1>6. \A i \in 1..n : WellFormed(flows[i])
  BY <1>2, <1>3 DEF FlowsInv, Grounded
<1>7. /\ DOMAIN best = {Key(flows[i]) : i \in 1..n}
      /\ \A x \in DOMAIN best : Grounded(best[x])
      /\ \A i \in 1..n : Beaten(flows[i], best[Key(flows[i])])
  BY <1>4 DEF BestInv
<1>8. DOMAIN best' = DOMAIN best \union {k} /\ best'[k] = new /\ \A x \in DOMAIN best : x # k => best'[x] = best[x]
  BY <1>1 DEF With
<1> HIDE DEF f, k
<1>9. /\ Grounded(new) /\ Beaten(f, new)
      /\ k \in DOMAIN best => Beaten(best[k], new)
  <2>1. CASE k \in DOMAIN best
    <3>1. Grounded(best[k]) /\ WellFormed(best[k])
      BY <1>7, <2>1 DEF Grounded
    <3>2. Key(best[k]) = k
      BY <1>7, <2>1 DEF Beaten
    <3>3. Key(f) = k
      BY DEF k
    <3>4. new = Better(f, best[k])
      BY <2>1
    <3> HIDE DEF new
    <3> QED  BY <1>5, <2>1, <3>1, <3>2, <3>3, <3>4, BetterBeats
  <2>2. CASE k \notin DOMAIN best
    <3>1. Beaten(f, f)
      BY <1>5, RanksAreLinear DEF Beaten
    <3> QED  BY <1>5, <2>2, <3>1
  <2> QED  BY <2>1, <2>2
<1> HIDE DEF new
<1>10. ASSUME NEW i \in 1..(n + 1)
       PROVE  Beaten(flows[i], best'[Key(flows[i])])
  <2>1. CASE i = n + 1
    BY <1>8, <1>9, <2>1 DEF f, k
  <2>2. CASE i # n + 1
    <3>0. i \in 1..n
      BY <1>3, <2>2
    <3>1. CASE Key(flows[i]) # k
      BY <1>7, <1>8, <3>0, <3>1
    <3>2. CASE Key(flows[i]) = k
      <4>1. k \in DOMAIN best /\ Beaten(flows[i], best[k])
        BY <1>7, <3>0, <3>2
      <4>2. WellFormed(flows[i]) /\ WellFormed(best[k]) /\ WellFormed(new)
        BY <1>6, <1>7, <1>9, <3>0, <4>1 DEF Grounded
      <4>3. Beaten(flows[i], new)
        BY <1>9, <4>1, <4>2, BeatenByBeaten
      <4> QED  BY <1>8, <3>2, <4>3
    <3> QED  BY <3>1, <3>2
  <2> QED  BY <2>1, <2>2
<1>11. DOMAIN best' = {Key(flows[i]) : i \in 1..(n + 1)}
  BY <1>3, <1>7, <1>8 DEF k, f
<1>12. ASSUME NEW x \in DOMAIN best'
       PROVE  Grounded(best'[x])
  BY <1>7, <1>8, <1>9
<1>13. \A x \in DOMAIN best' : Grounded(best[x])'
  <2> SUFFICES ASSUME NEW x \in DOMAIN best', NEW b, b = best'[x]
               PROVE  Grounded(b)'
    OBVIOUS
  <2>1. Grounded(b)
    BY <1>12
  <2> QED  BY <1>1, <2>1, SameGround
<1>14. n' <= Len(flows')
  BY <1>1, <1>2
<1> QED  BY <1>1, <1>4, <1>10, <1>11, <1>13, <1>14 DEF BestInv

LEMMA BestStays ==
    ASSUME BestInv, UNCHANGED <<scan, config, hosts, records, flows, best>>, SeenFlows' = SeenFlows,
           phase' = "dedupe" => n' <= Len(flows')
    PROVE  BestInv'
<1>1. \A x \in DOMAIN best' : Grounded(best[x])'
  <2> SUFFICES ASSUME NEW x \in DOMAIN best', NEW b, b = best'[x]
               PROVE  Grounded(b)'
    OBVIOUS
  <2>1. Grounded(b)
    BY DEF BestInv
  <2> QED  BY <2>1, SameGround
<1> QED  BY <1>1 DEF BestInv

\* Before the flows are merged there is no best one.
LEMMA NoBest ==
    ASSUME BestInv, phase \notin {"dedupe", "done"}, phase' \notin {"dedupe", "done"}, best' = best
    PROVE  BestInv'
<1>1. SeenFlows = 0 /\ SeenFlows' = 0 /\ 1..0 = {}
  BY DEF SeenFlows
<1>2. DOMAIN best = {} /\ DOMAIN best' = {}
  BY <1>1 DEF BestInv
<1> QED  BY <1>1, <1>2 DEF BestInv

-------------------------------------------------------------------------------
(***************************************************************************)
(* The invariant is one.                                                   *)
(***************************************************************************)

LEMMA InvInit == Init => Inv
<1> SUFFICES ASSUME Init
             PROVE  Inv
  OBVIOUS
<1>1. /\ scan \in Scans /\ config \in Configs /\ phase = "parse" /\ n = 0
      /\ hosts = <<>> /\ records = <<>> /\ flows = <<>> /\ reviews = {} /\ emitted = {} /\ best = <<>>
  BY DEF Init
<1>2. DOMAIN <<>> = {} /\ 1..0 = {}
  OBVIOUS
<1>3. InputsInv
  BY <1>1 DEF InputsInv, Phases
<1>4. HostsInv
  <2>1. ReadElements = 0
    BY <1>1 DEF ReadElements
  <2> QED  BY <1>1, <1>2, <2>1 DEF HostsInv, AllRead
<1>5. RecordsInv
  BY <1>1, EmptySequence DEF RecordsInv
<1>6. FlowsInv
  BY <1>1, EmptySequence DEF FlowsInv
<1>7. TreatedInv
  BY <1>1, <1>2 DEF TreatedInv, SeenRecords
<1>8. OnceInv
  BY <1>1, <1>2, EmptySequence DEF OnceInv, Once
<1>9. BestInv
  BY <1>1, <1>2 DEF BestInv, SeenFlows
<1> QED  BY <1>3, <1>4, <1>5, <1>6, <1>7, <1>8, <1>9 DEF Inv

\* While the report is read nothing else is made.
LEMMA InvParse == Inv /\ Parse => Inv'
<1> SUFFICES ASSUME Inv, Parse
             PROVE  Inv'
  OBVIOUS
<1>1. /\ phase = "parse" /\ phase' = "parse"
      /\ UNCHANGED <<scan, config, records, flows, reviews, emitted, best>>
  BY DEF Parse, In, inputs
<1>2. InputsInv'
  BY InputsStep DEF Inv, Next
<1>3. HostsInv'
  BY ParseStep DEF Inv
<1>4. RecordsInv'
  BY <1>1 DEF Inv, RecordsInv
<1>5. FlowsInv'
  <2>1. flows = <<>> /\ flows' = <<>>
    BY <1>1 DEF Inv, FlowsInv
  <2> QED  BY <2>1, EmptySequence DEF FlowsInv
<1>6. TreatedInv'
  <2>1. SeenRecords' = 0 /\ 1..0 = {}
    BY <1>1 DEF SeenRecords
  <2> QED  BY <2>1 DEF TreatedInv
<1>7. OnceInv'
  BY <1>1 DEF Inv, OnceInv
<1>8. BestInv'
  BY <1>1, NoBest DEF Inv
<1> QED  BY <1>2, <1>3, <1>4, <1>5, <1>6, <1>7, <1>8 DEF Inv

LEMMA InvEnrich == Inv /\ Enrich => Inv'
<1> SUFFICES ASSUME Inv, Enrich
             PROVE  Inv'
  OBVIOUS
<1>1. /\ phase = "parse" /\ phase' = "observe" /\ n' = 0
      /\ UNCHANGED <<scan, config, flows, emitted, best>>
  BY EnrichedHosts
<1>2. InputsInv'
  BY InputsStep DEF Inv, Next
<1>3. HostsInv'
  BY EnrichStep DEF Inv
<1>4. RecordsInv'
  BY ListStep DEF Inv
<1>5. FlowsInv'
  <2>1. flows' = <<>>
    BY <1>1 DEF Inv, FlowsInv
  <2> QED  BY <2>1, EmptySequence DEF FlowsInv
<1>6. TreatedInv'
  <2>1. SeenRecords' = 0 /\ 1..0 = {}
    BY <1>1 DEF SeenRecords
  <2> QED  BY <2>1 DEF TreatedInv
<1>7. OnceInv'
  BY <1>1 DEF Inv, OnceInv
<1>8. BestInv'
  BY <1>1, NoBest DEF Inv
<1> QED  BY <1>2, <1>3, <1>4, <1>5, <1>6, <1>7, <1>8 DEF Inv

\* The loops that make flows leave hosts and records alone.
LEMMA InvLoop ==
    ASSUME Inv, InputsInv', Loops', phase \notin {"parse", "dedupe", "done"}, phase' = phase,
           UNCHANGED <<scan, config, hosts, records, best>>
    PROVE  Inv'
<1>1. HostsInv'
  <2>1. ReadElements' = ReadElements
    BY DEF ReadElements
  <2> QED  BY <2>1, HostsStay DEF Inv
<1>2. RecordsInv'
  BY SameRecords DEF Inv
<1>3. BestInv'
  BY NoBest DEF Inv
<1> QED  BY <1>1, <1>2, <1>3 DEF Inv, Loops

LEMMA InvQuiet == Inv /\ Quiet /\ InputsInv' => Inv'
<1> SUFFICES ASSUME Inv, Quiet, InputsInv'
             PROVE  Inv'
  OBVIOUS
<1>1. HostsInv'
  <2>1. ReadElements' = ReadElements
    BY DEF ReadElements, Quiet
  <2> QED  BY <2>1, HostsStay DEF Inv, Quiet
<1>2. RecordsInv'
  BY SameRecords DEF Inv, Quiet
<1>3. FlowsInv'
  <2>1. ASSUME NEW f \in ToSet(flows')
        PROVE  Grounded(f)'
    <3>1. Grounded(f)
      BY DEF Inv, FlowsInv, Quiet
    <3> QED  BY <3>1, SameGround DEF Quiet
  <2> QED  BY <2>1 DEF Inv, FlowsInv, Quiet
<1>4. TreatedInv'
  <2>1. ASSUME NEW i \in 1..SeenRecords, NEW x, x = records[i]
        PROVE  Treated(x)'
    <3>1. Treated(x)
      BY <2>1 DEF Inv, TreatedInv
    <3> QED  BY <3>1, TreatedGrow DEF Quiet
  <2> QED  BY <2>1 DEF Quiet, TreatedInv
<1>5. OnceInv'
  BY DEF Inv, OnceInv, Quiet
<1>6. BestInv'
  BY BestStays DEF Inv, Quiet
<1> QED  BY <1>1, <1>2, <1>3, <1>4, <1>5, <1>6 DEF Inv

LEMMA InvDedupe == Inv /\ Dedupe => Inv'
<1> SUFFICES ASSUME Inv, Dedupe
             PROVE  Inv'
  OBVIOUS
<1>1. /\ phase = "dedupe" /\ phase' = "dedupe"
      /\ UNCHANGED <<scan, config, hosts, records, flows, reviews, emitted>>
  BY DEF Dedupe, In, inputs
<1>2. InputsInv'
  BY InputsStep DEF Inv, Next
<1>3. HostsInv'
  <2>1. ReadElements' = ReadElements
    BY <1>1 DEF ReadElements
  <2> QED  BY <1>1, <2>1, HostsStay DEF Inv
<1>4. RecordsInv'
  BY <1>1, SameRecords DEF Inv
<1>5. FlowsInv'
  <2>1. ASSUME NEW f \in ToSet(flows')
        PROVE  Grounded(f)'
    <3>1. Grounded(f)
      BY <1>1 DEF Inv, FlowsInv
    <3> QED  BY <1>1, <3>1, SameGround
  <2> QED  BY <1>1, <2>1 DEF Inv, FlowsInv
<1>6. TreatedInv'
  <2>0. SeenRecords' = SeenRecords
    BY <1>1 DEF SeenRecords
  <2>1. ASSUME NEW i \in 1..SeenRecords, NEW x, x = records[i]
        PROVE  Treated(x)'
    <3>1. Treated(x)
      BY <2>1 DEF Inv, TreatedInv
    <3> QED  BY <1>1, <3>1, TreatedGrow
  <2> QED  BY <1>1, <2>0, <2>1 DEF TreatedInv
<1>7. OnceInv'
  BY <1>1 DEF Inv, OnceInv
<1>8. BestInv'
  BY DedupeStep DEF Inv
<1> QED  BY <1>2, <1>3, <1>4, <1>5, <1>6, <1>7, <1>8 DEF Inv

LEMMA InvStutters == Inv /\ UNCHANGED vars => Inv'
<1> SUFFICES ASSUME Inv, UNCHANGED vars
             PROVE  Inv'
  OBVIOUS
<1>1. CASE phase # "parse"
  <2>1. Quiet
    BY <1>1 DEF vars, Quiet, SeenRecords, SeenFlows, Inv, BestInv
  <2>2. InputsInv'
    BY InputsStep DEF Inv
  <2> QED  BY <2>1, <2>2, InvQuiet
<1>2. CASE phase = "parse"
  <2>1. InputsInv'
    BY InputsStep DEF Inv
  <2>2. HostsInv'
    <3>1. ReadElements' = ReadElements
      BY DEF vars, ReadElements
    <3> QED  BY <3>1, HostsStay DEF Inv, vars
  <2>3. RecordsInv'
    BY <1>2 DEF Inv, RecordsInv, vars
  <2>4. FlowsInv'
    <3>1. flows' = <<>>
      BY <1>2 DEF Inv, FlowsInv, vars
    <3> QED  BY <3>1, EmptySequence DEF FlowsInv
  <2>5. TreatedInv'
    <3>1. SeenRecords' = 0 /\ 1..0 = {}
      BY <1>2 DEF SeenRecords, vars
    <3> QED  BY <3>1 DEF TreatedInv
  <2>6. OnceInv'
    BY DEF Inv, OnceInv, vars
  <2>7. BestInv'
    BY <1>2, NoBest DEF Inv, vars
  <2> QED  BY <2>1, <2>2, <2>3, <2>4, <2>5, <2>6, <2>7 DEF Inv
<1> QED  BY <1>1, <1>2

LEMMA InvInductive == Inv /\ [Next]_vars => Inv'
<1> SUFFICES ASSUME Inv, [Next]_vars
             PROVE  Inv'
  OBVIOUS
<1>0. InputsInv' /\ Loops /\ InputsInv /\ RecordsInv /\ FlowsInv
  BY InputsStep DEF Inv, Loops
<1>1. CASE Parse
  BY <1>1, InvParse
<1>2. CASE Enrich
  BY <1>2, InvEnrich
<1>3. CASE Observe
  <2>1. Loops'
    BY <1>0, <1>3, ObserveStep
  <2>2. phase = "observe" /\ phase' = phase /\ UNCHANGED <<scan, config, hosts, records, best>>
    BY <1>0, <1>3, ObserveFacts
  <2> QED  BY <1>0, <2>1, <2>2, InvLoop
<1>4. CASE Define
  <2>1. Loops'
    BY <1>0, <1>4, DefineStep
  <2>2. phase = "define" /\ phase' = phase /\ UNCHANGED <<scan, config, hosts, records, best>>
    BY <1>4 DEF Define, In, inputs
  <2> QED  BY <1>0, <2>1, <2>2, InvLoop
<1>5. CASE Expect
  <2>1. Loops'
    BY <1>0, <1>5, ExpectStep
  <2>2. In("expect", ConfiguredHosts) /\ UNCHANGED <<hosts, records, best>>
    BY <1>5, Zenon DEF Expect
  <2>3. phase = "expect" /\ phase' = phase /\ UNCHANGED <<scan, config, hosts, records, best>>
    BY <2>2 DEF In, inputs
  <2> QED  BY <1>0, <2>1, <2>3, InvLoop
<1>6. CASE Infer
  <2>1. Loops'
    BY <1>0, <1>6, InferStep
  <2>2. In("infer", InferenceLoop) /\ UNCHANGED <<hosts, records, best>>
    BY <1>6, Zenon DEF Infer
  <2>3. phase = "infer" /\ phase' = phase /\ UNCHANGED <<scan, config, hosts, records, best>>
    BY <2>2 DEF In, inputs
  <2> QED  BY <1>0, <2>1, <2>3, InvLoop
<1>7. CASE Dedupe
  BY <1>7, InvDedupe
<1>8. CASE \/ ToDefinitions \/ ToExpectations \/ ToInference \/ ToCrossReferences
           \/ CrossReference \/ ToMerging \/ Finish
  <2>1. Quiet
    BY <1>0, <1>8, QuietSteps
  <2> QED  BY <1>0, <2>1, InvQuiet
<1>9. CASE UNCHANGED vars
  BY <1>9, InvStutters
<1> QED  BY <1>1, <1>2, <1>3, <1>4, <1>5, <1>6, <1>7, <1>8, <1>9 DEF Next

LEMMA Invariance == Spec => []Inv
BY InvInit, InvInductive, PTL DEF Spec

-------------------------------------------------------------------------------
(***************************************************************************)
(* What the invariant says of the result.                                  *)
(***************************************************************************)

LEMMA InvParts ==
    ASSUME Inv
    PROVE  InputsInv /\ HostsInv /\ RecordsInv /\ FlowsInv /\ TreatedInv /\ OnceInv /\ BestInv
BY DEF Inv

\* What is reported of a port, in the words of the invariant.
LEMMA ReportsFacts ==
    ASSUME InputsInv, NEW a, NEW p
    PROVE  Reports(a, p) = OfPort(ReportedOf(a, Len(scan)), p)
<1>1. DOMAIN scan = 1..Len(scan)
  BY ScanFacts, SequenceFacts
<1> QED  BY <1>1 DEF Reports, OfPort, ReportedOf

\* At the end the record kept for a port is in the inventory, and has had
\* its effect.
LEMMA PortFacts ==
    ASSUME Inv, phase = "done", NEW a \in DOMAIN hosts, NEW p \in DOMAIN hosts[a].ports
    PROVE  /\ Kept(hosts[a].ports[p], p, Reports(a, p))
           /\ RecordOf(a, p) \in ToSet(records) /\ Treated(RecordOf(a, p))
<1>0. InputsInv /\ HostsInv /\ RecordsInv /\ TreatedInv
  BY InvParts
<1>1. Kept(hosts[a].ports[p], p, Reports(a, p))
  <2>1. Holds(hosts[a].ports, ReportedOf(a, Len(scan)))
    BY <1>0 DEF HostsInv, ReadElements
  <2> QED  BY <1>0, <2>1, ReportsFacts DEF Holds
<1>2. RecordOf(a, p) \in ToSet(records)
  BY <1>0 DEF RecordsInv, EveryPort
<1>3. Treated(RecordOf(a, p))
  <2>1. DOMAIN records = 1..Len(records) /\ SeenRecords = Len(records)
    BY <1>0, SequenceFacts DEF RecordsInv, SeenRecords
  <2>2. PICK i \in DOMAIN records : records[i] = RecordOf(a, p)
    BY <1>2 DEF ToSet
  <2> QED  BY <1>0, <2>1, <2>2 DEF TreatedInv
<1> QED  BY <1>1, <1>2, <1>3

LEMMA RecordFacts ==
    ASSUME NEW a, NEW p
    PROVE  LET rec == hosts[a].ports[p]
               sr == RecordOf(a, p)
           IN /\ sr.ip = a /\ sr.port = rec.port /\ sr.state = rec.state
              /\ sr.scripts = Ids(rec.scripts) /\ sr.final = Normalize(rec).final
              /\ sr.expected = Normalize(rec).expected /\ sr.raw = rec.name
              /\ sr.risk = AssessPort(config, a, hosts[a], rec, Normalize(rec))
              /\ sr.approved = Approved(config, a, rec.port)
BY DEF RecordOf, ServiceRecord, Ids

\* The inventory has one record of a port of a host.
LEMMA OneRecord ==
    ASSUME Inv, phase = "done", NEW sr \in ToSet(records)
    PROVE  /\ sr.ip \in DOMAIN hosts /\ sr.port \in DOMAIN hosts[sr.ip].ports
           /\ sr = RecordOf(sr.ip, sr.port)
<1>0. RecordsInv
  BY InvParts
<1>1. PICK a \in DOMAIN hosts : \E p \in DOMAIN hosts[a].ports : sr = RecordOf(a, p)
  BY <1>0 DEF RecordsInv, OnlyPorts
<1>2. PICK p \in DOMAIN hosts[a].ports : sr = RecordOf(a, p)
  BY <1>1
<1>3. hosts[a].ports[p].port = p
  BY PortFacts DEF Kept
<1>4. sr.ip = a /\ sr.port = p
  BY <1>2, <1>3, RecordFacts
<1> QED  BY <1>2, <1>4

\* A flow of the result is grounded, and the best of the flows with its key.
LEMMA ResultFacts ==
    ASSUME Inv, phase = "done", NEW f \in Results
    PROVE  /\ Grounded(f) /\ WellFormed(f)
           /\ Key(f) \in DOMAIN best /\ best[Key(f)] = f
           /\ \A i \in 1..Len(flows) : Key(flows[i]) = Key(f) => Beaten(flows[i], f)
<1>0. BestInv
  BY InvParts
<1>1. PICK k \in DOMAIN best : f = best[k]
  BY DEF Results
<1>2. SeenFlows = Len(flows)
  BY DEF SeenFlows
<1>3. PICK i \in 1..Len(flows) : k = Key(flows[i])
  BY <1>0, <1>2 DEF BestInv
<1>4. Key(f) = k
  BY <1>0, <1>1, <1>2, <1>3 DEF BestInv, Beaten
<1>5. Grounded(f) /\ WellFormed(f)
  BY <1>0, <1>1 DEF BestInv, Grounded
<1>6. \A j \in 1..Len(flows) : Key(flows[j]) = Key(f) => Beaten(flows[j], f)
  BY <1>0, <1>1, <1>2, <1>4 DEF BestInv
<1> QED  BY <1>1, <1>4, <1>5, <1>6

\* The best flow to an open port is an observed one: nothing outranks it.
LEMMA OpenWins ==
    ASSUME Inv, phase = "done", NEW a \in DOMAIN hosts, NEW p \in DOMAIN hosts[a].ports,
           hosts[a].ports[p].state = "open"
    PROVE  \E g \in Results : FromOpen(g, RecordOf(a, p))
<1>0. FlowsInv /\ BestInv
  BY InvParts
<1>1. RecordOf(a, p).state = "open" /\ RecordOf(a, p).ip = a /\ RecordOf(a, p).port = p
  BY PortFacts, RecordFacts DEF Kept
<1>2. PICK f \in ToSet(flows) : FromOpen(f, RecordOf(a, p))
  BY <1>1, PortFacts DEF Treated
<1>3. PICK i \in 1..Len(flows) : flows[i] = f
  BY <1>0, SequenceFacts DEF FlowsInv, ToSet
<1>4. Key(f) \in DOMAIN best /\ Beaten(f, best[Key(f)])
  BY <1>0, <1>3 DEF BestInv, SeenFlows
<1> DEFINE g == best[Key(f)]
<1>5. g \in Results
  BY <1>4 DEF Results
<1>6. Grounded(g) /\ WellFormed(g) /\ WellFormed(f)
  BY <1>0, <1>4 DEF BestInv, FlowsInv, Grounded
<1> HIDE DEF g
<1>7. g.evidence = "Observed"
  <2>1. f.evidence = "Observed" /\ ~Higher(Rank(f), Rank(g))
    BY <1>2, <1>4 DEF FromOpen, Beaten, g
  <2>2. Priority[f.evidence] = 4
    BY <2>1, PriorityFacts
  <2>3. ~(4 > Priority[g.evidence])
    BY <2>1, <2>2 DEF Higher, Rank
  <2>4. g.evidence \in {"Observed", "User-Defined", "Inferred", "Manual Review Required", "Unknown"}
    BY <1>6, PriorityFacts DEF WellFormed
  <2>5. CASE g.evidence # "Observed"
    <3>1. Priority[g.evidence] \in {0, 1, 2, 3}
      BY <2>4, <2>5, PriorityFacts
    <3>2. \A x \in {0, 1, 2, 3} : 4 > x
      OBVIOUS
    <3> QED  BY <2>3, <3>1, <3>2
  <2> QED  BY <2>5
<1>8. PICK sr \in ToSet(records) : FromOpen(g, sr)
  BY <1>6, <1>7 DEF Grounded, FromUncertain, FromDeclaration, FromRole
<1>9. Key(f) = <<Scanner, a, p, "inbound">> /\ Key(g) = <<Scanner, sr.ip, sr.port, "inbound">>
  BY <1>1, <1>2, <1>8 DEF FromOpen
<1>10. sr.ip = a /\ sr.port = p
  <2>1. Key(g) = Key(f)
    BY <1>4 DEF Beaten, g
  <2>2. <<Scanner, a, p, "inbound">> = <<Scanner, sr.ip, sr.port, "inbound">>
    BY <1>9, <2>1
  <2> QED  BY <2>2
<1>11. sr = RecordOf(a, p)
  BY <1>10, OneRecord
<1> QED  BY <1>5, <1>8, <1>11

\* An observed flow of the result is that of an open port.
LEMMA ObservedIsOpen ==
    ASSUME Inv, phase = "done", NEW f \in Results, f.evidence = "Observed"
    PROVE  /\ f.source = Scanner
           /\ f.destination \in DOMAIN hosts /\ f.port \in DOMAIN hosts[f.destination].ports
           /\ hosts[f.destination].ports[f.port].state = "open"
<1>1. PICK sr \in ToSet(records) : FromOpen(f, sr)
  BY ResultFacts DEF Grounded, FromUncertain, FromDeclaration, FromRole
<1>2. f.source = Scanner /\ f.destination = sr.ip /\ f.port = sr.port /\ sr.state = "open"
  BY <1>1 DEF FromOpen, Key
<1>3. /\ sr.ip \in DOMAIN hosts /\ sr.port \in DOMAIN hosts[sr.ip].ports
      /\ sr = RecordOf(sr.ip, sr.port)
  BY OneRecord
<1>4. hosts[sr.ip].ports[sr.port].state = "open"
  BY <1>2, <1>3, RecordFacts
<1> QED  BY <1>2, <1>3, <1>4

\* Of the flows with one key the result has the best, with the scripts and
\* the purpose of the others: no key is lost in _dedupe, whatever the order
\* the flows were made in.
THEOREM BestIsKept == Spec => []BestOfEachKey
<1>1. Inv => BestOfEachKey
  BY DEF Inv, BestInv, SeenFlows, BestOfEachKey, Beaten
<1> QED  BY <1>1, Invariance, PTL

\* A port that was only ever reported open|filtered is reviewed, and no
\* setting makes an observed flow of it.
THEOREM UncertainIsReviewed == Spec => []UncertainReviewed
<1>1. ASSUME Inv, phase = "done", NEW a \in DOMAIN hosts, NEW p \in DOMAIN hosts[a].ports,
             \A r \in Reports(a, p) : r.state = "open|filtered"
      PROVE  /\ Review("Uncertain port state", <<a, p>>) \in reviews
             /\ \A f \in Results : f.destination = a /\ f.port = p => f.evidence # "Observed"
  <2>1. hosts[a].ports[p].state = "open|filtered" /\ hosts[a].ports[p].port = p
    BY <1>1, PortFacts DEF Kept
  <2>2. Review("Uncertain port state", <<a, p>>) \in reviews
    <3>1. Treated(RecordOf(a, p))
      BY <1>1, PortFacts
    <3>2. RecordOf(a, p).state = "open|filtered" /\ RecordOf(a, p).ip = a /\ RecordOf(a, p).port = p
      BY <2>1, RecordFacts
    <3> QED  BY <3>1, <3>2 DEF Treated
  <2>3. ASSUME NEW f \in Results, f.destination = a, f.port = p, f.evidence = "Observed"
        PROVE  FALSE
    BY <1>1, <2>1, <2>3, ObservedIsOpen
  <2> QED  BY <2>2, <2>3
<1>2. Inv => UncertainReviewed
  BY <1>1 DEF UncertainReviewed
<1> QED  BY <1>2, Invariance, PTL

\* An inferred flow of the result is the only flow with its key.
LEMMA InferredAlone ==
    ASSUME Inv, phase = "done", NEW f \in Results, f.evidence = "Inferred",
           NEW i \in 1..Len(flows), NEW j \in 1..Len(flows),
           Key(flows[i]) = Key(f), Key(flows[j]) = Key(f)
    PROVE  i = j
<1>0. FlowsInv /\ OnceInv
  BY InvParts
<1>1. f.direction = "outbound"
  BY ResultFacts DEF Grounded, FromOpen, FromUncertain, FromDeclaration, FromRole
<1>2. ASSUME NEW k \in 1..Len(flows), Key(flows[k]) = Key(f)
      PROVE  flows[k].evidence = "Inferred" /\ Triple(flows[k]) = Triple(f)
  <2>1. Grounded(flows[k])
    BY <1>0, SequenceFacts DEF FlowsInv
  <2>2. flows[k].direction = "outbound" /\ Triple(flows[k]) = Triple(f)
    BY <1>1, <1>2 DEF Key, Triple
  <2>3. ~(Priority[flows[k].evidence] > 2)
    <3>1. ~Higher(Rank(flows[k]), Rank(f))
      BY <1>2, ResultFacts DEF Beaten
    <3>2. Priority[f.evidence] = 2
      BY PriorityFacts
    <3> QED  BY <3>1, <3>2 DEF Higher, Rank
  <2>4. flows[k].evidence # "Observed" /\ flows[k].evidence # "User-Defined"
    <3>1. 4 > 2 /\ 3 > 2
      OBVIOUS
    <3> QED  BY <2>3, <3>1, PriorityFacts
  <2>5. ~\E sr \in ToSet(records) : FromUncertain(flows[k], sr)
    BY <2>2 DEF FromUncertain, Key
  <2>6. FromRole(flows[k])
    BY <2>1, <2>4, <2>5 DEF Grounded, FromOpen, FromDeclaration
  <2> QED  BY <2>2, <2>6 DEF FromRole
<1>3. flows[i].evidence = "Inferred" /\ flows[j].evidence = "Inferred" /\ Triple(flows[j]) = Triple(flows[i])
  BY <1>2
<1> QED  BY <1>0, <1>3 DEF OnceInv, Once

\* Each flow of the result has its ground: a port reported open, a port
\* reported open|filtered, a declaration, or the role of a server; the
\* accuracy rules at the head of flow_analysis.py.
THEOREM NothingIsInvented == Spec => []NothingInvented
<1> DEFINE OfOpen(f) == f.source = Scanner /\ \E r \in Reports(f.destination, f.port) : r.state = "open"
           OfUncertain(f) == /\ f.source = Scanner /\ config.openFiltered
                             /\ \E r \in Reports(f.destination, f.port) : r.state = "open|filtered"
           OfRole(f) ==
             /\ config.infer /\ f.source \in DOMAIN hosts \ {config.scanner, f.destination}
             /\ \E name \in DOMAIN InfraKey :
                  /\ config.categories[name].enabled
                  /\ InfraKey[name] \in DOMAIN config.infra
                  /\ f.destination \in ToSet(config.infra[InfraKey[name]])
             /\ \A i, j \in DOMAIN flows : Key(flows[i]) = Key(f) /\ Key(flows[j]) = Key(f) => i = j
<1>1. ASSUME Inv, phase = "done", NEW f \in Results, f.evidence = "Observed"
      PROVE  OfOpen(f)
  <2>1. /\ f.source = Scanner
        /\ f.destination \in DOMAIN hosts /\ f.port \in DOMAIN hosts[f.destination].ports
        /\ hosts[f.destination].ports[f.port].state = "open"
    BY <1>1, ObservedIsOpen
  <2>2. Kept(hosts[f.destination].ports[f.port], f.port, Reports(f.destination, f.port))
    BY <1>1, <2>1, PortFacts
  <2> QED  BY <2>1, <2>2 DEF Kept
<1>2. ASSUME Inv, phase = "done", NEW f \in Results, f.evidence = "Manual Review Required"
      PROVE  OfUncertain(f)
  <2>1. PICK sr \in ToSet(records) : FromUncertain(f, sr)
    BY <1>2, ResultFacts DEF Grounded, FromOpen, FromDeclaration, FromRole
  <2>2. /\ f.source = Scanner /\ f.destination = sr.ip /\ f.port = sr.port
        /\ sr.state = "open|filtered" /\ config.openFiltered
    BY <2>1 DEF FromUncertain, Key
  <2>3. /\ sr.ip \in DOMAIN hosts /\ sr.port \in DOMAIN hosts[sr.ip].ports
        /\ sr = RecordOf(sr.ip, sr.port)
    BY <1>2, OneRecord
  <2>4. hosts[sr.ip].ports[sr.port].state = "open|filtered"
    BY <2>2, <2>3, RecordFacts
  <2>5. Kept(hosts[sr.ip].ports[sr.port], sr.port, Reports(sr.ip, sr.port))
    BY <1>2, <2>3, PortFacts
  <2> QED  BY <2>2, <2>4, <2>5 DEF Kept
<1>3. ASSUME Inv, phase = "done", NEW f \in Results, f.evidence = "User-Defined"
      PROVE  Declared(f.source, f.destination, f.port)
  BY <1>3, ResultFacts DEF Grounded, FromOpen, FromUncertain, FromDeclaration, FromRole
<1>4. ASSUME Inv, phase = "done", NEW f \in Results, f.evidence = "Inferred"
      PROVE  OfRole(f)
  <2>1. FromRole(f)
    BY <1>4, ResultFacts DEF Grounded, FromOpen, FromUncertain, FromDeclaration
  <2>2. DOMAIN flows = 1..Len(flows)
    BY <1>4, SequenceFacts DEF Inv, FlowsInv
  <2>3. \A i, j \in DOMAIN flows : Key(flows[i]) = Key(f) /\ Key(flows[j]) = Key(f) => i = j
    BY <1>4, <2>2, InferredAlone
  <2> QED  BY <2>1, <2>3 DEF FromRole
<1>5. ASSUME Inv, phase = "done", NEW f \in Results
      PROVE  f.evidence \in {"Observed", "Manual Review Required", "User-Defined", "Inferred"}
  BY <1>5, ResultFacts DEF Grounded, FromOpen, FromUncertain, FromDeclaration, FromRole
<1>6. ASSUME Inv, phase = "done", NEW f \in Results
      PROVE  CASE f.evidence = "Observed" -> OfOpen(f)
               [] f.evidence = "Manual Review Required" -> OfUncertain(f)
               [] f.evidence = "User-Defined" -> Declared(f.source, f.destination, f.port)
               [] f.evidence = "Inferred" -> OfRole(f)
  <2> HIDE DEF OfOpen, OfUncertain, OfRole
  <2> QED  BY <1>1, <1>2, <1>3, <1>4, <1>5, <1>6
<1>7. Inv => NothingInvented
  BY <1>6 DEF NothingInvented
<1> QED  BY <1>7, Invariance, PTL

\* What is to be withheld has a reason when its flow is made: the names the
\* policy is asked about are those of the record.
LEMMA WithheldHasReason ==
    ASSUME Inv, phase = "done", NEW a \in DOMAIN hosts, NEW p \in DOMAIN hosts[a].ports,
           ToWithhold(a, p)
    PROVE  OpenReason(RecordOf(a, p)) # ""
<1> DEFINE sr == RecordOf(a, p)
           rec == hosts[a].ports[p]
           names == {Normalize(rec).final, Normalize(rec).expected, rec.name}
<1>1. sr.port = p /\ sr.approved = Approved(config, a, p) /\ {sr.final, sr.expected, sr.raw} = names
  <2>1. rec.port = p
    BY PortFacts DEF Kept
  <2> QED  BY <2>1, RecordFacts
<1> HIDE DEF sr, rec, names
<1>2. CASE DOMAIN Approvals(config, a) # {}
             /\ (ApprovedEntry(config, a, p) => ~Approvals(config, a)[p].approved)
  <2>1. Approved(config, a, p) = "no"
    BY <1>2 DEF Approved
  <2> QED  BY <1>1, <2>1 DEF OpenReason, sr
<1>3. CASE ZoneConflict /\ config.strict
  BY <1>3 DEF OpenReason, sr
<1>4. CASE AlwaysReview(config, p, names)
  <2>1. AlwaysReview(config, sr.port, {sr.final, sr.expected, sr.raw})
    BY <1>1, <1>4
  <2> QED  BY <2>1 DEF OpenReason, sr
<1> QED  BY <1>2, <1>3, <1>4 DEF ToWithhold, rec, names

\* The flow of an uncertain port is in the result with its reason, or a
\* declared one is.
LEMMA UncertainStays ==
    ASSUME Inv, phase = "done", NEW a \in DOMAIN hosts, NEW p \in DOMAIN hosts[a].ports,
           hosts[a].ports[p].state = "open|filtered", config.openFiltered
    PROVE  /\ \E f \in Results :
                /\ Key(f) = <<Scanner, a, p, "inbound">>
                /\ f.reason # "" \/ Declared(Scanner, a, p)
           /\ Review("Uncertain port state", <<a, p>>) \in reviews
<1>0. FlowsInv /\ BestInv
  BY InvParts
<1>1. RecordOf(a, p).state = "open|filtered" /\ RecordOf(a, p).ip = a /\ RecordOf(a, p).port = p
  BY PortFacts, RecordFacts DEF Kept
<1>2. PICK f \in ToSet(flows) : FromUncertain(f, RecordOf(a, p))
  BY <1>1, PortFacts DEF Treated
<1>3. PICK i \in 1..Len(flows) : flows[i] = f
  BY <1>0, SequenceFacts DEF FlowsInv, ToSet
<1>4. Key(f) \in DOMAIN best /\ Beaten(f, best[Key(f)])
  BY <1>0, <1>3 DEF BestInv, SeenFlows
<1> DEFINE g == best[Key(f)]
<1>5. g \in Results
  BY <1>4 DEF Results
<1> HIDE DEF g
<1>6. Key(f) = <<Scanner, a, p, "inbound">> /\ Key(g) = <<Scanner, a, p, "inbound">>
  BY <1>1, <1>2, <1>4 DEF FromUncertain, Beaten, g
<1>7. g.source = Scanner /\ g.destination = a /\ g.port = p /\ g.direction = "inbound"
  BY <1>6 DEF Key
<1>8. g.evidence # "Observed"
  BY <1>5, <1>7, ObservedIsOpen
<1>9. g.reason # "" \/ Declared(Scanner, a, p)
  <2>1. Grounded(g)
    BY <1>5, ResultFacts
  <2>2. (\E sr \in ToSet(records) : FromUncertain(g, sr)) \/ FromDeclaration(g)
    BY <1>7, <1>8, <2>1 DEF Grounded, FromOpen, FromRole
  <2> QED  BY <1>7, <2>2 DEF FromUncertain, FromDeclaration
<1>10. Review("Uncertain port state", <<a, p>>) \in reviews
  BY <1>1, PortFacts DEF Treated
<1> QED  BY <1>5, <1>6, <1>9, <1>10

\* What is withheld from the firewall rules stays so: no merge takes the
\* reason of an open service away, or that of an inferred flow; the flow of
\* an uncertain port keeps its reason unless the flow is declared, and its
\* review item in any case.
THEOREM WithheldIsKept == Spec => []WithheldStays
<1>1. ASSUME Inv, phase = "done", NEW a \in DOMAIN hosts, NEW p \in DOMAIN hosts[a].ports,
             hosts[a].ports[p].state = "open", ToWithhold(a, p)
      PROVE  \E f \in Results :
               Key(f) = <<Scanner, a, p, "inbound">> /\ f.evidence = "Observed" /\ f.reason # ""
  <2>1. PICK g \in Results : FromOpen(g, RecordOf(a, p))
    BY <1>1, OpenWins
  <2>2. RecordOf(a, p).ip = a /\ RecordOf(a, p).port = p
    BY <1>1, PortFacts, RecordFacts DEF Kept
  <2>3. OpenReason(RecordOf(a, p)) # ""
    BY <1>1, WithheldHasReason
  <2> QED  BY <2>1, <2>2, <2>3 DEF FromOpen
<1>2. ASSUME Inv, phase = "done", NEW f \in Results, f.evidence = "Inferred", f.confidence < config.threshold
      PROVE  f.reason # ""
  <2>1. FromRole(f)
    BY <1>2, ResultFacts DEF Grounded, FromOpen, FromUncertain, FromDeclaration
  <2> QED  BY <1>2, <2>1 DEF FromRole
<1>3. Inv => WithheldStays
  BY <1>1, <1>2, UncertainStays DEF WithheldStays
<1> QED  BY <1>3, Invariance, PTL

\* The levels the rules name, for scripts with verdicts.
LEMMA IndicatorsFacts ==
    ASSUME NEW c, NEW a, NEW host, NEW rec, NEW norm,
           \A s \in rec.scripts : s.verdict \in DOMAIN Verdict
    PROVE  /\ Indicators(c, a, host, rec, norm) \subseteq 1..4
           /\ Low \in Indicators(c, a, host, rec, norm)
           /\ \A s \in rec.scripts : Verdict[s.verdict] \in Indicators(c, a, host, rec, norm)
<1>1. Low \in 1..4 /\ Medium \in 1..4 /\ High \in 1..4 /\ Critical \in 1..4
  BY DEF Low, Medium, High, Critical
<1>2. \A v \in DOMAIN Verdict : Verdict[v] \in 1..4
  BY <1>1 DEF Verdict
<1>3. Exposure(norm.final, rec.ssl) \in 1..4
  BY <1>1 DEF Exposure
<1>4. Indicators(c, a, host, rec, norm) \subseteq 1..4
  <2>1. {Verdict[s.verdict] : s \in rec.scripts} \subseteq 1..4
    BY <1>2
  <2>2. {High : s \in {t \in rec.scripts : Hinted(norm.final, rec.ssl, t.hint)}} \subseteq 1..4
    BY <1>1
  <2>3. \A b \in BOOLEAN : (IF b THEN Medium ELSE High) \in 1..4
    BY <1>1
  <2> QED  BY <1>1, <1>3, <2>1, <2>2, <2>3, Zenon DEF Indicators
<1> QED  BY <1>4 DEF Indicators

\* The risk of an open port that nothing overrides is no lower than the
\* verdict of any script of the record.
LEMMA RiskCountsVerdicts ==
    ASSUME NEW c, NEW a, NEW host, NEW rec, NEW norm, rec.state = "open", c.overrides = <<>>,
           \A s \in rec.scripts : s.verdict \in DOMAIN Verdict
    PROVE  \A s \in rec.scripts : AssessPort(c, a, host, rec, norm) >= Verdict[s.verdict]
<1> DEFINE levels == Indicators(c, a, host, rec, norm)
<1>1. levels \in SUBSET (1..4) /\ levels # {}
  BY IndicatorsFacts
<1>2. \A s \in rec.scripts : Verdict[s.verdict] \in levels
  BY IndicatorsFacts
<1>3. AssessPort(c, a, host, rec, norm) = Max(levels)
  <2>1. {i \in DOMAIN c.overrides : c.overrides[i].of \in {rec.port, norm.final}} = {}
    BY EmptySequence
  <2> QED  BY <2>1 DEF AssessPort
<1> HIDE DEF levels
<1>4. \A y \in levels : Max(levels) >= y
  BY <1>1, MaxIsIn, 4 \in Nat
<1> QED  BY <1>2, <1>3, <1>4

\* No merge loses a script, and the only verdict of a script counts for the
\* risk of the flow.
THEOREM EvidenceIsKept == Spec => []EvidenceKept
<1>1. ASSUME Inv, phase = "done", NEW a \in DOMAIN hosts, NEW p \in DOMAIN hosts[a].ports,
             NEW said, said = Said(Reports(a, p)), hosts[a].ports[p].state = "open"
      PROVE  \E f \in Results :
               /\ Key(f) = <<Scanner, a, p, "inbound">>
               /\ {s.id : s \in said} \subseteq f.scripts
               /\ (config.overrides = <<>> =>
                     \A s \in said : (\A t \in said : t.id = s.id => t = s) => f.risk >= Verdict[s.verdict])
  <2> DEFINE rec == hosts[a].ports[p]
             sr == RecordOf(a, p)
  <2>1. PICK g \in Results : FromOpen(g, sr)
    BY <1>1, OpenWins
  <2>2. rec.port = p /\ rec.scripts \subseteq said /\ Ids(said) \subseteq Ids(rec.scripts)
    BY <1>1, PortFacts DEF Kept
  <2>3. /\ sr.ip = a /\ sr.port = p /\ sr.scripts = Ids(rec.scripts)
        /\ sr.risk = AssessPort(config, a, hosts[a], rec, Normalize(rec))
    BY <2>2, RecordFacts
  <2>4. \A s \in said : s.verdict \in DOMAIN Verdict
    <3>1. Reports(a, p) = OfPort(ReportedOf(a, Len(scan)), p) /\ InputsInv
      BY <1>1, InvParts, ReportsFacts
    <3>2. \A r \in ReportedOf(a, Len(scan)) : \A t \in r.scripts : t.verdict \in DOMAIN Verdict
      BY <3>1, ScanFacts DEF ReportedOf
    <3> QED  BY <1>1, <3>1, <3>2 DEF Said, OfPort
  <2>5. ASSUME config.overrides = <<>>, NEW s \in said, \A t \in said : t.id = s.id => t = s
        PROVE  g.risk >= Verdict[s.verdict]
    <3>1. s \in rec.scripts
      BY <2>2, <2>5 DEF Ids
    <3>2. \A t \in rec.scripts : t.verdict \in DOMAIN Verdict
      BY <2>2, <2>4
    <3>3. rec.state = "open"
      BY <1>1
    <3> HIDE DEF rec, sr
    <3>4. AssessPort(config, a, hosts[a], rec, Normalize(rec)) >= Verdict[s.verdict]
      BY <2>5, <3>1, <3>2, <3>3, RiskCountsVerdicts
    <3> QED  BY <2>1, <2>3, <3>4 DEF FromOpen
  <2>6. Ids(said) \subseteq g.scripts /\ Key(g) = <<Scanner, a, p, "inbound">>
    BY <2>1, <2>2, <2>3 DEF FromOpen
  <2> QED  BY <2>5, <2>6 DEF Ids
<1>2. ASSUME Inv, phase = "done"
      PROVE  EvidenceKept
  <2> SUFFICES ASSUME NEW a \in DOMAIN hosts, NEW p \in DOMAIN hosts[a].ports,
                      hosts[a].ports[p].state = "open"
               PROVE  \E f \in Results :
                        /\ Key(f) = <<Scanner, a, p, "inbound">>
                        /\ {s.id : s \in Said(Reports(a, p))} \subseteq f.scripts
                        /\ (config.overrides = <<>> =>
                              \A s \in Said(Reports(a, p)) :
                                (\A t \in Said(Reports(a, p)) : t.id = s.id => t = s)
                                  => f.risk >= Verdict[s.verdict])
    BY DEF EvidenceKept, Said
  <2> QED  BY <1>1, <1>2
<1>3. Inv => EvidenceKept
  BY <1>2 DEF EvidenceKept
<1> QED  BY <1>3, Invariance, PTL

-------------------------------------------------------------------------------
===============================================================================
