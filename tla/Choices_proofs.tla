---------------------------- MODULE Choices_proofs ----------------------------
(***************************************************************************)
(* Choosing runs, on the list of runs, the page of a suite and the strip   *)
(* of a run's peers, for any runs, polls, filters and bounds: the three    *)
(* pages implement RunChoice, what is chosen is indexed, the strip holds   *)
(* still and the keys of groups follow the clicks. On the comparison of    *)
(* groups the boxes follow the clicks, and a group finds its own results.  *)
(*                                                                         *)
(* The theorems on induction take an operator, which no prover here can    *)
(* instantiate; what Among, Sorted and sums over a set compute is therefore *)
(* proved by the smallest number for which it fails, a statement on a set. *)
(***************************************************************************)
EXTENDS RunPeers, RunsPage, SuiteTests, CompareGroups, FiniteSetTheorems, NaturalsInduction, TLAPS

-----------------------------------------------------------------------------
(* Induction, by the smallest number for which something fails. *)

LEMMA SmallestNat ==
  ASSUME NEW T \in SUBSET Nat, T # {}
  PROVE  \E n \in T : \A m \in T : n <= m
  <1>1. PICK n \in T : \A m \in T : ~ (<<m, n>> \in OpToRel(<, Nat))
    BY NatLessThanWellFounded, WFMin
  <1>2. \A m \in T : ~ (m < n)
    BY <1>1 DEF OpToRel
  <1> QED
    BY <1>2

\* What holds at 0 and goes on from each number to the next holds up to n.
LEMMA UpwardsFromZero ==
  ASSUME NEW n \in Nat, NEW T, 0 \in T, \A i \in 1..n : i - 1 \in T => i \in T
  PROVE  \A i \in 0..n : i \in T
  <1> DEFINE Fails == {i \in 0..n : i \notin T}
  <1>1. SUFFICES ASSUME Fails # {} PROVE FALSE
    OBVIOUS
  <1>2. Fails \in SUBSET Nat
    OBVIOUS
  <1> HIDE DEF Fails
  <1>3. PICK i \in Fails : \A j \in Fails : i <= j
    BY <1>1, <1>2, SmallestNat
  <1> USE DEF Fails
  <1>4. i \in 1..n /\ i - 1 \in 0..n
    BY <1>3
  <1>5. i - 1 \in T
    BY <1>3, <1>4
  <1> QED
    BY <1>3, <1>4, <1>5

-----------------------------------------------------------------------------
(* Among. *)

\* What is kept of the first i members of s, given what is kept of those before.
Step(g, s, some, i) == IF s[i] \in some THEN Append(g[i - 1], s[i]) ELSE g[i - 1]

\* g[i] is what Among keeps of the first i members of s, up to n.
Keeps(g, n, s, some) ==
    /\ g = [i \in 0..n |-> g[i]]
    /\ g[0] = <<>>
    /\ \A i \in 1..n : g[i] = Step(g, s, some, i)

LEMMA KeepsExtends ==
  ASSUME NEW S, NEW s \in Seq(S), NEW some, NEW n \in 1..Len(s), NEW g, Keeps(g, n - 1, s, some)
  PROVE  \E h : Keeps(h, n, s, some)
  <1> DEFINE h == [i \in 0..n |-> IF i = n THEN Step(g, s, some, n) ELSE g[i]]
  <1>1. n \in Nat /\ n # 0 /\ 1..n \subseteq 0..n /\ 0 \in 0..n
    OBVIOUS
  <1>2. \A i \in 0..n : h[i] = IF i = n THEN Step(g, s, some, n) ELSE g[i]
    OBVIOUS
  <1>3. h = [i \in 0..n |-> h[i]]
    BY <1>2
  <1> HIDE DEF h
  <1>4. h[0] = <<>>
    BY <1>1, <1>2 DEF Keeps
  <1>5. ASSUME NEW i \in 1..n PROVE h[i] = Step(h, s, some, i)
    <2>1. i \in 0..n /\ i - 1 \in 0..n /\ i - 1 # n
      BY <1>1
    <2>2. h[i - 1] = g[i - 1]
      BY <1>2, <2>1
    <2>3. Step(h, s, some, i) = Step(g, s, some, i)
      BY <2>2 DEF Step
    <2>4. CASE i = n
      BY <1>2, <2>1, <2>3, <2>4
    <2>5. CASE i # n
      <3>1. i \in 1..(n - 1)
        BY <1>1, <2>5
      <3>2. h[i] = g[i]
        BY <1>2, <2>1, <2>5
      <3> QED
        BY <2>3, <3>1, <3>2 DEF Keeps
    <2> QED
      BY <2>4, <2>5
  <1> QED
    BY <1>3, <1>4, <1>5 DEF Keeps

LEMMA KeepsExists ==
  ASSUME NEW S, NEW s \in Seq(S), NEW some
  PROVE  \E g : Keeps(g, Len(s), s, some)
  <1> DEFINE T == {n \in 0..Len(s) : \E g : Keeps(g, n, s, some)}
  <1>0. Len(s) \in Nat
    OBVIOUS
  <1>1. 0 \in T
    <2>1. Keeps([i \in 0..0 |-> <<>>], 0, s, some)
      BY DEF Keeps
    <2> QED
      BY <1>0, <2>1
  <1>2. ASSUME NEW n \in 1..Len(s), n - 1 \in T PROVE n \in T
    BY <1>0, <1>2, KeepsExtends
  <1> HIDE DEF T
  <1>3. \A n \in 0..Len(s) : n \in T
    BY <1>0, <1>1, <1>2, UpwardsFromZero
  <1> QED
    BY <1>0, <1>3 DEF T

\* Among is what is kept in the end.
LEMMA AmongKeeps ==
  ASSUME NEW S, NEW s \in Seq(S), NEW some
  PROVE  \E g : Keeps(g, Len(s), s, some) /\ Among(s, some) = g[Len(s)]
  <1> DEFINE Rule(g) == [i \in 0..Len(s) |->
                 IF i = 0 THEN <<>>
                 ELSE IF s[i] \in some THEN Append(g[i - 1], s[i]) ELSE g[i - 1]]
  <1>1. PICK h : Keeps(h, Len(s), s, some)
    BY KeepsExists
  <1>2. h = Rule(h)
    <2>1. \A i \in 0..Len(s) : h[i] = Rule(h)[i]
      BY <1>1 DEF Keeps, Step
    <2> QED
      BY <1>1, <2>1 DEF Keeps
  <1>3. PICK g : g = Rule(g) /\ Among(s, some) = g[Len(s)]
    BY <1>2 DEF Among
  <1>4. Keeps(g, Len(s), s, some)
    <2>1. \A i \in 0..Len(s) : g[i] = Rule(g)[i]
      BY <1>3
    <2>2. g = [i \in 0..Len(s) |-> g[i]]
      BY <1>3
    <2>3. g[0] = <<>>
      BY <2>1
    <2>4. \A i \in 1..Len(s) : g[i] = Step(g, s, some, i)
      BY <2>1 DEF Step
    <2> QED
      BY <2>2, <2>3, <2>4 DEF Keeps
  <1> QED
    BY <1>3, <1>4

\* The first i members of s, as a set.
First(s, i) == {s[j] : j \in 1..i}

\* What is kept of the first i members.
LEMMA KeepsMembers ==
  ASSUME NEW S, NEW s \in Seq(S), NEW some, NEW g, Keeps(g, Len(s), s, some)
  PROVE  \A i \in 0..Len(s) : /\ g[i] \in Seq(S)
                              /\ ToSet(g[i]) = First(s, i) \cap some
  <1> DEFINE T == {i \in 0..Len(s) : /\ g[i] \in Seq(S)
                                     /\ ToSet(g[i]) = First(s, i) \cap some}
  <1>0. Len(s) \in Nat
    OBVIOUS
  <1>1. 0 \in T
    BY <1>0 DEF Keeps, ToSet, First
  <1>2. ASSUME NEW i \in 1..Len(s), i - 1 \in T PROVE i \in T
    <2>1. /\ i \in 0..Len(s) /\ i - 1 \in 0..Len(s) /\ i \in DOMAIN s
          /\ g[i - 1] \in Seq(S) /\ ToSet(g[i - 1]) = First(s, i - 1) \cap some
      BY <1>0, <1>2
    <2>2. First(s, i) = First(s, i - 1) \cup {s[i]}
      <3>1. 1..i = 1..(i - 1) \cup {i}
        BY <1>0
      <3> QED
        BY <3>1 DEF First
    <2>3. CASE s[i] \in some
      <3>1. g[i] = Append(g[i - 1], s[i])
        BY <1>2, <2>3 DEF Keeps, Step
      <3>2. ToSet(Append(g[i - 1], s[i])) = ToSet(g[i - 1]) \cup {s[i]}
        <4>1. PICK t \in Seq(S) : t = g[i - 1]
          BY <2>1
        <4>2. ToSet(Append(t, s[i])) = ToSet(t) \cup {s[i]}
          <5>1. DOMAIN Append(t, s[i]) = DOMAIN t \cup {Len(t) + 1}
            BY <2>1
          <5>2. /\ \A k \in DOMAIN t : Append(t, s[i])[k] = t[k]
                /\ Append(t, s[i])[Len(t) + 1] = s[i]
            BY <2>1
          <5> QED
            BY <5>1, <5>2 DEF ToSet
        <4> QED
          BY <4>1, <4>2
      <3>3. g[i] \in Seq(S)
        BY <2>1, <3>1
      <3> QED
        BY <2>1, <2>2, <2>3, <3>1, <3>2, <3>3
    <2>4. CASE s[i] \notin some
      <3>1. g[i] = g[i - 1]
        BY <1>2, <2>4 DEF Keeps, Step
      <3> QED
        BY <2>1, <2>2, <2>4, <3>1
    <2> QED
      BY <2>3, <2>4
  <1> HIDE DEF T
  <1>3. \A i \in 0..Len(s) : i \in T
    BY <1>0, <1>1, <1>2, UpwardsFromZero
  <1> QED
    BY <1>3 DEF T

\* Among keeps the members that are in the set, and nothing else.
LEMMA AmongMembers ==
  ASSUME NEW S, NEW s \in Seq(S), NEW some
  PROVE  /\ Among(s, some) \in Seq(S)
         /\ ToSet(Among(s, some)) = ToSet(s) \cap some
  <1>1. PICK g : Keeps(g, Len(s), s, some) /\ Among(s, some) = g[Len(s)]
    BY AmongKeeps
  <1>2. Len(s) \in 0..Len(s) /\ ToSet(s) = First(s, Len(s))
    <2>1. Len(s) \in Nat /\ DOMAIN s = 1..Len(s)
      OBVIOUS
    <2> QED
      BY <2>1 DEF ToSet, First
  <1>3. \A i \in 0..Len(s) : /\ g[i] \in Seq(S)
                             /\ ToSet(g[i]) = First(s, i) \cap some
    BY <1>1, KeepsMembers
  <1>4. /\ g[Len(s)] \in Seq(S)
        /\ ToSet(g[Len(s)]) = First(s, Len(s)) \cap some
    BY <1>2, <1>3
  <1> QED
    BY <1>1, <1>2, <1>4

LEMMA SeqMembers == ASSUME NEW S, NEW s \in Seq(S) PROVE ToSet(s) \subseteq S
  BY DEF ToSet

\* A filter that everything passes changes nothing.
LEMMA AmongAll ==
  ASSUME NEW S, NEW s \in Seq(S), NEW some, ToSet(s) \subseteq some
  PROVE  Among(s, some) = s
  <1>1. PICK g : Keeps(g, Len(s), s, some) /\ Among(s, some) = g[Len(s)]
    BY AmongKeeps
  <1> DEFINE T == {i \in 0..Len(s) : g[i] = SubSeq(s, 1, i)}
  <1>0. Len(s) \in Nat /\ DOMAIN s = 1..Len(s)
    OBVIOUS
  <1>2. 0 \in T
    <2>1. SubSeq(s, 1, 0) = <<>>
      OBVIOUS
    <2> QED
      BY <1>0, <1>1, <2>1 DEF Keeps
  <1>3. ASSUME NEW i \in 1..Len(s), i - 1 \in T PROVE i \in T
    <2>1. g[i - 1] = SubSeq(s, 1, i - 1) /\ i \in DOMAIN s /\ i \in 0..Len(s)
      BY <1>0, <1>3
    <2>2. g[i] = Append(SubSeq(s, 1, i - 1), s[i])
      BY <1>1, <2>1 DEF Keeps, Step, ToSet
    <2>3. SubSeq(s, 1, i) = Append(SubSeq(s, 1, i - 1), s[i])
      BY <1>0, <2>1
    <2> QED
      BY <2>1, <2>2, <2>3
  <1> HIDE DEF T
  <1>4. \A i \in 0..Len(s) : i \in T
    BY <1>0, <1>2, <1>3, UpwardsFromZero
  <1>5. Len(s) \in T
    BY <1>0, <1>4
  <1>6. SubSeq(s, 1, Len(s)) = s
    BY <1>0
  <1> QED
    BY <1>1, <1>5, <1>6 DEF T

\* A wider filter keeps no fewer.
LEMMA AmongGrows ==
  ASSUME NEW S, NEW s \in Seq(S), NEW some, NEW more, some \subseteq more
  PROVE  Len(Among(s, some)) <= Len(Among(s, more))
  <1>1. PICK g : Keeps(g, Len(s), s, some) /\ Among(s, some) = g[Len(s)]
    BY AmongKeeps
  <1>2. PICK h : Keeps(h, Len(s), s, more) /\ Among(s, more) = h[Len(s)]
    BY AmongKeeps
  <1>3. \A i \in 0..Len(s) : g[i] \in Seq(S) /\ h[i] \in Seq(S)
    BY <1>1, <1>2, KeepsMembers
  <1> DEFINE T == {i \in 0..Len(s) : Len(g[i]) <= Len(h[i])}
  <1>0. Len(s) \in Nat /\ DOMAIN s = 1..Len(s)
    OBVIOUS
  <1>4. 0 \in T
    BY <1>0, <1>1, <1>2 DEF Keeps
  <1>5. ASSUME NEW i \in 1..Len(s), i - 1 \in T PROVE i \in T
    <2>1. i - 1 \in 0..Len(s) /\ i \in 0..Len(s) /\ i \in DOMAIN s /\ s[i] \in S
      BY <1>0
    <2>2. g[i] = Step(g, s, some, i) /\ h[i] = Step(h, s, more, i)
      BY <1>1, <1>2 DEF Keeps
    <2>3. g[i - 1] \in Seq(S) /\ h[i - 1] \in Seq(S)
      BY <1>3, <2>1
    <2>4. Len(g[i - 1]) <= Len(h[i - 1])
      BY <1>5
    <2>5. /\ Len(g[i - 1]) \in Nat /\ Len(Append(g[i - 1], s[i])) = Len(g[i - 1]) + 1
          /\ Len(h[i - 1]) \in Nat /\ Len(Append(h[i - 1], s[i])) = Len(h[i - 1]) + 1
      BY <2>1, <2>3
    <2>6. Len(g[i]) <= Len(h[i])
      BY <2>2, <2>4, <2>5 DEF Step
    <2> QED
      BY <2>1, <2>6
  <1> HIDE DEF T
  <1>6. \A i \in 0..Len(s) : i \in T
    BY <1>0, <1>4, <1>5, UpwardsFromZero
  <1>7. Len(s) \in T
    BY <1>0, <1>6
  <1> QED
    BY <1>1, <1>2, <1>7 DEF T

\* Two parts of a sequence without repetitions, one before the other.
Injective(s) == \A i, j \in DOMAIN s : s[i] = s[j] => i = j
Precede(s, A, B) == \A i, j \in DOMAIN s : s[i] \in A /\ s[j] \in B => i < j

LEMMA KeepsInjective ==
  ASSUME NEW S, NEW s \in Seq(S), Injective(s), NEW some, NEW g, Keeps(g, Len(s), s, some)
  PROVE  \A i \in 0..Len(s) : Injective(g[i])
  <1> DEFINE T == {i \in 0..Len(s) : Injective(g[i])}
  <1>0. Len(s) \in Nat /\ DOMAIN s = 1..Len(s)
    OBVIOUS
  <1>1. 0 \in T
    BY <1>0 DEF Keeps, Injective
  <1>2. ASSUME NEW i \in 1..Len(s), i - 1 \in T PROVE i \in T
    <2>1. i \in 0..Len(s) /\ i - 1 \in 0..Len(s) /\ i \in DOMAIN s /\ Injective(g[i - 1])
      BY <1>0, <1>2
    <2>2. g[i - 1] \in Seq(S) /\ ToSet(g[i - 1]) = First(s, i - 1) \cap some
      BY <2>1, KeepsMembers
    <2>3. CASE s[i] \in some
      <3>1. g[i] = Append(g[i - 1], s[i])
        BY <1>2, <2>3 DEF Keeps, Step
      <3>2. s[i] \notin First(s, i - 1)
        BY <1>0, <2>1 DEF First, Injective
      <3>3. PICK t \in Seq(S) : t = g[i - 1]
        BY <2>2
      <3>4. s[i] \notin ToSet(t) /\ Injective(t)
        BY <2>1, <2>2, <3>2, <3>3
      <3>5. /\ DOMAIN t = 1..Len(t) /\ Len(t) \in Nat
            /\ DOMAIN Append(t, s[i]) = 1..(Len(t) + 1)
            /\ \A k \in 1..Len(t) : Append(t, s[i])[k] = t[k]
            /\ Append(t, s[i])[Len(t) + 1] = s[i]
        BY <2>1
      <3>6. \A k \in 1..Len(t) : t[k] # s[i]
        BY <3>4, <3>5 DEF ToSet
      <3>7. ASSUME NEW a \in 1..(Len(t) + 1), NEW b \in 1..(Len(t) + 1),
                   Append(t, s[i])[a] = Append(t, s[i])[b]
            PROVE  a = b
        <4>1. a \in 1..Len(t) \/ a = Len(t) + 1
          BY <3>5
        <4>2. b \in 1..Len(t) \/ b = Len(t) + 1
          BY <3>5
        <4> QED
          BY <3>4, <3>5, <3>6, <3>7, <4>1, <4>2 DEF Injective
      <3>8. Injective(Append(t, s[i]))
        BY <3>5, <3>7 DEF Injective
      <3> QED
        BY <2>1, <3>1, <3>3, <3>8
    <2>4. CASE s[i] \notin some
      <3>1. g[i] = g[i - 1]
        BY <1>2, <2>4 DEF Keeps, Step
      <3> QED
        BY <2>1, <3>1
    <2> QED
      BY <2>3, <2>4
  <1> HIDE DEF T
  <1>3. \A i \in 0..Len(s) : i \in T
    BY <1>0, <1>1, <1>2, UpwardsFromZero
  <1> QED
    BY <1>3 DEF T

LEMMA AmongInjective ==
  ASSUME NEW S, NEW s \in Seq(S), Injective(s), NEW some
  PROVE  Injective(Among(s, some))
  <1>1. PICK g : Keeps(g, Len(s), s, some) /\ Among(s, some) = g[Len(s)]
    BY AmongKeeps
  <1>2. Len(s) \in 0..Len(s)
    OBVIOUS
  <1>3. \A i \in 0..Len(s) : Injective(g[i])
    BY <1>1, KeepsInjective
  <1> QED
    BY <1>1, <1>2, <1>3

\* A member goes to the end of two sequences as to the end of the second.
GoesToLast(u, v, x) == Append(u \o v, x) = u \o Append(v, x)

LEMMA AppendToBoth ==
  ASSUME NEW S, NEW u \in Seq(S), NEW v \in Seq(S), NEW x \in S
  PROVE  GoesToLast(u, v, x)
  <1> DEFINE a == Append(u \o v, x)
             b == u \o Append(v, x)
             n == Len(u) + Len(v) + 1
  <1>1. Len(u) \in Nat /\ Len(v) \in Nat
    OBVIOUS
  <1>2. a \in Seq(S) /\ Len(a) = n
    OBVIOUS
  <1>3. Append(v, x) \in Seq(S) /\ Len(Append(v, x)) = Len(v) + 1
    OBVIOUS
  <1>4. b \in Seq(S) /\ Len(b) = n
    BY <1>1, <1>3
  <1>5. ASSUME NEW k \in 1..n PROVE a[k] = b[k]
    OBVIOUS
  <1>6. n \in Nat
    BY <1>1
  <1> HIDE DEF a, b, n
  <1>7. a = [k \in 1..n |-> a[k]] /\ b = [k \in 1..n |-> b[k]]
    BY <1>2, <1>4
  <1>8. a = b
    BY <1>5, <1>7
  <1> QED
    BY <1>8 DEF a, b, GoesToLast

\* h[i] is what f[i] and g[i] are together.
Joins(f, g, h, i) == h[i] = f[i] \o g[i]

\* What is kept of both parts is what is kept of the first, then of the second.
LEMMA KeepsBoth ==
  ASSUME NEW S, NEW s \in Seq(S), NEW A, NEW B, Precede(s, A, B),
         NEW f, Keeps(f, Len(s), s, A), NEW g, Keeps(g, Len(s), s, B),
         NEW h, Keeps(h, Len(s), s, A \cup B)
  PROVE  \A i \in 0..Len(s) : Joins(f, g, h, i)
  <1> DEFINE T == {i \in 0..Len(s) : Joins(f, g, h, i)}
  <1>0. Len(s) \in Nat /\ DOMAIN s = 1..Len(s)
    OBVIOUS
  <1>1. 0 \in T
    <2>1. <<>> = <<>> \o <<>>
      OBVIOUS
    <2> QED
      BY <1>0, <2>1 DEF Keeps, Joins
  <1>2. ASSUME NEW i \in 1..Len(s), i - 1 \in T PROVE i \in T
    <2>0. i \in 0..Len(s) /\ i - 1 \in 0..Len(s) /\ i \in DOMAIN s /\ Joins(f, g, h, i - 1)
      BY <1>0, <1>2
    <2>1. i \in 0..Len(s) /\ i - 1 \in 0..Len(s) /\ i \in DOMAIN s /\ h[i - 1] = f[i - 1] \o g[i - 1]
      BY <2>0 DEF Joins
    <2>2. /\ f[i - 1] \in Seq(S) /\ g[i - 1] \in Seq(S)
          /\ ToSet(g[i - 1]) = First(s, i - 1) \cap B
      BY <2>1, KeepsMembers
    <2>3. PICK u \in Seq(S), v \in Seq(S) : u = f[i - 1] /\ v = g[i - 1]
      BY <2>2
    <2>4. /\ f[i] = Step(f, s, A, i) /\ g[i] = Step(g, s, B, i) /\ h[i] = Step(h, s, A \cup B, i)
      BY <1>2 DEF Keeps
    <2>5. CASE s[i] \in A
      <3>1. s[i] \notin B
        BY <1>0, <2>1, <2>5 DEF Precede
      <3>2. First(s, i - 1) \cap B = {}
        <4>1. ASSUME NEW j \in 1..(i - 1), s[j] \in B PROVE FALSE
          BY <1>0, <2>1, <2>5, <4>1 DEF Precede
        <4> QED
          BY <4>1 DEF First
      <3>3. v = <<>>
        <4>1. ToSet(v) = {}
          BY <2>2, <2>3, <3>2
        <4>2. DOMAIN v = {}
          BY <4>1 DEF ToSet
        <4> QED
          BY <4>2
      <3>4. f[i] = Append(u, s[i]) /\ g[i] = v /\ h[i] = Append(u \o v, s[i])
        BY <2>1, <2>3, <2>4, <2>5, <3>1 DEF Step
      <3>5. Append(u \o <<>>, s[i]) = Append(u, s[i]) \o <<>>
        OBVIOUS
      <3> QED
        BY <2>1, <3>3, <3>4, <3>5 DEF Joins
    <2>6. CASE s[i] \in B
      <3>1. s[i] \notin A
        BY <1>0, <2>1, <2>6 DEF Precede
      <3>2. f[i] = u /\ g[i] = Append(v, s[i]) /\ h[i] = Append(u \o v, s[i])
        BY <2>1, <2>3, <2>4, <2>6, <3>1 DEF Step
      <3>3. Append(u \o v, s[i]) = u \o Append(v, s[i])
        <4>1. s[i] \in S
          BY <2>1
        <4>2. GoesToLast(u, v, s[i])
          BY <4>1, AppendToBoth
        <4> QED
          BY <4>2 DEF GoesToLast
      <3> QED
        BY <2>1, <3>2, <3>3 DEF Joins
    <2>7. CASE s[i] \notin A \cup B
      <3>1. f[i] = u /\ g[i] = v /\ h[i] = u \o v
        BY <2>1, <2>3, <2>4, <2>7 DEF Step
      <3> QED
        BY <2>1, <2>3, <3>1 DEF Joins
    <2> QED
      BY <2>5, <2>6, <2>7
  <1> HIDE DEF T
  <1>3. \A i \in 0..Len(s) : i \in T
    BY <1>0, <1>1, <1>2, UpwardsFromZero
  <1> QED
    BY <1>3 DEF T

LEMMA AmongBoth ==
  ASSUME NEW S, NEW s \in Seq(S), NEW A, NEW B, Precede(s, A, B)
  PROVE  Among(s, A \cup B) = Among(s, A) \o Among(s, B)
  <1>1. PICK f : Keeps(f, Len(s), s, A) /\ Among(s, A) = f[Len(s)]
    BY AmongKeeps
  <1>2. PICK g : Keeps(g, Len(s), s, B) /\ Among(s, B) = g[Len(s)]
    BY AmongKeeps
  <1>3. PICK h : Keeps(h, Len(s), s, A \cup B) /\ Among(s, A \cup B) = h[Len(s)]
    BY AmongKeeps
  <1>4. \A i \in 0..Len(s) : Joins(f, g, h, i)
    BY <1>1, <1>2, <1>3, KeepsBoth
  <1>5. Len(s) \in 0..Len(s)
    OBVIOUS
  <1>6. Joins(f, g, h, Len(s))
    BY <1>4, <1>5
  <1> QED
    BY <1>1, <1>2, <1>3, <1>6 DEF Joins

-----------------------------------------------------------------------------
(* Sizes. *)

LEMMA MinOfTwo ==
  ASSUME NEW a \in Int, NEW b \in Int
  PROVE  Min({a, b}) = IF a <= b THEN a ELSE b
  BY DEF Min

LEMMA MaxOfTwo ==
  ASSUME NEW a \in Int, NEW b \in Int
  PROVE  Max({a, b}) = IF a >= b THEN a ELSE b
  BY DEF Max

\* A sequence has no more members than places.
LEMMA SeqHasFew ==
  ASSUME NEW S, NEW t \in Seq(S)
  PROVE  IsFiniteSet(ToSet(t)) /\ Cardinality(ToSet(t)) <= Len(t)
  <1>1. Len(t) \in Nat /\ DOMAIN t = 1..Len(t)
    OBVIOUS
  <1>2. t \in [1..Len(t) -> ToSet(t)]
    BY <1>1 DEF ToSet
  <1>3. t \in Surjection(1..Len(t), ToSet(t))
    BY <1>1, <1>2 DEF Surjection, ToSet
  <1>4. IsFiniteSet(1..Len(t)) /\ Cardinality(1..Len(t)) = Len(t)
    BY <1>1, FS_Interval
  <1> QED
    BY <1>3, <1>4, FS_Surjection

\* The first k members of a sequence.
LEMMA FirstOfSeq ==
  ASSUME NEW S, NEW t \in Seq(S), NEW k \in 0..Len(t)
  PROVE  /\ SubSeq(t, 1, k) \in Seq(S) /\ Len(SubSeq(t, 1, k)) = k
         /\ ToSet(SubSeq(t, 1, k)) \subseteq ToSet(t)
  <1>1. SubSeq(t, 1, k) \in Seq(S) /\ Len(SubSeq(t, 1, k)) = k
    OBVIOUS
  <1>2. \A i \in 1..k : SubSeq(t, 1, k)[i] = t[i] /\ i \in DOMAIN t
    OBVIOUS
  <1>3. DOMAIN SubSeq(t, 1, k) = 1..k
    BY <1>1
  <1> QED
    BY <1>1, <1>2, <1>3 DEF ToSet

\* A comparison never takes more than there is room for (handleSelectionChange).
LEMMA TakenFits ==
  ASSUME NEW S, NEW ids \in Seq(S), NEW room \in Nat,
         NEW some, IsFiniteSet(some), Cardinality(some) <= room
  PROVE  /\ some \subseteq Taken(some, ids, room)
         /\ Taken(some, ids, room) \subseteq some \cup ToSet(ids)
         /\ IsFiniteSet(Taken(some, ids, room))
         /\ Cardinality(Taken(some, ids, room)) <= room
  <1> DEFINE new == Among(ids, ToSet(ids) \ some)
             k == Min({room - Cardinality(some), Len(new)})
             first == SubSeq(new, 1, k)
  <1>1. new \in Seq(S) /\ ToSet(new) \subseteq ToSet(ids)
    BY AmongMembers
  <1>2. Cardinality(some) \in Nat
    BY FS_CardinalityType
  <1> HIDE DEF new
  <1>3. k \in 0..Len(new) /\ k <= room - Cardinality(some)
    <2>1. room - Cardinality(some) \in Nat /\ Len(new) \in Nat
      BY <1>1, <1>2
    <2> QED
      BY <2>1, MinOfTwo
  <1> HIDE DEF k
  <1>4. first \in Seq(S) /\ Len(first) = k /\ ToSet(first) \subseteq ToSet(new)
    BY <1>1, <1>3, FirstOfSeq
  <1>5. Taken(some, ids, room) = some \cup ToSet(first)
    BY DEF Taken, new, k
  <1> HIDE DEF first
  <1>6. IsFiniteSet(ToSet(first)) /\ Cardinality(ToSet(first)) <= k
    BY <1>4, SeqHasFew
  <1>7. Cardinality(ToSet(first)) \in Nat
    BY <1>6, FS_CardinalityType
  <1>8. /\ IsFiniteSet(some \cup ToSet(first))
        /\ Cardinality(some \cup ToSet(first))
             = Cardinality(some) + Cardinality(ToSet(first)) - Cardinality(some \cap ToSet(first))
    BY <1>6, FS_Union
  <1>9. Cardinality(some \cap ToSet(first)) \in Nat
    BY FS_Intersection, FS_CardinalityType
  <1>10. Cardinality(some \cup ToSet(first)) <= room
    BY <1>2, <1>3, <1>6, <1>7, <1>8, <1>9
  <1> QED
    BY <1>1, <1>4, <1>5, <1>8, <1>10

-----------------------------------------------------------------------------
(* Sorted. *)

\* All of a list is the list.
LEMMA WholeSeq ==
  ASSUME NEW n \in Nat, NEW F, F = [k \in 1..n |-> F[k]]
  PROVE  SubSeq(F, 1, n) = F
  <1> DEFINE S == {F[k] : k \in 1..n}
  <1>1. F \in Seq(S) /\ Len(F) = n
    OBVIOUS
  <1> HIDE DEF S
  <1>2. /\ SubSeq(F, 1, n) \in Seq(S) /\ Len(SubSeq(F, 1, n)) = n
        /\ \A k \in 1..n : SubSeq(F, 1, n)[k] = F[k]
    BY <1>1
  <1> QED
    BY <1>1, <1>2

\* A page of a list, and a range of its rows, are lists of the same rows.
LEMMA PageIsSeq ==
  ASSUME NEW S, NEW t \in Seq(S), NEW page \in Nat \ {0}, NEW size \in Nat \ {0}
  PROVE  PageOf(t, page, size) \in Seq(S)
  <1> DEFINE from == (page - 1) * size + 1
             to == Min({page * size, Len(t)})
  <1>1. from \in Nat \ {0} /\ page * size \in Int
    <2>1. page - 1 \in Nat /\ page \in Nat /\ size \in Nat
      OBVIOUS
    <2>2. \A p, z \in Nat : p * z \in Nat
      OBVIOUS
    <2> QED
      BY <2>1, <2>2
  <1>2. to \in Int /\ to <= Len(t)
    <2>1. Len(t) \in Int
      OBVIOUS
    <2> QED
      BY <1>1, <2>1, MinOfTwo
  <1>3. PageOf(t, page, size) = SubSeq(t, from, to)
    BY DEF PageOf
  <1> HIDE DEF from, to
  <1> QED
    BY <1>1, <1>2, <1>3

LEMMA RangeIsSeq ==
  ASSUME NEW S, NEW t \in Seq(S), NEW a \in ToSet(t), NEW b \in ToSet(t)
  PROVE  Between(t, a, b) \in Seq(S)
  <1> DEFINE i == Place(a, t)
             j == Place(b, t)
  <1>1. i \in 1..Len(t) /\ j \in 1..Len(t)
    BY DEF Place, ToSet
  <1>2. Between(t, a, b) = SubSeq(t, Min({i, j}), Max({i, j}))
    BY DEF Between
  <1> HIDE DEF i, j
  <1>3. Min({i, j}) \in 1..Len(t) /\ Max({i, j}) \in 1..Len(t)
    BY <1>1, MinOfTwo, MaxOfTwo
  <1>4. PICK lo, hi \in 1..Len(t) : Between(t, a, b) = SubSeq(t, lo, hi)
    BY <1>2, <1>3
  <1> QED
    BY <1>4

\* R orders D, one before the other.
Orders1(R, D) ==
    /\ \A i \in D : <<i, i>> \notin R
    /\ \A i, j \in D : i # j => <<i, j>> \in R \/ <<j, i>> \in R
    /\ \A i, j, k \in D : <<i, j>> \in R /\ <<j, k>> \in R => <<i, k>> \in R

\* The places that Sorted counts are those of the order.
LEMMA PlacesFollow ==
  ASSUME NEW n \in Nat, NEW R, Orders1(R, 1..n),
         NEW place, place = [i \in 1..n |-> 1 + Cardinality({j \in 1..n : <<j, i>> \in R})]
  PROVE  /\ place \in Bijection(1..n, 1..n)
         /\ \A i, j \in 1..n : <<i, j>> \in R => place[i] < place[j]
  <1> DEFINE D == 1..n
             Below(i) == {j \in D : <<j, i>> \in R}
  <1>1. IsFiniteSet(D) /\ Cardinality(D) = n
    BY FS_Interval
  <1>2. \A i \in D : /\ IsFiniteSet(Below(i)) /\ Cardinality(Below(i)) \in Nat
                     /\ Cardinality(Below(i)) < n
    <2> SUFFICES ASSUME NEW i \in D
                 PROVE  /\ IsFiniteSet(Below(i)) /\ Cardinality(Below(i)) \in Nat
                        /\ Cardinality(Below(i)) < n
      OBVIOUS
    <2>1. Below(i) \in SUBSET D /\ i \notin Below(i)
      BY DEF Orders1
    <2>2. Below(i) # D
      BY <2>1
    <2> HIDE DEF Below, D
    <2>3. IsFiniteSet(Below(i)) /\ Cardinality(Below(i)) <= n /\ Cardinality(Below(i)) # n
      BY <1>1, <2>1, <2>2, FS_Subset
    <2>4. Cardinality(Below(i)) \in Nat
      BY <2>3, FS_CardinalityType
    <2> QED
      BY <2>3, <2>4
  <1>3. ASSUME NEW i \in D, NEW j \in D, <<i, j>> \in R
        PROVE  Cardinality(Below(i)) < Cardinality(Below(j))
    <2>1. Below(i) \in SUBSET Below(j)
      BY <1>3 DEF Orders1
    <2>2. i \in Below(j) /\ i \notin Below(i)
      BY <1>3 DEF Orders1
    <2>3. Below(i) # Below(j)
      BY <2>2
    <2> HIDE DEF Below, D
    <2>4. Cardinality(Below(i)) <= Cardinality(Below(j)) /\ Cardinality(Below(i)) # Cardinality(Below(j))
      BY <1>2, <2>1, <2>3, FS_Subset
    <2> QED
      BY <1>2, <2>4
  <1>4. \A i \in D : place[i] = 1 + Cardinality(Below(i))
    OBVIOUS
  <1>5. place = [i \in D |-> place[i]]
    OBVIOUS
  <1>6. \A i, j \in D : i # j => <<i, j>> \in R \/ <<j, i>> \in R
    BY DEF Orders1
  <1> HIDE DEF Below
  <1>7. ASSUME NEW i \in D PROVE place[i] \in D
    <2>1. Cardinality(Below(i)) \in Nat /\ Cardinality(Below(i)) < n
      BY <1>2
    <2>2. place[i] = 1 + Cardinality(Below(i))
      BY <1>4
    <2> QED
      BY <2>1, <2>2
  <1>8. ASSUME NEW i \in D, NEW j \in D, <<i, j>> \in R PROVE place[i] < place[j]
    <2>1. /\ Cardinality(Below(i)) \in Nat /\ Cardinality(Below(j)) \in Nat
          /\ Cardinality(Below(i)) < Cardinality(Below(j))
      BY <1>2, <1>3, <1>8
    <2>2. place[i] = 1 + Cardinality(Below(i)) /\ place[j] = 1 + Cardinality(Below(j))
      BY <1>4
    <2> QED
      BY <2>1, <2>2
  <1>9. \A i, j \in D : place[i] = place[j] => i = j
    <2> SUFFICES ASSUME NEW i \in D, NEW j \in D, i # j PROVE place[i] # place[j]
      OBVIOUS
    <2>1. place[i] < place[j] \/ place[j] < place[i]
      BY <1>6, <1>8
    <2>2. place[i] \in Nat /\ place[j] \in Nat
      BY <1>7
    <2> QED
      BY <2>1, <2>2
  <1>10. place \in Injection(D, D)
    BY <1>5, <1>7, <1>9 DEF Injection, IsInjective
  <1>11. place \in Surjection(D, D)
    BY <1>1, <1>10, FS_Injection
  <1> QED
    BY <1>8, <1>10, <1>11 DEF Bijection

\* Before(a, b) for <<a, b>> \in B.
SortedBy(s, B) == Sorted(s, LAMBDA a, b : <<a, b>> \in B)

\* B is what a comparator must be: what neither precedes the other is equal.
WeakOrder(B, S) ==
    /\ \A a, b \in S : <<a, b>> \in B => <<b, a>> \notin B
    /\ \A a, b, c \in S : <<a, c>> \in B => <<a, b>> \in B \/ <<b, c>> \in B

\* Sorted only moves what it is given, and nothing precedes what comes before it.
LEMMA SortedIs ==
  ASSUME NEW S, NEW s \in Seq(S), NEW B, WeakOrder(B, S)
  PROVE  \E p \in Bijection(1..Len(s), 1..Len(s)) :
           /\ SortedBy(s, B) = [k \in 1..Len(s) |-> s[p[k]]]
           /\ \A k, l \in 1..Len(s) : k < l => <<s[p[l]], s[p[k]]>> \notin B
  <1> DEFINE n == Len(s)
             D == 1..n
             R == {x \in D \X D : <<s[x[1]], s[x[2]]>> \in B
                                    \/ (x[1] < x[2] /\ <<s[x[2]], s[x[1]]>> \notin B)}
             place == [i \in D |-> 1 + Cardinality({j \in D : <<j, i>> \in R})]
             p == [k \in D |-> CHOOSE i \in D : place[i] = k]
  <1>1. n \in Nat /\ DOMAIN s = D /\ \A i \in D : s[i] \in S
    OBVIOUS
  <1>2. \A j, i \in D : <<j, i>> \in R <=> <<s[j], s[i]>> \in B \/ (j < i /\ <<s[i], s[j]>> \notin B)
    OBVIOUS
  <1>3. \A i, j \in D : i \in Int
    OBVIOUS
  <1> HIDE DEF R
  <1>4. Orders1(R, D)
    <2> HIDE DEF D
    <2>1. ASSUME NEW i \in D PROVE <<i, i>> \notin R
      <3>1. s[i] \in S /\ ~(i < i)
        BY <1>1, <1>3
      <3>2. <<s[i], s[i]>> \notin B
        BY <3>1 DEF WeakOrder
      <3> QED
        BY <1>2, <3>1, <3>2
    <2>2. ASSUME NEW i \in D, NEW j \in D, i # j PROVE <<i, j>> \in R \/ <<j, i>> \in R
      <3>1. s[i] \in S /\ s[j] \in S /\ (i < j \/ j < i)
        BY <1>1, <1>3, <2>2
      <3> QED
        BY <1>2, <3>1 DEF WeakOrder
    <2>3. ASSUME NEW i \in D, NEW j \in D, NEW k \in D, <<i, j>> \in R, <<j, k>> \in R
          PROVE  <<i, k>> \in R
      <3> DEFINE a == s[i]
                 b == s[j]
                 c == s[k]
      <3>1. a \in S /\ b \in S /\ c \in S
        BY <1>1
      <3>2. /\ <<a, b>> \in B => <<a, c>> \in B \/ <<c, b>> \in B
            /\ <<b, c>> \in B => <<b, a>> \in B \/ <<a, c>> \in B
            /\ <<c, a>> \in B => <<c, b>> \in B \/ <<b, a>> \in B
            /\ ~(<<b, c>> \in B /\ <<c, b>> \in B) /\ ~(<<a, b>> \in B /\ <<b, a>> \in B)
        BY <3>1 DEF WeakOrder
      <3>3. /\ <<a, b>> \in B \/ (i < j /\ <<b, a>> \notin B)
            /\ <<b, c>> \in B \/ (j < k /\ <<c, b>> \notin B)
        BY <1>2, <2>3
      <3>4. i < j /\ j < k => i < k
        BY <1>3
      <3>5. <<a, c>> \in B \/ (i < k /\ <<c, a>> \notin B)
        BY <3>2, <3>3, <3>4
      <3> QED
        BY <1>2, <3>5
    <2> QED
      BY <2>1, <2>2, <2>3 DEF Orders1
  <1>5. /\ place \in Bijection(D, D)
        /\ \A i, j \in D : <<i, j>> \in R => place[i] < place[j]
    BY <1>1, <1>4, PlacesFollow
  <1>6. SortedBy(s, B) = [k \in D |-> s[p[k]]]
    <2>1. \A i \in D : {j \in D : <<s[j], s[i]>> \in B \/ (j < i /\ <<s[i], s[j]>> \notin B)}
                         = {j \in D : <<j, i>> \in R}
      BY <1>2
    <2> DEFINE There(E) == [i \in E |-> 1 + Cardinality({j \in E : <<s[j], s[i]>> \in B
                                                 \/ (j < i /\ <<s[i], s[j]>> \notin B)})]
               Rows(f, E) == [k \in E |-> s[CHOOSE i \in E : f[i] = k]]
    <2>2. SortedBy(s, B) = SubSeq(Rows(There(DOMAIN s), DOMAIN s), 1, n)
      BY DEF SortedBy, Sorted, Quantify
    <2>3. Rows(There(DOMAIN s), DOMAIN s) = Rows(There(D), D)
      <3> HIDE DEF There, Rows
      <3> QED
        BY <1>1
    <2>4. There(D) = place
      <3> HIDE DEF D
      <3> QED
        BY <2>1
    <2>5. Rows(place, D) = [k \in D |-> s[p[k]]]
      <3> HIDE DEF D, place
      <3> QED
        OBVIOUS
    <2> HIDE DEF There, Rows, place, p
    <2>6. SortedBy(s, B) = SubSeq([k \in D |-> s[p[k]]], 1, n)
      BY <2>2, <2>3, <2>4, <2>5
    <2> DEFINE F == [k \in 1..n |-> s[p[k]]]
    <2>7. F = [k \in 1..n |-> F[k]]
      OBVIOUS
    <2>8. SortedBy(s, B) = SubSeq(F, 1, n)
      BY <2>6
    <2> HIDE DEF F, n, D
    <2>9. SubSeq(F, 1, n) = F
      BY <1>1, <2>7, WholeSeq
    <2> QED
      BY <2>8, <2>9 DEF F, D
  <1> HIDE DEF place
  <1>7. \A k \in D : p[k] \in D /\ place[p[k]] = k
    BY <1>5 DEF Bijection, Surjection
  <1>8. \A i \in D : place[i] \in D /\ p[place[i]] = i
    <2>1. \A i \in D : place[i] \in D
      BY <1>5 DEF Bijection, Surjection
    <2>2. \A i, j \in D : place[i] = place[j] => i = j
      BY <1>5 DEF Bijection, Injection, IsInjective
    <2> QED
      BY <1>7, <2>1, <2>2
  <1>9. p = [k \in D |-> p[k]]
    OBVIOUS
  <1> HIDE DEF p
  <1>10. p \in Bijection(D, D)
    <2>1. p \in [D -> D]
      BY <1>7, <1>9
    <2>2. \A k, l \in D : p[k] = p[l] => k = l
      BY <1>7
    <2>3. \A i \in D : \E k \in D : p[k] = i
      BY <1>8
    <2> QED
      BY <2>1, <2>2, <2>3 DEF Bijection, Injection, Surjection, IsInjective
  <1>11. ASSUME NEW k \in D, NEW l \in D, k < l
         PROVE  <<s[p[l]], s[p[k]]>> \notin B
    <2>1. p[k] \in D /\ p[l] \in D /\ place[p[k]] = k /\ place[p[l]] = l
      BY <1>7
    <2>2. <<p[l], p[k]>> \notin R
      BY <1>3, <1>5, <1>11, <2>1
    <2> QED
      BY <1>2, <2>1, <2>2
  <1> QED
    BY <1>6, <1>10, <1>11

\* A permutation keeps the members and their number.
LEMMA SortedKeeps ==
  ASSUME NEW S, NEW s \in Seq(S), NEW B, WeakOrder(B, S)
  PROVE  /\ SortedBy(s, B) \in Seq(S) /\ Len(SortedBy(s, B)) = Len(s)
         /\ ToSet(SortedBy(s, B)) = ToSet(s)
  <1> DEFINE n == Len(s)
             t == SortedBy(s, B)
  <1>1. n \in Nat /\ DOMAIN s = 1..n /\ \A i \in 1..n : s[i] \in S
    OBVIOUS
  <1>2. PICK p \in Bijection(1..n, 1..n) : t = [k \in 1..n |-> s[p[k]]]
    BY SortedIs
  <1>3. /\ \A k \in 1..n : p[k] \in 1..n
        /\ \A i \in 1..n : \E k \in 1..n : p[k] = i
    BY DEF Bijection, Injection, Surjection
  <1> HIDE DEF n, t
  <1>4. t \in [1..n -> S]
    BY <1>1, <1>2, <1>3
  <1>5. t \in Seq(S) /\ Len(t) = n /\ DOMAIN t = 1..n
    BY <1>1, <1>4
  <1>6. ToSet(t) = ToSet(s)
    BY <1>1, <1>2, <1>3, <1>5 DEF ToSet
  <1> QED
    BY <1>5, <1>6 DEF n, t

\* Which pairs a comparison by numbers puts in order.
Smaller(key, S) == {x \in S \X S : key[x[1]] < key[x[2]]}
Larger(key, S) == {x \in S \X S : key[x[2]] < key[x[1]]}

LEMMA NumbersOrder ==
  ASSUME NEW S, NEW key, \A x \in S : key[x] \in Int
  PROVE  WeakOrder(Smaller(key, S), S) /\ WeakOrder(Larger(key, S), S)
  <1>1. \A a, b \in S : /\ <<a, b>> \in Smaller(key, S) <=> key[a] < key[b]
                        /\ <<a, b>> \in Larger(key, S) <=> key[b] < key[a]
    BY DEF Smaller, Larger
  <1> QED
    BY <1>1 DEF WeakOrder

LEMMA NumbersSort ==
  ASSUME NEW S, NEW s \in Seq(S), NEW key
  PROVE  Upwards(s, key) = SortedBy(s, Smaller(key, S)) /\ Downwards(s, key) = SortedBy(s, Larger(key, S))
  <1> DEFINE D == DOMAIN s
             Rows(f) == SubSeq([k \in D |-> s[CHOOSE i \in D : f[i] = k]], 1, Len(s))
             Below(B, i) == {j \in D : <<s[j], s[i]>> \in B \/ (j < i /\ <<s[i], s[j]>> \notin B)}
             Less(i) == {j \in D : key[s[j]] < key[s[i]] \/ (j < i /\ ~(key[s[i]] < key[s[j]]))}
             More(i) == {j \in D : key[s[i]] < key[s[j]] \/ (j < i /\ ~(key[s[j]] < key[s[i]]))}
  <1>1. \A B : SortedBy(s, B) = Rows([i \in D |-> 1 + Cardinality(Below(B, i))])
    BY DEF SortedBy, Sorted, Quantify
  <1>2. Upwards(s, key) = Rows([i \in D |-> 1 + Cardinality(Less(i))])
    BY DEF Upwards, Sorted, Quantify
  <1>3. Downwards(s, key) = Rows([i \in D |-> 1 + Cardinality(More(i))])
    BY DEF Downwards, Sorted, Quantify
  <1>4. \A i \in D : s[i] \in S
    OBVIOUS
  <1>5. \A i \in D : Below(Smaller(key, S), i) = Less(i)
    BY <1>4 DEF Smaller
  <1>6. \A i \in D : Below(Larger(key, S), i) = More(i)
    BY <1>4 DEF Larger
  <1> HIDE DEF Rows, Below, Less, More, D
  <1>7. [i \in D |-> 1 + Cardinality(Below(Smaller(key, S), i))] = [i \in D |-> 1 + Cardinality(Less(i))]
    BY <1>5
  <1>8. [i \in D |-> 1 + Cardinality(Below(Larger(key, S), i))] = [i \in D |-> 1 + Cardinality(More(i))]
    BY <1>6
  <1> QED
    BY <1>1, <1>2, <1>3, <1>7, <1>8

\* A sort by numbers keeps the members.
LEMMA NumbersKeep ==
  ASSUME NEW S, NEW s \in Seq(S), NEW key, \A x \in S : key[x] \in Int
  PROVE  /\ Upwards(s, key) \in Seq(S) /\ ToSet(Upwards(s, key)) = ToSet(s)
         /\ Downwards(s, key) \in Seq(S) /\ ToSet(Downwards(s, key)) = ToSet(s)
  BY NumbersOrder, NumbersSort, SortedKeeps

\* A sort repeats nothing.
LEMMA SortedInjective ==
  ASSUME NEW S, NEW s \in Seq(S), Injective(s), NEW B, WeakOrder(B, S)
  PROVE  Injective(SortedBy(s, B))
  <1> DEFINE n == Len(s)
             t == SortedBy(s, B)
  <1>1. n \in Nat /\ DOMAIN s = 1..n
    OBVIOUS
  <1>2. PICK p \in Bijection(1..n, 1..n) : t = [k \in 1..n |-> s[p[k]]]
    BY SortedIs
  <1>3. \A k \in 1..n : p[k] \in 1..n
    BY DEF Bijection, Injection
  <1>4. \A k, l \in 1..n : p[k] = p[l] => k = l
    BY DEF Bijection, Injection, IsInjective
  <1> HIDE DEF t, n
  <1>5. Injective(t)
    BY <1>1, <1>2, <1>3, <1>4 DEF Injective
  <1> QED
    BY <1>5 DEF t

\* What is kept of a list whose numbers do not rise has numbers that do not rise.
Falling(s, key) == \A i, j \in DOMAIN s : i < j => key[s[j]] <= key[s[i]]

LEMMA KeepsFalling ==
  ASSUME NEW S, NEW s \in Seq(S), NEW key, Falling(s, key), NEW some, NEW g,
         Keeps(g, Len(s), s, some)
  PROVE  \A i \in 0..Len(s) : Falling(g[i], key)
  <1> DEFINE T == {i \in 0..Len(s) : Falling(g[i], key)}
  <1>0. Len(s) \in Nat /\ DOMAIN s = 1..Len(s)
    OBVIOUS
  <1>1. 0 \in T
    BY <1>0 DEF Keeps, Falling
  <1>2. ASSUME NEW i \in 1..Len(s), i - 1 \in T PROVE i \in T
    <2>1. i \in 0..Len(s) /\ i - 1 \in 0..Len(s) /\ i \in DOMAIN s /\ Falling(g[i - 1], key)
      BY <1>0, <1>2
    <2>2. g[i - 1] \in Seq(S) /\ ToSet(g[i - 1]) = First(s, i - 1) \cap some
      BY <2>1, KeepsMembers
    <2>3. CASE s[i] \in some
      <3>1. g[i] = Append(g[i - 1], s[i])
        BY <1>2, <2>3 DEF Keeps, Step
      <3>2. \A x \in First(s, i - 1) : key[s[i]] <= key[x]
        BY <1>0, <2>1 DEF First, Falling
      <3>3. PICK t \in Seq(S) : t = g[i - 1]
        BY <2>2
      <3>4. /\ DOMAIN t = 1..Len(t) /\ Len(t) \in Nat
            /\ DOMAIN Append(t, s[i]) = 1..(Len(t) + 1)
            /\ \A k \in 1..Len(t) : Append(t, s[i])[k] = t[k]
            /\ Append(t, s[i])[Len(t) + 1] = s[i]
        BY <2>1
      <3>5. \A k \in 1..Len(t) : key[s[i]] <= key[t[k]]
        BY <2>2, <3>2, <3>3, <3>4 DEF ToSet
      <3>6. ASSUME NEW a \in 1..(Len(t) + 1), NEW b \in 1..(Len(t) + 1), a < b
            PROVE  key[Append(t, s[i])[b]] <= key[Append(t, s[i])[a]]
        <4>1. a \in 1..Len(t)
          BY <3>4, <3>6
        <4>2. b \in 1..Len(t) \/ b = Len(t) + 1
          BY <3>4
        <4> QED
          BY <2>1, <3>3, <3>4, <3>5, <3>6, <4>1, <4>2 DEF Falling
      <3>7. Falling(Append(t, s[i]), key)
        BY <3>4, <3>6 DEF Falling
      <3> QED
        BY <2>1, <3>1, <3>3, <3>7
    <2>4. CASE s[i] \notin some
      <3>1. g[i] = g[i - 1]
        BY <1>2, <2>4 DEF Keeps, Step
      <3> QED
        BY <2>1, <3>1
    <2> QED
      BY <2>3, <2>4
  <1> HIDE DEF T
  <1>3. \A i \in 0..Len(s) : i \in T
    BY <1>0, <1>1, <1>2, UpwardsFromZero
  <1> QED
    BY <1>3 DEF T

LEMMA AmongFalling ==
  ASSUME NEW S, NEW s \in Seq(S), NEW key, Falling(s, key), NEW some
  PROVE  Falling(Among(s, some), key)
  <1>1. PICK g : Keeps(g, Len(s), s, some) /\ Among(s, some) = g[Len(s)]
    BY AmongKeeps
  <1>2. Len(s) \in 0..Len(s)
    OBVIOUS
  <1>3. \A i \in 0..Len(s) : Falling(g[i], key)
    BY <1>1, KeepsFalling
  <1> QED
    BY <1>1, <1>2, <1>3

\* A sort by numbers repeats nothing, and the numbers fall.
LEMMA NumbersFall ==
  ASSUME NEW S, NEW s \in Seq(S), Injective(s), NEW key, \A x \in S : key[x] \in Int
  PROVE  Injective(Upwards(s, key)) /\ Injective(Downwards(s, key)) /\ Falling(Downwards(s, key), key)
  <1> DEFINE n == Len(s)
             t == Downwards(s, key)
  <1>1. WeakOrder(Smaller(key, S), S) /\ WeakOrder(Larger(key, S), S)
    BY NumbersOrder
  <1>2. Upwards(s, key) = SortedBy(s, Smaller(key, S)) /\ t = SortedBy(s, Larger(key, S))
    BY NumbersSort
  <1>3. Injective(SortedBy(s, Smaller(key, S))) /\ Injective(SortedBy(s, Larger(key, S)))
    BY <1>1, SortedInjective
  <1>4. n \in Nat /\ \A i \in 1..n : s[i] \in S
    OBVIOUS
  <1>5. PICK p \in Bijection(1..n, 1..n) :
           /\ SortedBy(s, Larger(key, S)) = [k \in 1..n |-> s[p[k]]]
           /\ \A k, l \in 1..n : k < l => <<s[p[l]], s[p[k]]>> \notin Larger(key, S)
    BY <1>1, SortedIs
  <1>6. \A k \in 1..n : p[k] \in 1..n
    BY DEF Bijection, Injection
  <1>7. ASSUME NEW k \in 1..n, NEW l \in 1..n, k < l PROVE key[s[p[l]]] <= key[s[p[k]]]
    <2>1. s[p[k]] \in S /\ s[p[l]] \in S
      BY <1>4, <1>6
    <2>2. ~(key[s[p[k]]] < key[s[p[l]]])
      BY <1>5, <1>7, <2>1 DEF Larger
    <2> QED
      BY <2>1, <2>2
  <1> HIDE DEF n, t
  <1>8. Falling(t, key)
    BY <1>2, <1>5, <1>7 DEF Falling
  <1> QED
    BY <1>2, <1>3, <1>8 DEF t

-----------------------------------------------------------------------------
(* The list of runs. *)

\* The page of the URL is a number, and the index lists runs.
ListInv ==
    /\ {"page", "size"} \subseteq DOMAIN runsUrl
    /\ runsUrl.page \in Nat \ {0} /\ runsUrl.size \in RunSizes
    /\ runsIndex # None => DOMAIN runsIndex \subseteq AllRuns
    /\ runsDrop # None => runsDrop[1] \in {"labels", "suiteLabels"}

\* What is chosen are runs, and for a comparison not too many.
ChoiceInv ==
    /\ runsMode = [mode |-> runsMode.mode, chosen |-> runsMode.chosen, anchor |-> runsMode.anchor]
    /\ runsMode.mode \in {"off", "compare", "delete"}
    /\ runsMode.chosen \subseteq AllRuns
    /\ runsMode.mode = "compare" =>
         IsFiniteSet(runsMode.chosen) /\ Cardinality(runsMode.chosen) <= MostCompared

\* No run goes back to being known from reports only: once it was in an index
\* that was fetched, the server has indexed it.
SeenInv ==
    /\ runsSrv = [r \in AllRuns |-> runsSrv[r]]
    /\ runsIndex # None => \A r \in DOMAIN runsIndex : runsSrv[r] # "live"
    /\ runsAsked \subseteq AllRuns
    /\ ChosenAreIndexed

RunsInv == ListInv /\ ChoiceInv /\ SeenInv

LEMMA InitRuns == RunsInit => RunsInv
  <1> SUFFICES ASSUME RunsInit PROVE RunsInv
    OBVIOUS
  <1>1. ListInv
    BY RunsAssumption DEF RunsInit, ListInv, DefaultRunsUrl
  <1>2. IsFiniteSet({}) /\ Cardinality({}) = 0
    BY FS_EmptySet
  <1>3. ChoiceInv
    BY <1>2, RunsAssumption DEF RunsInit, ChoiceInv
  <1>4. SeenInv
    BY DEF RunsInit, SeenInv, ChosenAreIndexed
  <1> QED
    BY <1>1, <1>3, <1>4 DEF RunsInv

\* The rows that the filters leave, and the rows of a page, as sequences.
LEMMA MatchingIsSeq == RunsMatching \in Seq(AllRuns)
  <1>1. <<>> \in Seq(AllRuns) /\ RunSeq \in Seq(AllRuns)
    BY RunsAssumption DEF AllRuns
  <1>2. MergedRuns \in Seq(AllRuns)
    <2>1. /\ Among(RunSeq, runsLive \ DOMAIN runsIndex) \in Seq(AllRuns)
          /\ Among(RunSeq, DOMAIN runsIndex) \in Seq(AllRuns)
      BY <1>1, AmongMembers
    <2> QED
      BY <1>1, <2>1 DEF MergedRuns
  <1> QED
    BY <1>2, AmongMembers DEF RunsMatching

LEMMA RowsAreSeq ==
  ASSUME ListInv
  PROVE  \E S : RunsOnPage \in Seq(S)
  <1>3. RunsMatching \in Seq(AllRuns)
    BY MatchingIsSeq
  <1> DEFINE n == Len(RunsMatching)
  <1>4. n \in Nat /\ DOMAIN RunsMatching = 1..n
    BY <1>3
  <1>5. RunsShown = [k \in 1..n |-> RunsShown[k]]
    <2> DEFINE s == RunsMatching
               At(i) == 1 + Cardinality({j \in DOMAIN s :
                             RunBefore(s[j], s[i]) \/ (j < i /\ ~RunBefore(s[i], s[j]))})
               places == [i \in DOMAIN s |-> At(i)]
               F == [k \in DOMAIN s |-> s[CHOOSE i \in DOMAIN s : places[i] = k]]
    <2>1. RunsShown = SubSeq(F, 1, n)
      BY DEF RunsShown, Sorted, Quantify
    <2>2. F = [k \in DOMAIN s |-> F[k]]
      OBVIOUS
    <2> HIDE DEF n, F
    <2> QED
      BY <1>4, <2>1, <2>2, WholeSeq
  <1> DEFINE S == {RunsShown[k] : k \in 1..n}
  <1>6. RunsShown \in Seq(S)
    BY <1>4, <1>5
  <1> HIDE DEF S, n
  <1>7. runsUrl.page \in Nat \ {0} /\ runsUrl.size \in Nat \ {0}
    BY RunsAssumption DEF ListInv
  <1>8. RunsOnPage \in Seq(S)
    BY <1>6, <1>7, PageIsSeq DEF RunsOnPage
  <1> QED
    BY <1>8

\* A row that may be chosen is in the index (isEntrySelectable).
LEMMA SelectableIsIndexed ==
  ASSUME NEW r, Selectable(r)
  PROVE  r \in DOMAIN runsIndex
  <1>1. ASSUME ~InIndex(r) PROVE Row(r).status = "running"
    BY <1>1 DEF Row, Over
  <1> QED
    BY <1>1 DEF Selectable, Ended, InIndex

\* So is every row that a range takes, and ranges are sequences.
LEMMA RangeIsIndexed ==
  ASSUME ListInv, NEW a \in ToSet(RunsOnPage), NEW b \in ToSet(RunsOnPage)
  PROVE  /\ \E S : RunsBetween(a, b) \in Seq(S)
         /\ ToSet(RunsBetween(a, b)) \subseteq DOMAIN runsIndex
  <1>1. PICK S : RunsOnPage \in Seq(S)
    BY RowsAreSeq
  <1>2. Between(RunsOnPage, a, b) \in Seq(S)
    BY <1>1, RangeIsSeq
  <1>3. RunsBetween(a, b) = Among(Between(RunsOnPage, a, b), {r \in AllRuns : Selectable(r)})
    BY DEF RunsBetween
  <1>4. /\ RunsBetween(a, b) \in Seq(S)
        /\ ToSet(RunsBetween(a, b)) \subseteq {r \in AllRuns : Selectable(r)}
    BY <1>2, <1>3, AmongMembers
  <1> QED
    BY <1>4, SelectableIsIndexed

\* What handleSelectionChange makes of the runs that were clicked.
LEMMA WithRunsFits ==
  ASSUME RunsInv, runsMode.mode # "off", NEW S, NEW ids \in Seq(S), NEW on \in BOOLEAN
  PROVE  /\ WithRuns(ids, on) \subseteq runsMode.chosen \cup ToSet(ids)
         /\ on => runsMode.chosen \subseteq WithRuns(ids, on)
         /\ ~on => WithRuns(ids, on) \subseteq runsMode.chosen
         /\ runsMode.mode = "compare" =>
              /\ IsFiniteSet(WithRuns(ids, on))
              /\ Cardinality(WithRuns(ids, on)) <= MostCompared
  <1>1. CASE ~on
    <2>1. WithRuns(ids, on) = runsMode.chosen \ ToSet(ids)
      BY <1>1 DEF WithRuns
    <2>2. ASSUME runsMode.mode = "compare"
          PROVE  /\ IsFiniteSet(runsMode.chosen \ ToSet(ids))
                 /\ Cardinality(runsMode.chosen \ ToSet(ids)) <= MostCompared
      <3>1. IsFiniteSet(runsMode.chosen) /\ Cardinality(runsMode.chosen) <= MostCompared
        BY <2>2 DEF RunsInv, ChoiceInv
      <3>2. /\ IsFiniteSet(runsMode.chosen \ ToSet(ids))
            /\ Cardinality(runsMode.chosen \ ToSet(ids)) <= Cardinality(runsMode.chosen)
        BY <3>1, FS_Subset
      <3>3. /\ Cardinality(runsMode.chosen) \in Nat
            /\ Cardinality(runsMode.chosen \ ToSet(ids)) \in Nat
        BY <3>1, <3>2, FS_CardinalityType
      <3> QED
        BY <3>1, <3>2, <3>3, RunsAssumption
    <2> QED
      BY <1>1, <2>1, <2>2
  <1>2. CASE on /\ runsMode.mode = "delete"
    <2>1. WithRuns(ids, on) = runsMode.chosen \cup ToSet(ids)
      BY <1>2 DEF WithRuns
    <2> QED
      BY <1>2, <2>1
  <1>3. CASE on /\ runsMode.mode = "compare"
    <2>1. WithRuns(ids, on) = Taken(runsMode.chosen, ids, MostCompared)
      BY <1>3 DEF WithRuns
    <2>2. IsFiniteSet(runsMode.chosen) /\ Cardinality(runsMode.chosen) <= MostCompared
      BY <1>3 DEF RunsInv, ChoiceInv
    <2>3. MostCompared \in Nat
      BY RunsAssumption
    <2>4. LET taken == Taken(runsMode.chosen, ids, MostCompared)
          IN /\ runsMode.chosen \subseteq taken /\ taken \subseteq runsMode.chosen \cup ToSet(ids)
             /\ IsFiniteSet(taken) /\ Cardinality(taken) <= MostCompared
      BY <2>2, <2>3, TakenFits
    <2> QED
      BY <1>3, <2>1, <2>4
  <1> QED
    BY <1>1, <1>2, <1>3 DEF RunsInv, ChoiceInv

\* The handlers of the URL keep its page a number.
LEMMA TurnKeepsList ==
  ASSUME ListInv, NEW url, NEW drop, RunsTurn(url, drop),
         drop \in {None, runsDrop},
         DOMAIN url = DOMAIN runsUrl, url.page \in Nat \ {0}, url.size \in RunSizes
  PROVE  ListInv'
  BY DEF ListInv, RunsTurn, AllRuns

LEMMA PageLinksArePages ==
  ASSUME NEW page \in Nat \ {0}, NEW total \in Int, NEW p \in PageLinks(page, total)
  PROVE  p \in Nat \ {0}
  BY DEF PageLinks

\* Changes of a parameter, which go back to the first page.
LEMMA FirstPageAnd ==
  ASSUME ListInv, NEW p, p \notin {"page", "size"}, NEW v
  PROVE  LET url == [runsUrl EXCEPT ![p] = v, !.page = 1]
         IN DOMAIN url = DOMAIN runsUrl /\ url.page \in Nat \ {0} /\ url.size \in RunSizes
  BY DEF ListInv

LEMMA UrlStepsKeepList ==
  ASSUME ListInv, PickFilter \/ PickStatus \/ TurnRunsPage \/ ClickColumn \/ ClickStep
                    \/ ChooseLabel \/ RemoveLabel
  PROVE  ListInv'
  <1>1. ASSUME NEW p, p \notin {"page", "size"}, NEW v, NEW drop \in {None, runsDrop},
               RunsTurn([runsUrl EXCEPT ![p] = v, !.page = 1], drop)
        PROVE  ListInv'
    <2>1. LET url == [runsUrl EXCEPT ![p] = v, !.page = 1]
          IN DOMAIN url = DOMAIN runsUrl /\ url.page \in Nat \ {0} /\ url.size \in RunSizes
      BY <1>1, FirstPageAnd
    <2> QED
      BY <1>1, <2>1, TurnKeepsList
  <1>2. CASE PickFilter
    <2>1. PICK p \in RunsPicked : \E v : RunsTurn([runsUrl EXCEPT ![p] = v, !.page = 1], None)
      BY <1>2 DEF PickFilter, RunsGo
    <2>2. PICK v : RunsTurn([runsUrl EXCEPT ![p] = v, !.page = 1], None)
      BY <2>1
    <2> QED
      BY <1>1, <2>2 DEF RunsPicked
  <1>3. CASE PickStatus
    <2>1. PICK v : RunsTurn([runsUrl EXCEPT !["status"] = v, !.page = 1], None)
      BY <1>3 DEF PickStatus, RunsGo
    <2> QED
      BY <1>1, <2>1
  <1>4. CASE TurnRunsPage
    <2>1. CASE \E p \in PageLinks(runsUrl.page, PageCount(RunsMatching, runsUrl.size)) :
                 RunsTurn([runsUrl EXCEPT !.page = p], None)
      <3>1. PICK p \in PageLinks(runsUrl.page, PageCount(RunsMatching, runsUrl.size)) :
                   RunsTurn([runsUrl EXCEPT !.page = p], None)
        BY <2>1
      <3>2. p \in Nat \ {0}
        <4>1. Len(RunsMatching) \in Nat
          BY MatchingIsSeq
        <4>3. runsUrl.size \in Nat \ {0}
          BY RunsAssumption DEF ListInv
        <4>2. PageCount(RunsMatching, runsUrl.size) \in Int
          BY <4>1, <4>3 DEF PageCount
        <4> QED
          BY <4>2, PageLinksArePages DEF ListInv
      <3>3. LET url == [runsUrl EXCEPT !.page = p]
            IN DOMAIN url = DOMAIN runsUrl /\ url.page \in Nat \ {0} /\ url.size \in RunSizes
        BY <3>2 DEF ListInv
      <3> QED
        BY <3>1, <3>3, TurnKeepsList
    <2>2. CASE \E n \in RunSizes : RunsTurn([runsUrl EXCEPT !.page = 1, !.size = n], None)
      <3>1. PICK n \in RunSizes : RunsTurn([runsUrl EXCEPT !.page = 1, !.size = n], None)
        BY <2>2
      <3>2. LET url == [runsUrl EXCEPT !.page = 1, !.size = n]
            IN DOMAIN url = DOMAIN runsUrl /\ url.page \in Nat \ {0} /\ url.size \in RunSizes
        BY DEF ListInv
      <3> QED
        BY <3>1, <3>2, TurnKeepsList
    <2> QED
      BY <1>4, <2>1, <2>2 DEF TurnRunsPage, RunsGo
  <1>5. CASE ClickColumn
    <2>1. PICK c, d : RunsTurn([runsUrl EXCEPT !.page = 1, !.sortBy = c, !.dir = d], None)
      BY <1>5 DEF ClickColumn, RunsGo
    <2>2. LET url == [runsUrl EXCEPT !.page = 1, !.sortBy = c, !.dir = d]
          IN DOMAIN url = DOMAIN runsUrl /\ url.page \in Nat \ {0} /\ url.size \in RunSizes
      BY DEF ListInv
    <2> QED
      BY <2>1, <2>2, TurnKeepsList
  <1>6. CASE ClickStep
    <2>1. PICK steps : RunsTurn([runsUrl EXCEPT !.page = 1, !.steps = steps], None)
      BY <1>6 DEF ClickStep, RunsGo
    <2>2. LET url == [runsUrl EXCEPT !.page = 1, !.steps = steps]
          IN DOMAIN url = DOMAIN runsUrl /\ url.page \in Nat \ {0} /\ url.size \in RunSizes
      BY DEF ListInv
    <2> QED
      BY <2>1, <2>2, TurnKeepsList
  <1>7. CASE ChooseLabel
    \* runsDrop is <<which, key>>, of one of the two filters on labels.
    <2>1. PICK v : RunsTurn([runsUrl EXCEPT ![runsDrop[1]] = v, !.page = 1], runsDrop)
      BY <1>7 DEF ChooseLabel
    <2>2. runsDrop[1] \notin {"page", "size"}
      BY <1>7 DEF ChooseLabel, ListInv
    <2> QED
      BY <1>1, <2>1, <2>2
  <1>8. CASE RemoveLabel
    <2>1. PICK p \in {"labels", "suiteLabels"} :
              \E v : RunsTurn([runsUrl EXCEPT ![p] = v, !.page = 1], None)
      BY <1>8 DEF RemoveLabel, RunsGo
    <2>2. PICK v : RunsTurn([runsUrl EXCEPT ![p] = v, !.page = 1], None)
      BY <2>1
    <2> QED
      BY <1>1, <2>2
  <1> QED
    BY <1>2, <1>3, <1>4, <1>5, <1>6, <1>7, <1>8

LEMMA ListInvStep == RunsInv /\ [RunsNext]_runsVars => ListInv'
  <1> SUFFICES ASSUME RunsInv, [RunsNext]_runsVars PROVE ListInv'
    OBVIOUS
  <1> USE DEF RunsInv
  <1>1. CASE PickFilter \/ PickStatus \/ TurnRunsPage \/ ClickColumn \/ ClickStep
               \/ ChooseLabel \/ RemoveLabel
    BY <1>1, UrlStepsKeepList
  <1>2. CASE OpenLabel
    BY <1>2 DEF OpenLabel, ListInv, AllRuns
  <1>3. ASSUME NEW mode, NEW chosen, NEW anchor, SetMode(mode, chosen, anchor) PROVE ListInv'
    BY <1>3 DEF SetMode, ListInv, AllRuns
  <1>4. CASE EnterMode \/ CancelMode \/ ChooseRun
    BY <1>3, <1>4 DEF EnterMode, CancelMode, ChooseRun
  <1>5. ASSUME NEW srv, runsIndex' = SnapshotOf(srv), UNCHANGED <<runsUrl, runsDrop>>
        PROVE  ListInv'
    <2>1. DOMAIN SnapshotOf(srv) \subseteq AllRuns
      BY DEF SnapshotOf
    <2> QED
      BY <1>5, <2>1 DEF ListInv, AllRuns
  <1>6. CASE PollIndex
    BY <1>5, <1>6 DEF PollIndex
  <1>7. ASSUME NEW ok \in BOOLEAN, DeleteAnswers(ok) PROVE ListInv'
    <2>1. CASE ok
      BY <1>5, <1>7, <2>1 DEF DeleteAnswers
    <2>2. CASE ~ok
      BY <1>7, <2>2 DEF DeleteAnswers, ListInv, AllRuns
    <2> QED
      BY <2>1, <2>2
  <1>8. CASE ConfirmDelete \/ RunMoves \/ PollLiveRuns \/ FetchSuite \/ UNCHANGED runsVars
    BY <1>8 DEF ConfirmDelete, RunMoves, PollLiveRuns, FetchSuite, runsVars, ListInv, AllRuns
  <1> QED
    BY <1>1, <1>2, <1>4, <1>6, <1>7, <1>8 DEF RunsNext

-----------------------------------------------------------------------------
(* Choosing on the list of runs. *)

\* The effect of a step on the choice: the mode changes and nothing is chosen,
\* runs of the index join, some leave, or nothing happens to it.
ChoiceMoves ==
    \/ runsMode' = runsMode
    \/ /\ runsMode' = [mode |-> runsMode'.mode, chosen |-> {}, anchor |-> runsMode'.anchor]
       /\ runsMode'.mode \in {"off", "compare", "delete"}
    \/ /\ runsMode.mode # "off"
       /\ runsMode' = [mode |-> runsMode.mode, chosen |-> runsMode'.chosen,
                       anchor |-> runsMode'.anchor]
       /\ runsMode'.chosen \subseteq runsMode.chosen \cup DOMAIN runsIndex
       /\ runsIndex # None
       /\ runsMode.chosen \subseteq runsMode'.chosen \/ runsMode'.chosen \subseteq runsMode.chosen
       /\ runsMode.mode = "compare" =>
            IsFiniteSet(runsMode'.chosen) /\ Cardinality(runsMode'.chosen) <= MostCompared

LEMMA ChooseRunMoves ==
  ASSUME RunsInv, ChooseRun
  PROVE  ChoiceMoves /\ UNCHANGED <<runsSrv, runsIndex, runsAsked>>
  <1>0. PICK r \in ToSet(RunsOnPage) : \E ids, anchor :
           /\ ids = <<r>> \/ \E a \in ToSet(RunsOnPage) : ids = RunsBetween(a, r)
           /\ Selectable(r)
           /\ SetMode(runsMode.mode, WithRuns(ids, r \notin runsMode.chosen), anchor)
    <2>1. PICK r \in ToSet(RunsOnPage), shift \in BOOLEAN :
             LET on == r \notin runsMode.chosen
                 a == runsMode.anchor
                 ranged == shift /\ a # None /\ a \in ToSet(RunsOnPage) \ {r}
             IN /\ Selectable(r)
                /\ SetMode(runsMode.mode,
                           WithRuns(IF ranged THEN RunsBetween(a, r) ELSE <<r>>, on),
                           IF ranged THEN a ELSE r)
      BY DEF ChooseRun
    <2> DEFINE a == runsMode.anchor
               ranged == shift /\ a # None /\ a \in ToSet(RunsOnPage) \ {r}
               ids == IF ranged THEN RunsBetween(a, r) ELSE <<r>>
               anchor == IF ranged THEN a ELSE r
    <2>2. ids = <<r>> \/ \E b \in ToSet(RunsOnPage) : ids = RunsBetween(b, r)
      OBVIOUS
    <2>3. Selectable(r) /\ SetMode(runsMode.mode, WithRuns(ids, r \notin runsMode.chosen), anchor)
      BY <2>1
    <2> HIDE DEF ids, anchor
    <2> QED
      BY <2>2, <2>3
  <1>1. PICK ids, anchor :
           /\ ids = <<r>> \/ \E a \in ToSet(RunsOnPage) : ids = RunsBetween(a, r)
           /\ Selectable(r)
           /\ SetMode(runsMode.mode, WithRuns(ids, r \notin runsMode.chosen), anchor)
    BY <1>0
  <1> DEFINE on == r \notin runsMode.chosen
  <1>2. \E S : ids \in Seq(S) /\ ToSet(ids) \subseteq DOMAIN runsIndex
    <2>1. CASE ids = <<r>>
      <3>1. ids \in Seq({r}) /\ ToSet(ids) = {r}
        BY <2>1 DEF ToSet
      <3> QED
        BY <1>1, <3>1, SelectableIsIndexed
    <2>2. CASE \E a \in ToSet(RunsOnPage) : ids = RunsBetween(a, r)
      BY <2>2, RangeIsIndexed DEF RunsInv
    <2> QED
      BY <1>1, <2>1, <2>2
  <1>3. PICK S : ids \in Seq(S) /\ ToSet(ids) \subseteq DOMAIN runsIndex
    BY <1>2
  <1>4. runsMode.mode # "off" /\ runsIndex # None
    BY DEF ChooseRun, TableShown, RunsLoaded
  <1>5. /\ WithRuns(ids, on) \subseteq runsMode.chosen \cup ToSet(ids)
        /\ on => runsMode.chosen \subseteq WithRuns(ids, on)
        /\ ~on => WithRuns(ids, on) \subseteq runsMode.chosen
        /\ runsMode.mode = "compare" =>
             /\ IsFiniteSet(WithRuns(ids, on))
             /\ Cardinality(WithRuns(ids, on)) <= MostCompared
    BY <1>3, <1>4, WithRunsFits
  <1>6. PICK to : runsMode' = [mode |-> runsMode.mode, chosen |-> WithRuns(ids, on), anchor |-> to]
    BY <1>1 DEF SetMode
  <1>7. UNCHANGED <<runsSrv, runsIndex, runsAsked>>
    BY <1>1 DEF SetMode
  <1> QED
    BY <1>3, <1>4, <1>5, <1>6, <1>7 DEF ChoiceMoves

LEMMA StepMoves == RunsInv /\ [RunsNext]_runsVars => ChoiceMoves
  <1> SUFFICES ASSUME RunsInv, [RunsNext]_runsVars PROVE ChoiceMoves
    OBVIOUS
  <1>1. CASE ChooseRun
    BY <1>1, ChooseRunMoves
  <1>2. ASSUME NEW mode \in {"off", "compare", "delete"}, SetMode(mode, {}, None)
        PROVE  ChoiceMoves
    BY <1>2 DEF SetMode, ChoiceMoves
  <1>3. CASE EnterMode
    <2>1. PICK m \in {"compare", "delete"} :
             SetMode(IF runsMode.mode = m THEN "off" ELSE m, {}, None)
      BY <1>3 DEF EnterMode
    <2>2. (IF runsMode.mode = m THEN "off" ELSE m) \in {"off", "compare", "delete"}
      OBVIOUS
    <2> QED
      BY <1>2, <2>1, <2>2
  <1>4. CASE CancelMode
    BY <1>2, <1>4 DEF CancelMode
  <1>5. ASSUME NEW ok \in BOOLEAN, DeleteAnswers(ok) PROVE ChoiceMoves
    <2>1. runsMode' = AnswerMode \/ runsMode' = runsMode
      BY <1>5 DEF DeleteAnswers
    <2>2. runsMode = [mode |-> runsMode.mode, chosen |-> runsMode.chosen, anchor |-> runsMode.anchor]
      BY DEF RunsInv, ChoiceInv
    <2>3. AnswerMode = runsMode \/ AnswerMode = [mode |-> "off", chosen |-> {}, anchor |-> None]
      BY <2>2 DEF AnswerMode
    <2> QED
      BY <2>1, <2>3 DEF ChoiceMoves
  <1>6. CASE \/ PickFilter \/ PickStatus \/ TurnRunsPage \/ ClickColumn \/ ClickStep
             \/ ChooseLabel \/ RemoveLabel
    BY <1>6 DEF PickFilter, PickStatus, TurnRunsPage, ClickColumn, ClickStep, ChooseLabel,
                RemoveLabel, RunsGo, RunsTurn, ChoiceMoves
  <1>7. CASE \/ OpenLabel \/ ConfirmDelete \/ RunMoves \/ PollIndex \/ PollLiveRuns
             \/ FetchSuite \/ UNCHANGED runsVars
    BY <1>7 DEF OpenLabel, ConfirmDelete, RunMoves, PollIndex, PollLiveRuns, FetchSuite,
                runsVars, ChoiceMoves
  <1> QED
    BY <1>1, <1>3, <1>4, <1>5, <1>6, <1>7 DEF RunsNext

LEMMA ChoiceInvStep == RunsInv /\ [RunsNext]_runsVars => ChoiceInv'
  <1> SUFFICES ASSUME RunsInv, [RunsNext]_runsVars PROVE ChoiceInv'
    OBVIOUS
  <1>1. ChoiceMoves
    BY StepMoves
  <1>2. runsIndex # None => DOMAIN runsIndex \subseteq AllRuns
    BY DEF RunsInv, ListInv
  <1>3. IsFiniteSet({}) /\ Cardinality({}) = 0 /\ 0 <= MostCompared
    BY FS_EmptySet, RunsAssumption
  <1> QED
    BY <1>1, <1>2, <1>3 DEF RunsInv, ChoiceInv, ChoiceMoves, AllRuns

LEMMA SeenInvStep == RunsInv /\ [RunsNext]_runsVars => SeenInv'
  <1> SUFFICES ASSUME RunsInv, [RunsNext]_runsVars PROVE SeenInv'
    OBVIOUS
  <1>1. ChoiceMoves
    BY StepMoves
  <1>2. ASSUME runsSrv' = runsSrv, runsIndex' = runsIndex, runsAsked' = runsAsked
        PROVE  SeenInv'
    <2>1. runsMode'.chosen \subseteq runsMode.chosen
             \/ (runsIndex # None /\ runsMode'.chosen \subseteq runsMode.chosen \cup DOMAIN runsIndex)
      BY <1>1 DEF ChoiceMoves
    <2> QED
      BY <1>2, <2>1 DEF RunsInv, SeenInv, ChosenAreIndexed, AllRuns
  <1>3. CASE RunMoves
    <2>0. PICK r \in Moving : \E s \in Stages(r) : runsSrv' = [runsSrv EXCEPT ![r] = s]
      BY <1>3 DEF RunMoves
    <2>1. PICK s \in Stages(r) : runsSrv' = [runsSrv EXCEPT ![r] = s]
      BY <2>0
    <2>2. s # "live"
      BY <2>1 DEF Stages
    <2>3. UNCHANGED <<runsIndex, runsMode, runsAsked>>
      BY <1>3 DEF RunMoves
    <2>4. \A x \in AllRuns : runsSrv[x] # "live" => runsSrv'[x] # "live"
      BY <2>1, <2>2 DEF RunsInv, SeenInv
    <2>5. runsSrv' = [x \in AllRuns |-> runsSrv'[x]]
      BY <2>1 DEF RunsInv, SeenInv
    <2> QED
      BY <2>3, <2>4, <2>5 DEF RunsInv, ListInv, ChoiceInv, SeenInv, ChosenAreIndexed, AllRuns
  <1>4. ASSUME NEW srv PROVE \A r \in DOMAIN SnapshotOf(srv) : r \in AllRuns /\ srv[r] # "live"
    BY DEF SnapshotOf, Indexed, Queued
  <1>5. CASE PollIndex
    <2>1. UNCHANGED <<runsSrv, runsMode, runsAsked>> /\ runsIndex' = SnapshotOf(runsSrv)
      BY <1>5 DEF PollIndex
    <2> QED
      BY <1>4, <2>1 DEF RunsInv, SeenInv, ChosenAreIndexed, AllRuns
  <1>6. ASSUME NEW ok \in BOOLEAN, DeleteAnswers(ok) PROVE SeenInv'
    <2> DEFINE queued == [r \in AllRuns |->
            IF r \notin runsAsked \/ runsSrv[r] \notin Indexed THEN runsSrv[r]
            ELSE IF runsSrv[r] \in Underway THEN "doomed" ELSE "queued"]
    <2>1. runsAsked' = {} /\ IF ok THEN runsSrv' = queued /\ runsIndex' = SnapshotOf(queued)
                             ELSE runsSrv' = runsSrv /\ runsIndex' = runsIndex
      BY <1>6 DEF DeleteAnswers
    <2>2. \A x \in AllRuns : runsSrv[x] # "live" => queued[x] # "live"
      OBVIOUS
    <2>3. runsMode'.chosen \subseteq runsMode.chosen
      <3>1. runsMode' = AnswerMode \/ runsMode' = runsMode
        BY <1>6 DEF DeleteAnswers
      <3>2. runsMode = [mode |-> runsMode.mode, chosen |-> runsMode.chosen, anchor |-> runsMode.anchor]
        BY DEF RunsInv, ChoiceInv
      <3>3. AnswerMode = runsMode \/ AnswerMode = [mode |-> "off", chosen |-> {}, anchor |-> None]
        BY <3>2 DEF AnswerMode
      <3> QED
        BY <3>1, <3>3
    <2>4. queued = [x \in AllRuns |-> queued[x]]
      OBVIOUS
    <2> HIDE DEF queued
    <2>5. CASE ok
      BY <1>4, <2>1, <2>2, <2>3, <2>4, <2>5
         DEF RunsInv, ChoiceInv, SeenInv, ChosenAreIndexed, AllRuns
    <2>6. CASE ~ok
      BY <2>1, <2>3, <2>6 DEF RunsInv, SeenInv, ChosenAreIndexed, AllRuns
    <2> QED
      BY <2>5, <2>6
  <1>7. CASE ConfirmDelete
    <2>1. UNCHANGED <<runsSrv, runsIndex, runsMode>> /\ runsAsked' = runsMode.chosen
      BY <1>7 DEF ConfirmDelete
    <2> QED
      BY <2>1 DEF RunsInv, ChoiceInv, SeenInv, ChosenAreIndexed, AllRuns
  <1>8. CASE \/ PickFilter \/ PickStatus \/ TurnRunsPage \/ ClickColumn \/ ClickStep
             \/ ChooseLabel \/ RemoveLabel
    BY <1>2, <1>8 DEF PickFilter, PickStatus, TurnRunsPage, ClickColumn, ClickStep, ChooseLabel,
                RemoveLabel, RunsGo, RunsTurn
  <1>9. CASE \/ OpenLabel \/ EnterMode \/ CancelMode \/ ChooseRun \/ PollLiveRuns
             \/ FetchSuite \/ UNCHANGED runsVars
    BY <1>2, <1>9 DEF OpenLabel, EnterMode, CancelMode, ChooseRun, SetMode, PollLiveRuns,
                FetchSuite, runsVars
  <1> QED
    BY <1>3, <1>5, <1>6, <1>7, <1>8, <1>9 DEF RunsNext

\* The invariant of the list of runs.
THEOREM RunsInvariant == RunsSpec => []RunsInv
  <1>1. RunsInv /\ [RunsNext]_runsVars => RunsInv'
    BY ListInvStep, ChoiceInvStep, SeenInvStep DEF RunsInv
  <1> QED
    BY <1>1, InitRuns, PTL DEF RunsSpec

\* A run that only its runner's reports tell of is never chosen nor asked to be
\* deleted (RunsTable.tsx isEntrySelectable, handleRowSelect).
THEOREM RunsChosenAreIndexed == RunsSpec => []ChosenAreIndexed
  <1>1. RunsInv => ChosenAreIndexed
    BY DEF RunsInv, SeenInv
  <1> QED
    BY <1>1, RunsInvariant, PTL

\* RunChoice has Cardinality from its own extension of FiniteSets.
LEMMA SameCardinality == \A S : RunsChoice!Cardinality(S) = Cardinality(S)
  BY DEF RunsChoice!Cardinality, Cardinality

\* The list of runs implements RunChoice (RunsPage.tsx handleSelectionChange).
THEOREM RunsChoiceImplemented == RunsSpec => RunsChoiceKept
  <1>1. RunsInit => RunsChoice!ChoiceInit
    BY DEF RunsInit, RunsChoice!ChoiceInit
  <1>2. RunsInv /\ RunsInv' /\ [RunsNext]_runsVars
          => [RunsChoice!ChoiceNext]_(RunsChoice!choiceVars)
    <2> SUFFICES ASSUME RunsInv, RunsInv', [RunsNext]_runsVars
                 PROVE  [RunsChoice!ChoiceNext]_(RunsChoice!choiceVars)
      OBVIOUS
    <2>1. ChoiceMoves
      BY StepMoves
    <2>2. runsMode'.chosen \in SUBSET AllRuns
      BY DEF RunsInv, ChoiceInv, AllRuns
    <2>3. CASE runsMode' = runsMode
      BY <2>3 DEF RunsChoice!choiceVars
    <2>4. CASE runsMode'.mode \in {"off", "compare", "delete"} /\ runsMode'.chosen = {}
      BY <2>4 DEF RunsChoice!ChoiceNext, RunsChoice!Switch
    <2>5. CASE /\ runsMode.mode # "off" /\ runsMode'.mode = runsMode.mode
               /\ \/ runsMode.chosen \subseteq runsMode'.chosen
                  \/ runsMode'.chosen \subseteq runsMode.chosen
               /\ runsMode.mode = "compare" => Cardinality(runsMode'.chosen) <= MostCompared
      BY <2>2, <2>5, SameCardinality DEF RunsChoice!ChoiceNext, RunsChoice!Choose, RunsChoice!Unchoose
    <2>6. CASE /\ runsMode'.mode \in {"off", "compare", "delete"}
               /\ runsMode' = [mode |-> runsMode'.mode, chosen |-> {}, anchor |-> runsMode'.anchor]
      <3>1. runsMode'.chosen = {}
        BY <2>6
      <3> QED
        BY <2>4, <2>6, <3>1
    <2>7. CASE /\ runsMode.mode # "off"
               /\ runsMode' = [mode |-> runsMode.mode, chosen |-> runsMode'.chosen,
                               anchor |-> runsMode'.anchor]
               /\ \/ runsMode.chosen \subseteq runsMode'.chosen
                  \/ runsMode'.chosen \subseteq runsMode.chosen
               /\ runsMode.mode = "compare" => Cardinality(runsMode'.chosen) <= MostCompared
      <3>1. runsMode'.mode = runsMode.mode
        BY <2>7
      <3> QED
        BY <2>5, <2>7, <3>1
    <2> QED
      BY <2>1, <2>3, <2>6, <2>7 DEF ChoiceMoves
  <1> QED
    BY <1>1, <1>2, RunsInvariant, PTL DEF RunsSpec, RunsChoiceKept, RunsChoice!ChoiceSpec

-----------------------------------------------------------------------------
(* The strip of a run's peers. *)

\* The index lists runs, the strip shows some, and those that are chosen are
\* runs, no more than a comparison has room for.
PeersInv ==
    /\ peerIndex.runs \subseteq DOMAIN PeerRows
    /\ peerStrip = [anchor |-> peerStrip.anchor, fit |-> peerStrip.fit]
    /\ peerStrip.fit \in Widths
    /\ peerCompare = [on |-> peerCompare.on, chosen |-> peerCompare.chosen]
    /\ peerCompare.on \in BOOLEAN
    /\ peerCompare.chosen \subseteq DOMAIN PeerRows
    /\ IsFiniteSet(peerCompare.chosen) /\ Cardinality(peerCompare.chosen) <= MaxCompare

LEMMA InitPeers == PeersInit => PeersInv
  <1>1. IsFiniteSet({}) /\ Cardinality({}) = 0 /\ 0 <= MaxCompare
    BY FS_EmptySet, PeersAssumption
  <1>2. ASSUME PeersInit PROVE peerIndex.runs \subseteq DOMAIN PeerRows
    BY <1>2, PeersAssumption DEF PeersInit
  <1>3. ASSUME PeersInit PROVE PeersInv
    <2>1. PICK w \in Widths : peerStrip = [anchor |-> None, fit |-> w]
      BY <1>3 DEF PeersInit
    <2>2. peerCompare = [on |-> FALSE, chosen |-> {}]
      BY <1>3 DEF PeersInit
    <2> QED
      BY <1>1, <1>2, <1>3, <2>1, <2>2 DEF PeersInv
  <1> QED
    BY <1>3

LEMMA NewestAreSeq ==
  ASSUME NEW rs
  PROVE  /\ NewestPeers(rs) \in Seq(DOMAIN PeerRows)
         /\ ToSet(NewestPeers(rs)) = rs \cap DOMAIN PeerRows
  <1>1. PeerSeq \in Seq(DOMAIN PeerRows) /\ ToSet(PeerSeq) = DOMAIN PeerRows
    BY PeersAssumption
  <1> QED
    BY <1>1, AmongMembers DEF NewestPeers

\* The place of r in s, from 1; 0 if it has none.
LEMMA PlaceIsThere ==
  ASSUME NEW S, NEW s \in Seq(S), NEW r
  PROVE  /\ PlaceOf(r, s) \in 0..Len(s)
         /\ r \in ToSet(s) => PlaceOf(r, s) \in 1..Len(s) /\ s[PlaceOf(r, s)] = r
  <1>1. Len(s) \in Nat /\ DOMAIN s = 1..Len(s)
    OBVIOUS
  <1>2. CASE r \in ToSet(s)
    <2>1. \E i \in DOMAIN s : s[i] = r
      BY <1>2 DEF ToSet
    <2>2. PlaceOf(r, s) \in DOMAIN s /\ s[PlaceOf(r, s)] = r
      BY <1>2, <2>1 DEF PlaceOf
    <2> QED
      BY <1>1, <2>2
  <1>3. CASE r \notin ToSet(s)
    BY <1>1, <1>3 DEF PlaceOf
  <1> QED
    BY <1>2, <1>3

\* Where a strip of s with this anchor and width begins, and what it shows.
StartAt(s, anchor, fit) ==
    Min({IF PlaceOf(anchor, s) > 0 THEN PlaceOf(anchor, s)
         ELSE Max({1, PlaceOf(ThisRun, s) - fit + 1}),
         Max({1, Len(s) - fit + 1})})
ShownAt(s, anchor, fit) ==
    SubSeq(s, StartAt(s, anchor, fit), Min({StartAt(s, anchor, fit) + fit - 1, Len(s)}))

LEMMA DisplayedIsShown ==
  /\ Displayed = ShownAt(NewestPeers(ClientRuns), peerStrip.anchor, peerStrip.fit)
  /\ Displayed' = ShownAt(NewestPeers(ClientRuns'), peerStrip'.anchor, peerStrip'.fit)
  BY DEF Displayed, StripStart, ShownAt, StartAt, NewestPeers

LEMMA StartIsPlace ==
  ASSUME NEW S, NEW s \in Seq(S), NEW anchor, NEW fit \in Nat \ {0}
  PROVE  StartAt(s, anchor, fit) \in Nat \ {0}
  <1>1. Len(s) \in Nat
    OBVIOUS
  <1>2. PlaceOf(anchor, s) \in Nat /\ PlaceOf(ThisRun, s) \in Nat
    BY <1>1, PlaceIsThere
  <1> DEFINE auto == Max({1, PlaceOf(ThisRun, s) - fit + 1})
             last == Max({1, Len(s) - fit + 1})
             from == IF PlaceOf(anchor, s) > 0 THEN PlaceOf(anchor, s) ELSE auto
  <1>3. auto \in Nat \ {0} /\ last \in Nat \ {0}
    <2>1. PlaceOf(ThisRun, s) - fit + 1 \in Int /\ Len(s) - fit + 1 \in Int
      BY <1>1, <1>2
    <2> QED
      BY <2>1, MaxOfTwo
  <1>4. StartAt(s, anchor, fit) = Min({from, last})
    BY DEF StartAt
  <1> HIDE DEF auto, last
  <1>5. from \in Nat \ {0}
    BY <1>2, <1>3
  <1> HIDE DEF from
  <1> QED
    BY <1>3, <1>4, <1>5, MinOfTwo

LEMMA ShownAreRuns ==
  ASSUME NEW S, NEW s \in Seq(S), NEW anchor, NEW fit \in Nat \ {0}
  PROVE  ToSet(ShownAt(s, anchor, fit)) \subseteq S
  <1> DEFINE from == StartAt(s, anchor, fit)
             to == Min({from + fit - 1, Len(s)})
  <1>1. from \in Nat \ {0}
    BY StartIsPlace
  <1>2. Len(s) \in Nat
    OBVIOUS
  <1>3. ShownAt(s, anchor, fit) = SubSeq(s, from, to)
    BY DEF ShownAt
  <1> HIDE DEF from
  <1>4. to \in Int /\ to <= Len(s)
    <2>1. from + fit - 1 \in Int
      BY <1>1
    <2> QED
      BY <1>2, <2>1, MinOfTwo
  <1> HIDE DEF to
  <1>5. SubSeq(s, from, to) \in Seq(S)
    BY <1>1, <1>2, <1>4
  <1>6. ToSet(SubSeq(s, from, to)) \subseteq S
    BY <1>5, SeqMembers
  <1> QED
    BY <1>3, <1>6

LEMMA DisplayedAreRuns ==
  ASSUME PeersInv
  PROVE  ToSet(Displayed) \subseteq DOMAIN PeerRows
  <1>1. peerStrip.fit \in Nat \ {0}
    BY PeersAssumption DEF PeersInv
  <1>2. NewestPeers(ClientRuns) \in Seq(DOMAIN PeerRows)
    BY NewestAreSeq
  <1> QED
    BY <1>1, <1>2, ShownAreRuns, DisplayedIsShown

\* A click on a run chooses it if there is room, or leaves it out.
LEMMA WithRunFits ==
  ASSUME PeersInv, NEW r \in DOMAIN PeerRows
  PROVE  LET now == WithRun(peerCompare.chosen, r)
         IN /\ now \subseteq DOMAIN PeerRows
            /\ IsFiniteSet(now) /\ Cardinality(now) <= MaxCompare
            /\ peerCompare.chosen \subseteq now \/ now \subseteq peerCompare.chosen
  <1> DEFINE was == peerCompare.chosen
  <1>1. /\ IsFiniteSet(was) /\ Cardinality(was) <= MaxCompare /\ Cardinality(was) \in Nat
        /\ was \subseteq DOMAIN PeerRows /\ MaxCompare \in Nat
    BY PeersAssumption, FS_CardinalityType DEF PeersInv
  <1> HIDE DEF was
  <1>2. CASE r \in was
    <2>1. IsFiniteSet(was \ {r}) /\ Cardinality(was \ {r}) = Cardinality(was) - 1
      BY <1>1, <1>2, FS_RemoveElement
    <2>2. WithRun(was, r) = was \ {r}
      BY <1>2 DEF WithRun
    <2>3. Cardinality(was) - 1 <= MaxCompare
      BY <1>1
    <2> QED
      BY <1>1, <2>1, <2>2, <2>3 DEF was
  <1>3. CASE r \notin was /\ Cardinality(was) >= MaxCompare
    <2>1. WithRun(was, r) = was
      BY <1>3 DEF WithRun
    <2> QED
      BY <1>1, <2>1 DEF was
  <1>4. CASE r \notin was /\ ~(Cardinality(was) >= MaxCompare)
    <2>1. IsFiniteSet(was \cup {r}) /\ Cardinality(was \cup {r}) = Cardinality(was) + 1
      BY <1>1, <1>4, FS_AddElement
    <2>2. WithRun(was, r) = was \cup {r}
      BY <1>4 DEF WithRun
    <2>3. Cardinality(was) + 1 <= MaxCompare
      BY <1>1, <1>4
    <2> QED
      BY <1>1, <2>1, <2>2, <2>3 DEF was
  <1> QED
    BY <1>2, <1>3, <1>4

\* The effect of a click on the choice.
LEMMA ClickRunChooses ==
  ASSUME PeersInv, ClickRun
  PROVE  \/ peerCompare' = peerCompare
         \/ /\ peerCompare.on
            /\ peerCompare' = [on |-> TRUE, chosen |-> peerCompare'.chosen]
            /\ peerCompare'.chosen \subseteq DOMAIN PeerRows
            /\ IsFiniteSet(peerCompare'.chosen) /\ Cardinality(peerCompare'.chosen) <= MaxCompare
            /\ \/ peerCompare.chosen \subseteq peerCompare'.chosen
               \/ peerCompare'.chosen \subseteq peerCompare.chosen
  <1>1. CASE ~peerCompare.on
    BY <1>1 DEF ClickRun, Leave
  <1>2. CASE peerCompare.on
    <2>1. PICK r \in ToSet(Displayed) :
             peerCompare' = [peerCompare EXCEPT !.chosen = WithRun(@, r)]
      BY <1>2 DEF ClickRun
    <2>2. r \in DOMAIN PeerRows
      BY DisplayedAreRuns
    <2>3. peerCompare' = [on |-> TRUE, chosen |-> WithRun(peerCompare.chosen, r)]
      BY <1>2, <2>1 DEF PeersInv
    <2> HIDE DEF PeersInv
    <2>4. LET now == WithRun(peerCompare.chosen, r)
          IN /\ now \subseteq DOMAIN PeerRows
             /\ IsFiniteSet(now) /\ Cardinality(now) <= MaxCompare
             /\ peerCompare.chosen \subseteq now \/ now \subseteq peerCompare.chosen
      BY <2>2, WithRunFits
    <2> QED
      BY <1>2, <2>3, <2>4
  <1> QED
    BY <1>1, <1>2 DEF PeersInv

LEMMA PeersInvStep == PeersInv /\ [PeersNext]_peerVars => PeersInv'
  <1> SUFFICES ASSUME PeersInv, [PeersNext]_peerVars PROVE PeersInv'
    OBVIOUS
  <1>1. CASE UNCHANGED peerVars
    BY <1>1 DEF PeersInv, peerVars
  <1>2. CASE TurnStrip
    <2>1. PICK a : peerStrip' = [peerStrip EXCEPT !.anchor = a]
      BY <1>2 DEF TurnStrip
    <2>2. peerStrip' = [anchor |-> a, fit |-> peerStrip.fit]
      BY <2>1 DEF PeersInv
    <2>3. UNCHANGED <<peerIndex, peerCompare>>
      BY <1>2 DEF TurnStrip
    <2> QED
      BY <2>2, <2>3 DEF PeersInv
  <1>3. CASE Resize
    <2>1. PICK w \in Widths : peerStrip' = [peerStrip EXCEPT !.fit = w]
      BY <1>3 DEF Resize
    <2>2. peerStrip' = [anchor |-> peerStrip.anchor, fit |-> w]
      BY <2>1 DEF PeersInv
    <2>3. UNCHANGED <<peerIndex, peerCompare>>
      BY <1>3 DEF Resize
    <2> QED
      BY <2>2, <2>3 DEF PeersInv
  <1>4. CASE ClickRun
    <2>1. UNCHANGED <<peerIndex, peerStrip>>
      BY <1>4 DEF ClickRun, Leave
    <2>2. CASE peerCompare' = peerCompare
      BY <2>1, <2>2 DEF PeersInv
    <2>3. CASE /\ peerCompare' = [on |-> TRUE, chosen |-> peerCompare'.chosen]
               /\ peerCompare'.chosen \subseteq DOMAIN PeerRows
               /\ IsFiniteSet(peerCompare'.chosen)
               /\ Cardinality(peerCompare'.chosen) <= MaxCompare
      <3>1. peerCompare'.on = TRUE
        BY <2>3
      <3> QED
        BY <2>1, <2>3, <3>1 DEF PeersInv
    <2> QED
      BY <1>4, <2>2, <2>3, ClickRunChooses
  <1>5. CASE ToggleCompare
    <2>1. peerCompare' = [on |-> ~peerCompare.on, chosen |-> {}] /\ UNCHANGED <<peerIndex, peerStrip>>
      BY <1>5 DEF ToggleCompare
    <2>2. IsFiniteSet({}) /\ Cardinality({}) = 0 /\ 0 <= MaxCompare
      BY FS_EmptySet, PeersAssumption
    <2> QED
      BY <2>1, <2>2 DEF PeersInv
  <1>6. CASE IndexAnswers
    <2>1. peerIndex'.runs \subseteq DOMAIN PeerRows
      BY <1>6 DEF IndexAnswers, PeersInv
    <2>2. UNCHANGED <<peerStrip, peerCompare>>
      BY <1>6 DEF IndexAnswers
    <2> QED
      BY <2>1, <2>2 DEF PeersInv
  <1>7. CASE CompareChosen \/ CompareRecent \/ DeleteRun \/ CancelDeletion \/ QueuedElsewhere
    <2>1. UNCHANGED <<peerIndex, peerStrip, peerCompare>>
      BY <1>7 DEF CompareChosen, CompareRecent, DeleteRun, CancelDeletion, QueuedElsewhere, Leave
    <2> QED
      BY <2>1 DEF PeersInv
  <1> QED
    BY <1>1, <1>2, <1>3, <1>4, <1>5, <1>6, <1>7 DEF PeersNext

\* The invariant of the strip.
THEOREM PeersInvariant == PeersSpec => []PeersInv
  BY InitPeers, PeersInvStep, PTL DEF PeersSpec

LEMMA SamePeersCardinality == \A S : PeersChoice!Cardinality(S) = Cardinality(S)
  BY DEF PeersChoice!Cardinality, Cardinality

\* The strip of a run's page implements RunChoice (RunDetailPage.tsx
\* handleSelectionChange and its mode of comparison).
THEOREM PeersChoiceImplemented == PeersSpec => PeersChoiceKept
  <1>1. PeersInit => PeersChoice!ChoiceInit
    BY DEF PeersInit, PeersChoice!ChoiceInit
  <1>2. PeersInv /\ [PeersNext]_peerVars => [PeersChoice!ChoiceNext]_(PeersChoice!choiceVars)
    <2> SUFFICES ASSUME PeersInv, [PeersNext]_peerVars
                 PROVE  [PeersChoice!ChoiceNext]_(PeersChoice!choiceVars)
      OBVIOUS
    <2>1. CASE peerCompare' = peerCompare
      BY <2>1 DEF PeersChoice!choiceVars
    <2>2. CASE ClickRun
      <3>1. CASE /\ peerCompare.on
                 /\ peerCompare' = [on |-> TRUE, chosen |-> peerCompare'.chosen]
                 /\ peerCompare'.chosen \subseteq DOMAIN PeerRows
                 /\ Cardinality(peerCompare'.chosen) <= MaxCompare
                 /\ \/ peerCompare.chosen \subseteq peerCompare'.chosen
                    \/ peerCompare'.chosen \subseteq peerCompare.chosen
        <4>1. peerCompare'.on
          BY <3>1
        <4> QED
          BY <3>1, <4>1, SamePeersCardinality
             DEF PeersChoice!ChoiceNext, PeersChoice!Choose, PeersChoice!Unchoose
      <3> QED
        BY <2>1, <2>2, <3>1, ClickRunChooses
    <2>3. CASE ToggleCompare
      <3>1. peerCompare' = [on |-> ~peerCompare.on, chosen |-> {}]
        BY <2>3 DEF ToggleCompare
      <3>2. peerCompare'.chosen = {}
        BY <3>1
      <3> QED
        BY <3>2 DEF PeersChoice!ChoiceNext, PeersChoice!Switch
    <2>4. CASE \/ TurnStrip \/ Resize \/ CompareChosen \/ CompareRecent \/ DeleteRun
               \/ CancelDeletion \/ QueuedElsewhere \/ IndexAnswers \/ UNCHANGED peerVars
      BY <2>1, <2>4 DEF TurnStrip, Resize, CompareChosen, CompareRecent, DeleteRun,
                CancelDeletion, QueuedElsewhere, IndexAnswers, Leave, peerVars
    <2> QED
      BY <2>2, <2>3, <2>4 DEF PeersNext
  <1> QED
    BY <1>1, <1>2, PeersInvariant, PTL DEF PeersSpec, PeersChoiceKept, PeersChoice!ChoiceSpec

\* A member keeps its place in s behind the members that have joined before s.
LEMMA PlaceShifts ==
  ASSUME NEW S, NEW u \in Seq(S), NEW s \in Seq(S), Injective(u \o s), NEW r \in ToSet(s)
  PROVE  PlaceOf(r, u \o s) = Len(u) + PlaceOf(r, s)
  <1> DEFINE t == u \o s
             i == PlaceOf(r, s)
  <1>1. i \in 1..Len(s) /\ s[i] = r
    BY PlaceIsThere
  <1> HIDE DEF i
  <1>2. t \in Seq(S) /\ Len(t) = Len(u) + Len(s) /\ Len(u) \in Nat /\ Len(s) \in Nat
    OBVIOUS
  <1>3. t[Len(u) + i] = r
    <2>1. \A k \in 1..Len(s) : t[Len(u) + k] = s[k]
      OBVIOUS
    <2> QED
      BY <1>1, <2>1
  <1> HIDE DEF t
  <1>4. Len(u) + i \in 1..Len(t) /\ DOMAIN t = 1..Len(t)
    BY <1>1, <1>2
  <1>5. r \in ToSet(t)
    BY <1>3, <1>4 DEF ToSet
  <1>6. PlaceOf(r, t) \in 1..Len(t) /\ t[PlaceOf(r, t)] = r
    BY <1>2, <1>5, PlaceIsThere
  <1> QED
    BY <1>3, <1>4, <1>6 DEF Injective, t, i

\* The strip of u and then s shows what the strip of s shows, when it is full
\* and its anchor is in s.
LEMMA ShownStays ==
  ASSUME NEW S, NEW u \in Seq(S), NEW s \in Seq(S), Injective(u \o s),
         NEW anchor \in ToSet(s), NEW fit \in Nat \ {0}, fit <= Len(s)
  PROVE  ShownAt(u \o s, anchor, fit) = ShownAt(s, anchor, fit)
  <1> DEFINE t == u \o s
             k == Len(u)
             n == Len(s)
             at == PlaceOf(anchor, s)
             from == Min({at, n - fit + 1})
             to == Min({from + fit - 1, n})
  <1>1. t \in Seq(S) /\ Len(t) = k + n /\ k \in Nat /\ n \in Nat
    OBVIOUS
  <1>2. at \in 1..n
    BY PlaceIsThere
  <1>3. PlaceOf(anchor, t) = k + at
    BY PlaceShifts
  <1>4. StartAt(s, anchor, fit) = from
    <2>1. Max({1, n - fit + 1}) = n - fit + 1
      BY <1>1, MaxOfTwo
    <2>2. at > 0
      BY <1>1, <1>2
    <2> QED
      BY <2>1, <2>2 DEF StartAt
  <1>5. StartAt(t, anchor, fit) = Min({k + at, k + n - fit + 1})
    <2> HIDE DEF t, at, k, n
    <2>1. Max({1, k + n - fit + 1}) = k + n - fit + 1
      <3>1. k + n - fit + 1 \in Int /\ k + n - fit + 1 >= 1
        BY <1>1 DEF n
      <3> QED
        BY <3>1, MaxOfTwo
    <2>2. PlaceOf(anchor, t) > 0
      BY <1>1, <1>2, <1>3
    <2>3. Len(t) - fit + 1 = k + n - fit + 1
      BY <1>1
    <2> QED
      BY <1>3, <2>1, <2>2, <2>3 DEF StartAt
  <1> HIDE DEF at, n, k, t
  <1>6. from \in 1..n /\ Min({k + at, k + n - fit + 1}) = k + from
    <2>1. /\ at \in Int /\ n - fit + 1 \in Int /\ k + at \in Int /\ k + n - fit + 1 \in Int
          /\ n - fit + 1 \in 1..n
      BY <1>1, <1>2 DEF n
    <2>2. from = IF at <= n - fit + 1 THEN at ELSE n - fit + 1
      BY <2>1, MinOfTwo
    <2>3. Min({k + at, k + n - fit + 1})
            = IF k + at <= k + n - fit + 1 THEN k + at ELSE k + n - fit + 1
      BY <2>1, MinOfTwo
    <2> QED
      BY <1>1, <1>2, <2>1, <2>2, <2>3
  <1> HIDE DEF from
  <1>7. to \in 1..n /\ Min({k + from + fit - 1, k + n}) = k + to
    <2>1. from + fit - 1 \in Int /\ from + fit - 1 >= 1 /\ k + from + fit - 1 \in Int
      BY <1>1, <1>6
    <2>2. to = IF from + fit - 1 <= n THEN from + fit - 1 ELSE n
      BY <1>1, <2>1, MinOfTwo
    <2>3. Min({k + from + fit - 1, k + n})
            = IF k + from + fit - 1 <= k + n THEN k + from + fit - 1 ELSE k + n
      BY <1>1, <2>1, MinOfTwo
    <2> QED
      BY <1>1, <1>6, <2>1, <2>2, <2>3
  <1>8. ShownAt(s, anchor, fit) = SubSeq(s, from, to)
    BY <1>4 DEF ShownAt, n
  <1>9. ShownAt(t, anchor, fit) = SubSeq(t, k + from, Min({k + from + fit - 1, Len(t)}))
    BY <1>5, <1>6 DEF ShownAt
  <1> HIDE DEF to
  <1>10. SubSeq(t, k + from, k + to) = SubSeq(s, from, to)
    BY <1>1, <1>6, <1>7 DEF t, k, n
  <1> QED
    BY <1>1, <1>7, <1>8, <1>9, <1>10 DEF t

\* Runs that are newer come before in the index's order.
LEMMA NewerPrecede ==
  ASSUME NEW A, NEW B, \A r \in A, o \in B : IsNewer(r, o)
  PROVE  Precede(PeerSeq, A, B)
  <1>1. PeerSeq \in Seq(DOMAIN PeerRows) /\ Injective(PeerSeq)
    BY PeersAssumption DEF Injective
  <1>2. ASSUME NEW i \in DOMAIN PeerSeq PROVE PlaceOf(PeerSeq[i], PeerSeq) = i
    <2>1. PeerSeq[i] \in ToSet(PeerSeq)
      BY DEF ToSet
    <2>2. /\ PlaceOf(PeerSeq[i], PeerSeq) \in DOMAIN PeerSeq
          /\ PeerSeq[PlaceOf(PeerSeq[i], PeerSeq)] = PeerSeq[i]
      BY <2>1 DEF PlaceOf, ToSet
    <2> QED
      BY <1>1, <2>2 DEF Injective
  <1> QED
    BY <1>2 DEF Precede, IsNewer

\* "A page holds still when the live view adds newer runs" (ClientRunsStrip.tsx).
THEOREM TurnedStripHoldsStill == PeersSpec => StripHoldsStill
  <1> DEFINE Holds == peerStrip.anchor # None /\ peerStrip' = peerStrip =>
                        \A olds \in {ClientRuns} :
                          (/\ peerStrip.anchor \in olds /\ Cardinality(olds) > 1
                           /\ peerStrip.fit <= Cardinality(olds)) =>
                             \A news \in {ClientRuns'} :
                               (news # olds /\ NewerJoined(olds, news)) => Displayed' = Displayed
  <1>1. ASSUME PeersInv,
               peerStrip' = peerStrip, peerStrip.anchor \in ClientRuns,
               NewerJoined(ClientRuns, ClientRuns'), peerStrip.fit <= Cardinality(ClientRuns)
        PROVE  Displayed' = Displayed
    <2> DEFINE olds == ClientRuns
               news == ClientRuns'
               s == NewestPeers(olds)
               u == NewestPeers(news \ olds)
    <2>1. olds \subseteq news /\ \A r \in news \ olds, o \in olds : IsNewer(r, o)
      BY <1>1 DEF NewerJoined
    <2>2. olds \subseteq DOMAIN PeerRows /\ peerStrip.anchor \in olds
      BY <1>1 DEF ClientRuns, ClientRunsOf, PeersInv
    <2>3. peerStrip.fit \in Nat \ {0}
      BY <1>1, PeersAssumption DEF PeersInv
    <2>4. PeerSeq \in Seq(DOMAIN PeerRows) /\ Injective(PeerSeq)
      BY PeersAssumption DEF Injective
    <2>5. peerStrip.fit <= Cardinality(olds)
      BY <1>1
    <2>6. Displayed = ShownAt(s, peerStrip.anchor, peerStrip.fit)
      BY DisplayedIsShown
    <2>7. Displayed' = ShownAt(NewestPeers(news), peerStrip.anchor, peerStrip.fit)
      BY <1>1, DisplayedIsShown
    <2> HIDE DEF olds, news
    <2>8. s \in Seq(DOMAIN PeerRows) /\ ToSet(s) = olds /\ u \in Seq(DOMAIN PeerRows)
      BY <2>2, NewestAreSeq
    <2>9. Precede(PeerSeq, news \ olds, olds)
      BY <2>1, NewerPrecede
    <2>10. (news \ olds) \cup olds = news
      BY <2>1
    <2>11. Among(PeerSeq, (news \ olds) \cup olds)
             = Among(PeerSeq, news \ olds) \o Among(PeerSeq, olds)
      BY <2>4, <2>9, AmongBoth
    <2>12. NewestPeers(news) = u \o s
      BY <2>10, <2>11 DEF NewestPeers
    <2>13. Injective(NewestPeers(news))
      BY <2>4, AmongInjective DEF NewestPeers
    <2> HIDE DEF s, u
    <2>14. peerStrip.fit <= Len(s)
      <3>1. IsFiniteSet(ToSet(s)) /\ Cardinality(ToSet(s)) <= Len(s)
        BY <2>8, SeqHasFew
      <3>2. Cardinality(ToSet(s)) \in Nat
        BY <3>1, FS_CardinalityType
      <3>3. Len(s) \in Nat
        BY <2>8
      <3> QED
        BY <2>3, <2>5, <2>8, <3>1, <3>2, <3>3
    <2>15. ShownAt(u \o s, peerStrip.anchor, peerStrip.fit) = ShownAt(s, peerStrip.anchor, peerStrip.fit)
      BY <2>2, <2>3, <2>8, <2>12, <2>13, <2>14, ShownStays
    <2> QED
      BY <2>6, <2>7, <2>12, <2>15
  <1>2. PeersInv => [Holds]_peerVars
    BY <1>1
  <1> QED
    BY <1>2, PeersInvariant, PTL DEF PeersSpec, StripHoldsStill

-----------------------------------------------------------------------------
(* The page of a suite. *)

\* The page of the table and its size are numbers.
SuiteViewOf(view) ==
    /\ {"page", "size"} \subseteq DOMAIN view
    /\ view.page \in Nat \ {0} /\ view.size \in SuiteSizes

\* The index that is shown is one of those that were fetched, and those that are
\* chosen, as well as the anchor, are runs of the suite, for a comparison not too many.
SuiteInv ==
    /\ suiteIndex \in 0..Len(SuiteIndexes) /\ SuiteViewOf(suiteView)
    /\ suiteMode = [mode |-> suiteMode.mode, chosen |-> suiteMode.chosen,
                    anchor |-> suiteMode.anchor, asked |-> suiteMode.asked]
    /\ suiteMode.mode \in {"off", "compare", "delete"}
    /\ suiteMode.chosen \subseteq SuiteRunsKnown
    /\ suiteMode.anchor # None => suiteMode.anchor[1] \in SuiteRunsKnown
    /\ suiteMode.mode = "compare" =>
         IsFiniteSet(suiteMode.chosen) /\ Cardinality(suiteMode.chosen) <= LinkMost

\* The mode and the choice after a step; the anchor and the question are free.
NowChosen(mode, chosen) ==
    suiteMode' = [mode |-> mode, chosen |-> chosen,
                  anchor |-> suiteMode'.anchor, asked |-> suiteMode'.asked]

\* The effect of a step on the choice, as on the list of runs.
SuiteMoves ==
    \/ NowChosen(suiteMode.mode, suiteMode.chosen)
    \/ suiteMode'.mode \in {"off", "compare", "delete"} /\ NowChosen(suiteMode'.mode, {})
    \/ /\ suiteMode.mode # "off" /\ NowChosen(suiteMode.mode, suiteMode'.chosen)
       /\ suiteMode'.chosen \subseteq SuiteRunsKnown
       /\ suiteMode.chosen \subseteq suiteMode'.chosen \/ suiteMode'.chosen \subseteq suiteMode.chosen
       /\ suiteMode.mode = "compare" =>
            IsFiniteSet(suiteMode'.chosen) /\ Cardinality(suiteMode'.chosen) <= LinkMost

\* And what else a step does to the state of SuiteInv.
SuiteRestMoves ==
    /\ suiteIndex' \in 0..Len(SuiteIndexes) /\ SuiteViewOf(suiteView')
    /\ suiteMode'.anchor # None => suiteMode'.anchor[1] \in SuiteRunsKnown

\* The index that is shown lists every run once.
LEMMA SuiteRunsAre ==
  ASSUME SuiteInv
  PROVE  SuiteRuns \in Seq(SuiteRunsKnown) /\ Injective(SuiteRuns)
  <1>1. CASE suiteIndex = 0
    BY <1>1 DEF SuiteRuns, Injective
  <1>2. CASE suiteIndex # 0
    <2>1. SuiteIndexes \in Seq(Seq(DOMAIN SuiteRows))
      BY SuiteAssumption
    <2>2. suiteIndex \in DOMAIN SuiteIndexes /\ SuiteRuns = SuiteIndexes[suiteIndex]
      BY <1>2, <2>1 DEF SuiteInv, SuiteRuns
    <2>3. SuiteRuns \in ToSet(SuiteIndexes)
      BY <2>2 DEF ToSet
    <2> QED
      BY <2>1, <2>2, <2>3, SuiteAssumption DEF Injective, SuiteRunsKnown
  <1> QED
    BY <1>1, <1>2

LEMMA SuiteRunsKnownAre == ASSUME SuiteInv PROVE ToSet(SuiteRuns) \subseteq SuiteRunsKnown
  BY SuiteRunsAre, SeqMembers

\* The rows of the table are among them, and a page of it is a list.
LEMMA SuiteMatchedAre == ASSUME SuiteInv PROVE SuiteMatched \in Seq(SuiteRunsKnown)
  BY SuiteRunsAre, AmongMembers DEF SuiteMatched

LEMMA SuiteRowsAreSeq ==
  ASSUME SuiteInv
  PROVE  \E S : SuiteOnPage \in Seq(S)
  <1>1. SuiteMatched \in Seq(SuiteRunsKnown)
    BY SuiteMatchedAre
  <1> DEFINE n == Len(SuiteMatched)
  <1>2. n \in Nat /\ DOMAIN SuiteMatched = 1..n
    BY <1>1
  <1>3. SuiteSorted = [k \in 1..n |-> SuiteSorted[k]]
    <2> DEFINE s == SuiteMatched
               Before(a, b) == RowBefore(SuiteRows[a], SuiteRows[b], suiteUrl)
               At(i) == 1 + Cardinality({j \in DOMAIN s :
                             Before(s[j], s[i]) \/ (j < i /\ ~Before(s[i], s[j]))})
               places == [i \in DOMAIN s |-> At(i)]
               F == [k \in DOMAIN s |-> s[CHOOSE i \in DOMAIN s : places[i] = k]]
    <2>1. SuiteSorted = SubSeq(F, 1, n)
      BY DEF SuiteSorted, Sorted, Quantify
    <2>2. F = [k \in DOMAIN s |-> F[k]]
      OBVIOUS
    <2> HIDE DEF n, F
    <2> QED
      BY <1>2, <2>1, <2>2, WholeSeq
  <1> DEFINE S == {SuiteSorted[k] : k \in 1..n}
  <1>4. SuiteSorted \in Seq(S)
    BY <1>2, <1>3
  <1> HIDE DEF S, n
  <1>5. suiteView.page \in Nat \ {0} /\ suiteView.size \in Nat \ {0}
    BY SuiteAssumption DEF SuiteInv, SuiteViewOf
  <1>6. SuiteOnPage \in Seq(S)
    BY <1>4, <1>5, PageIsSeq DEF SuiteOnPage
  <1> QED
    BY <1>6

\* A range takes runs of the suite, in a list.
LEMMA SuiteRangeFits ==
  ASSUME SuiteInv, NEW a \in ToSet(SuiteOnPage), NEW b \in ToSet(SuiteOnPage)
  PROVE  /\ \E S : SuiteBetween(a, b) \in Seq(S)
         /\ ToSet(SuiteBetween(a, b)) \subseteq SuiteRunsKnown
  <1>1. PICK S : SuiteOnPage \in Seq(S)
    BY SuiteRowsAreSeq
  <1>2. Between(SuiteOnPage, a, b) \in Seq(S)
    BY <1>1, RangeIsSeq
  <1>3. /\ SuiteBetween(a, b) \in Seq(S)
        /\ ToSet(SuiteBetween(a, b)) \subseteq {r \in ToSet(SuiteRuns) : SuiteSelectable(r)}
    BY <1>2, AmongMembers DEF SuiteBetween
  <1> QED
    BY <1>3, SuiteRunsKnownAre

\* What handleSelectionChange makes of the runs that were clicked.
LEMMA ChosenWithFits ==
  ASSUME SuiteInv, suiteMode.mode # "off", NEW S, NEW ids \in Seq(S),
         ToSet(ids) \subseteq SuiteRunsKnown, NEW on \in BOOLEAN
  PROVE  LET now == ChosenWith(ids, on)
         IN /\ now \subseteq SuiteRunsKnown
            /\ suiteMode.chosen \subseteq now \/ now \subseteq suiteMode.chosen
            /\ suiteMode.mode = "compare" => IsFiniteSet(now) /\ Cardinality(now) <= LinkMost
  <1>1. CASE ~on
    <2>1. ChosenWith(ids, on) = suiteMode.chosen \ ToSet(ids)
      BY <1>1 DEF ChosenWith
    <2>2. ASSUME suiteMode.mode = "compare"
          PROVE  /\ IsFiniteSet(suiteMode.chosen \ ToSet(ids))
                 /\ Cardinality(suiteMode.chosen \ ToSet(ids)) <= LinkMost
      <3>1. IsFiniteSet(suiteMode.chosen) /\ Cardinality(suiteMode.chosen) <= LinkMost
        BY <2>2 DEF SuiteInv
      <3>2. /\ IsFiniteSet(suiteMode.chosen \ ToSet(ids))
            /\ Cardinality(suiteMode.chosen \ ToSet(ids)) <= Cardinality(suiteMode.chosen)
        BY <3>1, FS_Subset
      <3>3. /\ Cardinality(suiteMode.chosen) \in Nat
            /\ Cardinality(suiteMode.chosen \ ToSet(ids)) \in Nat
        BY <3>1, <3>2, FS_CardinalityType
      <3> QED
        BY <3>1, <3>2, <3>3, SuiteAssumption
    <2> QED
      BY <2>1, <2>2 DEF SuiteInv
  <1>2. CASE on /\ suiteMode.mode = "delete"
    <2>1. ChosenWith(ids, on) = suiteMode.chosen \cup ToSet(ids)
      BY <1>2 DEF ChosenWith
    <2> QED
      BY <1>2, <2>1 DEF SuiteInv
  <1>3. CASE on /\ suiteMode.mode = "compare"
    <2>1. ChosenWith(ids, on) = Taken(suiteMode.chosen, ids, LinkMost)
      BY <1>3 DEF ChosenWith
    <2>2. IsFiniteSet(suiteMode.chosen) /\ Cardinality(suiteMode.chosen) <= LinkMost
      BY <1>3 DEF SuiteInv
    <2>3. LinkMost \in Nat
      BY SuiteAssumption
    <2>4. LET taken == Taken(suiteMode.chosen, ids, LinkMost)
          IN /\ suiteMode.chosen \subseteq taken /\ taken \subseteq suiteMode.chosen \cup ToSet(ids)
             /\ IsFiniteSet(taken) /\ Cardinality(taken) <= LinkMost
      BY <2>2, <2>3, TakenFits
    <2> QED
      BY <2>1, <2>4 DEF SuiteInv
  <1> QED
    BY <1>1, <1>2, <1>3 DEF SuiteInv

\* The choice is not touched; the anchor may go with the table.
ChoiceStays ==
    /\ suiteIndex' = suiteIndex /\ SuiteViewOf(suiteView')
    /\ suiteMode' = suiteMode \/ suiteMode' = [suiteMode EXCEPT !.anchor = None]

\* Steps of the URL, the view and the tab of the tests do not touch it.
LEMMA OtherSuiteSteps ==
  ASSUME SuiteInv,
         \/ ChangeTab \/ FilterRuns \/ FilterRunLabels \/ SortRuns \/ ChooseSteps \/ SetCharts
         \/ (\E k \in GroupLabels \cup {"instance_id"} : ClickGroupKey(k))
         \/ ClearGroups \/ TurnSuitePage \/ Unfold \/ FilterCharts
         \/ SearchSuite \/ TurnFilesPage \/ OpenFile \/ CloseFile \/ SortDialog
         \/ ViewSizes \/ SetHeatmap \/ TurnHeatmap \/ SetOpcodes \/ OrderBars
         \/ UNCHANGED suiteAllVars
  PROVE  ChoiceStays
  <1>1. ASSUME NEW keeps, NEW changes, NEW page \in {suiteView.page, 1}, SuiteGo(keeps, changes, page)
        PROVE  ChoiceStays
    <2>1. suiteView' = [suiteView EXCEPT !.page = page] /\ page \in Nat \ {0}
      BY <1>1 DEF SuiteGo, SuiteInv, SuiteViewOf
    <2>2. SuiteViewOf(suiteView')
      BY <2>1 DEF SuiteInv, SuiteViewOf
    <2> QED
      BY <1>1, <2>2 DEF SuiteGo, AnchorOfTable, ChoiceStays
  <1>2. ASSUME NEW changes, SuiteSee(changes),
               "page" \in DOMAIN changes => changes.page \in Nat \ {0},
               "size" \in DOMAIN changes => changes.size \in SuiteSizes
        PROVE  ChoiceStays
    <2>1. suiteView' = [p \in DOMAIN changes \cup DOMAIN suiteView |->
                          IF p \in DOMAIN changes THEN changes[p] ELSE suiteView[p]]
      BY <1>2 DEF SuiteSee, Over
    <2>2. SuiteViewOf(suiteView')
      BY <1>2, <2>1 DEF SuiteViewOf, SuiteInv
    <2> QED
      BY <1>2, <2>2 DEF SuiteSee, ChoiceStays
  <1>3. ASSUME UNCHANGED <<suiteIndex, suiteView, suiteMode>> PROVE ChoiceStays
    BY <1>3 DEF SuiteInv, ChoiceStays
  <1>4. ASSUME NEW keeps, NEW changes, TabGo(keeps, changes) PROVE ChoiceStays
    BY <1>1, <1>4 DEF TabGo
  <1>5. ASSUME NEW changes, TabSee(changes) PROVE ChoiceStays
    BY <1>3, <1>5 DEF TabSee, suiteVars
  <1>6. CASE \/ ChangeTab \/ FilterRuns \/ FilterRunLabels \/ SortRuns \/ ChooseSteps \/ SetCharts
    BY <1>1, <1>6 DEF ChangeTab, FilterRuns, FilterRunLabels, SortRuns, ChooseSteps, SetCharts
  <1>7. CASE (\E k \in GroupLabels \cup {"instance_id"} : ClickGroupKey(k)) \/ ClearGroups
    BY <1>1, <1>7 DEF ClickGroupKey, ClearGroups
  <1>8. CASE TurnSuitePage
    <2>1. \/ \E p \in PageLinks(suiteView.page, PageCount(SuiteMatched, suiteView.size)) :
                SuiteSee([page |-> p])
          \/ \E n \in SuiteSizes : SuiteSee([page |-> 1, size |-> n])
      BY <1>8 DEF TurnSuitePage
    <2>2. \A p \in PageLinks(suiteView.page, PageCount(SuiteMatched, suiteView.size)) : p \in Nat \ {0}
      <3>1. Len(SuiteMatched) \in Nat
        BY SuiteMatchedAre
      <3>2. suiteView.page \in Nat \ {0} /\ suiteView.size \in Nat \ {0}
        BY SuiteAssumption DEF SuiteInv, SuiteViewOf
      <3>3. PageCount(SuiteMatched, suiteView.size) \in Int
        BY <3>1, <3>2 DEF PageCount
      <3> QED
        BY <3>2, <3>3, PageLinksArePages
    <2>3. CASE \E p \in PageLinks(suiteView.page, PageCount(SuiteMatched, suiteView.size)) :
                 SuiteSee([page |-> p])
      <3>1. PICK p \in PageLinks(suiteView.page, PageCount(SuiteMatched, suiteView.size)) :
                 SuiteSee([page |-> p])
        BY <2>3
      <3> QED
        BY <1>2, <2>2, <3>1
    <2>4. CASE \E n \in SuiteSizes : SuiteSee([page |-> 1, size |-> n])
      BY <1>2, <2>4
    <2> QED
      BY <2>1, <2>3, <2>4
  <1>9. CASE Unfold
    <2>1. PICK v : \/ SuiteSee([heatOpen |-> v]) \/ SuiteSee([chartOpen |-> v])
                   \/ SuiteSee([metric |-> v])
      BY <1>9 DEF Unfold
    <2> QED
      BY <1>2, <2>1
  <1>10. CASE FilterCharts
    <2>1. \/ \E v : SuiteSee([chartStep |-> v])
          \/ \E v : SuiteSee([clients |-> v])
          \/ \E v : SuiteSee([chartLabels |-> v])
      BY <1>10, Zenon DEF FilterCharts
    <2> QED
      BY <1>2, <2>1
  <1>11. CASE SearchSuite \/ TurnFilesPage \/ OpenFile \/ CloseFile \/ SortDialog \/ ViewSizes
    BY <1>1, <1>4, <1>11 DEF SearchSuite, TurnFilesPage, OpenFile, CloseFile, SortDialog, ViewSizes
  <1>12. CASE SetHeatmap \/ TurnHeatmap \/ SetOpcodes \/ OrderBars
    BY <1>1, <1>4, <1>5, <1>12 DEF SetHeatmap, TurnHeatmap, SetOpcodes, OrderBars
  <1>13. CASE UNCHANGED suiteAllVars
    BY <1>3, <1>13 DEF suiteAllVars, suiteVars
  <1> QED
    BY <1>6, <1>7, <1>8, <1>9, <1>10, <1>11, <1>12, <1>13

\* A click in the table or on a box: a list of runs of the suite joins or leaves, and
\* the run that was clicked may become the anchor.
SuiteClick ==
    /\ suiteMode.mode # "off" /\ UNCHANGED <<suiteIndex, suiteView>>
    /\ \E ids, on, anchor :
         /\ \E S : ids \in Seq(S)
         /\ ToSet(ids) \subseteq SuiteRunsKnown /\ on \in BOOLEAN
         /\ anchor = suiteMode.anchor \/ \E r \in SuiteRunsKnown : anchor = <<r, suiteMode.mode>>
         /\ suiteMode' = [mode |-> suiteMode.mode, chosen |-> ChosenWith(ids, on),
                          anchor |-> anchor, asked |-> suiteMode.asked]

LEMMA ClicksAre ==
  ASSUME SuiteInv, ChooseSuiteRun \/ ChooseBox
  PROVE  SuiteClick
  <1>0. ToSet(SuiteRuns) \subseteq SuiteRunsKnown
    BY SuiteRunsKnownAre
  <1>1. \A r : <<r>> \in Seq({r}) /\ ToSet(<<r>>) = {r}
    BY DEF ToSet
  <1>2. CASE ChooseSuiteRun
    <2>1. PICK r \in ToSet(SuiteOnPage) \cap ToSet(SuiteRuns), shift \in BOOLEAN :
             LET ranged == shift /\ AnchorRun \in ToSet(SuiteOnPage) \ {r}
                 ids == IF ranged THEN SuiteBetween(AnchorRun, r) ELSE <<r>>
             IN /\ SuiteSelectable(r)
                /\ SuiteSetMode(suiteMode.mode, ChosenWith(ids, r \notin suiteMode.chosen),
                                IF ranged THEN suiteMode.anchor ELSE <<r, suiteMode.mode>>)
      BY <1>2 DEF ChooseSuiteRun
    <2>2. suiteMode.mode # "off"
      BY <1>2 DEF ChooseSuiteRun
    <2>3. r \in SuiteRunsKnown
      BY <1>0
    <2> DEFINE ranged == shift /\ AnchorRun \in ToSet(SuiteOnPage) \ {r}
               ids == IF ranged THEN SuiteBetween(AnchorRun, r) ELSE <<r>>
               anchor == IF ranged THEN suiteMode.anchor ELSE <<r, suiteMode.mode>>
               on == r \notin suiteMode.chosen
    <2>4. (\E S : ids \in Seq(S)) /\ ToSet(ids) \subseteq SuiteRunsKnown
      BY <1>1, <2>3, SuiteRangeFits
    <2>5. anchor = suiteMode.anchor \/ anchor = <<r, suiteMode.mode>>
      OBVIOUS
    <2>6. SuiteSetMode(suiteMode.mode, ChosenWith(ids, on), anchor) /\ on \in BOOLEAN
      BY <2>1
    <2> HIDE DEF ids, anchor, on
    <2> QED
      BY <2>2, <2>3, <2>4, <2>5, <2>6 DEF SuiteClick, SuiteSetMode
  <1>3. CASE ChooseBox
    <2>1. PICK r \in ToSet(SuiteRuns) :
             SuiteSetMode(suiteMode.mode, ChosenWith(<<r>>, r \notin suiteMode.chosen),
                          suiteMode.anchor)
      BY <1>3 DEF ChooseBox
    <2> DEFINE ids == <<r>>
               on == r \notin suiteMode.chosen
    <2>2. (\E S : ids \in Seq(S)) /\ ToSet(ids) \subseteq SuiteRunsKnown /\ on \in BOOLEAN
      BY <1>0, <1>1
    <2>3. SuiteSetMode(suiteMode.mode, ChosenWith(ids, on), suiteMode.anchor)
      BY <2>1
    <2>4. suiteMode.mode # "off"
      BY <1>3 DEF ChooseBox
    <2> HIDE DEF ids, on
    <2> QED
      BY <2>2, <2>3, <2>4 DEF SuiteClick, SuiteSetMode
  <1> QED
    BY <1>2, <1>3

LEMMA SuiteStepMoves ==
  ASSUME SuiteInv, [SuiteTestsNext]_suiteAllVars
  PROVE  SuiteMoves /\ SuiteRestMoves
  <1>0. Len(SuiteIndexes) \in Nat
    BY SuiteAssumption
  <1>1. ASSUME suiteIndex' \in 0..Len(SuiteIndexes), SuiteViewOf(suiteView'),
               suiteMode' = suiteMode \/ suiteMode' = [suiteMode EXCEPT !.anchor = None]
        PROVE  SuiteMoves /\ SuiteRestMoves
    <2>1. /\ suiteMode' = [mode |-> suiteMode.mode, chosen |-> suiteMode.chosen,
                           anchor |-> suiteMode'.anchor, asked |-> suiteMode'.asked]
          /\ suiteMode'.anchor = suiteMode.anchor \/ suiteMode'.anchor = None
      BY <1>1 DEF SuiteInv
    <2> QED
      BY <1>1, <2>1 DEF SuiteInv, SuiteMoves, SuiteRestMoves, NowChosen
  <1>2. CASE EnterSuiteMode
    <2>1. PICK m \in {"compare", "delete"} :
             SuiteSetMode(IF suiteMode.mode = m THEN "off" ELSE m, {}, suiteMode.anchor)
      BY <1>2 DEF EnterSuiteMode
    <2> DEFINE to == IF suiteMode.mode = m THEN "off" ELSE m
    <2>2. to \in {"off", "compare", "delete"}
      OBVIOUS
    <2>3. SuiteSetMode(to, {}, suiteMode.anchor)
      BY <2>1
    <2> HIDE DEF to
    <2>4. /\ suiteMode' = [mode |-> to, chosen |-> {}, anchor |-> suiteMode.anchor,
                           asked |-> suiteMode.asked]
          /\ UNCHANGED <<suiteIndex, suiteView>>
      BY <2>3 DEF SuiteSetMode
    <2> QED
      BY <2>2, <2>4 DEF SuiteInv, SuiteMoves, SuiteRestMoves, NowChosen
  <1>3. CASE ChooseSuiteRun \/ ChooseBox
    <2>1. SuiteClick
      BY <1>3, ClicksAre
    <2>2. PICK ids, on, anchor :
            /\ on \in BOOLEAN /\ \E S : ids \in Seq(S)
            /\ ToSet(ids) \subseteq SuiteRunsKnown
            /\ anchor = suiteMode.anchor \/ \E r \in SuiteRunsKnown : anchor = <<r, suiteMode.mode>>
            /\ suiteMode' = [mode |-> suiteMode.mode, chosen |-> ChosenWith(ids, on),
                             anchor |-> anchor, asked |-> suiteMode.asked]
      BY <2>1 DEF SuiteClick
    <2>3. suiteMode.mode # "off" /\ UNCHANGED <<suiteIndex, suiteView>>
      BY <2>1 DEF SuiteClick
    <2> DEFINE now == ChosenWith(ids, on)
    <2>4. /\ now \subseteq SuiteRunsKnown
          /\ suiteMode.chosen \subseteq now \/ now \subseteq suiteMode.chosen
          /\ suiteMode.mode = "compare" => IsFiniteSet(now) /\ Cardinality(now) <= LinkMost
      BY <2>2, <2>3, ChosenWithFits
    <2>5. suiteMode' = [mode |-> suiteMode.mode, chosen |-> now, anchor |-> anchor,
                        asked |-> suiteMode.asked]
      BY <2>2
    <2> HIDE DEF now
    <2>6. SuiteMoves
      BY <2>3, <2>4, <2>5 DEF SuiteMoves, NowChosen
    <2>7. anchor # None => anchor[1] \in SuiteRunsKnown
      BY <2>2 DEF SuiteInv
    <2>8. SuiteRestMoves
      BY <2>3, <2>5, <2>7 DEF SuiteInv, SuiteRestMoves
    <2> QED
      BY <2>6, <2>8
  <1>4. ASSUME NEW asked, suiteMode' = [suiteMode EXCEPT !.asked = asked],
               UNCHANGED <<suiteIndex, suiteView>>
        PROVE  SuiteMoves /\ SuiteRestMoves
    <2>1. suiteMode' = [mode |-> suiteMode.mode, chosen |-> suiteMode.chosen,
                        anchor |-> suiteMode.anchor, asked |-> asked]
      BY <1>4 DEF SuiteInv
    <2> QED
      BY <1>4, <2>1 DEF SuiteInv, SuiteMoves, SuiteRestMoves, NowChosen
  <1>5. CASE AskSuiteDelete
    BY <1>4, <1>5 DEF AskSuiteDelete
  <1>6. ASSUME NEW ok \in BOOLEAN, SuiteDeleteAnswers(ok)
        PROVE  SuiteMoves /\ SuiteRestMoves
    <2>1. UNCHANGED <<suiteIndex, suiteView>>
      BY <1>6 DEF SuiteDeleteAnswers
    <2>2. CASE ok /\ suiteMode.mode = "delete"
      <3>1. suiteMode' = [suiteMode EXCEPT !.mode = "off", !.chosen = {}, !.asked = {}]
        BY <1>6, <2>2 DEF SuiteDeleteAnswers
      <3>2. suiteMode' = [mode |-> "off", chosen |-> {}, anchor |-> suiteMode.anchor, asked |-> {}]
        BY <3>1 DEF SuiteInv
      <3> QED
        BY <2>1, <3>2 DEF SuiteInv, SuiteMoves, SuiteRestMoves, NowChosen
    <2>3. CASE ~(ok /\ suiteMode.mode = "delete")
      <3>1. suiteMode' = [suiteMode EXCEPT !.asked = {}]
        BY <1>6, <2>3 DEF SuiteDeleteAnswers
      <3> QED
        BY <1>4, <2>1, <3>1
    <2> QED
      BY <2>2, <2>3
  <1>7. CASE PollSuiteIndex
    <2>1. /\ suiteIndex < Len(SuiteIndexes) /\ suiteIndex' = suiteIndex + 1 /\ suiteView' = suiteView
          /\ suiteMode' = suiteMode \/ suiteMode' = [suiteMode EXCEPT !.anchor = None]
      BY <1>7 DEF PollSuiteIndex, AnchorOfTable
    <2>2. suiteIndex' \in 0..Len(SuiteIndexes)
      BY <1>0, <2>1 DEF SuiteInv
    <2>3. SuiteViewOf(suiteView')
      BY <2>1 DEF SuiteInv
    <2> QED
      BY <1>1, <2>1, <2>2, <2>3
  <1>8. CASE ReloadSuite
    <2>1. /\ suiteIndex' = 0 /\ suiteView' = DefaultSuiteView
          /\ suiteMode' = [mode |-> "off", chosen |-> {}, anchor |-> None, asked |-> {}]
      BY <1>8 DEF ReloadSuite
    <2>2. SuiteViewOf(DefaultSuiteView)
      BY SuiteAssumption DEF SuiteViewOf, DefaultSuiteView
    <2> QED
      BY <1>0, <2>1, <2>2 DEF SuiteMoves, SuiteRestMoves, NowChosen
  <1>9. CASE \/ ChangeTab \/ FilterRuns \/ FilterRunLabels \/ SortRuns \/ ChooseSteps \/ SetCharts
             \/ (\E k \in GroupLabels \cup {"instance_id"} : ClickGroupKey(k))
             \/ ClearGroups \/ TurnSuitePage \/ Unfold \/ FilterCharts
             \/ SearchSuite \/ TurnFilesPage \/ OpenFile \/ CloseFile \/ SortDialog
             \/ ViewSizes \/ SetHeatmap \/ TurnHeatmap \/ SetOpcodes \/ OrderBars
             \/ UNCHANGED suiteAllVars
    <2>1. /\ suiteIndex' = suiteIndex /\ SuiteViewOf(suiteView')
          /\ suiteMode' = suiteMode \/ suiteMode' = [suiteMode EXCEPT !.anchor = None]
      BY <1>9, OtherSuiteSteps DEF ChoiceStays
    <2> QED
      BY <1>1, <2>1 DEF SuiteInv
  <1> QED
    BY <1>2, <1>3, <1>5, <1>6, <1>7, <1>8, <1>9 DEF SuiteTestsNext, OnPageStep, SuitePageNext

LEMMA SuiteInvStep == SuiteInv /\ [SuiteTestsNext]_suiteAllVars => SuiteInv'
  <1> SUFFICES ASSUME SuiteInv, [SuiteTestsNext]_suiteAllVars PROVE SuiteInv'
    OBVIOUS
  <1>1. SuiteMoves /\ SuiteRestMoves
    BY SuiteStepMoves
  <1>2. IsFiniteSet({}) /\ Cardinality({}) = 0 /\ 0 <= LinkMost
    BY FS_EmptySet, SuiteAssumption
  <1>3. CASE NowChosen(suiteMode.mode, suiteMode.chosen)
    <2>1. suiteMode'.mode = suiteMode.mode /\ suiteMode'.chosen = suiteMode.chosen
      BY <1>3 DEF NowChosen
    <2> QED
      BY <1>1, <1>3, <2>1 DEF SuiteInv, SuiteRestMoves, SuiteViewOf, SuiteRunsKnown, NowChosen
  <1>4. CASE suiteMode'.mode \in {"off", "compare", "delete"} /\ NowChosen(suiteMode'.mode, {})
    <2>1. suiteMode'.chosen = {}
      BY <1>4 DEF NowChosen
    <2> QED
      BY <1>1, <1>2, <1>4, <2>1 DEF SuiteInv, SuiteRestMoves, SuiteViewOf, SuiteRunsKnown, NowChosen
  <1>5. CASE /\ NowChosen(suiteMode.mode, suiteMode'.chosen)
             /\ suiteMode'.chosen \subseteq SuiteRunsKnown
             /\ suiteMode.mode = "compare" =>
                  IsFiniteSet(suiteMode'.chosen) /\ Cardinality(suiteMode'.chosen) <= LinkMost
    <2>1. suiteMode'.mode = suiteMode.mode
      BY <1>5 DEF NowChosen
    <2> QED
      BY <1>1, <1>5, <2>1 DEF SuiteInv, SuiteRestMoves, SuiteViewOf, SuiteRunsKnown, NowChosen
  <1> QED
    BY <1>1, <1>3, <1>4, <1>5 DEF SuiteMoves

\* The invariant of the page of a suite.
THEOREM SuiteInvariant == SuiteTestsSpec => []SuiteInv
  <1>1. SuiteTestsInit => SuiteInv
    <2>1. IsFiniteSet({}) /\ Cardinality({}) = 0 /\ 0 <= LinkMost /\ Len(SuiteIndexes) \in Nat
      BY FS_EmptySet, SuiteAssumption
    <2> QED
      BY <2>1, SuiteAssumption
         DEF SuiteTestsInit, SuiteInit, SuiteInv, SuiteViewOf, DefaultSuiteView, SuiteRunsKnown
  <1> QED
    BY <1>1, SuiteInvStep, PTL DEF SuiteTestsSpec

LEMMA SameSuiteCardinality == \A S : SuiteChoice!Cardinality(S) = Cardinality(S)
  BY DEF SuiteChoice!Cardinality, Cardinality

\* The page of a suite implements RunChoice, for clicks on rows and boxes and for
\* ranges of rows, whatever the limit and however long the range: what there is no
\* room for is left out (SuiteDetailPage.tsx handleSelectionChange).
THEOREM SuiteChoiceImplemented == SuiteTestsSpec => SuiteChoiceKept
  <1>1. SuiteTestsInit => SuiteChoice!ChoiceInit
    BY DEF SuiteTestsInit, SuiteInit, SuiteChoice!ChoiceInit
  <1>2. SuiteInv /\ [SuiteTestsNext]_suiteAllVars
          => [SuiteChoice!ChoiceNext]_(SuiteChoice!choiceVars)
    <2> SUFFICES ASSUME SuiteInv, [SuiteTestsNext]_suiteAllVars
                 PROVE  [SuiteChoice!ChoiceNext]_(SuiteChoice!choiceVars)
      OBVIOUS
    <2>1. SuiteMoves
      BY SuiteStepMoves
    <2>2. CASE NowChosen(suiteMode.mode, suiteMode.chosen)
      <3>1. suiteMode'.mode = suiteMode.mode /\ suiteMode'.chosen = suiteMode.chosen
        BY <2>2 DEF NowChosen
      <3> QED
        BY <3>1 DEF SuiteChoice!choiceVars
    <2>3. CASE suiteMode'.mode \in {"off", "compare", "delete"} /\ NowChosen(suiteMode'.mode, {})
      <3>1. suiteMode'.chosen = {}
        BY <2>3 DEF NowChosen
      <3> QED
        BY <2>3, <3>1 DEF SuiteChoice!ChoiceNext, SuiteChoice!Switch
    <2>4. CASE /\ suiteMode.mode # "off" /\ NowChosen(suiteMode.mode, suiteMode'.chosen)
               /\ suiteMode'.chosen \subseteq SuiteRunsKnown
               /\ \/ suiteMode.chosen \subseteq suiteMode'.chosen
                  \/ suiteMode'.chosen \subseteq suiteMode.chosen
               /\ suiteMode.mode = "compare" => Cardinality(suiteMode'.chosen) <= LinkMost
      <3>1. suiteMode'.mode = suiteMode.mode
        BY <2>4 DEF NowChosen
      <3> QED
        BY <2>4, <3>1, SameSuiteCardinality
           DEF SuiteChoice!ChoiceNext, SuiteChoice!Choose, SuiteChoice!Unchoose
    <2> QED
      BY <2>1, <2>2, <2>3, <2>4 DEF SuiteMoves
  <1> QED
    BY <1>1, <1>2, SuiteInvariant, PTL DEF SuiteTestsSpec, SuiteChoiceKept, SuiteChoice!ChoiceSpec

-----------------------------------------------------------------------------
(* The keys of the groups. *)

\* What is written to the URL for a set of keys is read from it as that set.
LEMMA KeysAreKept ==
  ASSUME SuiteInv, NEW keys \in SUBSET (GroupLabels \cup {"instance_id"})
  PROVE  ParsedKeys(KeysParam(keys)) = keys
  <1>1. GroupLabels \subseteq LabelsKnown
    BY SuiteRunsKnownAre DEF GroupLabels, SuiteRunsKnown, LabelsKnown
  <1>2. keys \in SUBSET (LabelsKnown \cup {"instance_id"})
    BY <1>1
  <1>3. \A some \in SUBSET (LabelsKnown \cup {"instance_id"}) : some # None
    BY SuiteAssumption
  <1>4. keys # None
    BY <1>2, <1>3
  <1> QED
    BY <1>4 DEF ParsedKeys, KeysParam

\* A click on a key adds or removes that key and no other, although the URL says
\* "all of them" and "none" in ways of their own (SuiteDetailPage.tsx groupBy).
THEOREM KeysFollowClicks == SuiteTestsSpec => GroupKeysFollowClicks
  <1>1. ASSUME SuiteInv, NEW k \in GroupLabels \cup {"instance_id"}, ClickGroupKey(k)
        PROVE  GroupKeys' = (GroupKeys \ {k}) \cup ({k} \ GroupKeys)
    <2> DEFINE keys == IF k \in GroupKeys THEN GroupKeys \ {k} ELSE GroupKeys \cup {k}
    <2>1. GroupKeys \subseteq GroupLabels \cup {"instance_id"}
      BY DEF GroupKeys, ParsedKeys
    <2>2. keys = (GroupKeys \ {k}) \cup ({k} \ GroupKeys)
      OBVIOUS
    <2>3. keys \in SUBSET (GroupLabels \cup {"instance_id"})
      BY <2>1
    <2>4. SuiteGo(ChartsKept, [groupBy |-> KeysParam(keys)], suiteView.page)
      BY <1>1 DEF ClickGroupKey
    <2> HIDE DEF keys
    <2>5. suiteUrl'.groupBy = KeysParam(keys) /\ suiteIndex' = suiteIndex
      BY <2>4 DEF SuiteGo, Over
    <2>6. GroupLabels' = GroupLabels
      BY <2>5 DEF GroupLabels, SuiteRuns
    <2>7. GroupKeys' = ParsedKeys(KeysParam(keys))
      BY <2>5, <2>6 DEF GroupKeys, ParsedKeys
    <2> QED
      BY <1>1, <2>2, <2>3, <2>7, KeysAreKept
  <1>2. SuiteInv /\ [SuiteTestsNext]_suiteAllVars =>
          [\A k \in GroupLabels \cup {"instance_id"} :
             ClickGroupKey(k) => GroupKeys' = (GroupKeys \ {k}) \cup ({k} \ GroupKeys)]_suiteAllVars
    BY <1>1
  <1> QED
    BY <1>2, SuiteInvariant, PTL DEF SuiteTestsSpec, GroupKeysFollowClicks

-----------------------------------------------------------------------------
(* The links of a suite to comparisons. *)

\* The place of a member.
LEMMA PlaceIsOf ==
  ASSUME NEW s, NEW r \in ToSet(s)
  PROVE  Place(r, s) \in DOMAIN s /\ s[Place(r, s)] = r
  <1>1. \E i \in DOMAIN s : s[i] = r
    BY DEF ToSet
  <1> QED
    BY <1>1 DEF Place

\* What a link is made of.
LEMMA FirstPerIs ==
  ASSUME NEW S, NEW s \in Seq(S), Injective(s), NEW age, \A x \in S : age[x] \in Int,
         Falling(s, age), NEW key, NEW i \in DOMAIN FirstPer(s, key)
  PROVE  LET link == FirstPer(s, key)
         IN /\ link[i] \in ToSet(s) /\ Comparable(link[i])
            /\ \A j \in DOMAIN link : key[link[j]] = key[link[i]] => j = i
            /\ \A r \in ToSet(s) : key[r] = key[link[i]] /\ Comparable(r) => age[r] <= age[link[i]]
  <1> DEFINE good == Among(s, {r \in ToSet(s) : Comparable(r)})
             isFirst == {r \in ToSet(good) :
                    ~\E k \in DOMAIN good : k < Place(r, good) /\ key[good[k]] = key[r]}
             first == Among(good, isFirst)
             m == Min({LinkMost, Len(first)})
             link == FirstPer(s, key)
  <1>1. link = SubSeq(first, 1, m)
    BY DEF FirstPer
  <1>2. /\ good \in Seq(S) /\ Injective(good) /\ Falling(good, age)
        /\ ToSet(good) = {r \in ToSet(s) : Comparable(r)}
    <2>1. ToSet(s) \cap {r \in ToSet(s) : Comparable(r)} = {r \in ToSet(s) : Comparable(r)}
      OBVIOUS
    <2> QED
      BY <2>1, AmongMembers, AmongInjective, AmongFalling
  <1> HIDE DEF good
  <1>3. first \in Seq(S) /\ Injective(first) /\ ToSet(first) = isFirst
    <2>1. ToSet(good) \cap isFirst = isFirst
      OBVIOUS
    <2> HIDE DEF isFirst
    <2> QED
      BY <1>2, <2>1, AmongMembers, AmongInjective
  <1>4. m \in 0..Len(first)
    <2>1. LinkMost \in Nat /\ Len(first) \in Nat
      BY <1>3, SuiteAssumption
    <2> HIDE DEF first
    <2> QED
      BY <2>1, MinOfTwo
  <1> HIDE DEF first, m, link
  <1>5. /\ DOMAIN link = 1..m /\ \A k \in 1..m : link[k] = first[k] /\ k \in DOMAIN first
        /\ \A k \in 1..m : first[k] \in ToSet(first)
    <2>1. DOMAIN first = 1..Len(first) /\ Len(first) \in Nat
      BY <1>3
    <2>2. \A k \in 1..m : k \in DOMAIN first
      BY <1>4, <2>1
    <2>3. DOMAIN link = 1..m /\ \A k \in 1..m : link[k] = first[k]
      BY <1>1, <1>3, <1>4
    <2> QED
      BY <2>2, <2>3 DEF ToSet
  <1>6. i \in 1..m
    BY <1>5 DEF link
  <1>7. \A x \in isFirst : /\ x \in ToSet(good) /\ Place(x, good) \in DOMAIN good
                           /\ good[Place(x, good)] = x
                           /\ ~\E k \in DOMAIN good : k < Place(x, good) /\ key[good[k]] = key[x]
    BY PlaceIsOf
  <1>8. ASSUME NEW x \in isFirst, NEW y \in ToSet(good), key[y] = key[x]
        PROVE  /\ Place(x, good) <= Place(y, good) /\ age[y] <= age[x]
    <2>1. Place(y, good) \in DOMAIN good /\ good[Place(y, good)] = y
      BY PlaceIsOf
    <2>2. DOMAIN good \subseteq Int /\ \A k \in DOMAIN good : good[k] \in S
      BY <1>2
    <2>3. Place(x, good) <= Place(y, good)
      BY <1>7, <1>8, <2>1, <2>2
    <2>4. age[x] \in Int
      BY <1>7, <2>2
    <2> QED
      BY <1>2, <1>7, <2>1, <2>2, <2>3, <2>4 DEF Falling
  <1>9. \A x, y \in isFirst : key[y] = key[x] => x = y
    <2> SUFFICES ASSUME NEW x \in isFirst, NEW y \in isFirst, key[y] = key[x] PROVE x = y
      OBVIOUS
    <2>1. Place(x, good) <= Place(y, good) /\ Place(y, good) <= Place(x, good)
      BY <1>7, <1>8
    <2>2. Place(x, good) \in Int /\ Place(y, good) \in Int
      BY <1>2, <1>7
    <2> QED
      BY <1>7, <2>1, <2>2
  <1> HIDE DEF isFirst
  <1>10. \A k \in 1..m : link[k] \in isFirst
    BY <1>3, <1>5
  <1>11. link[i] \in ToSet(s) /\ Comparable(link[i])
    BY <1>2, <1>6, <1>7, <1>10
  <1>12. ASSUME NEW j \in DOMAIN link, key[link[j]] = key[link[i]] PROVE j = i
    <2>1. link[j] = link[i]
      BY <1>5, <1>6, <1>9, <1>10, <1>12
    <2> QED
      BY <1>3, <1>5, <1>6, <2>1 DEF Injective
  <1>13. ASSUME NEW r \in ToSet(s), key[r] = key[link[i]], Comparable(r) PROVE age[r] <= age[link[i]]
    BY <1>2, <1>6, <1>8, <1>10, <1>13
  <1> QED
    BY <1>11, <1>12, <1>13 DEF link

\* A link of the newest of some runs is sound among these.
LEMMA LinkIsSound ==
  ASSUME NEW s \in Seq(SuiteRunsKnown), Injective(s), NEW key
  PROVE  SoundLink(LinkTo(FirstPer(Newest(s), key)), ToSet(s), key)
  <1> DEFINE age == [r \in DOMAIN SuiteRows |-> SuiteRows[r].start]
             t == Newest(s)
             link == FirstPer(t, key)
  <1>1. \A x \in SuiteRunsKnown : age[x] \in Int /\ age[x] = SuiteRows[x].start
    BY SuiteAssumption DEF SuiteRunsKnown
  <1>2. t = Downwards(s, age)
    BY DEF Newest
  <1> HIDE DEF age, t
  <1>3. t \in Seq(SuiteRunsKnown) /\ ToSet(t) = ToSet(s) /\ Injective(t) /\ Falling(t, age)
    BY <1>1, <1>2, NumbersKeep, NumbersFall
  <1>4. ASSUME NEW i \in DOMAIN link
        PROVE  /\ link[i] \in ToSet(s) /\ Comparable(link[i])
               /\ \A j \in DOMAIN link : key[link[j]] = key[link[i]] => j = i
               /\ \A r \in ToSet(s) : key[r] = key[link[i]] /\ Comparable(r) => age[r] <= age[link[i]]
    BY <1>1, <1>3, FirstPerIs
  <1>5. \A x \in ToSet(s) : age[x] = SuiteRows[x].start
    BY <1>1 DEF ToSet
  <1>6. LinkTo(link) # None => LinkTo(link) = link
    BY DEF LinkTo
  <1> HIDE DEF link
  <1>7. SoundLink(LinkTo(link), ToSet(s), key)
    BY <1>4, <1>5, <1>6 DEF SoundLink, Comparable
  <1> QED
    BY <1>7 DEF link, t

\* The runs that a link is made of, in the order of the index.
LEMMA SomeRunsAre ==
  ASSUME SuiteInv, NEW some \in SUBSET ToSet(SuiteRuns)
  PROVE  /\ Among(SuiteRuns, some) \in Seq(SuiteRunsKnown) /\ Injective(Among(SuiteRuns, some))
         /\ ToSet(Among(SuiteRuns, some)) = some
  <1>1. ToSet(SuiteRuns) \cap some = some
    OBVIOUS
  <1> QED
    BY <1>1, SuiteRunsAre, AmongMembers, AmongInjective

\* The clients in some order.
LEMMA ClientsAre ==
  ASSUME SuiteInv, NEW r \in ToSet(SuiteRuns)
  PROVE  Place(ClientOf(r), ClientsByName) \in Int
  <1> DEFINE S == {ClientOf(x) : x \in ToSet(SuiteRuns)}
             n == Cardinality(S)
             made == [x \in ToSet(SuiteRuns) |-> ClientOf(x)]
  <1>1. IsFiniteSet(ToSet(SuiteRuns))
    BY SuiteRunsAre, SeqHasFew
  <1>2. made \in Surjection(ToSet(SuiteRuns), S)
    BY DEF Surjection
  <1>3. ClientOf(r) \in S
    OBVIOUS
  <1>4. ClientsByName = SetToSeq(S)
    BY DEF ClientsByName
  <1> HIDE DEF S, made
  <1>5. IsFiniteSet(S)
    BY <1>1, <1>2, FS_Surjection
  <1>6. n \in Nat /\ ExistsBijection(1..n, S)
    BY <1>5, FS_CardinalityType
  <1>7. PICK f \in Bijection(1..n, S) : TRUE
    BY <1>6 DEF ExistsBijection
  <1> HIDE DEF n
  <1>8. \E h : h \in [1..n -> S] /\ IsInjective(h)
    BY <1>7 DEF Bijection, Injection
  <1>9. ClientsByName \in [1..n -> S] /\ IsInjective(ClientsByName)
    BY <1>4, <1>8 DEF SetToSeq, n
  <1>10. Cardinality(1..n) = n
    <2>1. 1 \in Int /\ n \in Int /\ (IF 1 > n THEN 0 ELSE n - 1 + 1) = n
      BY <1>6
    <2> QED
      BY <2>1, FS_Interval, Zenon
  <1>11. ClientsByName \in Surjection(1..n, S)
    <2>1. ClientsByName \in Injection(1..n, S)
      BY <1>9 DEF Injection
    <2>2. Cardinality(1..n) = Cardinality(S)
      BY <1>10 DEF n
    <2> QED
      BY <1>5, <2>1, <2>2, FS_Injection
  <1>12. DOMAIN ClientsByName = 1..n /\ \E k \in 1..n : ClientsByName[k] = ClientOf(r)
    BY <1>3, <1>11 DEF Surjection
  <1>13. \E k \in DOMAIN ClientsByName : ClientsByName[k] = ClientOf(r)
    BY <1>12
  <1>14. Place(ClientOf(r), ClientsByName) \in 1..n
    BY <1>12, <1>13 DEF Place
  <1> QED
    BY <1>6, <1>14

\* The boxes of a client are runs of the suite, and so are those of a section.
LEMMA BoxesAreRuns ==
  ASSUME SuiteInv, NEW section, NEW c
  PROVE  ToSet(BoxesOf(section, c)) \subseteq ToSet(SuiteRuns)
  <1> DEFINE some == {r \in ToSet(SuiteRuns) : ClientOf(r) = c /\ GroupOf(r, GroupKeys) = section}
             mine == Among(SuiteRuns, some)
             own == Newest(mine)
             m == Min({MostBoxes, Len(own)})
  <1>1. mine \in Seq(SuiteRunsKnown) /\ ToSet(mine) = some
    BY SomeRunsAre
  <1> HIDE DEF mine
  <1>2. own \in Seq(SuiteRunsKnown) /\ ToSet(own) = ToSet(mine)
    <2> DEFINE age == [r \in DOMAIN SuiteRows |-> SuiteRows[r].start]
    <2>1. \A x \in SuiteRunsKnown : age[x] \in Int
      BY SuiteAssumption DEF SuiteRunsKnown
    <2>2. own = Downwards(mine, age)
      BY DEF Newest
    <2> HIDE DEF age, own
    <2> QED
      BY <1>1, <2>1, <2>2, NumbersKeep
  <1>3. BoxesOf(section, c) = SubSeq(own, 1, m)
    BY DEF BoxesOf, mine
  <1> HIDE DEF own
  <1>4. m \in 0..Len(own)
    <2>1. MostBoxes \in Nat /\ Len(own) \in Nat
      BY <1>2, SuiteAssumption
    <2> QED
      BY <2>1, MinOfTwo
  <1> HIDE DEF m
  <1>5. ToSet(SubSeq(own, 1, m)) \subseteq ToSet(own)
    BY <1>2, <1>4, FirstOfSeq
  <1> QED
    BY <1>1, <1>2, <1>3, <1>5

\* The link of a section.
LEMMA SectionIsSound ==
  ASSUME SuiteInv, NEW section
  PROVE  SoundLink(SectionLink(section), SectionBoxes(section), ByClient)
  <1> DEFINE rank == [r \in ToSet(SuiteRuns) |-> Place(ClientOf(r), ClientsByName)]
             mine == Among(SuiteRuns, SectionBoxes(section))
             boxes == Upwards(mine, rank)
  <1>1. SectionBoxes(section) \in SUBSET ToSet(SuiteRuns)
    BY BoxesAreRuns DEF SectionBoxes
  <1>2. /\ mine \in Seq(SuiteRunsKnown) /\ Injective(mine) /\ ToSet(mine) = SectionBoxes(section)
    BY <1>1, SomeRunsAre
  <1>3. mine \in Seq(ToSet(SuiteRuns))
    <2>1. SuiteRuns \in Seq(ToSet(SuiteRuns))
      BY SuiteRunsAre DEF ToSet
    <2> QED
      BY <2>1, AmongMembers
  <1>4. \A x \in ToSet(SuiteRuns) : rank[x] \in Int
    BY ClientsAre
  <1>5. SectionLink(section) = LinkTo(FirstPer(Newest(boxes), ByClient))
    BY DEF SectionLink
  <1> HIDE DEF rank, mine
  <1>6. boxes \in Seq(ToSet(SuiteRuns)) /\ ToSet(boxes) = SectionBoxes(section) /\ Injective(boxes)
    BY <1>2, <1>3, <1>4, NumbersKeep, NumbersFall
  <1>7. ToSet(SuiteRuns) \subseteq SuiteRunsKnown
    BY SuiteRunsAre DEF ToSet
  <1> HIDE DEF boxes
  <1>8. boxes \in Seq(SuiteRunsKnown)
    BY <1>6, <1>7
  <1> QED
    BY <1>5, <1>6, <1>8, LinkIsSound

\* All three kinds of links.
LEMMA LinksSound == SuiteInv => CompareLinksSound
  <1> SUFFICES ASSUME SuiteInv PROVE CompareLinksSound
    OBVIOUS
  <1>1. SoundLink(LatestLink, CompletedRuns, ByBoth)
    <2>1. CompletedRuns \in SUBSET ToSet(SuiteRuns)
      BY DEF CompletedRuns
    <2> DEFINE s == Among(SuiteRuns, CompletedRuns)
    <2>2. s \in Seq(SuiteRunsKnown) /\ Injective(s) /\ ToSet(s) = CompletedRuns
      BY <2>1, SomeRunsAre
    <2>3. LatestLink = LinkTo(FirstPer(Newest(s), ByBoth))
      BY DEF LatestLink
    <2> HIDE DEF s
    <2> QED
      BY <2>2, <2>3, LinkIsSound
  <1>2. \A s \in Sections : SoundLink(SectionLink(s), SectionBoxes(s), ByClient)
    BY SectionIsSound
  <1>3. ASSUME NEW c \in Range(ByClient) PROVE SoundLink(AcrossLink(c), RunsOfClient(c), ByGroup)
    <2>1. RunsOfClient(c) \in SUBSET ToSet(SuiteRuns)
      BY DEF RunsOfClient
    <2> DEFINE s == Among(SuiteRuns, RunsOfClient(c))
    <2>2. s \in Seq(SuiteRunsKnown) /\ Injective(s) /\ ToSet(s) = RunsOfClient(c)
      BY <2>1, SomeRunsAre
    <2>3. AcrossLink(c) = LinkTo(FirstPer(Newest(s), ByGroup))
      BY DEF AcrossLink
    <2> HIDE DEF s
    <2> QED
      BY <2>2, <2>3, LinkIsSound
  <1> QED
    BY <1>1, <1>2, <1>3 DEF CompareLinksSound

\* Whatever the suite's index, its rows and the grouping, a link to a comparison on the
\* page of a suite holds only runs of the section or client it stands at that have ended
\* and passed, no two for the same client or group, and each the newest such of its own.
THEOREM LinksAreSound == SuiteTestsSpec => []CompareLinksSound
  BY SuiteInvariant, LinksSound, PTL

-----------------------------------------------------------------------------
(* The page that compares groups. *)

\* A group is a client, values of labels and the runs chosen one by one.
IsGroup(g) == g = Group(g.client, g.meta, g.runs)

GroupSeq(gs) == \E S : gs \in Seq(S) /\ \A g \in S : IsGroup(g)

\* What the URL has to say is there: the suite, the groups, and the sample.
GroupsInv ==
    /\ cgIndex \in 0..Len(CgIndexes)
    /\ cgUrl = [k \in DOMAIN CgDefaults |-> cgUrl[k]]
    /\ cgUrl.suite \in CgSuites \cup {None}
    /\ cgUrl.sample \in Nat
    /\ GroupSeq(cgUrl.groups)

\* The other parameters.
Other == DOMAIN CgDefaults \ {"suite", "groups", "sample"}

LEMMA ParametersAre ==
  /\ {"suite", "groups", "sample"} \subseteq DOMAIN CgDefaults
  /\ {"agg", "baseline", "tableBase", "chart", "sort", "dir", "filter", "regex", "buckets",
      "diff", "metric", "color", "threshold", "slow", "modal"} \subseteq Other
  BY DEF CgDefaults, Other

LEMMA MadeGroups ==
  /\ \A c, m, rs : IsGroup(Group(c, m, rs))
  /\ \A c, m, rs : /\ Group(c, m, rs).client = c /\ Group(c, m, rs).meta = m
                   /\ Group(c, m, rs).runs = rs
  BY DEF IsGroup, Group

LEMMA GroupSeqOf ==
  ASSUME NEW S, NEW gs \in Seq(S), \A g \in S : IsGroup(g)
  PROVE  GroupSeq(gs)
  BY DEF GroupSeq

LEMMA InitGroups == CgInit => GroupsInv
  <1> SUFFICES ASSUME CgInit PROVE GroupsInv
    OBVIOUS
  <1>1. Len(CgIndexes) \in Nat
    <2>1. CgIndexes \in Seq(Seq(DOMAIN CgRows))
      BY GroupsAssumption
    <2> QED
      BY <2>1
  <1>2. cgUrl.suite = None /\ cgUrl.groups = <<>> /\ cgUrl.sample = DefaultSample
    BY DEF CgInit, CgDefaults
  <1>3. CgDefaults = [k \in DOMAIN CgDefaults |-> CgDefaults[k]]
    BY DEF CgDefaults
  <1>4. GroupSeq(<<>>)
    <2> DEFINE S == {Group("", NoMeta, None)}
    <2>1. <<>> \in Seq(S)
      OBVIOUS
    <2>2. \A g \in S : IsGroup(g)
      BY MadeGroups
    <2> HIDE DEF S
    <2> QED
      BY <2>1, <2>2, GroupSeqOf
  <1>5. GroupSeq(cgUrl.groups)
    BY <1>2, <1>4
  <1>6. cgIndex = 0 /\ cgUrl = CgDefaults
    BY DEF CgInit
  <1> QED
    BY <1>1, <1>2, <1>3, <1>5, <1>6, GroupsAssumption DEF GroupsInv

\* A handler that sets other parameters.
LEMMA OthersKeep ==
  ASSUME GroupsInv, cgIndex' \in 0..Len(CgIndexes), NEW patch, DOMAIN patch \subseteq Other,
         cgUrl' = Over(patch, cgUrl)
  PROVE  GroupsInv'
  <1>1. DOMAIN cgUrl = DOMAIN CgDefaults
    BY DEF GroupsInv
  <1>2. cgUrl' = [k \in DOMAIN CgDefaults |->
                    IF k \in DOMAIN patch THEN patch[k] ELSE cgUrl[k]]
    BY <1>1 DEF Over, Other
  <1>3. cgUrl'.suite = cgUrl.suite /\ cgUrl'.groups = cgUrl.groups /\ cgUrl'.sample = cgUrl.sample
    BY <1>2, ParametersAre DEF Other
  <1>4. cgUrl' = [k \in DOMAIN CgDefaults |-> cgUrl'[k]]
    BY <1>2
  <1> QED
    BY <1>3, <1>4 DEF GroupsInv

LEMMA GoKeeps ==
  ASSUME GroupsInv, NEW patch, DOMAIN patch \subseteq Other, CgGo(patch)
  PROVE  GroupsInv'
  <1>1. cgUrl' = Over(patch, cgUrl) /\ cgIndex' = cgIndex
    BY DEF CgGo
  <1>2. cgIndex' \in 0..Len(CgIndexes)
    BY <1>1 DEF GroupsInv
  <1> QED
    BY <1>1, <1>2, OthersKeep

\* A handler that sets the groups, and perhaps the suite.
LEMMA GroupsKeep ==
  ASSUME GroupsInv, cgIndex' = cgIndex, NEW s \in CgSuites \cup {None}, NEW groups, NEW S,
         groups \in Seq(S), \A g \in S : IsGroup(g),
         cgUrl' = [cgUrl EXCEPT !.suite = s, !.groups = groups]
  PROVE  GroupsInv'
  <1>1. DOMAIN cgUrl = DOMAIN CgDefaults
    BY DEF GroupsInv
  <1>2. cgUrl' = [k \in DOMAIN CgDefaults |->
                    IF k = "groups" THEN groups ELSE IF k = "suite" THEN s ELSE cgUrl[k]]
    BY <1>1, ParametersAre
  <1>3. cgUrl'.suite = s /\ cgUrl'.groups = groups /\ cgUrl'.sample = cgUrl.sample
    BY <1>2, ParametersAre
  <1>4. cgUrl' = [k \in DOMAIN CgDefaults |-> cgUrl'[k]]
    BY <1>2
  <1> QED
    BY <1>3, <1>4 DEF GroupsInv, GroupSeq

LEMMA SetGroupsKeeps ==
  ASSUME GroupsInv, NEW groups, NEW S, groups \in Seq(S), \A g \in S : IsGroup(g),
         SetGroups(groups)
  PROVE  GroupsInv'
  <1>1. cgUrl' = [cgUrl EXCEPT !.groups = groups] /\ cgIndex' = cgIndex
    BY DEF SetGroups
  <1>2. DOMAIN cgUrl = DOMAIN CgDefaults /\ cgUrl.suite \in CgSuites \cup {None}
        /\ cgUrl = [k \in DOMAIN CgDefaults |-> cgUrl[k]]
    BY DEF GroupsInv
  <1>3. cgUrl' = [cgUrl EXCEPT !.suite = cgUrl.suite, !.groups = groups]
    BY <1>1, <1>2, ParametersAre
  <1> QED
    BY <1>1, <1>2, <1>3, GroupsKeep

\* One group of a sequence of groups is another.
LEMMA OneGroup ==
  ASSUME NEW S, NEW groups \in Seq(S), \A g \in S : IsGroup(g), NEW gi \in DOMAIN groups, NEW g,
         IsGroup(g)
  PROVE  /\ [groups EXCEPT ![gi] = g] \in Seq(S \cup {g})
         /\ \A x \in S \cup {g} : IsGroup(x)
         /\ DOMAIN [groups EXCEPT ![gi] = g] = DOMAIN groups
  <1>1. groups \in Seq(S \cup {g}) /\ g \in S \cup {g}
    OBVIOUS
  <1>2. [groups EXCEPT ![gi] = g] \in Seq(S \cup {g})
    BY <1>1
  <1> QED
    BY <1>2

LEMMA UpdateKeeps ==
  ASSUME GroupsInv, NEW gi \in DOMAIN cgUrl.groups, NEW g, IsGroup(g), UpdateGroup(gi, g)
  PROVE  GroupsInv'
  <1>1. PICK S : cgUrl.groups \in Seq(S) /\ \A x \in S : IsGroup(x)
    BY DEF GroupsInv, GroupSeq
  <1>2. /\ [cgUrl.groups EXCEPT ![gi] = g] \in Seq(S \cup {g})
        /\ \A x \in S \cup {g} : IsGroup(x)
    BY <1>1, OneGroup
  <1>3. SetGroups([cgUrl.groups EXCEPT ![gi] = g])
    BY DEF UpdateGroup
  <1> QED
    BY <1>2, <1>3, SetGroupsKeeps

LEMMA WithRunsIs ==
  ASSUME NEW g, NEW rs, IsGroup(g)
  PROVE  [g EXCEPT !.runs = rs] = Group(g.client, g.meta, rs)
  BY DEF IsGroup, Group

LEMMA AddGroupKeeps == GroupsInv /\ AddGroup => GroupsInv'
  <1> SUFFICES ASSUME GroupsInv, AddGroup PROVE GroupsInv'
    OBVIOUS
  <1>1. PICK c : SetGroups(Append(cgUrl.groups, Group(c, NoMeta, None)))
    BY DEF AddGroup
  <1>2. PICK S : cgUrl.groups \in Seq(S) /\ \A x \in S : IsGroup(x)
    BY DEF GroupsInv, GroupSeq
  <1>3. IsGroup(Group(c, NoMeta, None))
    BY MadeGroups
  <1> DEFINE g == Group(c, NoMeta, None)
             groups == Append(cgUrl.groups, g)
  <1> HIDE DEF g
  <1>4. groups \in Seq(S \cup {g}) /\ \A x \in S \cup {g} : IsGroup(x)
    <2>1. cgUrl.groups \in Seq(S \cup {g}) /\ g \in S \cup {g}
      BY <1>2
    <2> QED
      BY <1>2, <1>3, <2>1 DEF g
  <1>5. SetGroups(groups)
    BY <1>1 DEF g
  <1> HIDE DEF groups
  <1> QED
    BY <1>4, <1>5, SetGroupsKeeps

LEMMA RemoveGroupKeeps ==
  ASSUME GroupsInv, NEW gi \in DOMAIN cgUrl.groups, RemoveGroup(gi)
  PROVE  GroupsInv'
  <1>1. PICK S : cgUrl.groups \in Seq(S) /\ \A x \in S : IsGroup(x)
    BY DEF GroupsInv, GroupSeq
  <1> DEFINE was == cgUrl.groups
             groups == RemoveAt(was, gi)
  <1>2. SetGroups(groups)
    BY DEF RemoveGroup
  <1>3. groups \in Seq(S)
    <2>1. was \in Seq(S) /\ gi \in 1..Len(was)
      BY <1>1
    <2> HIDE DEF was
    <2>2. SubSeq(was, 1, gi - 1) \in Seq(S) /\ SubSeq(was, gi + 1, Len(was)) \in Seq(S)
      BY <2>1
    <2> QED
      BY <2>2 DEF RemoveAt
  <1> HIDE DEF groups
  <1> QED
    BY <1>1, <1>2, <1>3, SetGroupsKeeps

LEMMA ClickRunBoxKeeps ==
  ASSUME GroupsInv, NEW gi \in DOMAIN cgUrl.groups, NEW r, NEW shift \in BOOLEAN,
         ClickRunBox(gi, r, shift)
  PROVE  GroupsInv'
  <1> DEFINE g == cgUrl.groups[gi]
             now == SetGroupRuns(g, Matched(g), cgUrl.sample, ClickedRuns(gi, r, shift),
                                 Included(gi, r, shift))
  <1>1. PICK S : cgUrl.groups \in Seq(S) /\ \A x \in S : IsGroup(x)
    BY DEF GroupsInv, GroupSeq
  <1>2. IsGroup(g)
    BY <1>1
  <1>3. IsGroup(now)
    <2>1. PICK rs : now = [g EXCEPT !.runs = rs]
      BY DEF SetGroupRuns
    <2> QED
      BY <1>2, <2>1, WithRunsIs, MadeGroups
  <1>4. cgUrl' = [cgUrl EXCEPT !.groups[gi] = now] /\ cgIndex' = cgIndex
    BY DEF ClickRunBox
  <1> HIDE DEF now
  <1>5. cgUrl' = [cgUrl EXCEPT !.groups = [cgUrl.groups EXCEPT ![gi] = now]]
    BY <1>4
  <1>6. /\ [cgUrl.groups EXCEPT ![gi] = now] \in Seq(S \cup {now})
        /\ \A x \in S \cup {now} : IsGroup(x)
    BY <1>1, <1>3, OneGroup
  <1> DEFINE groups == [cgUrl.groups EXCEPT ![gi] = now]
  <1>7. cgUrl' = [cgUrl EXCEPT !.groups = groups]
    BY <1>5
  <1> HIDE DEF groups
  <1>8. DOMAIN cgUrl = DOMAIN CgDefaults /\ cgUrl.suite \in CgSuites \cup {None}
        /\ cgUrl = [k \in DOMAIN CgDefaults |-> cgUrl[k]]
    BY DEF GroupsInv
  <1>9. cgUrl' = [cgUrl EXCEPT !.suite = cgUrl.suite, !.groups = groups]
    BY <1>7, <1>8, ParametersAre
  <1> QED
    BY <1>4, <1>6, <1>8, <1>9, GroupsKeep DEF groups

LEMMA GroupHandlersKeep ==
  ASSUME GroupsInv, NEW gi \in DOMAIN cgUrl.groups, GroupHandlers(gi)
  PROVE  GroupsInv'
  <1>1. IsGroup(cgUrl.groups[gi])
    BY DEF GroupsInv, GroupSeq
  <1>2. CASE RemoveGroup(gi)
    BY <1>2, RemoveGroupKeeps
  <1>3. CASE ResetToSample(gi)
    <2>1. IsGroup([cgUrl.groups[gi] EXCEPT !.runs = None])
      BY <1>1, WithRunsIs, MadeGroups
    <2> QED
      BY <1>3, <2>1, UpdateKeeps DEF ResetToSample
  <1>4. CASE \E c, m : UpdateGroup(gi, Group(c, m, None))
    BY <1>4, UpdateKeeps, MadeGroups
  <1>5. ASSUME NEW c, ChooseClient(gi, c) PROVE GroupsInv'
    BY <1>4, <1>5 DEF ChooseClient
  <1>6. ASSUME NEW k, AddMetadata(gi, k) \/ RemoveMetadata(gi, k) PROVE GroupsInv'
    BY <1>4, <1>6 DEF AddMetadata, RemoveMetadata
  <1>7. ASSUME NEW k, NEW v, PickValue(gi, k, v) PROVE GroupsInv'
    BY <1>4, <1>7 DEF PickValue
  <1>8. ASSUME NEW r, NEW shift \in BOOLEAN, ClickRunBox(gi, r, shift) PROVE GroupsInv'
    BY <1>8, ClickRunBoxKeeps
  <1> QED
    BY <1>2, <1>3, <1>5, <1>6, <1>7, <1>8 DEF GroupHandlers

LEMMA ResultHandlersKeep ==
  GroupsInv /\ ResultHandlers => GroupsInv'
  <1> SUFFICES ASSUME GroupsInv, ResultHandlers PROVE GroupsInv'
    OBVIOUS
  <1> DEFINE syn == Synthetic
  <1>1. \/ \E p \in DOMAIN syn : SetBaseline(p, syn) \/ ClickGroup(syn[p].index)
        \/ SetHeatmapModel \/ FilterTests(syn) \/ ToggleBucket(syn) \/ SetComparisonCharts(syn)
        \/ SortComparison(syn) \/ CompareTo(syn) \/ TurnComparison(syn) \/ OrderHeatmap
        \/ \E t \in CgTests(syn) : OpenCgTest(t)
    BY DEF ResultHandlers
  <1> HIDE DEF syn
  <1>2. ASSUME NEW patch, CgGo(patch), DOMAIN patch \subseteq Other PROVE GroupsInv'
    BY <1>2, GoKeeps
  <1>3. ASSUME NEW view, LookAt(view) PROVE GroupsInv'
    BY <1>3 DEF LookAt, GroupsInv
  <1>4. ASSUME NEW p, SetBaseline(p, syn) PROVE GroupsInv'
    <2>1. PICK b : CgGo([baseline |-> b])
      BY <1>4 DEF SetBaseline
    <2> QED
      BY <1>2, <2>1, ParametersAre
  <1>5. ASSUME SetHeatmapModel PROVE GroupsInv'
    <2>1. \E v : \/ CgGo([metric |-> v]) \/ CgGo([color |-> v])
                 \/ CgGo([threshold |-> v]) \/ CgGo([slow |-> v])
      BY <1>5 DEF SetHeatmapModel
    <2> QED
      BY <1>2, <2>1, ParametersAre
  <1>6. ASSUME FilterTests(syn) PROVE GroupsInv'
    <2>1. \E v : CgGo([filter |-> v]) \/ CgGo([regex |-> v])
      BY <1>6 DEF FilterTests
    <2> QED
      BY <1>2, <2>1, ParametersAre
  <1>7. ASSUME ToggleBucket(syn) PROVE GroupsInv'
    <2>1. \E v : CgGo([buckets |-> v])
      BY <1>7 DEF ToggleBucket
    <2> QED
      BY <1>2, <2>1, ParametersAre
  <1>8. ASSUME SetComparisonCharts(syn) PROVE GroupsInv'
    <2>1. \E v : CgGo([chart |-> v]) \/ CgGo([diff |-> v])
      BY <1>8 DEF SetComparisonCharts
    <2> QED
      BY <1>2, <2>1, ParametersAre
  <1>9. ASSUME SortComparison(syn) PROVE GroupsInv'
    <2>1. PICK c : /\ cgUrl' = [cgUrl EXCEPT !.sort = c,
                                             !.dir = IF c = cgUrl.sort THEN Flip(@) ELSE "asc"]
                   /\ cgIndex' = cgIndex
      BY <1>9 DEF SortComparison
    <2>2. DOMAIN cgUrl = DOMAIN CgDefaults /\ cgUrl = [k \in DOMAIN CgDefaults |-> cgUrl[k]]
      BY DEF GroupsInv
    <2> DEFINE d == IF c = cgUrl.sort THEN Flip(cgUrl.dir) ELSE "asc"
    <2>3. cgUrl' = [k \in DOMAIN CgDefaults |->
                      IF k = "dir" THEN d ELSE IF k = "sort" THEN c ELSE cgUrl[k]]
      BY <2>1, <2>2, ParametersAre DEF Other
    <2> HIDE DEF d
    <2> DEFINE patch == [k \in {"sort", "dir"} |-> IF k = "dir" THEN d ELSE c]
    <2>4. DOMAIN patch \subseteq Other
      BY ParametersAre
    <2>5. cgUrl' = Over(patch, cgUrl)
      BY <2>2, <2>3, ParametersAre DEF Over, Other
    <2>6. cgIndex' \in 0..Len(CgIndexes)
      BY <2>1 DEF GroupsInv
    <2> HIDE DEF patch
    <2> QED
      BY <2>4, <2>5, <2>6, OthersKeep
  <1>10. ASSUME CompareTo(syn) PROVE GroupsInv'
    <2>1. PICK b : CgGo([tableBase |-> b])
      BY <1>10 DEF CompareTo
    <2> QED
      BY <1>2, <2>1, ParametersAre
  <1>11. ASSUME NEW t, OpenCgTest(t) PROVE GroupsInv'
    BY <1>2, <1>11, ParametersAre DEF OpenCgTest
  <1> QED
    BY <1>1, <1>3, <1>4, <1>5, <1>6, <1>7, <1>8, <1>9, <1>10, <1>11
    DEF ClickGroup, TurnComparison, OrderHeatmap

LEMMA GroupsInvStep == GroupsInv /\ [CgNext]_cgVars => GroupsInv'
  <1> SUFFICES ASSUME GroupsInv, [CgNext]_cgVars PROVE GroupsInv'
    OBVIOUS
  <1>1. ASSUME PollCg PROVE GroupsInv'
    <2>1. Len(CgIndexes) \in Nat
      <3>1. CgIndexes \in Seq(Seq(DOMAIN CgRows))
        BY GroupsAssumption
      <3> QED
        BY <3>1
    <2>2. cgUrl' = cgUrl /\ cgIndex' \in 0..Len(CgIndexes)
      BY <1>1, <2>1 DEF PollCg, GroupsInv
    <2> QED
      BY <2>2 DEF GroupsInv
  <1>2. CASE AnswerQuery
    BY <1>2 DEF AnswerQuery, GroupsInv
  <1>3. ASSUME NEW s \in CgSuites \cup {None}, ChooseCgSuite(s) PROVE GroupsInv'
    <2> DEFINE S == {Group("", NoMeta, None)}
    <2>1. <<>> \in Seq(S)
      OBVIOUS
    <2>2. \A g \in S : IsGroup(g)
      BY MadeGroups
    <2> HIDE DEF S
    <2>3. cgUrl' = [cgUrl EXCEPT !.suite = s, !.groups = <<>>] /\ cgIndex' = cgIndex
      BY <1>3 DEF ChooseCgSuite
    <2> QED
      BY <2>1, <2>2, <2>3, GroupsKeep
  <1>4. ASSUME NEW n \in CgSamples, SetSample(n) PROVE GroupsInv'
    <2>1. cgUrl' = Over([sample |-> n], cgUrl) /\ cgIndex' = cgIndex
      BY <1>4 DEF SetSample, CgGo
    <2>2. DOMAIN cgUrl = DOMAIN CgDefaults
      BY DEF GroupsInv
    <2>3. cgUrl' = [k \in DOMAIN CgDefaults |-> IF k = "sample" THEN n ELSE cgUrl[k]]
      BY <2>1, <2>2, ParametersAre DEF Over
    <2>4. cgUrl'.suite = cgUrl.suite /\ cgUrl'.groups = cgUrl.groups /\ cgUrl'.sample = n
      BY <2>3, ParametersAre
    <2>5. cgUrl' = [k \in DOMAIN CgDefaults |-> cgUrl'[k]]
      BY <2>3
    <2>6. n \in Nat
      BY GroupsAssumption
    <2> QED
      BY <2>1, <2>4, <2>5, <2>6 DEF GroupsInv
  <1>5. ASSUME NEW m, SetAgg(m) PROVE GroupsInv'
    BY <1>5, GoKeeps, ParametersAre DEF SetAgg
  <1>6. ASSUME ModalHandlers PROVE GroupsInv'
    <2>1. ASSUME NEW modal, InModal(modal) PROVE GroupsInv'
      BY <2>1 DEF InModal, GroupsInv
    <2>2. ASSUME CloseCgTest PROVE GroupsInv'
      BY <2>2, GoKeeps, ParametersAre DEF CloseCgTest
    <2> QED
      BY <1>6, <2>1, <2>2 DEF ModalHandlers, ExpandGroup, PickRow, SortRows, ClearPicks
  <1>7. ASSUME UNCHANGED cgVars PROVE GroupsInv'
    BY <1>7 DEF cgVars, GroupsInv
  <1> QED
    BY <1>1, <1>2, <1>3, <1>4, <1>5, <1>6, <1>7, AddGroupKeeps, GroupHandlersKeep,
       ResultHandlersKeep DEF CgNext

\* Every handler of the comparison of groups leaves a suite, groups and a sample
\* in the URL (CompareGroupsPage.tsx updateSearch).
THEOREM GroupsInvariant == CgSpec => []GroupsInv
  BY InitGroups, GroupsInvStep, PTL DEF CgSpec

-----------------------------------------------------------------------------
(* The boxes of the runs. *)

LEMMA IndexesAre ==
  /\ Len(CgIndexes) \in Nat /\ DOMAIN CgIndexes = 1..Len(CgIndexes)
  /\ \A i \in 1..Len(CgIndexes) : CgIndexes[i] \in Seq(DOMAIN CgRows)
  <1>1. CgIndexes \in Seq(Seq(DOMAIN CgRows))
    BY GroupsAssumption
  <1> QED
    BY <1>1

\* The runs of a suite are a sequence, whatever poll and suite.
LEMMA NewestAreSomeSeq ==
  ASSUME NEW i \in 0..Len(CgIndexes), NEW s \in CgSuites \cup {None}
  PROVE  \E S : NewestOfSuite[i][s] \in Seq(S)
  <1> DEFINE rs == RunsOfSuite[i][s]
             t == NewestOfSuite[i][s]
             some == {r \in DOMAIN CgRows : CgRows[r].suite = s}
  <1>1. rs = IF i = 0 THEN <<>> ELSE Among(CgIndexes[i], some)
    BY DEF RunsOfSuite
  <1> HIDE DEF some
  <1>2. rs \in Seq(DOMAIN CgRows)
    <2> HIDE DEF rs
    <2>1. CASE i = 0
      BY <1>1, <2>1
    <2>2. CASE i # 0
      <3>1. CgIndexes[i] \in Seq(DOMAIN CgRows)
        BY <2>2, IndexesAre
      <3>2. Among(CgIndexes[i], some) \in Seq(DOMAIN CgRows)
        BY <3>1, AmongMembers
      <3> QED
        BY <1>1, <2>2, <3>2
    <2> QED
      BY <2>1, <2>2
  <1> DEFINE n == Len(rs)
  <1>3. n \in Nat /\ DOMAIN rs = 1..n
    BY <1>2
  <1>4. t = [j \in 1..n |-> t[j]]
    <2>1. t = NewestFirst(rs)
      BY DEF NewestOfSuite
    <2> HIDE DEF t, rs
    <2> DEFINE Later(a, b) == CgRows[b].start < CgRows[a].start
               At(j) == 1 + Cardinality({l \in DOMAIN rs :
                             Later(rs[l], rs[j]) \/ (l < j /\ ~Later(rs[j], rs[l]))})
               places == [j \in DOMAIN rs |-> At(j)]
               F == [k \in DOMAIN rs |-> rs[CHOOSE j \in DOMAIN rs : places[j] = k]]
    <2>2. t = SubSeq(F, 1, n)
      BY <2>1 DEF NewestFirst, Sorted, Quantify
    <2>3. F = [k \in DOMAIN rs |-> F[k]]
      OBVIOUS
    <2> HIDE DEF n, F
    <2> QED
      BY <1>3, <2>2, <2>3, WholeSeq
  <1> DEFINE S == {t[j] : j \in 1..n}
  <1>5. t \in Seq(S)
    BY <1>3, <1>4
  <1> HIDE DEF S
  <1> QED
    BY <1>5

LEMMA MatchedAreRuns ==
  ASSUME NEW i \in 0..Len(CgIndexes), NEW s \in CgSuites \cup {None}, NEW g
  PROVE  MatchedAt(i, s, g) \in Seq(DOMAIN CgRows)
  <1>1. PICK S : NewestOfSuite[i][s] \in Seq(S)
    BY NewestAreSomeSeq
  <1> DEFINE m == MatchedAt(i, s, g)
             rs == {r \in DOMAIN CgRows : Matches(r, g)}
  <1>2. m = Among(NewestOfSuite[i][s], rs)
    BY DEF MatchedAt
  <1>3. rs \subseteq DOMAIN CgRows
    OBVIOUS
  <1> HIDE DEF m, rs
  <1>4. m \in Seq(S) /\ ToSet(m) \subseteq rs
    <2>1. /\ Among(NewestOfSuite[i][s], rs) \in Seq(S)
          /\ ToSet(Among(NewestOfSuite[i][s], rs)) = ToSet(NewestOfSuite[i][s]) \cap rs
      BY <1>1, AmongMembers
    <2> QED
      BY <1>2, <2>1
  <1>5. Len(m) \in Nat /\ m = [j \in 1..Len(m) |-> m[j]] /\ DOMAIN m = 1..Len(m)
    BY <1>4
  <1>6. \A j \in 1..Len(m) : m[j] \in DOMAIN CgRows
    BY <1>3, <1>4, <1>5 DEF ToSet
  <1>7. m \in Seq(DOMAIN CgRows)
    BY <1>5, <1>6
  <1> QED
    BY <1>7 DEF m

LEMMA SampleIsPart ==
  ASSUME NEW S, NEW m \in Seq(S), NEW n \in Nat
  PROVE  Automatic(m, n) \in Seq(S) /\ ToSet(Automatic(m, n)) \subseteq ToSet(m)
  <1>1. Len(m) \in Nat
    OBVIOUS
  <1>2. Min({n, Len(m)}) \in 0..Len(m)
    BY <1>1, MinOfTwo
  <1> QED
    BY <1>2, FirstOfSeq DEF Automatic

LEMMA SelectedArePart ==
  ASSUME NEW S, NEW m \in Seq(S), NEW n \in Nat, NEW g
  PROVE  /\ SelectGroupRuns(g, m, n) \in Seq(S)
         /\ ToSet(SelectGroupRuns(g, m, n)) \subseteq ToSet(m)
  <1>1. /\ Automatic(m, n) \in Seq(S) /\ ToSet(Automatic(m, n)) \subseteq ToSet(m)
    BY SampleIsPart
  <1>2. /\ Among(m, g.runs) \in Seq(S)
        /\ ToSet(Among(m, g.runs)) = ToSet(m) \cap g.runs
    BY AmongMembers
  <1> QED
    BY <1>1, <1>2 DEF SelectGroupRuns

\* Whether the runs that are to be lit become the choice or are the sample, they
\* are lit (groupUtils.ts setGroupRuns).
ChoiceOf(m, n, want) ==
    IF want = ToSet(Automatic(m, n)) THEN None ELSE want \cap ToSet(m)

LEMMA WantedAreLit ==
  ASSUME NEW m \in Seq(DOMAIN CgRows), NEW n \in Nat, NEW want \in SUBSET ToSet(m),
         NEW g, g.runs = ChoiceOf(m, n, want)
  PROVE  ToSet(SelectGroupRuns(g, m, n)) = want
  <1>1. ToSet(m) \subseteq DOMAIN CgRows
    BY DEF ToSet
  <1>2. CASE want = ToSet(Automatic(m, n))
    BY <1>2 DEF SelectGroupRuns, ChoiceOf
  <1>3. CASE want # ToSet(Automatic(m, n))
    <2>1. g.runs = want
      BY <1>3 DEF ChoiceOf
    <2>2. want # None
      <3>1. want \in SUBSET DOMAIN CgRows
        BY <1>1
      <3> QED
        BY <3>1, GroupsAssumption
    <2>3. SelectGroupRuns(g, m, n) = Among(m, want)
      BY <2>1, <2>2 DEF SelectGroupRuns
    <2>4. ToSet(Among(m, want)) = ToSet(m) \cap want
      BY AmongMembers
    <2> QED
      BY <2>3, <2>4
  <1> QED
    BY <1>2, <1>3

\* A range of a list is part of the list.
LEMMA BetweenIsPart ==
  ASSUME NEW S, NEW s \in Seq(S), NEW a \in ToSet(s), NEW b \in ToSet(s)
  PROVE  ToSet(Between(s, a, b)) \subseteq ToSet(s)
  <1> DEFINE i == Place(a, s)
             j == Place(b, s)
  <1>1. i \in DOMAIN s /\ j \in DOMAIN s
    BY DEF Place, ToSet
  <1>2. i \in 1..Len(s) /\ j \in 1..Len(s)
    BY <1>1
  <1>3. Between(s, a, b) = SubSeq(s, Min({i, j}), Max({i, j}))
    BY DEF Between
  <1> HIDE DEF i, j
  <1>4. Min({i, j}) \in 1..Len(s) /\ Max({i, j}) \in 1..Len(s)
    BY <1>2, MinOfTwo, MaxOfTwo
  <1>5. PICK lo, hi \in 1..Len(s) : Between(s, a, b) = SubSeq(s, lo, hi)
    BY <1>3, <1>4
  <1> DEFINE t == SubSeq(s, lo, hi)
  <1>6. \A k \in DOMAIN t : t[k] = s[lo + k - 1] /\ lo + k - 1 \in DOMAIN s
    OBVIOUS
  <1> QED
    BY <1>5, <1>6 DEF ToSet

\* The runs of a click are runs of the card.
LEMMA ClickedArePart ==
  ASSUME GroupsInv, NEW gi, NEW r \in ToSet(Matched(cgUrl.groups[gi])), NEW shift
  PROVE  ClickedRuns(gi, r, shift) \subseteq ToSet(Matched(cgUrl.groups[gi]))
  <1> DEFINE m == Matched(cgUrl.groups[gi])
  <1>1. m \in Seq(DOMAIN CgRows)
    BY MatchedAreRuns DEF GroupsInv, Matched
  <1>2. CASE shift /\ Anchored(gi)
    <2>1. cgView.anchors[gi] \in ToSet(m)
      BY <1>2 DEF Anchored, Contains, ToSet
    <2>2. ClickedRuns(gi, r, shift) = ToSet(Between(m, cgView.anchors[gi], r))
      BY <1>2 DEF ClickedRuns
    <2> QED
      BY <1>1, <2>1, <2>2, BetweenIsPart
  <1>3. CASE ~(shift /\ Anchored(gi))
    BY <1>3 DEF ClickedRuns
  <1> QED
    BY <1>2, <1>3

\* What a click makes of the runs of all groups.
LEMMA ClickSets ==
  ASSUME GroupsInv, NEW gi \in DOMAIN cgUrl.groups, NEW r, NEW shift \in BOOLEAN,
         ClickRunBox(gi, r, shift)
  PROVE  /\ ToSet(GroupRunsAt(cgIndex', cgUrl')[gi])
              = IF Included(gi, r, shift) THEN Lit(gi) \cup ClickedRuns(gi, r, shift)
                ELSE Lit(gi) \ ClickedRuns(gi, r, shift)
         /\ \A other \in DOMAIN cgUrl.groups \ {gi} :
              ToSet(GroupRunsAt(cgIndex', cgUrl')[other]) = Lit(other)
  <1> DEFINE g == cgUrl.groups[gi]
             now == SetGroupRuns(g, Matched(g), cgUrl.sample, ClickedRuns(gi, r, shift),
                                 Included(gi, r, shift))
             groups == [cgUrl.groups EXCEPT ![gi] = now]
  <1>1. IsGroup(g)
    BY DEF GroupsInv, GroupSeq
  <1>2. DOMAIN cgUrl = DOMAIN CgDefaults /\ cgUrl = [k \in DOMAIN CgDefaults |-> cgUrl[k]]
    BY DEF GroupsInv
  <1>3. cgUrl' = [cgUrl EXCEPT !.groups[gi] = now] /\ cgIndex' = cgIndex
    BY DEF ClickRunBox
  <1>4. Matched(g) \in Seq(DOMAIN CgRows)
    BY MatchedAreRuns DEF GroupsInv, Matched
  <1>5. ClickedRuns(gi, r, shift) \subseteq ToSet(Matched(g))
    <2>1. r \in ToSet(Matched(g))
      BY DEF ClickRunBox
    <2> QED
      BY <2>1, ClickedArePart
  <1> DEFINE m == Matched(g)
             was == ToSet(SelectGroupRuns(g, m, cgUrl.sample))
             want == IF Included(gi, r, shift) THEN was \cup ClickedRuns(gi, r, shift)
                     ELSE was \ ClickedRuns(gi, r, shift)
  <1>6. now.client = g.client /\ now.meta = g.meta
        /\ ToSet(SelectGroupRuns(now, m, cgUrl.sample)) = want
    <2>1. cgUrl.sample \in Nat
      BY DEF GroupsInv
    <2>2. was \subseteq ToSet(m)
      BY <1>4, <2>1, SelectedArePart
    <2>3. want \subseteq ToSet(m)
      BY <1>5, <2>2
    <2> DEFINE rs == ChoiceOf(m, cgUrl.sample, want)
    <2>4. now = [g EXCEPT !.runs = rs]
      BY DEF SetGroupRuns, ChoiceOf
    <2>5. m \in Seq(DOMAIN CgRows)
      BY <1>4
    <2> HIDE DEF g, m, now, want
    <2>6. now.client = g.client /\ now.meta = g.meta /\ now.runs = rs
      <3> HIDE DEF rs
      <3>1. now = Group(g.client, g.meta, rs)
        BY <1>1, <2>4, WithRunsIs
      <3> QED
        BY <3>1 DEF Group
    <2>7. want \in SUBSET ToSet(m)
      BY <2>3
    <2>8. ToSet(SelectGroupRuns(now, m, cgUrl.sample)) = want
      BY <2>1, <2>5, <2>6, <2>7, WantedAreLit
    <2> QED
      BY <2>6, <2>8
  <1> HIDE DEF now
  <1>7. cgUrl'.suite = cgUrl.suite /\ cgUrl'.sample = cgUrl.sample /\ cgUrl'.groups = groups
    BY <1>2, <1>3, ParametersAre
  <1>8. /\ DOMAIN groups = DOMAIN cgUrl.groups /\ groups[gi] = now
        /\ \A other \in DOMAIN cgUrl.groups \ {gi} : groups[other] = cgUrl.groups[other]
    <2>1. PICK S : cgUrl.groups \in Seq(S)
      BY DEF GroupsInv, GroupSeq
    <2> QED
      BY <2>1
  <1> HIDE DEF groups
  <1>9. MatchedAt(cgIndex, cgUrl.suite, now) = Matched(g)
    BY <1>6 DEF MatchedAt, Matched, Matches
  <1> DEFINE lit == GroupRunsAt(cgIndex', cgUrl')
  <1>10. \A x \in DOMAIN cgUrl.groups :
           lit[x] = SelectGroupRuns(groups[x], MatchedAt(cgIndex, cgUrl.suite, groups[x]), cgUrl.sample)
    BY <1>3, <1>7, <1>8 DEF GroupRunsAt
  <1>11. \A x \in DOMAIN cgUrl.groups :
           Lit(x) = ToSet(SelectGroupRuns(cgUrl.groups[x], Matched(cgUrl.groups[x]), cgUrl.sample))
    BY DEF Lit, RunsOf, GroupRuns, GroupRunsAt, Matched
  <1> HIDE DEF lit
  <1>12. ToSet(lit[gi]) = IF Included(gi, r, shift) THEN Lit(gi) \cup ClickedRuns(gi, r, shift)
                          ELSE Lit(gi) \ ClickedRuns(gi, r, shift)
    BY <1>6, <1>8, <1>9, <1>10, <1>11
  <1>13. \A other \in DOMAIN cgUrl.groups \ {gi} : ToSet(lit[other]) = Lit(other)
    BY <1>8, <1>10, <1>11 DEF Matched
  <1> QED
    BY <1>12, <1>13 DEF lit

\* A click on a box lights or puts out the runs it is on, up to the anchor with
\* Shift, and no others (GroupBuilder.tsx; groupUtils.ts setGroupRuns).
THEOREM BoxesDoAsClicked == CgSpec => BoxesFollowClicks
  <1> DEFINE Follow == (/\ cgUrl.modal = None /\ cgIndex' = cgIndex /\ cgLoaded' \subseteq cgLoaded
                        /\ cgUrl' = [cgUrl EXCEPT !.groups = cgUrl'.groups]) =>
       \A gi \in DOMAIN cgUrl.groups : \A r \in CgMayClick, shift \in BOOLEAN :
          ClickRunBox(gi, r, shift) => \A lit \in {GroupRunsAt(cgIndex', cgUrl')} :
            /\ ToSet(lit[gi]) = IF Included(gi, r, shift) THEN Lit(gi) \cup ClickedRuns(gi, r, shift)
                                ELSE Lit(gi) \ ClickedRuns(gi, r, shift)
            /\ \A other \in DOMAIN cgUrl.groups \ {gi} : ToSet(lit[other]) = Lit(other)
  <1>1. ASSUME GroupsInv PROVE Follow
    <2> SUFFICES ASSUME NEW gi \in DOMAIN cgUrl.groups, NEW r \in CgMayClick, NEW shift \in BOOLEAN,
                        ClickRunBox(gi, r, shift), NEW lit \in {GroupRunsAt(cgIndex', cgUrl')}
                 PROVE  /\ ToSet(lit[gi]) = IF Included(gi, r, shift) THEN Lit(gi) \cup ClickedRuns(gi, r, shift)
                                            ELSE Lit(gi) \ ClickedRuns(gi, r, shift)
                        /\ \A other \in DOMAIN cgUrl.groups \ {gi} : ToSet(lit[other]) = Lit(other)
      BY Zenon
    <2>1. lit = GroupRunsAt(cgIndex', cgUrl')
      OBVIOUS
    <2> QED
      BY <1>1, <2>1, ClickSets
  <1>2. GroupsInv => [Follow]_cgVars
    BY <1>1
  <1> QED
    BY <1>2, GroupsInvariant, PTL DEF BoxesFollowClicks

-----------------------------------------------------------------------------
(* The results of a group, in the list of all results. *)

\* h begins with v0 and goes on by F[i] at each i up to k.
GoesOn(h, k, v0, F) == h[0] = v0 /\ \A i \in 1..k : h[i] = F[i][h[i - 1]]
CanGoOn(k, V, v0, F) == \E h \in [0..k -> V] : GoesOn(h, k, v0, F)

LEMMA GoesOneOn ==
  ASSUME NEW V, NEW v0 \in V, NEW n \in Nat, NEW F \in [1..n -> [V -> V]], NEW k \in 1..n,
         CanGoOn(k - 1, V, v0, F)
  PROVE  CanGoOn(k, V, v0, F)
  <1>1. PICK h \in [0..(k - 1) -> V] : GoesOn(h, k - 1, v0, F)
    BY DEF CanGoOn
  <1> DEFINE g == [i \in 0..k |-> IF i = k THEN F[k][h[k - 1]] ELSE h[i]]
  <1>2. \A i \in 0..k : i # k => i \in 0..(k - 1)
    OBVIOUS
  <1>3. k - 1 \in 0..(k - 1) /\ F[k] \in [V -> V]
    OBVIOUS
  <1>4. F[k][h[k - 1]] \in V
    BY <1>1, <1>3
  <1>5. g \in [0..k -> V]
    BY <1>1, <1>2, <1>4
  <1>6. \A i \in 0..k : g[i] = IF i = k THEN F[k][h[k - 1]] ELSE h[i]
    OBVIOUS
  <1> HIDE DEF g
  <1>7. g[0] = v0
    BY <1>1, <1>6 DEF GoesOn
  <1>8. ASSUME NEW i \in 1..k PROVE g[i] = F[i][g[i - 1]]
    <2>1. i \in 0..k /\ i - 1 \in 0..k /\ i - 1 # k
      OBVIOUS
    <2>2. g[i - 1] = h[i - 1]
      BY <1>6, <2>1
    <2>3. CASE i = k
      BY <1>6, <2>1, <2>2, <2>3
    <2>4. CASE i # k
      <3>1. i \in 1..(k - 1)
        BY <2>4
      <3>2. h[i] = F[i][h[i - 1]]
        BY <1>1, <3>1 DEF GoesOn
      <3> QED
        BY <1>6, <2>1, <2>2, <2>4, <3>2
    <2> QED
      BY <2>3, <2>4
  <1>9. GoesOn(g, k, v0, F)
    BY <1>7, <1>8 DEF GoesOn
  <1> QED
    BY <1>5, <1>9 DEF CanGoOn

LEMMA Iterates ==
  ASSUME NEW V, NEW v0 \in V, NEW n \in Nat, NEW F \in [1..n -> [V -> V]]
  PROVE  CanGoOn(n, V, v0, F)
  <1> DEFINE T == {k \in 0..n : CanGoOn(k, V, v0, F)}
  <1>1. 0 \in T
    <2> DEFINE h == [i \in 0..0 |-> v0]
    <2>1. h \in [0..0 -> V] /\ h[0] = v0
      OBVIOUS
    <2> HIDE DEF h
    <2>2. CanGoOn(0, V, v0, F)
      BY <2>1 DEF CanGoOn, GoesOn
    <2> QED
      BY <2>2
  <1>2. ASSUME NEW k \in 1..n, k - 1 \in T PROVE k \in T
    <2>1. CanGoOn(k, V, v0, F)
      BY <1>2, GoesOneOn
    <2> QED
      BY <2>1
  <1> HIDE DEF T
  <1>3. \A i \in 0..n : i \in T
    BY <1>1, <1>2, UpwardsFromZero
  <1>4. n \in 0..n
    OBVIOUS
  <1> QED
    BY <1>3, <1>4 DEF T


\* What flat() has made of the first groups, and the results before a group.
Flattens(f, runs, S) ==
    /\ f[0] = <<>> /\ \A i \in 1..Len(runs) : f[i] = f[i - 1] \o runs[i]
    /\ \A i \in 0..Len(runs) : f[i] \in Seq(S)
    /\ Flat(runs) = f[Len(runs)]
Counts(f, runs) ==
    /\ f[0] = 0 /\ \A i \in 1..Len(runs) : f[i] = f[i - 1] + Len(runs[i])
    /\ \A i \in 0..Len(runs) : f[i] \in Nat
    /\ \A gi \in 1..Len(runs) : Offset(gi, runs) = f[gi - 1]

LEMMA FlatIs ==
  ASSUME NEW S, NEW runs \in Seq(Seq(S))
  PROVE  \E f : Flattens(f, runs, S)
  <1> DEFINE n == Len(runs)
             Rule(f) == [i \in 0..n |-> IF i = 0 THEN <<>> ELSE f[i - 1] \o runs[i]]
             F == [i \in 1..n |-> [v \in Seq(S) |-> v \o runs[i]]]
  <1>1. n \in Nat /\ <<>> \in Seq(S) /\ \A i \in 1..n : runs[i] \in Seq(S)
    OBVIOUS
  <1>2. F \in [1..n -> [Seq(S) -> Seq(S)]]
    BY <1>1
  <1>3. \A i \in 1..n : \A v \in Seq(S) : F[i][v] = v \o runs[i]
    OBVIOUS
  <1>4. \A i \in 1..n : i \in 0..n /\ i - 1 \in 0..n /\ i # 0
    BY <1>1
  <1>5. 0 \in 0..n /\ \A i \in 0..n : i = 0 \/ i \in 1..n
    BY <1>1
  <1> HIDE DEF F, n
  <1>6. CanGoOn(n, Seq(S), <<>>, F)
    BY <1>1, <1>2, Iterates
  <1>7. PICK h \in [0..n -> Seq(S)] : GoesOn(h, n, <<>>, F)
    BY <1>6 DEF CanGoOn
  <1>8. ASSUME NEW i \in 1..n PROVE h[i] = h[i - 1] \o runs[i]
    <2>1. h[i - 1] \in Seq(S)
      BY <1>4
    <2>2. h[i] = F[i][h[i - 1]]
      BY <1>7 DEF GoesOn
    <2> QED
      BY <1>3, <2>1, <2>2
  <1>9. h = Rule(h)
    <2>1. h[0] = <<>>
      BY <1>7 DEF GoesOn
    <2>2. \A i \in 0..n : h[i] = Rule(h)[i]
      BY <1>5, <1>8, <2>1
    <2>3. h = [i \in 0..n |-> h[i]]
      OBVIOUS
    <2> HIDE DEF Rule
    <2>4. h = [i \in 0..n |-> Rule(h)[i]]
      BY <2>2, <2>3
    <2> QED
      BY <2>4 DEF Rule
  <1>10. PICK f : f = Rule(f) /\ Flat(runs) = f[n]
    BY <1>9 DEF Flat, n
  <1>11. \A i \in 0..n : f[i] = Rule(f)[i]
    BY <1>10
  <1>12. f[0] = <<>>
    BY <1>5, <1>11
  <1>13. ASSUME NEW i \in 1..n PROVE f[i] = f[i - 1] \o runs[i]
    BY <1>4, <1>11
  <1> DEFINE T == {i \in 0..n : f[i] \in Seq(S)}
  <1>14. 0 \in T
    BY <1>1, <1>5, <1>12
  <1>15. ASSUME NEW i \in 1..n, i - 1 \in T PROVE i \in T
    <2>1. f[i - 1] \in Seq(S) /\ runs[i] \in Seq(S)
      BY <1>1, <1>15
    <2>2. \A t, u \in Seq(S) : t \o u \in Seq(S)
      OBVIOUS
    <2>3. f[i] \in Seq(S)
      BY <1>13, <2>1, <2>2
    <2> QED
      BY <1>4, <2>3
  <1> HIDE DEF T
  <1>16. \A i \in 0..n : i \in T
    BY <1>1, <1>14, <1>15, UpwardsFromZero
  <1>17. \A i \in 0..n : f[i] \in Seq(S)
    BY <1>16 DEF T
  <1> QED
    BY <1>10, <1>12, <1>13, <1>17 DEF Flattens, n

LEMMA OffsetIs ==
  ASSUME NEW S, NEW runs \in Seq(Seq(S))
  PROVE  \E f : Counts(f, runs)
  <1> DEFINE n == Len(runs)
             Rule(f) == [i \in 0..n |-> IF i = 0 THEN 0 ELSE f[i - 1] + Len(runs[i])]
             F == [i \in 1..n |-> [v \in Nat |-> v + Len(runs[i])]]
  <1>1. n \in Nat /\ 0 \in Nat /\ \A i \in 1..n : Len(runs[i]) \in Nat
    OBVIOUS
  <1>2. F \in [1..n -> [Nat -> Nat]]
    BY <1>1
  <1>3. \A i \in 1..n : \A v \in Nat : F[i][v] = v + Len(runs[i])
    OBVIOUS
  <1>4. \A i \in 1..n : i \in 0..n /\ i - 1 \in 0..n /\ i # 0
    BY <1>1
  <1>5. 0 \in 0..n /\ \A i \in 0..n : i = 0 \/ i \in 1..n
    BY <1>1
  <1> HIDE DEF F, n
  <1>6. CanGoOn(n, Nat, 0, F)
    BY <1>1, <1>2, Iterates
  <1>7. PICK h \in [0..n -> Nat] : GoesOn(h, n, 0, F)
    BY <1>6 DEF CanGoOn
  <1>8. ASSUME NEW i \in 1..n PROVE h[i] = h[i - 1] + Len(runs[i])
    <2>1. h[i - 1] \in Nat
      BY <1>4
    <2>2. h[i] = F[i][h[i - 1]]
      BY <1>7 DEF GoesOn
    <2> QED
      BY <1>3, <2>1, <2>2
  <1>9. h = Rule(h)
    <2>1. h[0] = 0
      BY <1>7 DEF GoesOn
    <2>2. \A i \in 0..n : h[i] = Rule(h)[i]
      BY <1>5, <1>8, <2>1
    <2>3. h = [i \in 0..n |-> h[i]]
      OBVIOUS
    <2> HIDE DEF Rule
    <2>4. h = [i \in 0..n |-> Rule(h)[i]]
      BY <2>2, <2>3
    <2> QED
      BY <2>4 DEF Rule
  <1>10. PICK f : f = Rule(f) /\ \A gi \in 1..n : Offset(gi, runs) = f[gi - 1]
    BY <1>9 DEF Offset, n
  <1>11. \A i \in 0..n : f[i] = Rule(f)[i]
    BY <1>10
  <1>12. f[0] = 0
    BY <1>5, <1>11
  <1>13. ASSUME NEW i \in 1..n PROVE f[i] = f[i - 1] + Len(runs[i])
    BY <1>4, <1>11
  <1> DEFINE T == {i \in 0..n : f[i] \in Nat}
  <1>14. 0 \in T
    BY <1>1, <1>5, <1>12
  <1>15. ASSUME NEW i \in 1..n, i - 1 \in T PROVE i \in T
    <2>1. f[i - 1] \in Nat /\ Len(runs[i]) \in Nat
      BY <1>1, <1>15
    <2>2. f[i] \in Nat
      BY <1>13, <2>1
    <2> QED
      BY <1>4, <2>2
  <1> HIDE DEF T
  <1>16. \A i \in 0..n : i \in T
    BY <1>1, <1>14, <1>15, UpwardsFromZero
  <1>17. \A i \in 0..n : f[i] \in Nat
    BY <1>16 DEF T
  <1> QED
    BY <1>10, <1>12, <1>13, <1>17 DEF Counts, n

\* The p-th of t is x.
Has(t, p, x) == p \in DOMAIN t /\ t[p] = x

LEMMA ConcatHas ==
  ASSUME NEW S, NEW t \in Seq(S), NEW u \in Seq(S)
  PROVE  /\ Len(t \o u) = Len(t) + Len(u)
         /\ \A p, x : Has(t, p, x) => Has(t \o u, p, x)
         /\ \A i \in DOMAIN u : Has(t \o u, Len(t) + i, u[i])
  <1>1. Len(t) \in Nat /\ Len(u) \in Nat /\ DOMAIN t = 1..Len(t) /\ DOMAIN u = 1..Len(u)
    OBVIOUS
  <1>2. /\ Len(t \o u) = Len(t) + Len(u) /\ DOMAIN (t \o u) = 1..(Len(t) + Len(u))
        /\ \A p \in 1..(Len(t) + Len(u)) :
              (t \o u)[p] = IF p <= Len(t) THEN t[p] ELSE u[p - Len(t)]
    OBVIOUS
  <1>3. ASSUME NEW p, NEW x, Has(t, p, x) PROVE Has(t \o u, p, x)
    BY <1>1, <1>2, <1>3 DEF Has
  <1>4. ASSUME NEW i \in DOMAIN u PROVE Has(t \o u, Len(t) + i, u[i])
    <2>1. /\ Len(t) + i \in 1..(Len(t) + Len(u)) /\ ~(Len(t) + i <= Len(t))
          /\ (Len(t) + i) - Len(t) = i
      BY <1>1
    <2> QED
      BY <1>2, <2>1 DEF Has
  <1> QED
    BY <1>2, <1>3, <1>4

\* A group finds its own results in the list of all, whatever groups there are
\* before and after it.
LEMMA FlatHasRuns ==
  ASSUME NEW S, NEW runs \in Seq(Seq(S)), NEW gi \in 1..Len(runs), NEW i \in DOMAIN runs[gi]
  PROVE  Has(Flat(runs), Offset(gi, runs) + i, runs[gi][i])
  <1> DEFINE n == Len(runs)
  <1>1. PICK f : Flattens(f, runs, S)
    BY FlatIs
  <1>2. PICK o : Counts(o, runs)
    BY OffsetIs
  <1>3. n \in Nat /\ \A k \in 1..n : runs[k] \in Seq(S) /\ k \in 0..n /\ k - 1 \in 0..n
    OBVIOUS
  <1>4. /\ f[0] = <<>> /\ o[0] = 0 /\ Flat(runs) = f[n]
        /\ \A k \in 1..n : f[k] = f[k - 1] \o runs[k] /\ o[k] = o[k - 1] + Len(runs[k])
        /\ \A k \in 0..n : f[k] \in Seq(S) /\ o[k] \in Nat
        /\ Offset(gi, runs) = o[gi - 1]
    BY <1>1, <1>2 DEF Flattens, Counts
  <1> HIDE DEF n
  <1> DEFINE T == {k \in 0..n : Len(f[k]) = o[k]}
  <1>5. 0 \in T
    BY <1>3, <1>4
  <1>6. ASSUME NEW k \in 1..n, k - 1 \in T PROVE k \in T
    <2>1. f[k - 1] \in Seq(S) /\ runs[k] \in Seq(S) /\ Len(f[k - 1]) = o[k - 1]
      BY <1>3, <1>4, <1>6
    <2>2. Len(f[k - 1] \o runs[k]) = Len(f[k - 1]) + Len(runs[k])
      BY <2>1, ConcatHas
    <2>3. Len(f[k]) = o[k]
      BY <1>4, <2>1, <2>2
    <2> QED
      BY <1>3, <2>3
  <1> HIDE DEF T
  <1>7. \A k \in 0..n : k \in T
    BY <1>3, <1>5, <1>6, UpwardsFromZero
  <1>8. Len(f[gi - 1]) = o[gi - 1]
    <2>1. gi - 1 \in 0..n
      BY <1>3 DEF n
    <2> QED
      BY <1>7, <2>1 DEF T
  <1> DEFINE p == o[gi - 1] + i
             x == runs[gi][i]
             U == {k \in 0..n : k >= gi => Has(f[k], p, x)}
  <1>9. gi \in 1..n /\ gi - 1 \in 0..n
    BY <1>3 DEF n
  <1> HIDE DEF p, x
  <1>10. 0 \in U
    BY <1>3, <1>9
  <1>11. ASSUME NEW k \in 1..n, k - 1 \in U PROVE k \in U
    <2>1. f[k - 1] \in Seq(S) /\ runs[k] \in Seq(S) /\ f[k] = f[k - 1] \o runs[k] /\ k \in 0..n
      BY <1>3, <1>4
    <2>2. CASE k = gi
      <3>1. Has(f[k - 1] \o runs[k], Len(f[k - 1]) + i, runs[k][i])
        BY <2>1, <2>2, ConcatHas
      <3>2. Has(f[k], p, x)
        BY <1>8, <2>1, <2>2, <3>1 DEF p, x
      <3> QED
        BY <2>1, <3>2
    <2>3. CASE k > gi
      <3>1. Has(f[k - 1], p, x)
        BY <1>3, <1>9, <1>11, <2>3
      <3>2. Has(f[k - 1] \o runs[k], p, x)
        BY <2>1, <3>1, ConcatHas
      <3>3. Has(f[k], p, x)
        BY <2>1, <3>2
      <3> QED
        BY <2>1, <3>3
    <2>4. CASE k < gi
      BY <1>3, <1>9, <2>1, <2>4
    <2> QED
      BY <1>3, <1>9, <2>2, <2>3, <2>4
  <1> HIDE DEF U
  <1>12. \A k \in 0..n : k \in U
    BY <1>3, <1>10, <1>11, UpwardsFromZero
  <1>13. n \in U /\ n >= gi
    BY <1>3, <1>9, <1>12
  <1>14. Has(f[n], p, x)
    BY <1>13 DEF U
  <1> QED
    BY <1>4, <1>14 DEF p, x

\* The runs of the groups are a sequence of sequences of runs.
LEMMA GroupRunsAre ==
  ASSUME GroupsInv
  PROVE  GroupRuns \in Seq(Seq(DOMAIN CgRows))
  <1>1. PICK S : cgUrl.groups \in Seq(S)
    BY DEF GroupsInv, GroupSeq
  <1>2. Len(cgUrl.groups) \in Nat /\ DOMAIN cgUrl.groups = 1..Len(cgUrl.groups)
    BY <1>1
  <1>3. ASSUME NEW gi \in DOMAIN cgUrl.groups PROVE GroupRuns[gi] \in Seq(DOMAIN CgRows)
    <2> DEFINE g == cgUrl.groups[gi]
               m == MatchedAt(cgIndex, cgUrl.suite, g)
    <2>1. m \in Seq(DOMAIN CgRows)
      BY MatchedAreRuns DEF GroupsInv
    <2>2. cgUrl.sample \in Nat
      BY DEF GroupsInv
    <2>3. GroupRuns[gi] = SelectGroupRuns(g, m, cgUrl.sample)
      BY DEF GroupRuns, GroupRunsAt
    <2> HIDE DEF g, m
    <2> QED
      BY <2>1, <2>2, <2>3, SelectedArePart
  <1>4. GroupRuns = [gi \in DOMAIN cgUrl.groups |-> GroupRuns[gi]]
    BY DEF GroupRuns, GroupRunsAt
  <1> QED
    BY <1>2, <1>3, <1>4

\* Once all results are there, the results of a group are those of its runs.
OwnResults(rs) ==
    LET own == Among(rs, {r \in ToSet(rs) : CgResults[r] # None})
    IN [i \in DOMAIN own |-> CgResults[own[i]]]

LEMMA ResultsAreOwn ==
  ASSUME NEW S, NEW runs \in Seq(Seq(S)), HasResultsOf(runs, cgLoaded), NEW gi \in DOMAIN runs
  PROVE  ResultsOf(gi, runs) = OwnResults(runs[gi])
  <1> DEFINE rs == runs[gi]
             flat == Flat(runs)
             at == Offset(gi, runs)
  <1>1. gi \in 1..Len(runs) /\ rs \in Seq(S)
    OBVIOUS
  <1>2. \A i \in DOMAIN rs : Has(flat, at + i, rs[i])
    BY <1>1, FlatHasRuns
  <1>3. [i \in DOMAIN rs |-> flat[at + i]] = rs
    <2> HIDE DEF flat, at, rs
    <2>1. \A i \in DOMAIN rs : flat[at + i] = rs[i]
      BY <1>2 DEF Has
    <2>2. rs = [i \in DOMAIN rs |-> rs[i]]
      BY <1>1
    <2> QED
      BY <2>1, <2>2
  <1>4. ResultsOf(gi, runs) = ArrivedOf(rs)
    BY <1>3 DEF ResultsOf
  <1>5. \A r \in ToSet(rs) : <<"result", r>> \in cgLoaded
    <2>1. ASSUME NEW r \in ToSet(rs) PROVE r \in ToSet(flat)
      <3>1. PICK i \in DOMAIN rs : rs[i] = r
        BY DEF ToSet
      <3>2. Has(flat, at + i, r)
        BY <1>2, <3>1
      <3> HIDE DEF flat, at
      <3> QED
        BY <3>2 DEF Has, ToSet
    <2>2. \A r \in ToSet(flat) : <<"result", r>> \in cgLoaded
      BY DEF HasResultsOf, CgQueriesFor
    <2> QED
      BY <2>1, <2>2
  <1> HIDE DEF rs
  <1>6. {r \in ToSet(rs) : <<"result", r>> \in cgLoaded /\ CgResults[r] # None}
           = {r \in ToSet(rs) : CgResults[r] # None}
    BY <1>5
  <1>7. ArrivedOf(rs) = OwnResults(rs)
    BY <1>6 DEF ArrivedOf, OwnResults
  <1> QED
    BY <1>4, <1>7 DEF rs

\* The p-th of the synthetic runs is the average of the runs of its group.
LEMMA SyntheticIsOwn ==
  ASSUME GroupsInv, NEW p \in DOMAIN Synthetic
  PROVE  Synthetic[p].tests = Averaged(OwnResults(RunsOf(Synthetic[p].index)))
  <1> DEFINE runs == GroupRuns
             results == [gi \in DOMAIN GroupRuns |-> ResultsOf(gi, GroupRuns)]
             shown == {gi \in DOMAIN runs : runs[gi] # <<>> /\ runs[gi][1] \in CgConfigs
                                              /\ results[gi] # <<>>}
             numbers == [gi \in DOMAIN runs |-> gi]
             in == Among(numbers, shown)
  <1>1. runs \in Seq(Seq(DOMAIN CgRows))
    BY GroupRunsAre
  <1>2. Synthetic = IF ~HasResultsOf(runs, cgLoaded) THEN <<>>
                    ELSE [i \in DOMAIN in |-> [index |-> in[i], tests |-> Averaged(results[in[i]])]]
    BY DEF Synthetic, SyntheticOf
  <1>3. in \in Seq(Nat) /\ ToSet(in) \subseteq DOMAIN runs
    <2>1. Len(runs) \in Nat /\ DOMAIN runs = 1..Len(runs)
      BY <1>1
    <2>2. numbers \in Seq(Nat)
      BY <2>1
    <2>3. shown \subseteq DOMAIN runs
      OBVIOUS
    <2> HIDE DEF numbers, shown
    <2>4. in \in Seq(Nat) /\ ToSet(in) = ToSet(numbers) \cap shown
      BY <2>2, AmongMembers
    <2> QED
      BY <2>3, <2>4
  <1>4. \A gi \in DOMAIN runs : results[gi] = ResultsOf(gi, runs)
    OBVIOUS
  <1> HIDE DEF runs, results, in
  <1>5. HasResultsOf(runs, cgLoaded)
    BY <1>2
  <1>6. p \in DOMAIN in
    BY <1>2, <1>5
  <1>7. Synthetic[p] = [index |-> in[p], tests |-> Averaged(results[in[p]])]
    BY <1>2, <1>5, <1>6
  <1>8. Synthetic[p].index = in[p] /\ Synthetic[p].tests = Averaged(results[in[p]])
    BY <1>7
  <1>9. in[p] \in DOMAIN runs
    BY <1>3, <1>6 DEF ToSet
  <1>10. ResultsOf(in[p], runs) = OwnResults(runs[in[p]])
    BY <1>1, <1>5, <1>9, ResultsAreOwn
  <1> QED
    BY <1>4, <1>8, <1>9, <1>10 DEF RunsOf, runs

\* What is compared under a group is the average of its own runs, although all
\* results are in one list (CompareGroupsPage.tsx syntheticRuns).
THEOREM AveragesAreOwn == CgSpec => []AveragesOwnRuns
  <1>1. GroupsInv => AveragesOwnRuns
    BY SyntheticIsOwn DEF AveragesOwnRuns, OwnResults
  <1> QED
    BY <1>1, GroupsInvariant, PTL

-----------------------------------------------------------------------------
(* Sums over sets. *)

OneOf(s) == CHOOSE x \in s : TRUE
Others(s) == s \ {OneOf(s)}

\* g is the sum of f over the subsets of S.
Adds(g, f, S) ==
    /\ g \in [SUBSET S -> Int] /\ g[{}] = 0
    /\ \A s \in SUBSET S : s # {} => g[s] = f[OneOf(s)] + g[Others(s)]

LEMMA OthersAreFewer ==
  ASSUME NEW S, IsFiniteSet(S), NEW s \in SUBSET S, s # {}
  PROVE  /\ OneOf(s) \in s /\ Others(s) \in SUBSET S /\ IsFiniteSet(s) /\ IsFiniteSet(Others(s))
         /\ Cardinality(s) \in Nat \ {0} /\ Cardinality(Others(s)) = Cardinality(s) - 1
         /\ Cardinality(s) <= Cardinality(S)
  <1>1. OneOf(s) \in s
    BY DEF OneOf
  <1>2. IsFiniteSet(s) /\ Cardinality(s) <= Cardinality(S)
    BY FS_Subset
  <1>3. IsFiniteSet(Others(s)) /\ Cardinality(Others(s)) = Cardinality(s) - 1
    BY <1>1, <1>2, FS_RemoveElement DEF Others
  <1>4. Cardinality(s) \in Nat /\ Cardinality(Others(s)) \in Nat
    BY <1>2, <1>3, FS_CardinalityType
  <1> QED
    BY <1>1, <1>2, <1>3, <1>4 DEF Others

\* There is a sum.
LEMMA SumExists ==
  ASSUME NEW S, IsFiniteSet(S), NEW f, \A x \in S : f[x] \in Int
  PROVE  \E g : Adds(g, f, S)
  <1> DEFINE n == Cardinality(S)
             V == [SUBSET S -> Int]
             Once(v) == [s \in SUBSET S |-> IF s = {} THEN 0 ELSE f[OneOf(s)] + v[Others(s)]]
             zero == [s \in SUBSET S |-> 0]
             F == [i \in 1..n |-> [v \in V |-> Once(v)]]
  <1>1. n \in Nat /\ zero \in V
    BY FS_CardinalityType
  <1>2. ASSUME NEW v \in V PROVE Once(v) \in V
    <2>1. ASSUME NEW s \in SUBSET S, s # {} PROVE f[OneOf(s)] + v[Others(s)] \in Int
      <3>1. OneOf(s) \in S /\ Others(s) \in SUBSET S
        BY <2>1, OthersAreFewer
      <3> QED
        BY <3>1
    <2> QED
      BY <2>1
  <1>3. F \in [1..n -> [V -> V]]
    BY <1>2
  <1>4. \A i \in 1..n : \A v \in V : F[i][v] = Once(v)
    OBVIOUS
  <1>5. \A v \in V : \A s \in SUBSET S :
          Once(v)[s] = IF s = {} THEN 0 ELSE f[OneOf(s)] + v[Others(s)]
    OBVIOUS
  <1>6. zero[{}] = 0
    OBVIOUS
  <1> HIDE DEF F, n, zero, Once, V
  <1>7. PICK h \in [0..n -> V] : GoesOn(h, n, zero, F)
    BY <1>1, <1>3, Iterates DEF CanGoOn
  <1>8. ASSUME NEW i \in 1..n PROVE i \in 0..n /\ i - 1 \in 0..n /\ h[i] = Once(h[i - 1])
    BY <1>1, <1>4, <1>7 DEF GoesOn
  <1> DEFINE T == {k \in 0..n : \A s \in SUBSET S :
                     Cardinality(s) <= k => Once(h[k])[s] = h[k][s]}
  <1>9. 0 \in T
    <2>1. ASSUME NEW s \in SUBSET S, Cardinality(s) <= 0 PROVE s = {}
      BY <2>1, OthersAreFewer
    <2>2. h[0] \in V /\ h[0][{}] = 0
      BY <1>1, <1>6, <1>7 DEF GoesOn
    <2>3. Once(h[0])[{}] = 0
      BY <1>5, <2>2
    <2>4. \A s \in SUBSET S : Cardinality(s) <= 0 => Once(h[0])[s] = h[0][s]
      BY <2>1, <2>2, <2>3
    <2>5. 0 \in 0..n
      BY <1>1
    <2> QED
      BY <2>4, <2>5
  <1>10. ASSUME NEW k \in 1..n, k - 1 \in T PROVE k \in T
    <2>1. h[k] \in V /\ h[k - 1] \in V /\ h[k] = Once(h[k - 1])
      BY <1>7, <1>8
    <2>2. ASSUME NEW s \in SUBSET S, Cardinality(s) <= k PROVE Once(h[k])[s] = h[k][s]
      <3>1. CASE s = {}
        BY <1>5, <2>1, <3>1
      <3>2. CASE s # {}
        <4>1. Others(s) \in SUBSET S /\ Cardinality(Others(s)) <= k - 1
          <5>1. Cardinality(Others(s)) = Cardinality(s) - 1 /\ Cardinality(s) \in Nat
            BY <3>2, OthersAreFewer
          <5> QED
            BY <2>2, <3>2, <5>1, OthersAreFewer
        <4>2. Once(h[k - 1])[Others(s)] = h[k - 1][Others(s)]
          BY <1>10, <4>1
        <4>3. h[k][s] = f[OneOf(s)] + h[k - 1][Others(s)]
          BY <1>5, <2>1, <3>2
        <4>4. Once(h[k])[s] = f[OneOf(s)] + h[k][Others(s)]
          BY <1>5, <2>1, <3>2
        <4> QED
          BY <2>1, <4>2, <4>3, <4>4
      <3> QED
        BY <3>1, <3>2
    <2> QED
      BY <1>8, <2>2
  <1> HIDE DEF T
  <1>11. n \in T
    BY <1>1, <1>9, <1>10, UpwardsFromZero
  <1>12. \A s \in SUBSET S : Cardinality(s) <= n
    BY FS_Subset DEF n
  <1>13. h[n] \in V
    BY <1>1, <1>7
  <1>14. ASSUME NEW s \in SUBSET S
         PROVE  h[n][s] = IF s = {} THEN 0 ELSE f[OneOf(s)] + h[n][Others(s)]
    BY <1>5, <1>11, <1>12, <1>13 DEF T
  <1>15. Adds(h[n], f, S)
    BY <1>13, <1>14 DEF Adds, V
  <1> QED
    BY <1>15

\* There is no other.
LEMMA SumIsUnique ==
  ASSUME NEW S, IsFiniteSet(S), NEW f, \A x \in S : f[x] \in Int, NEW g, Adds(g, f, S),
         NEW it, it[{}] = 0,
         \A s \in SUBSET S : s # {} =>
            it[s] \in {f[OneOf(s)] + it[Others(s)], it[Others(s)] + f[OneOf(s)]}
  PROVE  it[S] = g[S]
  <1> DEFINE n == Cardinality(S)
             T == {k \in 0..n : \A s \in SUBSET S : Cardinality(s) <= k => it[s] = g[s]}
  <1>1. n \in Nat
    BY FS_CardinalityType
  <1>2. 0 \in T
    <2>1. ASSUME NEW s \in SUBSET S, Cardinality(s) <= 0 PROVE s = {}
      BY <2>1, OthersAreFewer
    <2>2. \A s \in SUBSET S : Cardinality(s) <= 0 => it[s] = g[s]
      BY <2>1 DEF Adds
    <2> QED
      BY <1>1, <2>2
  <1>3. ASSUME NEW k \in 1..n, k - 1 \in T PROVE k \in T
    <2>1. k \in 0..n
      BY <1>1
    <2>2. ASSUME NEW s \in SUBSET S, Cardinality(s) <= k PROVE it[s] = g[s]
      <3>1. CASE s = {}
        BY <3>1 DEF Adds
      <3>2. CASE s # {}
        <4>1. /\ Others(s) \in SUBSET S /\ OneOf(s) \in S /\ Cardinality(s) \in Nat
              /\ Cardinality(Others(s)) = Cardinality(s) - 1
          BY <3>2, OthersAreFewer
        <4>2. it[Others(s)] = g[Others(s)]
          BY <1>3, <2>2, <4>1
        <4>3. g[Others(s)] \in Int /\ f[OneOf(s)] \in Int /\ g[s] = f[OneOf(s)] + g[Others(s)]
          BY <3>2, <4>1 DEF Adds
        <4>4. it[s] \in {f[OneOf(s)] + it[Others(s)], it[Others(s)] + f[OneOf(s)]}
          BY <3>2
        <4> QED
          BY <4>2, <4>3, <4>4
      <3> QED
        BY <3>1, <3>2
    <2> QED
      BY <2>1, <2>2
  <1> HIDE DEF T
  <1>4. n \in T
    BY <1>1, <1>2, <1>3, UpwardsFromZero
  <1> QED
    BY <1>1, <1>4 DEF T, n

\* The two ways in which the model adds.
Added(f, S) == FoldSet(LAMBDA x, n : n + f[x], 0, S)
Summed(f, S) == MapThenSumSet(LAMBDA x : f[x], S)

LEMMA SumsAre ==
  ASSUME NEW S, IsFiniteSet(S), NEW f, \A x \in S : f[x] \in Int, NEW g, Adds(g, f, S)
  PROVE  Added(f, S) = g[S] /\ Summed(f, S) = g[S]
  <1> DEFINE Plus(h) == [s \in SUBSET S |-> IF s = {} THEN 0
                                            ELSE h[s \ {CHOOSE x \in s : TRUE}] + f[CHOOSE x \in s : TRUE]]
             More(h) == [s \in SUBSET S |-> IF s = {} THEN 0
                                            ELSE f[CHOOSE x \in s : TRUE] + h[s \ {CHOOSE x \in s : TRUE}]]
  <1>1. \A s \in SUBSET S : s # {} => Others(s) \in SUBSET S /\ OneOf(s) \in S
    BY OthersAreFewer
  <1>2. {} \in SUBSET S
    OBVIOUS
  <1>3. \A s \in SUBSET S : g[s] = IF s = {} THEN 0 ELSE f[OneOf(s)] + g[Others(s)]
    BY <1>2 DEF Adds
  <1>4. \A s \in SUBSET S : g[s] = IF s = {} THEN 0 ELSE g[Others(s)] + f[OneOf(s)]
    <2> SUFFICES ASSUME NEW s \in SUBSET S, s # {} PROVE g[s] = g[Others(s)] + f[OneOf(s)]
      BY <1>3
    <2>1. g[Others(s)] \in Int /\ f[OneOf(s)] \in Int
      BY <1>1 DEF Adds
    <2> QED
      BY <1>3, <2>1
  <1>5. g = [s \in SUBSET S |-> g[s]]
    BY DEF Adds
  <1>6. g = More(g)
    BY <1>3, <1>5 DEF OneOf, Others
  <1>7. g = Plus(g)
    BY <1>4, <1>5 DEF OneOf, Others
  <1>8. \E it : it = Plus(it) /\ Added(f, S) = it[S]
    <2>1. (CHOOSE it : it = Plus(it)) = Plus(CHOOSE it : it = Plus(it))
      BY <1>7
    <2> QED
      BY <2>1 DEF Added, FoldSet, MapThenFoldSet
  <1>9. \E it : it = More(it) /\ Summed(f, S) = it[S]
    <2>1. (CHOOSE it : it = More(it)) = More(CHOOSE it : it = More(it))
      BY <1>6
    <2> QED
      BY <2>1 DEF Summed, MapThenSumSet, MapThenFoldSet
  <1>10. PICK it : it = Plus(it) /\ Added(f, S) = it[S]
    BY <1>8
  <1>11. \A s \in SUBSET S : it[s] = IF s = {} THEN 0 ELSE it[Others(s)] + f[OneOf(s)]
    BY <1>10 DEF OneOf, Others
  <1>12. it[S] = g[S]
    <2>1. it[{}] = 0
      BY <1>2, <1>11
    <2>2. \A s \in SUBSET S : s # {} =>
            it[s] \in {f[OneOf(s)] + it[Others(s)], it[Others(s)] + f[OneOf(s)]}
      BY <1>11
    <2> QED
      BY <2>1, <2>2, SumIsUnique
  <1>13. PICK at : at = More(at) /\ Summed(f, S) = at[S]
    BY <1>9
  <1>14. \A s \in SUBSET S : at[s] = IF s = {} THEN 0 ELSE f[OneOf(s)] + at[Others(s)]
    BY <1>13 DEF OneOf, Others
  <1>15. at[S] = g[S]
    <2>1. at[{}] = 0
      BY <1>2, <1>14
    <2>2. \A s \in SUBSET S : s # {} =>
            at[s] \in {f[OneOf(s)] + at[Others(s)], at[Others(s)] + f[OneOf(s)]}
      BY <1>14
    <2> QED
      BY <2>1, <2>2, SumIsUnique
  <1> QED
    BY <1>10, <1>12, <1>13, <1>15

\* Numbers that are not negative add up to one that is not.
LEMMA SumIsNat ==
  ASSUME NEW S, IsFiniteSet(S), NEW f, \A x \in S : f[x] \in Nat, NEW g, Adds(g, f, S)
  PROVE  g[S] \in Nat
  <1> DEFINE n == Cardinality(S)
             T == {k \in 0..n : \A s \in SUBSET S : Cardinality(s) <= k => g[s] \in Nat}
  <1>1. n \in Nat
    BY FS_CardinalityType
  <1>2. 0 \in T
    <2>1. ASSUME NEW s \in SUBSET S, Cardinality(s) <= 0 PROVE s = {}
      BY <2>1, OthersAreFewer
    <2>2. g[{}] = 0
      BY DEF Adds
    <2>3. \A s \in SUBSET S : Cardinality(s) <= 0 => g[s] \in Nat
      BY <2>1, <2>2
    <2> QED
      BY <1>1, <2>3
  <1>3. ASSUME NEW k \in 1..n, k - 1 \in T PROVE k \in T
    <2>1. k \in 0..n
      BY <1>1
    <2>2. ASSUME NEW s \in SUBSET S, Cardinality(s) <= k PROVE g[s] \in Nat
      <3>1. CASE s = {}
        BY <3>1 DEF Adds
      <3>2. CASE s # {}
        <4>1. /\ Others(s) \in SUBSET S /\ OneOf(s) \in S /\ Cardinality(s) \in Nat
              /\ Cardinality(Others(s)) = Cardinality(s) - 1
          BY <3>2, OthersAreFewer
        <4>2. g[Others(s)] \in Nat
          BY <1>3, <2>2, <4>1
        <4>3. f[OneOf(s)] \in Nat /\ g[s] = f[OneOf(s)] + g[Others(s)]
          BY <3>2, <4>1 DEF Adds
        <4> QED
          BY <4>2, <4>3
      <3> QED
        BY <3>1, <3>2
    <2> QED
      BY <2>1, <2>2
  <1> HIDE DEF T
  <1>4. n \in T
    BY <1>1, <1>2, <1>3, UpwardsFromZero
  <1> QED
    BY <1>1, <1>4 DEF T, n

\* Sets without a common member.
LEMMA DisjointAdd ==
  ASSUME NEW U, NEW S, NEW T, IsFiniteSet(S), IsFiniteSet(T), U = S \cup T, S \cap T = {}
  PROVE  Cardinality(U) = Cardinality(S) + Cardinality(T)
  <1>1. Cardinality(S \cup T) = Cardinality(S) + Cardinality(T) - Cardinality(S \cap T)
    BY FS_Union
  <1>2. Cardinality(S \cap T) = 0
    BY FS_EmptySet
  <1>3. Cardinality(S) \in Nat /\ Cardinality(T) \in Nat
    BY FS_CardinalityType
  <1> QED
    BY <1>1, <1>2, <1>3

\* The members of ts that b puts into the bins s; bins counts those of each.
Binned(ts, b, s) == {t \in ts : b[t] \in s}

LEMMA BinsAdd ==
  ASSUME NEW ts, IsFiniteSet(ts), NEW b, NEW S, IsFiniteSet(S), NEW bins,
         \A i \in S : bins[i] = Cardinality(Binned(ts, b, {i}))
  PROVE  Summed(bins, S) = Cardinality(Binned(ts, b, S))
  <1> DEFINE In(s) == Binned(ts, b, s)
             g == [s \in SUBSET S |-> Cardinality(In(s))]
  <1>1. ASSUME NEW s PROVE IsFiniteSet(In(s)) /\ Cardinality(In(s)) \in Nat
    <2>1. In(s) \in SUBSET ts
      BY DEF Binned
    <2> HIDE DEF In
    <2> QED
      BY <2>1, FS_Subset, FS_CardinalityType
  <1>2. g \in [SUBSET S -> Int]
    BY <1>1
  <1>3. g[{}] = 0
    <2>1. In({}) = {}
      BY DEF Binned
    <2>2. {} \in SUBSET S
      OBVIOUS
    <2> HIDE DEF In
    <2> QED
      BY <2>1, <2>2, FS_EmptySet
  <1>4. ASSUME NEW s \in SUBSET S, s # {} PROVE g[s] = bins[OneOf(s)] + g[Others(s)]
    <2>1. OneOf(s) \in s /\ OneOf(s) \in S /\ Others(s) \in SUBSET S
      BY <1>4, OthersAreFewer
    <2> DEFINE one == In({OneOf(s)})
               rest == In(Others(s))
    <2>2. In(s) = one \cup rest /\ one \cap rest = {}
      BY <2>1 DEF Others, Binned
    <2>3. bins[OneOf(s)] = Cardinality(one)
      BY <2>1
    <2>4. g[s] = Cardinality(In(s)) /\ g[Others(s)] = Cardinality(rest)
      BY <2>1
    <2>5. IsFiniteSet(one) /\ IsFiniteSet(rest) /\ Cardinality(one) \in Nat /\ Cardinality(rest) \in Nat
      BY <1>1
    <2> HIDE DEF g, In, one, rest
    <2>6. Cardinality(In(s)) = Cardinality(one) + Cardinality(rest)
      BY <2>2, <2>5, DisjointAdd
    <2> QED
      BY <2>3, <2>4, <2>6
  <1>5. Adds(g, bins, S)
    BY <1>2, <1>3, <1>4 DEF Adds
  <1>6. \A i \in S : bins[i] \in Int
    <2> SUFFICES ASSUME NEW i \in S PROVE bins[i] \in Int
      OBVIOUS
    <2>1. bins[i] = Cardinality(In({i}))
      OBVIOUS
    <2> HIDE DEF In
    <2> QED
      BY <1>1, <2>1
  <1>7. g[S] = Cardinality(In(S))
    OBVIOUS
  <1> HIDE DEF g
  <1> QED
    BY <1>5, <1>6, <1>7, SumsAre

-----------------------------------------------------------------------------
(* Types of the comparison of groups. *)

\* The runs chosen for a group are none, which is the sample, or runs; there is
\* a slot for every group.
RunsFit(g) == g.runs = None \/ g.runs \subseteq DOMAIN CgRows
GroupsFit(groups) ==
    /\ Len(groups) \in Nat /\ Len(groups) <= CgSlots
    /\ \A gi \in DOMAIN groups : RunsFit(groups[gi])
\* Every card has an anchor.
ViewFits(view, groups) ==
    /\ view = [highlight |-> view.highlight, order |-> view.order,
               tablePage |-> view.tablePage, anchors |-> view.anchors]
    /\ DOMAIN view.anchors = DOMAIN groups
ModalFits(modal) ==
    /\ modal = [expanded |-> modal.expanded, picked |-> modal.picked,
                key |-> modal.key, dir |-> modal.dir]
    /\ IsFiniteSet(modal.picked) /\ Cardinality(modal.picked) <= MostPicked
LoadedFits == cgLoaded \subseteq {"config", "result"} \X DOMAIN CgRows
CgFits ==
    /\ GroupsFit(cgUrl.groups) /\ ViewFits(cgView, cgUrl.groups)
    /\ LoadedFits /\ ModalFits(cgModal)

\* A dialog that is opened has picked nothing.
LEMMA NoPicksFit == ModalFits(NoPicks)
  <1>1. IsFiniteSet({}) /\ Cardinality({}) = 0
    BY FS_EmptySet
  <1> QED
    BY <1>1, GroupsAssumption DEF ModalFits, NoPicks

\* What the dialog keeps but for the picked runs may be anything.
LEMMA ModalMade ==
  ASSUME NEW e, NEW p, NEW k, NEW d, IsFiniteSet(p), Cardinality(p) <= MostPicked
  PROVE  ModalFits([expanded |-> e, picked |-> p, key |-> k, dir |-> d])
  BY DEF ModalFits

\* What a dialog is, by its fields.
LEMMA ModalIs ==
  ASSUME NEW modal, ModalFits(modal)
  PROVE  \E e, k, d : /\ modal = [expanded |-> e, picked |-> modal.picked, key |-> k, dir |-> d]
                      /\ IsFiniteSet(modal.picked) /\ Cardinality(modal.picked) <= MostPicked
  BY DEF ModalFits

\* Another set of picked runs.
LEMMA PickedFits ==
  ASSUME NEW modal, ModalFits(modal), NEW p, IsFiniteSet(p), Cardinality(p) <= MostPicked
  PROVE  ModalFits([modal EXCEPT !.picked = p])
  <1>1. PICK e, k, d : modal = [expanded |-> e, picked |-> modal.picked, key |-> k, dir |-> d]
    BY ModalIs
  <1>2. [modal EXCEPT !.picked = p] = [expanded |-> e, picked |-> p, key |-> k, dir |-> d]
    BY <1>1
  <1> QED
    BY <1>2, ModalMade

\* Another set of open groups, or another order of the rows.
LEMMA OtherwiseFits ==
  ASSUME NEW modal, ModalFits(modal), NEW x, NEW y
  PROVE  /\ ModalFits([modal EXCEPT !.expanded = x]) /\ ModalFits([modal EXCEPT !.dir = x])
         /\ ModalFits([modal EXCEPT !.key = y, !.dir = x])
  <1>1. PICK e, p, k, d : /\ modal = [expanded |-> e, picked |-> p, key |-> k, dir |-> d]
                          /\ IsFiniteSet(p) /\ Cardinality(p) <= MostPicked
    BY ModalIs
  <1>2. [modal EXCEPT !.expanded = x] = [expanded |-> x, picked |-> p, key |-> k, dir |-> d]
    BY <1>1
  <1>3. [modal EXCEPT !.dir = x] = [expanded |-> e, picked |-> p, key |-> k, dir |-> x]
    BY <1>1
  <1>4. [modal EXCEPT !.key = y, !.dir = x] = [expanded |-> e, picked |-> p, key |-> y, dir |-> x]
    <2> DEFINE keyed == [modal EXCEPT !.key = y]
    <2>1. keyed = [expanded |-> e, picked |-> p, key |-> y, dir |-> d]
      BY <1>1
    <2>2. [modal EXCEPT !.key = y, !.dir = x] = [keyed EXCEPT !.dir = x]
      OBVIOUS
    <2> HIDE DEF keyed
    <2>3. [keyed EXCEPT !.dir = x] = [expanded |-> e, picked |-> p, key |-> y, dir |-> x]
      BY <2>1
    <2> QED
      BY <2>2, <2>3
  <1>5. /\ ModalFits([expanded |-> x, picked |-> p, key |-> k, dir |-> d])
        /\ ModalFits([expanded |-> e, picked |-> p, key |-> k, dir |-> x])
        /\ ModalFits([expanded |-> e, picked |-> p, key |-> y, dir |-> x])
    BY <1>1, ModalMade
  <1> QED
    BY <1>2, <1>3, <1>4, <1>5

\* The page begins without groups.
LEMMA CgFitsInit == CgInit => CgFits
  <1> SUFFICES ASSUME CgInit PROVE CgFits
    OBVIOUS
  <1>1. cgUrl.groups = <<>> /\ cgLoaded = {} /\ cgModal = NoPicks
    BY DEF CgInit, CgDefaults
  <1>2. GroupsFit(<<>>)
    BY GroupsAssumption DEF GroupsFit
  <1>3. ViewFits(cgView, <<>>)
    BY DEF CgInit, ViewFits
  <1> QED
    BY <1>1, <1>2, <1>3, NoPicksFit DEF CgFits, LoadedFits

\* Queries that are not asked any more are forgotten, and so is the dialog.
LEMMA SettledFits ==
  ASSUME CgFits, CgSettle, GroupsFit(cgUrl'.groups), ViewFits(cgView', cgUrl'.groups)
  PROVE  CgFits'
  <1>1. \E asked : cgLoaded' = cgLoaded \cap asked
    BY DEF CgSettle
  <1>2. cgModal' = cgModal \/ cgModal' = NoPicks
    BY DEF CgSettle
  <1>3. LoadedFits'
    BY <1>1 DEF CgFits, LoadedFits
  <1>4. ModalFits(cgModal')
    BY <1>2, NoPicksFit DEF CgFits
  <1>5. ModalFits(cgModal)'
    BY <1>4 DEF ModalFits
  <1>6. GroupsFit(cgUrl.groups)' /\ ViewFits(cgView, cgUrl.groups)'
    BY DEF GroupsFit, ViewFits, RunsFit
  <1> QED
    BY <1>3, <1>5, <1>6 DEF CgFits

\* A handler that leaves the groups.
LEMMA GroupsStayFit ==
  ASSUME CgFits, CgSettle, cgUrl'.groups = cgUrl.groups, ViewFits(cgView', cgUrl.groups)
  PROVE  CgFits'
  BY SettledFits DEF CgFits

\* A handler that sets parameters.
LEMMA GoFits ==
  ASSUME GroupsInv, CgFits, NEW patch, "groups" \notin DOMAIN patch, CgGo(patch)
  PROVE  CgFits'
  <1>1. cgUrl' = Over(patch, cgUrl) /\ cgView' = cgView /\ CgSettle
    BY DEF CgGo
  <1>2. cgUrl'.groups = cgUrl.groups
    BY <1>1, ParametersAre DEF Over, GroupsInv
  <1> QED
    BY <1>1, <1>2, GroupsStayFit DEF CgFits

\* The anchors of the cards of other groups.
LEMMA AnchorsFit ==
  ASSUME NEW view, NEW groups, ViewFits(view, groups), NEW others, NEW anchors,
         DOMAIN anchors = DOMAIN others
  PROVE  ViewFits([view EXCEPT !.anchors = anchors], others)
  <1> DEFINE now == [highlight |-> view.highlight, order |-> view.order,
                     tablePage |-> view.tablePage, anchors |-> anchors]
  <1>1. view = [highlight |-> view.highlight, order |-> view.order,
                tablePage |-> view.tablePage, anchors |-> view.anchors]
    BY DEF ViewFits
  <1>2. [view EXCEPT !.anchors = anchors] = now
    BY <1>1
  <1>3. ViewFits(now, others)
    BY DEF ViewFits
  <1> QED
    BY <1>2, <1>3

\* A handler that sets the groups has an anchor for each of them.
LEMMA SetGroupsFits ==
  ASSUME GroupsInv, CgFits, NEW groups, GroupsFit(groups), SetGroups(groups)
  PROVE  CgFits'
  <1>1. cgUrl'.groups = groups /\ CgSettle
    BY ParametersAre DEF SetGroups, GroupsInv
  <1> DEFINE anchors == [gi \in DOMAIN groups |->
                 IF gi \in DOMAIN cgView.anchors /\ Matched(groups[gi]) # <<>>
                 THEN cgView.anchors[gi] ELSE None]
  <1>2. cgView' = [cgView EXCEPT !.anchors = anchors]
    BY DEF SetGroups
  <1>3. DOMAIN anchors = DOMAIN groups
    OBVIOUS
  <1> HIDE DEF anchors
  <1>4. ViewFits(cgView', groups)
    BY <1>2, <1>3, AnchorsFit DEF CgFits
  <1> QED
    BY <1>1, <1>4, SettledFits

\* One group is another.
LEMMA OneGroupFits ==
  ASSUME GroupsInv, CgFits, NEW gi \in DOMAIN cgUrl.groups, NEW g, RunsFit(g)
  PROVE  GroupsFit([cgUrl.groups EXCEPT ![gi] = g])
  <1> DEFINE now == [cgUrl.groups EXCEPT ![gi] = g]
  <1>1. PICK S : cgUrl.groups \in Seq(S)
    BY DEF GroupsInv, GroupSeq
  <1>2. Len(now) = Len(cgUrl.groups) /\ DOMAIN now = DOMAIN cgUrl.groups
    BY <1>1
  <1>3. \A i \in DOMAIN now : now[i] = g \/ now[i] = cgUrl.groups[i]
    BY <1>1
  <1> HIDE DEF now
  <1>4. GroupsFit(now)
    BY <1>2, <1>3 DEF CgFits, GroupsFit, RunsFit
  <1> QED
    BY <1>4 DEF now

\* A card that is changed.
LEMMA UpdateFits ==
  ASSUME GroupsInv, CgFits, NEW gi \in DOMAIN cgUrl.groups, NEW g, RunsFit(g), UpdateGroup(gi, g)
  PROVE  CgFits'
  BY OneGroupFits, SetGroupsFits DEF UpdateGroup

\* A group is added while there is a slot.
LEMMA AddGroupFits == GroupsInv /\ CgFits /\ AddGroup => CgFits'
  <1> SUFFICES ASSUME GroupsInv, CgFits, AddGroup PROVE CgFits'
    OBVIOUS
  <1>1. PICK c : SetGroups(Append(cgUrl.groups, Group(c, NoMeta, None)))
    BY DEF AddGroup
  <1>2. PICK S : cgUrl.groups \in Seq(S)
    BY DEF GroupsInv, GroupSeq
  <1>3. Len(cgUrl.groups) < CgSlots
    BY DEF AddGroup
  <1> DEFINE g == Group(c, NoMeta, None)
             now == Append(cgUrl.groups, g)
  <1>4. RunsFit(g)
    BY MadeGroups DEF RunsFit
  <1> HIDE DEF g
  <1>5. /\ Len(now) = Len(cgUrl.groups) + 1 /\ Len(cgUrl.groups) \in Nat
        /\ \A i \in DOMAIN now : now[i] = g \/ (i \in DOMAIN cgUrl.groups /\ now[i] = cgUrl.groups[i])
    BY <1>2
  <1>6. SetGroups(now)
    BY <1>1 DEF g
  <1> HIDE DEF now
  <1>7. Len(now) \in Nat /\ Len(now) <= CgSlots
    BY <1>3, <1>5, GroupsAssumption
  <1>8. \A i \in DOMAIN now : RunsFit(now[i])
    BY <1>4, <1>5 DEF CgFits, GroupsFit
  <1>9. GroupsFit(now)
    BY <1>7, <1>8 DEF GroupsFit
  <1> QED
    BY <1>6, <1>9, SetGroupsFits

\* The cards behind the one removed move up.
LEMMA RemoveGroupFits ==
  ASSUME GroupsInv, CgFits, NEW gi \in DOMAIN cgUrl.groups, RemoveGroup(gi)
  PROVE  CgFits'
  <1> DEFINE was == cgUrl.groups
             now == RemoveAt(was, gi)
  <1>1. PICK S : was \in Seq(S)
    BY DEF GroupsInv, GroupSeq
  <1>2. SetGroups(now)
    BY DEF RemoveGroup
  <1>3. gi \in 1..Len(was) /\ Len(was) \in Nat
    BY <1>1
  <1>4. GroupsFit(was)
    BY DEF CgFits
  <1> HIDE DEF was
  <1>5. now = SubSeq(was, 1, gi - 1) \o SubSeq(was, gi + 1, Len(was))
    BY DEF RemoveAt
  <1> HIDE DEF now
  <1>6. /\ Len(now) = Len(was) - 1
        /\ \A i \in DOMAIN now : \E j \in DOMAIN was : now[i] = was[j]
    <2> DEFINE a == SubSeq(was, 1, gi - 1)
               b == SubSeq(was, gi + 1, Len(was))
    <2>1. /\ a \in Seq(S) /\ Len(a) = gi - 1
          /\ \A i \in 1..(gi - 1) : a[i] = was[i] /\ i \in DOMAIN was
      BY <1>1, <1>3
    <2>2. /\ b \in Seq(S) /\ Len(b) = Len(was) - gi
          /\ \A i \in 1..(Len(was) - gi) : b[i] = was[gi + i] /\ gi + i \in DOMAIN was
      BY <1>1, <1>3
    <2> HIDE DEF a, b
    <2>3. now = a \o b
      BY <1>5 DEF a, b
    <2>4. /\ Len(now) = Len(a) + Len(b) /\ DOMAIN now = 1..(Len(a) + Len(b))
          /\ \A i \in 1..(Len(a) + Len(b)) : now[i] = IF i <= Len(a) THEN a[i] ELSE b[i - Len(a)]
      <3>1. a \in Seq(S) /\ b \in Seq(S)
        BY <2>1, <2>2
      <3>2. \A t, u \in Seq(S) :
               /\ Len(t \o u) = Len(t) + Len(u) /\ DOMAIN (t \o u) = 1..(Len(t) + Len(u))
               /\ \A i \in 1..(Len(t) + Len(u)) :
                     (t \o u)[i] = IF i <= Len(t) THEN t[i] ELSE u[i - Len(t)]
        OBVIOUS
      <3> QED
        BY <2>3, <3>1, <3>2
    <2>5. Len(now) = Len(was) - 1
      BY <1>3, <2>1, <2>2, <2>4
    <2>6. ASSUME NEW i \in DOMAIN now PROVE \E j \in DOMAIN was : now[i] = was[j]
      <3>1. i \in 1..(Len(was) - 1)
        <4>1. i \in 1..(Len(a) + Len(b)) /\ Len(a) + Len(b) = Len(was) - 1
          BY <1>3, <2>1, <2>2, <2>4
        <4> QED
          BY <4>1
      <3>2. CASE i <= gi - 1
        BY <1>3, <2>1, <2>4, <3>1, <3>2
      <3>3. CASE ~(i <= gi - 1)
        <4>1. i - (gi - 1) \in 1..(Len(was) - gi)
          BY <1>3, <3>1, <3>3
        <4>2. now[i] = b[i - (gi - 1)]
          BY <2>1, <2>4, <3>3
        <4> QED
          BY <2>2, <4>1, <4>2
      <3> QED
        BY <3>2, <3>3
    <2> QED
      BY <2>5, <2>6
  <1>7. Len(now) \in Nat /\ Len(now) <= CgSlots
    BY <1>3, <1>4, <1>6, GroupsAssumption DEF GroupsFit
  <1>8. \A i \in DOMAIN now : RunsFit(now[i])
    BY <1>4, <1>6 DEF GroupsFit
  <1>9. GroupsFit(now)
    BY <1>7, <1>8 DEF GroupsFit
  <1> QED
    BY <1>2, <1>9, SetGroupsFits

\* The runs of a group after a click are runs of the index.
LEMMA ClickRunBoxFits ==
  ASSUME GroupsInv, CgFits, NEW gi \in DOMAIN cgUrl.groups, NEW r, NEW shift \in BOOLEAN,
         ClickRunBox(gi, r, shift)
  PROVE  CgFits'
  <1> DEFINE g == cgUrl.groups[gi]
             now == SetGroupRuns(g, Matched(g), cgUrl.sample, ClickedRuns(gi, r, shift),
                                 Included(gi, r, shift))
             groups == [cgUrl.groups EXCEPT ![gi] = now]
  <1>1. IsGroup(g)
    BY DEF GroupsInv, GroupSeq
  <1>2. Matched(g) \in Seq(DOMAIN CgRows)
    BY MatchedAreRuns DEF GroupsInv, Matched
  <1>3. ToSet(Matched(g)) \subseteq DOMAIN CgRows
    BY <1>2, SeqMembers
  <1>4. RunsFit(now)
    <2>1. \E rs : now = [g EXCEPT !.runs = rs] /\ (rs = None \/ rs \subseteq DOMAIN CgRows)
      <3>1. now = [g EXCEPT !.runs = None]
            \/ \E set : now = [g EXCEPT !.runs = set \cap ToSet(Matched(g))]
        BY DEF SetGroupRuns
      <3> HIDE DEF now, g
      <3> QED
        BY <1>3, <3>1
    <2> QED
      BY <1>1, <2>1, WithRunsIs, MadeGroups DEF RunsFit
  <1>5. /\ cgUrl' = [cgUrl EXCEPT !.groups[gi] = now] /\ CgSettle
        /\ cgView' = IF shift /\ Anchored(gi) THEN cgView ELSE [cgView EXCEPT !.anchors[gi] = r]
    BY DEF ClickRunBox
  <1> HIDE DEF now
  <1>6. cgUrl'.groups = groups
    BY <1>5, ParametersAre DEF GroupsInv
  <1>7. GroupsFit(groups)
    BY <1>4, OneGroupFits
  <1>8. DOMAIN groups = DOMAIN cgUrl.groups
    OBVIOUS
  <1>9. ViewFits(cgView, groups)
    BY <1>8 DEF CgFits, ViewFits
  <1>10. ViewFits(cgView', groups)
    <2>1. CASE shift /\ Anchored(gi)
      BY <1>5, <1>9, <2>1
    <2>2. CASE ~(shift /\ Anchored(gi))
      <3>1. cgView' = [cgView EXCEPT !.anchors = [cgView.anchors EXCEPT ![gi] = r]]
        BY <1>5, <2>2
      <3>2. DOMAIN [cgView.anchors EXCEPT ![gi] = r] = DOMAIN groups
        BY <1>9 DEF ViewFits
      <3> QED
        BY <1>9, <3>1, <3>2, AnchorsFit
    <2> QED
      BY <2>1, <2>2
  <1> HIDE DEF groups
  <1> QED
    BY <1>5, <1>6, <1>7, <1>10, SettledFits

\* Every handler of a card.
LEMMA GroupHandlersFit ==
  ASSUME GroupsInv, CgFits, NEW gi \in DOMAIN cgUrl.groups, GroupHandlers(gi)
  PROVE  CgFits'
  <1>1. IsGroup(cgUrl.groups[gi])
    BY DEF GroupsInv, GroupSeq
  <1>2. CASE RemoveGroup(gi)
    BY <1>2, RemoveGroupFits
  <1>3. CASE ResetToSample(gi)
    <2>1. RunsFit([cgUrl.groups[gi] EXCEPT !.runs = None])
      BY <1>1, WithRunsIs, MadeGroups DEF RunsFit
    <2> QED
      BY <1>3, <2>1, UpdateFits DEF ResetToSample
  <1>4. CASE \E c, m : UpdateGroup(gi, Group(c, m, None))
    <2>1. \A c, m : RunsFit(Group(c, m, None))
      BY MadeGroups DEF RunsFit
    <2> QED
      BY <1>4, <2>1, UpdateFits
  <1>5. ASSUME NEW c, ChooseClient(gi, c) PROVE CgFits'
    BY <1>4, <1>5 DEF ChooseClient
  <1>6. ASSUME NEW k, AddMetadata(gi, k) \/ RemoveMetadata(gi, k) PROVE CgFits'
    BY <1>4, <1>6 DEF AddMetadata, RemoveMetadata
  <1>7. ASSUME NEW k, NEW v, PickValue(gi, k, v) PROVE CgFits'
    BY <1>4, <1>7 DEF PickValue
  <1>8. ASSUME NEW r, NEW shift \in BOOLEAN, ClickRunBox(gi, r, shift) PROVE CgFits'
    BY <1>8, ClickRunBoxFits
  <1> QED
    BY <1>2, <1>3, <1>5, <1>6, <1>7, <1>8 DEF GroupHandlers

\* A look at the results from another side.
LEMMA LooksFit ==
  ASSUME GroupsInv, CgFits, NEW view, LookAt(view),
         DOMAIN view \subseteq {"highlight", "order", "tablePage"}
  PROVE  CgFits'
  <1>1. cgView' = Over(view, cgView) /\ cgUrl' = cgUrl /\ CgSettle
    BY DEF LookAt
  <1>2. cgView = [highlight |-> cgView.highlight, order |-> cgView.order,
                  tablePage |-> cgView.tablePage, anchors |-> cgView.anchors]
    BY DEF CgFits, ViewFits
  <1>3. DOMAIN cgView = {"highlight", "order", "tablePage", "anchors"}
    BY <1>2
  <1>4. cgView' = [x \in {"highlight", "order", "tablePage", "anchors"} |->
                     IF x \in DOMAIN view THEN view[x] ELSE cgView[x]]
    BY <1>1, <1>3 DEF Over
  <1>5. cgView'.anchors = cgView.anchors
    BY <1>4
  <1>6. cgView' = [highlight |-> cgView'.highlight, order |-> cgView'.order,
                   tablePage |-> cgView'.tablePage, anchors |-> cgView'.anchors]
    BY <1>4
  <1>7. ViewFits(cgView', cgUrl.groups)
    BY <1>5, <1>6 DEF CgFits, ViewFits
  <1> QED
    BY <1>1, <1>7, GroupsStayFit

\* Every handler of the results.
LEMMA ResultHandlersFit ==
  GroupsInv /\ CgFits /\ ResultHandlers => CgFits'
  <1> SUFFICES ASSUME GroupsInv, CgFits, ResultHandlers PROVE CgFits'
    OBVIOUS
  <1> DEFINE syn == Synthetic
  <1>1. \/ \E p \in DOMAIN syn : SetBaseline(p, syn) \/ ClickGroup(syn[p].index)
        \/ SetHeatmapModel \/ FilterTests(syn) \/ ToggleBucket(syn) \/ SetComparisonCharts(syn)
        \/ SortComparison(syn) \/ CompareTo(syn) \/ TurnComparison(syn) \/ OrderHeatmap
        \/ \E t \in CgTests(syn) : OpenCgTest(t)
    BY DEF ResultHandlers
  <1> HIDE DEF syn
  <1>2. ASSUME NEW patch, CgGo(patch), DOMAIN patch \subseteq Other PROVE CgFits'
    BY <1>2, GoFits DEF Other
  <1>3. ASSUME NEW view, LookAt(view), DOMAIN view \subseteq {"highlight", "order", "tablePage"}
        PROVE  CgFits'
    BY <1>3, LooksFit
  <1>4. ASSUME NEW p, SetBaseline(p, syn) PROVE CgFits'
    <2>1. PICK b : CgGo([baseline |-> b])
      BY <1>4 DEF SetBaseline
    <2> QED
      BY <1>2, <2>1, ParametersAre
  <1>5. ASSUME SetHeatmapModel PROVE CgFits'
    <2>1. \E v : \/ CgGo([metric |-> v]) \/ CgGo([color |-> v])
                 \/ CgGo([threshold |-> v]) \/ CgGo([slow |-> v])
      BY <1>5 DEF SetHeatmapModel
    <2> QED
      BY <1>2, <2>1, ParametersAre
  <1>6. ASSUME FilterTests(syn) PROVE CgFits'
    <2>1. \E v : CgGo([filter |-> v]) \/ CgGo([regex |-> v])
      BY <1>6 DEF FilterTests
    <2> QED
      BY <1>2, <2>1, ParametersAre
  <1>7. ASSUME ToggleBucket(syn) PROVE CgFits'
    <2>1. \E v : CgGo([buckets |-> v])
      BY <1>7 DEF ToggleBucket
    <2> QED
      BY <1>2, <2>1, ParametersAre
  <1>8. ASSUME SetComparisonCharts(syn) PROVE CgFits'
    <2>1. \E v : CgGo([chart |-> v]) \/ CgGo([diff |-> v])
      BY <1>8 DEF SetComparisonCharts
    <2> QED
      BY <1>2, <2>1, ParametersAre
  <1>9. ASSUME SortComparison(syn) PROVE CgFits'
    <2>1. PICK c : /\ cgUrl' = [cgUrl EXCEPT !.sort = c,
                                             !.dir = IF c = cgUrl.sort THEN Flip(@) ELSE "asc"]
                   /\ cgView' = [cgView EXCEPT !.tablePage = 1] /\ CgSettle
      BY <1>9 DEF SortComparison
    <2>2. cgUrl'.groups = cgUrl.groups
      BY <2>1, ParametersAre DEF GroupsInv
    <2>3. ViewFits(cgView', cgUrl.groups)
      BY <2>1 DEF CgFits, ViewFits
    <2> QED
      BY <2>1, <2>2, <2>3, GroupsStayFit
  <1>10. ASSUME CompareTo(syn) PROVE CgFits'
    <2>1. PICK b : CgGo([tableBase |-> b])
      BY <1>10 DEF CompareTo
    <2> QED
      BY <1>2, <2>1, ParametersAre
  <1>11. ASSUME NEW t, OpenCgTest(t) PROVE CgFits'
    BY <1>2, <1>11, ParametersAre DEF OpenCgTest
  <1>12. ASSUME NEW gi, ClickGroup(gi) PROVE CgFits'
    <2>1. PICK h : LookAt([highlight |-> h])
      BY <1>12 DEF ClickGroup
    <2> QED
      BY <1>3, <2>1
  <1>13. ASSUME TurnComparison(syn) PROVE CgFits'
    <2>1. PICK p : LookAt([tablePage |-> p])
      BY <1>13 DEF TurnComparison
    <2> QED
      BY <1>3, <2>1
  <1>14. ASSUME OrderHeatmap PROVE CgFits'
    <2>1. PICK o : LookAt([order |-> o])
      BY <1>14 DEF OrderHeatmap
    <2> QED
      BY <1>3, <2>1
  <1> QED
    BY <1>1, <1>4, <1>5, <1>6, <1>7, <1>8, <1>9, <1>10, <1>11, <1>12, <1>13, <1>14

\* What is asked is asked of runs.
LEMMA AskedFit ==
  ASSUME GroupsInv
  PROVE  CgQueriesNow \subseteq {"config", "result"} \X DOMAIN CgRows
  <1> DEFINE runs == GroupRuns
  <1>1. runs \in Seq(Seq(DOMAIN CgRows))
    BY GroupRunsAre
  <1>2. PICK f : Flattens(f, runs, DOMAIN CgRows)
    BY <1>1, FlatIs
  <1>3. Len(runs) \in Nat /\ Len(runs) \in 0..Len(runs)
    BY <1>1
  <1>4. Flat(runs) \in Seq(DOMAIN CgRows)
    BY <1>2, <1>3 DEF Flattens
  <1>5. ToSet(Flat(runs)) \subseteq DOMAIN CgRows
    BY <1>4, SeqMembers
  <1>6. \A gi \in DOMAIN runs : runs[gi] # <<>> => runs[gi][1] \in DOMAIN CgRows
    <2>1. ASSUME NEW gi \in DOMAIN runs, runs[gi] # <<>> PROVE runs[gi][1] \in DOMAIN CgRows
      <3>1. runs[gi] \in Seq(DOMAIN CgRows)
        BY <1>1
      <3> HIDE DEF runs
      <3> QED
        BY <2>1, <3>1
    <2> QED
      BY <2>1
  <1> HIDE DEF runs
  <1>7. CgQueriesFor(runs) \subseteq {"config", "result"} \X DOMAIN CgRows
    BY <1>5, <1>6 DEF CgQueriesFor
  <1> QED
    BY <1>7 DEF CgQueriesNow, runs

\* Five runs at most are picked in the dialog.
LEMMA ModalStepFits ==
  ASSUME GroupsInv, CgFits, ModalHandlers
  PROVE  CgFits'
  <1>1. ASSUME NEW modal, ModalFits(modal), InModal(modal) PROVE CgFits'
    <2>1. cgModal' = modal /\ UNCHANGED <<cgUrl, cgLoaded, cgView>>
      BY <1>1 DEF InModal
    <2>2. ModalFits(cgModal')
      BY <1>1, <2>1
    <2>3. ModalFits(cgModal)'
      BY <2>2 DEF ModalFits
    <2>4. GroupsFit(cgUrl.groups)' /\ ViewFits(cgView, cgUrl.groups)' /\ LoadedFits'
      BY <2>1 DEF CgFits, GroupsFit, ViewFits, LoadedFits, RunsFit
    <2> QED
      BY <2>3, <2>4 DEF CgFits
  <1>2. ASSUME CloseCgTest PROVE CgFits'
    BY <1>2, GoFits DEF CloseCgTest
  <1>3. ModalFits(cgModal)
    BY DEF CgFits
  <1>4. ASSUME ClearPicks PROVE CgFits'
    <2>1. IsFiniteSet({}) /\ Cardinality({}) = 0
      BY FS_EmptySet
    <2>2. Cardinality({}) <= MostPicked
      BY <2>1, GroupsAssumption
    <2>3. ModalFits([cgModal EXCEPT !.picked = {}])
      BY <1>3, <2>1, <2>2, PickedFits
    <2> QED
      BY <1>1, <1>4, <2>3 DEF ClearPicks
  <1>5. ASSUME NEW gi, ExpandGroup(gi) PROVE CgFits'
    <2>1. PICK e : InModal([cgModal EXCEPT !.expanded = e])
      BY <1>5 DEF ExpandGroup
    <2>2. ModalFits([cgModal EXCEPT !.expanded = e])
      BY <1>3, OtherwiseFits
    <2> QED
      BY <1>1, <2>1, <2>2
  <1>6. ASSUME NEW key, SortRows(key) PROVE CgFits'
    <2>1. \/ \E d : InModal([cgModal EXCEPT !.dir = d])
          \/ \E d : InModal([cgModal EXCEPT !.key = key, !.dir = d])
      BY <1>6 DEF SortRows
    <2>2. ASSUME NEW d PROVE /\ ModalFits([cgModal EXCEPT !.dir = d])
                             /\ ModalFits([cgModal EXCEPT !.key = key, !.dir = d])
      BY <1>3, OtherwiseFits
    <2> QED
      BY <1>1, <2>1, <2>2
  <1>7. ASSUME NEW gi, NEW r, PickRow(gi, r) PROVE CgFits'
    <2> DEFINE was == cgModal.picked
               now == IF r \in was THEN was \ {r} ELSE was \cup {r}
    <2>1. InModal([cgModal EXCEPT !.picked = now])
      BY <1>7 DEF PickRow
    <2>2. IsFiniteSet(was) /\ Cardinality(was) <= MostPicked /\ Cardinality(was) \in Nat
      BY <1>3, FS_CardinalityType DEF ModalFits
    <2>3. r \in was \/ Cardinality(was) < MostPicked
      BY <1>7 DEF PickRow
    <2>4. IsFiniteSet(now) /\ Cardinality(now) <= MostPicked
      <3> HIDE DEF was
      <3>1. CASE r \in was
        <4>1. IsFiniteSet(was \ {r}) /\ Cardinality(was \ {r}) = Cardinality(was) - 1
          BY <2>2, <3>1, FS_RemoveElement
        <4> QED
          BY <2>2, <3>1, <4>1, GroupsAssumption
      <3>2. CASE r \notin was
        <4>1. IsFiniteSet(was \cup {r}) /\ Cardinality(was \cup {r}) = Cardinality(was) + 1
          BY <2>2, <3>2, FS_AddElement
        <4> QED
          BY <2>2, <2>3, <3>2, <4>1, GroupsAssumption
      <3> QED
        BY <3>1, <3>2
    <2> HIDE DEF now
    <2>5. ModalFits([cgModal EXCEPT !.picked = now])
      BY <1>3, <2>4, PickedFits
    <2> QED
      BY <1>1, <2>1, <2>5
  <1> QED
    BY <1>2, <1>4, <1>5, <1>6, <1>7 DEF ModalHandlers

\* Every step of the comparison of groups.
LEMMA CgFitsStep == GroupsInv /\ CgFits /\ [CgNext]_cgVars => CgFits'
  <1> SUFFICES ASSUME GroupsInv, CgFits, [CgNext]_cgVars PROVE CgFits'
    OBVIOUS
  <1>1. ASSUME PollCg PROVE CgFits'
    <2>1. cgUrl' = cgUrl /\ CgSettle
      BY <1>1 DEF PollCg
    <2> DEFINE anchors == [gi \in DOMAIN cgUrl.groups |->
                   IF MatchedAt(cgIndex + 1, cgUrl.suite, cgUrl.groups[gi]) = <<>>
                   THEN None ELSE cgView.anchors[gi]]
    <2>2. cgView' = [cgView EXCEPT !.anchors = anchors]
      BY <1>1 DEF PollCg
    <2>3. DOMAIN anchors = DOMAIN cgUrl.groups
      OBVIOUS
    <2> HIDE DEF anchors
    <2>4. ViewFits(cgView', cgUrl.groups)
      BY <2>2, <2>3, AnchorsFit DEF CgFits
    <2> QED
      BY <2>1, <2>4, GroupsStayFit
  <1>2. CASE AnswerQuery
    <2>1. PICK q : q \in CgQueriesNow /\ cgLoaded' = cgLoaded \cup {q} /\ UNCHANGED <<cgUrl, cgView, cgModal>>
      BY <1>2 DEF AnswerQuery
    <2>2. LoadedFits'
      BY <2>1, AskedFit DEF CgFits, LoadedFits
    <2> QED
      BY <2>1, <2>2 DEF CgFits, GroupsFit, ViewFits, ModalFits, RunsFit
  <1>3. ASSUME NEW s, ChooseCgSuite(s) PROVE CgFits'
    <2>1. cgUrl'.groups = <<>> /\ CgSettle /\ cgView' = [cgView EXCEPT !.anchors = <<>>]
      BY <1>3, ParametersAre DEF ChooseCgSuite, GroupsInv
    <2>2. GroupsFit(<<>>)
      BY GroupsAssumption DEF GroupsFit
    <2>3. ViewFits(cgView', <<>>)
      BY <2>1, AnchorsFit DEF CgFits
    <2> QED
      BY <2>1, <2>2, <2>3, SettledFits
  <1>4. ASSUME NEW n, SetSample(n) PROVE CgFits'
    BY <1>4, GoFits DEF SetSample
  <1>5. ASSUME NEW m, SetAgg(m) PROVE CgFits'
    BY <1>5, GoFits DEF SetAgg
  <1>6. ASSUME UNCHANGED cgVars PROVE CgFits'
    BY <1>6 DEF cgVars, CgFits, GroupsFit, ViewFits, LoadedFits, ModalFits, RunsFit
  <1> QED
    BY <1>1, <1>2, <1>3, <1>4, <1>5, <1>6, AddGroupFits, GroupHandlersFit, ResultHandlersFit,
       ModalStepFits DEF CgNext

\* The groups have slots, the runs chosen for them are runs, and the dialog of a
\* test never picks more than can be compared.
LEMMA GroupsTyped == CgSpec => []CgTypeOK
  <1>1. GroupsInv /\ CgFits => CgTypeOK
    BY DEF GroupsInv, CgFits, GroupsFit, ViewFits, LoadedFits, ModalFits, RunsFit, CgTypeOK
  <1> QED
    BY <1>1, InitGroups, GroupsInvStep, CgFitsInit, CgFitsStep, PTL DEF CgSpec
=============================================================================
