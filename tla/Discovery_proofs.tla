-------------------------- MODULE Discovery_proofs --------------------------
(***************************************************************************)
(* Theorems of Discovery.                                                  *)
(***************************************************************************)
EXTENDS Discovery, TLAPS, SequenceTheorems, FiniteSetTheorems, WellFoundedInduction

-----------------------------------------------------------------------------
(* Numbers.                                                                *)

\* A set of numbers has a least one.
LEMMA NatMin ==
    ASSUME NEW T, T \subseteq Nat, T # {}
    PROVE  \E n \in T : \A k \in T : n <= k
<1> DEFINE R == {x \in Nat \X Nat : x[1] < x[2]}
<1>1. IsWellFoundedOn(R, Nat)
  BY NatLessThanWellFounded DEF OpToRel
<1>2. PICK n \in T : \A k \in T : <<k, n>> \notin R
  <2> HIDE DEF R
  <2> QED BY <1>1, WFMin
<1>3. \A k \in T : ~(k < n)
  BY <1>2
<1> QED BY <1>2, <1>3

\* Induction, on a set.
LEMMA NatSteps ==
    ASSUME NEW T, 0 \in T, \A n \in Nat : n \in T => n + 1 \in T
    PROVE  Nat \subseteq T
<1> SUFFICES ASSUME Nat \ T # {} PROVE FALSE
  OBVIOUS
<1>1. PICK n \in Nat \ T : \A k \in Nat \ T : n <= k
  BY NatMin
<1>2. n # 0 /\ n - 1 \in Nat /\ n - 1 \in T
  BY <1>1
<1> QED BY <1>1, <1>2

\* Numbers of a finite set have a bound.
LEMMA FiniteBound ==
    ASSUME NEW S, IsFiniteSet(S), NEW f \in [S -> Nat]
    PROVE  \E b \in Nat : \A s \in S : f[s] <= b
<1>1. PICK n \in Nat : ExistsSurjection(1 .. n, S)
  BY FS_NatSurjection
<1>2. PICK g \in [1 .. n -> S] : \A s \in S : \E i \in 1 .. n : g[i] = s
  BY <1>1 DEF ExistsSurjection, Surjection
<1> DEFINE T == {k \in Nat : \E b \in Nat : \A i \in 1 .. n : i <= k => f[g[i]] <= b}
<1>3. 0 \in T
  OBVIOUS
<1>4. ASSUME NEW k \in Nat, k \in T PROVE k + 1 \in T
  <2>1. PICK b \in Nat : \A i \in 1 .. n : i <= k => f[g[i]] <= b
    BY <1>4
  <2>2. CASE k + 1 \in 1 .. n
    <3> DEFINE c == b + f[g[k + 1]]
    <3>1. c \in Nat /\ b <= c /\ f[g[k + 1]] <= c
      BY <2>2, <1>2
    <3> HIDE DEF c
    <3>2. \A i \in 1 .. n : f[g[i]] \in Nat
      BY <1>2
    <3>3. \A i \in 1 .. n : i <= k + 1 => f[g[i]] <= c
      BY <2>1, <3>1, <3>2, <1>4
    <3> QED BY <3>1, <3>3
  <2>3. CASE k + 1 \notin 1 .. n
    <3>1. \A i \in 1 .. n : i <= k + 1 => i <= k
      BY <2>3
    <3>2. \A i \in 1 .. n : i <= k + 1 => f[g[i]] <= b
      BY <2>1, <3>1
    <3> QED BY <3>2
  <2> QED BY <2>2, <2>3
<1>5. n \in T
  <2> HIDE DEF T
  <2> QED BY <1>3, <1>4, NatSteps
<1>6. PICK b \in Nat : \A i \in 1 .. n : f[g[i]] <= b
  BY <1>5
<1>7. \A s \in S : f[s] <= b
  BY <1>2, <1>6
<1> QED BY <1>7

-----------------------------------------------------------------------------
(* Trees.                                                                  *)

\* The embedded devices of a device are in the tree, a level below it.
LEMMA KidsOf ==
    ASSUME NEW t, IsTree(t), NEW p \in DOMAIN t
    PROVE  /\ Kids(t, p) \in Seq(DOMAIN t)
           /\ Len(p) \in Nat
           /\ \A i \in DOMAIN Kids(t, p) : Len(Kids(t, p)[i]) = Len(p) + 1
           /\ \A q \in EmbeddedIn(t, p) : \E i \in DOMAIN Kids(t, p) : Kids(t, p)[i] = q
<1> DEFINE k == Kids(t, p)
           E == EmbeddedIn(t, p)
<1>1. Cardinality(E) \in Nat
  <2>1. E \in SUBSET DOMAIN t
    BY DEF EmbeddedIn
  <2>2. IsFiniteSet(DOMAIN t)
    BY DEF IsTree
  <2> QED BY <2>1, <2>2, FS_Subset, FS_CardinalityType
<1>2. k = [i \in 1 .. Cardinality(E) |-> Append(p, i)]
  BY DEF Kids
<1>3. DOMAIN k = 1 .. Cardinality(E)
  BY <1>2
<1>4. {k[i] : i \in DOMAIN k} = E
  BY DEF IsTree, ToSet
<1>5. \A i \in DOMAIN k : k[i] \in E
  BY <1>4
<1>6. \A i \in DOMAIN k : k[i] \in DOMAIN t /\ Len(k[i]) = Len(p) + 1
  BY <1>5 DEF EmbeddedIn
<1>7. k \in Seq(DOMAIN t)
  <2> HIDE DEF E
  <2>1. k \in [1 .. Cardinality(E) -> DOMAIN t]
    BY <1>2, <1>3, <1>6
  <2> QED BY <1>1, <2>1, SeqDef
<1>8. Len(p) \in Nat
  BY DEF IsTree
<1> QED BY <1>4, <1>6, <1>7, <1>8

\* No path is endless.
LEMMA DepthBound ==
    ASSUME NEW t, IsTree(t)
    PROVE  \E b \in Nat : \A p \in DOMAIN t : Len(p) <= b
<1> DEFINE f == [p \in DOMAIN t |-> Len(p)]
<1>1. IsFiniteSet(DOMAIN t) /\ \A p \in DOMAIN t : Len(p) \in Nat
  BY DEF IsTree
<1>2. f \in [DOMAIN t -> Nat]
  BY <1>1
<1>3. PICK b \in Nat : \A p \in DOMAIN t : f[p] <= b
  <2> HIDE DEF f
  <2> QED BY <1>1, <1>2, FiniteBound
<1> QED BY <1>3

\* Induction from the leaves of a tree.
LEMMA TreeInduction ==
    ASSUME NEW t, IsTree(t), NEW T,
           \A p \in DOMAIN t : (\A i \in DOMAIN Kids(t, p) : Kids(t, p)[i] \in T) => p \in T
    PROVE  DOMAIN t \subseteq T
<1>1. PICK b \in Nat : \A p \in DOMAIN t : Len(p) <= b
  BY DepthBound
<1> DEFINE N == {n \in Nat : \A p \in DOMAIN t : Len(p) + n > b => p \in T}
<1>2. \A p \in DOMAIN t : Len(p) \in Nat
  BY KidsOf
<1>3. 0 \in N
  BY <1>1, <1>2
<1>4. ASSUME NEW n \in Nat, n \in N PROVE n + 1 \in N
  <2> SUFFICES ASSUME NEW p \in DOMAIN t, Len(p) + (n + 1) > b PROVE p \in T
    OBVIOUS
  <2>1. Kids(t, p) \in Seq(DOMAIN t)
    BY KidsOf
  <2>2. ASSUME NEW i \in DOMAIN Kids(t, p) PROVE Kids(t, p)[i] \in T
    <3>1. Kids(t, p)[i] \in DOMAIN t
      BY <2>1
    <3>2. Len(Kids(t, p)[i]) = Len(p) + 1
      BY KidsOf
    <3> QED BY <1>2, <1>4, <3>1, <3>2
  <2> QED BY <2>2
<1>5. b + 1 \in N
  <2> HIDE DEF N
  <2> QED BY <1>3, <1>4, NatSteps
<1>6. \A p \in DOMAIN t : Len(p) + (b + 1) > b
  BY <1>2
<1> QED BY <1>5, <1>6

-----------------------------------------------------------------------------
(* Sequences of sequences.                                                 *)

\* FlattenSeq is the last of the sequences that it builds.
LEMMA FlattenWalk ==
    ASSUME NEW M, NEW ss \in Seq(Seq(M)), ss # <<>>
    PROVE  \E g \in [1 .. Len(ss) -> Seq(M)] :
              /\ FlattenSeq(ss) = g[Len(ss)]
              /\ \A i \in 1 .. Len(ss) : g[i] = IF i = 1 THEN ss[i] ELSE g[i - 1] \o ss[i]
<1> DEFINE n == Len(ss)
           Step(g, i) == IF i = 1 THEN ss[i] ELSE g[i - 1] \o ss[i]
           N == {k \in Nat : \E g \in [1 .. n -> Seq(M)] :
                    \A i \in 1 .. n : i <= k => g[i] = Step(g, i)}
<1>1. n \in Nat \ {0} /\ \A i \in 1 .. n : ss[i] \in Seq(M)
  OBVIOUS
<1>2. 0 \in N
  <2>1. [i \in 1 .. n |-> <<>>] \in [1 .. n -> Seq(M)]
    OBVIOUS
  <2> QED BY <1>1, <2>1
<1>3. ASSUME NEW k \in Nat, k \in N PROVE k + 1 \in N
  <2>1. PICK g \in [1 .. n -> Seq(M)] : \A i \in 1 .. n : i <= k => g[i] = Step(g, i)
    BY <1>3
  <2> DEFINE h == [i \in 1 .. n |-> IF i = k + 1 THEN Step(g, i) ELSE g[i]]
  <2>2. ASSUME NEW i \in 1 .. n PROVE Step(g, i) \in Seq(M)
    <3>1. i # 1 => i - 1 \in 1 .. n
      BY <1>1
    <3>2. i # 1 => g[i - 1] \in Seq(M) /\ ss[i] \in Seq(M)
      BY <1>1, <3>1
    <3>3. i # 1 => g[i - 1] \o ss[i] \in Seq(M)
      BY <3>2
    <3> QED BY <1>1, <3>3
  <2>3. h \in [1 .. n -> Seq(M)]
    BY <2>1, <2>2
  <2>4. ASSUME NEW i \in 1 .. n, i <= k + 1 PROVE h[i] = Step(h, i)
    <3>1. Step(h, i) = Step(g, i)
      BY <1>1, <2>4
    <3>2. h[i] = Step(g, i)
      <4> HIDE DEF Step
      <4>1. CASE i = k + 1
        BY <4>1
      <4>2. CASE i # k + 1
        BY <2>1, <2>4, <4>2
      <4> QED BY <4>1, <4>2
    <3> QED BY <3>1, <3>2
  <2> HIDE DEF h, Step
  <2> QED BY <2>3, <2>4
<1>4. n \in N
  <2> HIDE DEF N
  <2> QED BY <1>1, <1>2, <1>3, NatSteps
<1>5. PICK g \in [1 .. n -> Seq(M)] : \A i \in 1 .. n : g[i] = Step(g, i)
  BY <1>1, <1>4
<1>6. g = [i \in 1 .. n |-> Step(g, i)]
  BY <1>5
<1>7. PICK f : f = [i \in 1 .. n |-> Step(f, i)] /\ FlattenSeq(ss) = f[n]
  BY <1>1, <1>6 DEF FlattenSeq
<1> DEFINE S == {k \in Nat : \A i \in 1 .. n : i <= k => f[i] \in Seq(M)}
<1>8. \A i \in 1 .. n : f[i] = Step(f, i)
  BY <1>7
<1>9. 0 \in S
  OBVIOUS
<1>10. ASSUME NEW k \in Nat, k \in S PROVE k + 1 \in S
  <2>1. ASSUME NEW i \in 1 .. n, i <= k + 1 PROVE f[i] \in Seq(M)
    <3>1. CASE i = 1
      BY <1>1, <1>8, <3>1
    <3>2. CASE i # 1
      <4>1. i - 1 \in 1 .. n /\ i - 1 <= k
        BY <1>1, <2>1, <3>2
      <4>2. f[i - 1] \in Seq(M)
        BY <1>10, <4>1
      <4>3. f[i] = f[i - 1] \o ss[i]
        BY <1>8, <3>2
      <4> QED BY <1>1, <4>2, <4>3
    <3> QED BY <3>1, <3>2
  <2> QED BY <2>1
<1>11. n \in S
  <2> HIDE DEF S
  <2> QED BY <1>1, <1>9, <1>10, NatSteps
<1>12. \A i \in 1 .. n : f[i] \in Seq(M)
  BY <1>1, <1>11
<1>13. f \in [1 .. n -> Seq(M)]
  <2> HIDE DEF Step
  <2> QED BY <1>7, <1>12
<1> QED BY <1>7, <1>8, <1>13

LEMMA FlattenEmpty == FlattenSeq(<<>>) = <<>>
  BY DEF FlattenSeq

LEMMA FlattenType ==
    ASSUME NEW M, NEW ss \in Seq(Seq(M))
    PROVE  FlattenSeq(ss) \in Seq(M)
<1>1. CASE ss = <<>>
  <2>1. <<>> \in Seq(M)
    OBVIOUS
  <2> QED BY <1>1, <2>1, FlattenEmpty
<1>2. CASE ss # <<>>
  <2>1. Len(ss) \in 1 .. Len(ss)
    BY <1>2
  <2> QED BY <1>2, <2>1, FlattenWalk
<1> QED BY <1>1, <1>2

\* One more sequence comes behind the others.
LEMMA FlattenAppend ==
    ASSUME NEW M, NEW ss \in Seq(Seq(M)), NEW s \in Seq(M)
    PROVE  FlattenSeq(Append(ss, s)) = FlattenSeq(ss) \o s
<1> DEFINE tt == Append(ss, s)
           n == Len(ss)
<1>1. /\ tt \in Seq(Seq(M)) /\ tt # <<>> /\ Len(tt) = n + 1 /\ n \in Nat
      /\ \A i \in 1 .. n : tt[i] = ss[i]
      /\ tt[n + 1] = s
  BY AppendProperties
<1>2. PICK g \in [1 .. n + 1 -> Seq(M)] :
              /\ FlattenSeq(tt) = g[n + 1]
              /\ \A i \in 1 .. n + 1 : g[i] = IF i = 1 THEN tt[i] ELSE g[i - 1] \o tt[i]
  <2> HIDE DEF tt
  <2>1. \E g \in [1 .. Len(tt) -> Seq(M)] :
              /\ FlattenSeq(tt) = g[Len(tt)]
              /\ \A i \in 1 .. Len(tt) : g[i] = IF i = 1 THEN tt[i] ELSE g[i - 1] \o tt[i]
    BY ONLY <1>1, FlattenWalk, ZenonT(40)
  <2> QED BY <1>1, <2>1
<1> HIDE DEF tt
<1>3. CASE ss = <<>>
  <2>1. FlattenSeq(ss) = <<>>
    BY <1>3, FlattenEmpty
  <2>2. n = 0 /\ FlattenSeq(tt) = s
    BY <1>1, <1>2, <1>3
  <2> QED BY <2>1, <2>2 DEF tt
<1>4. CASE ss # <<>>
  <2>1. PICK f \in [1 .. n -> Seq(M)] :
              /\ FlattenSeq(ss) = f[n]
              /\ \A i \in 1 .. n : f[i] = IF i = 1 THEN ss[i] ELSE f[i - 1] \o ss[i]
    BY <1>4, FlattenWalk
  <2>2. n > 0
    BY <1>4
  <2> DEFINE S == {k \in Nat : \A i \in 1 .. n : i <= k => f[i] = g[i]}
  <2>3. 0 \in S
    OBVIOUS
  <2>4. ASSUME NEW k \in Nat, k \in S PROVE k + 1 \in S
    <3>1. ASSUME NEW i \in 1 .. n, i <= k + 1 PROVE f[i] = g[i]
      <4>1. tt[i] = ss[i] /\ i \in 1 .. n + 1
        BY <1>1
      <4>2. i # 1 => f[i - 1] = g[i - 1]
        <5>1. i # 1 => i - 1 \in 1 .. n /\ i - 1 <= k
          BY <1>1, <3>1
        <5> QED BY <2>4, <5>1
      <4>3. f[i] = IF i = 1 THEN ss[i] ELSE f[i - 1] \o ss[i]
        BY <2>1
      <4>4. g[i] = IF i = 1 THEN tt[i] ELSE g[i - 1] \o tt[i]
        BY <1>2, <4>1
      <4> QED BY ONLY <4>1, <4>2, <4>3, <4>4
    <3> QED BY <3>1
  <2>5. n \in S
    <3> HIDE DEF S
    <3> QED BY <1>1, <2>3, <2>4, NatSteps
  <2>6. f[n] = g[n]
    BY <1>1, <2>2, <2>5
  <2>7. g[n + 1] = g[n] \o s
    <3>1. n + 1 \in 1 .. n + 1 /\ n + 1 # 1 /\ (n + 1) - 1 = n
      BY <1>1, <2>2
    <3>2. g[n + 1] = g[(n + 1) - 1] \o tt[n + 1]
      BY <1>2, <3>1
    <3> QED BY <1>1, <3>1, <3>2
  <2> QED BY <1>2, <2>1, <2>6, <2>7 DEF tt
<1> QED BY <1>3, <1>4

\* An entry of the whole is an entry of one of them.
LEMMA FlattenRange ==
    ASSUME NEW M, NEW ss \in Seq(Seq(M)), NEW x \in ToSet(FlattenSeq(ss))
    PROVE  \E i \in 1 .. Len(ss) : x \in ToSet(ss[i])
<1>1. ss # <<>>
  BY FlattenEmpty DEF ToSet
<1>2. PICK g \in [1 .. Len(ss) -> Seq(M)] :
              /\ FlattenSeq(ss) = g[Len(ss)]
              /\ \A i \in 1 .. Len(ss) : g[i] = IF i = 1 THEN ss[i] ELSE g[i - 1] \o ss[i]
  BY <1>1, FlattenWalk
<1> DEFINE n == Len(ss)
           S == {k \in Nat : \A i \in 1 .. n : (i <= k /\ x \in ToSet(g[i])) =>
                                \E j \in 1 .. n : x \in ToSet(ss[j])}
<1>5. n \in Nat \ {0} /\ \A i \in 1 .. n : ss[i] \in Seq(M)
  BY <1>1
<1>3. 0 \in S
  OBVIOUS
<1>4. ASSUME NEW k \in Nat, k \in S PROVE k + 1 \in S
  <2>1. ASSUME NEW i \in 1 .. n, i <= k + 1, x \in ToSet(g[i])
        PROVE  \E j \in 1 .. n : x \in ToSet(ss[j])
    <3>1. CASE i = 1
      BY <1>2, <2>1, <3>1
    <3>2. CASE i # 1
      <4>1. i - 1 \in 1 .. n /\ i - 1 <= k
        BY <1>5, <2>1, <3>2
      <4> DEFINE a == g[i - 1]
                 b == ss[i]
      <4>2. a \in Seq(M) /\ b \in Seq(M) /\ g[i] = a \o b
        BY <1>2, <1>5, <3>2, <4>1
      <4>3. x \in ToSet(a) \/ x \in ToSet(b)
        <5> HIDE DEF a, b
        <5>1. x \in ToSet(a \o b)
          BY <2>1, <4>2
        <5>2. Range(a \o b) = Range(a) \cup Range(b)
          BY <4>2, RangeConcatenation
        <5> QED BY <5>1, <5>2 DEF ToSet, Range
      <4> QED BY <1>4, <4>1, <4>3
    <3> QED BY <3>1, <3>2
  <2> QED BY <2>1
<1>6. n \in S
  <2> HIDE DEF S, n
  <2> QED BY <1>3, <1>4, <1>5, NatSteps
<1>7. n \in 1 .. n /\ x \in ToSet(g[n])
  BY <1>2, <1>5
<1> QED BY <1>5, <1>6, <1>7

\* The results for the entries of a sequence.
LEMMA EachType ==
    ASSUME NEW M, NEW N, NEW s \in Seq(M), NEW h, \A x \in M : h[x] \in Seq(N)
    PROVE  /\ [i \in DOMAIN s |-> h[s[i]]] \in Seq(Seq(N))
           /\ Len([i \in DOMAIN s |-> h[s[i]]]) = Len(s)
           /\ Each(s, h) \in Seq(N)
<1>1. DOMAIN s = 1 .. Len(s) /\ Len(s) \in Nat
  OBVIOUS
<1>2. [i \in DOMAIN s |-> h[s[i]]] \in [1 .. Len(s) -> Seq(N)]
  BY <1>1
<1>3. [i \in DOMAIN s |-> h[s[i]]] \in Seq(Seq(N))
  BY <1>1, <1>2, SeqDef
<1>4. Len([i \in DOMAIN s |-> h[s[i]]]) = Len(s)
  BY <1>1
<1>5. Each(s, h) \in Seq(N)
  BY <1>3, FlattenType DEF Each
<1> QED BY <1>3, <1>4, <1>5

LEMMA EachRange ==
    ASSUME NEW M, NEW N, NEW s \in Seq(M), NEW h, \A x \in M : h[x] \in Seq(N),
           NEW y \in ToSet(Each(s, h))
    PROVE  \E i \in DOMAIN s : y \in ToSet(h[s[i]])
<1> DEFINE ss == [i \in DOMAIN s |-> h[s[i]]]
<1>1. ss \in Seq(Seq(N)) /\ Len(ss) = Len(s) /\ y \in ToSet(FlattenSeq(ss))
  BY EachType DEF Each
<1>2. PICK i \in 1 .. Len(ss) : y \in ToSet(ss[i])
  <2> HIDE DEF ss
  <2> QED BY <1>1, FlattenRange
<1>3. i \in DOMAIN s /\ ss[i] = h[s[i]]
  BY <1>1
<1> QED BY <1>2, <1>3

-----------------------------------------------------------------------------
(* Walks of a tree.                                                        *)

\* A walk that takes for each device its own part, then the walks from its embedded
\* Each device of t has its own part, entries of M.
HasParts(t, M, own) == \A p \in DOMAIN t : own[p] \in Seq(M)

\* devices, is defined.
LEMMA WalkExists ==
    ASSUME NEW t, IsTree(t), NEW M, NEW own, HasParts(t, M, own)
    PROVE  \E g \in [DOMAIN t -> Seq(M)] :
              \A p \in DOMAIN t : g[p] = own[p] \o Each(Kids(t, p), g)
<1>1. \A p \in DOMAIN t : own[p] \in Seq(M)
  BY DEF HasParts
<1>2. PICK b \in Nat : \A p \in DOMAIN t : Len(p) <= b
  BY DepthBound
<1> DEFINE Step(g, p) == own[p] \o Each(Kids(t, p), g)
           N == {n \in Nat : \E g \in [DOMAIN t -> Seq(M)] :
                    \A p \in DOMAIN t : Len(p) + n > b => g[p] = Step(g, p)}
<1>3. \A p \in DOMAIN t : Len(p) \in Nat
  BY KidsOf
<1>4. 0 \in N
  <2>1. [p \in DOMAIN t |-> <<>>] \in [DOMAIN t -> Seq(M)]
    OBVIOUS
  <2>2. \A p \in DOMAIN t : ~(Len(p) + 0 > b)
    BY <1>2, <1>3
  <2> HIDE DEF Step
  <2> QED BY <2>1, <2>2
<1>5. ASSUME NEW n \in Nat, n \in N PROVE n + 1 \in N
  <2>1. PICK g \in [DOMAIN t -> Seq(M)] :
            \A p \in DOMAIN t : Len(p) + n > b => g[p] = Step(g, p)
    <3> HIDE DEF Step
    <3> QED BY <1>5
  <2> DEFINE h == [p \in DOMAIN t |-> IF Len(p) + (n + 1) > b THEN Step(g, p) ELSE g[p]]
  <2>2. ASSUME NEW p \in DOMAIN t PROVE Step(g, p) \in Seq(M)
    <3>1. Kids(t, p) \in Seq(DOMAIN t)
      BY KidsOf
    <3>2. Each(Kids(t, p), g) \in Seq(M)
      BY <3>1, EachType
    <3> QED BY <1>1, <3>2
  <2>3. h \in [DOMAIN t -> Seq(M)]
    <3> HIDE DEF Step
    <3> QED BY <2>2
  <2>4. ASSUME NEW p \in DOMAIN t, Len(p) + (n + 1) > b PROVE h[p] = Step(h, p)
    <3> DEFINE k == Kids(t, p)
    <3>1. k \in Seq(DOMAIN t) /\ \A i \in DOMAIN k : Len(k[i]) = Len(p) + 1
      BY KidsOf
    <3>2. ASSUME NEW i \in DOMAIN k PROVE h[k[i]] = g[k[i]]
      <4>1. k[i] \in DOMAIN t /\ Len(k[i]) + n > b
        BY <1>3, <2>4, <3>1
      <4>2. g[k[i]] = Step(g, k[i])
        BY <2>1, <4>1
      <4>3. h[k[i]] = IF Len(k[i]) + (n + 1) > b THEN Step(g, k[i]) ELSE g[k[i]]
        BY <4>1
      <4> HIDE DEF Step, h, k
      <4> QED BY <4>2, <4>3
    <3>3. [i \in DOMAIN k |-> h[k[i]]] = [i \in DOMAIN k |-> g[k[i]]]
      <4> HIDE DEF h, k
      <4> QED BY <3>2
    <3>4. Step(h, p) = Step(g, p)
      <4> HIDE DEF h
      <4> QED BY <3>3 DEF Each
    <3>5. h[p] = Step(g, p)
      <4> HIDE DEF Step
      <4> QED BY <2>4
    <3> QED BY <3>4, <3>5
  <2> HIDE DEF h, Step
  <2> QED BY <2>3, <2>4
<1>6. b + 1 \in N
  <2> HIDE DEF N
  <2> QED BY <1>4, <1>5, NatSteps
<1>7. \A p \in DOMAIN t : Len(p) + (b + 1) > b
  BY <1>3
<1> HIDE DEF Step
<1>8. PICK g \in [DOMAIN t -> Seq(M)] : \A p \in DOMAIN t : g[p] = Step(g, p)
  BY <1>6, <1>7
<1> QED BY <1>8 DEF Step

\* Whatever walks so gives a sequence, and nothing but what the devices' own parts have.
LEMMA WalkType ==
    ASSUME NEW t, IsTree(t), NEW M, NEW own, \A p \in DOMAIN t : own[p] \in Seq(M),
           NEW g, \A p \in DOMAIN t : g[p] = own[p] \o Each(Kids(t, p), g)
    PROVE  \A p \in DOMAIN t : g[p] \in Seq(M)
<1> DEFINE T == {p \in DOMAIN t : g[p] \in Seq(M)}
<1>1. ASSUME NEW p \in DOMAIN t, \A i \in DOMAIN Kids(t, p) : Kids(t, p)[i] \in T
      PROVE  p \in T
  <2>1. Kids(t, p) \in Seq(DOMAIN t)
    BY KidsOf
  <2>2. Kids(t, p) \in Seq(T)
    BY <1>1, <2>1
  <2> DEFINE e == Each(Kids(t, p), g)
  <2>3. e \in Seq(M)
    <3>1. \A q \in T : g[q] \in Seq(M)
      OBVIOUS
    <3> HIDE DEF T
    <3> QED BY <2>2, <3>1, EachType
  <2>4. g[p] = own[p] \o e /\ own[p] \in Seq(M)
    OBVIOUS
  <2>5. g[p] \in Seq(M)
    <3> HIDE DEF e
    <3> QED BY <2>3, <2>4
  <2> QED BY <2>5
<1> HIDE DEF T
<1>2. DOMAIN t \subseteq T
  BY <1>1, TreeInduction
<1> QED BY <1>2 DEF T

LEMMA WalkRange ==
    ASSUME NEW t, IsTree(t), NEW M, NEW own, \A p \in DOMAIN t : own[p] \in Seq(M),
           NEW g, \A p \in DOMAIN t : g[p] = own[p] \o Each(Kids(t, p), g)
    PROVE  \A p \in DOMAIN t : \A x \in ToSet(g[p]) :
              \E q \in DOMAIN t : x \in ToSet(own[q])
<1> DEFINE T == {p \in DOMAIN t : \A x \in ToSet(g[p]) :
                    \E q \in DOMAIN t : x \in ToSet(own[q])}
<1>0. \A p \in DOMAIN t : g[p] \in Seq(M)
  BY WalkType
<1>1. ASSUME NEW p \in DOMAIN t, \A i \in DOMAIN Kids(t, p) : Kids(t, p)[i] \in T
      PROVE  p \in T
  <2> SUFFICES ASSUME NEW x \in ToSet(g[p]) PROVE \E q \in DOMAIN t : x \in ToSet(own[q])
    OBVIOUS
  <2> DEFINE k == Kids(t, p)
             e == Each(k, g)
  <2>1. k \in Seq(DOMAIN t)
    BY KidsOf
  <2>2. e \in Seq(M)
    BY <1>0, <2>1, EachType
  <2>3. g[p] = own[p] \o e
    OBVIOUS
  <2>4. x \in ToSet(own[p]) \/ x \in ToSet(e)
    <3> HIDE DEF e
    <3>1. Range(own[p] \o e) = Range(own[p]) \cup Range(e)
      BY <2>2, RangeConcatenation
    <3> QED BY <2>3, <3>1 DEF ToSet, Range
  <2>5. ASSUME x \in ToSet(e) PROVE \E q \in DOMAIN t : x \in ToSet(own[q])
    <3>1. PICK i \in DOMAIN k : x \in ToSet(g[k[i]])
      <4> HIDE DEF k
      <4> QED BY <1>0, <2>1, <2>5, EachRange
    <3>2. k[i] \in T
      BY <1>1
    <3> QED BY <3>1, <3>2
  <2> QED BY <2>4, <2>5
<1> HIDE DEF T
<1>2. DOMAIN t \subseteq T
  BY <1>1, TreeInduction
<1> QED BY <1>2 DEF T

-----------------------------------------------------------------------------
(* Announcements.                                                          *)

\* A description whose devices have their services in sequences.
Described(t) ==
    IsTree(t) /\ \A p \in DOMAIN t : t[p].services \in Seq(ToSet(t[p].services))

\* What is announced, and taken back, of each device of t.
Announces(t) == [p \in DOMAIN t |->
    (IF p = <<>> THEN <<Message(t[<<>>].udn, RootDevice, t[<<>>].port)>> ELSE <<>>)
    \o DeviceMessages(t[p], t[p].port) \o ServiceMessages(t[p], t[<<>>].port)]

Withdraws(t) == [p \in DOMAIN t |->
    (IF p = <<>> THEN <<Message(t[p].udn, RootDevice, Nothing)>> ELSE <<>>)
    \o DeviceMessages(t[p], Nothing) \o ServiceMessages(t[p], Nothing)]

Targets(d) == {RootDevice, Urn(d.type), Uuid(d.udn)} \cup {Urn(s.type) : s \in ToSet(d.services)}

\* Everything that may be said of the devices of t.
Messages(t) ==
    UNION {{Message(t[p].udn, target, x) : target \in Targets(t[p]),
                                           x \in {Nothing, t[p].port, t[<<>>].port}} :
        p \in DOMAIN t}

LEMMA ServiceMessagesType ==
    ASSUME NEW t, NEW p \in DOMAIN t, t[p].services \in Seq(ToSet(t[p].services)),
           NEW x \in {Nothing, t[p].port, t[<<>>].port}
    PROVE  /\ ServiceMessages(t[p], x) \in Seq(Messages(t))
           /\ DeviceMessages(t[p], x) \in Seq(Messages(t))
           /\ Message(t[p].udn, RootDevice, x) \in Messages(t)
           /\ Len(ServiceMessages(t[p], x)) = Len(t[p].services)
<1> DEFINE s == t[p].services
           ms == ServiceMessages(t[p], x)
<1>1. ASSUME NEW target \in Targets(t[p]) PROVE Message(t[p].udn, target, x) \in Messages(t)
  <2>1. Message(t[p].udn, target, x) \in
            {Message(t[p].udn, u, y) : u \in Targets(t[p]),
                                       y \in {Nothing, t[p].port, t[<<>>].port}}
    OBVIOUS
  <2> QED BY <2>1 DEF Messages
<1>2. DOMAIN s = 1 .. Len(s) /\ Len(s) \in Nat
  OBVIOUS
<1>3. ms = [i \in 1 .. Len(s) |-> Message(t[p].udn, Urn(s[i].type), x)]
  BY <1>2 DEF ServiceMessages
<1>4. \A i \in 1 .. Len(s) : Message(t[p].udn, Urn(s[i].type), x) \in Messages(t)
  BY <1>1, <1>2 DEF ToSet, Targets
<1>5. ms \in [1 .. Len(s) -> Messages(t)]
  BY <1>3, <1>4
<1>6. ms \in Seq(Messages(t)) /\ Len(ms) = Len(s)
  BY <1>2, <1>3, <1>5, SeqDef
<1>7. DeviceMessages(t[p], x) \in Seq(Messages(t))
  <2> DEFINE a == Message(t[p].udn, Urn(t[p].type), x)
             b == Message(t[p].udn, Uuid(t[p].udn), x)
  <2>1. a \in Messages(t) /\ b \in Messages(t)
    BY <1>1 DEF Targets
  <2>2. DeviceMessages(t[p], x) = <<a, b>>
    BY DEF DeviceMessages
  <2> HIDE DEF a, b
  <2> QED BY <2>1, <2>2
<1> QED BY <1>1, <1>6, <1>7 DEF Targets

LEMMA OwnPartsType ==
    ASSUME NEW t, Described(t), NEW p \in DOMAIN t
    PROVE  Announces(t)[p] \in Seq(Messages(t)) /\ Withdraws(t)[p] \in Seq(Messages(t))
<1>1. p = <<>> => t[p] = t[<<>>]
  OBVIOUS
<1>2. ASSUME NEW x \in {Nothing, t[p].port, t[<<>>].port}
      PROVE  /\ ServiceMessages(t[p], x) \in Seq(Messages(t))
             /\ DeviceMessages(t[p], x) \in Seq(Messages(t))
             /\ Message(t[p].udn, RootDevice, x) \in Messages(t)
  BY ServiceMessagesType DEF Described
<1>3. ASSUME NEW x \in {Nothing, t[<<>>].port}, NEW y \in {Nothing, t[p].port, t[<<>>].port}
      PROVE  (IF p = <<>> THEN <<Message(t[p].udn, RootDevice, x)>> ELSE <<>>)
                \o DeviceMessages(t[p], y) \o ServiceMessages(t[p], x) \in Seq(Messages(t))
  <2> DEFINE a == IF p = <<>> THEN <<Message(t[p].udn, RootDevice, x)>> ELSE <<>>
             b == DeviceMessages(t[p], y)
             c == ServiceMessages(t[p], x)
  <2>1. a \in Seq(Messages(t))
    <3> DEFINE m == Message(t[p].udn, RootDevice, x)
    <3>1. m \in Messages(t)
      BY <1>2
    <3> HIDE DEF m
    <3>2. <<m>> \in Seq(Messages(t)) /\ <<>> \in Seq(Messages(t))
      BY <3>1
    <3> QED BY <3>2 DEF m
  <2>2. b \in Seq(Messages(t)) /\ c \in Seq(Messages(t))
    BY <1>2
  <2> HIDE DEF a, b, c
  <2>3. (a \o b) \o c \in Seq(Messages(t))
    BY <2>1, <2>2
  <2> QED BY <2>3 DEF a, b, c
<1>4. Announces(t)[p] = (IF p = <<>> THEN <<Message(t[p].udn, RootDevice, t[<<>>].port)>> ELSE <<>>)
          \o DeviceMessages(t[p], t[p].port) \o ServiceMessages(t[p], t[<<>>].port)
  BY <1>1 DEF Announces
<1>5. Withdraws(t)[p] = (IF p = <<>> THEN <<Message(t[p].udn, RootDevice, Nothing)>> ELSE <<>>)
          \o DeviceMessages(t[p], Nothing) \o ServiceMessages(t[p], Nothing)
  BY DEF Withdraws
<1> QED BY <1>3, <1>4, <1>5

\* The three recursions are walks.
LEMMA AnnouncedWalk ==
    ASSUME NEW t, Described(t)
    PROVE  \E g : /\ Announced(t) = g[<<>>]
                  /\ \A p \in DOMAIN t : g[p] = Announces(t)[p] \o Each(Kids(t, p), g)
<1>1. IsTree(t) /\ HasParts(t, Messages(t), Announces(t))
  BY OwnPartsType DEF Described, HasParts
<1> DEFINE Step(g, p) ==
        (IF p = <<>> THEN <<Message(t[<<>>].udn, RootDevice, t[<<>>].port)>> ELSE <<>>)
        \o DeviceMessages(t[p], t[p].port) \o ServiceMessages(t[p], t[<<>>].port)
        \o Each(Kids(t, p), g)
<1>2. \A g : \A p \in DOMAIN t : Step(g, p) = Announces(t)[p] \o Each(Kids(t, p), g)
  BY DEF Announces
<1>3. PICK g \in [DOMAIN t -> Seq(Messages(t))] :
          \A p \in DOMAIN t : g[p] = Announces(t)[p] \o Each(Kids(t, p), g)
  BY <1>1, WalkExists
<1>4. g = [p \in DOMAIN t |-> Step(g, p)]
  <2> HIDE DEF Step
  <2> QED BY <1>2, <1>3
<1>5. PICK f : f = [p \in DOMAIN t |-> Step(f, p)] /\ Announced(t) = f[<<>>]
  BY <1>4 DEF Announced
<1>6. \A p \in DOMAIN t : f[p] = Step(f, p)
  <2> HIDE DEF Step
  <2> QED BY <1>5
<1> HIDE DEF Step
<1> QED BY <1>2, <1>5, <1>6

LEMMA WithdrawnWalk ==
    ASSUME NEW t, Described(t)
    PROVE  \E g : /\ Withdrawn(t) = g[<<>>]
                  /\ \A p \in DOMAIN t : g[p] = Withdraws(t)[p] \o Each(Kids(t, p), g)
<1>1. IsTree(t) /\ HasParts(t, Messages(t), Withdraws(t))
  BY OwnPartsType DEF Described, HasParts
<1> DEFINE Step(g, p) ==
        (IF p = <<>> THEN <<Message(t[p].udn, RootDevice, Nothing)>> ELSE <<>>)
        \o DeviceMessages(t[p], Nothing) \o ServiceMessages(t[p], Nothing)
        \o Each(Kids(t, p), g)
<1>2. \A g : \A p \in DOMAIN t : Step(g, p) = Withdraws(t)[p] \o Each(Kids(t, p), g)
  BY DEF Withdraws
<1>3. PICK g \in [DOMAIN t -> Seq(Messages(t))] :
          \A p \in DOMAIN t : g[p] = Withdraws(t)[p] \o Each(Kids(t, p), g)
  BY <1>1, WalkExists
<1>4. g = [p \in DOMAIN t |-> Step(g, p)]
  <2> HIDE DEF Step
  <2> QED BY <1>2, <1>3
<1>5. PICK f : f = [p \in DOMAIN t |-> Step(f, p)] /\ Withdrawn(t) = f[<<>>]
  BY <1>4 DEF Withdrawn
<1>6. \A p \in DOMAIN t : f[p] = Step(f, p)
  <2> HIDE DEF Step
  <2> QED BY <1>5
<1> HIDE DEF Step
<1> QED BY <1>2, <1>5, <1>6

\* What a message about a device can be.
LEMMA OwnRange ==
    ASSUME NEW t, Described(t), NEW p \in DOMAIN t,
           NEW x \in {Nothing, t[<<>>].port}, NEW y \in {Nothing, t[p].port, t[<<>>].port},
           NEW m \in ToSet((IF p = <<>> THEN <<Message(t[p].udn, RootDevice, x)>> ELSE <<>>)
                             \o DeviceMessages(t[p], y) \o ServiceMessages(t[p], x))
    PROVE  \/ p = <<>> /\ m = Message(t[<<>>].udn, RootDevice, x)
           \/ m = Message(t[p].udn, Urn(t[p].type), y)
           \/ m = Message(t[p].udn, Uuid(t[p].udn), y)
           \/ \E i \in DOMAIN t[p].services :
                  m = Message(t[p].udn, Urn(t[p].services[i].type), x)
<1> DEFINE a == IF p = <<>> THEN <<Message(t[p].udn, RootDevice, x)>> ELSE <<>>
           b == DeviceMessages(t[p], y)
           c == ServiceMessages(t[p], x)
<1>1. /\ c \in Seq(Messages(t)) /\ b \in Seq(Messages(t))
      /\ Message(t[p].udn, RootDevice, x) \in Messages(t)
  BY ServiceMessagesType DEF Described
<1>2. a \in Seq(Messages(t))
  <2> DEFINE r == Message(t[p].udn, RootDevice, x)
  <2> HIDE DEF r
  <2>1. r \in Messages(t) => <<r>> \in Seq(Messages(t)) /\ <<>> \in Seq(Messages(t))
    OBVIOUS
  <2> QED BY <1>1, <2>1 DEF r
<1>3. m \in ToSet(a) \/ m \in ToSet(b) \/ m \in ToSet(c)
  <2>1. m \in ToSet((a \o b) \o c)
    OBVIOUS
  <2> HIDE DEF a, b, c
  <2>2. a \o b \in Seq(Messages(t))
    BY <1>1, <1>2
  <2>3. Range((a \o b) \o c) = Range(a \o b) \cup Range(c)
    BY ONLY <1>1, <2>2, RangeConcatenation, ZenonT(40)
  <2>4. Range(a \o b) = Range(a) \cup Range(b)
    BY <1>1, <1>2, RangeConcatenation
  <2> QED BY <2>1, <2>3, <2>4 DEF ToSet, Range
<1>4. ASSUME m \in ToSet(a) PROVE p = <<>> /\ m = Message(t[<<>>].udn, RootDevice, x)
  BY <1>4 DEF ToSet
<1>5. ASSUME m \in ToSet(b)
      PROVE  m = Message(t[p].udn, Urn(t[p].type), y) \/ m = Message(t[p].udn, Uuid(t[p].udn), y)
  BY <1>5 DEF ToSet, DeviceMessages
<1>6. ASSUME m \in ToSet(c)
      PROVE  \E i \in DOMAIN t[p].services : m = Message(t[p].udn, Urn(t[p].services[i].type), x)
  BY <1>6 DEF ToSet, ServiceMessages
<1> QED BY <1>3, <1>4, <1>5, <1>6

\* What is announced, and taken back.
LEMMA AnnouncedRange ==
    ASSUME NEW t, Described(t), NEW m \in ToSet(Announced(t))
    PROVE  \E p \in DOMAIN t :
              \/ p = <<>> /\ m = Message(t[<<>>].udn, RootDevice, t[<<>>].port)
              \/ m = Message(t[p].udn, Urn(t[p].type), t[p].port)
              \/ m = Message(t[p].udn, Uuid(t[p].udn), t[p].port)
              \/ \E i \in DOMAIN t[p].services :
                     m = Message(t[p].udn, Urn(t[p].services[i].type), t[<<>>].port)
<1>1. IsTree(t) /\ <<>> \in DOMAIN t /\ \A p \in DOMAIN t : Announces(t)[p] \in Seq(Messages(t))
  BY OwnPartsType DEF Described, IsTree
<1>2. PICK g : /\ Announced(t) = g[<<>>]
              /\ \A p \in DOMAIN t : g[p] = Announces(t)[p] \o Each(Kids(t, p), g)
  BY AnnouncedWalk
<1>3. PICK p \in DOMAIN t : m \in ToSet(Announces(t)[p])
  <2> DEFINE own == Announces(t)
  <2> HIDE DEF own
  <2>1. \A p \in DOMAIN t : \A x \in ToSet(g[p]) : \E q \in DOMAIN t : x \in ToSet(own[q])
    <3>1. \A p \in DOMAIN t : own[p] \in Seq(Messages(t))
      BY <1>1 DEF own
    <3>2. \A p \in DOMAIN t : g[p] = own[p] \o Each(Kids(t, p), g)
      BY <1>2 DEF own
    <3> QED BY <1>1, <3>1, <3>2, WalkRange
  <2> QED BY <1>1, <1>2, <2>1 DEF own
<1>4. m \in ToSet((IF p = <<>> THEN <<Message(t[p].udn, RootDevice, t[<<>>].port)>> ELSE <<>>)
                  \o DeviceMessages(t[p], t[p].port) \o ServiceMessages(t[p], t[<<>>].port))
  BY <1>3 DEF Announces
<1> QED BY <1>4, OwnRange

LEMMA WithdrawnRange ==
    ASSUME NEW t, Described(t), NEW m \in ToSet(Withdrawn(t))
    PROVE  \E p \in DOMAIN t :
              \/ p = <<>> /\ m = Message(t[<<>>].udn, RootDevice, Nothing)
              \/ m = Message(t[p].udn, Urn(t[p].type), Nothing)
              \/ m = Message(t[p].udn, Uuid(t[p].udn), Nothing)
              \/ \E i \in DOMAIN t[p].services :
                     m = Message(t[p].udn, Urn(t[p].services[i].type), Nothing)
<1>1. IsTree(t) /\ <<>> \in DOMAIN t /\ \A p \in DOMAIN t : Withdraws(t)[p] \in Seq(Messages(t))
  BY OwnPartsType DEF Described, IsTree
<1>2. PICK g : /\ Withdrawn(t) = g[<<>>]
              /\ \A p \in DOMAIN t : g[p] = Withdraws(t)[p] \o Each(Kids(t, p), g)
  BY WithdrawnWalk
<1>3. PICK p \in DOMAIN t : m \in ToSet(Withdraws(t)[p])
  <2> DEFINE own == Withdraws(t)
  <2> HIDE DEF own
  <2>1. \A p \in DOMAIN t : \A x \in ToSet(g[p]) : \E q \in DOMAIN t : x \in ToSet(own[q])
    <3>1. \A p \in DOMAIN t : own[p] \in Seq(Messages(t))
      BY <1>1 DEF own
    <3>2. \A p \in DOMAIN t : g[p] = own[p] \o Each(Kids(t, p), g)
      BY <1>2 DEF own
    <3> QED BY <1>1, <3>1, <3>2, WalkRange
  <2> QED BY <1>1, <1>2, <2>1 DEF own
<1>4. m \in ToSet((IF p = <<>> THEN <<Message(t[p].udn, RootDevice, Nothing)>> ELSE <<>>)
                  \o DeviceMessages(t[p], Nothing) \o ServiceMessages(t[p], Nothing))
  BY <1>3 DEF Withdraws
<1> QED BY <1>4, OwnRange

\* Only the root device is announced, and taken back, as a root device.
LEMMA RootMessages ==
    ASSUME NEW t, Described(t), NEW m \in ToSet(Announced(t)) \cup ToSet(Withdrawn(t)),
           m.nt = RootDevice
    PROVE  m.usn[1] = t[<<>>].udn
<1>1. ASSUME NEW u, NEW target, NEW x PROVE Message(u, target, x).nt = target
  BY DEF Message
<1>2. ASSUME NEW n PROVE Urn(n) # RootDevice /\ Uuid(n) # RootDevice
  BY DEF Urn, Uuid, RootDevice
<1>3. ASSUME NEW u, NEW x PROVE Message(u, RootDevice, x).usn[1] = u
  BY DEF Message, RootDevice
<1>4. \E x : m = Message(t[<<>>].udn, RootDevice, x)
  <2>1. CASE m \in ToSet(Announced(t))
    BY <1>1, <1>2, <2>1, AnnouncedRange
  <2>2. CASE m \in ToSet(Withdrawn(t))
    BY <1>1, <1>2, <2>2, WithdrawnRange
  <2> QED BY <2>1, <2>2
<1> QED BY <1>3, <1>4

-----------------------------------------------------------------------------
(* The order of a walk.                                                    *)

LEMMA PrefixEntries ==
    ASSUME NEW p \in Seq(Nat), NEW q \in Seq(Nat)
    PROVE  IsPrefix(p, q) <=> Len(p) <= Len(q) /\ \A k \in 1 .. Len(p) : p[k] = q[k]
<1>1. SubSeq(p, 1, Len(p)) = p
  OBVIOUS
<1>2. ASSUME Len(p) <= Len(q)
      PROVE  /\ SubSeq(q, 1, Len(p)) \in Seq(Nat) /\ Len(SubSeq(q, 1, Len(p))) = Len(p)
             /\ \A k \in 1 .. Len(p) : SubSeq(q, 1, Len(p))[k] = q[k]
  BY <1>2
<1>3. ASSUME Len(p) <= Len(q), \A k \in 1 .. Len(p) : p[k] = q[k]
      PROVE  SubSeq(q, 1, Len(p)) = p
  <2> DEFINE s == SubSeq(q, 1, Len(p))
  <2>1. s \in Seq(Nat) /\ Len(s) = Len(p) /\ \A k \in 1 .. Len(p) : s[k] = p[k]
    BY <1>2, <1>3
  <2> HIDE DEF s
  <2>2. s = p
    BY <2>1, SeqEqual
  <2> QED BY <2>2 DEF s
<1> QED BY <1>1, <1>2, <1>3 DEF IsPrefix

\* Of two paths the walk comes to one first, of three to the first of the first two.
LEMMA BeforeTotal ==
    ASSUME NEW p \in Seq(Nat), NEW q \in Seq(Nat)
    PROVE  Before(p, q) \/ Before(q, p)
<1> DEFINE D == {n \in DOMAIN p \cap DOMAIN q : p[n] # q[n]}
<1>1. CASE D = {}
  <2>1. \A k \in DOMAIN p \cap DOMAIN q : p[k] = q[k]
    BY <1>1
  <2>2. /\ DOMAIN p = 1 .. Len(p) /\ Len(p) \in Nat
        /\ DOMAIN q = 1 .. Len(q) /\ Len(q) \in Nat
    OBVIOUS
  <2>3. CASE Len(p) <= Len(q)
    <3>1. \A k \in 1 .. Len(p) : p[k] = q[k]
      <4>1. 1 .. Len(p) \subseteq DOMAIN p \cap DOMAIN q
        BY <2>2, <2>3
      <4> QED BY <2>1, <4>1
    <3> QED BY <2>3, <3>1, PrefixEntries DEF Before
  <2>4. CASE Len(q) <= Len(p)
    <3>1. \A k \in 1 .. Len(q) : q[k] = p[k]
      <4>1. 1 .. Len(q) \subseteq DOMAIN p \cap DOMAIN q
        BY <2>2, <2>4
      <4> QED BY <2>1, <4>1
    <3> QED BY <2>4, <3>1, PrefixEntries DEF Before
  <2> QED BY <2>2, <2>3, <2>4
<1>2. CASE D # {}
  <2>1. D \subseteq Nat
    OBVIOUS
  <2>2. PICK n \in D : \A k \in D : n <= k
    <3> HIDE DEF D
    <3> QED BY <1>2, <2>1, NatMin
  <2>3. n \in DOMAIN p \cap DOMAIN q /\ n \in Nat /\ p[n] \in Nat /\ q[n] \in Nat /\ p[n] # q[n]
    BY <2>2
  <2>4. ASSUME NEW k \in 1 .. n - 1 PROVE p[k] = q[k]
    <3>1. k \in DOMAIN p \cap DOMAIN q /\ k < n
      BY <2>3
    <3>2. k \notin D
      BY <2>2, <2>3, <3>1
    <3> QED BY <3>1, <3>2
  <2>5. p[n] < q[n] \/ q[n] < p[n]
    BY <2>3
  <2> QED BY <2>3, <2>4, <2>5 DEF Before
<1> QED BY <1>1, <1>2

LEMMA BeforeTransitive ==
    ASSUME NEW p \in Seq(Nat), NEW q \in Seq(Nat), NEW r \in Seq(Nat), Before(p, q), Before(q, r)
    PROVE  Before(p, r)
<1>1. /\ DOMAIN p = 1 .. Len(p) /\ DOMAIN q = 1 .. Len(q) /\ DOMAIN r = 1 .. Len(r)
      /\ Len(p) \in Nat /\ Len(q) \in Nat /\ Len(r) \in Nat
      /\ \A k \in DOMAIN p : p[k] \in Nat
      /\ \A k \in DOMAIN q : q[k] \in Nat
      /\ \A k \in DOMAIN r : r[k] \in Nat
  OBVIOUS
<1> DEFINE Less(a, b, n) == /\ n \in DOMAIN a \cap DOMAIN b
                            /\ a[n] < b[n] /\ \A k \in 1 .. n - 1 : a[k] = b[k]
<1>2. ASSUME NEW a, NEW b PROVE Before(a, b) <=> (IsPrefix(a, b) \/ \E n : Less(a, b, n))
  BY DEF Before
<1>3. CASE IsPrefix(p, q) /\ IsPrefix(q, r)
  <2>1. Len(p) <= Len(r) /\ \A k \in 1 .. Len(p) : p[k] = r[k]
    <3>1. Len(p) <= Len(q) /\ \A k \in 1 .. Len(p) : p[k] = q[k]
      BY <1>3, PrefixEntries
    <3>2. Len(q) <= Len(r) /\ \A k \in 1 .. Len(q) : q[k] = r[k]
      BY <1>3, PrefixEntries
    <3> QED BY <1>1, <3>1, <3>2
  <2> QED BY <1>2, <2>1, PrefixEntries
<1>4. ASSUME IsPrefix(p, q), NEW n, Less(q, r, n) PROVE Before(p, r)
  <2>1. Len(p) <= Len(q) /\ \A k \in 1 .. Len(p) : p[k] = q[k]
    BY <1>4, PrefixEntries
  <2>2. n \in Nat /\ n <= Len(r)
    BY <1>1, <1>4
  <2>3. CASE n <= Len(p)
    <3>1. Less(p, r, n)
      BY <1>1, <1>4, <2>1, <2>2, <2>3
    <3> QED BY <1>2, <3>1
  <2>4. CASE n > Len(p)
    <3>1. Len(p) <= Len(r) /\ \A k \in 1 .. Len(p) : p[k] = r[k]
      BY <1>1, <1>4, <2>1, <2>2, <2>4
    <3> QED BY <1>2, <3>1, PrefixEntries
  <2> QED BY <1>1, <2>2, <2>3, <2>4
<1>5. ASSUME NEW n, Less(p, q, n), IsPrefix(q, r) PROVE Before(p, r)
  <2>1. Len(q) <= Len(r) /\ \A k \in 1 .. Len(q) : q[k] = r[k]
    BY <1>5, PrefixEntries
  <2>2. Less(p, r, n)
    BY <1>1, <1>5, <2>1
  <2> QED BY <1>2, <2>2
<1>6. ASSUME NEW n, Less(p, q, n), NEW m, Less(q, r, m) PROVE Before(p, r)
  <2>0. n \in Nat /\ m \in Nat
    <3>1. n \in DOMAIN p /\ m \in DOMAIN q
      BY <1>6
    <3> QED BY <1>1, <3>1
  <2>1. CASE n <= m
    <3>1. Less(p, r, n)
      <4>1. n \in DOMAIN r
        BY <1>1, <1>6, <2>0, <2>1
      <4>2. p[n] < r[n]
        <5>1. CASE n = m
          BY <1>6, <5>1
        <5>2. CASE n < m
          <6>1. q[n] = r[n]
            BY <1>6, <2>0, <5>2
          <6> QED BY <1>6, <6>1
        <5> QED BY <2>0, <2>1, <5>1, <5>2
      <4>3. \A k \in 1 .. n - 1 : p[k] = r[k]
        BY <1>6, <2>0, <2>1
      <4> QED BY <1>6, <4>1, <4>2, <4>3
    <3> QED BY <1>2, <3>1
  <2>2. CASE m < n
    <3>1. Less(p, r, m)
      BY <1>1, <1>6, <2>0, <2>2
    <3> QED BY <1>2, <3>1
  <2> QED BY <2>0, <2>1, <2>2
<1> HIDE DEF Less
<1> QED BY <1>2, <1>3, <1>4, <1>5, <1>6

\* Of finitely many paths there is a first one.
LEMMA FirstPath ==
    ASSUME NEW S, IsFiniteSet(S), S \subseteq Seq(Nat), S # {}
    PROVE  \E p \in S : \A q \in S : Before(p, q)
<1>1. PICK n \in Nat : ExistsSurjection(1 .. n, S)
  BY FS_NatSurjection
<1>2. PICK g \in [1 .. n -> S] : \A s \in S : \E i \in 1 .. n : g[i] = s
  BY <1>1 DEF ExistsSurjection, Surjection
<1> DEFINE T == {k \in Nat : \E p \in S : \A i \in 1 .. n : i <= k => Before(p, g[i])}
<1>3. 0 \in T
  OBVIOUS
<1>4. ASSUME NEW k \in Nat, k \in T PROVE k + 1 \in T
  <2>1. PICK p \in S : \A i \in 1 .. n : i <= k => Before(p, g[i])
    BY <1>4
  <2>2. \A i \in 1 .. n : i <= k + 1 => i <= k \/ i = k + 1
    OBVIOUS
  <2>3. CASE k + 1 \notin 1 .. n \/ Before(p, g[k + 1])
    <3>1. \A i \in 1 .. n : i <= k + 1 => Before(p, g[i])
      BY <2>1, <2>2, <2>3
    <3> QED BY <3>1
  <2>4. CASE k + 1 \in 1 .. n /\ ~Before(p, g[k + 1])
    <3> DEFINE r == g[k + 1]
    <3>1. r \in S /\ r \in Seq(Nat) /\ p \in Seq(Nat) /\ \A i \in 1 .. n : g[i] \in Seq(Nat)
      BY <1>2, <2>4
    <3>2. Before(r, p) /\ Before(r, r)
      BY <2>4, <3>1, BeforeTotal
    <3>3. \A i \in 1 .. n : i <= k + 1 => Before(r, g[i])
      BY <2>1, <2>2, <3>1, <3>2, BeforeTransitive
    <3> HIDE DEF r
    <3> QED BY <3>1, <3>3
  <2> QED BY <2>3, <2>4
<1>5. n \in T
  <2> HIDE DEF T
  <2> QED BY <1>3, <1>4, NatSteps
<1>6. PICK p \in S : \A i \in 1 .. n : Before(p, g[i])
  BY <1>5
<1> QED BY <1>2, <1>6

PlacesOf(f) == UNION {{i} \X DOMAIN f[i] : i \in DOMAIN f}

\* A forest of parsed descriptions.
IsForest(f) == DOMAIN f \subseteq Nat /\ \A i \in DOMAIN f : IsTree(f[i])

\* Of the places found in a forest there is a first one.
LEMMA FirstPlace ==
    ASSUME NEW f, IsForest(f), NEW F, F \subseteq PlacesOf(f), F # {}
    PROVE  \E a \in F : \A b \in F : a[1] < b[1] \/ (a[1] = b[1] /\ Before(a[2], b[2]))
<1>1. \A a \in F : a = <<a[1], a[2]>> /\ a[1] \in DOMAIN f /\ a[2] \in DOMAIN f[a[1]]
  BY DEF PlacesOf
<1> DEFINE I == {a[1] : a \in F}
<1>2. I \subseteq Nat /\ I # {}
  BY <1>1 DEF IsForest
<1>3. PICK i \in I : \A j \in I : i <= j
  <2> HIDE DEF I
  <2> QED BY <1>2, NatMin
<1>4. i \in DOMAIN f
  BY <1>1
<1> DEFINE Q == {p \in DOMAIN f[i] : <<i, p>> \in F}
<1>5. Q # {}
  BY <1>1
<1>6. Q \subseteq Seq(Nat) /\ IsFiniteSet(Q)
  <2>1. DOMAIN f[i] \subseteq Seq(Nat) /\ IsFiniteSet(DOMAIN f[i])
    BY <1>4 DEF IsForest, IsTree
  <2> QED BY <2>1, FS_Subset
<1>7. PICK p \in Q : \A q \in Q : Before(p, q)
  <2> HIDE DEF Q
  <2> QED BY <1>5, <1>6, FirstPath
<1>8. ASSUME NEW b \in F PROVE i < b[1] \/ (i = b[1] /\ Before(p, b[2]))
  <2>1. b[1] \in I /\ b[1] \in Nat /\ i \in Nat
    BY <1>2
  <2>2. CASE b[1] = i
    <3>1. b[2] \in Q
      BY <1>1, <2>2
    <3> QED BY <1>7, <2>2, <3>1
  <2>3. CASE b[1] # i
    <3>1. i <= b[1]
      BY <1>3, <2>1
    <3> QED BY <2>1, <2>3, <3>1
  <2> QED BY <2>2, <2>3
<1>9. <<i, p>> \in F
  OBVIOUS
<1>10. <<i, p>>[1] = i /\ <<i, p>>[2] = p
  OBVIOUS
<1> QED BY <1>8, <1>9, <1>10

\* Of the services found in a description there is a first one.
LEMMA FirstService ==
    ASSUME NEW t, Described(t),
           NEW F, F \subseteq UNION {{p} \X DOMAIN t[p].services : p \in DOMAIN t}, F # {}
    PROVE  \E a \in F : \A b \in F : IF a[1] = b[1] THEN a[2] <= b[2] ELSE Before(a[1], b[1])
<1>1. \A a \in F : a = <<a[1], a[2]>> /\ a[1] \in DOMAIN t /\ a[2] \in DOMAIN t[a[1]].services
  OBVIOUS
<1> DEFINE Q == {p \in DOMAIN t : \E k \in DOMAIN t[p].services : <<p, k>> \in F}
<1>2. Q # {}
  BY <1>1
<1>3. Q \subseteq Seq(Nat) /\ IsFiniteSet(Q)
  <2>1. DOMAIN t \subseteq Seq(Nat) /\ IsFiniteSet(DOMAIN t)
    BY DEF Described, IsTree
  <2> QED BY <2>1, FS_Subset
<1>4. PICK p \in Q : \A q \in Q : Before(p, q)
  <2> HIDE DEF Q
  <2> QED BY <1>2, <1>3, FirstPath
<1> DEFINE K == {k \in DOMAIN t[p].services : <<p, k>> \in F}
<1>5. K \subseteq Nat /\ K # {}
  <2>1. DOMAIN t[p].services = 1 .. Len(t[p].services)
    BY DEF Described
  <2>2. \E j \in DOMAIN t[p].services : <<p, j>> \in F
    OBVIOUS
  <2> QED BY <2>1, <2>2
<1>6. PICK k \in K : \A j \in K : k <= j
  <2> HIDE DEF K
  <2> QED BY <1>5, NatMin
<1>7. ASSUME NEW b \in F PROVE IF p = b[1] THEN k <= b[2] ELSE Before(p, b[1])
  <2>1. b[1] \in Q
    BY <1>1
  <2>2. CASE b[1] = p
    <3>1. b[2] \in K
      BY <1>1, <2>2
    <3> QED BY <1>6, <2>2, <3>1
  <2> QED BY <1>4, <2>1, <2>2
<1>8. <<p, k>> \in F /\ <<p, k>>[1] = p /\ <<p, k>>[2] = k
  OBVIOUS
<1> QED BY <1>7, <1>8

-----------------------------------------------------------------------------
(* Look-ups of devices.                                                    *)

LEMMA PlaceIsSomething ==
    ASSUME NEW f, IsForest(f), NEW at \in PlacesOf(f)
    PROVE  /\ at # Nothing /\ at = <<at[1], at[2]>>
           /\ at[1] \in DOMAIN f /\ at[2] \in DOMAIN f[at[1]]
<1>1. at = <<at[1], at[2]>> /\ at[1] \in DOMAIN f /\ at[2] \in DOMAIN f[at[1]]
  BY DEF PlacesOf
<1>2. at[1] \in Nat /\ at[2] \in Seq(Nat)
  BY <1>1 DEF IsForest, IsTree
<1>3. at \in Nat \X Seq(Nat)
  BY <1>1, <1>2
<1> QED BY <1>1, <1>3, NothingAssumption

\* A look-up that finds nothing has nothing to find; else it finds a place that fits, in
\* the first tree that has one.
LEMMA ByUdnFinds ==
    ASSUME NEW f, IsForest(f), NEW u
    PROVE  LET found == {at \in PlacesOf(f) : f[at[1]][at[2]].udn = u}
           IN IF found = {} THEN ByUdn(f, u) = Nothing ELSE ByUdn(f, u) \in found
<1> DEFINE found == {at \in PlacesOf(f) : f[at[1]][at[2]].udn = u}
<1>1. ASSUME found # {}
      PROVE  \E a \in found : \A b \in found : a[1] < b[1] \/ (a[1] = b[1] /\ Before(a[2], b[2]))
  <2>1. found \subseteq PlacesOf(f)
    OBVIOUS
  <2> HIDE DEF found
  <2> QED BY <1>1, <2>1, FirstPlace
<1>2. ByUdn(f, u) = IF found = {} THEN Nothing ELSE CHOOSE a \in found :
          \A b \in found : a[1] < b[1] \/ (a[1] = b[1] /\ Before(a[2], b[2]))
  BY DEF ByUdn, InForest, FirstFound, PlacesOf
<1> HIDE DEF found
<1>3. found # {} => ByUdn(f, u) \in found
  BY <1>1, <1>2
<1>4. found = {} => ByUdn(f, u) = Nothing
  BY <1>2
<1> QED BY <1>3, <1>4 DEF found

LEMMA ByExactTypeFinds ==
    ASSUME NEW f, IsForest(f), NEW x
    PROVE  LET found == {at \in PlacesOf(f) : f[at[1]][at[2]].type = x}
           IN found # {} => /\ ByExactType(f, x) \in found
                            /\ \A b \in found : ByExactType(f, x)[1] <= b[1]
<1> DEFINE found == {at \in PlacesOf(f) : f[at[1]][at[2]].type = x}
<1>1. ASSUME found # {}
      PROVE  \E a \in found : \A b \in found : a[1] < b[1] \/ (a[1] = b[1] /\ Before(a[2], b[2]))
  <2>1. found \subseteq PlacesOf(f)
    OBVIOUS
  <2> HIDE DEF found
  <2> QED BY <1>1, <2>1, FirstPlace
<1>2. ByExactType(f, x) = IF found = {} THEN Nothing ELSE CHOOSE a \in found :
          \A b \in found : a[1] < b[1] \/ (a[1] = b[1] /\ Before(a[2], b[2]))
  BY DEF ByExactType, InForest, FirstFound, PlacesOf
<1>3. \A a \in found : a[1] \in Nat
  BY PlaceIsSomething DEF IsForest
<1> HIDE DEF found
<1>4. ASSUME found # {}
      PROVE  /\ ByExactType(f, x) \in found
             /\ \A b \in found : \/ ByExactType(f, x)[1] < b[1]
                                 \/ ByExactType(f, x)[1] = b[1]
  BY <1>1, <1>2, <1>4
<1>5. ASSUME found # {} PROVE \A b \in found : ByExactType(f, x)[1] <= b[1]
  BY <1>3, <1>4, <1>5
<1> QED BY <1>4, <1>5 DEF found

LEMMA ByTypeFinds ==
    ASSUME NEW f, IsForest(f), NEW x
    PROVE  LET found == {at \in PlacesOf(f) : f[at[1]][at[2]].type.urn = x}
           IN found # {} => /\ ByType(f, x) \in found
                            /\ \A b \in found : ByType(f, x)[1] <= b[1]
<1> DEFINE found == {at \in PlacesOf(f) : f[at[1]][at[2]].type.urn = x}
<1>1. ASSUME found # {}
      PROVE  \E a \in found : \A b \in found : a[1] < b[1] \/ (a[1] = b[1] /\ Before(a[2], b[2]))
  <2>1. found \subseteq PlacesOf(f)
    OBVIOUS
  <2> HIDE DEF found
  <2> QED BY <1>1, <2>1, FirstPlace
<1>2. ByType(f, x) = IF found = {} THEN Nothing ELSE CHOOSE a \in found :
          \A b \in found : a[1] < b[1] \/ (a[1] = b[1] /\ Before(a[2], b[2]))
  BY DEF ByType, InForest, FirstFound, PlacesOf
<1>3. \A a \in found : a[1] \in Nat
  BY PlaceIsSomething DEF IsForest
<1> HIDE DEF found
<1>4. ASSUME found # {}
      PROVE  /\ ByType(f, x) \in found
             /\ \A b \in found : \/ ByType(f, x)[1] < b[1]
                                 \/ ByType(f, x)[1] = b[1]
  BY <1>1, <1>2, <1>4
<1>5. ASSUME found # {} PROVE \A b \in found : ByType(f, x)[1] <= b[1]
  BY <1>3, <1>4, <1>5
<1> QED BY <1>4, <1>5 DEF found

-----------------------------------------------------------------------------
(* The cache.                                                              *)

Bases == Ports \cup {FirstPort}

\* The entry of d, found at a location.
Entry(d, base) ==
    [tree |-> [Parsed(d) EXCEPT ![<<>>].packet = [udn |-> Root(d), port |-> base]], base |-> base]

Entries == {Entry(d, base) : d \in Devices, base \in Bases}

\* One entry for a root device.
OneEach(c) == \A i, j \in DOMAIN c : c[i].tree[<<>>].udn = c[j].tree[<<>>].udn => i = j

Exact(c) == c \in Seq(Entries) /\ OneEach(c)

\* A notification for a root device has the name of one.
RootsNamed ==
    \A m \in air : (m.nts \in {"alive", "byebye"} /\ m.root) => \E d \in Devices : m.udn = Root(d)

\* The inductive invariant.
DInv ==
    /\ up \subseteq Devices
    /\ port \in [Devices -> Bases]
    /\ RootsNamed
    /\ ~misled => Exact(cache)

LEMMA TreeFacts ==
    ASSUME NEW d \in Devices
    PROVE  /\ IsTree(Tree[d]) /\ Described(Tree[d]) /\ <<>> \in DOMAIN Tree[d]
           /\ DOMAIN Tree[d] \subseteq Seq(Nat)
  BY TreeAssumption DEF Described, IsTree

\* The devices of an entry are those of the description; the root has the packet.
LEMMA EntryNode ==
    ASSUME NEW d \in Devices, NEW base, NEW p \in DOMAIN Tree[d]
    PROVE  Entry(d, base).tree[p] =
              [udn |-> Tree[d][p].udn, type |-> Tree[d][p].type, services |-> Tree[d][p].services,
               packet |-> IF p = <<>> THEN [udn |-> Root(d), port |-> base] ELSE Nothing]
<1> DEFINE v == [udn |-> Root(d), port |-> base]
           n == [udn |-> Tree[d][p].udn, type |-> Tree[d][p].type,
                 services |-> Tree[d][p].services, packet |-> Nothing]
<1>1. Parsed(d)[p] = n /\ DOMAIN Parsed(d) = DOMAIN Tree[d] /\ <<>> \in DOMAIN Tree[d]
  BY TreeFacts DEF Parsed
<1>2. Entry(d, base).tree = [Parsed(d) EXCEPT ![<<>>].packet = v]
  BY DEF Entry
<1>3. CASE p = <<>>
  <2>1. Entry(d, base).tree[p] = [Parsed(d)[p] EXCEPT !.packet = v]
    BY <1>1, <1>2, <1>3
  <2> HIDE DEF v
  <2>2. ASSUME NEW a, NEW b, NEW c, NEW w
        PROVE  [[udn |-> a, type |-> b, services |-> c, packet |-> w] EXCEPT !.packet = v]
                  = [udn |-> a, type |-> b, services |-> c, packet |-> v]
    OBVIOUS
  <2> QED BY <1>1, <1>3, <2>1, <2>2 DEF v
<1>4. CASE p # <<>>
  BY <1>1, <1>2, <1>4
<1> QED BY <1>3, <1>4

LEMMA EntryFacts ==
    ASSUME NEW d \in Devices, NEW base
    PROVE  /\ DOMAIN Entry(d, base).tree = DOMAIN Tree[d]
           /\ Entry(d, base).tree = [p \in DOMAIN Tree[d] |-> Entry(d, base).tree[p]]
           /\ Entry(d, base).tree[<<>>].udn = Root(d)
           /\ Entry(d, base).tree[<<>>].packet = [udn |-> Root(d), port |-> base]
           /\ Entry(d, base).base = base
<1>1. Entry(d, base).tree = [Parsed(d) EXCEPT ![<<>>].packet = [udn |-> Root(d), port |-> base]]
  BY DEF Entry
<1>2. DOMAIN Parsed(d) = DOMAIN Tree[d] /\ <<>> \in DOMAIN Tree[d]
  BY TreeFacts DEF Parsed
<1>3. DOMAIN Entry(d, base).tree = DOMAIN Tree[d]
  BY <1>1, <1>2
<1>4. Entry(d, base).tree = [p \in DOMAIN Tree[d] |-> Entry(d, base).tree[p]]
  BY <1>1, <1>3
<1>5. Entry(d, base).tree[<<>>] =
          [udn |-> Tree[d][<<>>].udn, type |-> Tree[d][<<>>].type,
           services |-> Tree[d][<<>>].services, packet |-> [udn |-> Root(d), port |-> base]]
  BY <1>2, EntryNode
<1>6. Entry(d, base).base = base
  BY DEF Entry
<1> QED BY <1>3, <1>4, <1>5, <1>6 DEF Root

LEMMA EntryUdn ==
    ASSUME NEW d \in Devices, NEW base, NEW p \in DOMAIN Tree[d]
    PROVE  Entry(d, base).tree[p].udn = Tree[d][p].udn
<1> DEFINE n == Entry(d, base).tree[p]
<1>1. n = [udn |-> Tree[d][p].udn, type |-> Tree[d][p].type, services |-> Tree[d][p].services,
           packet |-> IF p = <<>> THEN [udn |-> Root(d), port |-> base] ELSE Nothing]
  BY EntryNode
<1> HIDE DEF n
<1>2. n.udn = Tree[d][p].udn
  BY <1>1
<1> QED BY <1>2 DEF n

\* The name of a root device is in its own description only, at its root.
LEMMA RootUdn ==
    ASSUME NEW d \in Devices, NEW e \in Devices, NEW p \in DOMAIN Tree[e],
           Tree[e][p].udn = Root(d)
    PROVE  e = d /\ p = <<>>
  BY TreeFacts, UdnAssumption DEF Root

LEMMA ExactForest ==
    ASSUME Exact(cache)
    PROVE  IsForest(Forest) /\ DOMAIN Forest = DOMAIN cache
<1>0. \A i \in DOMAIN cache : \E e \in Devices, base \in Bases : cache[i] = Entry(e, base)
  BY DEF Exact, Entries
<1>1. DOMAIN cache = 1 .. Len(cache) /\ Len(cache) \in Nat
  BY DEF Exact
<1>2. ASSUME NEW i \in DOMAIN cache PROVE IsTree(cache[i].tree)
  <2>1. PICK e \in Devices, base \in Bases : cache[i] = Entry(e, base)
    BY <1>0
  <2>2. DOMAIN cache[i].tree = DOMAIN Tree[e]
    <3>1. DOMAIN Entry(e, base).tree = DOMAIN Tree[e]
      BY EntryFacts
    <3> QED BY <2>1, <3>1
  <2>3. IsTree(Tree[e])
    BY TreeFacts
  <2> QED BY <2>2, <2>3 DEF IsTree, Kids, EmbeddedIn
<1> QED BY <1>1, <1>2 DEF Forest, IsForest

LEMMA RootFound ==
    ASSUME Exact(cache), NEW d \in Devices
    PROVE  LET at == ByUdn(Forest, Root(d))
           IN IF at = Nothing
              THEN \A i \in DOMAIN cache : cache[i].tree[<<>>].udn # Root(d)
              ELSE /\ at = <<at[1], <<>>>> /\ at[1] \in DOMAIN cache
                   /\ \E base \in Bases : cache[at[1]] = Entry(d, base)
<1>1. \A i \in DOMAIN cache : \E e \in Devices, base \in Bases : cache[i] = Entry(e, base)
  BY DEF Exact, Entries
<1>2. IsForest(Forest) /\ DOMAIN Forest = DOMAIN cache
  BY ExactForest
<1> DEFINE at == ByUdn(Forest, Root(d))
           found == {a \in PlacesOf(Forest) : Forest[a[1]][a[2]].udn = Root(d)}
<1>3. IF found = {} THEN at = Nothing ELSE at \in found
  BY <1>2, ByUdnFinds
<1>4. CASE at = Nothing
  <2>1. found = {}
    BY <1>2, <1>3, <1>4, PlaceIsSomething
  <2>2. ASSUME NEW i \in DOMAIN cache PROVE cache[i].tree[<<>>].udn # Root(d)
    <3>1. <<>> \in DOMAIN Forest[i]
      BY <1>2 DEF IsForest, IsTree
    <3>2. <<i, <<>>>> \in PlacesOf(Forest)
      BY <1>2, <3>1 DEF PlacesOf
    <3>3. Forest[i][<<>>].udn # Root(d)
      BY <2>1, <3>2
    <3> QED BY <3>3 DEF Forest
  <2> QED BY <1>4, <2>2
<1>5. CASE at # Nothing
  <2>1. at \in found
    BY <1>3, <1>5
  <2>2. at = <<at[1], at[2]>> /\ at[1] \in DOMAIN cache /\ at[2] \in DOMAIN Forest[at[1]]
    BY <1>2, <2>1, PlaceIsSomething
  <2>3. PICK e \in Devices, base \in Bases : cache[at[1]] = Entry(e, base)
    BY <1>1, <2>2
  <2>4. at[2] \in DOMAIN Tree[e] /\ Tree[e][at[2]].udn = Root(d)
    <3>1. Forest[at[1]] = Entry(e, base).tree
      BY <2>2, <2>3 DEF Forest
    <3>2. at[2] \in DOMAIN Tree[e]
      <4>1. DOMAIN Entry(e, base).tree = DOMAIN Tree[e]
        BY EntryFacts
      <4> QED BY <2>2, <3>1, <4>1
    <3>3. Forest[at[1]][at[2]].udn = Root(d)
      BY <2>1
    <3>4. Entry(e, base).tree[at[2]].udn = Tree[e][at[2]].udn
      BY <3>2, EntryUdn
    <3> QED BY <3>1, <3>2, <3>3, <3>4
  <2>5. e = d /\ at[2] = <<>>
    BY <2>4, RootUdn
  <2>6. at = <<at[1], <<>>>>
    BY <2>2, <2>5
  <2>7. \E b \in Bases : cache[at[1]] = Entry(d, b)
    BY <2>3, <2>5
  <2> HIDE DEF at, found
  <2> QED BY <1>5, <2>2, <2>6, <2>7 DEF at
<1> QED BY <1>4, <1>5

\* The part of a tree at its root is the tree, and a tree put there is all there is.
LEMMA RootPart ==
    ASSUME NEW t, DOMAIN t \subseteq Seq(Nat), t = [p \in DOMAIN t |-> t[p]]
    PROVE  Part(t, <<>>) = t
<1>1. \A q \in DOMAIN t : IsPrefix(<<>>, q) /\ SubSeq(q, Len(<<>>) + 1, Len(q)) = q /\ <<>> \o q = q
  BY DEF IsPrefix
<1>2. {q \in DOMAIN t : IsPrefix(<<>>, q)} = DOMAIN t
  BY <1>1
<1>3. {SubSeq(q, Len(<<>>) + 1, Len(q)) : q \in DOMAIN t} = DOMAIN t
  <2> DEFINE rest(q) == SubSeq(q, Len(<<>>) + 1, Len(q))
  <2>1. \A q \in DOMAIN t : rest(q) = q
    BY <1>1
  <2> HIDE DEF rest
  <2>2. {rest(q) : q \in DOMAIN t} = DOMAIN t
    BY <2>1
  <2> QED BY <2>2 DEF rest
<1>4. Part(t, <<>>) = [r \in DOMAIN t |-> t[<<>> \o r]]
  BY <1>2, <1>3 DEF Part
<1> QED BY <1>1, <1>4

LEMMA RootGraft ==
    ASSUME NEW t, DOMAIN t \subseteq Seq(Nat),
           NEW u, DOMAIN u \subseteq Seq(Nat), u = [p \in DOMAIN u |-> u[p]]
    PROVE  Graft(t, <<>>, u) = u
<1>1. \A q \in DOMAIN u : IsPrefix(<<>>, q) /\ SubSeq(q, Len(<<>>) + 1, Len(q)) = q /\ <<>> \o q = q
  BY DEF IsPrefix
<1>2. \A q \in DOMAIN t : IsPrefix(<<>>, q)
  BY DEF IsPrefix
<1>3. {q \in DOMAIN t : ~IsPrefix(<<>>, q)} \cup {<<>> \o r : r \in DOMAIN u} = DOMAIN u
  <2> DEFINE whole(r) == <<>> \o r
  <2>1. \A r \in DOMAIN u : whole(r) = r
    BY <1>1
  <2> HIDE DEF whole
  <2>2. {whole(r) : r \in DOMAIN u} = DOMAIN u
    BY <2>1, ZenonT(40)
  <2>3. {q \in DOMAIN t : ~IsPrefix(<<>>, q)} = {}
    BY ONLY <1>2
  <2> QED BY <2>2, <2>3 DEF whole
<1>4. Graft(t, <<>>, u) = [q \in DOMAIN u |->
          IF IsPrefix(<<>>, q) THEN u[SubSeq(q, Len(<<>>) + 1, Len(q))] ELSE t[q]]
  BY <1>3 DEF Graft
<1> QED BY <1>1, <1>4

\* Without one of its entries a cache is as exact as before.
LEMMA DeletedExact ==
    ASSUME NEW c, Exact(c), NEW k \in DOMAIN c
    PROVE  Exact(Deleted(c, <<k, <<>>>>))
<1> DEFINE n == Len(c)
           x == [i \in 1 .. n - 1 |-> IF i < k THEN c[i] ELSE c[i + 1]]
<1>1. DOMAIN c = 1 .. n /\ n \in Nat /\ k \in 1 .. n /\ \A i \in 1 .. n : c[i] \in Entries
  BY DEF Exact
<1>2. Deleted(c, <<k, <<>>>>) = x
  BY DEF Deleted
<1>3. \A i \in 1 .. n - 1 : IF i < k THEN i \in 1 .. n ELSE i + 1 \in 1 .. n
  BY <1>1
<1>4. x \in [1 .. n - 1 -> Entries] /\ n - 1 \in Nat
  BY <1>1, <1>3
<1>5. x \in Seq(Entries)
  BY <1>4, SeqDef
<1>6. OneEach(x)
  <2> SUFFICES ASSUME NEW i \in 1 .. n - 1, NEW j \in 1 .. n - 1,
                      x[i].tree[<<>>].udn = x[j].tree[<<>>].udn
               PROVE  i = j
    BY DEF OneEach
  <2> DEFINE old(y) == IF y < k THEN y ELSE y + 1
  <2>1. old(i) \in DOMAIN c /\ old(j) \in DOMAIN c /\ x[i] = c[old(i)] /\ x[j] = c[old(j)]
    BY <1>1, <1>3
  <2>2. old(i) = old(j)
    BY <2>1 DEF Exact, OneEach
  <2> QED BY <1>1, <2>2
<1> QED BY <1>2, <1>5, <1>6 DEF Exact

\* Whatever replaces it, an entry that is deleted leaves the others as they were.
LEMMA DeletedReplaced ==
    ASSUME NEW c, Exact(c), NEW k \in DOMAIN c, NEW x
    PROVE  Exact(Deleted([c EXCEPT ![k] = x], <<k, <<>>>>))
<1> DEFINE y == [c EXCEPT ![k] = x]
<1>1. DOMAIN c = 1 .. Len(c) /\ Len(c) \in Nat /\ k \in 1 .. Len(c)
  BY DEF Exact
<1>2. Len(y) = Len(c) /\ \A i \in 1 .. Len(c) : i # k => y[i] = c[i]
  BY <1>1
<1>3. \A z : Deleted(z, <<k, <<>>>>) = [i \in 1 .. Len(z) - 1 |-> IF i < k THEN z[i] ELSE z[i + 1]]
  BY DEF Deleted
<1>4. ASSUME NEW i \in 1 .. Len(c) - 1
      PROVE  (IF i < k THEN y[i] ELSE y[i + 1]) = (IF i < k THEN c[i] ELSE c[i + 1])
  <2>1. IF i < k THEN i \in 1 .. Len(c) /\ i # k ELSE i + 1 \in 1 .. Len(c) /\ i + 1 # k
    BY <1>1
  <2> HIDE DEF y
  <2> QED BY <1>2, <2>1
<1> HIDE DEF y
<1>5. Deleted(y, <<k, <<>>>>) = Deleted(c, <<k, <<>>>>)
  BY <1>2, <1>3, <1>4
<1>6. Exact(Deleted(c, <<k, <<>>>>))
  BY DeletedExact
<1> QED BY <1>5, <1>6 DEF y

LEMMA ReplacedExact ==
    ASSUME NEW c, Exact(c), NEW k \in DOMAIN c, NEW d \in Devices,
           NEW old, NEW new \in Bases, c[k] = Entry(d, old)
    PROVE  Exact([c EXCEPT ![k] = Entry(d, new)])
<1> DEFINE y == [c EXCEPT ![k] = Entry(d, new)]
<1>1. DOMAIN c = 1 .. Len(c) /\ Len(c) \in Nat /\ c \in Seq(Entries)
  BY DEF Exact
<1>2. Entry(d, new) \in Entries
  BY DEF Entries
<1>3. y \in Seq(Entries) /\ DOMAIN y = DOMAIN c
  BY <1>1, <1>2
<1>4. Entry(d, new).tree[<<>>].udn = Root(d) /\ Entry(d, old).tree[<<>>].udn = Root(d)
  BY EntryFacts
<1>5. ASSUME NEW i \in DOMAIN c PROVE y[i].tree[<<>>].udn = c[i].tree[<<>>].udn
  <2>1. CASE i = k
    BY <1>4, <2>1
  <2>2. CASE i # k
    BY <2>2
  <2> QED BY <2>1, <2>2
<1> HIDE DEF y
<1>6. OneEach(y)
  BY <1>3, <1>5 DEF Exact, OneEach
<1>7. Exact(y)
  BY <1>3, <1>6 DEF Exact
<1> QED BY <1>7 DEF y

LEMMA AppendExact ==
    ASSUME NEW c, Exact(c), NEW d \in Devices, NEW base \in Bases,
           \A i \in DOMAIN c : c[i].tree[<<>>].udn # Root(d)
    PROVE  Exact(Append(c, Entry(d, base)))
<1> DEFINE y == Append(c, Entry(d, base))
           n == Len(c)
<1>1. DOMAIN c = 1 .. n /\ n \in Nat /\ c \in Seq(Entries)
  BY DEF Exact
<1>2. Entry(d, base) \in Entries
  BY DEF Entries
<1>3. /\ y \in Seq(Entries) /\ DOMAIN y = 1 .. n + 1
      /\ \A i \in 1 .. n : y[i] = c[i]
      /\ y[n + 1] = Entry(d, base)
  BY <1>1, <1>2, AppendProperties
<1> HIDE DEF y
<1>4. y[n + 1].tree[<<>>].udn = Root(d)
  <2>1. Entry(d, base).tree[<<>>].udn = Root(d)
    BY EntryFacts
  <2> QED BY <1>3, <2>1
<1>5. OneEach(y)
  <2> SUFFICES ASSUME NEW i \in 1 .. n + 1, NEW j \in 1 .. n + 1,
                      y[i].tree[<<>>].udn = y[j].tree[<<>>].udn
               PROVE  i = j
    BY <1>3 DEF OneEach
  <2>1. ASSUME NEW h \in 1 .. n PROVE y[h].tree[<<>>].udn = c[h].tree[<<>>].udn /\ h \in DOMAIN c
    BY <1>1, <1>3
  <2>2. CASE i \in 1 .. n /\ j \in 1 .. n
    BY <2>1, <2>2 DEF Exact, OneEach
  <2>3. CASE i = n + 1 /\ j = n + 1
    BY <2>3
  <2>4. CASE i = n + 1 /\ j \in 1 .. n
    BY <1>4, <2>1, <2>4
  <2>5. CASE i \in 1 .. n /\ j = n + 1
    BY <1>4, <2>1, <2>5
  <2> QED BY <1>1, <2>2, <2>3, <2>4, <2>5
<1>6. Exact(y)
  BY <1>3, <1>5 DEF Exact
<1> QED BY <1>6 DEF y

\* The description of d with the packet that named it is d's entry.
LEMMA PacketEntry ==
    ASSUME NEW d \in Devices, NEW m, m.udn = Root(d), NEW base
    PROVE  /\ WithPacket(Parsed(d), m) = Entry(d, m.port).tree
           /\ WithPacket(Entry(d, base).tree, m) = Entry(d, m.port).tree
<1>1. Packet(m) = [udn |-> Root(d), port |-> m.port]
  BY DEF Packet
<1>2. \A t, v, w : [[t EXCEPT ![<<>>].packet = v] EXCEPT ![<<>>].packet = w]
                   = [t EXCEPT ![<<>>].packet = w]
  OBVIOUS
<1>3. Entry(d, base).tree = [Parsed(d) EXCEPT ![<<>>].packet = [udn |-> Root(d), port |-> base]]
  BY DEF Entry
<1>4. Entry(d, m.port).tree = [Parsed(d) EXCEPT ![<<>>].packet = [udn |-> Root(d), port |-> m.port]]
  BY DEF Entry
<1> DEFINE t == Parsed(d)
           v == [udn |-> Root(d), port |-> base]
           w == [udn |-> Root(d), port |-> m.port]
<1>5. [[t EXCEPT ![<<>>].packet = v] EXCEPT ![<<>>].packet = w]
                   = [t EXCEPT ![<<>>].packet = w]
  BY <1>2
<1>6. WithPacket(Parsed(d), m) = Entry(d, m.port).tree
  BY <1>1, <1>4 DEF WithPacket
<1>7. WithPacket(Entry(d, base).tree, m) = [Entry(d, base).tree EXCEPT ![<<>>].packet = w]
  BY <1>1 DEF WithPacket
<1>8. /\ Entry(d, base).tree = [t EXCEPT ![<<>>].packet = v]
      /\ Entry(d, m.port).tree = [t EXCEPT ![<<>>].packet = w]
  BY <1>3, <1>4
<1>9. WithPacket(Entry(d, base).tree, m) = Entry(d, m.port).tree
  <2> HIDE DEF t, v, w
  <2> QED BY <1>5, <1>7, <1>8
<1> QED BY <1>6, <1>9

LEMMA NotBoolean ==
    ASSUME NEW x, NEW S
    PROVE  (~(x \in S)) \in BOOLEAN
  OBVIOUS

\* A tree put in the place of entry k is its tree.
LEMMA ReplacedRoot ==
    ASSUME Exact(cache), NEW k \in DOMAIN cache, NEW d \in Devices, NEW old, NEW base,
           cache[k] = Entry(d, old)
    PROVE  Replaced(<<k, <<>>>>, Entry(d, base).tree, base) = [cache EXCEPT ![k] = Entry(d, base)]
<1>1. ASSUME NEW b
      PROVE  /\ DOMAIN Entry(d, b).tree \subseteq Seq(Nat)
             /\ Entry(d, b).tree = [p \in DOMAIN Entry(d, b).tree |-> Entry(d, b).tree[p]]
  <2>1. DOMAIN Entry(d, b).tree = DOMAIN Tree[d] /\ DOMAIN Tree[d] \subseteq Seq(Nat)
    BY EntryFacts, TreeFacts
  <2>2. Entry(d, b).tree = [p \in DOMAIN Tree[d] |-> Entry(d, b).tree[p]]
    BY EntryFacts
  <2> QED BY <2>1, <2>2
<1> DEFINE t == Entry(d, old).tree
           u == Entry(d, base).tree
<1>2. Graft(t, <<>>, u) = u
  <2>1. DOMAIN t \subseteq Seq(Nat) /\ DOMAIN u \subseteq Seq(Nat) /\ u = [p \in DOMAIN u |-> u[p]]
    BY <1>1
  <2> HIDE DEF t, u
  <2> QED BY <2>1, RootGraft
<1>3. Replaced(<<k, <<>>>>, u, base)
          = [cache EXCEPT ![k] = [tree |-> Graft(t, <<>>, u), base |-> base]]
  BY DEF Replaced
<1>4. [tree |-> u, base |-> base] = Entry(d, base)
  BY DEF Entry
<1> QED BY <1>2, <1>3, <1>4

\* What a refetch for the root device of entry k can leave, when it does not mislead.
LEMMA RefreshedExact ==
    ASSUME Exact(cache), NEW d \in Devices, NEW k \in DOMAIN cache, NEW old,
           cache[k] = Entry(d, old),
           NEW m, m.udn = Root(d),
           NEW u, NEW base, NEW wrong \in BOOLEAN,
           ~wrong => u = Parsed(d) /\ base = m.port /\ m.port \in Bases,
           NEW o \in Refreshed(<<k, <<>>>>, m, u, base, wrong), ~o.wrong
    PROVE  Exact(o.cache)
<1> DEFINE at == <<k, <<>>>>
           c == Replaced(at, WithPacket(u, m), base)
<1>1. \E x : c = [cache EXCEPT ![k] = x]
  BY DEF Replaced
<1>2. \A x, w : Outcome(x, w).cache = x /\ Outcome(x, w).wrong = w
  BY DEF Outcome
<1>3. \/ o = Outcome(c, wrong)
      \/ \E e : o = Outcome(c, wrong \/ ~IsOf(m, e))
      \/ o = Outcome(Deleted(c, at), FALSE)
  BY DEF Refreshed
<1>4. CASE o = Outcome(Deleted(c, at), FALSE)
  <2>1. PICK x : c = [cache EXCEPT ![k] = x]
    BY <1>1
  <2>2. o.cache = Deleted(c, at)
    BY <1>2, <1>4
  <2>3. Exact(Deleted([cache EXCEPT ![k] = x], at))
    BY DeletedReplaced
  <2> HIDE DEF c
  <2> QED BY <2>1, <2>2, <2>3
<1>5. CASE o = Outcome(c, wrong) \/ \E e : o = Outcome(c, wrong \/ ~IsOf(m, e))
  <2>1. ~wrong /\ o.cache = c
    BY <1>2, <1>5
  <2>2. WithPacket(u, m) = Entry(d, m.port).tree
    BY <2>1, PacketEntry
  <2>3. Replaced(at, Entry(d, m.port).tree, m.port) = [cache EXCEPT ![k] = Entry(d, m.port)]
    BY ReplacedRoot
  <2>4. Exact([cache EXCEPT ![k] = Entry(d, m.port)])
    <3> m.port \in Bases
      BY <2>1
    <3> HIDE DEF c, at
    <3> QED BY ReplacedExact
  <2> QED BY <2>1, <2>2, <2>3, <2>4
<1> QED BY <1>3, <1>4, <1>5

\* Whatever an announcement of a root device does without misleading, the cache stays exact.
LEMMA AddedExact ==
    ASSUME DInv, ~misled, NEW d \in Devices, NEW m, m.udn = Root(d),
           NEW o \in Added(m), ~o.wrong
    PROVE  Exact(o.cache)
<1>1. Exact(cache) /\ up \subseteq Devices /\ port \in [Devices -> Bases]
  BY DEF DInv
<1>2. \A x, w : Outcome(x, w).cache = x /\ Outcome(x, w).wrong = w
  BY DEF Outcome
<1>3. ASSUME NEW e \in Owners(m.port)
      PROVE  e \in Devices /\ m.port \in Bases /\ (IsOf(m, e) => e = d)
  <2>1. e \in Devices /\ port[e] = m.port
    BY <1>1 DEF Owners
  <2>2. ASSUME IsOf(m, e) PROVE e = d
    <3>1. PICK p \in DOMAIN Tree[e] : Tree[e][p].udn = Root(d)
      BY <2>2 DEF IsOf, Udns
    <3> QED BY <2>1, <3>1, RootUdn
  <2> QED BY <1>1, <2>1, <2>2
<1> DEFINE at == ByUdn(Forest, m.udn)
<1>4. CASE at = Nothing
  <2>1. o \in Created(m) \cup {NotCreated}
    BY <1>4 DEF Added
  <2>2. \A i \in DOMAIN cache : cache[i].tree[<<>>].udn # Root(d)
    BY <1>1, <1>4, RootFound
  <2>3. CASE o = NotCreated
    BY <1>1, <1>2, <2>3 DEF NotCreated
  <2>4. CASE o \in Created(m)
    <3>1. PICK e \in Owners(m.port) :
             o = Outcome(Append(cache, [tree |-> WithPacket(Parsed(e), m), base |-> m.port]),
                         ~IsOf(m, e))
      BY <2>4 DEF Created
    <3>2. e = d /\ m.port \in Bases
      BY <1>2, <1>3, <3>1
    <3>3. WithPacket(Parsed(d), m) = Entry(d, m.port).tree
      BY PacketEntry
    <3>4. [tree |-> Entry(d, m.port).tree, base |-> m.port] = Entry(d, m.port)
      BY DEF Entry
    <3>5. o.cache = Append(cache, Entry(d, m.port))
      <4> DEFINE t == WithPacket(Parsed(e), m)
                 x == Append(cache, [tree |-> t, base |-> m.port])
      <4>1. t = Entry(d, m.port).tree
        BY <3>2, <3>3
      <4>2. o.cache = x
        BY <1>2, <3>1
      <4>3. x = Append(cache, Entry(d, m.port))
        <5> HIDE DEF t
        <5> QED BY <3>4, <4>1
      <4> QED BY <4>2, <4>3
    <3> QED BY <1>1, <2>2, <3>2, <3>5, AppendExact
  <2> QED BY <2>1, <2>3, <2>4
<1>5. CASE at # Nothing
  <2> DEFINE k == at[1]
  <2>1. at = <<k, <<>>>> /\ k \in DOMAIN cache /\ \E base \in Bases : cache[k] = Entry(d, base)
    BY <1>1, <1>5, RootFound
  <2>2. PICK base \in Bases : cache[k] = Entry(d, base)
    BY <2>1
  <2>3. o \in Updated(at, m)
    BY <1>5 DEF Added
  <2> HIDE DEF at
  <2> DEFINE entry == cache[k]
             old == Part(entry.tree, <<>>)
  <2>4. old = Entry(d, base).tree /\ at[1] = k /\ at[2] = <<>>
    <3>1. /\ DOMAIN Entry(d, base).tree = DOMAIN Tree[d] /\ DOMAIN Tree[d] \subseteq Seq(Nat)
          /\ Entry(d, base).tree = [p \in DOMAIN Tree[d] |-> Entry(d, base).tree[p]]
      BY EntryFacts, TreeFacts
    <3> DEFINE t == Entry(d, base).tree
    <3>2. DOMAIN t \subseteq Seq(Nat) /\ t = [p \in DOMAIN t |-> t[p]]
      BY <3>1
    <3> HIDE DEF t
    <3>3. Part(t, <<>>) = t
      BY <3>2, RootPart
    <3> QED BY <2>1, <2>2, <3>3 DEF t
  <2>5. CASE ~Moved(old[<<>>], m)
    <3>1. o = Outcome(Replaced(at, WithPacket(old, m), entry.base), FALSE)
      BY <2>3, <2>4, <2>5 DEF Updated
    <3>2. old[<<>>].packet = [udn |-> Root(d), port |-> base] /\ entry.base = base
      <4>1. /\ Entry(d, base).tree[<<>>].packet = [udn |-> Root(d), port |-> base]
            /\ Entry(d, base).base = base
        BY EntryFacts
      <4> HIDE DEF k
      <4> QED BY <2>2, <2>4, <4>1
    <3>3. m.port = base
      BY <2>5, <3>2 DEF Moved
    <3>4. WithPacket(old, m) = Entry(d, m.port).tree
      BY <2>4, PacketEntry
    <3>5. Replaced(<<k, <<>>>>, Entry(d, m.port).tree, m.port)
              = [cache EXCEPT ![k] = Entry(d, m.port)]
      BY <1>1, <2>1, <2>2, ReplacedRoot
    <3>6. o.cache = [cache EXCEPT ![k] = Entry(d, m.port)]
      <4> DEFINE t == WithPacket(old, m)
      <4>1. o.cache = Replaced(at, t, entry.base)
        BY <1>2, <3>1
      <4>2. t = Entry(d, m.port).tree /\ entry.base = m.port
        BY <3>2, <3>3, <3>4
      <4> HIDE DEF t, k, entry
      <4> QED BY <2>1, <3>5, <4>1, <4>2
    <3> HIDE DEF k
    <3>7. Exact([cache EXCEPT ![k] = Entry(d, m.port)])
      BY <1>1, <2>1, <2>2, <3>3, ReplacedExact
    <3> QED BY <3>6, <3>7
  <2>6. CASE Moved(old[<<>>], m)
    <3>1. Updated(at, m) =
             (UNION {Refreshed(at, m, Parsed(e), m.port, ~IsOf(m, e))
                     \cup Refreshed(at, m, Cleared, Nothing, TRUE) : e \in Owners(m.port)})
             \cup Refreshed(at, m, old, entry.base, TRUE)
      <4> HIDE DEF k
      <4> QED BY <2>4, <2>6 DEF Updated
    <3>2. \/ o \in Refreshed(at, m, old, entry.base, TRUE)
          \/ \E e \in Owners(m.port) : \/ o \in Refreshed(at, m, Parsed(e), m.port, ~IsOf(m, e))
                                       \/ o \in Refreshed(at, m, Cleared, Nothing, TRUE)
      <4> DEFINE A(e) == Refreshed(at, m, Parsed(e), m.port, ~IsOf(m, e))
                 B == Refreshed(at, m, Cleared, Nothing, TRUE)
                 C == Refreshed(at, m, old, entry.base, TRUE)
      <4>1. o \in (UNION {A(e) \cup B : e \in Owners(m.port)}) \cup C
        BY <2>3, <3>1
      <4> HIDE DEF A, B, C
      <4>2. o \in C \/ \E e \in Owners(m.port) : o \in A(e) \/ o \in B
        BY <4>1
      <4> QED BY <4>2 DEF A, B, C
    <3>3. CASE o \in Refreshed(at, m, old, entry.base, TRUE)
      <4> HIDE DEF k, old, entry
      <4> QED BY <1>1, <2>1, <2>2, <3>3, RefreshedExact
    <3>4. ASSUME NEW e \in Owners(m.port), o \in Refreshed(at, m, Parsed(e), m.port, ~IsOf(m, e))
          PROVE  Exact(o.cache)
      <4>1. (~IsOf(m, e)) \in BOOLEAN
        BY NotBoolean DEF IsOf
      <4>2. m.port \in Bases /\ (IsOf(m, e) => Parsed(e) = Parsed(d))
        BY <1>3
      <4> DEFINE w == ~IsOf(m, e)
      <4>3. w \in BOOLEAN /\ (~w => Parsed(e) = Parsed(d) /\ m.port \in Bases)
        BY <4>1, <4>2
      <4>4. o \in Refreshed(<<k, <<>>>>, m, Parsed(e), m.port, w)
        BY <2>1, <3>4
      <4> HIDE DEF k, w
      <4> QED BY <1>1, <2>1, <2>2, <4>3, <4>4, RefreshedExact
    <3>5. ASSUME o \in Refreshed(at, m, Cleared, Nothing, TRUE) PROVE Exact(o.cache)
      <4> HIDE DEF k, old, entry
      <4> QED BY <1>1, <2>1, <2>2, <3>5, RefreshedExact
    <3> QED BY <3>2, <3>3, <3>4, <3>5
  <2> QED BY <2>5, <2>6
<1> QED BY <1>4, <1>5

-----------------------------------------------------------------------------
(* The steps.                                                              *)

\* Wherever its root device listens, a description has the same devices and services.
LEMMA AtFacts ==
    ASSUME NEW d \in Devices, NEW x, NEW t, t = [Tree[d] EXCEPT ![<<>>].port = x]
    PROVE  /\ Described(t) /\ DOMAIN t = DOMAIN Tree[d] /\ t[<<>>].port = x
           /\ \A p \in DOMAIN t : /\ t[p].udn = Tree[d][p].udn /\ t[p].type = Tree[d][p].type
                                  /\ t[p].services = Tree[d][p].services
<1>1. DOMAIN t = DOMAIN Tree[d] /\ <<>> \in DOMAIN t /\ IsTree(Tree[d])
  BY TreeFacts
<1>2. ASSUME NEW a, NEW b, NEW c, NEW y, NEW n,
             n = [[udn |-> a, type |-> b, services |-> c, port |-> y] EXCEPT !.port = x]
      PROVE  n.udn = a /\ n.type = b /\ n.services = c /\ n.port = x
  BY <1>2
<1>3. ASSUME NEW p \in DOMAIN t
      PROVE  /\ t[p].udn = Tree[d][p].udn /\ t[p].type = Tree[d][p].type
             /\ t[p].services = Tree[d][p].services /\ (p = <<>> => t[p].port = x)
  <2>1. CASE p = <<>>
    <3> DEFINE r == Tree[d][p]
    <3>1. r = [udn |-> r.udn, type |-> r.type, services |-> r.services, port |-> r.port]
      BY <1>1, TreeAssumption
    <3>2. t[p] = [r EXCEPT !.port = x]
      BY <1>1, <2>1
    <3> HIDE DEF r
    <3>3. t[p] = [[udn |-> r.udn, type |-> r.type, services |-> r.services, port |-> r.port]
                     EXCEPT !.port = x]
      BY <3>1, <3>2
    <3> DEFINE n == t[p]
    <3>4. n = [[udn |-> r.udn, type |-> r.type, services |-> r.services, port |-> r.port]
                     EXCEPT !.port = x]
      BY <3>3
    <3> HIDE DEF n
    <3>5. n.udn = r.udn /\ n.type = r.type /\ n.services = r.services /\ n.port = x
      BY <1>2, <3>4
    <3> QED BY <3>5 DEF n, r
  <2>2. CASE p # <<>>
    BY <2>2
  <2> QED BY <2>1, <2>2
<1>4. \A p \in DOMAIN t : t[p].services \in Seq(ToSet(t[p].services))
  BY <1>1, <1>3, TreeFacts DEF Described
<1>5. IsTree(t)
  BY <1>1 DEF IsTree, Kids, EmbeddedIn
<1> QED BY <1>1, <1>3, <1>4, <1>5 DEF Described

LEMMA PortAgain ==
    ASSUME NEW d \in Devices, NEW x
    PROVE  [At(d) EXCEPT ![<<>>].port = x] = [Tree[d] EXCEPT ![<<>>].port = x]
<1> DEFINE y == port[d]
           t == Tree[d]
<1>1. At(d) = [t EXCEPT ![<<>>].port = y]
  BY DEF At
<1> HIDE DEF t, y
<1>2. [[t EXCEPT ![<<>>].port = y] EXCEPT ![<<>>].port = x] = [t EXCEPT ![<<>>].port = x]
  OBVIOUS
<1> QED BY <1>1, <1>2 DEF t

\* What d sends for the root device has its name.
LEMMA SentNamed ==
    ASSUME NEW d \in Devices, NEW x, NEW t, t = [Tree[d] EXCEPT ![<<>>].port = x], NEW nts,
           NEW m \in Sent(nts, Announced(t)) \cup Sent(nts, Withdrawn(t)), m.root
    PROVE  m.udn = Root(d)
<1>1. PICK s \in ToSet(Announced(t)) \cup ToSet(Withdrawn(t)) :
         m = [nts |-> nts, root |-> s.nt = RootDevice, udn |-> s.usn[1], port |-> s.port]
  BY DEF Sent
<1>2. m.root = (s.nt = RootDevice) /\ m.udn = s.usn[1]
  BY <1>1
<1>3. s.nt = RootDevice
  BY <1>2
<1>4. Described(t) /\ t[<<>>].udn = Root(d)
  <2>1. Described(t) /\ DOMAIN t = DOMAIN Tree[d] /\ \A p \in DOMAIN t : t[p].udn = Tree[d][p].udn
    BY AtFacts
  <2>2. <<>> \in DOMAIN t
    BY <2>1, TreeFacts
  <2> QED BY <2>1, <2>2 DEF Root
<1> QED BY <1>2, <1>3, <1>4, RootMessages

LEMMA InitDInv ==
    ASSUME Init
    PROVE  DInv
<1>1. cache \in Seq(Entries) /\ DOMAIN cache = {}
  BY DEF Init
<1> QED BY <1>1 DEF Init, DInv, RootsNamed, Exact, OneEach, Bases

\* A device that starts says who it is.
LEMMA StartDInv ==
    ASSUME DInv, NEW d \in Devices, Start(d)
    PROVE  DInv'
<1>1. PICK p \in Ports :
         /\ port' = [port EXCEPT ![d] = p]
         /\ air' = air \cup Sent("byebye", Withdrawn(At(d)))
                       \cup Sent("alive", Announced([At(d) EXCEPT ![<<>>].port = p]))
  BY DEF Start
<1>2. up' \subseteq Devices /\ port' \in [Devices -> Bases]
  BY <1>1 DEF Start, DInv, Bases
<1>3. RootsNamed'
  <2> SUFFICES ASSUME NEW m \in air', m.root, m \notin air
               PROVE  m.udn = Root(d)
    BY DEF RootsNamed, DInv
  <2> DEFINE t == [Tree[d] EXCEPT ![<<>>].port = p]
  <2>1. CASE m \in Sent("byebye", Withdrawn(At(d)))
    BY <2>1, SentNamed DEF At
  <2>2. CASE m \in Sent("alive", Announced([At(d) EXCEPT ![<<>>].port = p]))
    <3>1. m \in Sent("alive", Announced(t))
      BY <2>2, PortAgain
    <3> QED BY <3>1, SentNamed
  <2> QED BY <1>1, <2>1, <2>2
<1>4. cache' = cache /\ misled' = misled
  BY DEF Start
<1> QED BY <1>2, <1>3, <1>4 DEF DInv, Exact, OneEach

LEMMA StopDInv ==
    ASSUME DInv, NEW d \in Devices, Stop(d)
    PROVE  DInv'
<1>1. RootsNamed'
  <2> SUFFICES ASSUME NEW m \in air', m.root, m \notin air
               PROVE  m.udn = Root(d)
    BY DEF RootsNamed, DInv
  <2>1. m \in Sent("byebye", Withdrawn(At(d)))
    BY DEF Stop
  <2> QED BY <2>1, SentNamed DEF At
<1> QED BY <1>1 DEF Stop, DInv, Exact, OneEach

LEMMA CrashDInv ==
    ASSUME DInv, NEW d \in Devices, Crash(d)
    PROVE  DInv'
  BY DEF Crash, DInv, Exact, OneEach, RootsNamed, Bases

\* Answers are not notifications.
LEMMA AnswerDInv ==
    ASSUME DInv, NEW d \in Devices, AnswerSearch(d)
    PROVE  DInv'
<1>1. \A m \in Sent("answer", Answers(At(d), search)) : m.nts = "answer"
  BY DEF Sent
<1>2. RootsNamed'
  BY <1>1 DEF AnswerSearch, DInv, RootsNamed
<1> QED BY <1>2 DEF AnswerSearch, network, DInv, Exact, OneEach

LEMMA HearDInv ==
    ASSUME DInv, ~misled, NEW m \in air, HearAlive(m) \/ HearAnswer(m)
    PROVE  DInv'
<1>1. PICK o \in Added(m) : Take(m, o)
  BY DEF HearAlive, HearAnswer
<1>2. /\ cache' = o.cache /\ UNCHANGED <<up, port, air>>
      /\ misled' = Misled(m, o)
  BY <1>1 DEF Take, network
<1>3. ASSUME ~misled' PROVE Exact(o.cache)
  <2>1. ~o.wrong /\ ~(m.nts = "answer" /\ \A d \in Devices : Root(d) # m.udn)
    BY <1>2, <1>3 DEF Misled, Root
  <2>2. PICK d \in Devices : m.udn = Root(d)
    BY <2>1 DEF HearAlive, HearAnswer, DInv, RootsNamed
  <2> QED BY <2>1, <2>2, AddedExact
<1> QED BY <1>2, <1>3 DEF DInv, Exact, OneEach, RootsNamed

\* The entry of a root device is removed by its name.
LEMMA RemovedExact ==
    ASSUME Exact(cache), NEW d \in Devices, RemoveNamed(Root(d))
    PROVE  Exact(cache')
<1> DEFINE at == ByUdn(Forest, Root(d))
<1>1. cache' = IF at = Nothing THEN cache ELSE Deleted(cache, at)
  BY DEF RemoveNamed
<1>2. at = Nothing \/ (at = <<at[1], <<>>>> /\ at[1] \in DOMAIN cache)
  BY RootFound
<1> DEFINE k == at[1]
<1> HIDE DEF at
<1>3. ASSUME at # Nothing PROVE Exact(Deleted(cache, at))
  <2>1. at = <<k, <<>>>> /\ k \in DOMAIN cache
    BY <1>2, <1>3
  <2> HIDE DEF k
  <2>2. Exact(Deleted(cache, <<k, <<>>>>))
    BY <2>1, DeletedExact
  <2> QED BY <2>1, <2>2
<1> QED BY <1>1, <1>3

LEMMA ByeDInv ==
    ASSUME DInv, ~misled, NEW m \in air, HearBye(m)
    PROVE  DInv'
<1>1. PICK d \in Devices : m.udn = Root(d)
  BY DEF HearBye, DInv, RootsNamed
<1>2. Exact(cache')
  BY <1>1, RemovedExact DEF HearBye, DInv
<1> QED BY <1>2 DEF HearBye, network, DInv, Exact, OneEach, RootsNamed

\* The name in the packet of an entry is its root device's.
LEMMA ExpireDInv ==
    ASSUME DInv, ~misled, NEW u, Expire(u)
    PROVE  DInv'
<1>1. PICK i \in DOMAIN cache : cache[i].tree[<<>>].packet.udn = u
  BY DEF Expire
<1>2. PICK d \in Devices, base \in Bases : cache[i] = Entry(d, base)
  BY <1>1 DEF DInv, Exact, Entries
<1>3. u = Root(d)
  <2> DEFINE v == Entry(d, base).tree[<<>>].packet
  <2>1. v = [udn |-> Root(d), port |-> base]
    BY EntryFacts
  <2>2. v.udn = u
    BY <1>1, <1>2
  <2> HIDE DEF v
  <2> QED BY <2>1, <2>2
<1>4. Exact(cache')
  BY <1>3, RemovedExact DEF Expire, DInv
<1> QED BY <1>4 DEF Expire, network, DInv, Exact, OneEach, RootsNamed

LEMMA NextDInv ==
    ASSUME DInv, [Next]_vars
    PROVE  DInv'
<1>1. ASSUME UNCHANGED vars PROVE DInv'
  BY <1>1 DEF vars, network, DInv, Exact, OneEach, RootsNamed
<1>2. ASSUME Next PROVE DInv'
  <2>1. ASSUME NEW d \in Devices, Start(d) \/ Stop(d) \/ Crash(d) \/ AnswerSearch(d) PROVE DInv'
    BY <2>1, StartDInv, StopDInv, CrashDInv, AnswerDInv
  <2>2. ASSUME NEW m \in air, HearAlive(m) \/ HearAnswer(m) \/ HearBye(m) PROVE DInv'
    BY <1>2, <2>2, HearDInv, ByeDInv DEF Next
  <2>3. ASSUME NEW u, Expire(u) PROVE DInv'
    BY <1>2, <2>3, ExpireDInv DEF Next
  <2> QED BY <1>2, <2>1, <2>2, <2>3 DEF Next
<1> QED BY <1>1, <1>2

LEMMA DInvExact ==
    ASSUME DInv
    PROVE  CacheIsExact
<1> SUFFICES ASSUME ~misled, NEW i \in DOMAIN cache
             PROVE  LET root == cache[i].tree[<<>>]
                    IN /\ \E d \in Devices :
                             cache[i].tree = [Parsed(d) EXCEPT ![<<>>].packet = root.packet]
                       /\ root.packet = [udn |-> root.udn, port |-> cache[i].base]
                       /\ \A j \in DOMAIN cache : cache[j].tree[<<>>].udn = root.udn => j = i
  BY DEF CacheIsExact
<1>1. PICK d \in Devices, base \in Bases : cache[i] = Entry(d, base)
  BY DEF DInv, Exact, Entries
<1> DEFINE root == cache[i].tree[<<>>]
           v == [udn |-> Root(d), port |-> base]
<1>2. root.udn = Root(d) /\ root.packet = v /\ cache[i].base = base
  <2>1. /\ Entry(d, base).tree[<<>>].udn = Root(d) /\ Entry(d, base).tree[<<>>].packet = v
        /\ Entry(d, base).base = base
    BY EntryFacts
  <2> QED BY <1>1, <2>1
<1>3. cache[i].tree = [Parsed(d) EXCEPT ![<<>>].packet = v]
  BY <1>1 DEF Entry
<1>4. \A j \in DOMAIN cache : cache[j].tree[<<>>].udn = root.udn => j = i
  BY DEF DInv, Exact, OneEach
<1> HIDE DEF root
<1>5. cache[i].tree = [Parsed(d) EXCEPT ![<<>>].packet = root.packet]
  BY <1>2, <1>3
<1>6. root.packet = [udn |-> root.udn, port |-> cache[i].base]
  BY <1>2
<1> QED BY <1>4, <1>5, <1>6 DEF root

LEMMA SpecDInv == Spec => []DInv
<1>1. Init => DInv
  BY InitDInv
<1>2. DInv /\ [Next]_vars => DInv'
  BY NextDInv
<1> QED BY <1>1, <1>2, PTL DEF Spec

\* Unless it was misled, the control point has one entry for a root device, the whole
\* description from the location in its packet (cg_upnp_controlpoint_adddevicebyssdppacket).
THEOREM CacheStaysExact == Spec => []CacheIsExact
<1>1. DInv => CacheIsExact
  BY DInvExact
<1> QED BY <1>1, SpecDInv, PTL

-----------------------------------------------------------------------------
(* Look-ups of services.                                                   *)

ServicesOf(t) == UNION {{p} \X DOMAIN t[p].services : p \in DOMAIN t}

LEMMA ServiceIsSomething ==
    ASSUME NEW t, Described(t), NEW at \in ServicesOf(t)
    PROVE  /\ at # Nothing /\ at = <<at[1], at[2]>>
           /\ at[1] \in DOMAIN t /\ at[2] \in DOMAIN t[at[1]].services
<1>1. at = <<at[1], at[2]>> /\ at[1] \in DOMAIN t /\ at[2] \in DOMAIN t[at[1]].services
  BY DEF ServicesOf
<1>2. at[1] \in Seq(Nat) /\ at[2] \in Nat
  BY <1>1 DEF Described, IsTree
<1>3. at \in Seq(Nat) \X Nat
  BY <1>1, <1>2
<1> QED BY <1>1, <1>3, NothingAssumption

\* A look-up finds a service that fits if there is one.
LEMMA ByServiceTypeFinds ==
    ASSUME NEW t, Described(t), NEW x, NEW at \in ServicesOf(t),
           t[at[1]].services[at[2]].type = x
    PROVE  ServiceByExactType(t, x) # Nothing
<1> DEFINE F == {a \in ServicesOf(t) : t[a[1]].services[a[2]].type = x}
<1>1. F \subseteq ServicesOf(t) /\ F # {}
  OBVIOUS
<1>2. ServiceByExactType(t, x) = IF F = {} THEN Nothing ELSE CHOOSE a \in F :
          \A b \in F : IF a[1] = b[1] THEN a[2] <= b[2] ELSE Before(a[1], b[1])
  BY DEF ServiceByExactType, ServiceBelow, FirstFound, ServicesOf
<1> HIDE DEF F
<1>3. \E a \in F : \A b \in F : IF a[1] = b[1] THEN a[2] <= b[2] ELSE Before(a[1], b[1])
  BY <1>1, FirstService DEF ServicesOf
<1>4. ServiceByExactType(t, x) \in F
  BY <1>1, <1>2, <1>3
<1> QED BY <1>1, <1>4, ServiceIsSomething

\* A look-up of what one service only fits finds that one.
LEMMA ByScpdUrlFinds ==
    ASSUME NEW t, Described(t), NEW url, NEW at \in ServicesOf(t),
           \A b \in ServicesOf(t) : t[b[1]].services[b[2]].scpd = url <=> b = at
    PROVE  ServiceByScpdUrl(t, url) = at
<1> DEFINE F == {a \in ServicesOf(t) : t[a[1]].services[a[2]].scpd = url}
<1>1. F = {at}
  OBVIOUS
<1>2. ServiceByScpdUrl(t, url) = IF F = {} THEN Nothing ELSE CHOOSE a \in F :
          \A b \in F : IF a[1] = b[1] THEN a[2] <= b[2] ELSE Before(a[1], b[1])
  BY DEF ServiceByScpdUrl, ServiceBelow, FirstFound, ServicesOf
<1>3. F \subseteq ServicesOf(t) /\ F # {}
  OBVIOUS
<1> HIDE DEF F
<1>4. \E a \in F : \A b \in F : IF a[1] = b[1] THEN a[2] <= b[2] ELSE Before(a[1], b[1])
  BY <1>3, FirstService DEF ServicesOf
<1> QED BY <1>1, <1>2, <1>4

LEMMA ByEventUrlFinds ==
    ASSUME NEW t, Described(t), NEW url, NEW at \in ServicesOf(t),
           \A b \in ServicesOf(t) : t[b[1]].services[b[2]].event = url <=> b = at
    PROVE  ServiceByEventUrl(t, url) = at
<1> DEFINE F == {a \in ServicesOf(t) : t[a[1]].services[a[2]].event = url}
<1>1. F = {at}
  OBVIOUS
<1>2. ServiceByEventUrl(t, url) = IF F = {} THEN Nothing ELSE CHOOSE a \in F :
          \A b \in F : IF a[1] = b[1] THEN a[2] <= b[2] ELSE Before(a[1], b[1])
  BY DEF ServiceByEventUrl, ServiceBelow, FirstFound, ServicesOf
<1>3. F \subseteq ServicesOf(t) /\ F # {}
  OBVIOUS
<1> HIDE DEF F
<1>4. \E a \in F : \A b \in F : IF a[1] = b[1] THEN a[2] <= b[2] ELSE Before(a[1], b[1])
  BY <1>3, FirstService DEF ServicesOf
<1> QED BY <1>1, <1>2, <1>4

LEMMA ByControlUrlFinds ==
    ASSUME NEW t, Described(t), NEW url, NEW at \in ServicesOf(t),
           \A b \in ServicesOf(t) : HasPart(t[b[1]].services[b[2]].control, url) <=> b = at
    PROVE  ServiceByControlUrl(t, url) = at
<1> DEFINE F == {a \in ServicesOf(t) : HasPart(t[a[1]].services[a[2]].control, url)}
<1>1. F = {at}
  OBVIOUS
<1>2. ServiceByControlUrl(t, url) = IF F = {} THEN Nothing ELSE CHOOSE a \in F :
          \A b \in F : IF a[1] = b[1] THEN a[2] <= b[2] ELSE Before(a[1], b[1])
  BY DEF ServiceByControlUrl, ServiceBelow, FirstFound, ServicesOf
<1>3. F \subseteq ServicesOf(t) /\ F # {}
  OBVIOUS
<1> HIDE DEF F
<1>4. \E a \in F : \A b \in F : IF a[1] = b[1] THEN a[2] <= b[2] ELSE Before(a[1], b[1])
  BY <1>3, FirstService DEF ServicesOf
<1> QED BY <1>1, <1>2, <1>4

\* A URL contains itself.
LEMMA WholePart ==
    ASSUME NEW M, NEW s \in Seq(M)
    PROVE  HasPart(s, s)
<1>1. Len(s) \in Nat /\ 0 \in 0 .. Len(s) - Len(s)
  OBVIOUS
<1>2. SubSeq(s, 0 + 1, 0 + Len(s)) = s
  OBVIOUS
<1> QED BY <1>1, <1>2 DEF HasPart

\* The requests to the URLs of a service of d reach it.
LEMMA UrlsReach ==
    ASSUME NEW d \in Devices, NEW p \in DOMAIN Tree[d], NEW k \in DOMAIN Tree[d][p].services,
           NEW s, s = Tree[d][p].services[k]
    PROVE  /\ ServiceByScpdUrl(Tree[d], s.scpd) = <<p, k>>
           /\ ServiceByEventUrl(Tree[d], s.event) = <<p, k>>
           /\ (\A o \in {Tree[d][q].services : q \in DOMAIN Tree[d]} : \A j \in DOMAIN o :
                  o[j] # s => ~HasPart(o[j].control, s.control))
              => ServiceByControlUrl(Tree[d], s.control) = <<p, k>>
<1> DEFINE t == Tree[d]
           at == <<p, k>>
<1>1. Described(t) /\ at \in ServicesOf(t) /\ at[1] = p /\ at[2] = k
  BY TreeFacts DEF ServicesOf
<1>2. ASSUME NEW b \in ServicesOf(t)
      PROVE  /\ b[1] \in DOMAIN t /\ b[2] \in DOMAIN t[b[1]].services
             /\ b = at <=> b[1] = p /\ b[2] = k
  <2> HIDE DEF t
  <2> QED BY <1>1, ServiceIsSomething
<1>3. ASSUME NEW b \in ServicesOf(t)
      PROVE  LET o == t[b[1]].services[b[2]]
             IN o.scpd = s.scpd \/ o.event = s.event => b[1] = p /\ b[2] = k
  <2>1. /\ s = t[p].services[k] /\ p \in DOMAIN t /\ k \in DOMAIN t[p].services
        /\ b[1] \in DOMAIN t /\ b[2] \in DOMAIN t[b[1]].services
    BY <1>2
  <2>2. \A q \in DOMAIN t : \A j \in DOMAIN t[q].services :
            LET o == t[q].services[j]
            IN s.scpd = o.scpd \/ s.event = o.event => p = q /\ k = j
    BY <2>1, UrlAssumption
  <2> HIDE DEF t
  <2> QED BY ONLY <2>1, <2>2
<1>4. ASSUME NEW b \in ServicesOf(t)
      PROVE  LET o == t[b[1]].services[b[2]]
             IN (o.scpd = s.scpd <=> b = at) /\ (o.event = s.event <=> b = at)
  <2>1. b[1] = p /\ b[2] = k => t[b[1]].services[b[2]] = s
    OBVIOUS
  <2> HIDE DEF t, at
  <2> QED BY <1>2, <1>3, <2>1
<1>5. ServiceByScpdUrl(t, s.scpd) = at
  <2> HIDE DEF t, at
  <2> QED BY <1>1, <1>4, ByScpdUrlFinds
<1>6. ServiceByEventUrl(t, s.event) = at
  <2> HIDE DEF t, at
  <2> QED BY <1>1, <1>4, ByEventUrlFinds
<1>7. ASSUME \A o \in {t[q].services : q \in DOMAIN t} : \A j \in DOMAIN o :
                 o[j] # s => ~HasPart(o[j].control, s.control)
      PROVE  ServiceByControlUrl(t, s.control) = at
  <2>1. s.control \in Seq(ToSet(s.control))
    BY UrlAssumption
  <2>2. HasPart(s.control, s.control)
    BY <2>1, WholePart
  <2>3. ASSUME NEW b \in ServicesOf(t)
        PROVE  HasPart(t[b[1]].services[b[2]].control, s.control) <=> b = at
    <3> DEFINE o == t[b[1]].services[b[2]]
    <3>1. HasPart(o.control, s.control) => o = s
      <4> HIDE DEF t
      <4> QED BY <1>2, <1>7
    <3>2. o = s <=> b = at
      <4>1. o = s => b = at
        BY <1>4
      <4>2. b = at => o = s
        BY <1>2
      <4> QED BY <4>1, <4>2
    <3> HIDE DEF o
    <3> QED BY <2>2, <3>1, <3>2 DEF o
  <2> HIDE DEF t, at
  <2> QED BY <1>1, <2>3, ByControlUrlFinds
<1> QED BY <1>5, <1>6, <1>7

\* The entry under the name of a root device is its entry.
LEMMA EntryOf ==
    ASSUME Exact(cache), NEW d \in Devices, NEW i \in DOMAIN cache,
           cache[i].tree[<<>>].udn = Root(d)
    PROVE  \E base \in Bases : cache[i] = Entry(d, base)
<1>1. PICK e \in Devices, base \in Bases : cache[i] = Entry(e, base)
  BY DEF Exact, Entries
<1>2. Entry(e, base).tree[<<>>].udn = Root(e)
  BY EntryFacts
<1>3. Root(e) = Root(d)
  BY <1>1, <1>2
<1>4. e = d
  BY <1>3, TreeFacts, RootUdn DEF Root
<1> QED BY <1>1, <1>4

\* A name leads to the device that has it.
LEMMA UdnReaches ==
    ASSUME Exact(cache), NEW d \in Devices, NEW i \in DOMAIN cache,
           cache[i].tree[<<>>].udn = Root(d), NEW p \in DOMAIN Tree[d]
    PROVE  ByUdn(Forest, Tree[d][p].udn) = <<i, p>>
<1> DEFINE u == Tree[d][p].udn
           found == {at \in PlacesOf(Forest) : Forest[at[1]][at[2]].udn = u}
<1>1. IsForest(Forest) /\ DOMAIN Forest = DOMAIN cache
  BY ExactForest
<1>2. PICK base \in Bases : cache[i] = Entry(d, base)
  BY EntryOf
<1>3. <<i, p>> \in found
  <2>1. DOMAIN Entry(d, base).tree = DOMAIN Tree[d] /\ Entry(d, base).tree[p].udn = u
    <3>1. DOMAIN Entry(d, base).tree = DOMAIN Tree[d]
      BY EntryFacts
    <3> QED BY <3>1, EntryUdn
  <2>2. Forest[i] = Entry(d, base).tree
    BY <1>2 DEF Forest
  <2>3. <<i, p>> \in PlacesOf(Forest)
    BY <1>1, <2>1, <2>2 DEF PlacesOf
  <2> QED BY <2>1, <2>2, <2>3
<1>4. ASSUME NEW at \in found PROVE at = <<i, p>>
  <2>1. at = <<at[1], at[2]>> /\ at[1] \in DOMAIN cache /\ at[2] \in DOMAIN Forest[at[1]]
    BY <1>1, PlaceIsSomething
  <2>2. PICK e \in Devices, b \in Bases : cache[at[1]] = Entry(e, b)
    BY <2>1 DEF Exact, Entries
  <2>3. Forest[at[1]] = Entry(e, b).tree
    BY <2>1, <2>2 DEF Forest
  <2>4. at[2] \in DOMAIN Tree[e]
    <3>1. DOMAIN Entry(e, b).tree = DOMAIN Tree[e]
      BY EntryFacts
    <3> QED BY <2>1, <2>3, <3>1
  <2>5. Tree[e][at[2]].udn = u
    <3>1. Entry(e, b).tree[at[2]].udn = Tree[e][at[2]].udn
      BY <2>4, EntryUdn
    <3> QED BY <2>3, <3>1
  <2>6. e = d /\ at[2] = p
    BY <2>4, <2>5, UdnAssumption
  <2>7. cache[at[1]].tree[<<>>].udn = Root(d)
    <3>1. Entry(d, b).tree[<<>>].udn = Root(d)
      BY EntryFacts
    <3> QED BY <2>2, <2>6, <3>1
  <2>8. at[1] = i
    BY <2>1, <2>7 DEF Exact, OneEach
  <2> QED BY <2>1, <2>6, <2>8
<1>5. ByUdn(Forest, u) \in found
  <2>1. IF found = {} THEN ByUdn(Forest, u) = Nothing ELSE ByUdn(Forest, u) \in found
    BY <1>1, ByUdnFinds
  <2> QED BY <1>3, <2>1
<1> HIDE DEF found, u
<1> QED BY <1>4, <1>5 DEF u

\* The types that an announcement names are those of the devices and of their services.
LEMMA AnnouncedUrn ==
    ASSUME NEW d \in Devices, NEW m \in ToSet(Announced(At(d))), m.nt.kind = "urn"
    PROVE  \E p \in DOMAIN Tree[d] :
              \/ m.nt.name = Tree[d][p].type
              \/ \E k \in DOMAIN Tree[d][p].services : m.nt.name = Tree[d][p].services[k].type
<1> DEFINE t == At(d)
<1>1. /\ Described(t) /\ DOMAIN t = DOMAIN Tree[d]
      /\ \A p \in DOMAIN t : t[p].type = Tree[d][p].type /\ t[p].services = Tree[d][p].services
  BY AtFacts DEF At
<1>2. ASSUME NEW u, NEW x, NEW name PROVE Message(u, Urn(name), x).nt.name = name
  BY DEF Message, Urn
<1>3. ASSUME NEW u, NEW x, NEW name PROVE Message(u, Uuid(name), x).nt.kind # "urn"
  BY DEF Message, Uuid
<1>4. ASSUME NEW u, NEW x PROVE Message(u, RootDevice, x).nt.kind # "urn"
  BY DEF Message, RootDevice
<1> HIDE DEF t
<1>5. PICK p \in DOMAIN t :
         \/ p = <<>> /\ m = Message(t[<<>>].udn, RootDevice, t[<<>>].port)
         \/ m = Message(t[p].udn, Urn(t[p].type), t[p].port)
         \/ m = Message(t[p].udn, Uuid(t[p].udn), t[p].port)
         \/ \E i \in DOMAIN t[p].services :
                m = Message(t[p].udn, Urn(t[p].services[i].type), t[<<>>].port)
  BY <1>1, AnnouncedRange DEF t
<1>6. \/ m.nt.name = t[p].type
      \/ \E k \in DOMAIN t[p].services : m.nt.name = t[p].services[k].type
  BY <1>2, <1>3, <1>4, <1>5
<1> QED BY <1>1, <1>6

\* A type leads to a device or to a service of that type.
LEMMA TypeReaches ==
    ASSUME Exact(cache), NEW d \in Devices, NEW i \in DOMAIN cache,
           cache[i].tree[<<>>].udn = Root(d),
           NEW m \in ToSet(Announced(At(d))), m.nt.kind = "urn"
    PROVE  LET byType == ByExactType(Forest, m.nt.name)
               anyVersion == ByType(Forest, m.nt.name.urn)
               service == ServiceByExactType(cache[i].tree, m.nt.name)
           IN \/ service # Nothing
              \/ /\ Forest[byType[1]][byType[2]].type = m.nt.name
                 /\ anyVersion[1] <= byType[1] /\ byType[1] <= i
<1> DEFINE x == m.nt.name
           byType == ByExactType(Forest, x)
           anyVersion == ByType(Forest, x.urn)
           found == {at \in PlacesOf(Forest) : Forest[at[1]][at[2]].type = x}
           others == {at \in PlacesOf(Forest) : Forest[at[1]][at[2]].type.urn = x.urn}
<1>1. IsForest(Forest) /\ DOMAIN Forest = DOMAIN cache
  BY ExactForest
<1>2. PICK base \in Bases : cache[i] = Entry(d, base)
  BY EntryOf
<1>3. PICK p \in DOMAIN Tree[d] :
              \/ x = Tree[d][p].type
              \/ \E k \in DOMAIN Tree[d][p].services : x = Tree[d][p].services[k].type
  BY AnnouncedUrn
<1>4. /\ DOMAIN Forest[i] = DOMAIN Tree[d] /\ Forest[i] = cache[i].tree
      /\ Forest[i][p].type = Tree[d][p].type /\ Forest[i][p].services = Tree[d][p].services
  <2>1. DOMAIN Entry(d, base).tree = DOMAIN Tree[d]
    BY EntryFacts
  <2>2. Forest[i] = Entry(d, base).tree /\ Forest[i] = cache[i].tree
    BY <1>2 DEF Forest
  <2> DEFINE n == Entry(d, base).tree[p]
  <2>3. n = [udn |-> Tree[d][p].udn, type |-> Tree[d][p].type,
             services |-> Tree[d][p].services,
             packet |-> IF p = <<>> THEN [udn |-> Root(d), port |-> base] ELSE Nothing]
    BY EntryNode
  <2>4. n = Forest[i][p]
    BY <2>2
  <2> HIDE DEF n
  <2>5. n.type = Tree[d][p].type /\ n.services = Tree[d][p].services
    BY <2>3
  <2> QED BY <2>1, <2>2, <2>4, <2>5
<1>5. CASE x = Tree[d][p].type
  <2>1. <<i, p>> \in found
    <3>1. <<i, p>> \in PlacesOf(Forest)
      BY <1>1, <1>4 DEF PlacesOf
    <3> QED BY <1>4, <1>5, <3>1
  <2>2. byType \in found /\ \A b \in found : byType[1] <= b[1]
    <3>1. found # {} => byType \in found /\ \A b \in found : byType[1] <= b[1]
      BY <1>1, ByExactTypeFinds
    <3> QED BY <2>1, <3>1
  <2>3. byType[1] <= i /\ Forest[byType[1]][byType[2]].type = x /\ byType \in PlacesOf(Forest)
    <3>1. byType[1] <= <<i, p>>[1]
      <4> HIDE DEF found, byType
      <4> QED BY <2>1, <2>2
    <3> QED BY <2>2, <3>1
  <2>4. byType \in others
    BY <2>3
  <2>5. anyVersion[1] <= byType[1]
    <3>1. others # {} => \A b \in others : anyVersion[1] <= b[1]
      BY <1>1, ByTypeFinds
    <3> HIDE DEF others, byType, anyVersion
    <3> QED BY <2>4, <3>1
  <2> QED BY <2>3, <2>5
<1>6. CASE \E k \in DOMAIN Tree[d][p].services : x = Tree[d][p].services[k].type
  <2> DEFINE t == cache[i].tree
  <2>1. PICK k \in DOMAIN Tree[d][p].services : x = Tree[d][p].services[k].type
    BY <1>6
  <2>2. Described(t)
    <3>1. IsTree(t)
      BY <1>1, <1>4 DEF IsForest
    <3>2. ASSUME NEW q \in DOMAIN t PROVE t[q].services \in Seq(ToSet(t[q].services))
      <4>1. q \in DOMAIN Tree[d] /\ t[q] = Entry(d, base).tree[q]
        BY <1>2, <1>4
      <4> DEFINE n == t[q]
      <4>2. n = [udn |-> Tree[d][q].udn, type |-> Tree[d][q].type,
                 services |-> Tree[d][q].services,
                 packet |-> IF q = <<>> THEN [udn |-> Root(d), port |-> base] ELSE Nothing]
        BY <4>1, EntryNode
      <4> HIDE DEF n
      <4>3. n.services = Tree[d][q].services
        BY <4>2
      <4> QED BY <4>1, <4>3, TreeFacts DEF Described, n
    <3> QED BY <3>1, <3>2 DEF Described
  <2>3. <<p, k>> \in ServicesOf(t) /\ t[p].services[k].type = x
    BY <1>4, <2>1 DEF ServicesOf
  <2> HIDE DEF t
  <2>4. t[<<p, k>>[1]].services[<<p, k>>[2]].type = x
    BY <2>3
  <2>5. ServiceByExactType(t, x) # Nothing
    BY <2>2, <2>3, <2>4, ByServiceTypeFinds
  <2> QED BY <2>5 DEF t
<1> QED BY <1>3, <1>5, <1>6

LEMMA DInvReached ==
    ASSUME DInv
    PROVE  AnnouncedReached
<1> SUFFICES ASSUME ~misled, NEW i \in DOMAIN cache, NEW d \in Devices,
                    cache[i].tree[<<>>].udn = Root(d)
             PROVE  /\ \A p \in DOMAIN Tree[d] : ByUdn(Forest, Tree[d][p].udn) = <<i, p>>
                    /\ \A m \in ToSet(Announced(At(d))) : m.nt.kind = "urn" =>
                          LET byType == ByExactType(Forest, m.nt.name)
                              anyVersion == ByType(Forest, m.nt.name.urn)
                              service == ServiceByExactType(cache[i].tree, m.nt.name)
                          IN \/ service # Nothing
                             \/ /\ Forest[byType[1]][byType[2]].type = m.nt.name
                                /\ anyVersion[1] <= byType[1] /\ byType[1] <= i
                    /\ \A p \in DOMAIN Tree[d] : \A k \in DOMAIN Tree[d][p].services :
                          LET s == cache[i].tree[p].services[k]
                              Others == {Tree[d][q].services : q \in DOMAIN Tree[d]}
                          IN /\ ServiceByScpdUrl(Tree[d], s.scpd) = <<p, k>>
                             /\ ServiceByEventUrl(Tree[d], s.event) = <<p, k>>
                             /\ (\A o \in Others : \A j \in DOMAIN o :
                                    o[j] # s => ~HasPart(o[j].control, s.control))
                                => ServiceByControlUrl(Tree[d], s.control) = <<p, k>>
  BY DEF AnnouncedReached
<1>1. Exact(cache)
  BY DEF DInv
<1>2. \A p \in DOMAIN Tree[d] : ByUdn(Forest, Tree[d][p].udn) = <<i, p>>
  BY <1>1, UdnReaches
<1>3. PICK base \in Bases : cache[i] = Entry(d, base)
  BY <1>1, EntryOf
<1>4. ASSUME NEW p \in DOMAIN Tree[d] PROVE cache[i].tree[p].services = Tree[d][p].services
  <2> DEFINE n == Entry(d, base).tree[p]
  <2>1. n = [udn |-> Tree[d][p].udn, type |-> Tree[d][p].type,
             services |-> Tree[d][p].services,
             packet |-> IF p = <<>> THEN [udn |-> Root(d), port |-> base] ELSE Nothing]
    BY EntryNode
  <2>2. n = cache[i].tree[p]
    BY <1>3
  <2> HIDE DEF n
  <2>3. n.services = Tree[d][p].services
    BY <2>1
  <2> QED BY <2>2, <2>3
<1>5. ASSUME NEW p \in DOMAIN Tree[d], NEW k \in DOMAIN Tree[d][p].services
      PROVE  LET s == cache[i].tree[p].services[k]
                 Others == {Tree[d][q].services : q \in DOMAIN Tree[d]}
             IN /\ ServiceByScpdUrl(Tree[d], s.scpd) = <<p, k>>
                /\ ServiceByEventUrl(Tree[d], s.event) = <<p, k>>
                /\ (\A o \in Others : \A j \in DOMAIN o :
                       o[j] # s => ~HasPart(o[j].control, s.control))
                   => ServiceByControlUrl(Tree[d], s.control) = <<p, k>>
  <2> DEFINE s == cache[i].tree[p].services[k]
  <2>1. s = Tree[d][p].services[k]
    BY <1>4
  <2> HIDE DEF s
  <2>2. /\ ServiceByScpdUrl(Tree[d], s.scpd) = <<p, k>>
        /\ ServiceByEventUrl(Tree[d], s.event) = <<p, k>>
        /\ (\A o \in {Tree[d][q].services : q \in DOMAIN Tree[d]} : \A j \in DOMAIN o :
               o[j] # s => ~HasPart(o[j].control, s.control))
           => ServiceByControlUrl(Tree[d], s.control) = <<p, k>>
    BY <2>1, UrlsReach
  <2> QED BY <2>2 DEF s
<1>6. ASSUME NEW m \in ToSet(Announced(At(d))), m.nt.kind = "urn"
      PROVE  LET byType == ByExactType(Forest, m.nt.name)
                 anyVersion == ByType(Forest, m.nt.name.urn)
                 service == ServiceByExactType(cache[i].tree, m.nt.name)
             IN \/ service # Nothing
                \/ /\ Forest[byType[1]][byType[2]].type = m.nt.name
                   /\ anyVersion[1] <= byType[1] /\ byType[1] <= i
  BY <1>1, <1>6, TypeReaches
<1> QED BY <1>2, <1>5, <1>6

\* What an announcement of a cached device names is found, and a request to a service's URLs
\* reaches it at its device (the look-ups of cdevice_list, cdevice and cservice_list).
THEOREM AnnouncementsReach == Spec => []AnnouncedReached
<1>1. DInv => AnnouncedReached
  BY DInvReached
<1> QED BY <1>1, SpecDInv, PTL

-----------------------------------------------------------------------------
(* Maps and filters of sequences.                                          *)

\* Induction on sequences, with a set.
LEMMA SeqInduction ==
    ASSUME NEW S, NEW T, <<>> \in T, \A s \in Seq(S), x \in S : s \in T => Append(s, x) \in T
    PROVE  Seq(S) \subseteq T
<1> DEFINE N == {n \in Nat : \A s \in Seq(S) : Len(s) = n => s \in T}
<1>1. 0 \in N
  <2>1. \A s \in Seq(S) : Len(s) = 0 => s = <<>>
    BY EmptySeq
  <2> QED BY <2>1
<1>2. ASSUME NEW n \in Nat, n \in N PROVE n + 1 \in N
  <2> SUFFICES ASSUME NEW s \in Seq(S), Len(s) = n + 1 PROVE s \in T
    OBVIOUS
  <2>1. s # <<>>
    BY EmptySeq
  <2>2. PICK u \in Seq(S), x \in S : s = Append(u, x)
    BY <2>1, SequenceEmptyOrAppend
  <2>3. Len(u) = n
    BY <2>2, AppendProperties
  <2> QED BY <1>2, <2>2, <2>3
<1>3. Nat \subseteq N
  <2> HIDE DEF N
  <2> QED BY <1>1, <1>2, NatSteps
<1>4. \A s \in Seq(S) : Len(s) \in N
  BY <1>3
<1> QED BY <1>4

LEMMA ConcatAppend ==
    ASSUME NEW S, NEW s \in Seq(S), NEW u \in Seq(S), NEW x \in S
    PROVE  s \o Append(u, x) = Append(s \o u, x)
<1>1. Append(u, x) = u \o <<x>> /\ <<x>> \in Seq(S) /\ s \o u \in Seq(S)
  BY AppendIsConcat
<1>2. Append(s \o u, x) = (s \o u) \o <<x>>
  BY <1>1, AppendIsConcat
<1>3. s \o (u \o <<x>>) = (s \o u) \o <<x>>
  BY <1>1, ConcatAssociative
<1> QED BY <1>1, <1>2, <1>3

\* H keeps sequences and what they are put together from.
Morphism(H, M, N) ==
    /\ H \in [Seq(M) -> Seq(N)]
    /\ H[<<>>] = <<>>
    /\ \A a, b \in Seq(M) : H[a \o b] = H[a] \o H[b]

LEMMA FlattenMap ==
    ASSUME NEW M, NEW N, NEW H, Morphism(H, M, N), NEW ss \in Seq(Seq(M))
    PROVE  FlattenSeq([i \in DOMAIN ss |-> H[ss[i]]]) = H[FlattenSeq(ss)]
<1> DEFINE map(s) == [i \in DOMAIN s |-> H[s[i]]]
           T == {s \in Seq(Seq(M)) : FlattenSeq(map(s)) = H[FlattenSeq(s)]}
<1>1. <<>> \in T
  <2>1. map(<<>>) = <<>>
    OBVIOUS
  <2>2. <<>> \in Seq(Seq(M))
    OBVIOUS
  <2> HIDE DEF map
  <2> QED BY <2>1, <2>2, FlattenEmpty DEF Morphism
<1>2. ASSUME NEW s \in Seq(Seq(M)), NEW x \in Seq(M), s \in T PROVE Append(s, x) \in T
  <2> DEFINE y == Append(s, x)
             n == Len(s)
  <2>1. /\ y \in Seq(Seq(M)) /\ Len(y) = n + 1 /\ n \in Nat
        /\ \A i \in 1 .. n : y[i] = s[i]
        /\ y[n + 1] = x
    BY AppendProperties
  <2>2. /\ DOMAIN s = 1 .. n /\ DOMAIN y = 1 .. n + 1
        /\ \A i \in 1 .. n : s[i] \in Seq(M)
        /\ H \in [Seq(M) -> Seq(N)]
    BY <2>1 DEF Morphism
  <2> HIDE DEF y
  <2>3. map(s) \in Seq(Seq(N)) /\ Len(map(s)) = n /\ \A i \in 1 .. n : map(s)[i] = H[s[i]]
    <3>1. map(s) \in [1 .. n -> Seq(N)]
      BY <2>2
    <3> QED BY <2>1, <2>2, <3>1, SeqDef
  <2>4. /\ map(y) \in Seq(Seq(N)) /\ Len(map(y)) = n + 1
        /\ \A i \in 1 .. n + 1 : map(y)[i] = H[y[i]]
    <3>1. \A i \in 1 .. n + 1 : y[i] \in Seq(M)
      BY <2>1
    <3>2. map(y) \in [1 .. n + 1 -> Seq(N)]
      BY <2>2, <3>1
    <3> QED BY <2>1, <2>2, <3>2, SeqDef
  <2> DEFINE z == Append(map(s), H[x])
  <2>5. /\ z \in Seq(Seq(N)) /\ Len(z) = n + 1
        /\ \A i \in 1 .. n : z[i] = map(s)[i]
        /\ z[n + 1] = H[x]
    <3> DEFINE a == map(s)
               v == H[x]
    <3>1. v \in Seq(N) /\ a \in Seq(Seq(N)) /\ Len(a) = n
      BY <2>2, <2>3
    <3> HIDE DEF map, a, v
    <3>2. /\ Append(a, v) \in Seq(Seq(N)) /\ Len(Append(a, v)) = Len(a) + 1
          /\ \A i \in 1 .. Len(a) : Append(a, v)[i] = a[i]
          /\ Append(a, v)[Len(a) + 1] = v
      BY <3>1, AppendProperties
    <3> QED BY <3>1, <3>2 DEF a, v
  <2>6. map(y) = z
    <3> DEFINE w == map(y)
    <3>1. \A i \in 1 .. n + 1 : w[i] = z[i]
      <4> SUFFICES ASSUME NEW i \in 1 .. n + 1 PROVE w[i] = z[i]
        OBVIOUS
      <4>1. CASE i = n + 1
        <5> HIDE DEF map, z
        <5> QED BY <2>1, <2>4, <2>5, <4>1
      <4>2. CASE i # n + 1
        <5>1. i \in 1 .. n
          BY <2>1, <4>2
        <5> HIDE DEF map, z
        <5>2. y[i] = s[i]
          BY <2>1, <5>1
        <5>3. map(y)[i] = H[y[i]]
          BY <2>4
        <5>4. z[i] = map(s)[i] /\ map(s)[i] = H[s[i]]
          BY <2>3, <2>5, <5>1
        <5> QED BY <5>2, <5>3, <5>4
      <4> QED BY <4>1, <4>2
    <3> HIDE DEF map, z
    <3>2. w \in Seq(Seq(N)) /\ Len(w) = n + 1
      BY <2>4
    <3> HIDE DEF w
    <3>3. w = z
      BY <2>5, <3>1, <3>2, SeqEqual
    <3> QED BY <3>3 DEF w
  <2>7. FlattenSeq(z) = FlattenSeq(map(s)) \o H[x]
    <3> HIDE DEF map
    <3>1. H[x] \in Seq(N)
      BY <2>2
    <3> QED BY <2>3, <3>1, FlattenAppend
  <2>8. FlattenSeq(y) = FlattenSeq(s) \o x /\ FlattenSeq(s) \in Seq(M)
    BY FlattenAppend, FlattenType DEF y
  <2>9. H[FlattenSeq(s) \o x] = H[FlattenSeq(s)] \o H[x]
    BY <2>8 DEF Morphism
  <2> HIDE DEF map, z
  <2> QED BY <1>2, <2>1, <2>6, <2>7, <2>8, <2>9 DEF y
<1>3. Seq(Seq(M)) \subseteq T
  <2> HIDE DEF T
  <2> QED BY <1>1, <1>2, SeqInduction
<1> QED BY <1>3

\* g is what a walk of the tree t collects of the devices' own parts, entries of M.
IsWalk(t, M, own, g) ==
    \A p \in DOMAIN t : own[p] \in Seq(M) /\ g[p] = own[p] \o Each(Kids(t, p), g)

Mapped(t, H, own, part) == \A p \in DOMAIN t : part[p] = H[own[p]]

\* Two walks whose own parts correspond correspond.
LEMMA WalkMap ==
    ASSUME NEW t, IsTree(t), NEW M, NEW N, NEW H, Morphism(H, M, N),
           NEW own, NEW g, IsWalk(t, M, own, g),
           NEW part, Mapped(t, H, own, part), NEW h, IsWalk(t, N, part, h)
    PROVE  Mapped(t, H, g, h)
<1>1. /\ \A p \in DOMAIN t : own[p] \in Seq(M)
      /\ \A p \in DOMAIN t : g[p] = own[p] \o Each(Kids(t, p), g)
  BY DEF IsWalk
<1>2. \A p \in DOMAIN t : h[p] = H[own[p]] \o Each(Kids(t, p), h)
  BY DEF IsWalk, Mapped
<1> DEFINE T == {p \in DOMAIN t : h[p] = H[g[p]]}
<1>3. \A p \in DOMAIN t : g[p] \in Seq(M)
  BY <1>1, WalkType
<1>4. ASSUME NEW p \in DOMAIN t, \A i \in DOMAIN Kids(t, p) : Kids(t, p)[i] \in T
      PROVE  p \in T
  <2> DEFINE k == Kids(t, p)
             ss == [i \in DOMAIN k |-> g[k[i]]]
             e == Each(k, g)
             f == Each(k, h)
  <2>1. k \in Seq(DOMAIN t)
    BY KidsOf
  <2>2. ss \in Seq(Seq(M)) /\ e \in Seq(M) /\ DOMAIN ss = DOMAIN k
    <3> HIDE DEF k
    <3> QED BY <1>3, <2>1, EachType
  <2>3. [i \in DOMAIN k |-> h[k[i]]] = [i \in DOMAIN ss |-> H[ss[i]]]
    <3>1. \A i \in DOMAIN k : h[k[i]] = H[g[k[i]]]
      BY <1>4
    <3> HIDE DEF k
    <3> QED BY <2>2, <3>1
  <2>4. FlattenSeq([i \in DOMAIN ss |-> H[ss[i]]]) = H[FlattenSeq(ss)]
    <3> HIDE DEF ss
    <3> QED BY <2>2, FlattenMap
  <2>5. f = H[e]
    BY <2>3, <2>4 DEF Each
  <2>6. g[p] = own[p] \o e /\ h[p] = H[own[p]] \o f /\ own[p] \in Seq(M)
    BY <1>1, <1>2
  <2>7. H[own[p] \o e] = H[own[p]] \o H[e]
    <3> HIDE DEF e
    <3> QED BY <2>2, <2>6 DEF Morphism
  <2>8. h[p] = H[g[p]]
    <3> HIDE DEF e, f
    <3> QED BY <2>5, <2>6, <2>7
  <2> QED BY <2>8
<1> HIDE DEF T
<1>5. DOMAIN t \subseteq T
  BY <1>4, TreeInduction
<1> QED BY <1>5 DEF T, Mapped

\* What is kept of a sequence with one entry more.
LEMMA OnlyAppend ==
    ASSUME NEW M, NEW S, NEW s \in Seq(M), NEW x \in M
    PROVE  /\ Only(s, S) \in Seq(M)
           /\ Only(Append(s, x), S) = Only(s, S) \o (IF x \in S THEN <<x>> ELSE <<>>)
<1> DEFINE part(a) == IF a \in S THEN <<a>> ELSE <<>>
           map(a) == [i \in DOMAIN a |-> part(a[i])]
           y == Append(s, x)
           n == Len(s)
<1>1. \A a \in M : part(a) \in Seq(M)
  OBVIOUS
<1>2. \A a : Only(a, S) = FlattenSeq(map(a))
  BY DEF Only
<1>3. /\ y \in Seq(M) /\ Len(y) = n + 1 /\ n \in Nat
      /\ \A i \in 1 .. n : y[i] = s[i]
      /\ y[n + 1] = x
  BY AppendProperties
<1>4. DOMAIN s = 1 .. n /\ DOMAIN y = 1 .. n + 1 /\ \A i \in 1 .. n : s[i] \in M
  BY <1>3
<1> HIDE DEF part, y
<1>5. map(s) \in Seq(Seq(M)) /\ Len(map(s)) = n /\ \A i \in 1 .. n : map(s)[i] = part(s[i])
  <2>1. map(s) \in [1 .. n -> Seq(M)]
    BY <1>1, <1>4
  <2> QED BY <1>3, <1>4, <2>1, SeqDef
<1>6. /\ map(y) \in Seq(Seq(M)) /\ Len(map(y)) = n + 1
      /\ \A i \in 1 .. n + 1 : map(y)[i] = part(y[i])
  <2>1. \A i \in 1 .. n + 1 : y[i] \in M
    BY <1>3
  <2>2. map(y) \in [1 .. n + 1 -> Seq(M)]
    BY <1>1, <1>4, <2>1
  <2> QED BY <1>3, <1>4, <2>2, SeqDef
<1> DEFINE z == Append(map(s), part(x))
<1> HIDE DEF map
<1>7. /\ z \in Seq(Seq(M)) /\ Len(z) = n + 1
      /\ \A i \in 1 .. n : z[i] = map(s)[i]
      /\ z[n + 1] = part(x)
  BY <1>1, <1>5, AppendProperties
<1> HIDE DEF z
<1>8. \A i \in 1 .. n + 1 : map(y)[i] = z[i]
  <2> SUFFICES ASSUME NEW i \in 1 .. n + 1 PROVE map(y)[i] = z[i]
    OBVIOUS
  <2>1. CASE i = n + 1
    BY <1>3, <1>6, <1>7, <2>1
  <2>2. CASE i # n + 1
    <3>1. i \in 1 .. n
      BY <1>3, <2>2
    <3> QED BY <1>3, <1>5, <1>6, <1>7, <3>1
  <2> QED BY <2>1, <2>2
<1>9. map(y) = z
  BY <1>6, <1>7, <1>8, SeqEqual
<1>10. FlattenSeq(z) = FlattenSeq(map(s)) \o part(x)
  BY <1>1, <1>5, FlattenAppend DEF z
<1>11. FlattenSeq(map(s)) \in Seq(M)
  BY <1>5, FlattenType
<1> QED BY <1>2, <1>9, <1>10, <1>11 DEF part, y

\* A filter keeps how sequences are put together.
LEMMA OnlyMorphism ==
    ASSUME NEW M, NEW S
    PROVE  Morphism([s \in Seq(M) |-> Only(s, S)], M, M)
<1> DEFINE H == [s \in Seq(M) |-> Only(s, S)]
<1>1. Only(<<>>, S) = <<>> /\ <<>> \in Seq(M)
  <2>1. [i \in DOMAIN <<>> |-> IF <<>>[i] \in S THEN <<<<>>[i]>> ELSE <<>>] = <<>>
    OBVIOUS
  <2> QED BY <2>1, FlattenEmpty DEF Only
<1> DEFINE T == {s \in Seq(M) : Only(s, S) \in Seq(M)}
<1>2. Seq(M) \subseteq T
  <2>1. <<>> \in T
    BY <1>1
  <2>2. ASSUME NEW s \in Seq(M), NEW x \in M PROVE Append(s, x) \in T
    <3>1. Append(s, x) \in Seq(M)
      OBVIOUS
    <3> DEFINE c == IF x \in S THEN <<x>> ELSE <<>>
    <3>2. c \in Seq(M)
      OBVIOUS
    <3>3. Only(s, S) \in Seq(M) /\ Only(Append(s, x), S) = Only(s, S) \o c
      BY OnlyAppend
    <3> HIDE DEF c
    <3>4. Only(s, S) \o c \in Seq(M)
      BY <3>2, <3>3
    <3> QED BY <3>1, <3>3, <3>4
  <2> HIDE DEF T
  <2> QED BY <2>1, <2>2, SeqInduction
<1>3. \A s \in Seq(M) : Only(s, S) \in Seq(M)
  BY <1>2
<1>4. ASSUME NEW a \in Seq(M) PROVE \A b \in Seq(M) : Only(a \o b, S) = Only(a, S) \o Only(b, S)
  <2> DEFINE U == {b \in Seq(M) : Only(a \o b, S) = Only(a, S) \o Only(b, S)}
  <2>1. <<>> \in U
    BY <1>1, <1>3, ConcatEmptySeq
  <2>2. ASSUME NEW b \in Seq(M), NEW x \in M, b \in U PROVE Append(b, x) \in U
    <3> DEFINE c == IF x \in S THEN <<x>> ELSE <<>>
    <3>1. c \in Seq(M) /\ a \o b \in Seq(M) /\ Append(b, x) \in Seq(M)
      OBVIOUS
    <3>2. Only(Append(a \o b, x), S) = Only(a \o b, S) \o c
      <4> DEFINE ab == a \o b
      <4>1. ab \in Seq(M)
        BY <3>1
      <4> HIDE DEF ab
      <4>2. /\ Only(ab, S) \in Seq(M)
            /\ Only(Append(ab, x), S) = Only(ab, S) \o (IF x \in S THEN <<x>> ELSE <<>>)
        BY ONLY <4>1, x \in M, OnlyAppend
      <4> QED BY <4>2 DEF ab
    <3>3. Only(Append(b, x), S) = Only(b, S) \o c
      BY OnlyAppend
    <3>4. a \o Append(b, x) = Append(a \o b, x)
      BY ConcatAppend
    <3> HIDE DEF c
    <3>5. Only(a, S) \o (Only(b, S) \o c) = (Only(a, S) \o Only(b, S)) \o c
      <4> DEFINE u == Only(a, S)
                 v == Only(b, S)
      <4>1. u \in Seq(M) /\ v \in Seq(M)
        BY <1>3
      <4> HIDE DEF u, v
      <4>2. c \in Seq(M)
        BY <3>1
      <4>3. u \o (v \o c) = (u \o v) \o c
        BY ONLY <4>1, <4>2, ConcatAssociative, SMTT(30)
      <4> QED BY <4>3 DEF u, v
    <3> QED BY <2>2, <3>1, <3>2, <3>3, <3>4, <3>5
  <2>3. Seq(M) \subseteq U
    <3> HIDE DEF U
    <3> QED BY <2>1, <2>2, SeqInduction
  <2> QED BY <2>3
<1>5. H \in [Seq(M) -> Seq(M)] /\ \A s \in Seq(M) : H[s] = Only(s, S)
  BY <1>3
<1>6. \A a, b \in Seq(M) : a \o b \in Seq(M)
  OBVIOUS
<1> HIDE DEF H
<1>7. \A a, b \in Seq(M) : H[a \o b] = H[a] \o H[b]
  BY <1>4, <1>5, <1>6
<1>8. Morphism(H, M, M)
  BY <1>1, <1>5, <1>7 DEF Morphism
<1> QED BY <1>8 DEF H

\* A filter that lets everything pass changes nothing.
LEMMA OnlyAll ==
    ASSUME NEW M, NEW S, M \subseteq S
    PROVE  \A s \in Seq(M) : Only(s, S) = s
<1> DEFINE T == {s \in Seq(M) : Only(s, S) = s}
<1>1. <<>> \in T
  <2>1. [i \in DOMAIN <<>> |-> IF <<>>[i] \in S THEN <<<<>>[i]>> ELSE <<>>] = <<>>
    OBVIOUS
  <2> QED BY <2>1, FlattenEmpty DEF Only
<1>2. ASSUME NEW s \in Seq(M), NEW x \in M, s \in T PROVE Append(s, x) \in T
  <2>1. Only(Append(s, x), S) = s \o <<x>>
    BY <1>2, OnlyAppend
  <2>2. Append(s, x) = s \o <<x>> /\ Append(s, x) \in Seq(M)
    BY AppendIsConcat
  <2> QED BY <2>1, <2>2
<1>3. Seq(M) \subseteq T
  <2> HIDE DEF T
  <2> QED BY <1>1, <1>2, SeqInduction
<1> QED BY <1>3

\* A filter is about the entries that there are.
LEMMA OnlySame ==
    ASSUME NEW M, NEW s \in Seq(M), NEW S, NEW U, \A x \in ToSet(s) : x \in S <=> x \in U
    PROVE  Only(s, S) = Only(s, U)
<1>1. \A i \in DOMAIN s : s[i] \in S <=> s[i] \in U
  BY DEF ToSet
<1>2. [i \in DOMAIN s |-> IF s[i] \in S THEN <<s[i]>> ELSE <<>>]
        = [i \in DOMAIN s |-> IF s[i] \in U THEN <<s[i]>> ELSE <<>>]
  BY <1>1
<1> QED BY <1>2 DEF Only

\* Nothing of what does not pass is left.
LEMMA OnlyNone ==
    ASSUME NEW M, NEW S, M \cap S = {}
    PROVE  \A s \in Seq(M) : Only(s, S) = <<>>
<1> DEFINE T == {s \in Seq(M) : Only(s, S) = <<>>}
<1>1. <<>> \in T
  <2>1. [i \in DOMAIN <<>> |-> IF <<>>[i] \in S THEN <<<<>>[i]>> ELSE <<>>] = <<>>
    OBVIOUS
  <2> QED BY <2>1, FlattenEmpty DEF Only
<1>2. ASSUME NEW s \in Seq(M), NEW x \in M, s \in T PROVE Append(s, x) \in T
  <2>1. Only(Append(s, x), S) = <<>> \o <<>>
    <3>1. x \notin S /\ Only(s, S) = <<>>
      BY <1>2
    <3>2. Only(Append(s, x), S) = Only(s, S) \o (IF x \in S THEN <<x>> ELSE <<>>)
      BY OnlyAppend
    <3> QED BY <3>1, <3>2
  <2>2. Append(s, x) \in Seq(M) /\ <<>> \o <<>> = <<>>
    BY ConcatEmptySeq
  <2> QED BY <2>1, <2>2
<1>3. Seq(M) \subseteq T
  <2> HIDE DEF T
  <2> QED BY <1>1, <1>2, SeqInduction
<1> QED BY <1>3

-----------------------------------------------------------------------------
(* Searches and their answers.                                             *)

\* What a message for a target of a device says.
Says(udn, target) == <<target, IF target.kind = "uuid" THEN <<udn>> ELSE <<udn, target>>>>

Sayings(t) == UNION {{Says(t[p].udn, target) : target \in Targets(t[p])} : p \in DOMAIN t}

\* What is said of each device of t, and which of it a search asks for.
SaysRoot(t, p) == IF p = <<>> THEN <<Says(t[p].udn, RootDevice)>> ELSE <<>>
SaysDevice(d) == <<Says(d.udn, Urn(d.type)), Says(d.udn, Uuid(d.udn))>>
SaysServices(d) == [i \in DOMAIN d.services |-> Says(d.udn, Urn(d.services[i].type))]
SaysOwn(t) == [p \in DOMAIN t |-> SaysRoot(t, p) \o SaysDevice(t[p]) \o SaysServices(t[p])]

Asked(t, st) == {s \in Sayings(t) : st = All \/ st = s[1]}

\* The part of each device in the answers.
AnswersOwn(t, st) == [p \in DOMAIN t |->
    DeviceAnswers(t[p], p = <<>>, st, t[<<>>].port) \o ServiceAnswers(t[p], st, t[<<>>].port)]

LEMMA TargetFacts ==
    /\ All.kind = "ssdp:all" /\ RootDevice.kind = "upnp:rootdevice"
    /\ \A n : Urn(n).kind = "urn" /\ Urn(n).name = n
    /\ \A n : Uuid(n).kind = "uuid" /\ Uuid(n).name = n
  BY DEF All, RootDevice, Urn, Uuid

LEMMA MessageSays ==
    ASSUME NEW u, NEW target, NEW x
    PROVE  /\ Message(u, target, x).nt = target /\ Message(u, target, x).port = x
           /\ <<Message(u, target, x).nt, Message(u, target, x).usn>> = Says(u, target)
           /\ Says(u, target)[1] = target
<1> DEFINE usn == IF target.kind = "uuid" THEN <<u>> ELSE <<u, target>>
<1>1. /\ Message(u, target, x) = [nt |-> target, usn |-> usn, port |-> x]
      /\ Says(u, target) = <<target, usn>>
  BY DEF Message, Says
<1> HIDE DEF usn
<1> QED BY <1>1

LEMMA SayingsType ==
    ASSUME NEW t, NEW p \in DOMAIN t, NEW target \in Targets(t[p])
    PROVE  Says(t[p].udn, target) \in Sayings(t)
  BY DEF Sayings

LEMMA MessagesSay ==
    ASSUME NEW t, NEW m \in Messages(t)
    PROVE  <<m.nt, m.usn>> \in Sayings(t)
<1>1. \E p \in DOMAIN t : \E target \in Targets(t[p]), x \in {Nothing, t[p].port, t[<<>>].port} :
         m = Message(t[p].udn, target, x)
  BY DEF Messages
<1>2. PICK p \in DOMAIN t : \E target \in Targets(t[p]), x \in {Nothing, t[p].port, t[<<>>].port} :
         m = Message(t[p].udn, target, x)
  BY <1>1
<1>3. PICK target \in Targets(t[p]), x \in {Nothing, t[p].port, t[<<>>].port} :
         m = Message(t[p].udn, target, x)
  BY <1>2
<1>4. <<m.nt, m.usn>> = Says(t[p].udn, target)
  BY <1>3, MessageSays
<1> QED BY <1>4, SayingsType

\* What is said keeps how messages are put together.
LEMMA SaidMorphism ==
    ASSUME NEW M, NEW N, \A m \in M : <<m.nt, m.usn>> \in N
    PROVE  Morphism([s \in Seq(M) |-> Said(s)], M, N)
<1> DEFINE H == [s \in Seq(M) |-> Said(s)]
           pair(m) == <<m.nt, m.usn>>
<1>1. \A m \in M : pair(m) \in N
  OBVIOUS
<1>2. \A s : Said(s) = [i \in DOMAIN s |-> pair(s[i])]
  BY DEF Said
<1> HIDE DEF pair
<1>3. ASSUME NEW s \in Seq(M)
      PROVE  /\ Said(s) \in Seq(N) /\ Len(Said(s)) = Len(s)
             /\ \A i \in 1 .. Len(s) : Said(s)[i] = pair(s[i])
  <2>1. DOMAIN s = 1 .. Len(s) /\ Len(s) \in Nat /\ \A i \in 1 .. Len(s) : s[i] \in M
    OBVIOUS
  <2>2. Said(s) \in [1 .. Len(s) -> N]
    BY <1>1, <1>2, <2>1
  <2> QED BY <1>2, <2>1, <2>2, SeqDef
<1>4. Said(<<>>) = <<>> /\ <<>> \in Seq(M)
  <2>1. <<>> \in Seq(M) /\ Len(<<>>) = 0
    OBVIOUS
  <2>2. Said(<<>>) \in Seq(N) /\ Len(Said(<<>>)) = 0
    BY <1>3, <2>1
  <2> QED BY <2>1, <2>2, EmptySeq
<1>5. ASSUME NEW a \in Seq(M), NEW b \in Seq(M) PROVE Said(a \o b) = Said(a) \o Said(b)
  <2> DEFINE c == a \o b
             u == Said(a)
             v == Said(b)
             w == Said(c)
             l == Len(a)
             n == Len(b)
  <2>1. /\ c \in Seq(M) /\ Len(c) = l + n /\ l \in Nat /\ n \in Nat
        /\ \A i \in 1 .. l + n : c[i] = IF i <= l THEN a[i] ELSE b[i - l]
    BY ConcatProperties
  <2>2. u \in Seq(N) /\ Len(u) = l /\ \A i \in 1 .. l : u[i] = pair(a[i])
    BY <1>3
  <2>3. v \in Seq(N) /\ Len(v) = n /\ \A i \in 1 .. n : v[i] = pair(b[i])
    BY <1>3
  <2> HIDE DEF c
  <2>4. w \in Seq(N) /\ Len(w) = l + n /\ \A i \in 1 .. l + n : w[i] = pair(c[i])
    BY <1>3, <2>1
  <2> HIDE DEF u, v, w
  <2>5. /\ u \o v \in Seq(N) /\ Len(u \o v) = l + n
        /\ \A i \in 1 .. l + n : (u \o v)[i] = IF i <= l THEN u[i] ELSE v[i - l]
    <3>1. u \in Seq(N) /\ v \in Seq(N)
      BY <2>2, <2>3
    <3>2. /\ u \o v \in Seq(N) /\ Len(u \o v) = Len(u) + Len(v)
          /\ \A i \in 1 .. Len(u) + Len(v) :
                (u \o v)[i] = IF i <= Len(u) THEN u[i] ELSE v[i - Len(u)]
      BY <3>1, ConcatProperties
    <3>3. Len(u) = l /\ Len(v) = n
      BY <2>2, <2>3
    <3> HIDE DEF l, n
    <3> QED BY <3>2, <3>3
  <2>6. ASSUME NEW i \in 1 .. l + n PROVE w[i] = (u \o v)[i]
    <3>1. CASE i <= l
      <4>1. i \in 1 .. l
        BY <2>1, <3>1
      <4> QED BY <2>1, <2>2, <2>4, <2>5, <3>1, <4>1
    <3>2. CASE ~(i <= l)
      <4>1. i - l \in 1 .. n
        BY <2>1, <3>2
      <4> QED BY <2>1, <2>3, <2>4, <2>5, <3>2, <4>1
    <3> QED BY <3>1, <3>2
  <2>7. w = u \o v
    BY <2>4, <2>5, <2>6, SeqEqual
  <2> QED BY <2>7 DEF u, v, w, c
<1>6. H \in [Seq(M) -> Seq(N)] /\ \A s \in Seq(M) : H[s] = Said(s)
  BY <1>3
<1>7. \A a, b \in Seq(M) : a \o b \in Seq(M)
  OBVIOUS
<1> HIDE DEF H
<1>8. \A a, b \in Seq(M) : H[a \o b] = H[a] \o H[b]
  BY <1>5, <1>6, <1>7
<1>9. Morphism(H, M, N)
  BY <1>4, <1>6, <1>8 DEF Morphism
<1> QED BY <1>9 DEF H

\* The same, for what a reader of the facts needs.
LEMMA SaidFacts ==
    ASSUME NEW t
    PROVE  /\ \A s \in Seq(Messages(t)) : Said(s) \in Seq(Sayings(t))
           /\ \A a, b \in Seq(Messages(t)) : Said(a \o b) = Said(a) \o Said(b)
<1> DEFINE M == Messages(t)
           H == [s \in Seq(M) |-> Said(s)]
<1>1. Morphism(H, M, Sayings(t))
  BY MessagesSay, SaidMorphism
<1>2. \A s \in Seq(M) : H[s] = Said(s)
  OBVIOUS
<1>3. \A a, b \in Seq(M) : a \o b \in Seq(M)
  OBVIOUS
<1> HIDE DEF H, M
<1>4. /\ \A s \in Seq(M) : Said(s) \in Seq(Sayings(t))
      /\ \A a, b \in Seq(M) : Said(a \o b) = Said(a) \o Said(b)
  BY <1>1, <1>2, <1>3 DEF Morphism
<1> QED BY <1>4 DEF M

LEMMA OnlyFacts ==
    ASSUME NEW M, NEW S
    PROVE  /\ \A s \in Seq(M) : Only(s, S) \in Seq(M)
           /\ Only(<<>>, S) = <<>>
           /\ \A a, b \in Seq(M) : Only(a \o b, S) = Only(a, S) \o Only(b, S)
           /\ \A x \in M : Only(<<x>>, S) = IF x \in S THEN <<x>> ELSE <<>>
<1> DEFINE H == [s \in Seq(M) |-> Only(s, S)]
<1>1. Morphism(H, M, M)
  BY OnlyMorphism
<1>2. \A s \in Seq(M) : H[s] = Only(s, S)
  OBVIOUS
<1>3. <<>> \in Seq(M) /\ \A a, b \in Seq(M) : a \o b \in Seq(M)
  OBVIOUS
<1> HIDE DEF H
<1>4. /\ \A s \in Seq(M) : Only(s, S) \in Seq(M)
      /\ Only(<<>>, S) = <<>>
      /\ \A a, b \in Seq(M) : Only(a \o b, S) = Only(a, S) \o Only(b, S)
  BY <1>1, <1>2, <1>3 DEF Morphism
<1>5. ASSUME NEW x \in M PROVE Only(<<x>>, S) = IF x \in S THEN <<x>> ELSE <<>>
  <2> DEFINE c == IF x \in S THEN <<x>> ELSE <<>>
  <2>1. Only(Append(<<>>, x), S) = Only(<<>>, S) \o c
    <3> DEFINE e == <<>>
    <3>1. e \in Seq(M)
      BY <1>3
    <3> HIDE DEF e
    <3>2. /\ Only(e, S) \in Seq(M)
          /\ Only(Append(e, x), S) = Only(e, S) \o (IF x \in S THEN <<x>> ELSE <<>>)
      BY ONLY <3>1, x \in M, OnlyAppend
    <3> QED BY <3>2 DEF e
  <2>2. Append(<<>>, x) = <<x>>
    OBVIOUS
  <2>3. c \in Seq(M)
    OBVIOUS
  <2> HIDE DEF c
  <2>4. <<>> \o c = c
    BY <2>3, ConcatEmptySeq
  <2>5. Only(<<x>>, S) = c
    BY <1>4, <2>1, <2>2, <2>4
  <2> QED BY <2>5 DEF c
<1> QED BY <1>4, <1>5

\* Filtering what is said is saying what is filtered.
LEMMA SaidOnly ==
    ASSUME NEW t, NEW s \in Seq(Messages(t)), NEW W, NEW S,
           \A m \in ToSet(s) : m \in W <=> <<m.nt, m.usn>> \in S
    PROVE  Said(Only(s, W)) = Only(Said(s), S)
<1> DEFINE M == Messages(t)
           H == [u \in Seq(M) |-> Said(u)]
           ss == [i \in DOMAIN s |-> IF s[i] \in W THEN <<s[i]>> ELSE <<>>]
           tt == [i \in DOMAIN Said(s) |-> IF Said(s)[i] \in S THEN <<Said(s)[i]>> ELSE <<>>]
<1>1. Morphism(H, M, Sayings(t)) /\ \A u \in Seq(M) : H[u] = Said(u)
  BY MessagesSay, SaidMorphism
<1>2. DOMAIN s = 1 .. Len(s) /\ Len(s) \in Nat /\ \A i \in 1 .. Len(s) : s[i] \in M
  OBVIOUS
<1>3. ss \in Seq(Seq(M)) /\ DOMAIN ss = 1 .. Len(s)
  <2>1. ss \in [1 .. Len(s) -> Seq(M)]
    BY <1>2
  <2> HIDE DEF ss
  <2> QED BY <1>2, <2>1, SeqDef
<1>4. [i \in DOMAIN ss |-> H[ss[i]]] = tt
  <2>1. DOMAIN Said(s) = 1 .. Len(s) /\ \A i \in 1 .. Len(s) : Said(s)[i] = <<s[i].nt, s[i].usn>>
    BY <1>2 DEF Said
  <2>2. ASSUME NEW i \in 1 .. Len(s)
        PROVE  H[ss[i]] = IF Said(s)[i] \in S THEN <<Said(s)[i]>> ELSE <<>>
    <3>1. s[i] \in W <=> Said(s)[i] \in S
      BY <1>2, <2>1 DEF ToSet
    <3>2. ss[i] = IF s[i] \in W THEN <<s[i]>> ELSE <<>>
      BY <1>2
    <3>3. Said(<<s[i]>>) = <<Said(s)[i]>> /\ <<s[i]>> \in Seq(M)
      <4> DEFINE m == s[i]
      <4>1. m \in M
        BY <1>2
      <4> HIDE DEF m
      <4>2. Said(<<m>>) = <<<<m.nt, m.usn>>>> /\ <<m>> \in Seq(M)
        BY <4>1 DEF Said
      <4> QED BY <2>1, <4>2 DEF m
    <3>4. H[<<>>] = <<>>
      BY <1>1 DEF Morphism
    <3> HIDE DEF H, ss
    <3> QED BY <1>1, <3>1, <3>2, <3>3, <3>4
  <2> HIDE DEF H, ss
  <2> QED BY <1>3, <2>1, <2>2
<1>5. FlattenSeq([i \in DOMAIN ss |-> H[ss[i]]]) = H[FlattenSeq(ss)]
  <2>1. Morphism(H, M, Sayings(t)) /\ ss \in Seq(Seq(M))
    BY <1>1, <1>3
  <2> HIDE DEF H, ss, M
  <2> QED BY ONLY <2>1, FlattenMap
<1>6. FlattenSeq(ss) = Only(s, W) /\ FlattenSeq(tt) = Only(Said(s), S)
  BY DEF Only
<1>7. FlattenSeq(ss) \in Seq(M)
  <2> HIDE DEF ss, M
  <2> QED BY <1>3, FlattenType
<1> HIDE DEF H, ss, tt
<1> QED BY <1>1, <1>4, <1>5, <1>6, <1>7

\* The messages whose location is the root device's.
Located(t) == {m \in Messages(t) : m.port = t[<<>>].port}

IsTarget(st) == st = All \/ st = RootDevice \/ \E n : st = Urn(n) \/ st = Uuid(n)

LEMMA PartsSaid ==
    ASSUME NEW t, Described(t), NEW p \in DOMAIN t, NEW x \in {Nothing, t[p].port, t[<<>>].port}
    PROVE  /\ Said(DeviceMessages(t[p], x)) = SaysDevice(t[p])
           /\ Said(ServiceMessages(t[p], x)) = SaysServices(t[p])
           /\ Said(IF p = <<>> THEN <<Message(t[p].udn, RootDevice, x)>> ELSE <<>>) = SaysRoot(t, p)
<1> DEFINE u == t[p].udn
           pair(m) == <<m.nt, m.usn>>
<1>1. \A target : pair(Message(u, target, x)) = Says(u, target)
  BY MessageSays
<1>2. \A s : Said(s) = [i \in DOMAIN s |-> pair(s[i])]
  BY DEF Said
<1> HIDE DEF pair
<1>3. Said(DeviceMessages(t[p], x)) = SaysDevice(t[p])
  <2> DEFINE a == Message(u, Urn(t[p].type), x)
             b == Message(u, Uuid(t[p].udn), x)
  <2>1. DeviceMessages(t[p], x) = <<a, b>>
    BY DEF DeviceMessages
  <2>2. pair(a) = Says(u, Urn(t[p].type)) /\ pair(b) = Says(u, Uuid(t[p].udn))
    BY <1>1
  <2> HIDE DEF a, b
  <2>3. Said(<<a, b>>) = <<pair(a), pair(b)>>
    BY <1>2
  <2> QED BY <2>1, <2>2, <2>3 DEF SaysDevice
<1>4. Said(ServiceMessages(t[p], x)) = SaysServices(t[p])
  <2> DEFINE s == t[p].services
             ms == ServiceMessages(t[p], x)
  <2>1. DOMAIN ms = DOMAIN s /\ \A i \in DOMAIN s : ms[i] = Message(u, Urn(s[i].type), x)
    BY DEF ServiceMessages
  <2>2. \A i \in DOMAIN s : pair(ms[i]) = Says(u, Urn(s[i].type))
    BY <1>1, <2>1
  <2> HIDE DEF ms
  <2>3. Said(ms) = [i \in DOMAIN s |-> Says(u, Urn(s[i].type))]
    BY <1>2, <2>1, <2>2
  <2> QED BY <2>3 DEF ms, SaysServices
<1>5. Said(IF p = <<>> THEN <<Message(t[p].udn, RootDevice, x)>> ELSE <<>>) = SaysRoot(t, p)
  <2> DEFINE r == Message(u, RootDevice, x)
  <2>1. pair(r) = Says(u, RootDevice)
    BY <1>1
  <2> HIDE DEF r
  <2>2. Said(<<r>>) = <<pair(r)>> /\ Said(<<>>) = <<>>
    BY <1>2
  <2>3. Said(IF p = <<>> THEN <<r>> ELSE <<>>) = IF p = <<>> THEN <<pair(r)>> ELSE <<>>
    BY <2>2
  <2> QED BY <2>1, <2>3 DEF r, SaysRoot
<1> QED BY <1>3, <1>4, <1>5

\* The parts of each device are about it, and the messages have the given location.
LEMMA PartsType ==
    ASSUME NEW t, Described(t), NEW p \in DOMAIN t, NEW x \in {Nothing, t[p].port, t[<<>>].port}
    PROVE  /\ DeviceMessages(t[p], x) \in Seq(Messages(t))
           /\ ServiceMessages(t[p], x) \in Seq(Messages(t))
           /\ (IF p = <<>> THEN <<Message(t[p].udn, RootDevice, x)>> ELSE <<>>) \in Seq(Messages(t))
<1> DEFINE r == Message(t[p].udn, RootDevice, x)
<1>1. /\ DeviceMessages(t[p], x) \in Seq(Messages(t))
      /\ ServiceMessages(t[p], x) \in Seq(Messages(t))
      /\ r \in Messages(t)
  BY ServiceMessagesType DEF Described
<1> HIDE DEF r
<1>2. (IF p = <<>> THEN <<r>> ELSE <<>>) \in Seq(Messages(t))
  <2>1. <<r>> \in Seq(Messages(t)) /\ <<>> \in Seq(Messages(t))
    BY <1>1
  <2> QED BY <2>1
<1> QED BY <1>1, <1>2 DEF r

LEMMA SaysType ==
    ASSUME NEW t, Described(t), NEW p \in DOMAIN t
    PROVE  /\ SaysRoot(t, p) \in Seq(Sayings(t))
           /\ SaysDevice(t[p]) \in Seq(Sayings(t))
           /\ SaysServices(t[p]) \in Seq(Sayings(t))
           /\ SaysOwn(t)[p] \in Seq(Sayings(t))
<1> DEFINE a == SaysRoot(t, p)
           b == SaysDevice(t[p])
           c == SaysServices(t[p])
<1>1. a \in Seq(Sayings(t))
  <2>1. Said(IF p = <<>> THEN <<Message(t[p].udn, RootDevice, Nothing)>> ELSE <<>>) = a
    BY PartsSaid
  <2>2. (IF p = <<>> THEN <<Message(t[p].udn, RootDevice, Nothing)>> ELSE <<>>) \in Seq(Messages(t))
    BY PartsType
  <2> DEFINE s == IF p = <<>> THEN <<Message(t[p].udn, RootDevice, Nothing)>> ELSE <<>>
  <2> HIDE DEF s, a
  <2>3. Said(s) = a /\ s \in Seq(Messages(t))
    BY <2>1, <2>2 DEF s
  <2> QED BY <2>3, SaidFacts
<1>2. b \in Seq(Sayings(t)) /\ c \in Seq(Sayings(t))
  <2>1. Said(DeviceMessages(t[p], Nothing)) = b /\ Said(ServiceMessages(t[p], Nothing)) = c
    BY PartsSaid
  <2>2. /\ DeviceMessages(t[p], Nothing) \in Seq(Messages(t))
        /\ ServiceMessages(t[p], Nothing) \in Seq(Messages(t))
    BY PartsType
  <2> HIDE DEF b, c
  <2> QED BY <2>1, <2>2, SaidFacts
<1> HIDE DEF a, b, c
<1>3. (a \o b) \o c \in Seq(Sayings(t))
  <2>1. a \o b \in Seq(Sayings(t))
    BY <1>1, <1>2
  <2> QED BY <1>2, <2>1
<1> QED BY <1>1, <1>2, <1>3 DEF SaysOwn, a, b, c

\* A notification and its byebye say the same.
LEMMA OwnSaid ==
    ASSUME NEW t, Described(t), NEW p \in DOMAIN t
    PROVE  Said(Announces(t)[p]) = SaysOwn(t)[p] /\ Said(Withdraws(t)[p]) = SaysOwn(t)[p]
<1>1. ASSUME NEW x \in {Nothing, t[<<>>].port}, NEW y \in {Nothing, t[p].port, t[<<>>].port}
      PROVE  Said((IF p = <<>> THEN <<Message(t[p].udn, RootDevice, x)>> ELSE <<>>)
                     \o DeviceMessages(t[p], y) \o ServiceMessages(t[p], x)) = SaysOwn(t)[p]
  <2> DEFINE a == IF p = <<>> THEN <<Message(t[p].udn, RootDevice, x)>> ELSE <<>>
             b == DeviceMessages(t[p], y)
             c == ServiceMessages(t[p], x)
             M == Messages(t)
  <2>1. a \in Seq(M) /\ c \in Seq(M) /\ Said(a) = SaysRoot(t, p) /\ Said(c) = SaysServices(t[p])
    BY PartsType, PartsSaid
  <2>2. b \in Seq(M) /\ Said(b) = SaysDevice(t[p])
    BY PartsType, PartsSaid
  <2>3. SaysOwn(t)[p] = SaysRoot(t, p) \o SaysDevice(t[p]) \o SaysServices(t[p])
    BY DEF SaysOwn
  <2> HIDE DEF a, b, c, M
  <2>4. a \o b \in Seq(M)
    BY <2>1, <2>2
  <2>5. Said(a \o b) = Said(a) \o Said(b)
    BY <2>1, <2>2, SaidFacts DEF M
  <2>6. Said((a \o b) \o c) = Said(a \o b) \o Said(c)
    BY <2>1, <2>4, SaidFacts DEF M
  <2>7. Said((a \o b) \o c) = SaysOwn(t)[p]
    BY <2>1, <2>2, <2>3, <2>5, <2>6
  <2> QED BY <2>7 DEF a, b, c
<1>2. Announces(t)[p] = (IF p = <<>> THEN <<Message(t[p].udn, RootDevice, t[<<>>].port)>> ELSE <<>>)
          \o DeviceMessages(t[p], t[p].port) \o ServiceMessages(t[p], t[<<>>].port)
  BY DEF Announces
<1>3. Withdraws(t)[p] = (IF p = <<>> THEN <<Message(t[p].udn, RootDevice, Nothing)>> ELSE <<>>)
          \o DeviceMessages(t[p], Nothing) \o ServiceMessages(t[p], Nothing)
  BY DEF Withdraws
<1> QED BY <1>1, <1>2, <1>3

\* The answers about the services are what is said of them, as far as it is asked for.
LEMMA ServicesAnswer ==
    ASSUME NEW t, Described(t), NEW p \in DOMAIN t, NEW st
    PROVE  LET answers == ServiceAnswers(t[p], st, t[<<>>].port)
           IN /\ answers \in Seq(Located(t))
              /\ Said(answers) = Only(SaysServices(t[p]), Asked(t, st))
<1> DEFINE x == t[<<>>].port
           all == ServiceMessages(t[p], x)
           W == {m \in ToSet(all) : st = All \/ (st.kind = "urn" /\ st = m.nt)}
<1>1. ServiceAnswers(t[p], st, x) = Only(all, W)
  BY DEF ServiceAnswers
<1>2. all \in Seq(Messages(t)) /\ Said(all) = SaysServices(t[p])
  BY PartsType, PartsSaid
<1>3. \A m \in ToSet(all) : m.port = x /\ \E n : m.nt = Urn(n)
  <2> SUFFICES ASSUME NEW m \in ToSet(all) PROVE m.port = x /\ \E n : m.nt = Urn(n)
    OBVIOUS
  <2>1. PICK i \in DOMAIN t[p].services : m = Message(t[p].udn, Urn(t[p].services[i].type), x)
    BY DEF ToSet, ServiceMessages
  <2> QED BY <2>1, MessageSays
<1>4. all \in Seq(Located(t))
  <2> HIDE DEF all
  <2>1. /\ DOMAIN all = 1 .. Len(all) /\ Len(all) \in Nat
        /\ \A i \in 1 .. Len(all) : all[i] \in Messages(t)
    BY <1>2
  <2>2. all = [i \in 1 .. Len(all) |-> all[i]]
    BY <1>2, <2>1
  <2>3. \A i \in 1 .. Len(all) : all[i] \in Located(t)
    BY <1>3, <2>1 DEF ToSet, Located
  <2>4. all \in [1 .. Len(all) -> Located(t)]
    BY <2>2, <2>3
  <2> QED BY <2>1, <2>4, SeqDef
<1>5. \A m \in ToSet(all) : m \in W <=> <<m.nt, m.usn>> \in Asked(t, st)
  <2> SUFFICES ASSUME NEW m \in ToSet(all) PROVE m \in W <=> <<m.nt, m.usn>> \in Asked(t, st)
    OBVIOUS
  <2>1. PICK n : m.nt = Urn(n)
    BY <1>3
  <2>2. st = m.nt => st.kind = "urn"
    BY <2>1, TargetFacts
  <2>3. <<m.nt, m.usn>> \in Sayings(t)
    <3>1. m \in Messages(t)
      BY <1>2 DEF ToSet
    <3> QED BY <3>1, MessagesSay
  <2> HIDE DEF all
  <2> QED BY <2>2, <2>3 DEF Asked
<1> HIDE DEF W, all
<1>6. Said(Only(all, W)) = Only(Said(all), Asked(t, st))
  BY <1>2, <1>5, SaidOnly
<1>7. Only(all, W) \in Seq(Located(t))
  BY <1>4, OnlyFacts
<1> QED BY <1>1, <1>2, <1>6, <1>7

LEMMA OneOne ==
    ASSUME NEW a, NEW b
    PROVE  <<a>> \o <<b>> = <<a, b>>
<1> DEFINE s == <<a>>
           v == <<b>>
           w == <<a, b>>
<1>1. s \in Seq({a, b}) /\ Len(s) = 1 /\ s[1] = a
  OBVIOUS
<1>2. v \in Seq({a, b}) /\ Len(v) = 1 /\ v[1] = b
  OBVIOUS
<1>3. w \in Seq({a, b}) /\ Len(w) = 2 /\ w[1] = a /\ w[2] = b
  OBVIOUS
<1> HIDE DEF s, v, w
<1>4. s \o v \in Seq({a, b}) /\ Len(s \o v) = 2 /\ (s \o v)[1] = a /\ (s \o v)[2] = b
  <2>1. /\ s \o v \in Seq({a, b}) /\ Len(s \o v) = Len(s) + Len(v)
        /\ \A i \in 1 .. Len(s) + Len(v) : (s \o v)[i] = IF i <= Len(s) THEN s[i] ELSE v[i - Len(s)]
    BY ONLY <1>1, <1>2, ConcatProperties, ZenonT(40)
  <2> QED BY <1>1, <1>2, <2>1
<1>5. \A i \in 1 .. 2 : (s \o v)[i] = w[i]
  BY <1>3, <1>4
<1>6. s \o v = w
  BY <1>3, <1>4, <1>5, SeqEqual
<1> QED BY <1>6 DEF s, v, w

LEMMA OneTwo ==
    ASSUME NEW r, NEW a, NEW b
    PROVE  <<r>> \o <<a, b>> = <<r, a, b>>
<1> DEFINE s == <<r>>
           v == <<a, b>>
           w == <<r, a, b>>
<1>1. s \in Seq({r, a, b}) /\ Len(s) = 1 /\ s[1] = r
  OBVIOUS
<1>2. v \in Seq({r, a, b}) /\ Len(v) = 2 /\ v[1] = a /\ v[2] = b
  OBVIOUS
<1>3. w \in Seq({r, a, b}) /\ Len(w) = 3 /\ w[1] = r /\ w[2] = a /\ w[3] = b
  OBVIOUS
<1> HIDE DEF s, v, w
<1>4. /\ s \o v \in Seq({r, a, b}) /\ Len(s \o v) = 3
      /\ (s \o v)[1] = r /\ (s \o v)[2] = a /\ (s \o v)[3] = b
  BY ONLY <1>1, <1>2, ConcatProperties, SMTT(30)
<1>5. \A i \in 1 .. 3 : (s \o v)[i] = w[i]
  BY <1>3, <1>4
<1>6. s \o v = w
  BY <1>3, <1>4, <1>5, SeqEqual
<1> QED BY <1>6 DEF s, v, w

LEMMA OnlyConcat ==
    ASSUME NEW M, NEW S, NEW a \in Seq(M), NEW b \in Seq(M)
    PROVE  Only(a \o b, S) = Only(a, S) \o Only(b, S)
<1> DEFINE H == [s \in Seq(M) |-> Only(s, S)]
<1>1. Morphism(H, M, M)
  BY OnlyMorphism
<1>2. \A s \in Seq(M) : H[s] = Only(s, S)
  OBVIOUS
<1>3. a \o b \in Seq(M)
  OBVIOUS
<1> HIDE DEF H
<1>4. H[a \o b] = H[a] \o H[b]
  BY <1>1 DEF Morphism
<1> QED BY <1>2, <1>3, <1>4

LEMMA OnlyOne ==
    ASSUME NEW M, NEW S, NEW x \in M
    PROVE  Only(<<x>>, S) = IF x \in S THEN <<x>> ELSE <<>>
  BY ONLY x \in M, OnlyFacts

LEMMA OnlyEmpty ==
    ASSUME NEW S
    PROVE  Only(<<>>, S) = <<>>
  BY ONLY OnlyFacts

\* What a search asks for of a device's own three messages.
LEMMA DeviceAsked ==
    ASSUME NEW t, Described(t), NEW p \in DOMAIN t, NEW st
    PROVE  LET R == Says(t[p].udn, RootDevice)
               A == Says(t[p].udn, Urn(t[p].type))
               B == Says(t[p].udn, Uuid(t[p].udn))
               S == Asked(t, st)
           IN /\ R \in S <=> st = All \/ st = RootDevice
              /\ A \in S <=> st = All \/ st = Urn(t[p].type)
              /\ B \in S <=> st = All \/ st = Uuid(t[p].udn)
              /\ Only(SaysRoot(t, p) \o SaysDevice(t[p]), S) =
                    (IF p = <<>> /\ R \in S THEN <<R>> ELSE <<>>)
                    \o ((IF A \in S THEN <<A>> ELSE <<>>) \o (IF B \in S THEN <<B>> ELSE <<>>))
<1> DEFINE R == Says(t[p].udn, RootDevice)
           A == Says(t[p].udn, Urn(t[p].type))
           B == Says(t[p].udn, Uuid(t[p].udn))
           S == Asked(t, st)
<1> DEFINE N == Sayings(t)
<1>1. R \in N /\ A \in N /\ B \in N
  BY SayingsType DEF Targets
<1>2. R[1] = RootDevice /\ A[1] = Urn(t[p].type) /\ B[1] = Uuid(t[p].udn)
  BY MessageSays
<1>3. /\ R \in S <=> st = All \/ st = RootDevice
      /\ A \in S <=> st = All \/ st = Urn(t[p].type)
      /\ B \in S <=> st = All \/ st = Uuid(t[p].udn)
  BY <1>1, <1>2 DEF Asked
<1>4. SaysRoot(t, p) = (IF p = <<>> THEN <<R>> ELSE <<>>) /\ SaysDevice(t[p]) = <<A, B>>
  BY DEF SaysRoot, SaysDevice
<1>5. SaysRoot(t, p) \in Seq(N) /\ SaysDevice(t[p]) \in Seq(N)
  BY SaysType
<1> HIDE DEF N, R, A, B, S
<1>6. <<A, B>> = <<A>> \o <<B>> /\ <<A>> \in Seq(N) /\ <<B>> \in Seq(N) /\ <<R>> \in Seq(N)
  <2>1. <<A, B>> = <<A>> \o <<B>>
    BY OneOne
  <2> QED BY <1>1, <2>1
<1>7. /\ Only(SaysRoot(t, p) \o SaysDevice(t[p]), S)
           = Only(SaysRoot(t, p), S) \o Only(SaysDevice(t[p]), S)
      /\ Only(<<A>> \o <<B>>, S) = Only(<<A>>, S) \o Only(<<B>>, S)
  <2>1. Only(SaysRoot(t, p) \o SaysDevice(t[p]), S)
           = Only(SaysRoot(t, p), S) \o Only(SaysDevice(t[p]), S)
    BY <1>5, OnlyConcat
  <2>2. Only(<<A>> \o <<B>>, S) = Only(<<A>>, S) \o Only(<<B>>, S)
    <3> DEFINE a == <<A>>
               b == <<B>>
    <3>1. a \in Seq(N) /\ b \in Seq(N)
      BY <1>6
    <3> HIDE DEF a, b
    <3>2. Only(a \o b, S) = Only(a, S) \o Only(b, S)
      BY <3>1, OnlyConcat
    <3> QED BY <3>2 DEF a, b
  <2> QED BY <2>1, <2>2
<1>8. /\ Only(<<>>, S) = <<>>
      /\ Only(<<R>>, S) = IF R \in S THEN <<R>> ELSE <<>>
      /\ Only(<<A>>, S) = IF A \in S THEN <<A>> ELSE <<>>
      /\ Only(<<B>>, S) = IF B \in S THEN <<B>> ELSE <<>>
  BY <1>1, OnlyEmpty, OnlyOne
<1>9. Only(SaysRoot(t, p), S) = IF p = <<>> /\ R \in S THEN <<R>> ELSE <<>>
  BY <1>4, <1>8
<1>10. Only(SaysDevice(t[p]), S) =
          (IF A \in S THEN <<A>> ELSE <<>>) \o (IF B \in S THEN <<B>> ELSE <<>>)
  BY <1>4, <1>6, <1>7, <1>8
<1> QED BY <1>3, <1>7, <1>9, <1>10 DEF R, A, B, S

LEMMA EmptyConcats ==
    ASSUME NEW a, NEW b
    PROVE  /\ <<>> \o <<a, b>> = <<a, b>>
           /\ <<>> \o (<<>> \o <<>>) = <<>>
           /\ <<a>> \o (<<>> \o <<>>) = <<a>>
           /\ <<>> \o (<<a>> \o <<>>) = <<a>>
           /\ <<>> \o (<<>> \o <<a>>) = <<a>>
<1>1. \A s \in Seq({a, b}) : <<>> \o s = s /\ s \o <<>> = s
  OBVIOUS
<1>2. <<>> \in Seq({a, b}) /\ <<a>> \in Seq({a, b}) /\ <<a, b>> \in Seq({a, b})
  OBVIOUS
<1> QED BY <1>1, <1>2

\* The answers about a device are what is said of it, as far as it is asked for.
LEMMA DeviceAnswer ==
    ASSUME NEW t, Described(t), NEW p \in DOMAIN t, NEW st, IsTarget(st)
    PROVE  LET answers == DeviceAnswers(t[p], p = <<>>, st, t[<<>>].port)
           IN /\ answers \in Seq(Located(t))
              /\ Said(answers) = Only(SaysRoot(t, p) \o SaysDevice(t[p]), Asked(t, st))
<1> DEFINE x == t[<<>>].port
           u == t[p].udn
           r == Message(u, RootDevice, x)
           a == Message(u, Urn(t[p].type), x)
           b == Message(u, Uuid(u), x)
           R == Says(u, RootDevice)
           A == Says(u, Urn(t[p].type))
           B == Says(u, Uuid(u))
           S == Asked(t, st)
           answers == DeviceAnswers(t[p], p = <<>>, st, x)
<1>1. r \in Located(t) /\ a \in Located(t) /\ b \in Located(t)
  <2>1. r \in Messages(t) /\ a \in Messages(t) /\ b \in Messages(t)
    <3>1. \A target \in Targets(t[p]) : Message(u, target, x) \in Messages(t)
      BY DEF Messages
    <3> QED BY <3>1 DEF Targets
  <2>2. r.port = x /\ a.port = x /\ b.port = x
    BY MessageSays
  <2> HIDE DEF r, a, b
  <2> QED BY <2>1, <2>2 DEF Located
<1>2. <<r.nt, r.usn>> = R /\ <<a.nt, a.usn>> = A /\ <<b.nt, b.usn>> = B
  BY MessageSays
<1>3. /\ R \in S <=> st = All \/ st = RootDevice
      /\ A \in S <=> st = All \/ st = Urn(t[p].type)
      /\ B \in S <=> st = All \/ st = Uuid(u)
      /\ Only(SaysRoot(t, p) \o SaysDevice(t[p]), S) =
            (IF p = <<>> /\ R \in S THEN <<R>> ELSE <<>>)
            \o ((IF A \in S THEN <<A>> ELSE <<>>) \o (IF B \in S THEN <<B>> ELSE <<>>))
  BY DeviceAsked
<1>4. st = All => answers = (IF p = <<>> THEN <<r>> ELSE <<>>) \o <<a, b>>
  BY TargetFacts DEF DeviceAnswers, DeviceMessages
<1>5. st = RootDevice => answers = IF p = <<>> THEN <<r>> ELSE <<>>
  BY TargetFacts DEF DeviceAnswers
<1>6. \A n : st = Uuid(n) => answers = IF n = u THEN <<b>> ELSE <<>>
  <2> SUFFICES ASSUME NEW n, st = Uuid(n) PROVE answers = IF n = u THEN <<b>> ELSE <<>>
    OBVIOUS
  <2>1. st # All /\ st # RootDevice /\ st.kind = "uuid" /\ st.name = n
    BY TargetFacts
  <2>2. answers = IF st.name = u THEN <<Message(u, st, x)>> ELSE <<>>
    BY <2>1 DEF DeviceAnswers
  <2> QED BY <2>1, <2>2
<1>7. \A n : st = Urn(n) => answers = IF n = t[p].type THEN <<a>> ELSE <<>>
  <2> SUFFICES ASSUME NEW n, st = Urn(n) PROVE answers = IF n = t[p].type THEN <<a>> ELSE <<>>
    OBVIOUS
  <2>1. st # All /\ st # RootDevice /\ st.kind = "urn" /\ st.name = n
    BY TargetFacts
  <2>2. answers = IF st.name = t[p].type THEN <<Message(u, st, x)>> ELSE <<>>
    BY <2>1 DEF DeviceAnswers
  <2> QED BY <2>1, <2>2
<1> HIDE DEF r, a, b, R, A, B, S, answers
<1>8. /\ <<>> \in Seq(Located(t)) /\ <<r>> \in Seq(Located(t)) /\ <<a>> \in Seq(Located(t))
      /\ <<b>> \in Seq(Located(t)) /\ <<a, b>> \in Seq(Located(t))
      /\ <<r, a, b>> \in Seq(Located(t))
  BY <1>1
<1>9. /\ Said(<<>>) = <<>> /\ Said(<<r>>) = <<R>> /\ Said(<<a>>) = <<A>> /\ Said(<<b>>) = <<B>>
      /\ Said(<<a, b>>) = <<A, B>> /\ Said(<<r, a, b>>) = <<R, A, B>>
  BY <1>2 DEF Said
<1>10. /\ <<>> \o <<a, b>> = <<a, b>> /\ <<r>> \o <<a, b>> = <<r, a, b>>
       /\ <<>> \o (<<A>> \o <<B>>) = <<A, B>> /\ <<R>> \o (<<A>> \o <<B>>) = <<R, A, B>>
       /\ <<>> \o (<<>> \o <<>>) = <<>> /\ <<R>> \o (<<>> \o <<>>) = <<R>>
       /\ <<>> \o (<<A>> \o <<>>) = <<A>> /\ <<>> \o (<<>> \o <<B>>) = <<B>>
  <2>1. <<>> \o <<a, b>> = <<a, b>>
    BY EmptyConcats
  <2>2. <<r>> \o <<a, b>> = <<r, a, b>>
    BY ONLY OneTwo
  <2>0. <<A>> \o <<B>> = <<A, B>> /\ <<>> \o <<A, B>> = <<A, B>>
    BY OneOne, EmptyConcats
  <2>3. <<>> \o (<<A>> \o <<B>>) = <<A, B>>
    <3> DEFINE s == <<A>> \o <<B>>
    <3> HIDE DEF s
    <3>1. <<>> \o s = <<A, B>>
      BY <2>0 DEF s
    <3> QED BY <3>1 DEF s
  <2>4. <<R>> \o (<<A>> \o <<B>>) = <<R, A, B>>
    <3> DEFINE s == <<A>> \o <<B>>
               v == <<A, B>>
               w == <<R, A, B>>
    <3>1. s = v
      BY <2>0
    <3>2. <<R>> \o v = w
      BY ONLY OneTwo
    <3> HIDE DEF s, v, w
    <3>3. <<R>> \o s = w
      BY <3>1, <3>2
    <3> QED BY <3>3 DEF s, w
  <2>5. <<>> \o (<<>> \o <<>>) = <<>>
    BY EmptyConcats
  <2>6. <<R>> \o (<<>> \o <<>>) = <<R>>
    BY EmptyConcats
  <2>7. <<>> \o (<<A>> \o <<>>) = <<A>>
    BY EmptyConcats
  <2>8. <<>> \o (<<>> \o <<B>>) = <<B>>
    BY EmptyConcats
  <2> QED BY <2>1, <2>2, <2>3, <2>4, <2>5, <2>6, <2>7, <2>8
<1>11. CASE st = All
  BY <1>3, <1>4, <1>8, <1>9, <1>10, <1>11 DEF S, answers
<1>12. CASE st = RootDevice
  <2>1. R \in S /\ A \notin S /\ B \notin S
    BY <1>3, <1>12, TargetFacts
  <2>2. answers = IF p = <<>> THEN <<r>> ELSE <<>>
    BY <1>5, <1>12
  <2>3. Only(SaysRoot(t, p) \o SaysDevice(t[p]), S) = IF p = <<>> THEN <<R>> ELSE <<>>
    BY <1>3, <1>10, <2>1
  <2> QED BY <1>8, <1>9, <2>2, <2>3 DEF S, answers
<1>13. CASE \E n : st = Uuid(n)
  <2>1. PICK n : st = Uuid(n)
    BY <1>13
  <2>2. R \notin S /\ A \notin S /\ (B \in S <=> n = u)
    BY <1>3, <2>1, TargetFacts
  <2>3. answers = IF n = u THEN <<b>> ELSE <<>>
    BY <1>6, <2>1
  <2>4. Only(SaysRoot(t, p) \o SaysDevice(t[p]), S) = IF n = u THEN <<B>> ELSE <<>>
    BY <1>3, <1>10, <2>2
  <2> QED BY <1>8, <1>9, <2>3, <2>4 DEF S, answers
<1>14. CASE \E n : st = Urn(n)
  <2>1. PICK n : st = Urn(n)
    BY <1>14
  <2>2. R \notin S /\ B \notin S /\ (A \in S <=> n = t[p].type)
    BY <1>3, <2>1, TargetFacts
  <2>3. answers = IF n = t[p].type THEN <<a>> ELSE <<>>
    BY <1>7, <2>1
  <2>4. Only(SaysRoot(t, p) \o SaysDevice(t[p]), S) = IF n = t[p].type THEN <<A>> ELSE <<>>
    BY <1>3, <1>10, <2>2
  <2> QED BY <1>8, <1>9, <2>3, <2>4 DEF S, answers
<1> QED BY <1>11, <1>12, <1>13, <1>14 DEF IsTarget, answers, S

LEMMA OwnAnswers ==
    ASSUME NEW t, Described(t), NEW p \in DOMAIN t, NEW st, IsTarget(st)
    PROVE  /\ AnswersOwn(t, st)[p] \in Seq(Located(t))
           /\ Said(AnswersOwn(t, st)[p]) = Only(SaysOwn(t)[p], Asked(t, st))
<1> DEFINE a == DeviceAnswers(t[p], p = <<>>, st, t[<<>>].port)
           b == ServiceAnswers(t[p], st, t[<<>>].port)
           S == Asked(t, st)
           c == SaysRoot(t, p) \o SaysDevice(t[p])
           d == SaysServices(t[p])
<1>1. AnswersOwn(t, st)[p] = a \o b /\ SaysOwn(t)[p] = c \o d
  BY DEF AnswersOwn, SaysOwn
<1>2. a \in Seq(Located(t)) /\ Said(a) = Only(c, S)
  BY DeviceAnswer
<1>3. b \in Seq(Located(t)) /\ Said(b) = Only(d, S)
  BY ServicesAnswer
<1>4. c \in Seq(Sayings(t)) /\ d \in Seq(Sayings(t))
  <2>1. /\ SaysRoot(t, p) \in Seq(Sayings(t)) /\ SaysDevice(t[p]) \in Seq(Sayings(t))
        /\ d \in Seq(Sayings(t))
    BY SaysType
  <2> HIDE DEF d
  <2> QED BY <2>1
<1> HIDE DEF a, b, c, d, S
<1>5. a \o b \in Seq(Located(t))
  BY <1>2, <1>3
<1>6. Said(a \o b) = Said(a) \o Said(b)
  <2>1. Located(t) \subseteq Messages(t)
    BY DEF Located
  <2>2. a \in Seq(Messages(t)) /\ b \in Seq(Messages(t))
    BY <1>2, <1>3, <2>1, SeqMonotonic
  <2> QED BY <2>2, SaidFacts
<1>7. Only(c \o d, S) = Only(c, S) \o Only(d, S)
  BY <1>4, OnlyConcat
<1> QED BY <1>1, <1>2, <1>3, <1>5, <1>6, <1>7 DEF S

LEMMA AnswersWalk ==
    ASSUME NEW t, Described(t), NEW st, IsTarget(st)
    PROVE  \E g : /\ Answers(t, st) = g[<<>>]
                  /\ \A p \in DOMAIN t : g[p] = AnswersOwn(t, st)[p] \o Each(Kids(t, p), g)
<1>1. IsTree(t) /\ HasParts(t, Located(t), AnswersOwn(t, st))
  BY OwnAnswers DEF Described, HasParts
<1> DEFINE port0 == t[<<>>].port
           Step(g, p) ==
               DeviceAnswers(t[p], p = <<>>, st, port0) \o ServiceAnswers(t[p], st, port0)
               \o Each(Kids(t, p), g)
<1>2. \A g : \A p \in DOMAIN t : Step(g, p) = AnswersOwn(t, st)[p] \o Each(Kids(t, p), g)
  BY DEF AnswersOwn
<1>3. PICK g \in [DOMAIN t -> Seq(Located(t))] :
          \A p \in DOMAIN t : g[p] = AnswersOwn(t, st)[p] \o Each(Kids(t, p), g)
  BY <1>1, WalkExists
<1>4. g = [p \in DOMAIN t |-> Step(g, p)]
  <2> HIDE DEF Step
  <2> QED BY <1>2, <1>3
<1>5. PICK f : f = [p \in DOMAIN t |-> Step(f, p)] /\ Answers(t, st) = f[<<>>]
  BY <1>4 DEF Answers
<1>6. \A p \in DOMAIN t : f[p] = Step(f, p)
  <2> HIDE DEF Step
  <2> QED BY <1>5
<1> HIDE DEF Step
<1> QED BY <1>2, <1>5, <1>6

\* What a walk says is the walk of what its parts say.
LEMMA WalkSaid ==
    ASSUME NEW t, Described(t), NEW own, NEW g, IsWalk(t, Messages(t), own, g),
           NEW says, \A p \in DOMAIN t : Said(own[p]) = says[p],
           NEW h, IsWalk(t, Sayings(t), says, h)
    PROVE  \A p \in DOMAIN t : g[p] \in Seq(Messages(t)) /\ Said(g[p]) = h[p]
<1> DEFINE M == Messages(t)
           N == Sayings(t)
           H == [s \in Seq(M) |-> Said(s)]
<1>1. IsTree(t)
  BY DEF Described
<1>2. Morphism(H, M, N)
  BY MessagesSay, SaidMorphism
<1>3. \A s \in Seq(M) : H[s] = Said(s)
  OBVIOUS
<1>4. IsWalk(t, M, own, g) /\ IsWalk(t, N, says, h)
  OBVIOUS
<1> HIDE DEF M, N, H
<1>5. Mapped(t, H, own, says)
  BY <1>3, <1>4 DEF IsWalk, Mapped
<1>6. Mapped(t, H, g, h)
  BY ONLY <1>1, <1>2, <1>4, <1>5, WalkMap
<1>7. \A p \in DOMAIN t : g[p] \in Seq(M)
  BY ONLY <1>1, <1>4, WalkType DEF IsWalk
<1>8. \A p \in DOMAIN t : Said(g[p]) = h[p]
  BY <1>3, <1>6, <1>7 DEF Mapped
<1> QED BY <1>7, <1>8 DEF M

\* part is what is in S of own, for each device.
Kept(t, S, own, part) == \A p \in DOMAIN t : part[p] = Only(own[p], S)

\* What is asked for of a walk is the walk of what is asked for of its parts.
LEMMA WalkOnly ==
    ASSUME NEW t, Described(t), NEW N, NEW S, NEW own, NEW g, IsWalk(t, N, own, g),
           NEW part, Kept(t, S, own, part), NEW h, IsWalk(t, N, part, h)
    PROVE  Kept(t, S, g, h)
<1> DEFINE F == [s \in Seq(N) |-> Only(s, S)]
<1>1. IsTree(t)
  BY DEF Described
<1>2. Morphism(F, N, N)
  BY OnlyMorphism
<1>3. \A s \in Seq(N) : F[s] = Only(s, S)
  OBVIOUS
<1> HIDE DEF F
<1>4. Mapped(t, F, own, part)
  BY <1>3 DEF IsWalk, Mapped, Kept
<1>5. IsWalk(t, N, own, g) /\ IsWalk(t, N, part, h)
  OBVIOUS
<1>6. Mapped(t, F, g, h)
  BY ONLY <1>1, <1>2, <1>4, <1>5, WalkMap
<1>7. \A p \in DOMAIN t : g[p] \in Seq(N)
  BY ONLY <1>1, <1>5, WalkType DEF IsWalk
<1> QED BY <1>3, <1>6, <1>7 DEF Mapped, Kept

\* There is the walk of what is in S of what the devices say of themselves.
LEMMA SaysWalk ==
    ASSUME NEW t, Described(t), NEW S
    PROVE  /\ \E h : IsWalk(t, Sayings(t), SaysOwn(t), h)
           /\ \E h : IsWalk(t, Sayings(t), [p \in DOMAIN t |-> Only(SaysOwn(t)[p], S)], h)
<1> DEFINE own == SaysOwn(t)
           N == Sayings(t)
           part == [p \in DOMAIN t |-> Only(own[p], S)]
<1>1. IsTree(t)
  BY DEF Described
<1>2. HasParts(t, N, own)
  BY SaysType DEF HasParts
<1> HIDE DEF own, N
<1>3. HasParts(t, N, part)
  <2>1. \A s \in Seq(N) : Only(s, S) \in Seq(N)
    BY OnlyFacts
  <2> QED BY <1>2, <2>1 DEF HasParts
<1> HIDE DEF part
<1>4. \E h \in [DOMAIN t -> Seq(N)] : \A p \in DOMAIN t : h[p] = own[p] \o Each(Kids(t, p), h)
  BY ONLY <1>1, <1>2, WalkExists
<1>5. \E h \in [DOMAIN t -> Seq(N)] : \A p \in DOMAIN t : h[p] = part[p] \o Each(Kids(t, p), h)
  BY ONLY <1>1, <1>3, WalkExists
<1> QED BY <1>2, <1>3, <1>4, <1>5 DEF IsWalk, HasParts, own, N, part

\* The three walks of a description agree on what they say.
LEMMA WalksAgree ==
    ASSUME NEW t, Described(t)
    PROVE  /\ Said(Announced(t)) \in Seq(Sayings(t))
           /\ Said(Withdrawn(t)) = Said(Announced(t))
           /\ \A st : IsTarget(st) =>
                 /\ Said(Answers(t, st)) = Only(Said(Announced(t)), Asked(t, st))
                 /\ Answers(t, st) \in Seq(Located(t))
<1> DEFINE M == Messages(t)
           N == Sayings(t)
<1>1. IsTree(t) /\ <<>> \in DOMAIN t
  BY DEF Described, IsTree
<1>2. PICK h : IsWalk(t, N, SaysOwn(t), h)
  BY SaysWalk
<1>3. Said(Announced(t)) = h[<<>>]
  <2> DEFINE own == Announces(t)
  <2>1. \A p \in DOMAIN t : own[p] \in Seq(M)
    BY OwnPartsType
  <2>2. \A p \in DOMAIN t : Said(own[p]) = SaysOwn(t)[p]
    BY OwnSaid
  <2>3. PICK g : Announced(t) = g[<<>>]
                /\ \A p \in DOMAIN t : g[p] = own[p] \o Each(Kids(t, p), g)
    BY AnnouncedWalk
  <2> HIDE DEF own
  <2>4. IsWalk(t, M, own, g)
    BY <2>1, <2>3 DEF IsWalk
  <2>5. \A p \in DOMAIN t : Said(g[p]) = h[p]
    BY <1>2, <2>2, <2>4, WalkSaid
  <2> QED BY <1>1, <2>3, <2>5
<1>4. Said(Withdrawn(t)) = h[<<>>]
  <2> DEFINE own == Withdraws(t)
  <2>1. \A p \in DOMAIN t : own[p] \in Seq(M)
    BY OwnPartsType
  <2>2. \A p \in DOMAIN t : Said(own[p]) = SaysOwn(t)[p]
    BY OwnSaid
  <2>3. PICK g : Withdrawn(t) = g[<<>>]
                /\ \A p \in DOMAIN t : g[p] = own[p] \o Each(Kids(t, p), g)
    BY WithdrawnWalk
  <2> HIDE DEF own
  <2>4. IsWalk(t, M, own, g)
    BY <2>1, <2>3 DEF IsWalk
  <2>5. \A p \in DOMAIN t : Said(g[p]) = h[p]
    BY <1>2, <2>2, <2>4, WalkSaid
  <2> QED BY <1>1, <2>3, <2>5
<1>5. ASSUME NEW st, IsTarget(st)
      PROVE  /\ Said(Answers(t, st)) = Only(h[<<>>], Asked(t, st))
             /\ Answers(t, st) \in Seq(Located(t))
  <2> DEFINE own == AnswersOwn(t, st)
             S == Asked(t, st)
             L == Located(t)
             part == [p \in DOMAIN t |-> Only(SaysOwn(t)[p], S)]
  <2>1. \A p \in DOMAIN t : own[p] \in Seq(L)
    BY <1>5, OwnAnswers
  <2>2. \A p \in DOMAIN t : Said(own[p]) = part[p]
    BY <1>5, OwnAnswers
  <2>3. Kept(t, S, SaysOwn(t), part)
    BY DEF Kept
  <2>4. PICK g : Answers(t, st) = g[<<>>]
                /\ \A p \in DOMAIN t : g[p] = own[p] \o Each(Kids(t, p), g)
    BY <1>5, AnswersWalk
  <2>5. PICK k : IsWalk(t, N, part, k)
    BY SaysWalk
  <2>6. L \subseteq M
    BY DEF Located
  <2> HIDE DEF own, S, L, part
  <2>7. \A p \in DOMAIN t : own[p] \in Seq(M)
    BY <2>1, <2>6, SeqMonotonic
  <2>8. IsWalk(t, M, own, g)
    BY <2>4, <2>7 DEF IsWalk
  <2>9. \A p \in DOMAIN t : Said(g[p]) = k[p]
    BY <2>2, <2>5, <2>8, WalkSaid
  <2>10. Kept(t, S, h, k)
    <3> HIDE DEF N
    <3> QED BY ONLY Described(t), <1>2, <2>3, <2>5, WalkOnly
  <2>11. \A p \in DOMAIN t : g[p] = own[p] \o Each(Kids(t, p), g)
    BY <2>4
  <2>12. \A p \in DOMAIN t : g[p] \in Seq(L)
    BY ONLY <1>1, <2>1, <2>11, WalkType
  <2> QED BY <1>1, <2>4, <2>9, <2>10, <2>12 DEF S, L, Kept
<1>6. h[<<>>] \in Seq(N)
  <2>1. \A p \in DOMAIN t : SaysOwn(t)[p] \in Seq(N)
    BY <1>2 DEF IsWalk
  <2>2. \A p \in DOMAIN t : h[p] = SaysOwn(t)[p] \o Each(Kids(t, p), h)
    BY <1>2 DEF IsWalk
  <2> QED BY <1>1, <2>1, <2>2, WalkType
<1> QED BY <1>3, <1>4, <1>5, <1>6

\* Nothing but targets is announced.
LEMMA AnnouncedTargets ==
    ASSUME NEW t, Described(t), NEW s \in ToSet(Said(Announced(t)))
    PROVE  IsTarget(s[1])
<1>1. PICK m \in ToSet(Announced(t)) : s = <<m.nt, m.usn>>
  BY DEF Said, ToSet
<1>2. m.nt = RootDevice \/ \E n : m.nt = Urn(n) \/ m.nt = Uuid(n)
  <2>1. PICK p \in DOMAIN t :
              \/ p = <<>> /\ m = Message(t[<<>>].udn, RootDevice, t[<<>>].port)
              \/ m = Message(t[p].udn, Urn(t[p].type), t[p].port)
              \/ m = Message(t[p].udn, Uuid(t[p].udn), t[p].port)
              \/ \E i \in DOMAIN t[p].services :
                     m = Message(t[p].udn, Urn(t[p].services[i].type), t[<<>>].port)
    BY AnnouncedRange
  <2> QED BY <2>1, MessageSays
<1> QED BY <1>1, <1>2 DEF IsTarget

\* Wherever the device listens.
LEMMA TreeMatch ==
    ASSUME NEW d \in Devices
    PROVE  LET said == Said(Announced(At(d)))
           IN /\ Said(Withdrawn(At(d))) = said
              /\ \A st \in {All, RootDevice} \cup {s[1] : s \in ToSet(said)} :
                    LET answers == Answers(At(d), st)
                    IN /\ Said(answers) =
                              Only(said, {s \in ToSet(said) : st = All \/ st = s[1]})
                       /\ \A m \in ToSet(answers) : m.port = port[d]
<1> DEFINE t == At(d)
           here == port[d]
           said == Said(Announced(t))
<1>1. Described(t) /\ t[<<>>].port = port[d]
  <2>1. t = [Tree[d] EXCEPT ![<<>>].port = here]
    BY DEF At
  <2> HIDE DEF t, here
  <2>2. Described(t)
    BY ONLY d \in Devices, <2>1, AtFacts
  <2>3. t[<<>>].port = here
    <3> DEFINE r == Tree[d][<<>>]
               n == t[<<>>]
    <3>1. r = [udn |-> r.udn, type |-> r.type, services |-> r.services, port |-> r.port]
      BY TreeFacts, TreeAssumption
    <3>2. n = [r EXCEPT !.port = here]
      BY <2>1, TreeFacts
    <3> HIDE DEF r, n
    <3>3. n = [[udn |-> r.udn, type |-> r.type, services |-> r.services, port |-> r.port]
                  EXCEPT !.port = here]
      BY <3>1, <3>2
    <3>4. n.port = here
      BY ONLY <3>3
    <3> QED BY <3>4 DEF n
  <2> QED BY <2>2, <2>3 DEF here
<1> HIDE DEF t
<1>2. /\ said \in Seq(Sayings(t)) /\ Said(Withdrawn(t)) = said
      /\ \A st : IsTarget(st) =>
            /\ Said(Answers(t, st)) = Only(said, Asked(t, st))
            /\ Answers(t, st) \in Seq(Located(t))
  BY <1>1, WalksAgree
<1>3. \A s \in ToSet(said) : IsTarget(s[1])
  BY <1>1, AnnouncedTargets
<1> HIDE DEF said
<1>4. ASSUME NEW st \in {All, RootDevice} \cup {s[1] : s \in ToSet(said)}
      PROVE  /\ Said(Answers(t, st)) = Only(said, {s \in ToSet(said) : st = All \/ st = s[1]})
             /\ \A m \in ToSet(Answers(t, st)) : m.port = port[d]
  <2>1. IsTarget(st)
    BY <1>3 DEF IsTarget
  <2> DEFINE U == {s \in ToSet(said) : st = All \/ st = s[1]}
             S == Asked(t, st)
  <2>2. \A s \in ToSet(said) : s \in S <=> s \in U
    <3>1. \A s \in ToSet(said) : s \in Sayings(t)
      BY <1>2 DEF ToSet
    <3> QED BY <3>1 DEF Asked
  <2> HIDE DEF U, S
  <2>3. Only(said, S) = Only(said, U)
    BY <1>2, <2>2, OnlySame
  <2>4. Said(Answers(t, st)) = Only(said, U)
    BY <1>2, <2>1, <2>3 DEF S
  <2>5. \A m \in ToSet(Answers(t, st)) : m.port = port[d]
    <3>1. Answers(t, st) \in Seq(Located(t))
      BY <1>2, <2>1
    <3>2. \A m \in ToSet(Answers(t, st)) : m \in Located(t)
      BY <3>1 DEF ToSet
    <3> QED BY <1>1, <3>2 DEF Located
  <2> QED BY <2>4, <2>5 DEF U
<1> QED BY <1>2, <1>4 DEF said, t

\* Notifications, byebyes and answers of a device that is running say the same
\* (cg_upnp_device_announcefrom, ..._byebyefrom, ..._ssdpmessagereceived).
THEOREM AnswersAlwaysMatch == Spec => []AnswersMatch
<1>1. DInv => AnswersMatch
  BY TreeMatch DEF DInv, AnswersMatch
<1> QED BY <1>1, SpecDInv, PTL

=============================================================================
