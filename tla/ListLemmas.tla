----------------------------- MODULE ListLemmas -----------------------------
(***************************************************************************)
(* Facts about numbers and lists that the proofs of the components share.  *)
(*                                                                         *)
(* They rest on one principle: a set of numbers that is not empty has a    *)
(* least one. It takes the place of induction: of the numbers for which a  *)
(* statement fails the least is not 0, and the statement holds of the one  *)
(* before it. With it a list that is joined from parts is followed part by *)
(* part.                                                                   *)
(***************************************************************************)
EXTENDS Integers, Sequences, SequencesExt, FiniteSetsExt, SequenceTheorems, FiniteSetTheorems, WellFoundedInduction, TLAPS

LEMMA LeastNumber ==
    ASSUME NEW T \in SUBSET Nat, T # {}
    PROVE  \E n \in T: \A m \in T: n <= m
<1>1. IsWellFoundedOn(OpToRel(<, Nat), Nat)
  BY NatLessThanWellFounded
<1>2. PICK x \in T: \A y \in T: ~(<<y, x>> \in OpToRel(<, Nat))
  BY <1>1, WFMin
<1>3. \A y \in T: <<y, x>> \in Nat \X Nat
  OBVIOUS
<1>4. \A y \in T: <<y, x>> \in OpToRel(<, Nat) <=> y < x
  BY <1>3 DEF OpToRel
<1>5. \A y \in T: ~(y < x) /\ y \in Nat /\ x \in Nat
  BY <1>2, <1>4
<1>6. \A y \in T: x <= y
  BY <1>5
<1> QED
  BY <1>6

LEMMA LeastIsMin ==
    ASSUME NEW T \in SUBSET Nat, T # {}
    PROVE  Min(T) \in T /\ \A m \in T: Min(T) <= m
  BY LeastNumber DEF Min

LEMMA GreatestIsMax ==
    ASSUME NEW T \in SUBSET Nat, T # {}, NEW n \in Nat, \A m \in T: m <= n
    PROVE  Max(T) \in T /\ \A m \in T: m <= Max(T)
<1> DEFINE D == {n - m : m \in T}
<1>1. D \in SUBSET Nat /\ D # {}
  <2>1. \A m \in T: m \in Nat /\ n - m \in Nat
    OBVIOUS
  <2> QED
    BY <2>1
<1>2. PICK d \in D: \A e \in D: d <= e
  BY <1>1, LeastNumber
<1>3. PICK x \in T: d = n - x
  OBVIOUS
<1>4. \A y \in T: n - x <= n - y
  BY <1>2, <1>3
<1>5. \A y \in T: x >= y
  BY <1>4
<1>6. Max(T) \in T /\ \A y \in T: Max(T) >= y
  BY <1>5 DEF Max
<1> QED
  BY <1>6

\* f[i] is the join of the first i parts.
Joins(f, s, n) == f = [i \in 1 .. n |-> IF i = 1 THEN s[i] ELSE f[i - 1] \o s[i]]

LEMMA JoinsAgree ==
    ASSUME NEW s, NEW n \in Nat, NEW m \in Nat, n <= m, NEW f, NEW g, Joins(f, s, n), Joins(g, s, m)
    PROVE  \A i \in 1 .. n: f[i] = g[i]
<1> DEFINE T == {i \in 1 .. n: f[i] # g[i]}
<1> SUFFICES ASSUME T # {} PROVE FALSE
  OBVIOUS
<1>1. T \in SUBSET Nat
  OBVIOUS
<1>2. PICK k \in T: \A j \in T: k <= j
  BY <1>1, LeastNumber
<1>3. k \in 1 .. n /\ k \in 1 .. m
  OBVIOUS
<1>4. k = 1 \/ (k - 1 \in 1 .. n /\ k - 1 \notin T)
  BY <1>2, <1>3
<1>5. k = 1 \/ f[k - 1] = g[k - 1]
  BY <1>4
<1>6. /\ f[k] = IF k = 1 THEN s[k] ELSE f[k - 1] \o s[k]
      /\ g[k] = IF k = 1 THEN s[k] ELSE g[k - 1] \o s[k]
  BY <1>3 DEF Joins
<1> QED
  BY <1>2, <1>5, <1>6

LEMMA JoinsExist ==
    ASSUME NEW s, NEW n \in Nat
    PROVE  \E f: Joins(f, s, n)
<1> DEFINE T == {i \in Nat: ~\E f: Joins(f, s, i)}
<1> SUFFICES ASSUME T # {} PROVE FALSE
  OBVIOUS
<1>1. T \in SUBSET Nat
  OBVIOUS
<1>2. PICK k \in T: \A j \in T: k <= j
  BY <1>1, LeastNumber
<1> HIDE DEF T
<1>3. k \in Nat /\ ~\E f: Joins(f, s, k)
  BY DEF T
<1>4. k # 0
  <2>1. Joins([i \in 1 .. 0 |-> 0], s, 0)
    BY DEF Joins
  <2> QED
    BY <1>3, <2>1
<1>5. k - 1 \in Nat /\ k - 1 \notin T
  BY <1>2, <1>3, <1>4
<1>6. PICK f: Joins(f, s, k - 1)
  BY <1>5 DEF T
<1> DEFINE g == [i \in 1 .. k |-> IF i = k THEN IF i = 1 THEN s[i] ELSE f[i - 1] \o s[i] ELSE f[i]]
<1>7. \A i \in 1 .. k: g[i] = IF i = 1 THEN s[i] ELSE g[i - 1] \o s[i]
  <2> SUFFICES ASSUME NEW i \in 1 .. k PROVE g[i] = IF i = 1 THEN s[i] ELSE g[i - 1] \o s[i]
    OBVIOUS
  <2>1. CASE i = k
    <3>1. k = 1 \/ g[k - 1] = f[k - 1]
      BY <1>3, <1>4
    <3> QED
      BY <2>1, <3>1
  <2>2. CASE i # k
    <3>1. i \in 1 .. (k - 1) /\ g[i] = f[i]
      BY <1>3, <2>2
    <3>2. f[i] = IF i = 1 THEN s[i] ELSE f[i - 1] \o s[i]
      BY <1>6, <3>1 DEF Joins
    <3>3. i = 1 \/ g[i - 1] = f[i - 1]
      BY <1>3, <3>1
    <3> QED
      BY <3>1, <3>2, <3>3
  <2> QED
    BY <2>1, <2>2
<1>8. Joins(g, s, k)
  <2> HIDE DEF g
  <2>1. g = [i \in 1 .. k |-> g[i]]
    BY DEF g
  <2> QED
    BY <1>7, <2>1 DEF Joins
<1> QED
  BY <1>3, <1>8

LEMMA FlattenJoins ==
    ASSUME NEW s, Len(s) \in Nat \ {0}
    PROVE  \E f: Joins(f, s, Len(s)) /\ FlattenSeq(s) = f[Len(s)]
<1> DEFINE F == CHOOSE f: f = [i \in 1 .. Len(s) |-> IF i = 1 THEN s[i] ELSE f[i - 1] \o s[i]]
<1>1. FlattenSeq(s) = F[Len(s)]
  BY Zenon DEF FlattenSeq
<1>2. Joins(F, s, Len(s))
  BY JoinsExist DEF Joins
<1> QED
  BY <1>1, <1>2

LEMMA FlattenEmpty == FlattenSeq(<<>>) = <<>>
  BY DEF FlattenSeq

LEMMA JoinedElements ==
    ASSUME NEW T, NEW a \in Seq(T), NEW b \in Seq(T)
    PROVE  ToSet(a \o b) = ToSet(a) \cup ToSet(b)
<1>1. DOMAIN (a \o b) = 1 .. Len(a) + Len(b) /\ DOMAIN a = 1 .. Len(a) /\ DOMAIN b = 1 .. Len(b)
  OBVIOUS
<1>2. \A j \in DOMAIN a: j \in DOMAIN (a \o b) /\ (a \o b)[j] = a[j]
  BY <1>1
<1>3. \A j \in DOMAIN b: j + Len(a) \in DOMAIN (a \o b) /\ (a \o b)[j + Len(a)] = b[j]
  BY <1>1
<1>4. \A j \in DOMAIN (a \o b): j \in DOMAIN a \/ (j - Len(a) \in DOMAIN b /\ (a \o b)[j] = b[j - Len(a)])
  BY <1>1
<1>5. \A x: x \in ToSet(a \o b) => x \in ToSet(a) \cup ToSet(b)
  BY <1>4 DEF ToSet
<1>6. \A x: x \in ToSet(a) => x \in ToSet(a \o b)
  BY <1>2 DEF ToSet
<1>7. \A x: x \in ToSet(b) => x \in ToSet(a \o b)
  BY <1>3 DEF ToSet
<1> QED
  BY <1>5, <1>6, <1>7

\* What a list joined from parts is after each of them.
PartsUpTo(f, s, T) ==
    /\ f \in [0 .. Len(s) -> Seq(T)]
    /\ f[0] = <<>>
    /\ \A k \in 1 .. Len(s): f[k] = f[k - 1] \o s[k]

LEMMA FlattenSteps ==
    ASSUME NEW T, NEW s \in Seq(Seq(T))
    PROVE  \E f: PartsUpTo(f, s, T) /\ FlattenSeq(s) = f[Len(s)]
<1>1. CASE Len(s) = 0
  <2>1. s = <<>>
    BY <1>1
  <2>2. PartsUpTo([i \in 0 .. Len(s) |-> <<>>], s, T)
    BY <1>1 DEF PartsUpTo
  <2> QED
    BY <1>1, <2>1, <2>2, FlattenEmpty
<1>2. CASE Len(s) # 0
  <2>1. Len(s) \in Nat \ {0}
    BY <1>2
  <2>2. PICK f: Joins(f, s, Len(s)) /\ FlattenSeq(s) = f[Len(s)]
    BY <2>1, FlattenJoins
  <2> DEFINE B == {i \in 1 .. Len(s): f[i] \notin Seq(T)}
  <2>3. B = {}
    <3> SUFFICES ASSUME B # {} PROVE FALSE
      OBVIOUS
    <3>1. B \in SUBSET Nat
      OBVIOUS
    <3>2. PICK k \in B: \A j \in B: k <= j
      BY <3>1, LeastNumber
    <3>3. k \in 1 .. Len(s)
      OBVIOUS
    <3>4. f[k] = IF k = 1 THEN s[k] ELSE f[k - 1] \o s[k]
      BY <2>2, <3>3 DEF Joins
    <3>5. k = 1 \/ f[k - 1] \in Seq(T)
      BY <2>1, <3>2, <3>3
    <3>6. s[k] \in Seq(T) /\ f[k] \notin Seq(T)
      BY <3>3
    <3> HIDE DEF B
    <3>7. k = 1 \/ f[k - 1] \o s[k] \in Seq(T)
      BY <3>5, <3>6
    <3> QED
      BY <3>4, <3>6, <3>7
  <2> HIDE DEF B
  <2> DEFINE g == [i \in 0 .. Len(s) |-> IF i = 0 THEN <<>> ELSE f[i]]
  <2>4. \A i \in 1 .. Len(s): f[i] \in Seq(T)
    BY <2>3 DEF B
  <2>5. g \in [0 .. Len(s) -> Seq(T)] /\ g[0] = <<>> /\ g[Len(s)] = f[Len(s)]
    BY <2>1, <2>4
  <2>6. \A k \in 1 .. Len(s): g[k] = g[k - 1] \o s[k]
    <3> SUFFICES ASSUME NEW k \in 1 .. Len(s) PROVE g[k] = g[k - 1] \o s[k]
      OBVIOUS
    <3>1. g[k] = f[k] /\ s[k] \in Seq(T)
      BY <2>1
    <3>2. f[k] = IF k = 1 THEN s[k] ELSE f[k - 1] \o s[k]
      BY <2>2 DEF Joins
    <3>3. CASE k = 1
      <4>1. g[k - 1] = <<>> /\ <<>> \o s[k] = s[k]
        BY <3>1, <3>3, ConcatEmptySeq
      <4> QED
        BY <3>1, <3>2, <3>3, <4>1
    <3>4. CASE k # 1
      <4>1. g[k - 1] = f[k - 1]
        BY <3>4
      <4> QED
        BY <3>1, <3>2, <3>4, <4>1
    <3> QED
      BY <3>3, <3>4
  <2> HIDE DEF g
  <2> QED
    BY <2>2, <2>5, <2>6 DEF PartsUpTo
<1> QED
  BY <1>1, <1>2

\* The elements of a joined list are those of its parts.
LEMMA FlattenElements ==
    ASSUME NEW T, NEW s \in Seq(Seq(T))
    PROVE  /\ FlattenSeq(s) \in Seq(T)
           /\ ToSet(FlattenSeq(s)) = UNION {ToSet(s[i]) : i \in DOMAIN s}
<1>1. PICK f: PartsUpTo(f, s, T) /\ FlattenSeq(s) = f[Len(s)]
  BY FlattenSteps
<1>2. f[Len(s)] \in Seq(T) /\ DOMAIN s = 1 .. Len(s)
  BY <1>1 DEF PartsUpTo
<1> DEFINE Holds(k) == ToSet(f[k]) = UNION {ToSet(s[i]) : i \in 1 .. k}
           B == {k \in 0 .. Len(s): ~Holds(k)}
<1>3. B = {}
  <2> SUFFICES ASSUME B # {} PROVE FALSE
    OBVIOUS
  <2>1. B \in SUBSET Nat
    OBVIOUS
  <2>2. PICK k \in B: \A j \in B: k <= j
    BY <2>1, LeastNumber
  <2>3. k \in 0 .. Len(s) /\ ~Holds(k)
    OBVIOUS
  <2> HIDE DEF Holds
  <2>4. \A j \in 0 .. Len(s): j < k => Holds(j)
    <3>1. \A j \in 0 .. Len(s): j \in B \/ Holds(j)
      OBVIOUS
    <3>2. \A j \in 0 .. Len(s): j < k => j \notin B
      BY <2>2, <2>3
    <3> QED
      BY <3>1, <3>2
  <2> HIDE DEF B
  <2>5. k # 0
    <3>1. f[0] = <<>>
      BY <1>1 DEF PartsUpTo
    <3> QED
      BY <2>3, <3>1 DEF ToSet, Holds
  <2>6. k \in 1 .. Len(s) /\ k - 1 \in 0 .. Len(s) /\ k - 1 < k
    BY <2>3, <2>5
  <2>7. Holds(k - 1)
    BY <2>4, <2>6
  <2>8. f[k] = f[k - 1] \o s[k] /\ f[k - 1] \in Seq(T) /\ s[k] \in Seq(T)
    <3>1. f[k] = f[k - 1] \o s[k] /\ f[k - 1] \in Seq(T)
      BY <1>1, <2>6 DEF PartsUpTo
    <3>2. s[k] \in Seq(T)
      BY <2>6
    <3> QED
      BY <3>1, <3>2
  <2>9. ToSet(f[k]) = ToSet(f[k - 1]) \cup ToSet(s[k])
    BY <2>8, JoinedElements
  <2>10. 1 .. k = (1 .. (k - 1)) \cup {k}
    BY <2>6
  <2>11. Holds(k)
    <3>1. ToSet(f[k - 1]) = UNION {ToSet(s[i]) : i \in 1 .. (k - 1)}
      BY <2>7 DEF Holds
    <3> QED
      BY <2>9, <2>10, <3>1 DEF Holds
  <2> QED
    BY <2>3, <2>11
<1>4. Holds(Len(s))
  <2> HIDE DEF Holds
  <2>1. Len(s) \in 0 .. Len(s) /\ \A k \in 0 .. Len(s): Holds(k)
    BY <1>3
  <2> QED
    BY <2>1
<1> QED
  BY <1>1, <1>2, <1>4

-----------------------------------------------------------------------------
(* Lists of what is chosen from a range.                                    *)

\* How many of P there are up to i.
Rank(P, i) == Cardinality(P \cap (1 .. i))

\* Ranks grow by one at each of P, and nowhere else.
RankLaws(n, P) ==
    /\ IsFiniteSet(P) /\ Cardinality(P) \in Nat /\ Rank(P, n) = Cardinality(P) /\ Rank(P, 0) = 0
    /\ \A i \in Nat: Rank(P, i) \in Nat /\ Rank(P, i) <= Cardinality(P)
    /\ \A i \in 1 .. n: Rank(P, i) = IF i \in P THEN Rank(P, i - 1) + 1 ELSE Rank(P, i - 1)
    /\ \A i, j \in 0 .. n: i <= j => Rank(P, i) <= Rank(P, j)
    /\ \A i \in 1 .. n, j \in P: i < j => Rank(P, i) < Rank(P, j)

LEMMA Ranks ==
    ASSUME NEW n \in Nat, NEW P \in SUBSET (1 .. n)
    PROVE  RankLaws(n, P)
<1>1. IsFiniteSet(1 .. n)
  BY FS_Interval
<1>2. IsFiniteSet(P)
  BY <1>1, FS_Subset
<1>3. \A i: P \cap (1 .. i) \in SUBSET P
  OBVIOUS
<1>4. \A i: /\ IsFiniteSet(P \cap (1 .. i)) /\ Cardinality(P \cap (1 .. i)) \in Nat
            /\ Cardinality(P \cap (1 .. i)) <= Cardinality(P)
  BY <1>2, <1>3, FS_Subset, FS_CardinalityType
<1>5. P \cap (1 .. n) = P /\ P \cap (1 .. 0) = {}
  <2>1. P \cap (1 .. n) = P
    OBVIOUS
  <2>2. 1 .. 0 = {}
    OBVIOUS
  <2> QED
    BY <2>1, <2>2
<1>6. ASSUME NEW i \in 1 .. n
      PROVE  Rank(P, i) = IF i \in P THEN Rank(P, i - 1) + 1 ELSE Rank(P, i - 1)
  <2>1. CASE i \in P
    <3>1. P \cap (1 .. i) = (P \cap (1 .. (i - 1))) \cup {i} /\ i \notin P \cap (1 .. (i - 1))
      BY <2>1
    <3>2. Cardinality((P \cap (1 .. (i - 1))) \cup {i}) = Cardinality(P \cap (1 .. (i - 1))) + 1
      BY <1>4, <3>1, FS_AddElement
    <3> QED
      BY <2>1, <3>1, <3>2 DEF Rank
  <2>2. CASE i \notin P
    <3>1. P \cap (1 .. i) = P \cap (1 .. (i - 1))
      BY <2>2
    <3> QED
      BY <2>2, <3>1 DEF Rank
  <2> QED
    BY <2>1, <2>2
<1>7. ASSUME NEW i \in 0 .. n, NEW j \in 0 .. n, i <= j
      PROVE  Rank(P, i) <= Rank(P, j)
  <2>1. P \cap (1 .. i) \in SUBSET (P \cap (1 .. j))
    BY <1>7
  <2> QED
    BY <1>4, <2>1, FS_Subset DEF Rank
<1>8. ASSUME NEW i \in 1 .. n, NEW j \in P, i < j
      PROVE  Rank(P, i) < Rank(P, j)
  <2>1. i <= j - 1 /\ j - 1 \in 0 .. n /\ i \in 0 .. n /\ j \in 1 .. n
    BY <1>8
  <2>2. Rank(P, i) <= Rank(P, j - 1) /\ Rank(P, j) = Rank(P, j - 1) + 1
    BY <1>6, <1>7, <2>1
  <2>3. Rank(P, i) \in Nat /\ Rank(P, j - 1) \in Nat
    BY <1>4 DEF Rank
  <2> QED
    BY <2>2, <2>3
<1> HIDE DEF Rank
<1>9. \A i \in Nat: Rank(P, i) \in Nat /\ Rank(P, i) <= Cardinality(P)
  BY <1>4 DEF Rank
<1>10. Rank(P, n) = Cardinality(P) /\ Rank(P, 0) = 0
  BY <1>5, FS_EmptySet DEF Rank
<1>11. Cardinality(P) \in Nat
  BY <1>2, FS_CardinalityType
<1> QED
  BY <1>2, <1>6, <1>7, <1>8, <1>9, <1>10, <1>11 DEF RankLaws

\* The choice of e[i] for the i in P, in order.
Choice(n, P, e) == [i \in 1 .. n |-> IF i \in P THEN <<e[i]>> ELSE <<>>]

\* The list r has the element e[i] for each i of P, at its rank.
Ranked(r, P, e, T) ==
    /\ r \in Seq(T) /\ Len(r) = Cardinality(P)
    /\ \A j \in 1 .. Len(r): \E i \in P: Rank(P, i) = j /\ r[j] = e[i]
    /\ \A i \in P: Rank(P, i) \in 1 .. Len(r) /\ r[Rank(P, i)] = e[i]

LEMMA Selection ==
    ASSUME NEW T, NEW n \in Nat, NEW P \in SUBSET (1 .. n), NEW e, \A i \in P: e[i] \in T
    PROVE  Ranked(FlattenSeq(Choice(n, P, e)), P, e, T)
<1> DEFINE s == Choice(n, P, e)
           r == FlattenSeq(s)
<1>0. RankLaws(n, P)
  BY Ranks
<1>1. s \in Seq(Seq(T)) /\ Len(s) = n /\ \A i \in 1 .. n: s[i] = IF i \in P THEN <<e[i]>> ELSE <<>>
  <2>1. \A i \in 1 .. n: (IF i \in P THEN <<e[i]>> ELSE <<>>) \in Seq(T)
    OBVIOUS
  <2> QED
    BY <2>1 DEF Choice
<1> HIDE DEF s
<1>2. PICK f: PartsUpTo(f, s, T) /\ FlattenSeq(s) = f[n]
  BY <1>1, FlattenSteps
<1> DEFINE Holds(k) == /\ Len(f[k]) = Rank(P, k)
                       /\ \A j \in 1 .. Len(f[k]): \E i \in P \cap (1 .. k): Rank(P, i) = j /\ f[k][j] = e[i]
           B == {k \in 0 .. n: ~Holds(k)}
<1>3. f \in [0 .. n -> Seq(T)] /\ f[0] = <<>> /\ \A k \in 1 .. n: f[k] = f[k - 1] \o s[k]
  BY <1>1, <1>2 DEF PartsUpTo
<1>4. \A k \in 0 .. n: Rank(P, k) \in Nat
  <2>1. \A k \in Nat: Rank(P, k) \in Nat
    BY <1>0 DEF RankLaws
  <2> QED
    BY <2>1
<1>5. B = {}
  <2> SUFFICES ASSUME B # {} PROVE FALSE
    OBVIOUS
  <2>1. B \in SUBSET Nat
    OBVIOUS
  <2>2. PICK k \in B: \A j \in B: k <= j
    BY <2>1, LeastNumber
  <2>3. k \in 0 .. n /\ ~Holds(k)
    OBVIOUS
  <2>4. k # 0
    <3>1. Rank(P, 0) = 0
      BY <1>0 DEF RankLaws
    <3>2. Holds(0)
      BY <1>3, <3>1
    <3> QED
      BY <2>3, <3>2
  <2> HIDE DEF Holds
  <2>5. k \in 1 .. n /\ k - 1 \in 0 .. n /\ k - 1 < k
    BY <2>3, <2>4
  <2>6. Holds(k - 1)
    <3>1. k - 1 \in B \/ Holds(k - 1)
      BY <2>5
    <3> QED
      BY <2>2, <2>5, <3>1
  <2> HIDE DEF B
  <2>7. /\ f[k] = f[k - 1] \o s[k] /\ f[k - 1] \in Seq(T)
        /\ s[k] = IF k \in P THEN <<e[k]>> ELSE <<>>
        /\ Rank(P, k) = IF k \in P THEN Rank(P, k - 1) + 1 ELSE Rank(P, k - 1)
    <3>1. f[k] = f[k - 1] \o s[k] /\ f[k - 1] \in Seq(T)
      BY <1>3, <2>5
    <3>2. s[k] = IF k \in P THEN <<e[k]>> ELSE <<>>
      BY <1>1, <2>5
    <3>3. Rank(P, k) = IF k \in P THEN Rank(P, k - 1) + 1 ELSE Rank(P, k - 1)
      BY <2>5, <1>0 DEF RankLaws
    <3> QED
      BY <3>1, <3>2, <3>3
  <2>8. CASE k \notin P
    <3>1. f[k] = f[k - 1] /\ Rank(P, k) = Rank(P, k - 1)
      BY <2>7, <2>8, ConcatEmptySeq
    <3>2. P \cap (1 .. k) = P \cap (1 .. (k - 1))
      BY <2>5, <2>8
    <3>3. Holds(k)
      BY <2>6, <3>1, <3>2 DEF Holds
    <3> QED
      BY <2>3, <3>3
  <2>9. CASE k \in P
    <3>1. Len(f[k]) = Len(f[k - 1]) + 1 /\ f[k][Len(f[k - 1]) + 1] = e[k]
      BY <2>7, <2>9
    <3>2. \A j \in 1 .. Len(f[k - 1]): f[k][j] = f[k - 1][j]
      BY <2>7, <2>9
    <3>3. Len(f[k]) = Rank(P, k) /\ Len(f[k - 1]) = Rank(P, k - 1) /\ Rank(P, k) = Rank(P, k - 1) + 1
      BY <2>6, <2>7, <2>9, <3>1 DEF Holds
    <3>4. ASSUME NEW j \in 1 .. Len(f[k])
          PROVE  \E i \in P \cap (1 .. k): Rank(P, i) = j /\ f[k][j] = e[i]
      <4>1. CASE j \in 1 .. Len(f[k - 1])
        <5>1. PICK i \in P \cap (1 .. (k - 1)): Rank(P, i) = j /\ f[k - 1][j] = e[i]
          BY <2>6, <4>1 DEF Holds
        <5>2. i \in P \cap (1 .. k)
          BY <2>5
        <5> QED
          BY <3>2, <4>1, <5>1, <5>2
      <4>2. CASE j \notin 1 .. Len(f[k - 1])
        <5>1. j = Len(f[k - 1]) + 1
          <6>1. Len(f[k - 1]) \in Nat /\ Len(f[k]) = Len(f[k - 1]) + 1
            <7>1. f[k - 1] \in Seq(T)
              BY <2>7
            <7>2. Len(f[k - 1]) \in Nat
              BY <7>1
            <7> QED
              BY <3>1, <7>2
          <6> QED
            BY <4>2, <6>1
        <5>2. k \in P \cap (1 .. k)
          BY <2>5, <2>9
        <5> QED
          BY <3>1, <3>3, <5>1, <5>2
      <4> QED
        BY <4>1, <4>2
    <3>5. Holds(k)
      BY <3>3, <3>4 DEF Holds
    <3> QED
      BY <2>3, <3>5
  <2> QED
    BY <2>8, <2>9
<1>6. Holds(n)
  <2> HIDE DEF Holds
  <2>1. n \in B \/ Holds(n)
    OBVIOUS
  <2> QED
    BY <1>5, <2>1
<1> HIDE DEF r
<1>7. r = f[n] /\ r \in Seq(T) /\ Len(r) = Cardinality(P) /\ P \cap (1 .. n) = P
  <2>1. r = f[n]
    BY <1>2 DEF r
  <2>2. f[n] \in Seq(T)
    BY <1>3
  <2>3. Rank(P, n) = Cardinality(P)
    BY <1>0 DEF RankLaws
  <2>4. P \cap (1 .. n) = P
    OBVIOUS
  <2> QED
    BY <1>6, <2>1, <2>2, <2>3, <2>4
<1>8. \A j \in 1 .. Len(r): \E i \in P: Rank(P, i) = j /\ r[j] = e[i]
  BY <1>6, <1>7
<1>9. ASSUME NEW i \in P
      PROVE  Rank(P, i) \in 1 .. Len(r) /\ r[Rank(P, i)] = e[i]
  <2>1. i \in 1 .. n /\ Rank(P, i) \in 1 .. Len(r)
    <3>1. i \in 1 .. n /\ i \in Nat
      OBVIOUS
    <3>2. Rank(P, i) = Rank(P, i - 1) + 1
      BY <3>1, <1>0 DEF RankLaws
    <3>3. Rank(P, i - 1) \in Nat
      BY <1>4, <3>1
    <3>4. Rank(P, i) <= Cardinality(P)
      BY <3>1, <1>0 DEF RankLaws
    <3> QED
      BY <1>7, <3>2, <3>3, <3>4
  <2>2. PICK j \in P: Rank(P, j) = Rank(P, i) /\ r[Rank(P, i)] = e[j]
    BY <1>8, <2>1
  <2>3. ~(i < j) /\ ~(j < i)
    <3>1. i \in 1 .. n /\ j \in 1 .. n /\ Rank(P, i) \in Int
      BY <2>1
    <3>2. i < j => Rank(P, i) < Rank(P, j)
      BY <3>1, <1>0 DEF RankLaws
    <3>3. j < i => Rank(P, j) < Rank(P, i)
      BY <3>1, <1>0 DEF RankLaws
    <3> QED
      BY <2>2, <3>1, <3>2, <3>3
  <2>4. i = j
    BY <2>1, <2>3
  <2> QED
    BY <2>1, <2>2, <2>4
<1>10. Ranked(r, P, e, T)
  BY <1>7, <1>8, <1>9 DEF Ranked
<1> QED
  BY <1>10 DEF r, s

-----------------------------------------------------------------------------
(* Short lists, and the rest of a list. *)

LEMMA OneElement == ASSUME NEW T, NEW x \in T PROVE <<x>> \in Seq(T) /\ ToSet(<<x>>) = {x}
  BY DEF ToSet

LEMMA WiderList == ASSUME NEW S, NEW T, S \subseteq T, NEW s \in Seq(S) PROVE s \in Seq(T)
<1>1. Len(s) \in Nat /\ s \in [1 .. Len(s) -> T]
  OBVIOUS
<1> QED
  BY <1>1

\* What is left of a list after its first n elements is of the same set, and
\* its elements are those of the list, n places further on.
LEMMA RestOfList ==
    ASSUME NEW T, NEW s \in Seq(T), NEW n \in Nat, n <= Len(s)
    PROVE  /\ SubSeq(s, n + 1, Len(s)) \in Seq(T)
           /\ Len(SubSeq(s, n + 1, Len(s))) = Len(s) - n
           /\ \A i \in 1 .. Len(s) - n: SubSeq(s, n + 1, Len(s))[i] = s[n + i]
  OBVIOUS

\* As many elements as places: no element stands at two places.
LEMMA Different ==
    ASSUME NEW n \in Nat, NEW f
    PROVE  Cardinality({f[i] : i \in 1 .. n}) = n <=> \A i, j \in 1 .. n: f[i] = f[j] => i = j
<1> DEFINE S == 1 .. n
           T == {f[i] : i \in S}
           g == [i \in S |-> f[i]]
<1>1. IsFiniteSet(S) /\ Cardinality(S) = n
  BY FS_Interval
<1>2. g \in Surjection(S, T)
  <2>1. g \in [S -> T]
    OBVIOUS
  <2>2. \A t \in T: \E s \in S: g[s] = t
    OBVIOUS
  <2> QED
    BY <2>1, <2>2 DEF Surjection
<1>3. Cardinality(T) = Cardinality(S) <=> g \in Injection(S, T)
  <2> HIDE DEF S, T, g
  <2> QED
    BY <1>1, <1>2, FS_Surjection
<1>4. g \in Injection(S, T) <=> \A i, j \in S: f[i] = f[j] => i = j
  <2>1. g \in [S -> T] /\ \A i \in S: g[i] = f[i]
    OBVIOUS
  <2> QED
    BY <2>1 DEF Injection, IsInjective
<1> QED
  BY <1>1, <1>3, <1>4

\* A selection has no more repetitions than what it was selected from.
LEMMA SelectedOnce ==
    ASSUME NEW T, NEW P, NEW e, NEW r, Ranked(r, P, e, T),
           \A i, j \in P: e[i] = e[j] => i = j
    PROVE  \A j, k \in 1 .. Len(r): r[j] = r[k] => j = k
<1> TAKE j, k \in 1 .. Len(r)
<1> HAVE r[j] = r[k]
<1>1. PICK i \in P: Rank(P, i) = j /\ r[j] = e[i]
  BY DEF Ranked
<1>2. PICK l \in P: Rank(P, l) = k /\ r[k] = e[l]
  BY DEF Ranked
<1> QED
  BY <1>1, <1>2

LEMMA Beginning ==
    ASSUME NEW T, NEW s \in Seq(T), NEW n \in 0 .. Len(s)
    PROVE  /\ SubSeq(s, 1, n) \in Seq(T) /\ Len(SubSeq(s, 1, n)) = n
           /\ \A i \in 1 .. n: SubSeq(s, 1, n)[i] = s[i]
  OBVIOUS

LEMMA WholeList == ASSUME NEW T, NEW s \in Seq(T) PROVE SubSeq(s, 1, Len(s)) = s
  OBVIOUS

LEMMA ElementsAreFinite == ASSUME NEW T, NEW s \in Seq(T) PROVE IsFiniteSet(ToSet(s))
<1> DEFINE S == DOMAIN s
<1>1. IsFiniteSet(S)
  <2>1. S = 1 .. Len(s) /\ Len(s) \in Nat
    OBVIOUS
  <2> QED
    BY <2>1, FS_Interval
<1>2. s \in Surjection(S, ToSet(s))
  BY DEF Surjection, ToSet
<1> HIDE DEF S
<1> QED
  BY <1>1, <1>2, FS_Surjection

LEMMA LeastOfTwo == ASSUME NEW a \in Nat, NEW b \in Nat PROVE Min({a, b}) = IF a <= b THEN a ELSE b
<1>1. {a, b} \in SUBSET Nat /\ {a, b} # {}
  OBVIOUS
<1>2. Min({a, b}) \in {a, b} /\ \A m \in {a, b}: Min({a, b}) <= m
  BY <1>1, LeastIsMin
<1> QED
  BY <1>2
=============================================================================
