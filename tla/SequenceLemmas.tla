--------------------------- MODULE SequenceLemmas ---------------------------
(***************************************************************************)
(* Facts about numbers and sequences that proofs about recursive functions *)
(* rest on: an induction over an interval, which the library states for a  *)
(* predicate as parameter and which is stated here for a set; what the     *)
(* concatenation of many sequences contains; that a sequence without       *)
(* repetitions has as many places as elements; and what a fold has after   *)
(* each of its rounds.                                                     *)
(***************************************************************************)
EXTENDS Integers, SequencesExt, FiniteSetTheorems, TLAPS

(* A set of numbers that goes down forever would be as large as itself     *)
(* without its least element.                                              *)
LEMMA LeastExists ==
  ASSUME NEW T \in SUBSET Nat, T # {}
  PROVE  \E x \in T : \A y \in T : x <= y
<1> SUFFICES ASSUME \A x \in T : \E y \in T : y < x PROVE FALSE
  OBVIOUS
<1>1. PICK m \in T : TRUE
  OBVIOUS
<1> DEFINE D == {x \in 0 .. m : \A y \in T : x < y}
           f == [x \in D |-> x + 1]
<1>2. IsFiniteSet(0 .. m) /\ IsFiniteSet(D)
  <2>1. IsFiniteSet(0 .. m)
    BY <1>1, FS_Interval
  <2> QED
    BY <2>1, FS_Subset
<1>3. 0 \in D
  OBVIOUS
<1>4. \A x \in D : x \in Int /\ x + 1 \in D \ {0}
  OBVIOUS
<1> HIDE DEF D
<1>5. f \in Injection(D, D \ {0})
  <2>1. f \in [D -> D \ {0}]
    BY <1>4
  <2>2. \A x, y \in D : f[x] = f[y] => x = y
    BY <1>4
  <2> QED
    BY <2>1, <2>2 DEF Injection, IsInjective
<1> HIDE DEF f
<1>6. /\ IsFiniteSet(D \ {0}) /\ Cardinality(D \ {0}) = Cardinality(D) - 1
      /\ Cardinality(D) \in Nat
  BY <1>2, <1>3, FS_RemoveElement, FS_CardinalityType
<1>7. Cardinality(D) <= Cardinality(D \ {0})
  BY <1>5, <1>6, FS_Injection
<1> QED
  BY <1>6, <1>7

LEMMA GreatestExists ==
  ASSUME NEW m \in Nat, NEW T \in SUBSET (0 .. m), T # {}
  PROVE  \E x \in T : \A y \in T : y <= x
<1> DEFINE D == {m - x : x \in T}
<1>1. D \in SUBSET Nat /\ D # {}
  <2>1. \A x \in T : m - x \in Nat
    OBVIOUS
  <2> QED
    BY <2>1
<1>2. PICK d \in D : \A e \in D : d <= e
  BY <1>1, LeastExists
<1>3. PICK x \in T : d = m - x
  BY <1>2
<1>4. ASSUME NEW y \in T PROVE y <= x
  <2>1. m - y \in D
    OBVIOUS
  <2>2. d <= m - y
    BY <1>2, <2>1
  <2> QED
    BY <1>3, <2>2
<1> QED
  BY <1>4

(* What holds of the first number of an interval, and of the next whenever *)
(* it holds of one, holds of all of them.                                  *)
LEMMA IntervalInduction ==
  ASSUME NEW m \in Int, NEW n \in Int, NEW T,
         m <= n => m \in T,
         \A i \in m .. n : i \in T /\ i < n => i + 1 \in T
  PROVE  m .. n \subseteq T
<1> SUFFICES ASSUME NEW j \in m .. n, j \notin T PROVE FALSE
  OBVIOUS
<1> DEFINE Bad == {k \in Nat : m + k <= n /\ m + k \notin T}
<1>1. j - m \in Bad
  OBVIOUS
<1>2. PICK k \in Bad : \A l \in Bad : k <= l
  BY <1>1, LeastExists
<1>3. k # 0
  BY <1>2
<1>4. k - 1 \in Nat /\ k - 1 \notin Bad
  BY <1>2, <1>3
<1>5. m + (k - 1) \in m .. n /\ m + (k - 1) \in T /\ m + (k - 1) < n
  BY <1>2, <1>4
<1>6. m + (k - 1) + 1 \in T
  BY <1>5
<1>7. m + (k - 1) + 1 = m + k
  BY <1>2
<1> QED
  BY <1>2, <1>6, <1>7

-----------------------------------------------------------------------------
(* The first k pieces of a sequence of pieces, put together, for each k.   *)
Pieces(g, s, n) ==
  /\ g[1] = s[1]
  /\ \A i \in 2 .. n : g[i] = g[i - 1] \o s[i]
  /\ FlattenSeq(s) = g[n]

(* A sequence without repetitions has as many places as elements.          *)
LEMMA OnceCount ==
  ASSUME NEW S, NEW n \in Nat, NEW f \in [1 .. n -> S],
         \A i, j \in 1 .. n : f[i] = f[j] => i = j,
         \A x \in S : \E i \in 1 .. n : f[i] = x
  PROVE  IsFiniteSet(S) /\ Cardinality(S) = n
<1>1. f \in Bijection(1 .. n, S)
  BY DEF Bijection, Injection, Surjection, IsInjective
<1>2. IsFiniteSet(1 .. n) /\ Cardinality(1 .. n) = n
  BY FS_Interval
<1> QED
  BY <1>1, <1>2, FS_Bijection DEF ExistsBijection

(* FlattenSeq is a function defined by recursion over the pieces: that the *)
(* function exists is an induction, and so is what it is.                  *)
LEMMA FlattenByPieces ==
  ASSUME NEW S, NEW n \in Nat \ {0}, NEW s \in [1 .. n -> Seq(S)]
  PROVE  \E g \in [1 .. n -> Seq(S)] : Pieces(g, s, n)
<1> DEFINE Upto(g, k) == g[1] = s[1] /\ \A i \in 2 .. k : g[i] = g[i - 1] \o s[i]
           T == {k \in 1 .. n : \E g \in [1 .. k -> Seq(S)] : Upto(g, k)}
<1>1. 1 \in T
  <2>1. [i \in 1 .. 1 |-> s[1]] \in [1 .. 1 -> Seq(S)]
    OBVIOUS
  <2>2. Upto([i \in 1 .. 1 |-> s[1]], 1)
    OBVIOUS
  <2> HIDE DEF Upto
  <2>3. \E g \in [1 .. 1 -> Seq(S)] : Upto(g, 1)
    BY <2>1, <2>2
  <2> QED
    BY <2>3
<1>2. ASSUME NEW k \in 1 .. n, k \in T, k < n PROVE k + 1 \in T
  <2>1. PICK g \in [1 .. k -> Seq(S)] : Upto(g, k)
    BY <1>2
  <2> DEFINE h == [i \in 1 .. k + 1 |-> IF i = k + 1 THEN g[k] \o s[k + 1] ELSE g[i]]
  <2>2. g[k] \o s[k + 1] \in Seq(S)
    BY <1>2
  <2>3. h \in [1 .. k + 1 -> Seq(S)]
    BY <2>2
  <2>4. Upto(h, k + 1)
    <3>1. h[1] = s[1]
      BY <2>1
    <3>2. ASSUME NEW i \in 2 .. k PROVE h[i] = h[i - 1] \o s[i]
      <4>1. h[i] = g[i] /\ h[i - 1] = g[i - 1]
        OBVIOUS
      <4> QED
        BY <2>1, <4>1
    <3>3. h[k + 1] = h[k] \o s[k + 1]
      <4>1. h[k + 1] = g[k] \o s[k + 1]
        OBVIOUS
      <4>2. h[k] = g[k]
        OBVIOUS
      <4> QED
        BY <4>1, <4>2
    <3> HIDE DEF h
    <3>4. ASSUME NEW i \in 2 .. k + 1 PROVE h[i] = h[i - 1] \o s[i]
      <4>1. CASE i = k + 1
        <5>1. i - 1 = k
          BY <4>1
        <5> QED
          BY <3>3, <4>1, <5>1
      <4>2. CASE i # k + 1
        <5>1. i \in 2 .. k
          BY <4>2
        <5> QED
          BY <3>2, <5>1
      <4> QED
        BY <4>1, <4>2
    <3> QED
      BY <3>1, <3>4
  <2> HIDE DEF Upto, h
  <2>5. k + 1 \in 1 .. n /\ \E f \in [1 .. k + 1 -> Seq(S)] : Upto(f, k + 1)
    BY <1>2, <2>3, <2>4
  <2> QED
    BY <2>5
<1>3. n \in T
  <2>1. 1 .. n \subseteq T
    <3> HIDE DEF T
    <3>1. \A k \in 1 .. n : k \in T /\ k < n => k + 1 \in T
      BY <1>2
    <3>2. 1 \in Int /\ n \in Int
      OBVIOUS
    <3> QED
      BY <1>1, <3>1, <3>2, IntervalInduction, Zenon
  <2> HIDE DEF T
  <2>2. n \in 1 .. n
    OBVIOUS
  <2> QED
    BY <2>1, <2>2
<1>4. PICK g \in [1 .. n -> Seq(S)] : Upto(g, n)
  BY <1>3
<1> DEFINE IsFlatten(f) == f = [i \in 1 .. Len(s) |-> IF i = 1 THEN s[i] ELSE f[i - 1] \o s[i]]
           flatten == CHOOSE f : IsFlatten(f)
<1>5. Len(s) = n
  OBVIOUS
<1>6. IsFlatten(g)
  <2>1. \A i \in 1 .. n : g[i] = IF i = 1 THEN s[i] ELSE g[i - 1] \o s[i]
    <3>1. \A i \in 1 .. n : i # 1 => i \in 2 .. n
      OBVIOUS
    <3> QED
      BY <1>4, <3>1
  <2> QED
    BY <1>5, <2>1
<1>7. IsFlatten(flatten)
  <2> HIDE DEF IsFlatten
  <2> QED
    BY <1>6
<1>8. \A k \in 1 .. n : flatten[k] = IF k = 1 THEN s[k] ELSE flatten[k - 1] \o s[k]
  <2> HIDE DEF flatten
  <2> QED
    BY <1>7, <1>5
<1> DEFINE E == {k \in 1 .. n : flatten[k] = g[k]}
<1> HIDE DEF flatten, IsFlatten
<1>9. 1 \in E
  BY <1>8, <1>4
<1>10. ASSUME NEW k \in 1 .. n, k \in E, k < n PROVE k + 1 \in E
  <2>1. k + 1 \in 2 .. n /\ (k + 1) - 1 = k
    BY <1>10
  <2>2. flatten[k + 1] = flatten[(k + 1) - 1] \o s[k + 1]
    <3>1. k + 1 \in 1 .. n /\ k + 1 # 1
      BY <2>1
    <3> QED
      BY <3>1, <1>8
  <2>3. g[k + 1] = g[(k + 1) - 1] \o s[k + 1]
    BY <2>1, <1>4
  <2>4. flatten[k + 1] = g[k + 1]
    BY <1>10, <2>1, <2>2, <2>3
  <2> QED
    BY <2>1, <2>4
<1>11. n \in E
  <2>1. 1 .. n \subseteq E
    <3> HIDE DEF E
    <3>1. \A k \in 1 .. n : k \in E /\ k < n => k + 1 \in E
      BY <1>10
    <3>2. 1 \in Int /\ n \in Int
      OBVIOUS
    <3> QED
      BY <1>9, <3>1, <3>2, IntervalInduction, Zenon
  <2> QED
    BY <2>1
<1>12. FlattenSeq(s) = flatten[n]
  BY <1>5 DEF FlattenSeq, flatten, IsFlatten
<1> QED
  BY <1>4, <1>11, <1>12 DEF Pieces

LEMMA ConcatHas ==
  ASSUME NEW S, NEW a \in Seq(S), NEW b \in Seq(S)
  PROVE  ToSet(a \o b) = ToSet(a) \cup ToSet(b)
<1>1. \A i \in DOMAIN (a \o b) : (a \o b)[i] \in ToSet(a) \cup ToSet(b)
  BY DEF ToSet
<1>2. \A i \in DOMAIN a : i \in DOMAIN (a \o b) /\ (a \o b)[i] = a[i]
  OBVIOUS
<1>3. \A i \in DOMAIN b : Len(a) + i \in DOMAIN (a \o b) /\ (a \o b)[Len(a) + i] = b[i]
  OBVIOUS
<1>4. ToSet(a \o b) \subseteq ToSet(a) \cup ToSet(b)
  BY <1>1 DEF ToSet
<1>5. ToSet(a) \subseteq ToSet(a \o b)
  BY <1>2 DEF ToSet
<1>6. ToSet(b) \subseteq ToSet(a \o b)
  <2> SUFFICES ASSUME NEW i \in DOMAIN b PROVE b[i] \in ToSet(a \o b)
    BY DEF ToSet
  <2> QED
    BY <1>3 DEF ToSet
<1> QED
  BY <1>4, <1>5, <1>6

LEMMA ConcatOnce ==
  ASSUME NEW S, NEW a \in Seq(S), NEW b \in Seq(S),
         IsInjective(a), IsInjective(b), ToSet(a) \cap ToSet(b) = {}
  PROVE  IsInjective(a \o b)
<1> SUFFICES ASSUME NEW i \in DOMAIN (a \o b), NEW j \in DOMAIN (a \o b),
                    (a \o b)[i] = (a \o b)[j], i < j
             PROVE  FALSE
  BY DEF IsInjective
<1>1. CASE j <= Len(a)
  BY <1>1 DEF IsInjective
<1>2. CASE i > Len(a)
  <2>1. /\ i - Len(a) \in DOMAIN b /\ j - Len(a) \in DOMAIN b
        /\ b[i - Len(a)] = b[j - Len(a)]
    BY <1>2
  <2> QED
    BY <2>1 DEF IsInjective
<1>3. CASE i <= Len(a) /\ j > Len(a)
  <2>1. /\ i \in DOMAIN a /\ j - Len(a) \in DOMAIN b
        /\ a[i] = b[j - Len(a)]
    BY <1>3
  <2> QED
    BY <2>1 DEF ToSet
<1> QED
  BY <1>1, <1>2, <1>3

LEMMA AppendOnce ==
  ASSUME NEW S, NEW a \in Seq(S), NEW x \in S, IsInjective(a), x \notin ToSet(a)
  PROVE  IsInjective(Append(a, x)) /\ ToSet(Append(a, x)) = ToSet(a) \cup {x}
<1> DEFINE b == <<x>>
<1>1. Append(a, x) = a \o b
  OBVIOUS
<1>2. b \in Seq(S) /\ IsInjective(b) /\ ToSet(b) = {x}
  BY DEF IsInjective, ToSet
<1> HIDE DEF b
<1>3. ToSet(a) \cap ToSet(b) = {}
  BY <1>2
<1> QED
  BY <1>1, <1>2, <1>3, ConcatHas, ConcatOnce

(* What is in the concatenation is in one of the pieces.                   *)
LEMMA FlattenHas ==
  ASSUME NEW S, NEW n \in Nat \ {0}, NEW s \in [1 .. n -> Seq(S)]
  PROVE  /\ FlattenSeq(s) \in Seq(S)
         /\ ToSet(FlattenSeq(s)) = UNION {ToSet(s[i]) : i \in 1 .. n}
<1>0. PICK g \in [1 .. n -> Seq(S)] : Pieces(g, s, n)
  BY FlattenByPieces
<1>1. /\ g[1] = s[1]
      /\ \A i \in 2 .. n : g[i] = g[i - 1] \o s[i]
      /\ FlattenSeq(s) = g[n]
  BY <1>0 DEF Pieces
<1> DEFINE Has(k) == ToSet(g[k]) = UNION {ToSet(s[i]) : i \in 1 .. k}
           T == {k \in 1 .. n : Has(k)}
<1>2. 1 \in T
  BY <1>1
<1>3. ASSUME NEW k \in 1 .. n, k \in T, k < n PROVE k + 1 \in T
  <2>1. k + 1 \in 2 .. n /\ (k + 1) - 1 = k
    BY <1>3
  <2>2. g[k + 1] = g[k] \o s[k + 1]
    BY <1>1, <2>1
  <2>3. ToSet(g[k + 1]) = ToSet(g[k]) \cup ToSet(s[k + 1])
    BY <2>1, <2>2, ConcatHas
  <2>4. 1 .. k + 1 = (1 .. k) \cup {k + 1}
    OBVIOUS
  <2>5. Has(k)
    BY <1>3
  <2>6. Has(k + 1)
    BY <2>3, <2>4, <2>5
  <2> QED
    BY <2>1, <2>6
<1>4. n \in T
  <2> HIDE DEF T
  <2>1. \A k \in 1 .. n : k \in T /\ k < n => k + 1 \in T
    BY <1>3
  <2>2. 1 \in Int /\ n \in Int /\ n \in 1 .. n
    OBVIOUS
  <2> QED
    BY <1>2, <2>1, <2>2, IntervalInduction, Zenon
<1> QED
  BY <1>1, <1>4

(* Pieces that have nothing in common, each without repetitions, make a    *)
(* sequence without repetitions.                                           *)
LEMMA FlattenOnce ==
  ASSUME NEW S, NEW n \in Nat \ {0}, NEW s \in [1 .. n -> Seq(S)],
         \A i \in 1 .. n : IsInjective(s[i]),
         \A i, j \in 1 .. n : i # j => ToSet(s[i]) \cap ToSet(s[j]) = {}
  PROVE  IsInjective(FlattenSeq(s))
<1>0. PICK g \in [1 .. n -> Seq(S)] : Pieces(g, s, n)
  BY FlattenByPieces
<1>1. /\ g[1] = s[1]
      /\ \A i \in 2 .. n : g[i] = g[i - 1] \o s[i]
      /\ FlattenSeq(s) = g[n]
  BY <1>0 DEF Pieces
<1> DEFINE Apart(k) == \A i \in 1 .. n : i > k => ToSet(g[k]) \cap ToSet(s[i]) = {}
           T == {k \in 1 .. n : IsInjective(g[k]) /\ Apart(k)}
<1>2. 1 \in T
  BY <1>1
<1>3. ASSUME NEW k \in 1 .. n, k \in T, k < n PROVE k + 1 \in T
  <2>1. k + 1 \in 2 .. n /\ (k + 1) - 1 = k
    BY <1>3
  <2>2. g[k + 1] = g[k] \o s[k + 1]
    BY <1>1, <2>1
  <2>3. ToSet(g[k + 1]) = ToSet(g[k]) \cup ToSet(s[k + 1])
    BY <2>1, <2>2, ConcatHas
  <2>4. IsInjective(g[k]) /\ Apart(k)
    BY <1>3
  <2>5. ToSet(g[k]) \cap ToSet(s[k + 1]) = {}
    BY <2>1, <2>4
  <2>6. IsInjective(g[k + 1])
    BY <2>1, <2>2, <2>4, <2>5, ConcatOnce
  <2>7. Apart(k + 1)
    BY <2>1, <2>3, <2>4
  <2> QED
    BY <2>1, <2>6, <2>7
<1>4. n \in T
  <2> HIDE DEF T
  <2>1. \A k \in 1 .. n : k \in T /\ k < n => k + 1 \in T
    BY <1>3
  <2>2. 1 \in Int /\ n \in Int /\ n \in 1 .. n
    OBVIOUS
  <2> QED
    BY <1>2, <2>1, <2>2, IntervalInduction, Zenon
<1> QED
  BY <1>1, <1>4

-----------------------------------------------------------------------------
(* A walk down the places of a ring of n: from the one below index, which  *)
(* is not wrapped, n steps that wrap.  Where the walk gets in k steps.     *)
IsWalk(f, index, n) ==
  f = [k \in 0 .. n - 1 |->
         IF k = 0 THEN index - 1 ELSE IF f[k - 1] - 1 < 0 THEN n - 1 ELSE f[k - 1] - 1]

Walk(index, n) ==
  [k \in 0 .. n - 1 |->
     IF index = 0 THEN (IF k = 0 THEN -1 ELSE n - k)
     ELSE IF k < index THEN index - 1 - k ELSE n + index - 1 - k]

LEMMA WalkIsWalk ==
  ASSUME NEW n \in Nat \ {0, 1}, NEW index \in 0 .. n - 1
  PROVE  IsWalk(Walk(index, n), index, n)
<1> DEFINE w == Walk(index, n)
<1>1. \A k \in 0 .. n - 1 :
        w[k] = IF k = 0 THEN index - 1 ELSE IF w[k - 1] - 1 < 0 THEN n - 1 ELSE w[k - 1] - 1
  <2> SUFFICES ASSUME NEW k \in 0 .. n - 1
               PROVE  w[k] = IF k = 0 THEN index - 1
                             ELSE IF w[k - 1] - 1 < 0 THEN n - 1 ELSE w[k - 1] - 1
    OBVIOUS
  <2>1. CASE k = 0
    BY <2>1 DEF Walk
  <2>2. CASE k # 0
    <3>1. k - 1 \in 0 .. n - 1
      BY <2>2
    <3> QED
      BY <2>2, <3>1 DEF Walk
  <2> QED
    BY <2>1, <2>2
<1>2. w = [k \in 0 .. n - 1 |-> w[k]]
  BY DEF Walk
<1> HIDE DEF w
<1>3. IsWalk(w, index, n)
  BY <1>1, <1>2 DEF IsWalk
<1> QED
  BY <1>3 DEF w

LEMMA OnlyWalk ==
  ASSUME NEW n \in Nat \ {0, 1}, NEW index \in 0 .. n - 1,
         NEW f, IsWalk(f, index, n), NEW g, IsWalk(g, index, n)
  PROVE  f = g
<1>1. /\ DOMAIN f = 0 .. n - 1 /\ DOMAIN g = 0 .. n - 1
      /\ f = [k \in 0 .. n - 1 |-> f[k]] /\ g = [k \in 0 .. n - 1 |-> g[k]]
      /\ f[0] = index - 1 /\ g[0] = index - 1
  BY DEF IsWalk
<1>2. \A k \in 1 .. n - 1 :
        /\ f[k] = IF f[k - 1] - 1 < 0 THEN n - 1 ELSE f[k - 1] - 1
        /\ g[k] = IF g[k - 1] - 1 < 0 THEN n - 1 ELSE g[k - 1] - 1
  BY DEF IsWalk
<1> DEFINE T == {k \in 0 .. n - 1 : f[k] = g[k]}
<1>3. 0 \in T
  BY <1>1
<1>4. ASSUME NEW k \in 0 .. n - 1, k \in T, k < n - 1 PROVE k + 1 \in T
  <2>1. k + 1 \in 1 .. n - 1 /\ (k + 1) - 1 = k /\ f[k] = g[k]
    BY <1>4
  <2>2. f[k + 1] = g[k + 1]
    BY <1>2, <2>1
  <2> QED
    BY <2>1, <2>2
<1>5. 0 .. n - 1 \subseteq T
  <2> HIDE DEF T
  <2>1. \A k \in 0 .. n - 1 : k \in T /\ k < n - 1 => k + 1 \in T
    BY <1>4
  <2>2. 0 \in Int /\ n - 1 \in Int
    OBVIOUS
  <2> QED
    BY <1>3, <2>1, <2>2, IntervalInduction, Zenon
<1> QED
  BY <1>1, <1>5

(* The function that the recursion defines.                                *)
LEMMA WalkIs ==
  ASSUME NEW n \in Nat \ {0, 1}, NEW index \in 0 .. n - 1
  PROVE  (CHOOSE f : IsWalk(f, index, n)) = Walk(index, n)
<1>1. IsWalk(CHOOSE f : IsWalk(f, index, n), index, n)
  BY WalkIsWalk
<1> QED
  BY <1>1, WalkIsWalk, OnlyWalk

(* Unless it begins below 0, the walk meets every place once.              *)
LEMMA WalkMeetsAll ==
  ASSUME NEW n \in Nat \ {0, 1}, NEW index \in 0 .. n - 1
  PROVE  /\ \A k \in 0 .. n - 1 : Walk(index, n)[k] \in (0 .. n - 1) \cup {-1}
         /\ \A k, l \in 0 .. n - 1 : Walk(index, n)[k] = Walk(index, n)[l] => k = l
         /\ index # 0 => \A i \in 0 .. n - 1 : \E k \in 0 .. n - 1 : Walk(index, n)[k] = i
<1>1. index # 0 => \A i \in 0 .. n - 1 : \E k \in 0 .. n - 1 : Walk(index, n)[k] = i
  <2> SUFFICES ASSUME index # 0, NEW i \in 0 .. n - 1
               PROVE  \E k \in 0 .. n - 1 : Walk(index, n)[k] = i
    OBVIOUS
  <2>1. CASE i < index
    <3>1. index - 1 - i \in 0 .. n - 1 /\ Walk(index, n)[index - 1 - i] = i
      BY <2>1 DEF Walk
    <3> QED
      BY <3>1
  <2>2. CASE i >= index
    <3>1. n + index - 1 - i \in 0 .. n - 1 /\ Walk(index, n)[n + index - 1 - i] = i
      BY <2>2 DEF Walk
    <3> QED
      BY <3>1
  <2> QED
    BY <2>1, <2>2
<1>2. \A k \in 0 .. n - 1 : Walk(index, n)[k] \in (0 .. n - 1) \cup {-1}
  BY DEF Walk
<1>3. \A k, l \in 0 .. n - 1 : Walk(index, n)[k] = Walk(index, n)[l] => k = l
  BY DEF Walk
<1> QED
  BY <1>1, <1>2, <1>3

-----------------------------------------------------------------------------
(* Loops                                                                   *)

LEMMA Upwards ==
  ASSUME NEW n \in Nat, NEW T, 0 \in T, \A k \in 0 .. n : k \in T /\ k < n => k + 1 \in T
  PROVE  \A k \in 0 .. n : k \in T
<1>1. 0 \in Int /\ n \in Int
  OBVIOUS
<1>2. 0 .. n \subseteq T
  BY <1>1, IntervalInduction, Zenon
<1> QED
  BY <1>2

(* The greatest number of an interval.                                     *)
LEMMA MaxOfInterval == ASSUME NEW k \in Nat \ {0} PROVE Max(1 .. k) = k
<1>1. k \in 1 .. k /\ \A y \in 1 .. k : k >= y
  OBVIOUS
<1>2. \A x \in 1 .. k : (\A y \in 1 .. k : x >= y) => x = k
  OBVIOUS
<1> QED
  BY <1>1, <1>2 DEF Max

LEMMA MaxIsIn ==
  ASSUME NEW n \in Nat, NEW S \in SUBSET (1 .. n), S # {}
  PROVE  Max(S) \in 1 .. n /\ Max(S) \in S
<1>1. S \in SUBSET (0 .. n)
  OBVIOUS
<1>2. PICK x \in S : \A y \in S : y <= x
  BY <1>1, GreatestExists
<1>3. \A y \in S : x >= y
  BY <1>2
<1> QED
  BY <1>3 DEF Max

(* A loop over n elements, the i-th of which makes G[i][v] of v, computed  *)
(* in the way of the folds: by a function on the sets of indices.          *)
IsLoop(g, n, b, G) ==
  g = [S \in SUBSET (1 .. n) |-> IF S = {} THEN b ELSE G[Max(S)][g[S \ {Max(S)}]]]

LEMMA LoopExists ==
  ASSUME NEW n \in Nat, NEW V, NEW b \in V, NEW G \in [1 .. n -> [V -> V]]
  PROVE  \E g \in [SUBSET (1 .. n) -> V] : IsLoop(g, n, b, G)
<1> DEFINE T == {k \in 0 .. n : \E g \in [SUBSET (1 .. k) -> V] : IsLoop(g, k, b, G)}
<1>1. 0 \in T
  <2> DEFINE g == [S \in SUBSET (1 .. 0) |-> b]
  <2>1. g \in [SUBSET (1 .. 0) -> V]
    OBVIOUS
  <2>2. \A S \in SUBSET (1 .. 0) : S = {}
    OBVIOUS
  <2>3. g = [S \in SUBSET (1 .. 0) |-> IF S = {} THEN b ELSE G[Max(S)][g[S \ {Max(S)}]]]
    BY <2>2, Zenon
  <2> QED
    BY <2>1, <2>3 DEF IsLoop
<1>2. \A k \in 0 .. n : k \in T /\ k < n => k + 1 \in T
  <2> SUFFICES ASSUME NEW k \in 0 .. n, k \in T, k < n PROVE k + 1 \in T
    OBVIOUS
  <2>1. PICK g \in [SUBSET (1 .. k) -> V] : IsLoop(g, k, b, G)
    OBVIOUS
  <2> DEFINE Top(S) == IF k + 1 \in S THEN G[k + 1][g[S \ {k + 1}]] ELSE g[S]
             h == [S \in SUBSET (1 .. k + 1) |-> Top(S)]
  <2>2. \A S \in SUBSET (1 .. k + 1) : S \ {k + 1} \in SUBSET (1 .. k) /\ (k + 1 \notin S => S \in SUBSET (1 .. k))
    OBVIOUS
  <2>3. k + 1 \in 1 .. n /\ k + 1 \in 0 .. n
    OBVIOUS
  <2>4. h \in [SUBSET (1 .. k + 1) -> V]
    <3>1. \A S \in SUBSET (1 .. k + 1) : Top(S) \in V
      BY <2>2, <2>3
    <3> QED
      BY <3>1
  <2>5. ASSUME NEW S \in SUBSET (1 .. k + 1)
        PROVE  h[S] = IF S = {} THEN b ELSE G[Max(S)][h[S \ {Max(S)}]]
    <3>1. CASE k + 1 \in S
      <4>1. Max(S) = k + 1
        <5>1. \A y \in S : k + 1 >= y
          OBVIOUS
        <5>2. \A x \in S : (\A y \in S : x >= y) => x = k + 1
          BY <3>1
        <5> QED
          BY <3>1, <5>1, <5>2 DEF Max
      <4>2. S \ {k + 1} \in SUBSET (1 .. k) /\ S \ {k + 1} \in SUBSET (1 .. k + 1) /\ k + 1 \notin S \ {k + 1}
        BY <2>2
      <4>3. h[S \ {k + 1}] = g[S \ {k + 1}]
        BY <4>2
      <4> QED
        BY <3>1, <4>1, <4>3
    <3>2. CASE k + 1 \notin S
      <4>1. S \in SUBSET (1 .. k) /\ h[S] = g[S]
        BY <2>2, <3>2
      <4>2. g[S] = IF S = {} THEN b ELSE G[Max(S)][g[S \ {Max(S)}]]
        BY <2>1, <4>1, Zenon DEF IsLoop
      <4>3. S \ {Max(S)} \in SUBSET (1 .. k) /\ S \ {Max(S)} \in SUBSET (1 .. k + 1) /\ k + 1 \notin S \ {Max(S)}
        BY <3>2, <4>1
      <4>4. h[S \ {Max(S)}] = g[S \ {Max(S)}]
        BY <4>3
      <4> QED
        BY <4>1, <4>2, <4>4
    <3> QED
      BY <3>1, <3>2
  <2>6. IsLoop(h, k + 1, b, G)
    <3> HIDE DEF Top
    <3>1. h = [S \in SUBSET (1 .. k + 1) |-> h[S]]
      OBVIOUS
    <3> HIDE DEF h
    <3>2. [S \in SUBSET (1 .. k + 1) |-> h[S]]
          = [S \in SUBSET (1 .. k + 1) |-> IF S = {} THEN b ELSE G[Max(S)][h[S \ {Max(S)}]]]
      BY <2>5
    <3> QED
      BY <3>1, <3>2 DEF IsLoop
  <2> QED
    BY <2>3, <2>4, <2>6
<1> HIDE DEF T
<1>3. \A k \in 0 .. n : k \in T
  BY <1>1, <1>2, Upwards, Zenon
<1>4. n \in T
  BY <1>3
<1> QED
  BY <1>4 DEF T

(* What holds before a loop and is kept by each round holds after it.      *)
LEMMA RoundsKeep ==
  ASSUME NEW n \in Nat, NEW V, NEW h, h[0] \in V,
         \A i \in 1 .. n : h[i - 1] \in V => h[i] \in V
  PROVE  \A i \in 0 .. n : h[i] \in V
<1> DEFINE T == {k \in 0 .. n : h[k] \in V}
<1>1. \A k \in 0 .. n : k \in T /\ k < n => k + 1 \in T
  <2> SUFFICES ASSUME NEW k \in 0 .. n, k \in T, k < n PROVE k + 1 \in T
    OBVIOUS
  <2>1. k + 1 \in 1 .. n /\ (k + 1) - 1 = k
    OBVIOUS
  <2> QED
    BY <2>1
<1>2. 0 \in T
  OBVIOUS
<1> HIDE DEF T
<1>3. \A k \in 0 .. n : k \in T
  BY <1>1, <1>2, Upwards, Zenon
<1> QED
  BY <1>3 DEF T

(* The values between the rounds of a fold, from its function iter on the   *)
(* sets of indices.                                                        *)
Iterates(iter, n, V, b, G) ==
  /\ iter[{}] = b
  /\ \A S \in SUBSET (1 .. n) :
       S # {} /\ iter[S \ {Max(S)}] \in V => iter[S] = G[Max(S)][iter[S \ {Max(S)}]]
IsRounds(h, iter, n, b, G) ==
  h[0] = b /\ (\A i \in 1 .. n : h[i] = G[i][h[i - 1]]) /\ h[n] = iter[1 .. n]

LEMMA LoopRounds ==
  ASSUME NEW n \in Nat, NEW V, NEW b \in V, NEW G \in [1 .. n -> [V -> V]], NEW iter,
         Iterates(iter, n, V, b, G)
  PROVE  \E h \in [0 .. n -> V] : IsRounds(h, iter, n, b, G)
<1> DEFINE h == [k \in 0 .. n |-> iter[1 .. k]]
<1>1. 1 .. 0 = {} /\ 0 \in 0 .. n /\ n \in 0 .. n
  OBVIOUS
<1>2. h[0] = b /\ h[n] = iter[1 .. n] /\ h = [k \in 0 .. n |-> h[k]]
  BY <1>1 DEF Iterates
<1>3. ASSUME NEW k \in 1 .. n, h[k - 1] \in V PROVE h[k] = G[k][h[k - 1]] /\ h[k] \in V
  <2> HIDE DEF h
  <2>0. k \in Nat \ {0} /\ (1 .. k) \ {k} = 1 .. k - 1 /\ 1 .. k # {}
        /\ k \in 0 .. n /\ k - 1 \in 0 .. n /\ 1 .. k \in SUBSET (1 .. n)
    <3>1. k \in Nat \ {0} /\ k \in 0 .. n /\ k - 1 \in 0 .. n /\ k \in 1 .. k
      OBVIOUS
    <3>2. (1 .. k) \ {k} = 1 .. k - 1
      OBVIOUS
    <3>3. 1 .. k \in SUBSET (1 .. n)
      OBVIOUS
    <3> QED
      BY <3>1, <3>2, <3>3
  <2>1. /\ Max(1 .. k) = k /\ (1 .. k) \ {k} = 1 .. k - 1
        /\ k \in 0 .. n /\ k - 1 \in 0 .. n /\ 1 .. k # {} /\ 1 .. k \in SUBSET (1 .. n)
    BY <2>0, MaxOfInterval, Zenon
  <2>2. h[k] = iter[1 .. k] /\ h[k - 1] = iter[(1 .. k) \ {Max(1 .. k)}]
    BY <2>1 DEF h
  <2>3. iter[1 .. k] = G[Max(1 .. k)][iter[(1 .. k) \ {Max(1 .. k)}]]
    BY <1>3, <2>1, <2>2 DEF Iterates
  <2>4. h[k] = G[k][h[k - 1]]
    BY <2>1, <2>2, <2>3
  <2> QED
    BY <1>3, <2>4
<1> HIDE DEF h
<1>4. \A k \in 0 .. n : h[k] \in V
  BY <1>2, <1>3, RoundsKeep
<1>5. \A k \in 1 .. n : h[k] = G[k][h[k - 1]]
  <2> SUFFICES ASSUME NEW k \in 1 .. n PROVE h[k] = G[k][h[k - 1]]
    OBVIOUS
  <2>1. k - 1 \in 0 .. n
    OBVIOUS
  <2> QED
    BY <1>3, <1>4, <2>1
<1>6. h \in [0 .. n -> V]
  BY <1>2, <1>4
<1> QED
  BY <1>2, <1>5, <1>6 DEF IsRounds
=============================================================================
