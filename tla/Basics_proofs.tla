---------------------------- MODULE Basics_proofs ----------------------------
(***************************************************************************)
(* Facts about sets of naturals, finite sets and sequences that the other  *)
(* proofs rest on.                                                         *)
(***************************************************************************)
EXTENDS Positions, Integers, Sequences, FiniteSets, FiniteSetsExt, SequencesExt, TLAPS,
        SequenceTheorems, FiniteSetTheorems, WellFoundedInduction

\* Every non-empty set of naturals has a least element (Min is a CHOOSE): the
\* one with the fewest elements below it.
LEMMA MinProps ==
  ASSUME NEW S \in SUBSET Nat, S # {}
  PROVE  Min(S) \in S /\ \A x \in S : Min(S) <= x
<1> DEFINE below(x) == {y \in S : y < x}
           downs == {below(x) : x \in S}
           R == StrictSubsetOrdering(Nat)
<1>1. downs \subseteq FiniteSubsetsOf(Nat)
  <2>1. ASSUME NEW x \in S PROVE IsFiniteSet(below(x))
    <3>1. x \in Nat /\ below(x) \in SUBSET Nat
      OBVIOUS
    <3>2. \A y \in below(x) : y <= x
      <4>1. \A y \in Nat : y < x => y <= x
        BY <3>1
      <4>2. QED
        BY <3>1, <4>1
    <3>3. QED
      BY <3>1, <3>2, FS_BoundedSetOfNaturals
  <2>2. QED
    BY <2>1 DEF FiniteSubsetsOf
<1>2. PICK d \in downs : \A e \in downs : <<e, d>> \notin R
  <2>1. downs # {}
    OBVIOUS
  <2>2. IsWellFoundedOn(R, FiniteSubsetsOf(Nat))
    BY FS_StrictSubsetOrderingWellFounded
  <2> HIDE DEF downs, R
  <2>3. QED
    BY <1>1, <2>1, <2>2, WFMin
<1>3. PICK x \in S : d = below(x)
  OBVIOUS
<1>4. ASSUME NEW y \in S, y < x PROVE FALSE
  <2>1. below(y) \subseteq d /\ below(y) # d
    <3>1. y \in d /\ y \notin below(y)
      BY <1>3, <1>4
    <3>2. \A z \in Nat : z < y => z < x
      BY <1>4
    <3>3. below(y) \subseteq d
      BY <1>3, <3>2
    <3>4. QED
      BY <3>1, <3>3
  <2>2. below(y) \in SUBSET Nat /\ d \in SUBSET Nat
    BY <1>3
  <2>3. <<below(y), d>> \in R
    BY <2>1, <2>2 DEF StrictSubsetOrdering
  <2>4. QED
    BY <1>2, <2>3
<1>5. x \in S /\ \A y \in S : x <= y
  BY <1>4
<1>6. QED
  BY <1>5 DEF Min

\* A non-empty set of naturals with an upper bound has a greatest element.
LEMMA MaxProps ==
  ASSUME NEW n \in Nat, NEW S \in SUBSET (0 .. n), S # {}
  PROVE  Max(S) \in S /\ \A x \in S : x <= Max(S)
<1> DEFINE T == {n - x : x \in S}
<1>1. T \in SUBSET Nat /\ T # {}
  <2>1. \A x \in 0 .. n : n - x \in Nat
    OBVIOUS
  <2>2. QED
    BY <2>1
<1>2. Min(T) \in T /\ \A y \in T : Min(T) <= y
  BY <1>1, MinProps
<1>3. PICK x \in S : Min(T) = n - x
  BY <1>2
<1>4. \A y \in S : y <= x
  <2>1. ASSUME NEW y \in S PROVE y <= x
    <3>1. n - x <= n - y
      BY <1>2, <1>3
    <3>2. x \in Nat /\ y \in Nat
      OBVIOUS
    <3>3. QED
      BY <3>1, <3>2
  <2>2. QED
    BY <2>1
<1>5. \A z \in S : (\A y \in S : z >= y) => z = x
  BY <1>4
<1>6. QED
  BY <1>4, <1>5 DEF Max

\* Induction for a set of naturals.
LEMMA FromZero ==
  ASSUME NEW G \in SUBSET Nat, 0 \in G, \A k \in G : k + 1 \in G
  PROVE  \A k \in Nat : k \in G
<1> DEFINE Bad == Nat \ G
<1>1. SUFFICES ASSUME Bad # {} PROVE FALSE
  OBVIOUS
<1>2. Bad \in SUBSET Nat
  OBVIOUS
<1>3. Min(Bad) \in Bad /\ \A x \in Bad : Min(Bad) <= x
  <2> HIDE DEF Bad
  <2>1. QED
    BY <1>1, <1>2, MinProps
<1>4. PICK m \in Bad : \A x \in Bad : m <= x
  BY <1>3
<1>5. m \in Nat /\ m # 0 /\ m - 1 \in Nat /\ ~(m <= m - 1) /\ (m - 1) + 1 = m
  BY <1>4
<1>6. m - 1 \in G
  BY <1>4, <1>5
<1>7. QED
  BY <1>4, <1>5, <1>6
-----------------------------------------------------------------------------
(* Finite sets *)

\* The values of a function on a finite set are finite.
LEMMA FiniteImage ==
  ASSUME NEW f, IsFiniteSet(DOMAIN f), f = [x \in DOMAIN f |-> f[x]]
  PROVE  IsFiniteSet({f[x] : x \in DOMAIN f})
<1> DEFINE T == {f[x] : x \in DOMAIN f}
<1>1. f \in Surjection(DOMAIN f, T)
  BY DEF Surjection
<1>2. QED
  BY <1>1, FS_Surjection

\* A smaller set is one element away.
LEMMA LessOne ==
  ASSUME NEW s, IsFiniteSet(s), NEW x \in s
  PROVE  /\ IsFiniteSet(s \ {x}) /\ Cardinality(s \ {x}) \in Nat
         /\ Cardinality(s) \in Nat /\ Cardinality(s) = Cardinality(s \ {x}) + 1
<1> DEFINE r == s \ {x}
<1>1. IsFiniteSet(r) /\ Cardinality(r) = Cardinality(s) - 1
  BY FS_RemoveElement
<1>2. Cardinality(s) \in Nat /\ Cardinality(r) \in Nat
  BY <1>1, FS_CardinalityType
<1> HIDE DEF r
<1>3. Cardinality(s) = Cardinality(r) + 1
  BY <1>1, <1>2
<1>4. QED
  BY <1>1, <1>2, <1>3 DEF r

\* A strict order of P, given by what is ahead of each element.
StrictOrder(P, ahead) ==
  /\ ahead \in [P -> SUBSET P]
  /\ \A x \in P : x \notin ahead[x]
  /\ \A x, y \in P : x # y => x \in ahead[y] \/ y \in ahead[x]
  /\ \A x, y \in P : x \in ahead[y] => ahead[x] \subseteq ahead[y]

\* In a finite set with a strict order some element has k - 1 ahead of it, for
\* every k up to the size of the set, and no other has: else the ranks of the
\* elements would not fit.
LEMMA OrderFacts ==
  ASSUME NEW P, IsFiniteSet(P), NEW ahead, StrictOrder(P, ahead)
  PROVE  /\ Cardinality(P) \in Nat
         /\ \A x \in P : Cardinality(ahead[x]) \in 0 .. Cardinality(P) - 1
         /\ \A x, y \in P : Cardinality(ahead[x]) = Cardinality(ahead[y]) => x = y
         /\ \A k \in 1 .. Cardinality(P) :
              \E x \in P : Cardinality(ahead[x]) = k - 1
<1> DEFINE rank(x) == Cardinality(ahead[x])
           c       == Cardinality(P)
<1>1. c \in Nat
  BY FS_CardinalityType
<1>2. \A x \in P : /\ ahead[x] \in SUBSET P /\ x \notin ahead[x]
                  /\ IsFiniteSet(ahead[x]) /\ rank(x) \in Nat
  <2>1. \A x \in P : ahead[x] \in SUBSET P /\ x \notin ahead[x]
    BY DEF StrictOrder
  <2>2. \A x \in P : IsFiniteSet(ahead[x])
    BY <2>1, FS_Subset
  <2>3. QED
    BY <2>1, <2>2, FS_CardinalityType
<1>3. \A x \in P : rank(x) \in 0 .. c - 1
  <2>1. ASSUME NEW x \in P PROVE rank(x) \in 0 .. c - 1
    <3>1. rank(x) <= c /\ (rank(x) = c => ahead[x] = P)
      BY <1>2, FS_Subset
    <3>2. rank(x) # c
      BY <1>2, <3>1
    <3>3. rank(x) \in Nat
      BY <1>2
    <3> HIDE DEF rank, c
    <3>4. QED
      BY <1>1, <3>1, <3>2, <3>3
  <2>2. QED
    BY <2>1
<1>4. ASSUME NEW x \in P, NEW y \in P, x \in ahead[y] PROVE rank(x) # rank(y)
  <2>1. ahead[x] \subseteq ahead[y] /\ x \notin ahead[x]
    BY <1>4 DEF StrictOrder
  <2>2. ahead[x] # ahead[y]
    BY <1>4, <2>1
  <2>3. QED
    BY <1>2, <2>1, <2>2, FS_Subset
<1>5. \A x, y \in P : rank(x) = rank(y) => x = y
  <2> HIDE DEF rank
  <2>1. QED
    BY <1>4 DEF StrictOrder
<1> HIDE DEF rank, c
<1>6. ASSUME NEW k \in 1 .. c, \A x \in P : rank(x) # k - 1
      PROVE  FALSE
  <2> DEFINE T == (0 .. c - 1) \ {k - 1}
             f == [x \in P |-> rank(x)]
  <2>1. f \in [P -> T]
    BY <1>3, <1>6
  <2>2. IsFiniteSet(T) /\ Cardinality(T) < c
    <3>1. IsFiniteSet(0 .. c - 1) /\ Cardinality(0 .. c - 1) = c
      BY <1>1, FS_Interval
    <3>2. k - 1 \in 0 .. c - 1
      BY <1>1
    <3> DEFINE I == 0 .. c - 1
               e == k - 1
    <3> HIDE DEF I, e
    <3>3. IsFiniteSet(I \ {e}) /\ Cardinality(I \ {e}) = Cardinality(I) - 1
      <4>1. IsFiniteSet(I) /\ e \in I
        BY <3>1, <3>2 DEF I, e
      <4>2. QED
        BY <4>1, FS_RemoveElement
    <3>4. T = I \ {e} /\ Cardinality(I) = c
      BY <3>1 DEF I, e
    <3> HIDE DEF T
    <3>5. QED
      BY <1>1, <3>3, <3>4
  <2> HIDE DEF T, f
  <2>3. PICK x \in P, y \in P : x # y /\ f[x] = f[y]
    <3>1. Cardinality(T) < Cardinality(P)
      BY <2>2 DEF c
    <3>2. QED
      BY <2>1, <2>2, <3>1, FS_PigeonHole
  <2>4. QED
    BY <1>5, <2>3 DEF f
<1>7. QED
  BY <1>1, <1>3, <1>5, <1>6 DEF rank, c

\* No more than m elements have less than m ahead.
LEMMA FewAhead ==
  ASSUME NEW P, NEW rank, \A x \in P : rank[x] \in Nat,
         \A x, y \in P : rank[x] = rank[y] => x = y,
         NEW m \in Nat
  PROVE  LET few == {x \in P : rank[x] < m}
         IN  IsFiniteSet(few) /\ Cardinality(few) <= m
<1> DEFINE few == {x \in P : rank[x] < m}
           T == 0 .. m - 1
           f == [x \in few |-> rank[x]]
<1>1. IsFiniteSet(T) /\ Cardinality(T) = m
  BY FS_Interval
<1>2. \A x \in few : x \in P /\ rank[x] \in T
  OBVIOUS
<1> HIDE DEF few
<1>3. f \in Injection(few, T)
  <2>1. f \in [few -> T]
    BY <1>2
  <2>2. \A x, y \in few : f[x] = f[y] => x = y
    BY <1>2
  <2> HIDE DEF f, T
  <2>3. QED
    BY <2>1, <2>2 DEF Injection, IsInjective
<1> HIDE DEF f, T
<1>4. QED
  BY <1>1, <1>3, FS_Injection DEF few

\* In a finite strict order some element has k - 1 elements ahead.
LEMMA OrderPlaces ==
  ASSUME NEW P, IsFiniteSet(P), NEW ahead, StrictOrder(P, ahead),
         NEW k \in 1 .. Cardinality(P)
  PROVE  \E x \in P : Cardinality(ahead[x]) = k - 1
BY OrderFacts

\* Of a finite set of naturals some element has k - 1 smaller ones, for every
\* k up to the size of the set, and no other has.
LEMMA RankFacts ==
  ASSUME NEW n \in Nat, NEW P \in SUBSET (1 .. n)
  PROVE  /\ Cardinality(P) \in Nat
         /\ \A k \in 1 .. Cardinality(P) :
              \E i \in P : Cardinality({j \in P : j < i}) = k - 1
         /\ \A i \in P : Cardinality({j \in P : j < i}) \in 0 .. Cardinality(P) - 1
         /\ \A x, y \in P : Cardinality({j \in P : j < x}) = Cardinality({j \in P : j < y})
                            => x = y
<1> DEFINE below == [i \in P |-> {j \in P : j < i}]
<1>1. IsFiniteSet(P)
  <2>1. IsFiniteSet(1 .. n)
    BY FS_Interval
  <2>2. QED
    BY <2>1, FS_Subset
<1>2. /\ below \in [P -> SUBSET P]
      /\ \A x \in P : x \notin below[x]
      /\ \A x, y \in P : x # y => x \in below[y] \/ y \in below[x]
  OBVIOUS
<1>3. \A x, y \in P : x \in below[y] => below[x] \subseteq below[y]
  <2>1. ASSUME NEW x \in P, NEW y \in P, x \in below[y], NEW z \in below[x]
        PROVE  z \in below[y]
    BY <2>1
  <2>2. QED
    BY <2>1
<1> DEFINE c == Cardinality(P)
<1> HIDE DEF below
<1>4. /\ c \in Nat
      /\ \A k \in 1 .. c : \E i \in P : Cardinality(below[i]) = k - 1
      /\ \A i \in P : Cardinality(below[i]) \in 0 .. c - 1
      /\ \A x, y \in P : Cardinality(below[x]) = Cardinality(below[y]) => x = y
  <2>1. StrictOrder(P, below)
    BY <1>2, <1>3 DEF StrictOrder
  <2> DEFINE size == Cardinality(P)
             Place(i) == Cardinality(below[i])
  <2>2. size \in Nat /\ \A i \in P : Place(i) \in 0 .. size - 1
    BY <1>1, <2>1, OrderFacts
  <2>3. \A x, y \in P : Place(x) = Place(y) => x = y
    BY <1>1, <2>1, OrderFacts
  <2>4. \A k \in 1 .. size : \E i \in P : Place(i) = k - 1
    <3>1. ASSUME NEW k \in 1 .. size
          PROVE  \E i \in P : Cardinality(below[i]) = k - 1
      BY <1>1, <2>1, OrderPlaces
    <3>2. QED
      BY <3>1
  <2> HIDE DEF Place
  <2>5. QED
    BY <2>2, <2>3, <2>4 DEF Place
<1>5. \A i \in P : below[i] = {j \in P : j < i}
  BY DEF below
<1>6. QED
  BY <1>4, <1>5

\* Positions in their order: each of them once.
LEMMA InOrderFacts ==
  ASSUME NEW n \in Nat, NEW kept \in SUBSET (1 .. n)
  PROVE  /\ Cardinality(kept) \in Nat
         /\ DOMAIN InOrder(kept) = 1 .. Cardinality(kept)
         /\ InOrder(kept) \in [1 .. Cardinality(kept) -> kept]
         /\ \A i \in kept : \E m \in 1 .. Cardinality(kept) : InOrder(kept)[m] = i
         /\ \A j, m \in 1 .. Cardinality(kept) : j < m => InOrder(kept)[j] < InOrder(kept)[m]
<1> DEFINE c        == Cardinality(kept)
           below(i) == {j \in kept : j < i}
           rank(i)  == Cardinality(below(i))
           o        == InOrder(kept)
<1>1. /\ c \in Nat
      /\ \A k \in 1 .. c : \E i \in kept : rank(i) = k - 1
      /\ \A i \in kept : rank(i) \in 0 .. c - 1
      /\ \A x, y \in kept : rank(x) = rank(y) => x = y
  BY RankFacts
<1>2. o = [m \in 1 .. c |-> CHOOSE i \in kept : rank(i) = m - 1]
  BY DEF InOrder
<1>3. ASSUME NEW x \in kept, NEW y \in kept, x < y PROVE rank(x) <= rank(y)
  <2>1. below(x) \subseteq below(y)
    <3>1. \A z \in kept : z < x => z < y
      BY <1>3
    <3>2. QED
      BY <3>1
  <2>2. IsFiniteSet(below(y))
    <3>1. IsFiniteSet(1 .. n)
      BY FS_Interval
    <3>2. below(y) \subseteq 1 .. n
      OBVIOUS
    <3> HIDE DEF below
    <3>3. QED
      BY <3>1, <3>2, FS_Subset
  <2> HIDE DEF below
  <2>3. QED
    BY <2>1, <2>2, FS_Subset
<1> HIDE DEF c, rank, o
<1>4. \A m \in 1 .. c : o[m] \in kept /\ rank(o[m]) = m - 1
  BY <1>1, <1>2
<1>5. DOMAIN o = 1 .. c /\ o \in [1 .. c -> kept]
  BY <1>2, <1>4
<1>6. ASSUME NEW i \in kept PROVE \E m \in 1 .. c : o[m] = i
  <2>1. rank(i) + 1 \in 1 .. c /\ (rank(i) + 1) - 1 = rank(i)
    BY <1>1
  <2>2. o[rank(i) + 1] = i
    BY <1>1, <1>4, <2>1
  <2>3. QED
    BY <2>1, <2>2
<1>7. ASSUME NEW j \in 1 .. c, NEW m \in 1 .. c, j < m PROVE o[j] < o[m]
  <2>1. /\ o[j] \in kept /\ o[m] \in kept /\ rank(o[j]) = j - 1 /\ rank(o[m]) = m - 1
    BY <1>4
  <2>2. j - 1 < m - 1 /\ ~(m - 1 <= j - 1)
    BY <1>1, <1>7
  <2>3. o[j] # o[m]
    BY <2>1, <2>2
  <2>4. ~(o[m] < o[j])
    BY <1>3, <2>1, <2>2
  <2>5. \A x, y \in kept : x # y /\ ~(y < x) => x < y
    OBVIOUS
  <2>6. QED
    BY <2>1, <2>3, <2>4, <2>5
<1>8. QED
  BY <1>1, <1>5, <1>6, <1>7 DEF c, o
-----------------------------------------------------------------------------
(* Sequences *)

\* A function on an initial segment of the positive naturals is a sequence.
LEMMA FcnIsSeq ==
  ASSUME NEW S, NEW n \in Nat, NEW f \in [1 .. n -> S]
  PROVE  f \in Seq(S) /\ Len(f) = n /\ DOMAIN f = 1 .. n
OBVIOUS

\* A piece of a sequence is a sequence over the same set.
LEMMA PieceIsSeq ==
  ASSUME NEW S, NEW w \in Seq(S), NEW a \in Nat \ {0}, NEW b \in Int,
         b <= Len(w)
  PROVE  SubSeq(w, a, b) \in Seq(S)
<1>1. \A i \in a .. b : w[i] \in S
  BY ElementOfSeq, LenProperties
<1>2. QED
  BY <1>1, SubSeqProperties

\* What stands in a piece of a list.
LEMMA PieceFacts ==
  ASSUME NEW S, NEW w \in Seq(S), NEW a \in Nat \ {0}, NEW b \in Nat,
         a <= b + 1, b <= Len(w)
  PROVE  /\ SubSeq(w, a, b) \in Seq(S) /\ Len(SubSeq(w, a, b)) = b + 1 - a
         /\ \A i \in 1 .. b + 1 - a : SubSeq(w, a, b)[i] = w[a + i - 1]
<1>1. \A i \in a .. b : w[i] \in S
  BY ElementOfSeq, LenProperties
<1>2. /\ SubSeq(w, a, b) \in Seq(S)
      /\ Len(SubSeq(w, a, b)) = IF a <= b THEN b - a + 1 ELSE 0
      /\ \A i \in 1 .. b - a + 1 : SubSeq(w, a, b)[i] = w[a + i - 1]
  BY <1>1, SubSeqProperties
<1>3. b - a + 1 = b + 1 - a /\ (~(a <= b) => b + 1 - a = 0)
  OBVIOUS
<1>4. QED
  BY <1>2, <1>3

\* What stands in a concatenation stands in one of its parts, and vice versa.
LEMMA ConcatElements ==
  ASSUME NEW S, NEW u \in Seq(S), NEW v \in Seq(S)
  PROVE  /\ u \o v \in Seq(S)
         /\ \A j \in DOMAIN (u \o v) : \/ \E k \in DOMAIN u : (u \o v)[j] = u[k]
                                       \/ \E k \in DOMAIN v : (u \o v)[j] = v[k]
         /\ \A k \in DOMAIN u : \E j \in DOMAIN (u \o v) : (u \o v)[j] = u[k]
         /\ \A k \in DOMAIN v : \E j \in DOMAIN (u \o v) : (u \o v)[j] = v[k]
<1> DEFINE m == Len(u)
           n == Len(v)
           c == u \o v
<1>1. /\ DOMAIN u = 1 .. m /\ m \in Nat
      /\ DOMAIN v = 1 .. n /\ n \in Nat
  BY LenProperties
<1>2. /\ c \in Seq(S) /\ Len(c) = m + n
      /\ \A j \in 1 .. m + n : c[j] = IF j <= m THEN u[j] ELSE v[j - m]
  BY ConcatProperties
<1>3. DOMAIN c = 1 .. m + n
  BY <1>2, LenProperties
<1> HIDE DEF c, m, n
<1>4. \A j \in 1 .. m + n : (j <= m => j \in 1 .. m) /\ (~(j <= m) => j - m \in 1 .. n)
  BY <1>1
<1>5. \A k \in 1 .. m : k \in 1 .. m + n /\ k <= m
  BY <1>1
<1>6. \A k \in 1 .. n : k + m \in 1 .. m + n /\ ~(k + m <= m) /\ (k + m) - m = k
  BY <1>1
<1>7. \A j \in DOMAIN c : \/ \E k \in DOMAIN u : c[j] = u[k]
                         \/ \E k \in DOMAIN v : c[j] = v[k]
  BY <1>1, <1>2, <1>3, <1>4
<1>8. \A k \in DOMAIN u : \E j \in DOMAIN c : c[j] = u[k]
  BY <1>1, <1>2, <1>3, <1>5
<1>9. \A k \in DOMAIN v : \E j \in DOMAIN c : c[j] = v[k]
  BY <1>1, <1>2, <1>3, <1>6
<1>10. QED
  BY <1>2, <1>7, <1>8, <1>9 DEF c

\* The same, as sets.
LEMMA ConcatRange ==
  ASSUME NEW S, NEW u \in Seq(S), NEW v \in Seq(S)
  PROVE  /\ u \o v \in Seq(S)
         /\ \A x : x \in Range(u \o v) <=> x \in Range(u) \/ x \in Range(v)
<1> DEFINE m == Len(u)
           n == Len(v)
           c == u \o v
<1>1. /\ DOMAIN u = 1 .. m /\ m \in Nat
      /\ DOMAIN v = 1 .. n /\ n \in Nat
  BY LenProperties
<1>2. /\ c \in Seq(S) /\ Len(c) = m + n
      /\ \A j \in 1 .. m + n : c[j] = IF j <= m THEN u[j] ELSE v[j - m]
  BY ConcatProperties
<1>3. DOMAIN c = 1 .. m + n
  BY <1>2, LenProperties
<1> HIDE DEF c, m, n
<1>4. ASSUME NEW j \in DOMAIN c PROVE c[j] \in Range(u) \/ c[j] \in Range(v)
  <2>1. (j <= m => j \in DOMAIN u) /\ (~(j <= m) => j - m \in DOMAIN v)
    BY <1>1, <1>3
  <2>2. c[j] = IF j <= m THEN u[j] ELSE v[j - m]
    BY <1>2, <1>3
  <2>3. QED
    BY <2>1, <2>2 DEF Range
<1>5. ASSUME NEW k \in DOMAIN u PROVE u[k] \in Range(c)
  <2>1. k \in DOMAIN c /\ c[k] = u[k]
    BY <1>1, <1>2, <1>3
  <2>2. QED
    BY <2>1 DEF Range
<1>6. ASSUME NEW k \in DOMAIN v PROVE v[k] \in Range(c)
  <2>1. k + m \in DOMAIN c /\ ~(k + m <= m) /\ (k + m) - m = k
    BY <1>1, <1>3
  <2>2. c[k + m] = v[k]
    BY <1>2, <1>3, <2>1
  <2>3. QED
    BY <2>1, <2>2 DEF Range
<1>7. \A x : x \in Range(c) <=> x \in Range(u) \/ x \in Range(v)
  BY <1>4, <1>5, <1>6 DEF Range
<1>8. QED
  BY <1>2, <1>7 DEF c
-----------------------------------------------------------------------------
(* A sequence of sequences in one *)

\* One after the other: what FlattenSeq defines by recursion.
Joined(s, g) ==
  g = [i \in 1 .. Len(s) |-> IF i = 1 THEN s[i] ELSE g[i - 1] \o s[i]]

\* The recursion has a solution.
LEMMA JoinedExists ==
  ASSUME NEW s, Len(s) \in Nat
  PROVE  \E g : Joined(s, g)
<1> DEFINE n == Len(s)
           At(g, i) == IF i = 1 THEN s[i] ELSE g[i - 1] \o s[i]
           G == {k \in Nat : \E g : \A i \in 1 .. n : i <= k => g[i] = At(g, i)}
<1>1. 0 \in G
  <2>1. \A i \in 1 .. n : ~(i <= 0)
    OBVIOUS
  <2> HIDE DEF At, n
  <2>2. \E g : \A i \in 1 .. n : i <= 0 => g[i] = At(g, i)
    BY <2>1
  <2>3. QED
    BY <2>2
<1>2. ASSUME NEW k \in G PROVE k + 1 \in G
  <2>1. PICK g : \A i \in 1 .. n : i <= k => g[i] = At(g, i)
    OBVIOUS
  <2> DEFINE h == [i \in 1 .. n |-> IF i <= k THEN g[i] ELSE At(g, i)]
  <2>2. ASSUME NEW i \in 1 .. n, i <= k + 1 PROVE h[i] = At(h, i)
    <3>1. k \in Nat /\ i \in Nat /\ n \in Nat
      OBVIOUS
    <3>2. h[i] = At(g, i)
      BY <2>1
    <3>3. i # 1 => h[i - 1] = g[i - 1]
      <4>1. i # 1 => i - 1 \in 1 .. n /\ i - 1 <= k
        BY <2>2, <3>1
      <4>2. QED
        BY <4>1
    <3> HIDE DEF h
    <3>4. QED
      BY <3>2, <3>3
  <2>3. \E f : \A i \in 1 .. n : i <= k + 1 => f[i] = At(f, i)
    <3> HIDE DEF h
    <3>1. QED
      BY <2>2
  <2>4. k + 1 \in Nat
    OBVIOUS
  <2> HIDE DEF At, n
  <2>5. QED
    BY <2>3, <2>4
<1>3. G \in SUBSET Nat
  OBVIOUS
<1>4. n \in G
  <2> HIDE DEF G, n
  <2>1. n \in Nat
    BY DEF n
  <2>2. QED
    BY <1>1, <1>2, <1>3, <2>1, FromZero
<1>5. PICK g : \A i \in 1 .. n : i <= n => g[i] = At(g, i)
  BY <1>4
<1> DEFINE f == [i \in 1 .. n |-> g[i]]
<1>6. f = [i \in 1 .. n |-> At(f, i)]
  <2>1. ASSUME NEW i \in 1 .. n PROVE f[i] = At(f, i)
    <3>1. f[i] = At(g, i)
      BY <1>5
    <3>2. i # 1 => f[i - 1] = g[i - 1]
      OBVIOUS
    <3> HIDE DEF f
    <3>3. QED
      BY <3>1, <3>2
  <2>2. QED
    BY <2>1
<1>7. Joined(s, f)
  BY <1>6 DEF Joined
<1>8. QED
  BY <1>7

\* FlattenSeq is a sequence of all that the sequences hold.
LEMMA Flattened ==
  ASSUME NEW T, NEW s \in Seq(Seq(T))
  PROVE  /\ FlattenSeq(s) \in Seq(T)
         /\ \A x : x \in Range(FlattenSeq(s)) <=> \E i \in DOMAIN s : x \in Range(s[i])
<1> DEFINE n == Len(s)
           g == CHOOSE h : Joined(s, h)
<1>1. n \in Nat /\ DOMAIN s = 1 .. n /\ \A i \in 1 .. n : s[i] \in Seq(T)
  BY LenProperties, ElementOfSeq
<1>2. Joined(s, g)
  BY <1>1, JoinedExists
<1>3. CASE n = 0
  <2>1. FlattenSeq(s) = s /\ s = <<>> /\ DOMAIN s = {}
    BY <1>1, <1>3, EmptySeq DEF FlattenSeq
  <2>2. <<>> \in Seq(T) /\ Range(<<>>) = {}
    BY EmptySeq DEF Range
  <2>3. QED
    BY <2>1, <2>2
<1>4. CASE n # 0
  <2>1. FlattenSeq(s) = g[n]
    BY <1>4 DEF FlattenSeq, Joined
  <2> DEFINE Holds(k) ==
               /\ g[k] \in Seq(T)
               /\ \A x : x \in Range(g[k]) <=> \E i \in 1 .. k : x \in Range(s[i])
             G == {k \in Nat : k + 1 \in 1 .. n => Holds(k + 1)}
  <2> HIDE DEF g
  <2>2. \A i \in 1 .. n : g[i] = IF i = 1 THEN s[i] ELSE g[i - 1] \o s[i]
    BY <1>2 DEF Joined
  <2> HIDE DEF n
  <2>3. 0 \in G
    <3>1. 1 \in 1 .. n /\ g[1] = s[1]
      BY <1>1, <1>4, <2>2
    <3>2. Holds(1)
      BY <1>1, <3>1
    <3>3. QED
      BY <3>2
  <2>4. ASSUME NEW k \in G PROVE k + 1 \in G
    <3> SUFFICES ASSUME k + 2 \in 1 .. n PROVE Holds(k + 2)
      OBVIOUS
    <3> DEFINE j == k + 1
    <3>1. j \in 1 .. n /\ j + 1 \in 1 .. n /\ j + 1 # 1 /\ (j + 1) - 1 = j /\ j + 1 = k + 2
      BY <1>1
    <3>2. Holds(j)
      BY <3>1
    <3> HIDE DEF j
    <3>3. g[j + 1] = g[j] \o s[j + 1] /\ s[j + 1] \in Seq(T)
      BY <1>1, <2>2, <3>1
    <3>4. /\ g[j + 1] \in Seq(T)
          /\ \A x : x \in Range(g[j + 1]) <=> x \in Range(g[j]) \/ x \in Range(s[j + 1])
      <4> DEFINE u == g[j]
                 v == s[j + 1]
      <4>1. u \in Seq(T) /\ v \in Seq(T)
        BY <3>2, <3>3
      <4>2. g[j + 1] = u \o v
        BY <3>3
      <4> HIDE DEF u, v
      <4>3. /\ u \o v \in Seq(T)
            /\ \A x : x \in Range(u \o v) <=> x \in Range(u) \/ x \in Range(v)
        BY <4>1, ConcatRange
      <4>4. QED
        BY <4>2, <4>3 DEF u, v
    <3>5. \A i : i \in 1 .. j + 1 <=> i \in 1 .. j \/ i = j + 1
      BY <1>1, <3>1
    <3>6. Holds(j + 1)
      BY <3>2, <3>4, <3>5
    <3>7. QED
      BY <3>1, <3>6
  <2>5. G \in SUBSET Nat
    OBVIOUS
  <2>6. n - 1 \in G
    <3> HIDE DEF G
    <3>1. n - 1 \in Nat
      BY <1>1, <1>4
    <3>2. QED
      BY <2>3, <2>4, <2>5, <3>1, FromZero
  <2>7. Holds(n)
    <3>1. n - 1 \in Nat /\ (n - 1) + 1 = n /\ n \in 1 .. n
      BY <1>1, <1>4
    <3> HIDE DEF Holds
    <3>2. QED
      BY <2>6, <3>1
  <2>8. QED
    BY <1>1, <2>1, <2>7
<1>5. QED
  BY <1>3, <1>4
-----------------------------------------------------------------------------
(* Sequences of anything *)

\* A sequence over some set is one over its own elements.
LEMMA SeqFacts ==
  ASSUME NEW S, NEW s \in Seq(S)
  PROVE  IsSeq(s) /\ Len(s) \in Nat /\ DOMAIN s = 1 .. Len(s) /\ Range(s) \subseteq S
<1>1. Len(s) \in Nat /\ DOMAIN s = 1 .. Len(s) /\ s \in [1 .. Len(s) -> S]
  BY LenProperties
<1>2. s \in [1 .. Len(s) -> Range(s)]
  BY <1>1 DEF Range
<1>3. s \in Seq(Range(s))
  <2> DEFINE n == Len(s)
             R == Range(s)
  <2>1. n \in Nat /\ s \in [1 .. n -> R]
    BY <1>1, <1>2
  <2> HIDE DEF n, R
  <2>2. s \in Seq(R)
    BY <2>1, FcnIsSeq
  <2>3. QED
    BY <2>2 DEF R
<1>4. QED
  BY <1>1, <1>3 DEF IsSeq, Range

\* What is known of a sequence.
LEMMA SeqIs ==
  ASSUME NEW s, IsSeq(s)
  PROVE  Len(s) \in Nat /\ DOMAIN s = 1 .. Len(s)
BY SeqFacts DEF IsSeq

\* A sequence is one over any set that holds its elements.
LEMMA SeqOver ==
  ASSUME NEW s, IsSeq(s), NEW T, Range(s) \subseteq T
  PROVE  s \in Seq(T)
BY SeqMonotonic DEF IsSeq

\* The empty sequence is one.
LEMMA EmptyIs == IsSeq(<<>>) /\ Len(<<>>) = 0 /\ DOMAIN <<>> = {}
<1>1. <<>> \in Seq({}) /\ Len(<<>>) = 0
  BY EmptySeq
<1>2. IsSeq(<<>>) /\ DOMAIN <<>> = 1 .. 0
  BY <1>1, SeqFacts
<1>3. QED
  BY <1>1, <1>2

\* One more element.
LEMMA Appended ==
  ASSUME NEW s, IsSeq(s), NEW x
  PROVE  /\ IsSeq(Append(s, x)) /\ Len(Append(s, x)) = Len(s) + 1
         /\ DOMAIN Append(s, x) = 1 .. Len(s) + 1
         /\ \A i \in 1 .. Len(s) : Append(s, x)[i] = s[i]
         /\ Append(s, x)[Len(s) + 1] = x
         /\ \A y : y \in Range(Append(s, x)) <=> y \in Range(s) \/ y = x
<1> DEFINE T == Range(s) \cup {x}
           a == Append(s, x)
           n == Len(s)
<1>1. s \in Seq(T) /\ x \in T /\ n \in Nat /\ DOMAIN s = 1 .. n
  BY SeqOver, SeqIs
<1> HIDE DEF T
<1>2. /\ a \in Seq(T) /\ Len(a) = n + 1 /\ a[n + 1] = x
      /\ \A i \in 1 .. n : a[i] = s[i]
  BY <1>1, AppendProperties
<1>3. IsSeq(a) /\ DOMAIN a = 1 .. n + 1
  BY <1>2, SeqFacts
<1> HIDE DEF a, n
<1>4. ASSUME NEW y PROVE y \in Range(a) <=> y \in Range(s) \/ y = x
  <2>1. \A i \in 1 .. n + 1 : i \in 1 .. n \/ i = n + 1
    BY <1>1
  <2>2. n + 1 \in 1 .. n + 1 /\ \A i \in 1 .. n : i \in 1 .. n + 1
    BY <1>1
  <2>3. ASSUME y \in Range(a) PROVE y \in Range(s) \/ y = x
    <3>1. PICK i \in 1 .. n + 1 : y = a[i]
      BY <1>3, <2>3 DEF Range
    <3>2. QED
      BY <1>1, <1>2, <2>1, <3>1 DEF Range
  <2>4. ASSUME y \in Range(s) \/ y = x PROVE y \in Range(a)
    BY <1>1, <1>2, <1>3, <2>2, <2>4 DEF Range
  <2>5. QED
    BY <2>3, <2>4
<1>5. QED
  BY <1>2, <1>3, <1>4 DEF a, n

\* One element less.
LEMMA Shortened ==
  ASSUME NEW s, IsSeq(s), s # <<>>
  PROVE  IsSeq(Tail(s)) /\ \A x \in Range(s) : x = Head(s) \/ x \in Range(Tail(s))
<1> DEFINE T == Range(s)
           t == Tail(s)
           n == Len(s)
<1>1. s \in Seq(T) /\ n \in Nat /\ DOMAIN s = 1 .. n
  BY SeqIs DEF IsSeq
<1> HIDE DEF T
<1>2. /\ t \in Seq(T) /\ Len(t) = n - 1 /\ n # 0
      /\ \A i \in 1 .. n - 1 : t[i] = s[i + 1]
  BY <1>1, HeadTailProperties, EmptySeq
<1>3. IsSeq(t) /\ DOMAIN t = 1 .. n - 1
  BY <1>2, SeqFacts
<1>4. Head(s) = s[1]
  BY <1>1, <1>2, HeadTailProperties, EmptySeq
<1> HIDE DEF t, n
<1>5. ASSUME NEW i \in 1 .. n PROVE s[i] = Head(s) \/ s[i] \in Range(t)
  <2>1. i = 1 \/ (i - 1 \in 1 .. n - 1 /\ (i - 1) + 1 = i)
    BY <1>1
  <2>2. i - 1 \in 1 .. n - 1 => t[i - 1] = s[i]
    BY <1>2, <2>1
  <2>3. QED
    BY <1>3, <1>4, <2>1, <2>2 DEF Range
<1>6. QED
  BY <1>1, <1>3, <1>5 DEF t, Range

\* A sequence of sequences in one.
LEMMA FlatSeqs ==
  ASSUME NEW s, IsSeq(s), \A i \in DOMAIN s : IsSeq(s[i])
  PROVE  /\ IsSeq(FlattenSeq(s))
         /\ \A x : x \in Range(FlattenSeq(s)) <=> \E i \in DOMAIN s : x \in Range(s[i])
<1> DEFINE T == UNION {Range(s[i]) : i \in DOMAIN s}
<1>1. \A i \in DOMAIN s : s[i] \in Seq(T)
  <2>1. ASSUME NEW i \in DOMAIN s PROVE s[i] \in Seq(T)
    <3>1. Range(s[i]) \subseteq T
      OBVIOUS
    <3> HIDE DEF T
    <3>2. QED
      BY <3>1, SeqOver
  <2>2. QED
    BY <2>1
<1> HIDE DEF T
<1>2. s \in Seq(Seq(T))
  BY <1>1, SeqOver DEF Range
<1>3. QED
  BY <1>2, Flattened, SeqFacts

\* A sample of items: those at the positions, and no others.
LEMMA SubFacts ==
  ASSUME NEW items, IsSeq(items), NEW kept \in SUBSET DOMAIN items
  PROVE  /\ IsSeq(Sub(items, kept)) /\ Len(Sub(items, kept)) = Cardinality(kept)
         /\ Range(Sub(items, kept)) = {items[i] : i \in kept}
         /\ Cardinality(kept) \in Nat
<1> DEFINE s == Sub(items, kept)
           o == InOrder(kept)
           c == Cardinality(kept)
           R == {items[i] : i \in kept}
<1>1. Len(items) \in Nat /\ kept \in SUBSET (1 .. Len(items))
  BY SeqIs
<1>2. /\ c \in Nat /\ DOMAIN o = 1 .. c /\ o \in [1 .. c -> kept]
      /\ \A i \in kept : \E m \in 1 .. c : o[m] = i
  <2> DEFINE n == Len(items)
  <2> HIDE DEF n
  <2>1. n \in Nat /\ kept \in SUBSET (1 .. n)
    BY <1>1 DEF n
  <2>2. QED
    BY <2>1, InOrderFacts
<1>3. s = [m \in DOMAIN o |-> items[o[m]]]
  BY DEF Sub
<1> HIDE DEF c, o, s
<1>4. s \in [1 .. c -> R] /\ DOMAIN s = 1 .. c
  BY <1>2, <1>3
<1>5. s \in Seq(R) /\ Len(s) = c
  <2> HIDE DEF R
  <2>1. QED
    BY <1>2, <1>4, FcnIsSeq
<1>6. IsSeq(s) /\ Range(s) \subseteq R
  <2> HIDE DEF R
  <2>1. QED
    BY <1>5, SeqFacts
<1>7. R \subseteq Range(s)
  <2>1. ASSUME NEW i \in kept PROVE items[i] \in Range(s)
    <3>1. PICK m \in 1 .. c : o[m] = i
      BY <1>2
    <3>2. s[m] = items[i]
      BY <1>2, <1>3, <3>1
    <3>3. QED
      BY <1>4, <3>2 DEF Range
  <2>2. QED
    BY <2>1
<1>8. QED
  BY <1>2, <1>5, <1>6, <1>7 DEF c, s
-----------------------------------------------------------------------------
(* Recursive definitions over an interval *)

Iterated(g, a, step, N) == g[0] = a /\ \A n \in 1 .. N : g[n] = step[n][g[n - 1]]

\* A step from every element of a set to one of them can be taken N times.
LEMMA Iterates ==
  ASSUME NEW N \in Nat, NEW D, NEW a \in D, NEW step, step \in [1 .. N -> [D -> D]]
  PROVE  \E g \in [0 .. N -> D] : Iterated(g, a, step, N)
<1> DEFINE G == {k \in Nat : \E g \in [0 .. N -> D] :
                    g[0] = a /\ \A n \in 1 .. N : n <= k => g[n] = step[n][g[n - 1]]}
<1>1. 0 \in G
  <2> DEFINE g == [n \in 0 .. N |-> a]
  <2>1. g \in [0 .. N -> D] /\ g[0] = a
    OBVIOUS
  <2>2. \A n \in 1 .. N : n <= 0 => g[n] = step[n][g[n - 1]]
    OBVIOUS
  <2> HIDE DEF g
  <2>3. QED
    BY <2>1, <2>2
<1>2. ASSUME NEW k \in G PROVE k + 1 \in G
  <2>1. PICK g \in [0 .. N -> D] :
          g[0] = a /\ \A n \in 1 .. N : n <= k => g[n] = step[n][g[n - 1]]
    OBVIOUS
  <2> DEFINE h == [n \in 0 .. N |-> IF n = 0 THEN a ELSE step[n][g[n - 1]]]
  <2>2. k \in Nat
    OBVIOUS
  <2>3. h \in [0 .. N -> D] /\ h[0] = a
    <3>1. ASSUME NEW n \in 0 .. N, n # 0 PROVE step[n][g[n - 1]] \in D
      <4>1. n \in 1 .. N /\ n - 1 \in 0 .. N
        BY <3>1
      <4>2. g[n - 1] \in D
        BY <4>1
      <4>3. QED
        BY <4>1, <4>2
    <3>2. QED
      BY <3>1
  <2>4. ASSUME NEW n \in 1 .. N, n <= k + 1 PROVE h[n] = step[n][h[n - 1]]
    <3>1. h[n] = step[n][g[n - 1]]
      OBVIOUS
    <3>2. CASE n = 1
      BY <2>1, <2>3, <3>1, <3>2
    <3>3. CASE n # 1
      <4>1. n - 1 \in 1 .. N /\ n - 1 <= k
        BY <2>2, <2>4, <3>3
      <4>2. h[n - 1] = step[n - 1][g[(n - 1) - 1]]
        BY <4>1
      <4>3. h[n - 1] = g[n - 1]
        BY <2>1, <4>1, <4>2
      <4> HIDE DEF h
      <4>4. QED
        BY <3>1, <4>3
    <3>4. QED
      BY <3>2, <3>3
  <2> HIDE DEF h
  <2>5. \E f \in [0 .. N -> D] :
          f[0] = a /\ \A n \in 1 .. N : n <= k + 1 => f[n] = step[n][f[n - 1]]
    BY <2>3, <2>4
  <2>6. QED
    BY <2>2, <2>5
<1>3. G \in SUBSET Nat
  OBVIOUS
<1> HIDE DEF G
<1>4. N \in G
  BY <1>1, <1>2, <1>3, FromZero
<1>5. QED
  BY <1>4 DEF G, Iterated

\* What every step preserves holds after any number of them.
LEMMA IteratesIn ==
  ASSUME NEW N \in Nat, NEW D, NEW g, g[0] \in D,
         \A n \in 1 .. N : g[n - 1] \in D => g[n] \in D
  PROVE  \A n \in 0 .. N : g[n] \in D
<1> DEFINE G == {k \in Nat : k <= N => g[k] \in D}
<1>1. 0 \in G
  OBVIOUS
<1>2. ASSUME NEW k \in G PROVE k + 1 \in G
  <2>1. k + 1 <= N => k + 1 \in 1 .. N /\ (k + 1) - 1 = k /\ k <= N
    OBVIOUS
  <2>2. QED
    BY <2>1
<1>3. G \in SUBSET Nat
  OBVIOUS
<1>4. \A k \in Nat : k \in G
  <2> HIDE DEF G
  <2>1. QED
    BY <1>1, <1>2, <1>3, FromZero
<1>5. QED
  BY <1>4

\* What holds at the beginning and is kept by every step holds all along.
LEMMA AllAlong ==
  ASSUME NEW N \in Nat, NEW G, 0 \in G, \A n \in 1 .. N : n - 1 \in G => n \in G
  PROVE  \A n \in 0 .. N : n \in G
<1> DEFINE g == [n \in Int |-> n]
<1>1. g[0] \in G
  OBVIOUS
<1>2. \A n \in 1 .. N : g[n - 1] \in G => g[n] \in G
  OBVIOUS
<1>3. \A n \in 0 .. N : g[n] = n
  OBVIOUS
<1> HIDE DEF g
<1>4. \A n \in 0 .. N : g[n] \in G
  BY <1>1, <1>2, IteratesIn
<1>5. QED
  BY <1>3, <1>4
=============================================================================
