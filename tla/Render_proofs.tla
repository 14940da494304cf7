---------------------------- MODULE Render_proofs ----------------------------
(***************************************************************************)
(* Theorems of RenderedPrompt: whatever prompt a host builds, the request  *)
(* has alternating turns and paired calls and results, an answered call    *)
(* stays native, and what a request caches is a prefix of the next one.    *)
(***************************************************************************)
EXTENDS RenderedPrompt, Basics_proofs

(* Runs of one side *)

\* Run k of s stands at the positions from[k] .. from[k + 1] - 1.
Cuts(s, runs, from) ==
  /\ IsSeq(runs)
  /\ from \in [1 .. Len(runs) + 1 -> 1 .. Len(s) + 1]
  /\ from[1] = 1 /\ from[Len(runs) + 1] = Len(s) + 1
  /\ \A k \in DOMAIN runs :
       /\ from[k] < from[k + 1]
       /\ IsSeq(runs[k]) /\ Len(runs[k]) = from[k + 1] - from[k]
       /\ \A i \in DOMAIN runs[k] : runs[k][i] = s[from[k] + i - 1]

\* A run ends where the side changes, and only there.
AtChanges(s, runs, from) ==
  \A k \in DOMAIN runs :
    /\ k > 1 => s[from[k]].side # s[from[k] - 1].side
    /\ \A p \in from[k] + 1 .. from[k + 1] - 1 : s[p].side = s[p - 1].side

\* SideRuns cuts a sequence where the side changes.
LEMMA RunsCut ==
  ASSUME NEW s, IsSeq(s)
  PROVE  \E from : Cuts(s, SideRuns(s), from) /\ AtChanges(s, SideRuns(s), from)
<1> DEFINE n      == Len(s)
           P      == {i \in DOMAIN s : i = 1 \/ s[i].side # s[i - 1].side}
           c      == Cardinality(P)
           starts == InOrder(P)
           from   == [k \in 1 .. c + 1 |-> IF k = c + 1 THEN n + 1 ELSE starts[k]]
           runs   == SideRuns(s)
           run(k) == SubSeq(s, from[k], from[k + 1] - 1)
<1>1. n \in Nat /\ DOMAIN s = 1 .. n
  BY SeqIs
<1>2. P \in SUBSET (1 .. n)
  BY <1>1
<1>3. \A i \in 1 .. n : i \in P <=> i = 1 \/ s[i].side # s[i - 1].side
  BY <1>1
<1>4. /\ c \in Nat /\ DOMAIN starts = 1 .. c /\ starts \in [1 .. c -> P]
      /\ \A i \in P : \E m \in 1 .. c : starts[m] = i
      /\ \A j, m \in 1 .. c : j < m => starts[j] < starts[m]
  <2> HIDE DEF P, n
  <2>1. n \in Nat
    BY <1>1
  <2>2. QED
    BY <1>2, <2>1, InOrderFacts
<1>5. runs = [k \in DOMAIN starts |->
                SubSeq(s, starts[k], IF k = Len(starts) THEN n ELSE starts[k + 1] - 1)]
  BY DEF SideRuns
<1> HIDE DEF P
<1>6. Len(starts) = c
  <2> HIDE DEF c, starts
  <2>1. QED
    BY <1>4, FcnIsSeq
<1> HIDE DEF n, c, starts, runs
<1>7. /\ DOMAIN from = 1 .. c + 1 /\ from[c + 1] = n + 1
      /\ \A k \in 1 .. c : from[k] = starts[k] /\ from[k] \in P /\ k + 1 \in 1 .. c + 1
  <2>1. c + 1 \in 1 .. c + 1 /\ \A k \in 1 .. c : k \in 1 .. c + 1 /\ k # c + 1 /\ k + 1 \in 1 .. c + 1
    BY <1>4
  <2>2. QED
    BY <1>4, <2>1
<1>8. \A k \in 1 .. c : /\ k # c => from[k + 1] = starts[k + 1] /\ k + 1 \in 1 .. c
                        /\ k = c => from[k + 1] = n + 1
  BY <1>4, <1>7
<1> HIDE DEF from
<1>9. \A k \in 1 .. c : from[k] \in 1 .. n /\ from[k + 1] \in 1 .. n + 1 /\ from[k] < from[k + 1]
  <2>1. ASSUME NEW k \in 1 .. c
        PROVE  from[k] \in 1 .. n /\ from[k + 1] \in 1 .. n + 1 /\ from[k] < from[k + 1]
    <3>1. from[k] \in 1 .. n
      BY <1>2, <1>7
    <3>2. CASE k = c
      BY <1>1, <1>8, <3>1, <3>2
    <3>3. CASE k # c
      <4>1. /\ k + 1 \in 1 .. c /\ from[k + 1] = starts[k + 1] /\ from[k] = starts[k]
            /\ from[k + 1] \in 1 .. n
        BY <1>2, <1>7, <1>8, <3>3
      <4>2. k < k + 1
        BY <1>4
      <4>3. starts[k] < starts[k + 1]
        BY <1>4, <4>1, <4>2
      <4>4. QED
        BY <1>1, <3>1, <4>1, <4>3
    <3>4. QED
      BY <3>2, <3>3
  <2>2. QED
    BY <2>1
<1>10. DOMAIN runs = 1 .. c /\ \A k \in 1 .. c : runs[k] = run(k)
  <2>1. ASSUME NEW k \in 1 .. c PROVE runs[k] = run(k)
    <3>1. CASE k = c
      <4>1. from[k + 1] - 1 = n
        BY <1>1, <1>8, <3>1
      <4>2. QED
        BY <1>4, <1>5, <1>6, <1>7, <3>1, <4>1
    <3>2. CASE k # c
      BY <1>4, <1>5, <1>6, <1>7, <1>8, <3>2
    <3>3. QED
      BY <3>1, <3>2
  <2>2. QED
    BY <1>4, <1>5, <2>1
<1>11. \A k \in 1 .. c :
         /\ IsSeq(runs[k]) /\ Len(runs[k]) = from[k + 1] - from[k]
         /\ \A i \in DOMAIN runs[k] : runs[k][i] = s[from[k] + i - 1]
  <2> SUFFICES ASSUME NEW k \in 1 .. c
               PROVE  /\ IsSeq(runs[k]) /\ Len(runs[k]) = from[k + 1] - from[k]
                      /\ \A i \in DOMAIN runs[k] : runs[k][i] = s[from[k] + i - 1]
    OBVIOUS
  <2> DEFINE a == from[k]
             b == from[k + 1] - 1
  <2>1. a \in Nat \ {0} /\ b \in Nat /\ a <= b + 1 /\ b <= n /\ b + 1 - a = from[k + 1] - from[k]
    <3> DEFINE y == from[k + 1]
    <3>1. a \in 1 .. n /\ y \in 1 .. n + 1 /\ a < y /\ b = y - 1
      BY <1>9
    <3> HIDE DEF a, b, y
    <3>2. a \in Nat \ {0} /\ b \in Nat /\ a <= b + 1 /\ b <= n /\ b + 1 - a = y - a
      BY <1>1, <3>1
    <3>3. QED
      BY <3>2 DEF a, y
  <2>2. s \in Seq(Range(s))
    BY DEF IsSeq
  <2>3. runs[k] = SubSeq(s, a, b)
    BY <1>10
  <2> HIDE DEF a, b
  <2>4. /\ runs[k] \in Seq(Range(s)) /\ Len(runs[k]) = b + 1 - a
        /\ \A i \in 1 .. b + 1 - a : runs[k][i] = s[a + i - 1]
    BY <2>1, <2>2, <2>3, PieceFacts DEF n
  <2>5. IsSeq(runs[k]) /\ DOMAIN runs[k] = 1 .. b + 1 - a
    BY <2>4, SeqFacts
  <2>6. QED
    BY <2>1, <2>4, <2>5 DEF a
<1>12. runs \in Seq(Range(runs)) /\ Len(runs) = c
  <2>1. runs \in [1 .. c -> Range(runs)]
    BY <1>5, <1>10 DEF Range
  <2>2. QED
    BY <1>4, <2>1, FcnIsSeq
<1>13. from[1] = 1
  <2>1. CASE n = 0
    <3>1. c = 0
      <4>1. c # 0 => 1 \in 1 .. c
        BY <1>4
      <4>2. c # 0 => starts[1] \in 1 .. n
        BY <1>2, <1>4, <4>1
      <4>3. QED
        BY <2>1, <4>2
    <3>2. QED
      BY <1>7, <2>1, <3>1
  <2>2. CASE n # 0
    <3>1. 1 \in P
      BY <1>1, <1>3, <2>2
    <3>2. PICK m \in 1 .. c : starts[m] = 1
      BY <1>4, <3>1
    <3>3. 1 \in 1 .. c /\ (m = 1 \/ 1 < m)
      BY <1>4
    <3>4. starts[1] \in 1 .. n
      BY <1>2, <1>4, <3>3
    <3>5. starts[1] = 1
      BY <1>4, <3>2, <3>3, <3>4
    <3>6. QED
      BY <1>7, <3>3, <3>5
  <2>3. QED
    BY <2>1, <2>2
<1>14. Cuts(s, runs, from)
  <2>1. from \in [1 .. c + 1 -> 1 .. n + 1]
    <3>1. \A k \in 1 .. c + 1 : k \in 1 .. c \/ k = c + 1
      BY <1>4
    <3>2. \A k \in 1 .. c + 1 : from[k] \in 1 .. n + 1
      BY <1>1, <1>7, <1>9, <3>1
    <3>3. from = [k \in 1 .. c + 1 |-> from[k]]
      BY DEF from
    <3>4. QED
      BY <3>2, <3>3
  <2>2. QED
    BY <1>7, <1>9, <1>10, <1>11, <1>12, <1>13, <2>1 DEF Cuts, IsSeq, n
<1>15. AtChanges(s, runs, from)
  <2>1. ASSUME NEW k \in 1 .. c, k > 1 PROVE s[from[k]].side # s[from[k] - 1].side
    <3>1. from[k] \in P /\ from[k] \in 1 .. n
      BY <1>7, <1>9
    <3>2. from[k] # 1
      <4>1. 1 \in 1 .. c /\ 1 < k
        BY <1>4, <2>1
      <4>2. starts[1] < starts[k] /\ from[1] = starts[1] /\ from[k] = starts[k]
        BY <1>4, <1>7, <4>1
      <4>3. QED
        BY <1>13, <4>2
    <3>3. QED
      BY <1>3, <3>1, <3>2
  <2>2. ASSUME NEW k \in 1 .. c, NEW p \in from[k] + 1 .. from[k + 1] - 1
        PROVE  s[p].side = s[p - 1].side
    <3>1. p \in 1 .. n /\ p # 1 /\ from[k] < p /\ p < from[k + 1]
      BY <1>1, <1>9
    <3>2. p \notin P
      <4> SUFFICES ASSUME p \in P PROVE FALSE
        OBVIOUS
      <4>1. PICK m \in 1 .. c : starts[m] = p
        BY <1>4
      <4>2. starts[k] < p /\ from[k] = starts[k]
        BY <1>7, <3>1
      <4>3. ~(m < k) /\ m # k
        <5>1. m < k => starts[m] < starts[k]
          BY <1>4
        <5>2. starts[k] \in 1 .. n
          BY <1>2, <1>4
        <5>3. QED
          BY <3>1, <4>1, <4>2, <5>1, <5>2
      <4>4. k # c /\ (m = k + 1 \/ k + 1 < m)
        BY <1>4, <4>3
      <4>5. k + 1 \in 1 .. c /\ starts[k + 1] = from[k + 1]
        BY <1>8, <4>4
      <4>6. k + 1 < m => starts[k + 1] < starts[m]
        BY <1>4, <4>5
      <4>7. starts[k + 1] \in 1 .. n
        BY <1>2, <1>4, <4>5
      <4>8. QED
        BY <3>1, <4>1, <4>4, <4>5, <4>6, <4>7
    <3>3. QED
      BY <1>3, <3>1, <3>2
  <2>3. QED
    BY <1>10, <2>1, <2>2 DEF AtChanges
<1>16. QED
  BY <1>14, <1>15 DEF runs

\* Position p belongs to run k.
InRun(from, k, p) == from[k] <= p /\ p < from[k + 1]

\* What the cuts are, number by number.
LEMMA CutFacts ==
  ASSUME NEW s, IsSeq(s), NEW runs, NEW from, Cuts(s, runs, from)
  PROVE  /\ Len(s) \in Nat /\ DOMAIN s = 1 .. Len(s)
         /\ Len(runs) \in Nat /\ DOMAIN runs = 1 .. Len(runs)
         /\ from[1] = 1 /\ from[Len(runs) + 1] = Len(s) + 1
         /\ \A k \in 1 .. Len(runs) :
              /\ from[k] \in 1 .. Len(s) + 1 /\ from[k + 1] \in 1 .. Len(s) + 1
              /\ from[k] < from[k + 1] /\ Len(runs[k]) = from[k + 1] - from[k]
              /\ DOMAIN runs[k] = 1 .. from[k + 1] - from[k] /\ IsSeq(runs[k])
              /\ \A i \in 1 .. from[k + 1] - from[k] : runs[k][i] = s[from[k] + i - 1]
<1> DEFINE n == Len(s)
           c == Len(runs)
<1>1. /\ n \in Nat /\ DOMAIN s = 1 .. n
      /\ c \in Nat /\ DOMAIN runs = 1 .. c
  BY SeqIs DEF Cuts
<1>2. ASSUME NEW k \in 1 .. c
      PROVE  /\ from[k] \in 1 .. n + 1 /\ from[k + 1] \in 1 .. n + 1
             /\ from[k] < from[k + 1] /\ Len(runs[k]) = from[k + 1] - from[k]
             /\ DOMAIN runs[k] = 1 .. from[k + 1] - from[k] /\ IsSeq(runs[k])
             /\ \A i \in 1 .. from[k + 1] - from[k] : runs[k][i] = s[from[k] + i - 1]
  <2>1. /\ from[k] < from[k + 1] /\ IsSeq(runs[k]) /\ Len(runs[k]) = from[k + 1] - from[k]
        /\ \A i \in DOMAIN runs[k] : runs[k][i] = s[from[k] + i - 1]
    BY <1>1 DEF Cuts
  <2>2. DOMAIN runs[k] = 1 .. Len(runs[k])
    BY <2>1, SeqIs
  <2>3. k \in 1 .. c + 1 /\ k + 1 \in 1 .. c + 1
    BY <1>1
  <2>4. from[k] \in 1 .. n + 1 /\ from[k + 1] \in 1 .. n + 1
    BY <2>3 DEF Cuts
  <2>5. QED
    BY <2>1, <2>2, <2>4
<1>3. QED
  BY <1>1, <1>2 DEF Cuts

\* Every position belongs to a run.
LEMMA RunOf ==
  ASSUME NEW s, IsSeq(s), NEW runs, NEW from, Cuts(s, runs, from), NEW p \in DOMAIN s
  PROVE  \E k \in DOMAIN runs : InRun(from, k, p)
<1> DEFINE n == Len(s)
           c == Len(runs)
           K == {k \in 1 .. c : from[k] <= p}
<1>1. /\ n \in Nat /\ DOMAIN s = 1 .. n /\ c \in Nat /\ DOMAIN runs = 1 .. c
      /\ from[1] = 1 /\ from[c + 1] = n + 1
      /\ \A k \in 1 .. c : /\ from[k] \in 1 .. n + 1 /\ from[k + 1] \in 1 .. n + 1
                           /\ from[k] < from[k + 1]
  BY CutFacts
<1> HIDE DEF n, c
<1>2. p \in 1 .. n
  BY <1>1
<1>3. c # 0
  BY <1>1, <1>2
<1>4. 1 \in K
  BY <1>1, <1>2, <1>3
<1>5. K \in SUBSET (0 .. c)
  BY <1>1
<1>6. PICK k \in K : \A x \in K : x <= k
  <2> HIDE DEF K
  <2>1. Max(K) \in K /\ \A x \in K : x <= Max(K)
    BY <1>1, <1>4, <1>5, MaxProps
  <2>2. QED
    BY <2>1
<1>7. k \in 1 .. c /\ from[k] <= p /\ k + 1 \notin K
  BY <1>1, <1>6
<1>8. p < from[k + 1]
  <2>1. CASE k = c
    BY <1>1, <1>2, <2>1
  <2>2. CASE k # c
    <3>1. k + 1 \in 1 .. c
      BY <1>1, <1>7, <2>2
    <3>2. ~(from[k + 1] <= p)
      BY <1>7, <3>1
    <3>3. from[k + 1] \in 1 .. n + 1
      BY <1>1, <3>1
    <3>4. QED
      BY <1>2, <3>2, <3>3
  <2>3. QED
    BY <2>1, <2>2
<1>9. QED
  BY <1>1, <1>7, <1>8 DEF InRun

\* The next position belongs to the same run if it has the same side, and to the
\* next run if it has the other.
LEMMA NextInRun ==
  ASSUME NEW s, IsSeq(s), NEW runs, NEW from, Cuts(s, runs, from),
         AtChanges(s, runs, from), NEW k \in DOMAIN runs, NEW p \in DOMAIN s,
         InRun(from, k, p), p + 1 \in DOMAIN s
  PROVE  /\ s[p + 1].side = s[p].side => InRun(from, k, p + 1)
         /\ s[p + 1].side # s[p].side =>
              /\ k + 1 \in DOMAIN runs /\ InRun(from, k + 1, p + 1)
              /\ from[k + 1] = p + 1
<1> DEFINE n == Len(s)
           c == Len(runs)
<1>1. /\ n \in Nat /\ DOMAIN s = 1 .. n /\ c \in Nat /\ DOMAIN runs = 1 .. c
      /\ from[c + 1] = n + 1
      /\ \A x \in 1 .. c : /\ from[x] \in 1 .. n + 1 /\ from[x + 1] \in 1 .. n + 1
                           /\ from[x] < from[x + 1]
  BY CutFacts
<1> HIDE DEF n, c
<1>2. k \in 1 .. c /\ p \in 1 .. n /\ p + 1 \in 1 .. n
  BY <1>1
<1>3. from[k] <= p /\ p < from[k + 1] /\ from[k] \in 1 .. n + 1 /\ from[k + 1] \in 1 .. n + 1
  BY <1>1, <1>2 DEF InRun
<1>4. CASE p + 1 = from[k + 1]
  <2>1. k # c
    BY <1>1, <1>2, <1>4
  <2>2. k + 1 \in 1 .. c /\ k + 1 > 1
    BY <1>1, <1>2, <2>1
  <2>3. s[from[k + 1]].side # s[from[k + 1] - 1].side
    BY <1>1, <2>2 DEF AtChanges
  <2>4. (p + 1) - 1 = p
    BY <1>2
  <2>5. s[p + 1].side # s[p].side
    BY <1>4, <2>3, <2>4
  <2>6. from[k + 1] < from[k + 1 + 1]
    BY <1>1, <2>2
  <2>7. InRun(from, k + 1, p + 1)
    BY <1>3, <1>4, <2>6 DEF InRun
  <2>8. QED
    BY <1>1, <1>4, <2>2, <2>5, <2>7
<1>5. CASE p + 1 # from[k + 1]
  <2>1. p + 1 < from[k + 1] /\ from[k] <= p + 1
    BY <1>2, <1>3, <1>5
  <2>2. p + 1 \in from[k] + 1 .. from[k + 1] - 1 /\ (p + 1) - 1 = p
    BY <1>2, <1>3, <2>1
  <2>3. s[p + 1].side = s[(p + 1) - 1].side
    BY <1>1, <1>2, <2>2 DEF AtChanges
  <2>4. InRun(from, k, p + 1)
    BY <2>1 DEF InRun
  <2>5. QED
    BY <2>2, <2>3, <2>4
<1>6. QED
  BY <1>4, <1>5

\* A run has one side, and its neighbours have the other.
LEMMA RunSides ==
  ASSUME NEW s, IsSeq(s), NEW runs, NEW from, Cuts(s, runs, from), AtChanges(s, runs, from)
  PROVE  /\ \A k \in DOMAIN runs : 1 \in DOMAIN runs[k]
         /\ \A k \in DOMAIN runs : \A i \in DOMAIN runs[k] : runs[k][i].side = runs[k][1].side
         /\ \A k \in DOMAIN runs : k > 1 => runs[k][1].side # runs[k - 1][1].side
<1> DEFINE n == Len(s)
           c == Len(runs)
           len(k) == from[k + 1] - from[k]
<1>1. /\ n \in Nat /\ DOMAIN s = 1 .. n /\ c \in Nat /\ DOMAIN runs = 1 .. c
      /\ \A k \in 1 .. c :
           /\ from[k] \in 1 .. n + 1 /\ from[k + 1] \in 1 .. n + 1
           /\ from[k] < from[k + 1] /\ DOMAIN runs[k] = 1 .. len(k)
           /\ \A i \in 1 .. len(k) : runs[k][i] = s[from[k] + i - 1]
  BY CutFacts
<1> HIDE DEF n, c
<1>2. ASSUME NEW k \in 1 .. c
      PROVE  1 \in DOMAIN runs[k] /\ \A i \in DOMAIN runs[k] : runs[k][i].side = runs[k][1].side
  <2> DEFINE N == len(k) - 1
             G == {i \in 0 .. N : runs[k][i + 1].side = runs[k][1].side}
  <2>1. /\ from[k] \in 1 .. n + 1 /\ from[k + 1] \in 1 .. n + 1
        /\ from[k] < from[k + 1] /\ DOMAIN runs[k] = 1 .. len(k)
        /\ \A i \in 1 .. len(k) : runs[k][i] = s[from[k] + i - 1]
    BY <1>1
  <2>2. N \in Nat /\ 1 \in 1 .. len(k)
    BY <1>1, <2>1
  <2>3. 0 \in G
    BY <2>2
  <2>4. ASSUME NEW i \in 1 .. N, i - 1 \in G PROVE i \in G
    <3>1. i \in 0 .. N /\ i \in 1 .. len(k) /\ i + 1 \in 1 .. len(k) /\ (i - 1) + 1 = i
      BY <2>1, <2>2
    <3>2. runs[k][i].side = runs[k][1].side
      BY <2>4, <3>1
    <3>3. runs[k][i] = s[from[k] + i - 1] /\ runs[k][i + 1] = s[from[k] + (i + 1) - 1]
      BY <2>1, <3>1
    <3>4. /\ from[k] + i \in from[k] + 1 .. from[k + 1] - 1
          /\ (from[k] + i) - 1 = from[k] + i - 1 /\ from[k] + (i + 1) - 1 = from[k] + i
      <4> DEFINE a == from[k]
                 b == from[k + 1]
      <4>1. a \in Nat /\ b \in Nat /\ N = b - a - 1
        BY <1>1, <2>1
      <4> HIDE DEF a, b, N
      <4>2. i \in Nat /\ 1 <= i /\ i <= b - a - 1
        BY <2>4, <4>1
      <4>3. a + i \in a + 1 .. b - 1 /\ (a + i) - 1 = a + i - 1 /\ a + (i + 1) - 1 = a + i
        BY <4>1, <4>2
      <4>4. QED
        BY <4>3 DEF a, b
    <3>5. s[from[k] + i].side = s[(from[k] + i) - 1].side
      BY <1>1, <3>4 DEF AtChanges
    <3>6. runs[k][i + 1].side = runs[k][1].side
      BY <3>2, <3>3, <3>4, <3>5
    <3>7. QED
      BY <3>1, <3>6
  <2> HIDE DEF N
  <2>5. \A i \in 0 .. N : i \in G
    <3> HIDE DEF G
    <3>1. QED
      BY <2>2, <2>3, <2>4, AllAlong
  <2>6. ASSUME NEW i \in 1 .. len(k) PROVE runs[k][i].side = runs[k][1].side
    <3>1. i - 1 \in 0 .. N /\ (i - 1) + 1 = i
      BY <2>1 DEF N
    <3>2. QED
      BY <2>5, <3>1
  <2>7. QED
    BY <2>1, <2>2, <2>6
<1>3. ASSUME NEW k \in 1 .. c, k > 1 PROVE runs[k][1].side # runs[k - 1][1].side
  <2> DEFINE j == k - 1
  <2>1. j \in 1 .. c /\ j + 1 = k
    BY <1>1, <1>3
  <2>2. s[from[k]].side # s[from[k] - 1].side
    BY <1>1, <1>3 DEF AtChanges
  <2> HIDE DEF j
  <2>3. /\ from[k] \in 1 .. n + 1 /\ from[j] \in 1 .. n + 1 /\ from[j] < from[k]
        /\ DOMAIN runs[j] = 1 .. from[k] - from[j]
        /\ \A i \in 1 .. from[k] - from[j] : runs[j][i] = s[from[j] + i - 1]
    BY <1>1, <2>1
  <2>4. /\ from[k] - from[j] \in 1 .. from[k] - from[j]
        /\ from[j] + (from[k] - from[j]) - 1 = from[k] - 1
    <3> DEFINE a == from[j]
               b == from[k]
    <3>1. a \in Nat /\ b \in Nat /\ a < b
      BY <1>1, <2>3
    <3> HIDE DEF a, b
    <3>2. b - a \in 1 .. b - a /\ a + (b - a) - 1 = b - 1
      BY <3>1
    <3>3. QED
      BY <3>2 DEF a, b
  <2>5. runs[j][from[k] - from[j]] = s[from[k] - 1]
    BY <2>3, <2>4
  <2>6. runs[j][from[k] - from[j]].side = runs[j][1].side
    BY <1>2, <2>1, <2>3, <2>4
  <2>7. runs[k][1] = s[from[k]]
    <3>1. 1 \in 1 .. len(k) /\ from[k] + 1 - 1 = from[k]
      BY <1>1
    <3>2. QED
      BY <1>1, <3>1
  <2>8. QED
    BY <2>2, <2>5, <2>6, <2>7 DEF j
<1>4. QED
  BY <1>1, <1>2, <1>3
-----------------------------------------------------------------------------
(* What a segment renders to *)

\* A sequence of rendered blocks.
IsRendered(b) == b \in [type : {b.type}, id : {b.id}, body : {b.body}, cache : {b.cache}]
AreRendered(bs) == IsSeq(bs) /\ \A i \in DOMAIN bs : IsRendered(bs[i])

\* The ids of its native blocks of a type.
NativeIds(bs, type) == {bs[i].id : i \in {j \in DOMAIN bs : bs[j].type = type}}

\* Its results stand in front, and no two have one id.
ResultsFirst(bs) ==
  \E c \in 0 .. Len(bs) :
    /\ \A i \in DOMAIN bs : bs[i].type = "result" <=> i <= c
    /\ \A i, j \in DOMAIN bs : i <= c /\ j <= c /\ bs[i].id = bs[j].id => i = j

\* What a single block renders to.
LEMMA BlockFacts ==
  ASSUME NEW b
  PROVE  /\ IsRendered(RenderBlock(b)) /\ RenderBlock(b).id = b.id
         /\ RenderBlock(b).type = "use" <=> b.kind = "use"
         /\ RenderBlock(b).type = "result" <=> b.kind = "result"
         /\ IsRendered(Linearized(b)) /\ Linearized(b).type = "text"
         /\ IsRendered(ToolResultText(b)) /\ ToolResultText(b).type = "text"
<1>1. \A type, id, body : /\ IsRendered(Rendered(type, id, body))
                          /\ Rendered(type, id, body).type = type
                          /\ Rendered(type, id, body).id = id
  BY DEF Rendered, IsRendered
<1>2. PICK inner : RenderBlock(b) =
        CASE b.kind = "use"    -> Rendered("use", b.id, <<Part("input", b.text)>>)
          [] b.kind = "result" -> Rendered("result", b.id, inner)
          [] b.kind = "image"  -> Rendered("image", b.id, <<Part("image", b.text)>>)
          [] OTHER             -> Rendered("text", b.id, <<Part("text", b.text)>>)
  BY DEF RenderBlock
<1>3. /\ IsRendered(RenderBlock(b)) /\ RenderBlock(b).id = b.id
      /\ RenderBlock(b).type = "use" <=> b.kind = "use"
      /\ RenderBlock(b).type = "result" <=> b.kind = "result"
  <2>1. CASE b.kind = "use"
    BY <1>1, <1>2, <2>1
  <2>2. CASE b.kind = "result"
    BY <1>1, <1>2, <2>2
  <2>3. CASE b.kind = "image"
    BY <1>1, <1>2, <2>3
  <2>4. CASE b.kind \notin {"use", "result", "image"}
    BY <1>1, <1>2, <2>4
  <2>5. QED
    BY <2>1, <2>2, <2>3, <2>4
<1>4. IsRendered(Linearized(b)) /\ Linearized(b).type = "text"
  BY <1>1 DEF Linearized
<1>5. IsRendered(ToolResultText(b)) /\ ToolResultText(b).type = "text"
  BY <1>1 DEF ToolResultText
<1>6. QED
  BY <1>3, <1>4, <1>5

\* In an assistant's segment the answered calls are native, and no result is.
LEMMA AssistantRenders ==
  ASSUME NEW blocks, IsSeq(blocks), NEW answered
  PROVE  LET r == RenderAssistantSegment(blocks, answered)
         IN  /\ AreRendered(r) /\ ResultsFirst(r)
             /\ NativeIds(r, "use") = IdsOf(blocks, "use") \cap answered
             /\ NativeIds(r, "result") = {}
<1> DEFINE r == RenderAssistantSegment(blocks, answered)
           n == Len(blocks)
<1>1. n \in Nat /\ DOMAIN blocks = 1 .. n
  BY SeqIs
<1>2. /\ DOMAIN r = 1 .. n
      /\ \A i \in 1 .. n :
           r[i] = IF \/ blocks[i].kind = "result"
                     \/ blocks[i].kind = "use" /\ blocks[i].id \notin answered
                  THEN Linearized(blocks[i]) ELSE RenderBlock(blocks[i])
  BY <1>1 DEF RenderAssistantSegment
<1>3. r = [i \in 1 .. n |-> r[i]]
  BY <1>1 DEF RenderAssistantSegment
<1> HIDE DEF r, n
<1>4. IsSeq(r) /\ Len(r) = n
  <2>1. r \in [1 .. n -> Range(r)]
    BY <1>2, <1>3 DEF Range
  <2>2. r \in Seq(Range(r)) /\ Len(r) = n
    BY <1>1, <2>1, FcnIsSeq
  <2>3. QED
    BY <2>2 DEF IsSeq
<1>5. ASSUME NEW i \in 1 .. n
      PROVE  /\ IsRendered(r[i]) /\ r[i].type # "result"
             /\ r[i].type = "use" <=> blocks[i].kind = "use" /\ blocks[i].id \in answered
             /\ r[i].type = "use" => r[i].id = blocks[i].id
  <2>1. CASE \/ blocks[i].kind = "result"
             \/ blocks[i].kind = "use" /\ blocks[i].id \notin answered
    <3>1. r[i] = Linearized(blocks[i])
      BY <1>2, <2>1
    <3>2. QED
      BY <2>1, <3>1, BlockFacts
  <2>2. CASE /\ blocks[i].kind # "result"
             /\ blocks[i].kind = "use" => blocks[i].id \in answered
    <3>1. r[i] = RenderBlock(blocks[i])
      BY <1>2, <2>2
    <3>2. QED
      BY <2>2, <3>1, BlockFacts
  <2>3. QED
    BY <2>1, <2>2
<1>6. AreRendered(r)
  BY <1>2, <1>4, <1>5 DEF AreRendered
<1>7. NativeIds(r, "result") = {}
  BY <1>2, <1>5 DEF NativeIds
<1>8. NativeIds(r, "use") = IdsOf(blocks, "use") \cap answered
  <2>1. ASSUME NEW x \in NativeIds(r, "use") PROVE x \in IdsOf(blocks, "use") \cap answered
    <3>1. PICK i \in 1 .. n : r[i].type = "use" /\ x = r[i].id
      BY <1>2 DEF NativeIds
    <3>2. blocks[i].kind = "use" /\ blocks[i].id \in answered /\ x = blocks[i].id
      BY <1>5, <3>1
    <3>3. QED
      BY <1>1, <3>2 DEF IdsOf
  <2>2. ASSUME NEW x \in IdsOf(blocks, "use"), x \in answered PROVE x \in NativeIds(r, "use")
    <3>1. PICK i \in 1 .. n : blocks[i].kind = "use" /\ x = blocks[i].id
      BY <1>1 DEF IdsOf
    <3>2. r[i].type = "use" /\ r[i].id = x
      BY <1>5, <2>2, <3>1
    <3>3. QED
      BY <1>2, <3>2 DEF NativeIds
  <2>3. QED
    BY <2>1, <2>2
<1>9. ResultsFirst(r)
  <2>1. 0 \in 0 .. Len(r) /\ \A i \in DOMAIN r : ~(i <= 0)
    BY <1>1, <1>2, <1>4
  <2>2. QED
    BY <1>2, <1>5, <2>1 DEF ResultsFirst
<1>10. QED
  BY <1>6, <1>7, <1>8, <1>9 DEF r

\* In a user's segment the first answer to each pending call is native, in
\* front of all else, and no call is.
LEMMA UserRenders ==
  ASSUME NEW blocks, IsSeq(blocks), NEW pending
  PROVE  LET r == RenderUserSegment(blocks, pending)
         IN  /\ AreRendered(r) /\ ResultsFirst(r)
             /\ NativeIds(r, "result") = IdsOf(blocks, "result") \cap pending
             /\ NativeIds(r, "use") = {}
<1> DEFINE r        == RenderUserSegment(blocks, pending)
           n        == Len(blocks)
           native   == NativeResults(blocks, pending)
           rest     == DOMAIN blocks \ native
           o        == InOrder(native)
           c        == Cardinality(native)
           results  == Sub(blocks, native)
           others   == Sub(blocks, rest)
           Other(b) == CASE b.kind = "result" -> ToolResultText(b)
                         [] b.kind = "use"    -> Linearized(b)
                         [] OTHER             -> RenderBlock(b)
           front    == [i \in DOMAIN results |-> RenderBlock(results[i])]
           back     == [i \in DOMAIN others |-> Other(others[i])]
<1>1. n \in Nat /\ DOMAIN blocks = 1 .. n
  BY SeqIs
<1>2. r = front \o back
  BY DEF RenderUserSegment
<1>3. /\ native \in SUBSET (1 .. n) /\ rest \in SUBSET (1 .. n)
      /\ \A i \in 1 .. n : i \in native <=>
           /\ blocks[i].kind = "result" /\ blocks[i].id \in pending
           /\ \A j \in 1 .. i - 1 : ~(blocks[j].kind = "result" /\ blocks[j].id = blocks[i].id)
  BY <1>1 DEF NativeResults
<1> HIDE DEF native, rest
<1>4. /\ c \in Nat /\ DOMAIN o = 1 .. c /\ o \in [1 .. c -> native]
      /\ \A i \in native : \E m \in 1 .. c : o[m] = i
      /\ \A j, m \in 1 .. c : j < m => o[j] < o[m]
  <2> HIDE DEF n
  <2>1. n \in Nat
    BY <1>1
  <2>2. QED
    BY <1>3, <2>1, InOrderFacts
<1>5. results = [i \in DOMAIN o |-> blocks[o[i]]]
  BY DEF Sub
<1>6. IsSeq(others) /\ Range(others) = {blocks[i] : i \in rest}
  BY <1>1, <1>3, SubFacts
<1> HIDE DEF n, o, c, results, others
<1>7. IsSeq(front) /\ Len(front) = c /\ DOMAIN front = 1 .. c
      /\ \A i \in 1 .. c : front[i] = RenderBlock(blocks[o[i]])
  <2>1. DOMAIN front = 1 .. c /\ \A i \in 1 .. c : front[i] = RenderBlock(blocks[o[i]])
    BY <1>4, <1>5
  <2>2. front \in [1 .. c -> Range(front)]
    BY <1>4, <1>5 DEF Range
  <2> HIDE DEF front
  <2>3. front \in Seq(Range(front)) /\ Len(front) = c
    BY <1>4, <2>2, FcnIsSeq
  <2>4. QED
    BY <2>1, <2>3 DEF IsSeq
<1>8. /\ IsSeq(back)
      /\ \A i \in DOMAIN back : \E j \in rest : back[i] = Other(blocks[j])
  <2>1. Len(others) \in Nat /\ DOMAIN others = 1 .. Len(others)
    BY <1>6, SeqIs
  <2>2. back \in [1 .. Len(others) -> Range(back)]
    BY <2>1 DEF Range
  <2>3. \A i \in DOMAIN back : \E j \in rest : back[i] = Other(blocks[j])
    <3>1. ASSUME NEW i \in DOMAIN others PROVE \E j \in rest : others[i] = blocks[j]
      BY <1>6 DEF Range
    <3>2. \A i \in DOMAIN others : back[i] = Other(others[i])
      OBVIOUS
    <3> HIDE DEF Other
    <3>3. QED
      BY <3>1, <3>2
  <2> HIDE DEF back
  <2>4. back \in Seq(Range(back))
    BY <2>1, <2>2, FcnIsSeq
  <2>5. QED
    BY <2>3, <2>4 DEF IsSeq
<1>9. ASSUME NEW i \in 1 .. c
      PROVE  /\ IsRendered(front[i]) /\ front[i].type = "result"
             /\ front[i].id = blocks[o[i]].id /\ o[i] \in 1 .. n
             /\ front[i].id \in IdsOf(blocks, "result") \cap pending
  <2>1. o[i] \in native /\ o[i] \in 1 .. n /\ front[i] = RenderBlock(blocks[o[i]])
    BY <1>3, <1>4, <1>7
  <2>2. blocks[o[i]].kind = "result" /\ blocks[o[i]].id \in pending
    BY <1>3, <2>1
  <2> HIDE DEF front
  <2>3. IsRendered(front[i]) /\ front[i].type = "result" /\ front[i].id = blocks[o[i]].id
    BY <2>1, <2>2, BlockFacts
  <2>4. blocks[o[i]].id \in IdsOf(blocks, "result")
    BY <1>1, <2>1, <2>2 DEF IdsOf
  <2>5. QED
    BY <2>1, <2>2, <2>3, <2>4
<1>10. ASSUME NEW i \in DOMAIN back
       PROVE  IsRendered(back[i]) /\ back[i].type # "result" /\ back[i].type # "use"
  <2>1. PICK j \in rest : back[i] = Other(blocks[j])
    BY <1>8
  <2> DEFINE b == blocks[j]
  <2>2. \/ b.kind = "result" /\ Other(b) = ToolResultText(b)
        \/ b.kind = "use" /\ Other(b) = Linearized(b)
        \/ b.kind # "result" /\ b.kind # "use" /\ Other(b) = RenderBlock(b)
    OBVIOUS
  <2> HIDE DEF b, back, Other
  <2>3. back[i] = Other(b)
    BY <2>1 DEF b
  <2>4. CASE b.kind = "result" /\ Other(b) = ToolResultText(b)
    BY <2>3, <2>4, BlockFacts
  <2>5. CASE b.kind = "use" /\ Other(b) = Linearized(b)
    BY <2>3, <2>5, BlockFacts
  <2>6. CASE b.kind # "result" /\ b.kind # "use" /\ Other(b) = RenderBlock(b)
    BY <2>3, <2>6, BlockFacts
  <2>7. QED
    BY <2>2, <2>4, <2>5, <2>6
<1> HIDE DEF r, front, back
<1>11. /\ IsSeq(r) /\ Len(r) \in Nat /\ DOMAIN r = 1 .. Len(r) /\ c \in 0 .. Len(r)
       /\ \A i \in DOMAIN r : IF i <= c THEN i \in 1 .. c /\ r[i] = front[i]
                              ELSE \E j \in DOMAIN back : r[i] = back[j]
       /\ \A i \in 1 .. c : i \in DOMAIN r
  <2> DEFINE T == Range(front) \cup Range(back)
             k == Len(back)
  <2>1. front \in Seq(T) /\ back \in Seq(T)
    <3>1. Range(front) \subseteq T /\ Range(back) \subseteq T
      OBVIOUS
    <3> HIDE DEF T
    <3>2. QED
      BY <1>7, <1>8, <3>1, SeqOver
  <2> HIDE DEF T
  <2>2. /\ r \in Seq(T) /\ Len(r) = c + k
        /\ \A i \in 1 .. c + k : r[i] = IF i <= c THEN front[i] ELSE back[i - c]
    BY <1>2, <1>7, <2>1, ConcatProperties
  <2>3. k \in Nat /\ DOMAIN back = 1 .. k
    BY <1>8, SeqIs
  <2> HIDE DEF k
  <2>4. IsSeq(r) /\ DOMAIN r = 1 .. c + k
    BY <2>2, SeqFacts
  <2>5. ASSUME NEW i \in 1 .. c + k
        PROVE  IF i <= c THEN i \in 1 .. c /\ r[i] = front[i]
               ELSE \E j \in DOMAIN back : r[i] = back[j]
    <3>1. CASE i <= c
      BY <1>4, <2>2, <3>1
    <3>2. CASE ~(i <= c)
      <4>1. i - c \in 1 .. k
        BY <1>4, <2>3, <3>2
      <4>2. QED
        BY <2>2, <2>3, <3>2, <4>1
    <3>3. QED
      BY <3>1, <3>2
  <2>6. c + k \in Nat /\ c \in 0 .. c + k /\ \A i \in 1 .. c : i \in 1 .. c + k
    BY <1>4, <2>3
  <2>7. QED
    BY <2>2, <2>4, <2>5, <2>6
<1>12. ASSUME NEW i \in DOMAIN r
       PROVE  /\ IsRendered(r[i]) /\ r[i].type # "use"
              /\ r[i].type = "result" <=> i <= c
  <2>1. CASE i <= c
    <3>1. i \in 1 .. c /\ r[i] = front[i]
      BY <1>11, <2>1
    <3>2. QED
      BY <1>9, <2>1, <3>1
  <2>2. CASE ~(i <= c)
    <3>1. PICK j \in DOMAIN back : r[i] = back[j]
      BY <1>11, <2>2
    <3>2. QED
      BY <1>10, <2>2, <3>1
  <2>3. QED
    BY <2>1, <2>2
<1>13. ResultsFirst(r)
  <2>1. ASSUME NEW i \in DOMAIN r, NEW j \in DOMAIN r, i <= c, j <= c, r[i].id = r[j].id
        PROVE  i = j
    <3>1. i \in 1 .. c /\ j \in 1 .. c /\ r[i] = front[i] /\ r[j] = front[j]
      BY <1>11, <2>1
    <3>2. /\ o[i] \in native /\ o[j] \in native /\ o[i] \in 1 .. n /\ o[j] \in 1 .. n
          /\ blocks[o[i]].id = blocks[o[j]].id
      BY <1>4, <1>9, <2>1, <3>1
    <3>3. ASSUME NEW x \in native, NEW y \in native, x < y PROVE blocks[x].id # blocks[y].id
      <4>1. x \in 1 .. n /\ y \in 1 .. n
        BY <1>3
      <4>2. x \in 1 .. y - 1
        BY <1>1, <3>3, <4>1
      <4>3. QED
        BY <1>3, <4>1, <4>2
    <3>4. ~(o[i] < o[j]) /\ ~(o[j] < o[i])
      BY <3>2, <3>3
    <3>5. i < j \/ j < i \/ i = j
      BY <1>4, <3>1
    <3>6. QED
      BY <1>4, <3>1, <3>4, <3>5
  <2>2. QED
    BY <1>11, <1>12, <2>1 DEF ResultsFirst
<1>14. NativeIds(r, "result") = IdsOf(blocks, "result") \cap pending
  <2>1. ASSUME NEW x \in NativeIds(r, "result")
        PROVE  x \in IdsOf(blocks, "result") \cap pending
    <3>1. PICK i \in DOMAIN r : r[i].type = "result" /\ x = r[i].id
      BY DEF NativeIds
    <3>2. i \in 1 .. c /\ r[i] = front[i]
      BY <1>11, <1>12, <3>1
    <3>3. QED
      BY <1>9, <3>1, <3>2
  <2>2. ASSUME NEW x \in IdsOf(blocks, "result"), x \in pending
        PROVE  x \in NativeIds(r, "result")
    <3> DEFINE A == {i \in 1 .. n : blocks[i].kind = "result" /\ blocks[i].id = x}
    <3>1. A # {}
      BY <1>1 DEF IdsOf
    <3>2. A \in SUBSET Nat
      OBVIOUS
    <3>3. PICK i \in A : \A j \in A : i <= j
      <4> HIDE DEF A
      <4>1. QED
        BY <3>1, <3>2, MinProps
    <3>4. i \in 1 .. n /\ blocks[i].kind = "result" /\ blocks[i].id = x
      OBVIOUS
    <3>5. ASSUME NEW j \in 1 .. i - 1
          PROVE  ~(blocks[j].kind = "result" /\ blocks[j].id = blocks[i].id)
      <4>1. j \in 1 .. n /\ ~(i <= j)
        BY <1>1, <3>4
      <4>2. QED
        BY <3>3, <3>4, <4>1
    <3>6. i \in native
      BY <1>3, <2>2, <3>4, <3>5
    <3>7. PICK m \in 1 .. c : o[m] = i
      BY <1>4, <3>6
    <3>8. m \in DOMAIN r /\ m <= c /\ r[m] = front[m]
      BY <1>4, <1>11
    <3>9. r[m].type = "result" /\ r[m].id = x
      BY <1>9, <3>4, <3>7, <3>8
    <3>10. QED
      BY <3>8, <3>9 DEF NativeIds
  <2>3. QED
    BY <2>1, <2>2
<1>15. NativeIds(r, "use") = {}
  BY <1>12 DEF NativeIds
<1>16. AreRendered(r)
  BY <1>11, <1>12 DEF AreRendered
<1>17. QED
  BY <1>13, <1>14, <1>15, <1>16 DEF r
-----------------------------------------------------------------------------
(* Segments *)

\* A list of messages that can be rendered.
Prompted(ms) ==
  /\ IsSeq(ms)
  /\ \A i \in DOMAIN ms :
       /\ ms[i] \in [role : {ms[i].role}, blocks : {ms[i].blocks}, cache : {ms[i].cache}]
       /\ IsSeq(ms[i].blocks)

\* Position q of the turns is position at[q] of the prompt.
TurnAt(ms) == InOrder({i \in DOMAIN ms : ms[i].role # "system"})

\* The turns are the messages that are not system messages, in order.
LEMMA TurnFacts ==
  ASSUME NEW ms, Prompted(ms)
  PROVE  /\ IsSeq(Turn(ms)) /\ Len(Turn(ms)) \in Nat
         /\ DOMAIN Turn(ms) = 1 .. Len(Turn(ms)) /\ DOMAIN TurnAt(ms) = DOMAIN Turn(ms)
         /\ \A q \in DOMAIN Turn(ms) :
              /\ TurnAt(ms)[q] \in DOMAIN ms /\ ms[TurnAt(ms)[q]].role # "system"
              /\ Turn(ms)[q].side = SideOf(ms[TurnAt(ms)[q]])
              /\ Turn(ms)[q].blocks = ms[TurnAt(ms)[q]].blocks
              /\ Turn(ms)[q].cache = ms[TurnAt(ms)[q]].cache
         /\ \A i \in DOMAIN ms : ms[i].role # "system" =>
              \E q \in DOMAIN Turn(ms) : TurnAt(ms)[q] = i
         /\ \A p, q \in DOMAIN Turn(ms) : p < q => TurnAt(ms)[p] < TurnAt(ms)[q]
<1> DEFINE n  == Len(ms)
           P  == {i \in DOMAIN ms : ms[i].role # "system"}
           at == InOrder(P)
           c  == Cardinality(P)
           t  == Turn(ms)
<1>1. n \in Nat /\ DOMAIN ms = 1 .. n
  BY SeqIs DEF Prompted
<1>2. P \in SUBSET (1 .. n) /\ \A i \in 1 .. n : i \in P <=> ms[i].role # "system"
  BY <1>1
<1>3. TurnAt(ms) = at
  BY DEF TurnAt
<1>4. /\ Sub(ms, P) = [q \in DOMAIN at |-> ms[at[q]]]
      /\ t = [q \in DOMAIN Sub(ms, P) |->
                [side   |-> SideOf(Sub(ms, P)[q]), blocks |-> Sub(ms, P)[q].blocks,
                 cache  |-> Sub(ms, P)[q].cache]]
  BY DEF Sub, Turn
<1> HIDE DEF P
<1>5. /\ c \in Nat /\ DOMAIN at = 1 .. c /\ at \in [1 .. c -> P]
      /\ \A i \in P : \E m \in 1 .. c : at[m] = i
      /\ \A j, m \in 1 .. c : j < m => at[j] < at[m]
  <2> HIDE DEF n
  <2>1. n \in Nat
    BY <1>1
  <2>2. QED
    BY <1>2, <2>1, InOrderFacts
<1> HIDE DEF n, c, at
<1>6. DOMAIN Sub(ms, P) = 1 .. c /\ \A q \in 1 .. c : Sub(ms, P)[q] = ms[at[q]]
  BY <1>4, <1>5
<1>7. /\ DOMAIN t = 1 .. c
      /\ \A q \in 1 .. c : t[q] = [side |-> SideOf(ms[at[q]]), blocks |-> ms[at[q]].blocks,
                                   cache |-> ms[at[q]].cache]
  BY <1>4, <1>6
<1>8. t \in [1 .. c -> Range(t)]
  BY <1>4, <1>6 DEF Range
<1> HIDE DEF t
<1>9. IsSeq(t) /\ Len(t) = c
  <2>1. t \in Seq(Range(t)) /\ Len(t) = c
    BY <1>5, <1>8, FcnIsSeq
  <2>2. QED
    BY <2>1 DEF IsSeq
<1>10. \A q \in 1 .. c : at[q] \in P /\ at[q] \in DOMAIN ms /\ ms[at[q]].role # "system"
  BY <1>1, <1>2, <1>5
<1>11. \A q \in 1 .. c : /\ t[q].side = SideOf(ms[at[q]]) /\ t[q].blocks = ms[at[q]].blocks
                         /\ t[q].cache = ms[at[q]].cache
  BY <1>7
<1>12. \A i \in DOMAIN ms : ms[i].role # "system" => \E q \in 1 .. c : at[q] = i
  BY <1>1, <1>2, <1>5
<1>13. QED
  BY <1>3, <1>5, <1>7, <1>9, <1>10, <1>11, <1>12 DEF t

\* Each segment holds the blocks of a run of the turns.
LEMMA SegmentsFacts ==
  ASSUME NEW ms, Prompted(ms)
  PROVE  LET segs == Segments(ms)
             runs == SideRuns(Turn(ms))
         IN  /\ IsSeq(segs) /\ Len(segs) = Len(runs) /\ DOMAIN segs = DOMAIN runs
             /\ \A k \in DOMAIN segs :
                  /\ IsSeq(segs[k].blocks) /\ segs[k].side \in Sides
                  /\ segs[k].side = runs[k][1].side
                  /\ \A i \in DOMAIN runs[k] :
                       Range(runs[k][i].blocks) \subseteq Range(segs[k].blocks)
             /\ \A k \in DOMAIN segs : k > 1 => segs[k].side # segs[k - 1].side
<1> DEFINE t    == Turn(ms)
           segs == Segments(ms)
           runs == SideRuns(t)
           pieces(k) == [i \in DOMAIN runs[k] |-> runs[k][i].blocks]
<1>1. /\ IsSeq(t) /\ DOMAIN t = 1 .. Len(t)
      /\ \A q \in DOMAIN t : /\ TurnAt(ms)[q] \in DOMAIN ms
                             /\ t[q].side = SideOf(ms[TurnAt(ms)[q]])
                             /\ t[q].blocks = ms[TurnAt(ms)[q]].blocks
  BY TurnFacts
<1>2. \A q \in DOMAIN t : t[q].side \in Sides /\ IsSeq(t[q].blocks)
  BY <1>1 DEF SideOf, Sides, Prompted
<1>3. segs = [k \in DOMAIN runs |->
                [side |-> runs[k][1].side, blocks |-> FlattenSeq(pieces(k)),
                 cache |-> Last(runs[k]).cache]]
  BY DEF Segments
<1> HIDE DEF t, segs
<1>4. PICK from : Cuts(t, runs, from) /\ AtChanges(t, runs, from)
  BY <1>1, RunsCut
<1> HIDE DEF runs
<1>5. /\ Len(runs) \in Nat /\ DOMAIN runs = 1 .. Len(runs) /\ Len(t) \in Nat
      /\ \A k \in 1 .. Len(runs) :
           /\ from[k] \in 1 .. Len(t) + 1 /\ from[k + 1] \in 1 .. Len(t) + 1
           /\ DOMAIN runs[k] = 1 .. from[k + 1] - from[k] /\ IsSeq(runs[k])
           /\ \A i \in 1 .. from[k + 1] - from[k] : runs[k][i] = t[from[k] + i - 1]
  BY <1>1, <1>4, CutFacts
<1>6. /\ \A k \in DOMAIN runs : 1 \in DOMAIN runs[k]
      /\ \A k \in DOMAIN runs : k > 1 => runs[k][1].side # runs[k - 1][1].side
  BY <1>1, <1>4, RunSides
<1>7. ASSUME NEW k \in DOMAIN runs, NEW i \in DOMAIN runs[k]
      PROVE  runs[k][i].side \in Sides /\ IsSeq(runs[k][i].blocks)
  <2> DEFINE a == from[k]
             b == from[k + 1]
             l == Len(t)
  <2>1. /\ a \in 1 .. l + 1 /\ b \in 1 .. l + 1 /\ l \in Nat /\ i \in 1 .. b - a
        /\ runs[k][i] = t[a + i - 1]
    BY <1>5
  <2> HIDE DEF a, b, l
  <2>2. a + i - 1 \in 1 .. l
    BY <2>1
  <2>3. QED
    BY <1>1, <1>2, <2>1, <2>2 DEF l
<1>8. ASSUME NEW k \in DOMAIN runs
      PROVE  /\ IsSeq(segs[k].blocks) /\ segs[k].side \in Sides
             /\ segs[k].side = runs[k][1].side
             /\ \A i \in DOMAIN runs[k] : Range(runs[k][i].blocks) \subseteq Range(segs[k].blocks)
  <2>1. segs[k].side = runs[k][1].side /\ segs[k].blocks = FlattenSeq(pieces(k))
    BY <1>3
  <2>2. IsSeq(pieces(k)) /\ DOMAIN pieces(k) = DOMAIN runs[k]
        /\ \A i \in DOMAIN runs[k] : pieces(k)[i] = runs[k][i].blocks
    <3> DEFINE f == pieces(k)
               m == Len(runs[k])
    <3>1. m \in Nat /\ DOMAIN runs[k] = 1 .. m
      BY <1>5, SeqIs
    <3>2. f \in [1 .. m -> Range(f)]
      BY <3>1 DEF Range
    <3>3. DOMAIN f = DOMAIN runs[k] /\ \A i \in DOMAIN runs[k] : f[i] = runs[k][i].blocks
      OBVIOUS
    <3> HIDE DEF f, m
    <3>4. f \in Seq(Range(f))
      BY <3>1, <3>2, FcnIsSeq
    <3>5. QED
      BY <3>3, <3>4 DEF IsSeq, f
  <2> HIDE DEF pieces
  <2>3. /\ IsSeq(FlattenSeq(pieces(k)))
        /\ \A x : x \in Range(FlattenSeq(pieces(k))) <=>
                    \E i \in DOMAIN pieces(k) : x \in Range(pieces(k)[i])
    <3>1. \A i \in DOMAIN pieces(k) : IsSeq(pieces(k)[i])
      BY <1>7, <2>2
    <3>2. QED
      BY <2>2, <3>1, FlatSeqs
  <2>4. QED
    BY <1>6, <1>7, <2>1, <2>2, <2>3
<1>9. IsSeq(segs) /\ Len(segs) = Len(runs) /\ DOMAIN segs = DOMAIN runs
  <2> DEFINE m == Len(runs)
  <2>1. m \in Nat /\ segs \in [1 .. m -> Range(segs)] /\ DOMAIN segs = 1 .. m
    BY <1>3, <1>5 DEF Range
  <2> HIDE DEF m
  <2>2. segs \in Seq(Range(segs)) /\ Len(segs) = m
    BY <2>1, FcnIsSeq
  <2>3. QED
    BY <1>5, <2>1, <2>2 DEF IsSeq, m
<1>10. ASSUME NEW k \in DOMAIN runs, k > 1 PROVE segs[k].side # segs[k - 1].side
  <2>1. k - 1 \in DOMAIN runs
    BY <1>5, <1>10
  <2>2. QED
    BY <1>6, <1>8, <1>10, <2>1
<1>11. QED
  BY <1>8, <1>9, <1>10 DEF segs, runs, t

\* The ids of the calls of segment k that the next one answers.
Meets(segs, k) ==
  IF k \in 1 .. Len(segs) - 1
  THEN IdsOf(segs[k].blocks, "use") \cap IdsOf(segs[k + 1].blocks, "result") ELSE {}

\* Segments as they may be rendered.
Alternating(segs) ==
  /\ IsSeq(segs)
  /\ \A k \in DOMAIN segs : IsSeq(segs[k].blocks) /\ segs[k].side \in Sides
  /\ \A k \in DOMAIN segs : k > 1 => segs[k].side # segs[k - 1].side

\* The native calls and results of a segment are those that meet.
LEMMA SegmentRenders ==
  ASSUME NEW segs, Alternating(segs), NEW k \in DOMAIN segs
  PROVE  LET r == RenderSegment(segs, k)
         IN  /\ AreRendered(r.blocks) /\ ResultsFirst(r.blocks) /\ r.side = segs[k].side
             /\ NativeIds(r.blocks, "use") =
                  IF r.side = "assistant" THEN Meets(segs, k) ELSE {}
             /\ NativeIds(r.blocks, "result") =
                  IF r.side = "user" THEN Meets(segs, k - 1) ELSE {}
<1> DEFINE r == RenderSegment(segs, k)
           n == Len(segs)
<1>1. n \in Nat /\ DOMAIN segs = 1 .. n /\ k \in 1 .. n
  BY SeqIs DEF Alternating
<1>2. /\ IsSeq(segs[k].blocks) /\ segs[k].side \in {"assistant", "user"}
  BY DEF Alternating, Sides
<1>3. r.side = segs[k].side
  BY DEF RenderSegment
<1>4. CASE segs[k].side = "assistant"
  <2>1. r.blocks = RenderAssistantSegment(segs[k].blocks, AnswersAfter(segs, k))
    BY <1>4 DEF RenderSegment
  <2>2. Meets(segs, k) = IdsOf(segs[k].blocks, "use") \cap AnswersAfter(segs, k)
    <3>1. k \in 1 .. n - 1 <=> k < n
      BY <1>1
    <3>2. QED
      BY <3>1 DEF Meets, AnswersAfter
  <2> HIDE DEF r
  <2> DEFINE bs == r.blocks
  <2>3. bs = RenderAssistantSegment(segs[k].blocks, AnswersAfter(segs, k))
    BY <2>1
  <2> HIDE DEF bs
  <2>4. /\ AreRendered(bs) /\ ResultsFirst(bs)
        /\ NativeIds(bs, "use") = IdsOf(segs[k].blocks, "use") \cap AnswersAfter(segs, k)
        /\ NativeIds(bs, "result") = {}
    BY <1>2, <2>3, AssistantRenders
  <2>5. QED
    BY <1>3, <1>4, <2>2, <2>4 DEF r, bs
<1>5. CASE segs[k].side = "user"
  <2>1. r.blocks = RenderUserSegment(segs[k].blocks, CallsBefore(segs, k))
    BY <1>5 DEF RenderSegment
  <2>2. Meets(segs, k - 1) = IdsOf(segs[k].blocks, "result") \cap CallsBefore(segs, k)
    <3>1. (k - 1 \in 1 .. n - 1 <=> k > 1) /\ (k - 1) + 1 = k
      BY <1>1
    <3>2. QED
      BY <3>1 DEF Meets, CallsBefore
  <2> HIDE DEF r
  <2> DEFINE bs == r.blocks
  <2>3. bs = RenderUserSegment(segs[k].blocks, CallsBefore(segs, k))
    BY <2>1
  <2> HIDE DEF bs
  <2>4. /\ AreRendered(bs) /\ ResultsFirst(bs)
        /\ NativeIds(bs, "result") = IdsOf(segs[k].blocks, "result") \cap CallsBefore(segs, k)
        /\ NativeIds(bs, "use") = {}
    BY <1>2, <2>3, UserRenders
  <2>5. QED
    BY <1>3, <1>5, <2>2, <2>4 DEF r, bs
<1>6. QED
  BY <1>2, <1>4, <1>5
-----------------------------------------------------------------------------
(* What a turn is put together from *)

\* A breakpoint changes neither the types nor the ids nor what the blocks show.
LEMMA Cached ==
  ASSUME NEW bs, AreRendered(bs), bs # <<>>, NEW cache
  PROVE  LET r == CacheLast(bs, cache)
         IN  /\ AreRendered(r) /\ Len(r) = Len(bs) /\ DOMAIN r = DOMAIN bs
             /\ \A i \in DOMAIN r :
                  /\ r[i].type = bs[i].type /\ r[i].id = bs[i].id
                  /\ r[i].body = bs[i].body
<1> DEFINE n == Len(bs)
           r == [bs EXCEPT ![n].cache = TRUE]
<1>1. n \in Nat /\ DOMAIN bs = 1 .. n /\ IsSeq(bs)
  BY SeqIs DEF AreRendered
<1>2. DOMAIN r = 1 .. n /\ r = [i \in 1 .. n |-> r[i]]
  BY <1>1 DEF IsSeq
<1>3. ASSUME NEW i \in 1 .. n
      PROVE  /\ IsRendered(r[i]) /\ r[i].type = bs[i].type /\ r[i].id = bs[i].id
             /\ r[i].body = bs[i].body
  <2> DEFINE b == bs[i]
  <2> DEFINE R(c) == [type : {b.type}, id : {b.id}, body : {b.body}, cache : {c}]
  <2>1. b \in R(b.cache)
    BY <1>1 DEF AreRendered, IsRendered
  <2>2. r[i] = b \/ r[i] = [b EXCEPT !.cache = TRUE]
    BY <1>1, <1>2
  <2> HIDE DEF b, r
  <2> DEFINE e == [b EXCEPT !.cache = TRUE]
  <2>3. e \in R(TRUE)
    BY <2>1
  <2> HIDE DEF e
  <2>4. IsRendered(e) /\ e.type = b.type /\ e.id = b.id /\ e.body = b.body
    BY <2>3 DEF IsRendered
  <2>5. IsRendered(b)
    BY <2>1 DEF IsRendered
  <2>6. QED
    BY <2>2, <2>4, <2>5 DEF b, e
<1>4. IsSeq(r) /\ Len(r) = n
  <2>1. r \in [1 .. n -> Range(r)]
    BY <1>2 DEF Range
  <2> HIDE DEF r, n
  <2>2. r \in Seq(Range(r)) /\ Len(r) = n
    BY <1>1, <2>1, FcnIsSeq
  <2>3. QED
    BY <2>2 DEF IsSeq
<1>5. AreRendered(r)
  <2> HIDE DEF r, n
  <2>1. QED
    BY <1>2, <1>3, <1>4 DEF AreRendered
<1> HIDE DEF r
<1>6. CacheLast(bs, cache) = r \/ CacheLast(bs, cache) = bs
  BY DEF CacheLast, r
<1> DEFINE l == CacheLast(bs, cache)
<1> HIDE DEF l
<1>7. l = r \/ l = bs
  BY <1>6 DEF l
<1>8. AreRendered(l) /\ Len(l) = n /\ DOMAIN l = 1 .. n
      /\ \A i \in 1 .. n : /\ l[i].type = bs[i].type /\ l[i].id = bs[i].id
                           /\ l[i].body = bs[i].body
  BY <1>1, <1>2, <1>3, <1>4, <1>5, <1>7
<1>9. QED
  BY <1>1, <1>8 DEF l

\* The first sequence stands in front, the others behind it.
LEMMA FlattenHead ==
  ASSUME NEW s, IsSeq(s), \A i \in DOMAIN s : IsSeq(s[i]), s # <<>>
  PROVE  /\ Len(s[1]) \in Nat /\ Len(s[1]) <= Len(FlattenSeq(s))
         /\ \A j \in 1 .. Len(s[1]) : FlattenSeq(s)[j] = s[1][j]
         /\ \A j \in DOMAIN FlattenSeq(s) : j > Len(s[1]) =>
              \E i \in DOMAIN s : i > 1 /\ FlattenSeq(s)[j] \in Range(s[i])
<1> DEFINE n == Len(s)
           T == UNION {Range(s[i]) : i \in DOMAIN s}
           g == CHOOSE h : Joined(s, h)
           m == Len(s[1])
<1>1. n \in Nat /\ DOMAIN s = 1 .. n
  BY SeqIs
<1>2. n # 0
  BY EmptySeq DEF IsSeq
<1>3. \A i \in 1 .. n : s[i] \in Seq(T)
  <2>1. ASSUME NEW i \in 1 .. n PROVE s[i] \in Seq(T)
    <3>1. Range(s[i]) \subseteq T /\ IsSeq(s[i])
      BY <1>1
    <3> HIDE DEF T
    <3>2. QED
      BY <3>1, SeqOver
  <2>2. QED
    BY <2>1
<1>4. 1 \in 1 .. n /\ m \in Nat
  BY <1>1, <1>2, SeqIs
<1>5. Joined(s, g)
  BY <1>1, JoinedExists
<1>6. FlattenSeq(s) = g[n]
  BY <1>2 DEF FlattenSeq, Joined
<1> DEFINE Holds(k) ==
             /\ g[k] \in Seq(T) /\ m <= Len(g[k])
             /\ \A j \in 1 .. m : g[k][j] = s[1][j]
             /\ \A j \in 1 .. Len(g[k]) : j > m =>
                  \E i \in 1 .. k : i > 1 /\ g[k][j] \in Range(s[i])
           G == {k \in 0 .. n - 1 : Holds(k + 1)}
<1> HIDE DEF g, T, n, m
<1>7. \A i \in 1 .. n : g[i] = IF i = 1 THEN s[i] ELSE g[i - 1] \o s[i]
  BY <1>5 DEF Joined, n
<1>8. 0 \in G
  <2>1. g[1] = s[1] /\ s[1] \in Seq(T)
    BY <1>3, <1>4, <1>7
  <2>2. Holds(1)
    BY <1>4, <2>1 DEF m
  <2>3. QED
    BY <1>1, <1>2, <2>2
<1>9. ASSUME NEW k \in 1 .. n - 1, k - 1 \in G PROVE k \in G
  <2>1. k \in 1 .. n /\ k + 1 \in 1 .. n /\ k + 1 # 1 /\ (k + 1) - 1 = k /\ k \in 0 .. n - 1
    BY <1>1
  <2>2. Holds(k)
    BY <1>9, <2>1
  <2> DEFINE u == g[k]
             v == s[k + 1]
             w == g[k + 1]
             p == Len(u)
  <2>3. w = u \o v /\ u \in Seq(T) /\ v \in Seq(T)
    BY <1>3, <1>7, <2>1, <2>2
  <2>4. /\ p \in Nat /\ m <= p /\ DOMAIN v = 1 .. Len(v) /\ Len(v) \in Nat
        /\ \A j \in 1 .. m : u[j] = s[1][j]
        /\ \A j \in 1 .. p : j > m => \E i \in 1 .. k : i > 1 /\ u[j] \in Range(s[i])
    BY <2>2, <2>3
  <2> HIDE DEF Holds, u, v, w, p
  <2>5. /\ w \in Seq(T) /\ Len(w) = p + Len(v)
        /\ \A j \in 1 .. p + Len(v) : w[j] = IF j <= p THEN u[j] ELSE v[j - p]
    BY <2>3, ConcatProperties DEF p
  <2>6. m <= Len(w) /\ \A j \in 1 .. m : w[j] = s[1][j]
    <3>1. \A j \in 1 .. m : j \in 1 .. p + Len(v) /\ j <= p
      BY <1>4, <2>4
    <3>2. QED
      BY <1>4, <2>4, <2>5, <3>1
  <2>7. ASSUME NEW j \in 1 .. Len(w), j > m
        PROVE  \E i \in 1 .. k + 1 : i > 1 /\ w[j] \in Range(s[i])
    <3>1. CASE j <= p
      <4>1. j \in 1 .. p /\ w[j] = u[j]
        BY <2>4, <2>5, <3>1
      <4>2. PICK i \in 1 .. k : i > 1 /\ u[j] \in Range(s[i])
        BY <2>4, <2>7, <4>1
      <4>3. i \in 1 .. k + 1
        BY <1>1, <2>1
      <4>4. QED
        BY <4>1, <4>2, <4>3
    <3>2. CASE ~(j <= p)
      <4>1. j - p \in 1 .. Len(v) /\ w[j] = v[j - p]
        BY <2>4, <2>5, <3>2
      <4>2. w[j] \in Range(s[k + 1])
        BY <2>4, <4>1 DEF Range, v
      <4>3. k + 1 \in 1 .. k + 1 /\ k + 1 > 1
        BY <1>1, <2>1
      <4>4. QED
        BY <4>2, <4>3
    <3>3. QED
      BY <3>1, <3>2
  <2>8. Holds(k + 1)
    BY <2>5, <2>6, <2>7 DEF Holds, w
  <2>9. QED
    BY <2>1, <2>8
<1>10. Holds(n)
  <2>1. n - 1 \in Nat /\ n - 1 \in 0 .. n - 1 /\ (n - 1) + 1 = n
    BY <1>1, <1>2
  <2> DEFINE N == n - 1
  <2>2. N \in Nat /\ \A k \in 1 .. N : k - 1 \in G => k \in G
    BY <1>9, <2>1
  <2> HIDE DEF G, Holds, N
  <2>3. \A k \in 0 .. N : k \in G
    BY <1>8, <2>2, AllAlong
  <2>4. n - 1 \in G
    BY <2>1, <2>3 DEF N
  <2>5. QED
    BY <2>1, <2>4 DEF G
<1>11. DOMAIN g[n] = 1 .. Len(g[n])
  BY <1>10
<1>12. QED
  BY <1>1, <1>4, <1>6, <1>10, <1>11 DEF m

\* Where the elements of a run come from.
LEMMA RunPlaces ==
  ASSUME NEW s, IsSeq(s), NEW runs, NEW from, Cuts(s, runs, from), NEW k \in DOMAIN runs
  PROVE  /\ \A i \in DOMAIN runs[k] :
              /\ from[k] + i - 1 \in DOMAIN s /\ InRun(from, k, from[k] + i - 1)
              /\ runs[k][i] = s[from[k] + i - 1]
         /\ \A p \in DOMAIN s : InRun(from, k, p) =>
              p - from[k] + 1 \in DOMAIN runs[k] /\ runs[k][p - from[k] + 1] = s[p]
<1> DEFINE n == Len(s)
           a == from[k]
           b == from[k + 1]
           r == runs[k]
<1>1. /\ n \in Nat /\ DOMAIN s = 1 .. n
      /\ a \in 1 .. n + 1 /\ b \in 1 .. n + 1 /\ DOMAIN r = 1 .. b - a
      /\ \A i \in 1 .. b - a : r[i] = s[a + i - 1]
  <2>1. k \in 1 .. Len(runs)
    BY CutFacts
  <2>2. /\ n \in Nat /\ DOMAIN s = 1 .. n
        /\ \A x \in 1 .. Len(runs) :
             /\ from[x] \in 1 .. n + 1 /\ from[x + 1] \in 1 .. n + 1
             /\ DOMAIN runs[x] = 1 .. from[x + 1] - from[x]
             /\ \A i \in 1 .. from[x + 1] - from[x] : runs[x][i] = s[from[x] + i - 1]
    BY CutFacts
  <2>3. QED
    BY <2>1, <2>2
<1> HIDE DEF n, a, b, r
<1>2. ASSUME NEW i \in 1 .. b - a
      PROVE  a + i - 1 \in 1 .. n /\ a <= a + i - 1 /\ a + i - 1 < b
  BY <1>1
<1>3. ASSUME NEW p \in 1 .. n, a <= p, p < b
      PROVE  p - a + 1 \in 1 .. b - a /\ a + (p - a + 1) - 1 = p
  BY <1>1, <1>3
<1>4. \A i \in 1 .. b - a :
        a + i - 1 \in DOMAIN s /\ InRun(from, k, a + i - 1) /\ r[i] = s[a + i - 1]
  BY <1>1, <1>2 DEF InRun, a, b
<1>5. \A p \in DOMAIN s : InRun(from, k, p) =>
        p - a + 1 \in 1 .. b - a /\ r[p - a + 1] = s[p]
  <2>1. ASSUME NEW p \in DOMAIN s, InRun(from, k, p)
        PROVE  p - a + 1 \in 1 .. b - a /\ r[p - a + 1] = s[p]
    <3>1. p \in 1 .. n /\ a <= p /\ p < b
      BY <1>1, <2>1 DEF InRun, a, b
    <3>2. p - a + 1 \in 1 .. b - a /\ a + (p - a + 1) - 1 = p
      BY <1>3, <3>1
    <3>3. QED
      BY <1>1, <3>2
  <2>2. QED
    BY <2>1
<1>6. QED
  BY <1>1, <1>4, <1>5 DEF a, r

\* Rendered segments that are not empty and whose native calls and results
\* answer each other.
Met(f) ==
  /\ IsSeq(f)
  /\ \A q \in DOMAIN f :
       /\ f[q].side \in Sides /\ f[q].blocks # <<>>
       /\ AreRendered(f[q].blocks) /\ ResultsFirst(f[q].blocks)
  /\ \A q \in DOMAIN f : \A x \in NativeIds(f[q].blocks, "use") :
       /\ f[q].side = "assistant" /\ q + 1 \in DOMAIN f
       /\ f[q + 1].side = "user" /\ x \in NativeIds(f[q + 1].blocks, "result")
  /\ \A q \in DOMAIN f : \A x \in NativeIds(f[q].blocks, "result") :
       /\ f[q].side = "user" /\ q - 1 \in DOMAIN f
       /\ f[q - 1].side = "assistant" /\ x \in NativeIds(f[q - 1].blocks, "use")

\* What the segments of a run put together.
Content(run) ==
  FlattenSeq([i \in DOMAIN run |-> CacheLast(run[i].blocks, run[i].cache)])

\* A turn has the native blocks of its segments, and its results in front if
\* only the first segment has any.
LEMMA ContentFacts ==
  ASSUME NEW run, IsSeq(run), run # <<>>,
         \A i \in DOMAIN run : /\ run[i].blocks # <<>> /\ AreRendered(run[i].blocks)
                               /\ ResultsFirst(run[i].blocks)
  PROVE  /\ IsSeq(Content(run)) /\ Content(run) # <<>>
         /\ \A type, x : x \in NativeIds(Content(run), type) <=>
              \E i \in DOMAIN run : x \in NativeIds(run[i].blocks, type)
         /\ (\A i \in DOMAIN run : i > 1 => NativeIds(run[i].blocks, "result") = {})
              => ResultsFirst(Content(run))
<1> DEFINE s == [i \in DOMAIN run |-> CacheLast(run[i].blocks, run[i].cache)]
           c == Content(run)
           n == Len(run)
<1>1. n \in Nat /\ DOMAIN run = 1 .. n
  BY SeqIs
<1>2. n # 0
  BY EmptySeq DEF IsSeq
<1>3. c = FlattenSeq(s) /\ DOMAIN s = 1 .. n /\ s \in [1 .. n -> Range(s)]
  BY <1>1 DEF Content, Range
<1>4. ASSUME NEW i \in 1 .. n
      PROVE  /\ AreRendered(s[i]) /\ Len(s[i]) = Len(run[i].blocks)
             /\ DOMAIN s[i] = DOMAIN run[i].blocks
             /\ \A j \in DOMAIN s[i] : /\ s[i][j].type = run[i].blocks[j].type
                                       /\ s[i][j].id = run[i].blocks[j].id
             /\ IsSeq(s[i])
  <2> DEFINE bs == run[i].blocks
             r  == CacheLast(bs, run[i].cache)
  <2>1. s[i] = r /\ AreRendered(bs) /\ bs # <<>>
    BY <1>1
  <2> HIDE DEF s, bs
  <2>2. /\ AreRendered(r) /\ Len(r) = Len(bs) /\ DOMAIN r = DOMAIN bs
        /\ \A j \in DOMAIN r : r[j].type = bs[j].type /\ r[j].id = bs[j].id
    BY <2>1, Cached
  <2> HIDE DEF r
  <2>3. IsSeq(r)
    BY <2>2 DEF AreRendered
  <2>4. QED
    BY <2>1, <2>2, <2>3 DEF bs
<1> HIDE DEF s, c, n
<1>5. IsSeq(s) /\ Len(s) = n
  <2>1. s \in Seq(Range(s)) /\ Len(s) = n
    BY <1>1, <1>3, FcnIsSeq
  <2>2. QED
    BY <2>1 DEF IsSeq
<1>6. s # <<>> /\ 1 \in 1 .. n
  BY <1>1, <1>2, <1>5, EmptySeq
<1>7. IsSeq(c) /\ \A y : y \in Range(c) <=> \E i \in 1 .. n : y \in Range(s[i])
  BY <1>3, <1>4, <1>5, FlatSeqs
<1>8. /\ Len(s[1]) \in Nat /\ Len(s[1]) <= Len(c)
      /\ \A j \in 1 .. Len(s[1]) : c[j] = s[1][j]
      /\ \A j \in DOMAIN c : j > Len(s[1]) =>
           \E i \in 1 .. n : i > 1 /\ c[j] \in Range(s[i])
  BY <1>3, <1>4, <1>5, <1>6, FlattenHead
<1>9. Len(c) \in Nat /\ DOMAIN c = 1 .. Len(c)
  BY <1>7, SeqIs
<1>10. c # <<>>
  <2> DEFINE bs == run[1].blocks
  <2>1. bs # <<>> /\ IsSeq(bs)
    BY <1>1, <1>6 DEF AreRendered
  <2> HIDE DEF bs
  <2>2. Len(bs) # 0
    BY <2>1, EmptySeq DEF IsSeq
  <2>3. Len(s[1]) # 0
    BY <1>4, <1>6, <2>2 DEF bs
  <2>4. Len(c) # 0
    BY <1>8, <1>9, <2>3
  <2>5. QED
    BY <2>4, EmptySeq
<1>11. ASSUME NEW type, NEW x
       PROVE  x \in NativeIds(c, type) <=> \E i \in 1 .. n : x \in NativeIds(run[i].blocks, type)
  <2>1. x \in NativeIds(c, type) <=> \E y \in Range(c) : y.type = type /\ y.id = x
    BY DEF NativeIds, Range
  <2>2. ASSUME NEW i \in 1 .. n
        PROVE  x \in NativeIds(run[i].blocks, type)
                 <=> \E y \in Range(s[i]) : y.type = type /\ y.id = x
    <3> DEFINE bs == run[i].blocks
               r  == s[i]
    <3>1. /\ DOMAIN r = DOMAIN bs
          /\ \A j \in DOMAIN r : r[j].type = bs[j].type /\ r[j].id = bs[j].id
      BY <1>4
    <3> HIDE DEF bs, r
    <3>2. x \in NativeIds(bs, type) <=> \E y \in Range(r) : y.type = type /\ y.id = x
      BY <3>1 DEF NativeIds, Range
    <3>3. QED
      BY <3>2 DEF bs, r
  <2>3. QED
    BY <1>7, <2>1, <2>2
<1>12. ASSUME \A i \in 1 .. n : i > 1 => NativeIds(run[i].blocks, "result") = {}
       PROVE  ResultsFirst(c)
  <2> DEFINE bs == run[1].blocks
             r  == s[1]
             m  == Len(r)
  <2>1. /\ Len(r) = Len(bs) /\ DOMAIN r = DOMAIN bs /\ ResultsFirst(bs)
        /\ \A j \in DOMAIN r : r[j].type = bs[j].type /\ r[j].id = bs[j].id
        /\ IsSeq(r)
    BY <1>1, <1>4, <1>6
  <2> HIDE DEF bs, r
  <2>2. PICK d \in 0 .. m :
          /\ \A i \in DOMAIN r : r[i].type = "result" <=> i <= d
          /\ \A i, j \in DOMAIN r : i <= d /\ j <= d /\ r[i].id = r[j].id => i = j
    BY <2>1 DEF ResultsFirst
  <2>3. DOMAIN r = 1 .. m /\ m \in Nat
    BY <2>1, SeqIs
  <2>4. m <= Len(c) /\ \A j \in 1 .. m : c[j] = r[j]
    BY <1>8 DEF r
  <2>5. ASSUME NEW j \in DOMAIN c, ~(j <= m) PROVE c[j].type # "result"
    <3>1. j > m
      BY <1>9, <2>3, <2>5
    <3>2. PICK i \in 1 .. n : i > 1 /\ c[j] \in Range(s[i])
      BY <1>8, <3>1 DEF r
    <3> DEFINE t == s[i]
               u == run[i].blocks
    <3>3. /\ DOMAIN t = DOMAIN u
          /\ \A l \in DOMAIN t : t[l].type = u[l].type /\ t[l].id = u[l].id
      BY <1>4
    <3>4. c[j] \in Range(t) /\ NativeIds(u, "result") = {}
      BY <1>12, <3>2
    <3> HIDE DEF t, u
    <3>5. PICK l \in DOMAIN t : c[j] = t[l]
      BY <3>4 DEF Range
    <3>6. u[l].type # "result"
      BY <3>3, <3>4, <3>5 DEF NativeIds
    <3>7. QED
      BY <3>3, <3>5, <3>6
  <2> HIDE DEF m
  <2>6. d \in 0 .. Len(c)
    BY <1>9, <2>3, <2>4
  <2>7. \A i \in DOMAIN c : i <= d => i \in 1 .. m
    BY <1>9, <2>2, <2>3
  <2>8. \A i \in DOMAIN c : i <= m => i \in 1 .. m
    BY <1>9, <2>3
  <2>9. \A i \in DOMAIN c : c[i].type = "result" <=> i <= d
    BY <2>2, <2>3, <2>4, <2>5, <2>7, <2>8
  <2>10. \A i, j \in DOMAIN c : i <= d /\ j <= d /\ c[i].id = c[j].id => i = j
    BY <2>2, <2>3, <2>4, <2>7
  <2>11. QED
    BY <2>6, <2>9, <2>10 DEF ResultsFirst
<1>13. QED
  BY <1>1, <1>7, <1>10, <1>11, <1>12 DEF c

\* Results in front that answer different calls are as many as their ids.
LEMMA ResultsCounted ==
  ASSUME NEW c, IsSeq(c), ResultsFirst(c)
  PROVE  LET results == {i \in DOMAIN c : c[i].type = "result"}
         IN  /\ Cardinality(NativeIds(c, "result")) = Cardinality(results)
             /\ results = 1 .. Cardinality(results)
<1> DEFINE results == {i \in DOMAIN c : c[i].type = "result"}
           ids     == NativeIds(c, "result")
           f       == [i \in results |-> c[i].id]
<1>1. PICK d \in 0 .. Len(c) :
        /\ \A i \in DOMAIN c : c[i].type = "result" <=> i <= d
        /\ \A i, j \in DOMAIN c : i <= d /\ j <= d /\ c[i].id = c[j].id => i = j
  BY DEF ResultsFirst
<1>2. Len(c) \in Nat /\ DOMAIN c = 1 .. Len(c)
  BY SeqIs
<1>3. results = 1 .. d
  <2> DEFINE n == Len(c)
  <2>1. n \in Nat /\ d \in 0 .. n /\ results = {i \in 1 .. n : i <= d}
    BY <1>1, <1>2
  <2> HIDE DEF n, results
  <2>2. QED
    BY <2>1
<1>4. IsFiniteSet(1 .. d) /\ Cardinality(1 .. d) = d
  <2>1. d \in Nat
    BY <1>2
  <2>2. QED
    BY <2>1, FS_Interval
<1>5. f \in Bijection(results, ids)
  <2>1. f \in [results -> ids]
    BY DEF NativeIds
  <2>2. \A i, j \in results : f[i] = f[j] => i = j
    BY <1>1
  <2>3. \A x \in ids : \E i \in results : f[i] = x
    BY DEF NativeIds
  <2>4. QED
    BY <2>1, <2>2, <2>3 DEF Bijection, Injection, Surjection, IsInjective
<1> HIDE DEF results, ids, f
<1>6. IsFiniteSet(results) /\ Cardinality(results) = d
  BY <1>3, <1>4
<1>7. Cardinality(ids) = Cardinality(results)
  BY <1>5, <1>6, FS_Bijection DEF ExistsBijection
<1>8. QED
  BY <1>3, <1>6, <1>7 DEF results, ids

\* What rises from each place to the next rises.
LEMMA Rises ==
  ASSUME NEW n \in Nat, NEW N \in Nat, NEW g \in [1 .. n + 1 -> 1 .. N],
         \A u \in 1 .. n : g[u] < g[u + 1]
  PROVE  \A u, v \in 1 .. n : u < v => g[u] < g[v]
<1> SUFFICES ASSUME NEW u \in 1 .. n
             PROVE  \A v \in 1 .. n : u < v => g[u] < g[v]
  OBVIOUS
<1> DEFINE M == n - u
           G == {k \in 0 .. M : g[u] < g[u + k + 1]}
<1>1. M \in Nat /\ \A v \in 1 .. n + 1 : g[v] \in Nat
  OBVIOUS
<1>2. 0 \in G
  BY <1>1
<1>3. ASSUME NEW k \in 1 .. M, k - 1 \in G PROVE k \in G
  <2>1. u + k \in 1 .. n /\ u + (k - 1) + 1 = u + k /\ k \in 0 .. M
        /\ u + k \in 1 .. n + 1 /\ u + k + 1 \in 1 .. n + 1 /\ u \in 1 .. n + 1
    OBVIOUS
  <2>2. g[u] < g[u + k]
    BY <1>3, <2>1
  <2>3. g[u + k] < g[u + k + 1]
    BY <2>1
  <2>4. g[u] < g[u + k + 1]
    <3> DEFINE x == g[u]
               y == g[u + k]
               z == g[u + k + 1]
    <3>1. x \in Nat /\ y \in Nat /\ z \in Nat /\ x < y /\ y < z
      BY <1>1, <2>1, <2>2, <2>3
    <3> HIDE DEF x, y, z
    <3>2. x < z
      BY <3>1
    <3>3. QED
      BY <3>2 DEF x, z
  <2>5. QED
    BY <2>1, <2>4
<1>4. \A k \in 0 .. M : k \in G
  <2> HIDE DEF G, M
  <2>1. QED
    BY <1>1, <1>2, <1>3, AllAlong
<1>5. ASSUME NEW v \in 1 .. n, u < v PROVE g[u] < g[v]
  <2>1. v - u - 1 \in 0 .. M /\ u + (v - u - 1) + 1 = v
    BY <1>5
  <2>2. QED
    BY <1>4, <2>1
<1>6. QED
  BY <1>5

\* Turns are as well matched as the segments they are put together from: a
\* segment with native calls ends its run, and one with native results begins
\* it.
LEMMA TurnsMeet ==
  ASSUME NEW f, Met(f), NEW runs, NEW from, Cuts(f, runs, from), AtChanges(f, runs, from)
  PROVE  /\ \A k \in DOMAIN runs :
              /\ IsSeq(Content(runs[k])) /\ Content(runs[k]) # <<>>
              /\ ResultsFirst(Content(runs[k]))
         /\ \A k \in DOMAIN runs : \A x \in NativeIds(Content(runs[k]), "use") :
              /\ runs[k][1].side = "assistant" /\ k + 1 \in DOMAIN runs
              /\ x \in NativeIds(Content(runs[k + 1]), "result")
         /\ \A k \in DOMAIN runs : \A x \in NativeIds(Content(runs[k]), "result") :
              /\ runs[k][1].side = "user" /\ k - 1 \in DOMAIN runs
              /\ x \in NativeIds(Content(runs[k - 1]), "use")
         /\ \A q \in DOMAIN f : \A x \in NativeIds(f[q].blocks, "use") :
              \E k \in DOMAIN runs : x \in NativeIds(Content(runs[k]), "use")
<1>1. IsSeq(f)
  BY DEF Met
<1>2. /\ Len(f) \in Nat /\ DOMAIN f = 1 .. Len(f)
      /\ Len(runs) \in Nat /\ DOMAIN runs = 1 .. Len(runs)
      /\ \A k \in DOMAIN runs : IsSeq(runs[k]) /\ from[k] \in Nat
  BY <1>1, CutFacts
<1>3. \A k \in DOMAIN runs :
        /\ \A i \in DOMAIN runs[k] :
             /\ from[k] + i - 1 \in DOMAIN f /\ InRun(from, k, from[k] + i - 1)
             /\ runs[k][i] = f[from[k] + i - 1]
        /\ \A p \in DOMAIN f : InRun(from, k, p) =>
             p - from[k] + 1 \in DOMAIN runs[k] /\ runs[k][p - from[k] + 1] = f[p]
  BY <1>1, RunPlaces
<1>4. /\ \A k \in DOMAIN runs : 1 \in DOMAIN runs[k]
      /\ \A k \in DOMAIN runs : \A i \in DOMAIN runs[k] : runs[k][i].side = runs[k][1].side
  BY <1>1, RunSides
<1>5. ASSUME NEW k \in DOMAIN runs, NEW p \in DOMAIN f, InRun(from, k, p)
      PROVE  f[p].side = runs[k][1].side
  BY <1>3, <1>4, <1>5
<1>6. ASSUME NEW k \in DOMAIN runs
      PROVE  /\ IsSeq(Content(runs[k])) /\ Content(runs[k]) # <<>>
             /\ \A type, x : x \in NativeIds(Content(runs[k]), type) <=>
                  \E i \in DOMAIN runs[k] : x \in NativeIds(runs[k][i].blocks, type)
             /\ (\A i \in DOMAIN runs[k] : i > 1 => NativeIds(runs[k][i].blocks, "result") = {})
                  => ResultsFirst(Content(runs[k]))
  <2> DEFINE r == runs[k]
  <2>1. IsSeq(r) /\ 1 \in DOMAIN r
    BY <1>2, <1>4
  <2>2. \A i \in DOMAIN r : /\ r[i].blocks # <<>> /\ AreRendered(r[i].blocks)
                            /\ ResultsFirst(r[i].blocks)
    BY <1>3 DEF Met
  <2> HIDE DEF r
  <2>3. r # <<>>
    BY <2>1, EmptyIs
  <2>4. /\ IsSeq(Content(r)) /\ Content(r) # <<>>
        /\ \A type, x : x \in NativeIds(Content(r), type) <=>
             \E i \in DOMAIN r : x \in NativeIds(r[i].blocks, type)
        /\ (\A i \in DOMAIN r : i > 1 => NativeIds(r[i].blocks, "result") = {})
             => ResultsFirst(Content(r))
    BY <2>1, <2>2, <2>3, ContentFacts
  <2>5. QED
    BY <2>4 DEF r
<1>7. ASSUME NEW k \in DOMAIN runs, NEW i \in DOMAIN runs[k],
             NEW x \in NativeIds(runs[k][i].blocks, "result")
      PROVE  /\ i = 1 /\ from[k] \in DOMAIN f /\ runs[k][i] = f[from[k]]
  <2> DEFINE q == from[k] + i - 1
             a == from[k]
             b == from[k + 1]
  <2>1. q \in DOMAIN f /\ InRun(from, k, q) /\ runs[k][i] = f[q]
    BY <1>3
  <2>2. /\ f[q].side = "user" /\ q - 1 \in DOMAIN f /\ f[q - 1].side = "assistant"
    BY <1>7, <2>1 DEF Met
  <2>3. a <= q /\ q < b /\ a \in Nat /\ i \in Nat /\ i >= 1 /\ b \in Nat
    <3>1. DOMAIN runs[k] = 1 .. Len(runs[k]) /\ Len(runs[k]) \in Nat
      BY <1>2, SeqIs
    <3>2. k \in 1 .. Len(runs) /\ k + 1 \in 1 .. Len(runs) + 1
      BY <1>2
    <3>3. b \in 1 .. Len(f) + 1
      BY <3>2 DEF Cuts
    <3>4. QED
      BY <1>2, <2>1, <3>1, <3>3 DEF InRun
  <2>4. i = 1
    <3> SUFFICES ASSUME i # 1 PROVE FALSE
      OBVIOUS
    <3> HIDE DEF a, b
    <3>1. a <= q - 1 /\ q - 1 < b
      BY <2>3 DEF a
    <3>2. InRun(from, k, q - 1)
      BY <3>1 DEF InRun, a, b
    <3> HIDE DEF q
    <3>3. f[q].side = runs[k][1].side /\ f[q - 1].side = runs[k][1].side
      BY <1>5, <2>1, <2>2, <3>2
    <3>4. QED
      BY <2>2, <3>3
  <2>5. q = a
    BY <2>3, <2>4
  <2>6. QED
    BY <2>1, <2>4, <2>5
<1>8. ASSUME NEW k \in DOMAIN runs PROVE ResultsFirst(Content(runs[k]))
  <2>1. ASSUME NEW i \in DOMAIN runs[k], i > 1 PROVE NativeIds(runs[k][i].blocks, "result") = {}
    <3>1. \A x \in NativeIds(runs[k][i].blocks, "result") : i = 1
      BY <1>7
    <3>2. QED
      BY <2>1, <3>1
  <2>2. QED
    BY <1>6, <2>1
<1>9. ASSUME NEW k \in DOMAIN runs, NEW x \in NativeIds(Content(runs[k]), "use")
      PROVE  /\ runs[k][1].side = "assistant" /\ k + 1 \in DOMAIN runs
             /\ x \in NativeIds(Content(runs[k + 1]), "result")
  <2>1. PICK i \in DOMAIN runs[k] : x \in NativeIds(runs[k][i].blocks, "use")
    BY <1>6
  <2> DEFINE q == from[k] + i - 1
  <2>2. q \in DOMAIN f /\ InRun(from, k, q) /\ runs[k][i] = f[q]
    BY <1>3
  <2> HIDE DEF q
  <2>3. /\ f[q].side = "assistant" /\ q + 1 \in DOMAIN f
        /\ f[q + 1].side = "user" /\ x \in NativeIds(f[q + 1].blocks, "result")
    BY <2>1, <2>2 DEF Met
  <2>4. runs[k][1].side = "assistant"
    BY <1>5, <2>2, <2>3
  <2>5. /\ k + 1 \in DOMAIN runs /\ InRun(from, k + 1, q + 1)
    BY <1>1, <2>2, <2>3, NextInRun
  <2> DEFINE l == k + 1
             p == q + 1
             j == p - from[l] + 1
  <2> HIDE DEF l, p
  <2>6. l \in DOMAIN runs /\ InRun(from, l, p) /\ p \in DOMAIN f
    BY <2>3, <2>5 DEF l, p
  <2>7. j \in DOMAIN runs[l] /\ runs[l][j] = f[p]
    BY <1>3, <2>6
  <2>8. x \in NativeIds(Content(runs[l]), "result")
    <3>1. x \in NativeIds(runs[l][j].blocks, "result")
      BY <2>3, <2>7 DEF p
    <3>2. QED
      BY <1>6, <2>6, <2>7, <3>1
  <2>9. QED
    BY <2>4, <2>5, <2>8 DEF l
<1>10. ASSUME NEW k \in DOMAIN runs, NEW x \in NativeIds(Content(runs[k]), "result")
       PROVE  /\ runs[k][1].side = "user" /\ k - 1 \in DOMAIN runs
              /\ x \in NativeIds(Content(runs[k - 1]), "use")
  <2>1. PICK i \in DOMAIN runs[k] : x \in NativeIds(runs[k][i].blocks, "result")
    BY <1>6
  <2>2. i = 1 /\ from[k] \in DOMAIN f /\ runs[k][1] = f[from[k]]
    BY <1>7, <2>1
  <2> DEFINE q == from[k]
             p == q - 1
  <2>3. q \in DOMAIN f /\ x \in NativeIds(f[q].blocks, "result")
    BY <2>1, <2>2
  <2> HIDE DEF q
  <2>4. /\ f[q].side = "user" /\ p \in DOMAIN f
        /\ f[p].side = "assistant" /\ x \in NativeIds(f[p].blocks, "use")
    BY <2>3 DEF Met
  <2>5. runs[k][1].side = "user"
    BY <2>2, <2>4 DEF q
  <2>6. PICK j \in DOMAIN runs : InRun(from, j, p)
    BY <1>1, <2>4, RunOf
  <2>7. j + 1 \in DOMAIN runs /\ from[j + 1] = q
    <3>1. p + 1 = q
      BY <1>2, <2>3
    <3> HIDE DEF p
    <3>2. f[p + 1].side # f[p].side /\ p + 1 \in DOMAIN f
      BY <2>3, <2>4, <3>1
    <3>3. QED
      BY <1>1, <2>4, <2>6, <3>1, <3>2, NextInRun
  <2>8. j + 1 = k
    <3> DEFINE n == Len(runs)
    <3>1. \A u \in 1 .. n : from[u] < from[u + 1]
      BY <1>2 DEF Cuts
    <3>2. from[j + 1] = from[k] /\ j + 1 \in 1 .. n /\ k \in 1 .. n /\ n \in Nat
      BY <1>2, <2>7 DEF q
    <3>3. \A u, v \in 1 .. n : u < v => from[u] < from[v]
      <4> DEFINE N == Len(f) + 1
      <4>1. from \in [1 .. n + 1 -> 1 .. N] /\ N \in Nat
        BY <1>2 DEF Cuts
      <4> HIDE DEF n, N
      <4>2. QED
        BY <1>2, <3>1, <3>2, <4>1, Rises
    <3> HIDE DEF n
    <3>4. ~(j + 1 < k) /\ ~(k < j + 1)
      <4>1. from[k] \in Nat
        BY <1>2
      <4>2. QED
        BY <3>2, <3>3, <4>1
    <3>5. QED
      BY <3>2, <3>4
  <2>9. k - 1 = j
    BY <1>2, <2>8
  <2> DEFINE m == p - from[j] + 1
  <2>10. m \in DOMAIN runs[j] /\ runs[j][m] = f[p]
    BY <1>3, <2>4, <2>6
  <2>11. x \in NativeIds(Content(runs[j]), "use")
    <3>1. x \in NativeIds(runs[j][m].blocks, "use")
      BY <2>4, <2>10
    <3> HIDE DEF m
    <3>2. QED
      BY <1>6, <2>10, <3>1
  <2>12. QED
    BY <2>5, <2>9, <2>11
<1>11. ASSUME NEW q \in DOMAIN f, NEW x \in NativeIds(f[q].blocks, "use")
       PROVE  \E k \in DOMAIN runs : x \in NativeIds(Content(runs[k]), "use")
  <2>1. PICK k \in DOMAIN runs : InRun(from, k, q)
    BY <1>1, RunOf
  <2> DEFINE i == q - from[k] + 1
  <2>2. i \in DOMAIN runs[k] /\ runs[k][i] = f[q]
    BY <1>3, <2>1
  <2> HIDE DEF i
  <2>3. x \in NativeIds(runs[k][i].blocks, "use")
    BY <2>2
  <2>4. QED
    BY <1>6, <2>2, <2>3
<1>12. QED
  BY <1>6, <1>8, <1>9, <1>10, <1>11
-----------------------------------------------------------------------------
(* The turns of a request *)

\* Positions next to each other stay next to each other.
LEMMA Neighbours ==
  ASSUME NEW n \in Nat, NEW kept \in SUBSET (1 .. n),
         NEW q \in DOMAIN InOrder(kept), NEW m \in DOMAIN InOrder(kept),
         InOrder(kept)[m] = InOrder(kept)[q] + 1
  PROVE  m = q + 1
<1> DEFINE o == InOrder(kept)
           c == Cardinality(kept)
<1>1. /\ c \in Nat /\ DOMAIN o = 1 .. c /\ o \in [1 .. c -> kept]
      /\ \A u, v \in 1 .. c : u < v => o[u] < o[v]
  BY InOrderFacts
<1>2. o[m] = o[q] + 1
  OBVIOUS
<1> HIDE DEF o, c
<1>3. \A u \in 1 .. c : o[u] \in Nat
  <2>1. \A u \in 1 .. c : o[u] \in kept
    BY <1>1
  <2>2. \A i \in kept : i \in Nat
    OBVIOUS
  <2>3. QED
    BY <2>1, <2>2
<1>4. q \in 1 .. c /\ m \in 1 .. c
  BY <1>1 DEF o
<1>5. ~(m < q) /\ m # q
  BY <1>1, <1>2, <1>3, <1>4
<1>6. ~(q + 1 < m)
  <2> SUFFICES ASSUME q + 1 < m PROVE FALSE
    OBVIOUS
  <2> DEFINE p == q + 1
  <2>1. p \in 1 .. c /\ q < p /\ p < m
    BY <1>1, <1>4
  <2> HIDE DEF p
  <2>2. o[q] < o[p] /\ o[p] < o[m] /\ o[p] \in Nat /\ o[q] \in Nat
    BY <1>1, <1>3, <1>4, <2>1
  <2>3. QED
    BY <1>2, <2>2
<1>7. QED
  BY <1>1, <1>4, <1>5, <1>6

\* The rendered segments of a prompt, and those that are not empty.
RenderedSegments(ms) ==
  LET segs == Segments(ms) IN [k \in DOMAIN segs |-> RenderSegment(segs, k)]

NonEmpty(all) == {k \in DOMAIN all : all[k].blocks # <<>>}
Full(ms) == Sub(RenderedSegments(ms), NonEmpty(RenderedSegments(ms)))

\* Every rendered segment that has a native block is in the request, and the
\* one that answers it or that it answers right beside it.
LEMMA FullMeets ==
  ASSUME NEW ms, Prompted(ms)
  PROVE  /\ Met(Full(ms))
         /\ \A k \in DOMAIN Segments(ms) : Segments(ms)[k].side = "assistant" =>
              \A x \in Meets(Segments(ms), k) :
                \E q \in DOMAIN Full(ms) : x \in NativeIds(Full(ms)[q].blocks, "use")
<1> DEFINE segs == Segments(ms)
           all  == RenderedSegments(ms)
           K    == NonEmpty(all)
           pos  == InOrder(K)
           f    == Full(ms)
           n    == Len(segs)
           c    == Cardinality(K)
<1>1. Alternating(segs)
  BY SegmentsFacts DEF Alternating
<1>2. f = [q \in DOMAIN pos |-> all[pos[q]]]
  BY DEF Full, Sub
<1>3. all = [k \in DOMAIN segs |-> RenderSegment(segs, k)]
  BY DEF RenderedSegments
<1>4. Meets(segs, 0) = {} /\ \A k : Meets(segs, k) # {} => k \in 1 .. n - 1
  BY DEF Meets
<1>5. \A k, x : x \in Meets(segs, k) => k \in 1 .. n - 1 /\ k + 1 \in 1 .. n /\ k \in 1 .. n
  <2>1. n \in Nat
    BY <1>1, SeqIs DEF Alternating
  <2> HIDE DEF segs, n
  <2>2. \A k \in 1 .. n - 1 : k + 1 \in 1 .. n /\ k \in 1 .. n
    BY <2>1
  <2>3. QED
    BY <1>4, <2>2
<1> HIDE DEF segs, all, f
<1>6. n \in Nat /\ DOMAIN segs = 1 .. n /\ DOMAIN all = 1 .. n
  BY <1>1, <1>3, SeqIs DEF Alternating
<1>7. ASSUME NEW k \in 1 .. n
      PROVE  /\ AreRendered(all[k].blocks) /\ ResultsFirst(all[k].blocks)
             /\ all[k].side = segs[k].side /\ all[k].side \in {"assistant", "user"}
             /\ NativeIds(all[k].blocks, "use") =
                  IF all[k].side = "assistant" THEN Meets(segs, k) ELSE {}
             /\ NativeIds(all[k].blocks, "result") =
                  IF all[k].side = "user" THEN Meets(segs, k - 1) ELSE {}
  <2> DEFINE r == RenderSegment(segs, k)
  <2>1. k \in DOMAIN segs /\ all[k] = r
    BY <1>3, <1>6
  <2> HIDE DEF r
  <2>2. /\ AreRendered(r.blocks) /\ ResultsFirst(r.blocks) /\ r.side = segs[k].side
        /\ NativeIds(r.blocks, "use") = IF r.side = "assistant" THEN Meets(segs, k) ELSE {}
        /\ NativeIds(r.blocks, "result") = IF r.side = "user" THEN Meets(segs, k - 1) ELSE {}
    BY <1>1, <2>1, SegmentRenders DEF r
  <2>3. segs[k].side \in {"assistant", "user"}
    BY <1>1, <2>1 DEF Alternating, Sides
  <2>4. QED
    BY <2>1, <2>2, <2>3
<1>8. \A k \in 1 .. n - 1 : k + 1 \in 1 .. n /\ k \in 1 .. n /\ segs[k + 1].side # segs[k].side
  <2>1. ASSUME NEW k \in 1 .. n - 1
        PROVE  k + 1 \in 1 .. n /\ k \in 1 .. n /\ segs[k + 1].side # segs[k].side
    <3> DEFINE j == k + 1
    <3>1. j \in 1 .. n /\ k \in 1 .. n /\ j > 1 /\ j - 1 = k
      BY <1>6
    <3> HIDE DEF j
    <3>2. segs[j].side # segs[j - 1].side
      BY <1>1, <1>6, <3>1 DEF Alternating
    <3>3. QED
      BY <3>1, <3>2 DEF j
  <2>2. QED
    BY <2>1
<1>9. K \in SUBSET (1 .. n) /\ \A k \in 1 .. n : k \in K <=> all[k].blocks # <<>>
  BY <1>6 DEF NonEmpty
<1>10. \A k \in 1 .. n : \A type : \A x \in NativeIds(all[k].blocks, type) : k \in K
  <2>1. \A type : NativeIds(<<>>, type) = {}
    BY EmptyIs DEF NativeIds
  <2>2. QED
    BY <1>9, <2>1
<1> HIDE DEF K
<1>11. /\ c \in Nat /\ DOMAIN pos = 1 .. c /\ pos \in [1 .. c -> K]
       /\ \A k \in K : \E m \in 1 .. c : pos[m] = k
  <2> HIDE DEF n
  <2>1. n \in Nat
    BY <1>6
  <2>2. QED
    BY <1>9, <2>1, InOrderFacts
<1>12. ASSUME NEW q \in 1 .. c, NEW m \in 1 .. c, pos[m] = pos[q] + 1 PROVE m = q + 1
  <2>1. q \in DOMAIN pos /\ m \in DOMAIN pos
    BY <1>11
  <2> HIDE DEF n
  <2>2. n \in Nat
    BY <1>6
  <2>3. QED
    BY <1>9, <1>12, <2>1, <2>2, Neighbours
<1> HIDE DEF pos, c, n
<1>13. /\ DOMAIN f = 1 .. c
       /\ \A q \in 1 .. c : f[q] = all[pos[q]] /\ pos[q] \in K /\ pos[q] \in 1 .. n
  BY <1>2, <1>9, <1>11
<1>14. IsSeq(f)
  <2>1. f \in [1 .. c -> Range(f)]
    BY <1>2, <1>11 DEF Range
  <2>2. f \in Seq(Range(f))
    BY <1>11, <2>1, FcnIsSeq
  <2>3. QED
    BY <2>2 DEF IsSeq
<1>15. ASSUME NEW q \in 1 .. c
       PROVE  /\ f[q].side \in Sides /\ f[q].blocks # <<>>
              /\ AreRendered(f[q].blocks) /\ ResultsFirst(f[q].blocks)
  BY <1>7, <1>9, <1>13 DEF Sides
<1>16. ASSUME NEW k \in 1 .. n, segs[k].side = "assistant", NEW x \in Meets(segs, k)
       PROVE  /\ k + 1 \in K /\ k \in K /\ all[k + 1].side = "user"
              /\ all[k].side = "assistant"
              /\ x \in NativeIds(all[k].blocks, "use")
              /\ x \in NativeIds(all[k + 1].blocks, "result")
  <2>1. k \in 1 .. n - 1 /\ k + 1 \in 1 .. n
    BY <1>5, <1>16
  <2> DEFINE j == k + 1
  <2>2. j - 1 = k
    BY <1>6
  <2>3. segs[j].side # segs[k].side
    BY <1>8, <2>1
  <2> HIDE DEF j
  <2>4. j \in 1 .. n
    BY <2>1 DEF j
  <2>5. all[j].side = "user" /\ all[k].side = "assistant"
    BY <1>7, <1>16, <2>3, <2>4
  <2>6. x \in NativeIds(all[j].blocks, "result") /\ x \in NativeIds(all[k].blocks, "use")
    BY <1>7, <1>16, <2>2, <2>4, <2>5
  <2>7. j \in K /\ k \in K
    BY <1>10, <2>4, <2>6
  <2>8. QED
    BY <2>5, <2>6, <2>7 DEF j
<1>17. ASSUME NEW q \in 1 .. c, NEW x \in NativeIds(f[q].blocks, "use")
       PROVE  /\ f[q].side = "assistant" /\ q + 1 \in 1 .. c
              /\ f[q + 1].side = "user" /\ x \in NativeIds(f[q + 1].blocks, "result")
  <2> DEFINE k == pos[q]
  <2>1. k \in 1 .. n /\ f[q] = all[k]
    BY <1>13
  <2> HIDE DEF k
  <2>2. segs[k].side = "assistant" /\ x \in Meets(segs, k) /\ all[k].side = "assistant"
    BY <1>7, <1>17, <2>1
  <2> DEFINE j == k + 1
  <2>3. j \in K /\ all[j].side = "user" /\ x \in NativeIds(all[j].blocks, "result")
    BY <1>16, <2>1, <2>2
  <2>4. PICK m \in 1 .. c : pos[m] = j
    BY <1>11, <2>3
  <2>5. m = q + 1
    BY <1>12, <2>4 DEF k
  <2> HIDE DEF j
  <2>6. f[m] = all[j]
    BY <1>13, <2>4
  <2>7. QED
    BY <2>1, <2>2, <2>3, <2>5, <2>6
<1>18. ASSUME NEW q \in 1 .. c, NEW x \in NativeIds(f[q].blocks, "result")
       PROVE  /\ f[q].side = "user" /\ q - 1 \in 1 .. c
              /\ f[q - 1].side = "assistant" /\ x \in NativeIds(f[q - 1].blocks, "use")
  <2> DEFINE j == pos[q]
             k == j - 1
  <2>1. j \in 1 .. n /\ f[q] = all[j]
    BY <1>13
  <2>2. k + 1 = j
    BY <1>6, <2>1
  <2> HIDE DEF j
  <2>3. segs[j].side = "user" /\ x \in Meets(segs, k) /\ all[j].side = "user"
    BY <1>7, <1>18, <2>1
  <2>4. k \in 1 .. n /\ k \in 1 .. n - 1
    BY <1>5, <2>3
  <2> HIDE DEF k
  <2>5. segs[k].side = "assistant"
    <3>1. segs[k + 1].side # segs[k].side
      BY <1>8, <2>4
    <3>2. segs[k].side \in {"assistant", "user"}
      BY <1>7, <2>4
    <3>3. QED
      BY <2>2, <2>3, <3>1, <3>2
  <2>6. k \in K /\ all[k].side = "assistant" /\ x \in NativeIds(all[k].blocks, "use")
    BY <1>16, <2>3, <2>4, <2>5
  <2>7. PICK m \in 1 .. c : pos[m] = k
    BY <1>11, <2>6
  <2>8. q = m + 1
    <3>1. pos[q] = pos[m] + 1
      BY <2>2, <2>7 DEF j
    <3>2. QED
      BY <1>12, <3>1
  <2>9. q - 1 = m
    BY <1>11, <2>8
  <2>10. f[m] = all[k]
    BY <1>13, <2>7
  <2>11. QED
    BY <2>1, <2>3, <2>6, <2>9, <2>10
<1>19. Met(f)
  BY <1>13, <1>14, <1>15, <1>17, <1>18 DEF Met
<1>20. ASSUME NEW k \in 1 .. n, segs[k].side = "assistant", NEW x \in Meets(segs, k)
       PROVE  \E q \in 1 .. c : x \in NativeIds(f[q].blocks, "use")
  <2>1. k \in K /\ x \in NativeIds(all[k].blocks, "use")
    BY <1>16, <1>20
  <2>2. PICK q \in 1 .. c : pos[q] = k
    BY <1>11, <2>1
  <2>3. f[q] = all[k]
    BY <1>13, <2>2
  <2>4. QED
    BY <2>1, <2>3
<1>21. QED
  BY <1>6, <1>13, <1>19, <1>20 DEF segs, f

\* What Paired says of a turn.
PairedAt(turns, k) ==
  LET turn    == turns[k]
      results == {i \in DOMAIN turn.content : turn.content[i].type = "result"}
  IN  /\ Native(turn, "use") \subseteq
           IF turn.side = "assistant" /\ k < Len(turns)
           THEN Native(turns[k + 1], "result") ELSE {}
      /\ Native(turn, "result") \subseteq
           IF turn.side = "user" /\ k > 1
           THEN Native(turns[k - 1], "use") ELSE {}
      /\ Cardinality(Native(turn, "result")) = Cardinality(results)
      /\ results = 1 .. Cardinality(results)

\* A request that is rendered from any prompt is one the Messages API accepts.
LEMMA Requests ==
  ASSUME NEW ms, Prompted(ms)
  PROVE  /\ Alternates(RenderRich(ms)) /\ Paired(RenderRich(ms))
         /\ \A q \in DOMAIN Full(ms) : \A x \in NativeIds(Full(ms)[q].blocks, "use") :
              x \in UNION {Native(RenderRich(ms).messages[k], "use") :
                             k \in DOMAIN RenderRich(ms).messages}
<1> DEFINE req  == RenderRich(ms)
           f    == Full(ms)
           runs == SideRuns(f)
           t    == Turns(ms)
           n    == Len(runs)
<1>1. Met(f) /\ IsSeq(f)
  BY FullMeets DEF Met
<1>2. t = [k \in DOMAIN runs |-> [side |-> runs[k][1].side, content |-> Content(runs[k])]]
  BY DEF Turns, Full, RenderedSegments, NonEmpty, Content
<1>3. req.messages = t
  BY DEF RenderRich
<1> HIDE DEF f, t, req
<1>4. PICK from : Cuts(f, runs, from) /\ AtChanges(f, runs, from)
  BY <1>1, RunsCut
<1> HIDE DEF runs, n
<1>5. n \in Nat /\ DOMAIN runs = 1 .. n
  BY <1>1, <1>4, CutFacts DEF n
<1>6. \A k \in 1 .. n : k > 1 => runs[k][1].side # runs[k - 1][1].side
  <2>1. \A k \in DOMAIN runs : k > 1 => runs[k][1].side # runs[k - 1][1].side
    BY <1>1, <1>4, RunSides
  <2>2. QED
    BY <1>5, <2>1
<1>7. /\ \A k \in 1 .. n :
           /\ IsSeq(Content(runs[k])) /\ Content(runs[k]) # <<>>
           /\ ResultsFirst(Content(runs[k]))
      /\ \A k \in 1 .. n : \A x \in NativeIds(Content(runs[k]), "use") :
           /\ runs[k][1].side = "assistant" /\ k + 1 \in 1 .. n
           /\ x \in NativeIds(Content(runs[k + 1]), "result")
      /\ \A k \in 1 .. n : \A x \in NativeIds(Content(runs[k]), "result") :
           /\ runs[k][1].side = "user" /\ k - 1 \in 1 .. n
           /\ x \in NativeIds(Content(runs[k - 1]), "use")
      /\ \A q \in DOMAIN f : \A x \in NativeIds(f[q].blocks, "use") :
           \E k \in 1 .. n : x \in NativeIds(Content(runs[k]), "use")
  <2> DEFINE D == DOMAIN runs
  <2>1. D = 1 .. n
    BY <1>5
  <2>2. /\ \A k \in D :
             /\ IsSeq(Content(runs[k])) /\ Content(runs[k]) # <<>>
             /\ ResultsFirst(Content(runs[k]))
        /\ \A k \in D : \A x \in NativeIds(Content(runs[k]), "use") :
             /\ runs[k][1].side = "assistant" /\ k + 1 \in D
             /\ x \in NativeIds(Content(runs[k + 1]), "result")
        /\ \A k \in D : \A x \in NativeIds(Content(runs[k]), "result") :
             /\ runs[k][1].side = "user" /\ k - 1 \in D
             /\ x \in NativeIds(Content(runs[k - 1]), "use")
        /\ \A q \in DOMAIN f : \A x \in NativeIds(f[q].blocks, "use") :
             \E k \in D : x \in NativeIds(Content(runs[k]), "use")
    BY <1>1, <1>4, TurnsMeet
  <2> HIDE DEF D
  <2>3. QED
    BY <2>1, <2>2
<1>8. /\ DOMAIN t = 1 .. n
      /\ \A k \in 1 .. n : t[k].side = runs[k][1].side /\ t[k].content = Content(runs[k])
  BY <1>2, <1>5
<1>9. Len(t) = n
  <2>1. t \in [1 .. n -> Range(t)]
    BY <1>2, <1>5 DEF Range
  <2>2. QED
    BY <1>5, <2>1, FcnIsSeq
<1>10. Alternates(req)
  <2>1. ASSUME NEW k \in 2 .. n PROVE t[k].side # t[k - 1].side
    <3>1. k \in 1 .. n /\ k > 1 /\ k - 1 \in 1 .. n
      BY <1>5
    <3>2. QED
      BY <1>6, <1>8, <3>1
  <2>2. \A k \in 1 .. n : t[k].content # <<>>
    BY <1>7, <1>8
  <2>3. QED
    BY <1>3, <1>8, <1>9, <2>1, <2>2 DEF Alternates
<1>11. \A k \in 1 .. n : \A type : Native(t[k], type) = NativeIds(Content(runs[k]), type)
  BY <1>8 DEF Native, NativeIds
<1>12. ASSUME NEW k \in 1 .. n PROVE PairedAt(t, k)
  <2> DEFINE c == Content(runs[k])
             results == {i \in DOMAIN c : c[i].type = "result"}
  <2>1. t[k].content = c /\ t[k].side = runs[k][1].side
    BY <1>8
  <2>2. IsSeq(c) /\ ResultsFirst(c)
    BY <1>7
  <2> HIDE DEF c
  <2>3. /\ Cardinality(NativeIds(c, "result")) = Cardinality(results)
        /\ results = 1 .. Cardinality(results)
    BY <2>2, ResultsCounted
  <2>4. Native(t[k], "result") = NativeIds(c, "result") /\ Native(t[k], "use") = NativeIds(c, "use")
    BY <1>11 DEF c
  <2> HIDE DEF results
  <2>5. ASSUME NEW x \in Native(t[k], "use")
        PROVE  t[k].side = "assistant" /\ k < n /\ x \in Native(t[k + 1], "result")
    <3>1. /\ runs[k][1].side = "assistant" /\ k + 1 \in 1 .. n
          /\ x \in NativeIds(Content(runs[k + 1]), "result")
      BY <1>7, <2>4, <2>5 DEF c
    <3>2. k < n
      BY <1>5, <3>1
    <3>3. QED
      BY <1>11, <2>1, <3>1, <3>2
  <2>6. ASSUME NEW x \in Native(t[k], "result")
        PROVE  t[k].side = "user" /\ k > 1 /\ x \in Native(t[k - 1], "use")
    <3>1. /\ runs[k][1].side = "user" /\ k - 1 \in 1 .. n
          /\ x \in NativeIds(Content(runs[k - 1]), "use")
      BY <1>7, <2>4, <2>6 DEF c
    <3>2. k > 1
      BY <1>5, <3>1
    <3>3. QED
      BY <1>11, <2>1, <3>1, <3>2
  <2>7. Native(t[k], "use") \subseteq
          IF t[k].side = "assistant" /\ k < n THEN Native(t[k + 1], "result") ELSE {}
    BY <2>5
  <2>8. Native(t[k], "result") \subseteq
          IF t[k].side = "user" /\ k > 1 THEN Native(t[k - 1], "use") ELSE {}
    BY <2>6
  <2>9. QED
    BY <1>9, <2>1, <2>3, <2>4, <2>7, <2>8 DEF PairedAt, results
<1>13. Paired(req)
  <2>1. Paired(req) <=> \A k \in DOMAIN req.messages : PairedAt(req.messages, k)
    BY DEF Paired, PairedAt
  <2>2. QED
    BY <1>3, <1>8, <1>12, <2>1
<1>14. ASSUME NEW q \in DOMAIN f, NEW x \in NativeIds(f[q].blocks, "use")
       PROVE  x \in UNION {Native(req.messages[k], "use") : k \in DOMAIN req.messages}
  <2>1. PICK k \in 1 .. n : x \in NativeIds(Content(runs[k]), "use")
    BY <1>7
  <2>2. x \in Native(t[k], "use")
    BY <1>11, <2>1
  <2>3. QED
    BY <1>3, <1>8, <2>2
<1>15. QED
  BY <1>10, <1>13, <1>14 DEF req, f

\* Message j answers a call of message i in the turn right after it.
AnswersNext(ms, i, j) ==
  LET between == {k \in i .. j : ms[k].role # "system"}
  IN  /\ ms[i].role = "assistant"
      /\ ms[j].role \notin {"system", "assistant"}
      /\ \E s \in i .. j - 1 : \A k \in between :
           SideOf(ms[k]) = "assistant" <=> k <= s

\* A call and its answer in the next turn stand in neighbouring segments.
LEMMA AnswersMeet ==
  ASSUME NEW ms, Prompted(ms), NEW i \in DOMAIN ms, NEW j \in DOMAIN ms, i < j,
         AnswersNext(ms, i, j),
         NEW x, x \in IdsOf(ms[i].blocks, "use"), x \in IdsOf(ms[j].blocks, "result")
  PROVE  \E k \in DOMAIN Segments(ms) :
           Segments(ms)[k].side = "assistant" /\ x \in Meets(Segments(ms), k)
<1> DEFINE segs == Segments(ms)
           t    == Turn(ms)
           at   == TurnAt(ms)
           runs == SideRuns(t)
           n    == Len(t)
<1>1. /\ IsSeq(t) /\ n \in Nat /\ DOMAIN t = 1 .. n
      /\ \A q \in 1 .. n : /\ at[q] \in DOMAIN ms /\ ms[at[q]].role # "system"
                           /\ t[q].side = SideOf(ms[at[q]])
                           /\ t[q].blocks = ms[at[q]].blocks
      /\ \A l \in DOMAIN ms : ms[l].role # "system" => \E q \in 1 .. n : at[q] = l
      /\ \A u, v \in 1 .. n : u < v => at[u] < at[v]
  BY TurnFacts
<1>2. /\ IsSeq(segs) /\ Len(segs) = Len(runs) /\ DOMAIN segs = DOMAIN runs
      /\ \A k \in DOMAIN segs :
           /\ segs[k].side = runs[k][1].side
           /\ \A l \in DOMAIN runs[k] : Range(runs[k][l].blocks) \subseteq Range(segs[k].blocks)
  BY SegmentsFacts
<1>3. DOMAIN ms \subseteq Nat
  BY SeqIs DEF Prompted
<1> HIDE DEF segs, t, at, n
<1>4. PICK from : Cuts(t, runs, from) /\ AtChanges(t, runs, from)
  BY <1>1, RunsCut
<1> HIDE DEF runs
<1>5. /\ ms[i].role = "assistant" /\ ms[j].role # "system" /\ ms[j].role # "assistant"
  BY DEF AnswersNext
<1>6. PICK s \in i .. j - 1 : \A k \in i .. j :
        ms[k].role # "system" => (SideOf(ms[k]) = "assistant" <=> k <= s)
  BY DEF AnswersNext
<1>7. PICK p \in 1 .. n : at[p] = i
  BY <1>1, <1>5
<1>8. PICK q \in 1 .. n : at[q] = j
  BY <1>1, <1>5
<1>9. \A u \in 1 .. n : at[u] \in Nat
  BY <1>1, <1>3
<1>10. p < q
  <2>1. q < p => at[q] < at[p]
    BY <1>1
  <2>2. at[p] < at[q] /\ at[p] \in Nat /\ at[q] \in Nat
    BY <1>7, <1>8, <1>9
  <2>3. ~(q < p) /\ p # q
    BY <2>1, <2>2
  <2>4. QED
    BY <1>1, <2>3
<1>11. ASSUME NEW u \in 1 .. n, p <= u, u <= q
       PROVE  t[u].side \in Sides /\ (t[u].side = "assistant" <=> at[u] <= s)
  <2>1. at[u] \in i .. j
    <3>1. u = p \/ p < u
      BY <1>11
    <3>2. u = q \/ u < q
      BY <1>11
    <3>3. i <= at[u]
      <4>1. p < u => at[p] < at[u]
        BY <1>1
      <4>2. QED
        BY <1>7, <1>9, <3>1, <4>1
    <3>4. at[u] <= j
      <4>1. u < q => at[u] < at[q]
        BY <1>1
      <4>2. QED
        BY <1>8, <1>9, <3>2, <4>1
    <3>5. QED
      BY <1>3, <1>9, <3>3, <3>4
  <2>2. QED
    BY <1>1, <1>6, <2>1 DEF SideOf, Sides
<1>12. PICK k \in DOMAIN runs : InRun(from, k, p)
  BY <1>1, <1>4, RunOf
<1> DEFINE In(u) == \/ InRun(from, k, u) /\ at[u] <= s
                    \/ k + 1 \in DOMAIN runs /\ InRun(from, k + 1, u) /\ at[u] > s
           N == q - p
           G == {d \in 0 .. N : In(p + d)}
<1>13. s \in Nat /\ s < j /\ i <= s
  BY <1>3
<1>14. N \in Nat /\ \A d \in 0 .. N : p + d \in 1 .. n /\ p <= p + d /\ p + d <= q
  BY <1>1, <1>10
<1>15. 0 \in G
  <2>1. p + 0 = p
    OBVIOUS
  <2>2. In(p)
    BY <1>7, <1>12, <1>13
  <2> HIDE DEF In, N
  <2>3. QED
    BY <1>14, <2>1, <2>2
<1>16. ASSUME NEW d \in 1 .. N, d - 1 \in G PROVE d \in G
  <2> DEFINE u == p + (d - 1)
             v == u + 1
  <2>1. d - 1 \in 0 .. N /\ d \in 0 .. N /\ v = p + d
    BY <1>14
  <2>2. u \in 1 .. n /\ p <= u /\ u <= q
    BY <1>14, <2>1
  <2>3. v \in 1 .. n /\ p <= v /\ v <= q
    BY <1>14, <2>1
  <2>4. In(u)
    BY <1>16
  <2> HIDE DEF u, G, N
  <2>5. u < v
    BY <1>1, <2>2
  <2>6. at[u] < at[v] /\ at[u] \in Nat /\ at[v] \in Nat
    BY <1>1, <1>9, <2>2, <2>3, <2>5
  <2>7. t[u].side \in Sides /\ (t[u].side = "assistant" <=> at[u] <= s)
    BY <1>11, <2>2
  <2>8. t[v].side \in Sides /\ (t[v].side = "assistant" <=> at[v] <= s)
    BY <1>11, <2>3
  <2>9. u \in DOMAIN t /\ u + 1 \in DOMAIN t
    BY <1>1, <2>2, <2>3
  <2>10. \A m \in DOMAIN runs : InRun(from, m, u) =>
           /\ t[v].side = t[u].side => InRun(from, m, v)
           /\ t[v].side # t[u].side => m + 1 \in DOMAIN runs /\ InRun(from, m + 1, v)
    <3> SUFFICES ASSUME NEW m \in DOMAIN runs, InRun(from, m, u)
                 PROVE  /\ t[v].side = t[u].side => InRun(from, m, v)
                        /\ t[v].side # t[u].side => m + 1 \in DOMAIN runs /\ InRun(from, m + 1, v)
      OBVIOUS
    <3>1. /\ t[u + 1].side = t[u].side => InRun(from, m, u + 1)
          /\ t[u + 1].side # t[u].side =>
               /\ m + 1 \in DOMAIN runs /\ InRun(from, m + 1, u + 1)
               /\ from[m + 1] = u + 1
      <4>1. IsSeq(t) /\ u \in DOMAIN t /\ u + 1 \in DOMAIN t
        BY <1>1, <2>9
      <4> HIDE DEF v
      <4>2. QED
        BY <1>4, <4>1, NextInRun
    <3>2. QED
      BY <3>1
  <2> HIDE DEF v
  <2>11. In(v)
    <3>1. CASE InRun(from, k, u) /\ at[u] <= s
      <4>1. CASE at[v] <= s
        BY <2>7, <2>8, <2>10, <3>1, <4>1
      <4>2. CASE ~(at[v] <= s)
        <5>1. at[v] > s
          BY <1>13, <2>6, <4>2
        <5>2. t[v].side # t[u].side
          BY <2>7, <2>8, <3>1, <4>2
        <5>3. QED
          BY <2>10, <3>1, <5>1, <5>2
      <4>3. QED
        BY <4>1, <4>2
    <3>2. CASE k + 1 \in DOMAIN runs /\ InRun(from, k + 1, u) /\ at[u] > s
      <4>1. at[v] > s /\ ~(at[v] <= s) /\ ~(at[u] <= s)
        BY <1>13, <2>6, <3>2
      <4>2. t[v].side = t[u].side
        BY <2>7, <2>8, <4>1 DEF Sides
      <4>3. QED
        BY <2>10, <3>2, <4>1, <4>2
    <3>3. QED
      BY <2>4, <3>1, <3>2
  <2> HIDE DEF In
  <2>12. QED
    BY <2>1, <2>11 DEF G
<1>17. \A d \in 0 .. N : d \in G
  <2> HIDE DEF G, N
  <2>1. QED
    BY <1>14, <1>15, <1>16, AllAlong
<1>18. In(q)
  <2>1. N \in 0 .. N /\ p + N = q
    BY <1>1, <1>14
  <2> HIDE DEF In, N
  <2>2. In(p + N)
    BY <1>17, <2>1
  <2>3. QED
    BY <2>1, <2>2
<1>19. k + 1 \in DOMAIN runs /\ InRun(from, k + 1, q)
  <2>1. ~(at[q] <= s)
    BY <1>3, <1>8, <1>13
  <2>2. QED
    BY <1>18, <2>1
<1> HIDE DEF In, G, N
<1> DEFINE a == p - from[k] + 1
           l == k + 1
           b == q - from[l] + 1
<1>20. a \in DOMAIN runs[k] /\ runs[k][a] = t[p]
  BY <1>1, <1>4, <1>12, RunPlaces
<1> HIDE DEF l
<1>21. b \in DOMAIN runs[l] /\ runs[l][b] = t[q]
  BY <1>1, <1>4, <1>19, RunPlaces DEF l
<1> HIDE DEF a, b
<1>22. segs[k].side = "assistant"
  <2>1. runs[k][a].side = runs[k][1].side
    BY <1>1, <1>4, <1>20, RunSides
  <2>2. t[p].side = "assistant"
    BY <1>1, <1>5, <1>7 DEF SideOf
  <2>3. QED
    BY <1>2, <1>20, <2>1, <2>2
<1>23. \A bs, cs, kind : Range(bs) \subseteq Range(cs) => IdsOf(bs, kind) \subseteq IdsOf(cs, kind)
  <2>1. \A bs, kind : IdsOf(bs, kind) = {y.id : y \in {z \in Range(bs) : z.kind = kind}}
    BY DEF IdsOf, Range
  <2>2. QED
    BY <2>1
<1>24. x \in IdsOf(segs[k].blocks, "use")
  <2>1. t[p].blocks = ms[i].blocks
    BY <1>1, <1>7
  <2>2. Range(ms[i].blocks) \subseteq Range(segs[k].blocks)
    BY <1>2, <1>20, <2>1
  <2>3. QED
    BY <1>23, <2>2
<1>25. x \in IdsOf(segs[l].blocks, "result")
  <2>1. t[q].blocks = ms[j].blocks
    BY <1>1, <1>8
  <2>2. Range(ms[j].blocks) \subseteq Range(segs[l].blocks)
    BY <1>2, <1>19, <1>21, <2>1 DEF l
  <2>3. QED
    BY <1>23, <2>2
<1>26. k \in 1 .. Len(segs) - 1
  <2> DEFINE m == Len(segs)
  <2>1. m \in Nat /\ DOMAIN segs = 1 .. m
    BY <1>2, SeqIs
  <2> HIDE DEF m
  <2>2. k \in 1 .. m /\ k + 1 \in 1 .. m
    BY <1>2, <1>12, <1>19, <2>1
  <2>3. k \in 1 .. m - 1
    BY <2>1, <2>2
  <2>4. QED
    BY <2>3 DEF m
<1>27. x \in Meets(segs, k)
  BY <1>24, <1>25, <1>26 DEF Meets, l
<1>28. QED
  BY <1>2, <1>12, <1>22, <1>27 DEF segs
-----------------------------------------------------------------------------
(* Where an element of a flattened sequence stands *)

\* The m-th position has m - 1 smaller ones.
LEMMA InOrderRank ==
  ASSUME NEW n \in Nat, NEW kept \in SUBSET (1 .. n), NEW m \in DOMAIN InOrder(kept)
  PROVE  Cardinality({j \in kept : j < InOrder(kept)[m]}) = m - 1
<1> DEFINE c == Cardinality(kept)
           rank(i) == Cardinality({j \in kept : j < i})
           o == InOrder(kept)
<1>1. \A k \in 1 .. c : \E i \in kept : rank(i) = k - 1
  BY RankFacts
<1>2. o = [k \in 1 .. c |-> CHOOSE i \in kept : rank(i) = k - 1]
  BY DEF InOrder
<1> HIDE DEF c, rank, o
<1>3. m \in 1 .. c
  BY <1>2 DEF o
<1>4. rank(o[m]) = m - 1
  BY <1>1, <1>2, <1>3
<1>5. QED
  BY <1>4 DEF rank, o

\* Two sets, of positions up to n and up to n1, with the same ones up to N.
SameUpTo(kept, n, kept1, n1, N) ==
  /\ n \in Nat /\ kept \in SUBSET (1 .. n)
  /\ n1 \in Nat /\ kept1 \in SUBSET (1 .. n1)
  /\ N \in Nat /\ \A i \in 1 .. N : i \in kept <=> i \in kept1

\* They have the same order up to N.
LEMMA SamePlaces ==
  ASSUME NEW kept, NEW n, NEW kept1, NEW n1, NEW N, SameUpTo(kept, n, kept1, n1, N),
         NEW q \in DOMAIN InOrder(kept), InOrder(kept)[q] <= N
  PROVE  q \in DOMAIN InOrder(kept1) /\ InOrder(kept1)[q] = InOrder(kept)[q]
<1> DEFINE i == InOrder(kept)[q]
           o1 == InOrder(kept1)
           A == {j \in kept : j < i}
           B == {j \in kept1 : j < i}
<1>0. n \in Nat /\ kept \in SUBSET (1 .. n) /\ n1 \in Nat /\ kept1 \in SUBSET (1 .. n1) /\ N \in Nat
  BY DEF SameUpTo
<1>1. i \in kept /\ q \in Nat
  <2> DEFINE o == InOrder(kept)
             c == Cardinality(kept)
  <2>1. c \in Nat /\ DOMAIN o = 1 .. c /\ o \in [1 .. c -> kept]
    BY <1>0, InOrderFacts
  <2> HIDE DEF o, c
  <2>2. q \in 1 .. c
    BY <2>1 DEF o
  <2>3. QED
    BY <2>1, <2>2 DEF o
<1>2. \A j \in kept : j \in 1 .. n
  BY <1>0
<1>3. \A j \in kept1 : j \in 1 .. n1
  BY <1>0
<1>4. i \in 1 .. n /\ i <= N
  BY <1>0, <1>1, <1>2
<1>5. i \in kept1
  <2> HIDE DEF i
  <2>1. i \in 1 .. N
    BY <1>0, <1>4
  <2>2. QED
    BY <1>1, <2>1 DEF SameUpTo
<1>6. DOMAIN o1 = 1 .. Cardinality(kept1) /\ \A j \in kept1 : \E m \in 1 .. Cardinality(kept1) : o1[m] = j
  BY <1>0, InOrderFacts
<1>7. PICK m \in DOMAIN o1 : o1[m] = i
  BY <1>5, <1>6
<1>8. Cardinality(A) = q - 1
  BY <1>0, InOrderRank
<1>9. Cardinality(B) = m - 1
  <2>1. Cardinality({j \in kept1 : j < InOrder(kept1)[m]}) = m - 1
    BY <1>0, InOrderRank
  <2>2. InOrder(kept1)[m] = i
    BY <1>7
  <2> HIDE DEF i
  <2>3. QED
    BY <2>1, <2>2
<1>10. A = B
  <2> HIDE DEF i
  <2>1. \A j : j \in 1 .. n \/ j \in 1 .. n1 => (j < i => j \in 1 .. N)
    BY <1>0, <1>4
  <2>2. \A j : j \in kept /\ j < i <=> j \in kept1 /\ j < i
    BY <1>2, <1>3, <2>1 DEF SameUpTo
  <2>3. QED
    BY <2>2
<1>11. m \in Nat
  BY <1>6, <1>7
<1> HIDE DEF A, B, i, o1
<1>12. q = m
  BY <1>1, <1>8, <1>9, <1>10, <1>11
<1>13. QED
  BY <1>7, <1>12 DEF i, o1

\* Sequence k of s ends at off[k].
Offsets(s, off) ==
  /\ off \in [0 .. Len(s) -> Nat] /\ off[0] = 0
  /\ \A k \in 1 .. Len(s) : off[k] = off[k - 1] + Len(s[k])

\* A sequence of sequences.
Nested(s) == IsSeq(s) /\ \A i \in DOMAIN s : IsSeq(s[i])

\* There are such offsets.
LEMMA OffsetsExist ==
  ASSUME NEW s, Nested(s)
  PROVE  \E off : Offsets(s, off)
<1> DEFINE n == Len(s)
           step == [k \in 1 .. n |-> [x \in Nat |-> x + Len(s[k])]]
<1>1. n \in Nat /\ DOMAIN s = 1 .. n
  BY SeqIs DEF Nested
<1>2. \A k \in 1 .. n : Len(s[k]) \in Nat
  BY <1>1, SeqIs DEF Nested
<1> HIDE DEF n
<1>3. step \in [1 .. n -> [Nat -> Nat]]
  BY <1>2
<1>4. \A k \in 1 .. n : \A x \in Nat : step[k][x] = x + Len(s[k])
  OBVIOUS
<1> HIDE DEF step
<1>5. PICK g \in [0 .. n -> Nat] : Iterated(g, 0, step, n)
  BY <1>1, <1>3, Iterates
<1>6. \A k \in 1 .. n : k - 1 \in 0 .. n
  BY <1>1
<1>7. \A k \in 1 .. n : g[k] = g[k - 1] + Len(s[k])
  BY <1>4, <1>5, <1>6 DEF Iterated
<1>8. Offsets(s, g)
  BY <1>5, <1>7 DEF Offsets, Iterated, n
<1>9. QED
  BY <1>8

\* Every place lies in one of the sequences.
Placed(s, off) ==
  \A p \in 1 .. off[Len(s)] : \E k \in 1 .. Len(s) : \E j \in 1 .. Len(s[k]) :
    p = off[k - 1] + j

\* They rise, and every place lies in one of the sequences.
LEMMA OffsetPlaces ==
  ASSUME NEW s, Nested(s), NEW off, Offsets(s, off)
  PROVE  /\ Len(s) \in Nat /\ DOMAIN s = 1 .. Len(s) /\ off[0] = 0
         /\ \A k \in 0 .. Len(s) : off[k] \in Nat
         /\ \A k \in 1 .. Len(s) : /\ off[k - 1] \in Nat /\ Len(s[k]) \in Nat
                                   /\ off[k] = off[k - 1] + Len(s[k])
                                   /\ DOMAIN s[k] = 1 .. Len(s[k])
         /\ \A u, v \in 0 .. Len(s) : u <= v => off[u] <= off[v]
         /\ Placed(s, off)
<1> DEFINE n == Len(s)
<1>1. n \in Nat /\ n \in 0 .. n /\ DOMAIN s = 1 .. n
  BY SeqIs DEF Nested
<1>2. /\ \A k \in 0 .. n : off[k] \in Nat
      /\ off[0] = 0
      /\ \A k \in 1 .. n : off[k] = off[k - 1] + Len(s[k])
  BY DEF Offsets
<1>3. \A k \in 1 .. n : Len(s[k]) \in Nat /\ DOMAIN s[k] = 1 .. Len(s[k])
  BY <1>1, SeqIs DEF Nested
<1> HIDE DEF n
<1>4. \A k \in 1 .. n : k \in 0 .. n /\ k - 1 \in 0 .. n
  BY <1>1
<1>5. \A k \in 1 .. n : off[k] \in Nat /\ off[k - 1] \in Nat
  BY <1>2, <1>4
<1>6. ASSUME NEW u \in 0 .. n, NEW v \in 0 .. n, u <= v PROVE off[u] <= off[v]
  <2> DEFINE N == v - u
             G == {d \in 0 .. N : off[u] <= off[u + d]}
  <2>1. u \in Nat /\ v \in Nat /\ N \in Nat /\ u + N = v /\ u + 0 = u /\ 0 \in 0 .. N /\ N \in 0 .. N
    BY <1>1, <1>6
  <2>2. 0 \in G
    BY <1>2, <2>1
  <2>3. ASSUME NEW d \in 1 .. N, d - 1 \in G PROVE d \in G
    <3>1. d \in 0 .. N /\ u + d \in 1 .. n /\ u + (d - 1) = (u + d) - 1
      BY <1>1, <2>1
    <3> DEFINE k == u + d
    <3>2. off[u] <= off[k - 1]
      BY <2>3, <3>1
    <3>3. off[k] = off[k - 1] + Len(s[k]) /\ Len(s[k]) \in Nat /\ off[k] \in Nat /\ off[k - 1] \in Nat
      BY <1>2, <1>3, <1>5, <3>1
    <3>4. off[u] \in Nat
      BY <1>2
    <3> HIDE DEF k
    <3>5. off[u] <= off[k]
      BY <3>2, <3>3, <3>4
    <3>6. QED
      BY <3>1, <3>5 DEF k
  <2> HIDE DEF G, N
  <2>4. \A d \in 0 .. N : d \in G
    BY <2>1, <2>2, <2>3, AllAlong
  <2>5. N \in G
    BY <2>1, <2>4
  <2>6. QED
    BY <2>1, <2>5 DEF G
<1>7. ASSUME NEW p \in 1 .. off[n]
      PROVE  \E k \in 1 .. n : \E j \in 1 .. Len(s[k]) : p = off[k - 1] + j
  <2> DEFINE S == {k \in 0 .. n : p <= off[k]}
             k == Min(S)
  <2>1. off[n] \in Nat /\ p \in Nat /\ 1 <= p /\ p <= off[n]
    BY <1>1, <1>2
  <2>2. S \in SUBSET Nat /\ S # {}
    BY <1>1, <2>1
  <2> HIDE DEF S
  <2>3. k \in S /\ \A x \in S : k <= x
    BY <2>2, MinProps
  <2> HIDE DEF k
  <2>4. k \in 0 .. n /\ p <= off[k]
    BY <2>3 DEF S
  <2>5. k # 0
    BY <1>2, <2>1, <2>4
  <2>6. k \in 1 .. n /\ k - 1 \in 0 .. n /\ ~(k <= k - 1)
    BY <1>1, <2>4, <2>5
  <2>7. ~(p <= off[k - 1])
    BY <2>3, <2>6 DEF S
  <2> DEFINE j == p - off[k - 1]
  <2>8. off[k] = off[k - 1] + Len(s[k]) /\ Len(s[k]) \in Nat /\ off[k - 1] \in Nat
    BY <1>2, <1>3, <1>5, <2>6
  <2>9. j \in 1 .. Len(s[k]) /\ p = off[k - 1] + j
    BY <2>1, <2>4, <2>7, <2>8
  <2>10. QED
    BY <2>6, <2>9
<1>8. Placed(s, off)
  BY <1>7 DEF Placed, n
<1>9. QED
  BY <1>1, <1>2, <1>3, <1>5, <1>6, <1>8 DEF n

\* As far as the sequences are as long, the offsets are the same.
LEMMA SameOffsets ==
  ASSUME NEW s, Nested(s), NEW off, Offsets(s, off),
         NEW s1, Nested(s1), NEW off1, Offsets(s1, off1),
         NEW N \in Nat, N <= Len(s), N <= Len(s1),
         \A k \in 1 .. N : Len(s[k]) = Len(s1[k])
  PROVE  \A k \in 0 .. N : off[k] = off1[k]
<1> DEFINE G == {k \in 0 .. N : off[k] = off1[k]}
<1>1. /\ Len(s) \in Nat /\ off[0] = 0
      /\ \A k \in 1 .. Len(s) : off[k] = off[k - 1] + Len(s[k])
  BY OffsetPlaces
<1>2. /\ Len(s1) \in Nat /\ off1[0] = 0
      /\ \A k \in 1 .. Len(s1) : off1[k] = off1[k - 1] + Len(s1[k])
  BY OffsetPlaces
<1>3. 0 \in G
  BY <1>1, <1>2
<1>4. ASSUME NEW k \in 1 .. N, k - 1 \in G PROVE k \in G
  <2>1. k \in 0 .. N /\ k \in 1 .. Len(s) /\ k \in 1 .. Len(s1)
    BY <1>1, <1>2
  <2>2. off[k] = off1[k]
    BY <1>1, <1>2, <1>4, <2>1
  <2>3. QED
    BY <2>1, <2>2
<1> HIDE DEF G
<1>5. \A k \in 0 .. N : k \in G
  BY <1>3, <1>4, AllAlong
<1>6. QED
  BY <1>5 DEF G

\* FlattenSeq lays the sequences one after the other.
LEMMA FlattenLaid ==
  ASSUME NEW s, Nested(s), NEW off, Offsets(s, off)
  PROVE  /\ IsSeq(FlattenSeq(s)) /\ Len(FlattenSeq(s)) = off[Len(s)]
         /\ \A k \in 1 .. Len(s) : \A j \in 1 .. Len(s[k]) :
              FlattenSeq(s)[off[k - 1] + j] = s[k][j]
<1> DEFINE n == Len(s)
           T == UNION {Range(s[i]) : i \in DOMAIN s}
           g == CHOOSE h : Joined(s, h)
<1>1. /\ n \in Nat /\ DOMAIN s = 1 .. n /\ off[0] = 0
      /\ \A k \in 0 .. n : off[k] \in Nat
      /\ \A k \in 1 .. n : /\ off[k - 1] \in Nat /\ Len(s[k]) \in Nat
                           /\ off[k] = off[k - 1] + Len(s[k])
                           /\ DOMAIN s[k] = 1 .. Len(s[k])
      /\ \A u, v \in 0 .. n : u <= v => off[u] <= off[v]
  BY OffsetPlaces
<1>2. IsSeq(FlattenSeq(s))
  BY FlatSeqs DEF Nested
<1>3. CASE n = 0
  <2>1. FlattenSeq(s) = s
    BY <1>3 DEF FlattenSeq
  <2>2. Len(FlattenSeq(s)) = off[n] /\ ~(\E k : k \in 1 .. n)
    BY <1>1, <1>3, <2>1
  <2>3. QED
    BY <1>2, <2>2
<1>4. CASE n # 0
  <2>1. \A i \in 1 .. n : s[i] \in Seq(T)
    <3>1. ASSUME NEW i \in 1 .. n PROVE s[i] \in Seq(T)
      <4>1. Range(s[i]) \subseteq T /\ IsSeq(s[i])
        BY <1>1 DEF Nested
      <4> HIDE DEF T
      <4>2. QED
        BY <4>1, SeqOver
    <3>2. QED
      BY <3>1
  <2>2. Joined(s, g)
    BY <1>1, JoinedExists
  <2>3. FlattenSeq(s) = g[n]
    BY <1>4 DEF FlattenSeq, Joined
  <2> DEFINE Laid(k) ==
               /\ g[k] \in Seq(T) /\ Len(g[k]) = off[k]
               /\ \A i \in 1 .. k : \A j \in 1 .. Len(s[i]) : g[k][off[i - 1] + j] = s[i][j]
             G == {k \in 0 .. n - 1 : Laid(k + 1)}
  <2> HIDE DEF g, T, n
  <2>4. \A i \in 1 .. n : g[i] = IF i = 1 THEN s[i] ELSE g[i - 1] \o s[i]
    BY <2>2 DEF Joined, n
  <2>5. 0 \in G
    <3>1. 1 \in 1 .. n /\ 1 - 1 = 0
      BY <1>1, <1>4
    <3>2. g[1] = s[1] /\ s[1] \in Seq(T)
      BY <2>1, <2>4, <3>1
    <3>3. off[1] = off[0] + Len(s[1]) /\ Len(s[1]) \in Nat
      BY <1>1, <3>1
    <3>4. Laid(1)
      <4>1. \A i \in 1 .. 1 : i = 1
        OBVIOUS
      <4>2. \A j \in 1 .. Len(s[1]) : off[1 - 1] + j = j
        BY <1>1, <3>1
      <4>3. QED
        BY <1>1, <3>2, <3>3, <4>1, <4>2
    <3>5. 0 \in 0 .. n - 1 /\ 0 + 1 = 1
      BY <1>1, <1>4
    <3> HIDE DEF Laid
    <3>6. QED
      BY <3>4, <3>5
  <2>6. ASSUME NEW k \in 1 .. n - 1, k - 1 \in G PROVE k \in G
    <3>1. /\ k \in 1 .. n /\ k + 1 \in 1 .. n /\ k + 1 # 1 /\ (k + 1) - 1 = k /\ k \in 0 .. n - 1
          /\ (k - 1) + 1 = k
      BY <1>1
    <3>2. Laid(k)
      BY <2>6, <3>1
    <3> DEFINE u == g[k]
               v == s[k + 1]
               w == g[k + 1]
               p == off[k]
               l == Len(v)
    <3>3. w = u \o v /\ u \in Seq(T) /\ v \in Seq(T)
      BY <2>1, <2>4, <3>1, <3>2
    <3>4. /\ p \in Nat /\ Len(u) = p /\ l \in Nat /\ off[k + 1] = p + l
          /\ \A i \in 1 .. k : \A j \in 1 .. Len(s[i]) : u[off[i - 1] + j] = s[i][j]
      BY <1>1, <3>1, <3>2
    <3> HIDE DEF Laid, u, v, w, p, l
    <3>5. /\ w \in Seq(T) /\ Len(w) = p + l
          /\ \A j \in 1 .. p + l : w[j] = IF j <= p THEN u[j] ELSE v[j - p]
      BY <3>3, <3>4, ConcatProperties DEF l
    <3>6. ASSUME NEW i \in 1 .. k + 1, NEW j \in 1 .. Len(s[i])
          PROVE  w[off[i - 1] + j] = s[i][j]
      <4>1. CASE i \in 1 .. k
        <5> DEFINE a == off[i - 1]
                   b == off[i]
                   m == Len(s[i])
        <5>1. i \in 1 .. n /\ i \in 0 .. n /\ k \in 0 .. n /\ i <= k
          BY <1>1, <3>1, <4>1
        <5>2. a \in Nat /\ m \in Nat /\ b = a + m /\ b <= p
          BY <1>1, <5>1 DEF p
        <5>3. j \in 1 .. m
          OBVIOUS
        <5> HIDE DEF a, b, m
        <5>4. a + j \in 1 .. p + l /\ a + j <= p
          BY <3>4, <5>2, <5>3
        <5>5. w[a + j] = u[a + j]
          BY <3>5, <5>4
        <5>6. QED
          BY <3>4, <4>1, <5>5 DEF a
      <4>2. CASE i = k + 1
        <5>1. j \in 1 .. l /\ off[i - 1] = p
          BY <3>1, <4>2 DEF l, v, p
        <5>2. p + j \in 1 .. p + l /\ ~(p + j <= p) /\ (p + j) - p = j
          BY <3>4, <5>1
        <5>3. w[p + j] = v[j]
          BY <3>5, <5>2
        <5>4. QED
          BY <4>2, <5>1, <5>3 DEF v
      <4>3. i \in 1 .. k \/ i = k + 1
        BY <3>1
      <4>4. QED
        BY <4>1, <4>2, <4>3
    <3>7. Laid(k + 1)
      BY <3>4, <3>5, <3>6 DEF Laid, w
    <3>8. QED
      BY <3>1, <3>7
  <2>7. Laid(n)
    <3> DEFINE N == n - 1
    <3>1. N \in Nat /\ N \in 0 .. N /\ N + 1 = n /\ \A k \in 1 .. N : k - 1 \in G => k \in G
      BY <1>1, <1>4, <2>6
    <3>2. \A k \in G : Laid(k + 1)
      OBVIOUS
    <3> HIDE DEF G, Laid, N
    <3>3. \A k \in 0 .. N : k \in G
      BY <2>5, <3>1, AllAlong
    <3>4. QED
      BY <3>1, <3>2, <3>3
  <2>8. QED
    BY <1>2, <2>3, <2>7 DEF n
<1>5. QED
  BY <1>3, <1>4
-----------------------------------------------------------------------------
(* The stream of a request *)

\* A block without its annotation.
Bare(b, side) == [side |-> side, type |-> b.type, id |-> b.id, body |-> b.body]

\* The blocks of a turn, and their annotations.
BareRow(turn) == [i \in DOMAIN turn.content |-> Bare(turn.content[i], turn.side)]
MarkRow(turn) == [i \in DOMAIN turn.content |-> turn.content[i].cache]

\* What the turns add to the stream of a request.
TurnStream(turns) == FlattenSeq([k \in DOMAIN turns |-> BareRow(turns[k])])
TurnMarks(turns) == FlattenSeq([k \in DOMAIN turns |-> MarkRow(turns[k])])

\* The rendered segments of a request, and the blocks they hold.
Filled(f) ==
  IsSeq(f) /\ \A q \in DOMAIN f : f[q].blocks # <<>> /\ AreRendered(f[q].blocks)

Blocks(f) == [q \in DOMAIN f |-> f[q].blocks]

\* The blocks are a sequence of sequences.
LEMMA BlocksNested ==
  ASSUME NEW f, Filled(f)
  PROVE  /\ Len(f) \in Nat /\ DOMAIN f = 1 .. Len(f)
         /\ Nested(Blocks(f)) /\ Len(Blocks(f)) = Len(f)
         /\ \A q \in DOMAIN f : Blocks(f)[q] = f[q].blocks
<1> DEFINE n == Len(f)
           b == Blocks(f)
<1>1. n \in Nat /\ DOMAIN f = 1 .. n
  BY SeqIs DEF Filled
<1>2. DOMAIN b = 1 .. n /\ (\A q \in 1 .. n : b[q] = f[q].blocks) /\ b = [q \in 1 .. n |-> b[q]]
  BY <1>1 DEF Blocks
<1>3. \A q \in 1 .. n : IsSeq(f[q].blocks)
  BY <1>1 DEF Filled, AreRendered
<1> HIDE DEF b, n
<1>4. b \in [1 .. n -> Range(b)]
  BY <1>2 DEF Range
<1>5. b \in Seq(Range(b)) /\ Len(b) = n
  BY <1>1, <1>4, FcnIsSeq
<1>6. Nested(b)
  BY <1>2, <1>3, <1>5 DEF Nested, IsSeq
<1>7. QED
  BY <1>1, <1>2, <1>5, <1>6 DEF b, n

\* Rows as long as the runs.
RowsFit(rows, runs, from, c) ==
  /\ Nested(rows) /\ Len(rows) = Len(runs)
  /\ \A k \in DOMAIN runs : Len(rows[k]) = c[from[k + 1] - 1] - c[from[k] - 1]

\* Put together, they have a place for each block: it stands in the row of its
\* run, after what stands before it in the run.
RowsLie(rows, f, fb, runs, from, c) ==
  /\ IsSeq(FlattenSeq(rows)) /\ Len(FlattenSeq(rows)) = c[Len(f)]
  /\ \A k \in DOMAIN runs : \A q \in DOMAIN f : InRun(from, k, q) =>
       \A j \in 1 .. Len(fb[q]) :
         /\ c[q - 1] - c[from[k] - 1] + j \in DOMAIN rows[k]
         /\ FlattenSeq(rows)[c[q - 1] + j] = rows[k][c[q - 1] - c[from[k] - 1] + j]

\* Rows that fit lie like that.
LEMMA RowsLaid ==
  ASSUME NEW f, IsSeq(f), NEW runs, NEW from, Cuts(f, runs, from),
         NEW fb, Nested(fb), Len(fb) = Len(f), NEW c, Offsets(fb, c),
         NEW rows, RowsFit(rows, runs, from, c)
  PROVE  RowsLie(rows, f, fb, runs, from, c)
<1> DEFINE N == Len(f)
           n == Len(runs)
           O == [k \in 0 .. n |-> c[from[k + 1] - 1]]
<1>1. /\ N \in Nat /\ DOMAIN f = 1 .. N /\ n \in Nat /\ DOMAIN runs = 1 .. n
      /\ from[1] = 1 /\ from[n + 1] = N + 1
      /\ \A k \in 1 .. n : from[k] \in 1 .. N + 1 /\ from[k + 1] \in 1 .. N + 1 /\ from[k] < from[k + 1]
  BY CutFacts
<1>2. /\ c[0] = 0 /\ \A u \in 0 .. N : c[u] \in Nat
      /\ \A u \in 1 .. N : /\ c[u - 1] \in Nat /\ Len(fb[u]) \in Nat
                           /\ c[u] = c[u - 1] + Len(fb[u])
      /\ \A u, v \in 0 .. N : u <= v => c[u] <= c[v]
  BY OffsetPlaces
<1>3. /\ Nested(rows) /\ Len(rows) = n
      /\ \A k \in 1 .. n : Len(rows[k]) = c[from[k + 1] - 1] - c[from[k] - 1]
  BY <1>1 DEF RowsFit
<1>4. \A k \in 1 .. n : Len(rows[k]) \in Nat /\ DOMAIN rows[k] = 1 .. Len(rows[k])
  BY <1>3, SeqIs DEF Nested
<1> HIDE DEF N, n
<1>5. \A k \in 0 .. n : k + 1 \in 1 .. n + 1 /\ from[k + 1] - 1 \in 0 .. N
  <2>1. ASSUME NEW k \in 0 .. n PROVE from[k + 1] - 1 \in 0 .. N
    <3>1. CASE k = 0
      <4>1. k + 1 = 1 /\ 1 - 1 \in 0 .. N
        BY <1>1, <3>1
      <4>2. QED
        BY <1>1, <4>1
    <3>2. CASE k # 0
      <4>1. k \in 1 .. n
        BY <1>1, <3>2
      <4>2. from[k + 1] \in 1 .. N + 1
        BY <1>1, <4>1
      <4>3. QED
        BY <1>1, <4>2
    <3>3. QED
      BY <3>1, <3>2
  <2>2. QED
    BY <1>1, <2>1
<1>6. /\ \A k \in 0 .. n : O[k] = c[from[k + 1] - 1] /\ O[k] \in Nat
      /\ O = [k \in 0 .. n |-> O[k]]
  BY <1>2, <1>5
<1>7. \A k \in 1 .. n : k - 1 \in 0 .. n /\ k \in 0 .. n /\ O[k - 1] = c[from[k] - 1]
  <2>1. \A k \in 1 .. n : k - 1 \in 0 .. n /\ k \in 0 .. n /\ (k - 1) + 1 = k
    BY <1>1
  <2> HIDE DEF O
  <2>2. QED
    BY <1>6, <2>1
<1> HIDE DEF O
<1>8. Offsets(rows, O)
  <2>1. O \in [0 .. n -> Nat]
    BY <1>6
  <2>2. O[0] = 0
    <3>1. 0 \in 0 .. n /\ 0 + 1 = 1 /\ 1 - 1 = 0
      BY <1>1
    <3>2. QED
      BY <1>1, <1>2, <1>6, <3>1
  <2>3. ASSUME NEW k \in 1 .. n PROVE O[k] = O[k - 1] + Len(rows[k])
    <3>1. O[k] = c[from[k + 1] - 1] /\ O[k - 1] = c[from[k] - 1] /\ O[k] \in Nat /\ O[k - 1] \in Nat
      BY <1>6, <1>7
    <3>2. Len(rows[k]) = O[k] - O[k - 1]
      BY <1>3, <3>1
    <3>3. QED
      BY <3>1, <3>2
  <2>4. QED
    BY <1>3, <2>1, <2>2, <2>3 DEF Offsets
<1>9. /\ IsSeq(FlattenSeq(rows)) /\ Len(FlattenSeq(rows)) = O[n]
      /\ \A k \in 1 .. n : \A j \in 1 .. Len(rows[k]) :
           FlattenSeq(rows)[O[k - 1] + j] = rows[k][j]
  BY <1>3, <1>8, FlattenLaid
<1>10. O[n] = c[N]
  <2>1. n \in 0 .. n /\ N + 1 - 1 = N
    BY <1>1
  <2>2. QED
    BY <1>1, <1>6, <2>1
<1>11. ASSUME NEW k \in 1 .. n, NEW q \in 1 .. N, InRun(from, k, q), NEW j \in 1 .. Len(fb[q])
       PROVE  /\ c[q - 1] - c[from[k] - 1] + j \in DOMAIN rows[k]
              /\ FlattenSeq(rows)[c[q - 1] + j] = rows[k][c[q - 1] - c[from[k] - 1] + j]
  <2> DEFINE a == from[k] - 1
             b == from[k + 1] - 1
             x == c[q - 1] - c[a] + j
  <2>1. a \in 0 .. N /\ b \in 0 .. N /\ q - 1 \in 0 .. N /\ q \in 0 .. N /\ a <= q - 1 /\ q <= b
    <3>1. from[k] \in 1 .. N + 1 /\ from[k + 1] \in 1 .. N + 1 /\ from[k] <= q /\ q < from[k + 1]
      BY <1>1, <1>11 DEF InRun
    <3>2. \A u, v \in 1 .. N + 1 : u <= q /\ q < v =>
            /\ u - 1 \in 0 .. N /\ v - 1 \in 0 .. N /\ q - 1 \in 0 .. N /\ q \in 0 .. N
            /\ u - 1 <= q - 1 /\ q <= v - 1
      BY <1>1
    <3>3. QED
      BY <3>1, <3>2
  <2>2. O[k - 1] = c[a] /\ Len(rows[k]) = c[b] - c[a] /\ Len(rows[k]) \in Nat
        /\ DOMAIN rows[k] = 1 .. Len(rows[k])
    BY <1>3, <1>4, <1>7
  <2> HIDE DEF a, b
  <2>3. c[a] <= c[q - 1] /\ c[q] <= c[b] /\ c[a] \in Nat /\ c[b] \in Nat
        /\ c[q - 1] \in Nat /\ c[q] = c[q - 1] + Len(fb[q]) /\ Len(fb[q]) \in Nat
    BY <1>2, <2>1
  <2> DEFINE ca == c[a]
             cb == c[b]
             cq == c[q - 1]
             l  == Len(fb[q])
             d  == Len(rows[k])
  <2>4. /\ ca <= cq /\ cq + l <= cb /\ ca \in Nat /\ cb \in Nat /\ cq \in Nat /\ l \in Nat
        /\ d = cb - ca /\ j \in 1 .. l
    BY <2>2, <2>3
  <2> HIDE DEF ca, cb, cq, l, d
  <2>5. cq - ca + j \in 1 .. d /\ ca + (cq - ca + j) = cq + j
    BY <2>4
  <2>6. x \in 1 .. Len(rows[k]) /\ O[k - 1] + x = c[q - 1] + j
    BY <2>2, <2>5 DEF ca, cq, d
  <2> HIDE DEF x
  <2>7. FlattenSeq(rows)[O[k - 1] + x] = rows[k][x]
    BY <1>9, <2>6
  <2>8. QED
    BY <2>2, <2>6, <2>7 DEF x, a
<1>12. \A k \in DOMAIN runs : \A q \in DOMAIN f : InRun(from, k, q) =>
         \A j \in 1 .. Len(fb[q]) :
           /\ c[q - 1] - c[from[k] - 1] + j \in DOMAIN rows[k]
           /\ FlattenSeq(rows)[c[q - 1] + j] = rows[k][c[q - 1] - c[from[k] - 1] + j]
  BY <1>1, <1>11
<1>13. QED
  BY <1>9, <1>10, <1>12 DEF N, RowsLie

\* What a run puts together, place by place.
LEMMA RunLaid ==
  ASSUME NEW f, Filled(f), NEW runs, NEW from, Cuts(f, runs, from),
         NEW c, Offsets(Blocks(f), c), NEW k \in DOMAIN runs
  PROVE  /\ IsSeq(Content(runs[k]))
         /\ Len(Content(runs[k])) = c[from[k + 1] - 1] - c[from[k] - 1]
         /\ \A q \in DOMAIN f : InRun(from, k, q) => \A j \in 1 .. Len(f[q].blocks) :
              Content(runs[k])[c[q - 1] - c[from[k] - 1] + j]
                = CacheLast(f[q].blocks, f[q].cache)[j]
<1> DEFINE N == Len(f)
           run == runs[k]
           a == from[k]
           z == from[k + 1]
           l == z - a
           piece == [i \in DOMAIN run |-> CacheLast(run[i].blocks, run[i].cache)]
           o == [i \in 0 .. l |-> c[a - 1 + i] - c[a - 1]]
<1>1. /\ N \in Nat /\ DOMAIN f = 1 .. N /\ Nested(Blocks(f)) /\ Len(Blocks(f)) = N
      /\ \A q \in 1 .. N : Blocks(f)[q] = f[q].blocks
  BY BlocksNested
<1>2. /\ a \in 1 .. N + 1 /\ z \in 1 .. N + 1 /\ a < z
      /\ DOMAIN run = 1 .. l /\ IsSeq(run)
      /\ \A i \in 1 .. l : run[i] = f[a + i - 1]
  <2>1. IsSeq(f)
    BY DEF Filled
  <2>2. DOMAIN runs = 1 .. Len(runs)
    BY <2>1, CutFacts
  <2> DEFINE w(x) ==
        /\ from[x] \in 1 .. Len(f) + 1 /\ from[x + 1] \in 1 .. Len(f) + 1
        /\ from[x] < from[x + 1]
        /\ Len(runs[x]) = from[x + 1] - from[x]
        /\ DOMAIN runs[x] = 1 .. from[x + 1] - from[x] /\ IsSeq(runs[x])
        /\ \A i \in 1 .. from[x + 1] - from[x] : runs[x][i] = f[from[x] + i - 1]
  <2>3. \A x \in 1 .. Len(runs) : w(x)
    BY <2>1, CutFacts
  <2> HIDE DEF w
  <2>4. w(k)
    BY <2>2, <2>3
  <2>5. QED
    BY <2>4 DEF w
<1>3. /\ \A u \in 0 .. N : c[u] \in Nat
      /\ \A u \in 1 .. N : /\ c[u - 1] \in Nat /\ Len(f[u].blocks) \in Nat
                           /\ c[u] = c[u - 1] + Len(f[u].blocks)
      /\ \A u, v \in 0 .. N : u <= v => c[u] <= c[v]
  <2>1. /\ \A u \in 0 .. N : c[u] \in Nat
        /\ \A u \in 1 .. N : /\ c[u - 1] \in Nat /\ Len(Blocks(f)[u]) \in Nat
                             /\ c[u] = c[u - 1] + Len(Blocks(f)[u])
        /\ \A u, v \in 0 .. N : u <= v => c[u] <= c[v]
    BY <1>1, OffsetPlaces
  <2>2. QED
    BY <1>1, <2>1
<1>4. Content(run) = FlattenSeq(piece)
  BY DEF Content
<1>5. DOMAIN piece = 1 .. l /\ piece = [i \in 1 .. l |-> piece[i]]
      /\ \A i \in 1 .. l : piece[i] = CacheLast(run[i].blocks, run[i].cache)
  BY <1>2
<1>6. /\ \A i \in 0 .. l : o[i] = c[a - 1 + i] - c[a - 1]
      /\ o = [i \in 0 .. l |-> o[i]]
  OBVIOUS
<1> HIDE DEF N, run, a, z, piece, o
<1>7. /\ l \in Nat /\ a - 1 + l = z - 1
      /\ \A i \in 1 .. l : /\ a + i - 1 \in 1 .. N /\ i - 1 \in 0 .. l /\ i \in 0 .. l
                           /\ a - 1 + i = a + i - 1 /\ a - 1 + (i - 1) = (a + i - 1) - 1
      /\ \A i \in 0 .. l : a - 1 + i \in 0 .. N /\ a - 1 <= a - 1 + i
      /\ a - 1 \in 0 .. N
  BY <1>1, <1>2
<1> HIDE DEF l
<1>8. ASSUME NEW i \in 1 .. l
      PROVE  /\ piece[i] = CacheLast(f[a + i - 1].blocks, f[a + i - 1].cache)
             /\ IsSeq(piece[i]) /\ Len(piece[i]) = Len(f[a + i - 1].blocks)
  <2> DEFINE m == f[a + i - 1]
             r == CacheLast(m.blocks, m.cache)
  <2>1. m.blocks # <<>> /\ AreRendered(m.blocks)
    BY <1>1, <1>7 DEF Filled
  <2>2. piece[i] = r
    BY <1>2, <1>5
  <2> HIDE DEF m
  <2>3. AreRendered(r) /\ Len(r) = Len(m.blocks)
    BY <2>1, Cached
  <2> HIDE DEF r
  <2>4. QED
    BY <2>2, <2>3 DEF AreRendered, r, m
<1>9. Nested(piece) /\ Len(piece) = l
  <2>1. piece \in [1 .. l -> Range(piece)]
    BY <1>5 DEF Range
  <2>2. piece \in Seq(Range(piece)) /\ Len(piece) = l
    BY <1>7, <2>1, FcnIsSeq
  <2>3. QED
    BY <1>5, <1>8, <2>2 DEF Nested, IsSeq
<1>10. Offsets(piece, o)
  <2>1. ASSUME NEW i \in 0 .. l PROVE o[i] \in Nat
    <3>1. c[a - 1 + i] \in Nat /\ c[a - 1] \in Nat /\ c[a - 1] <= c[a - 1 + i]
      <4> DEFINE u == a - 1 + i
                 v == a - 1
      <4>1. u \in 0 .. N
        BY <1>7
      <4>2. v \in 0 .. N
        BY <1>7
      <4>3. v <= u
        BY <1>7
      <4> HIDE DEF u, v
      <4>4. c[u] \in Nat /\ c[v] \in Nat /\ c[v] <= c[u]
        BY <1>3, <4>1, <4>2, <4>3
      <4>5. QED
        BY <4>4 DEF u, v
    <3>2. QED
      BY <1>6, <3>1
  <2>2. o \in [0 .. l -> Nat]
    BY <1>6, <2>1
  <2>3. o[0] = 0
    <3>1. 0 \in 0 .. l /\ a - 1 + 0 = a - 1 /\ c[a - 1] \in Nat
      <4>1. a \in Nat /\ l \in Nat
        BY <1>1, <1>2, <1>7
      <4>2. c[a - 1] \in Nat
        BY <1>3, <1>7
      <4>3. QED
        BY <4>1, <4>2
    <3>2. QED
      BY <1>6, <3>1
  <2>4. ASSUME NEW i \in 1 .. l PROVE o[i] = o[i - 1] + Len(piece[i])
    <3> DEFINE u == a + i - 1
    <3>1. /\ u \in 1 .. N /\ i - 1 \in 0 .. l /\ i \in 0 .. l
          /\ a - 1 + i = u /\ a - 1 + (i - 1) = u - 1
      BY <1>7
    <3> HIDE DEF u
    <3>2. o[i] = c[u] - c[a - 1] /\ o[i - 1] = c[u - 1] - c[a - 1]
      BY <1>6, <3>1
    <3>3. c[u] = c[u - 1] + Len(f[u].blocks) /\ c[u - 1] \in Nat /\ Len(f[u].blocks) \in Nat
          /\ c[a - 1] \in Nat
      BY <1>3, <1>7, <3>1
    <3>4. Len(piece[i]) = Len(f[u].blocks)
      BY <1>8 DEF u
    <3>5. QED
      BY <3>2, <3>3, <3>4
  <2>5. QED
    BY <1>9, <2>2, <2>3, <2>4 DEF Offsets
<1>11. /\ IsSeq(FlattenSeq(piece)) /\ Len(FlattenSeq(piece)) = o[l]
       /\ \A i \in 1 .. l : \A j \in 1 .. Len(piece[i]) :
            FlattenSeq(piece)[o[i - 1] + j] = piece[i][j]
  BY <1>9, <1>10, FlattenLaid
<1>12. o[l] = c[z - 1] - c[a - 1]
  <2>1. l \in 0 .. l
    BY <1>7
  <2>2. QED
    BY <1>6, <1>7, <2>1
<1>13. ASSUME NEW q \in 1 .. N, InRun(from, k, q), NEW j \in 1 .. Len(f[q].blocks)
       PROVE  Content(run)[c[q - 1] - c[a - 1] + j] = CacheLast(f[q].blocks, f[q].cache)[j]
  <2> DEFINE i == q - a + 1
  <2>1. i \in 1 .. l /\ a + i - 1 = q /\ i - 1 \in 0 .. l /\ a - 1 + (i - 1) = q - 1
    <3>1. a <= q /\ q < z
      BY <1>13 DEF InRun, a, z
    <3>2. QED
      BY <1>1, <1>2, <3>1 DEF l
  <2> HIDE DEF i
  <2>2. o[i - 1] = c[q - 1] - c[a - 1]
    BY <1>6, <2>1
  <2>3. piece[i] = CacheLast(f[q].blocks, f[q].cache) /\ Len(piece[i]) = Len(f[q].blocks)
    BY <1>8, <2>1
  <2>4. FlattenSeq(piece)[o[i - 1] + j] = piece[i][j]
    BY <1>11, <2>1, <2>3
  <2>5. QED
    BY <1>4, <2>2, <2>3, <2>4
<1>14. QED
  BY <1>1, <1>4, <1>11, <1>12, <1>13 DEF run, a, z, N

\* The turns that rendered segments are put together to.
TurnsOf(f) ==
  LET runs == SideRuns(f)
  IN  [k \in DOMAIN runs |-> [side |-> runs[k][1].side, content |-> Content(runs[k])]]

\* Where the stream shows a rendered segment: behind all blocks of those before it.
LEMMA StreamLaid ==
  ASSUME NEW f, Filled(f), NEW c, Offsets(Blocks(f), c)
  PROVE  LET turns == TurnsOf(f)
         IN  /\ IsSeq(TurnStream(turns)) /\ Len(TurnStream(turns)) = c[Len(f)]
             /\ IsSeq(TurnMarks(turns)) /\ Len(TurnMarks(turns)) = c[Len(f)]
             /\ \A q \in DOMAIN f : \A j \in 1 .. Len(f[q].blocks) :
                  /\ TurnStream(turns)[c[q - 1] + j] = Bare(f[q].blocks[j], f[q].side)
                  /\ TurnMarks(turns)[c[q - 1] + j]
                       = CacheLast(f[q].blocks, f[q].cache)[j].cache
<1> DEFINE runs == SideRuns(f)
           turns == TurnsOf(f)
           n == Len(runs)
           bare == [k \in DOMAIN turns |-> BareRow(turns[k])]
           mark == [k \in DOMAIN turns |-> MarkRow(turns[k])]
<1>1. /\ IsSeq(f)
      /\ Nested(Blocks(f)) /\ Len(Blocks(f)) = Len(f)
      /\ \A q \in DOMAIN f : Blocks(f)[q] = f[q].blocks
  BY BlocksNested DEF Filled
<1>2. PICK from : Cuts(f, runs, from) /\ AtChanges(f, runs, from)
  BY <1>1, RunsCut
<1>3. TurnStream(turns) = FlattenSeq(bare) /\ TurnMarks(turns) = FlattenSeq(mark)
  BY DEF TurnStream, TurnMarks
<1> HIDE DEF runs, n
<1>4. n \in Nat /\ DOMAIN runs = 1 .. n
  BY <1>1, <1>2, CutFacts DEF n
<1>5. \A k \in DOMAIN runs :
        /\ IsSeq(Content(runs[k]))
        /\ Len(Content(runs[k])) = c[from[k + 1] - 1] - c[from[k] - 1]
        /\ \A q \in DOMAIN f : InRun(from, k, q) => \A j \in 1 .. Len(f[q].blocks) :
             Content(runs[k])[c[q - 1] - c[from[k] - 1] + j]
               = CacheLast(f[q].blocks, f[q].cache)[j]
  BY <1>2, RunLaid
<1>6. /\ DOMAIN bare = 1 .. n /\ bare = [k \in 1 .. n |-> bare[k]]
      /\ DOMAIN mark = 1 .. n /\ mark = [k \in 1 .. n |-> mark[k]]
      /\ \A k \in 1 .. n :
           /\ bare[k] = [i \in DOMAIN Content(runs[k]) |->
                           Bare(Content(runs[k])[i], runs[k][1].side)]
           /\ mark[k] = [i \in DOMAIN Content(runs[k]) |-> Content(runs[k])[i].cache]
  BY <1>4 DEF BareRow, MarkRow, TurnsOf, runs
<1> HIDE DEF turns, bare, mark
<1>7. ASSUME NEW k \in 1 .. n
      PROVE  /\ IsSeq(bare[k]) /\ Len(bare[k]) = Len(Content(runs[k]))
             /\ IsSeq(mark[k]) /\ Len(mark[k]) = Len(Content(runs[k]))
  <2> DEFINE x == Content(runs[k])
             l == Len(x)
             b == [i \in DOMAIN x |-> Bare(x[i], runs[k][1].side)]
             m == [i \in DOMAIN x |-> x[i].cache]
  <2>1. l \in Nat /\ DOMAIN x = 1 .. l
    BY <1>4, <1>5, SeqIs
  <2>2. bare[k] = b /\ mark[k] = m
    BY <1>6
  <2>3. b \in [1 .. l -> Range(b)] /\ m \in [1 .. l -> Range(m)]
    BY <2>1 DEF Range
  <2> HIDE DEF b, m, l
  <2>4. b \in Seq(Range(b)) /\ Len(b) = l /\ m \in Seq(Range(m)) /\ Len(m) = l
    BY <2>1, <2>3, FcnIsSeq
  <2>5. QED
    BY <2>2, <2>4 DEF IsSeq, l
<1>8. Nested(bare) /\ Len(bare) = n /\ Nested(mark) /\ Len(mark) = n
  <2>1. bare \in [1 .. n -> Range(bare)] /\ mark \in [1 .. n -> Range(mark)]
    BY <1>6 DEF Range
  <2>2. bare \in Seq(Range(bare)) /\ Len(bare) = n /\ mark \in Seq(Range(mark)) /\ Len(mark) = n
    BY <1>4, <2>1, FcnIsSeq
  <2>3. QED
    BY <1>6, <1>7, <2>2 DEF Nested, IsSeq
<1>9. \A k \in DOMAIN runs : /\ Len(bare[k]) = c[from[k + 1] - 1] - c[from[k] - 1]
                             /\ Len(mark[k]) = c[from[k + 1] - 1] - c[from[k] - 1]
  BY <1>4, <1>5, <1>7
<1> DEFINE fb == Blocks(f)
<1>10. Nested(fb) /\ Len(fb) = Len(f) /\ Offsets(fb, c)
  BY <1>1
<1> HIDE DEF fb
<1>11. RowsLie(bare, f, fb, runs, from, c) /\ RowsLie(mark, f, fb, runs, from, c)
  <2>1. RowsFit(bare, runs, from, c) /\ RowsFit(mark, runs, from, c)
    BY <1>8, <1>9 DEF RowsFit, n
  <2>2. QED
    BY <1>1, <1>2, <1>10, <2>1, RowsLaid
<1>12. /\ IsSeq(FlattenSeq(bare)) /\ Len(FlattenSeq(bare)) = c[Len(f)]
       /\ IsSeq(FlattenSeq(mark)) /\ Len(FlattenSeq(mark)) = c[Len(f)]
  BY <1>11 DEF RowsLie
<1>13. ASSUME NEW q \in DOMAIN f, NEW j \in 1 .. Len(f[q].blocks)
       PROVE  /\ FlattenSeq(bare)[c[q - 1] + j] = Bare(f[q].blocks[j], f[q].side)
              /\ FlattenSeq(mark)[c[q - 1] + j]
                   = CacheLast(f[q].blocks, f[q].cache)[j].cache
  <2>1. PICK k \in DOMAIN runs : InRun(from, k, q)
    BY <1>1, <1>2, RunOf
  <2> DEFINE x  == c[q - 1] - c[from[k] - 1] + j
             cr == Content(runs[k])
             bs == f[q].blocks
             cl == CacheLast(bs, f[q].cache)
  <2>2. /\ x \in DOMAIN bare[k] /\ FlattenSeq(bare)[c[q - 1] + j] = bare[k][x]
        /\ x \in DOMAIN mark[k] /\ FlattenSeq(mark)[c[q - 1] + j] = mark[k][x]
    <3>1. j \in 1 .. Len(fb[q])
      BY <1>1 DEF fb
    <3>2. QED
      BY <1>11, <2>1, <3>1 DEF RowsLie
  <2>3. cr[x] = cl[j]
    BY <1>5, <2>1
  <2>4. runs[k][1].side = f[q].side
    <3>1. q - from[k] + 1 \in DOMAIN runs[k] /\ runs[k][q - from[k] + 1] = f[q]
      BY <1>1, <1>2, <2>1, RunPlaces
    <3>2. \A i \in DOMAIN runs[k] : runs[k][i].side = runs[k][1].side
      BY <1>1, <1>2, <2>1, RunSides
    <3>3. QED
      BY <3>1, <3>2
  <2>5. cl[j].type = bs[j].type /\ cl[j].id = bs[j].id /\ cl[j].body = bs[j].body
    <3>1. bs # <<>> /\ AreRendered(bs) /\ DOMAIN bs = 1 .. Len(bs)
      BY SeqIs DEF Filled, AreRendered
    <3> HIDE DEF bs, cl
    <3>2. /\ DOMAIN CacheLast(bs, f[q].cache) = DOMAIN bs
          /\ \A i \in DOMAIN CacheLast(bs, f[q].cache) :
               /\ CacheLast(bs, f[q].cache)[i].type = bs[i].type
               /\ CacheLast(bs, f[q].cache)[i].id = bs[i].id
               /\ CacheLast(bs, f[q].cache)[i].body = bs[i].body
      BY <3>1, Cached
    <3>3. j \in DOMAIN bs
      BY <3>1 DEF bs
    <3>4. QED
      BY <3>2, <3>3 DEF cl
  <2>6. /\ bare[k] = [i \in DOMAIN cr |-> Bare(cr[i], runs[k][1].side)]
        /\ mark[k] = [i \in DOMAIN cr |-> cr[i].cache]
    BY <1>4, <1>6, <2>1
  <2> HIDE DEF x, cr, cl
  <2>7. bare[k][x] = Bare(cr[x], runs[k][1].side) /\ mark[k][x] = cr[x].cache
    BY <2>2, <2>6
  <2>8. bare[k][x] = Bare(bs[j], f[q].side) /\ mark[k][x] = cl[j].cache
    BY <2>3, <2>4, <2>5, <2>7 DEF Bare
  <2>9. QED
    BY <2>2, <2>8 DEF cl
<1>14. QED
  BY <1>3, <1>12, <1>13 DEF runs, turns

\* Only a breakpoint annotates a block.
LEMMA Unmarked ==
  ASSUME NEW segs, NEW k, IsSeq(segs[k].blocks)
  PROVE  \A b \in Range(RenderSegment(segs, k).blocks) : b.cache = FALSE
<1> DEFINE bs == segs[k].blocks
           answered == AnswersAfter(segs, k)
           pending == CallsBefore(segs, k)
<1>1. \A b : RenderBlock(b).cache = FALSE /\ Linearized(b).cache = FALSE
             /\ ToolResultText(b).cache = FALSE
  <2>1. \A t, i, y : Rendered(t, i, y).cache = FALSE
    BY DEF Rendered
  <2>2. ASSUME NEW b PROVE RenderBlock(b).cache = FALSE
    <3>1. \E t, i, y : RenderBlock(b) = Rendered(t, i, y)
      <4>1. CASE b.kind = "use"
        BY <4>1 DEF RenderBlock
      <4>2. CASE b.kind = "result"
        BY <4>2 DEF RenderBlock
      <4>3. CASE b.kind = "image"
        BY <4>3 DEF RenderBlock
      <4>4. CASE b.kind \notin {"use", "result", "image"}
        BY <4>4 DEF RenderBlock
      <4>5. QED
        BY <4>1, <4>2, <4>3, <4>4
    <3>2. QED
      BY <2>1, <3>1
  <2>3. \A b : Linearized(b).cache = FALSE
    BY <2>1 DEF Linearized
  <2>4. \A b : ToolResultText(b).cache = FALSE
    BY <2>1 DEF ToolResultText
  <2>5. QED
    BY <2>2, <2>3, <2>4
<1>2. ASSUME NEW b \in Range(RenderAssistantSegment(bs, answered)) PROVE b.cache = FALSE
  <2>1. \E i : b = Linearized(bs[i]) \/ b = RenderBlock(bs[i])
    BY DEF RenderAssistantSegment, Range
  <2>2. QED
    BY <1>1, <2>1
<1>3. ASSUME NEW b \in Range(RenderUserSegment(bs, pending)) PROVE b.cache = FALSE
  <2> DEFINE native  == NativeResults(bs, pending)
             results == Sub(bs, native)
             others  == Sub(bs, DOMAIN bs \ native)
             other(x) == CASE x.kind = "result" -> ToolResultText(x)
                           [] x.kind = "use"    -> Linearized(x)
                           [] OTHER             -> RenderBlock(x)
             front == [i \in DOMAIN results |-> RenderBlock(results[i])]
             back  == [i \in DOMAIN others |-> other(others[i])]
             T == Range(front) \cup Range(back)
  <2>1. RenderUserSegment(bs, pending) = front \o back
    BY DEF RenderUserSegment
  <2>2. native \in SUBSET DOMAIN bs /\ DOMAIN bs \ native \in SUBSET DOMAIN bs
    BY DEF NativeResults
  <2>3. IsSeq(results) /\ IsSeq(others)
    <3> HIDE DEF native
    <3>1. QED
      BY <2>2, SubFacts
  <2>4. \A x : other(x).cache = FALSE
    <3>1. \A x : other(x) \in {ToolResultText(x), Linearized(x), RenderBlock(x)}
      OBVIOUS
    <3> HIDE DEF other
    <3>2. QED
      BY <1>1, <3>1
  <2> HIDE DEF results, others, other
  <2>5. front \in Seq(T) /\ back \in Seq(T)
    <3>1. ASSUME NEW g, NEW m, m \in Nat, DOMAIN g = 1 .. m, g = [i \in 1 .. m |-> g[i]]
          PROVE  g \in Seq(Range(g))
      <4>1. g \in [1 .. m -> Range(g)]
        BY <3>1 DEF Range
      <4>2. QED
        BY <3>1, <4>1, FcnIsSeq
    <3>2. Len(results) \in Nat /\ DOMAIN results = 1 .. Len(results)
          /\ Len(others) \in Nat /\ DOMAIN others = 1 .. Len(others)
      BY <2>3, SeqIs
    <3>3. /\ DOMAIN front = 1 .. Len(results) /\ front = [i \in 1 .. Len(results) |-> front[i]]
          /\ DOMAIN back = 1 .. Len(others) /\ back = [i \in 1 .. Len(others) |-> back[i]]
      BY <3>2
    <3> HIDE DEF front, back
    <3>4. front \in Seq(Range(front)) /\ back \in Seq(Range(back))
      BY <3>1, <3>2, <3>3
    <3>5. IsSeq(front) /\ IsSeq(back) /\ Range(front) \subseteq T /\ Range(back) \subseteq T
      BY <3>4 DEF IsSeq
    <3> HIDE DEF T
    <3>6. QED
      BY <3>5, SeqOver
  <2>6. \A x \in Range(front) \cup Range(back) : x.cache = FALSE
    BY <1>1, <2>4 DEF Range
  <2> HIDE DEF front, back, T
  <2>7. b \in Range(front) \/ b \in Range(back)
    BY <2>1, <2>5, ConcatRange
  <2>8. QED
    BY <2>6, <2>7
<1>4. RenderSegment(segs, k).blocks = RenderAssistantSegment(bs, answered)
      \/ RenderSegment(segs, k).blocks = RenderUserSegment(bs, pending)
  BY DEF RenderSegment
<1> HIDE DEF bs, answered, pending
<1>5. QED
  BY <1>2, <1>3, <1>4
-----------------------------------------------------------------------------
(* Two prompts that begin alike *)

\* The cuts, with the sides on either side of each.
LEMMA CutSides ==
  ASSUME NEW s, IsSeq(s), NEW runs, NEW from, Cuts(s, runs, from), AtChanges(s, runs, from)
  PROVE  \A x \in 1 .. Len(runs) :
           /\ from[x] \in 1 .. Len(s) /\ from[x + 1] \in 1 .. Len(s) + 1 /\ from[x] < from[x + 1]
           /\ from[x + 1] <= Len(s) => /\ x + 1 \in 1 .. Len(runs)
                                       /\ s[from[x + 1]].side # s[from[x + 1] - 1].side
           /\ \A p \in from[x] + 1 .. from[x + 1] - 1 : s[p].side = s[p - 1].side
<1> DEFINE n == Len(runs)
           N == Len(s)
<1>1. /\ N \in Nat /\ n \in Nat /\ DOMAIN runs = 1 .. n /\ from[n + 1] = N + 1
      /\ \A x \in 1 .. n : from[x] \in 1 .. N + 1 /\ from[x + 1] \in 1 .. N + 1 /\ from[x] < from[x + 1]
  BY CutFacts
<1> HIDE DEF n, N
<1>2. ASSUME NEW x \in 1 .. n
      PROVE  /\ from[x] \in 1 .. N /\ from[x + 1] \in 1 .. N + 1 /\ from[x] < from[x + 1]
             /\ from[x + 1] <= N => /\ x + 1 \in 1 .. n
                                    /\ s[from[x + 1]].side # s[from[x + 1] - 1].side
             /\ \A p \in from[x] + 1 .. from[x + 1] - 1 : s[p].side = s[p - 1].side
  <2>1. from[x] \in 1 .. N + 1 /\ from[x + 1] \in 1 .. N + 1 /\ from[x] < from[x + 1]
    BY <1>1
  <2>2. from[x] \in 1 .. N
    BY <1>1, <2>1
  <2>3. ASSUME from[x + 1] <= N
        PROVE  /\ x + 1 \in 1 .. n
               /\ s[from[x + 1]].side # s[from[x + 1] - 1].side
    <3>1. x # n
      BY <1>1, <2>3
    <3>2. x + 1 \in DOMAIN runs /\ x + 1 > 1 /\ x + 1 \in 1 .. n
      BY <1>1, <3>1
    <3>3. QED
      BY <3>2 DEF AtChanges
  <2>4. \A p \in from[x] + 1 .. from[x + 1] - 1 : s[p].side = s[p - 1].side
    BY <1>1 DEF AtChanges
  <2>5. QED
    BY <2>1, <2>2, <2>3, <2>4
<1>3. QED
  BY <1>2 DEF n, N

\* Run k ends with element z, and up to the next one the sides are the same.
SameStart(s, runs, from, s1, z, k) ==
  /\ z \in Nat /\ z + 1 <= Len(s) /\ z + 1 <= Len(s1)
  /\ \A q \in 1 .. z + 1 : s1[q].side = s[q].side
  /\ k \in DOMAIN runs /\ from[k + 1] = z + 1

\* The runs of two sequences with the same sides are the same, up to a place
\* where the side changes.
LEMMA CutsAgree ==
  ASSUME NEW s, IsSeq(s), NEW runs, NEW from, Cuts(s, runs, from), AtChanges(s, runs, from),
         NEW s1, IsSeq(s1), NEW runs1, NEW from1, Cuts(s1, runs1, from1),
         AtChanges(s1, runs1, from1),
         NEW z, NEW k, SameStart(s, runs, from, s1, z, k)
  PROVE  k \in DOMAIN runs1 /\ \A x \in 1 .. k + 1 : from1[x] = from[x]
<1> DEFINE n  == Len(runs)
           n1 == Len(runs1)
           N  == Len(s)
           N1 == Len(s1)
<1>1. /\ N \in Nat /\ n \in Nat /\ DOMAIN runs = 1 .. n /\ from[1] = 1 /\ from[n + 1] = N + 1
      /\ N1 \in Nat /\ n1 \in Nat /\ DOMAIN runs1 = 1 .. n1 /\ from1[1] = 1
      /\ from1[n1 + 1] = N1 + 1
  BY CutFacts
<1>2. \A x \in 1 .. n :
        /\ from[x] \in 1 .. N /\ from[x + 1] \in 1 .. N + 1 /\ from[x] < from[x + 1]
        /\ from[x + 1] <= N => /\ x + 1 \in 1 .. n
                               /\ s[from[x + 1]].side # s[from[x + 1] - 1].side
        /\ \A p \in from[x] + 1 .. from[x + 1] - 1 : s[p].side = s[p - 1].side
  BY CutSides
<1>3. \A x \in 1 .. n1 :
        /\ from1[x] \in 1 .. N1 /\ from1[x + 1] \in 1 .. N1 + 1 /\ from1[x] < from1[x + 1]
        /\ from1[x + 1] <= N1 => /\ x + 1 \in 1 .. n1
                                 /\ s1[from1[x + 1]].side # s1[from1[x + 1] - 1].side
        /\ \A p \in from1[x] + 1 .. from1[x + 1] - 1 : s1[p].side = s1[p - 1].side
  BY CutSides
<1>4. /\ z \in Nat /\ z + 1 <= N /\ z + 1 <= N1 /\ k \in 1 .. n
      /\ \A q \in 1 .. z + 1 : s1[q].side = s[q].side
      /\ from[k + 1] = z + 1
  BY <1>1 DEF SameStart
<1>5. \A u, v \in 1 .. n : u < v => from[u] < from[v]
  <2> DEFINE M == N + 1
  <2>1. M \in Nat /\ from \in [1 .. n + 1 -> 1 .. M] /\ \A u \in 1 .. n : from[u] < from[u + 1]
    BY <1>1, <1>2 DEF Cuts
  <2> HIDE DEF M, n
  <2>2. n \in Nat
    BY <1>1
  <2>3. QED
    BY <2>1, <2>2, Rises
<1> HIDE DEF n, n1, N, N1
<1>6. \A x \in 1 .. k : from[x] <= z /\ from[x + 1] <= z + 1
  <2>1. ASSUME NEW x \in 1 .. k PROVE from[x] <= z
    <3>1. x \in 1 .. n /\ (x = k \/ x < k)
      BY <1>1, <1>4
    <3>2. from[x] <= from[k] /\ from[k] < z + 1 /\ from[x] \in Nat /\ from[k] \in Nat
      BY <1>2, <1>4, <1>5, <3>1
    <3>3. QED
      BY <1>4, <3>2
  <2>2. ASSUME NEW x \in 1 .. k PROVE from[x + 1] <= z + 1
    <3>1. x = k \/ x + 1 \in 1 .. k
      BY <1>1, <1>4
    <3>2. CASE x = k
      BY <1>4, <3>2
    <3>3. CASE x + 1 \in 1 .. k
      <4>1. from[x + 1] <= z /\ x + 1 \in 1 .. n
        BY <1>1, <1>4, <2>1, <3>3
      <4>2. from[x + 1] \in Nat
        BY <1>2, <4>1
      <4>3. QED
        BY <1>4, <4>1, <4>2
    <3>4. QED
      BY <3>1, <3>2, <3>3
  <2>3. QED
    BY <2>1, <2>2
<1> DEFINE G == {x \in 0 .. k : x + 1 \in 1 .. n1 + 1 /\ from1[x + 1] = from[x + 1]}
<1>7. 0 \in G
  BY <1>1, <1>4
<1>8. ASSUME NEW x \in 1 .. k, x - 1 \in G PROVE x \in G
  <2> DEFINE a  == from[x]
             b  == from[x + 1]
             b1 == from1[x + 1]
  <2>1. (x - 1) + 1 = x /\ x \in 1 .. n /\ x \in 0 .. k
    BY <1>1, <1>4
  <2>2. x \in 1 .. n1 + 1 /\ from1[x] = a
    BY <1>8, <2>1
  <2>3. a \in Nat /\ b \in Nat /\ a >= 1 /\ a < b /\ a <= z /\ b <= z + 1
    BY <1>2, <1>6, <2>1
  <2>4. x \in 1 .. n1
    <3>1. x # n1 + 1
      BY <1>1, <1>4, <2>2, <2>3
    <3>2. QED
      BY <1>1, <2>2, <3>1
  <2>5. b1 \in Nat /\ a < b1 /\ b1 <= N1 + 1
    BY <1>1, <1>3, <2>2, <2>4
  <2>6. /\ b <= N => s[b].side # s[b - 1].side
        /\ \A p \in a + 1 .. b - 1 : s[p].side = s[p - 1].side
        /\ b1 <= N1 => s1[b1].side # s1[b1 - 1].side
        /\ \A p \in a + 1 .. b1 - 1 : s1[p].side = s1[p - 1].side
    BY <1>2, <1>3, <2>1, <2>2, <2>4
  <2> HIDE DEF a, b, b1
  <2>7. b <= N /\ b \in 1 .. z + 1 /\ b - 1 \in 1 .. z + 1
    BY <1>1, <1>4, <2>3
  <2>8. b1 < b => b1 <= N1 /\ b1 \in a + 1 .. b - 1 /\ b1 \in 1 .. z + 1 /\ b1 - 1 \in 1 .. z + 1
    BY <1>1, <1>4, <2>3, <2>5
  <2>9. b < b1 => b \in a + 1 .. b1 - 1
    BY <2>3, <2>5
  <2>10. ~(b1 < b)
    BY <1>4, <2>6, <2>8
  <2>11. ~(b < b1)
    BY <1>4, <2>6, <2>7, <2>9
  <2>12. b1 = b
    BY <2>3, <2>5, <2>10, <2>11
  <2>13. x + 1 \in 1 .. n1 + 1
    BY <1>1, <2>4
  <2>14. QED
    BY <2>1, <2>12, <2>13 DEF b, b1
<1>9. k \in Nat
  BY <1>1, <1>4
<1>10. \A x \in 0 .. k : x \in G
  <2> HIDE DEF G
  <2>1. QED
    BY <1>7, <1>8, <1>9, AllAlong
<1>11. ASSUME NEW x \in 1 .. k + 1 PROVE from1[x] = from[x]
  <2>1. x - 1 \in 0 .. k /\ (x - 1) + 1 = x
    BY <1>9
  <2>2. QED
    BY <1>10, <2>1
<1>12. k \in DOMAIN runs1
  <2>1. k \in 0 .. k /\ k + 1 \in 1 .. n1 + 1
    BY <1>9, <1>10
  <2>2. QED
    BY <1>1, <1>4, <2>1
<1>13. QED
  BY <1>11, <1>12

\* The first n messages of ms begin ms1 as well, as far as what they say goes;
\* the messages of ms after those keep their roles, and there are no system
\* messages among them.
Continues(ms, ms1, n) ==
  /\ Prompted(ms) /\ Prompted(ms1)
  /\ n \in Nat /\ n <= Len(ms) /\ (n > 0 => n < Len(ms)) /\ Len(ms) <= Len(ms1)
  /\ \A i \in 1 .. Len(ms) : ms1[i].role = ms[i].role
  /\ \A i \in 1 .. n : ms1[i].blocks = ms[i].blocks
  /\ \A i \in DOMAIN ms : i > n => ms[i].role # "system"
  /\ \A i \in DOMAIN ms1 : i > n => ms1[i].role # "system"

\* The turns are the same up to that of message n, and so is the side of the
\* next one.
LEMMA TurnsAgree ==
  ASSUME NEW ms, NEW ms1, NEW n, Continues(ms, ms1, n),
         NEW z \in DOMAIN Turn(ms), TurnAt(ms)[z] = n
  PROVE  /\ z \in Nat /\ z + 1 \in DOMAIN Turn(ms) /\ z + 1 \in DOMAIN Turn(ms1)
         /\ \A q \in 1 .. z + 1 : Turn(ms1)[q].side = Turn(ms)[q].side
         /\ \A q \in 1 .. z : /\ q \in DOMAIN Turn(ms) /\ TurnAt(ms)[q] \in 1 .. n
                              /\ Turn(ms1)[q].blocks = Turn(ms)[q].blocks
<1> DEFINE L  == Len(ms)
           L1 == Len(ms1)
           t  == Turn(ms)
           t1 == Turn(ms1)
           at == TurnAt(ms)
           at1 == TurnAt(ms1)
           P  == {i \in DOMAIN ms : ms[i].role # "system"}
           P1 == {i \in DOMAIN ms1 : ms1[i].role # "system"}
<1>1. /\ L \in Nat /\ DOMAIN ms = 1 .. L /\ L1 \in Nat /\ DOMAIN ms1 = 1 .. L1
      /\ n \in Nat /\ n <= L /\ L <= L1 /\ (n > 0 => n < L)
  BY SeqIs DEF Continues, Prompted
<1>2. /\ Len(t) \in Nat /\ DOMAIN t = 1 .. Len(t) /\ DOMAIN at = DOMAIN t
      /\ \A q \in DOMAIN t : /\ at[q] \in DOMAIN ms /\ ms[at[q]].role # "system"
                             /\ t[q].side = SideOf(ms[at[q]]) /\ t[q].blocks = ms[at[q]].blocks
      /\ \A i \in DOMAIN ms : ms[i].role # "system" => \E q \in DOMAIN t : at[q] = i
      /\ \A p, q \in DOMAIN t : p < q => at[p] < at[q]
  BY TurnFacts DEF Continues
<1>3. /\ Len(t1) \in Nat /\ DOMAIN t1 = 1 .. Len(t1) /\ DOMAIN at1 = DOMAIN t1
      /\ \A q \in DOMAIN t1 : /\ t1[q].side = SideOf(ms1[at1[q]])
                              /\ t1[q].blocks = ms1[at1[q]].blocks
  BY TurnFacts DEF Continues
<1>4. at = InOrder(P) /\ at1 = InOrder(P1)
  BY DEF TurnAt
<1>5. P \in SUBSET (1 .. L) /\ P1 \in SUBSET (1 .. L1) /\ \A i \in 1 .. L : i \in P <=> i \in P1
  <2>1. ASSUME NEW i \in 1 .. L PROVE i \in P <=> i \in P1
    <3>1. i \in DOMAIN ms /\ i \in DOMAIN ms1 /\ ms1[i].role = ms[i].role
      BY <1>1 DEF Continues
    <3>2. QED
      BY <3>1
  <2>2. QED
    BY <1>1, <2>1
<1> HIDE DEF L, L1, t, t1, at, at1, P, P1
<1>6. ASSUME NEW q \in DOMAIN t PROVE q \in DOMAIN t1 /\ at1[q] = at[q] /\ t1[q].side = t[q].side
  <2>1. q \in DOMAIN InOrder(P) /\ InOrder(P)[q] <= L /\ at[q] \in 1 .. L
    BY <1>1, <1>2, <1>4
  <2>2. q \in DOMAIN InOrder(P1) /\ InOrder(P1)[q] = InOrder(P)[q]
    <3>1. SameUpTo(P, L, P1, L1, L)
      BY <1>1, <1>5 DEF SameUpTo
    <3>2. QED
      BY <2>1, <3>1, SamePlaces
  <2>3. q \in DOMAIN t1 /\ at1[q] = at[q]
    BY <1>3, <1>4, <2>2
  <2>4. ms1[at[q]].role = ms[at[q]].role
    BY <2>1 DEF Continues, L
  <2>5. QED
    BY <1>2, <1>3, <2>3, <2>4 DEF SideOf
<1>7. z \in Nat /\ z \in DOMAIN t /\ at[z] = n /\ n \in 1 .. L
  BY <1>1, <1>2 DEF t, at
<1>8. z + 1 \in DOMAIN t
  <2>1. n + 1 \in DOMAIN ms /\ ms[n + 1].role # "system"
    BY <1>1, <1>7 DEF Continues
  <2>2. PICK m \in DOMAIN t : at[m] = n + 1
    BY <1>2, <2>1
  <2>3. /\ z \in DOMAIN InOrder(P) /\ m \in DOMAIN InOrder(P)
        /\ InOrder(P)[m] = InOrder(P)[z] + 1
    BY <1>2, <1>4, <1>7, <2>2
  <2>4. m = z + 1
    BY <1>1, <1>5, <2>3, Neighbours
  <2>5. QED
    BY <2>2, <2>4
<1>9. \A q \in 1 .. z + 1 : q \in DOMAIN t
  BY <1>2, <1>7, <1>8
<1>10. ASSUME NEW q \in 1 .. z
       PROVE  q \in DOMAIN t /\ at[q] \in 1 .. n /\ t1[q].blocks = t[q].blocks
  <2>1. q \in DOMAIN t /\ (q = z \/ q < z)
    BY <1>7, <1>9
  <2>2. at[q] \in 1 .. L /\ at[q] <= n
    BY <1>1, <1>2, <1>7, <2>1
  <2>3. at[q] \in 1 .. n
    BY <1>1, <2>2
  <2>4. ms1[at[q]].blocks = ms[at[q]].blocks
    BY <2>3 DEF Continues
  <2>5. QED
    BY <1>2, <1>3, <1>6, <2>1, <2>3, <2>4
<1>11. QED
  BY <1>6, <1>7, <1>8, <1>9, <1>10 DEF t, t1, at

\* The blocks of the turns a .. b - 1.
Pieces(t, a, b) == [i \in 1 .. b - a |-> t[a + i - 1].blocks]

\* A segment, put together from the turns of its run.
LEMMA SegmentIs ==
  ASSUME NEW ms, Prompted(ms), NEW from, Cuts(Turn(ms), SideRuns(Turn(ms)), from),
         NEW k \in DOMAIN Segments(ms)
  PROVE  LET t      == Turn(ms)
             pieces == Pieces(t, from[k], from[k + 1])
         IN  /\ k \in DOMAIN SideRuns(t)
             /\ from[k] \in 1 .. Len(t) /\ from[k + 1] \in 1 .. Len(t) + 1
             /\ from[k] < from[k + 1]
             /\ Segments(ms)[k].side = t[from[k]].side
             /\ Segments(ms)[k].blocks = FlattenSeq(pieces) /\ Nested(pieces)
             /\ Segments(ms)[k].cache = t[from[k + 1] - 1].cache
<1> DEFINE t      == Turn(ms)
           runs   == SideRuns(t)
           a      == from[k]
           z      == from[k + 1]
           l      == z - a
           pieces == Pieces(t, a, z)
           N      == Len(t)
<1>1. /\ IsSeq(t) /\ N \in Nat /\ DOMAIN t = 1 .. N
      /\ \A q \in 1 .. N : IsSeq(t[q].blocks)
  <2>1. /\ IsSeq(Turn(ms)) /\ Len(Turn(ms)) \in Nat /\ DOMAIN Turn(ms) = 1 .. Len(Turn(ms))
        /\ \A q \in DOMAIN Turn(ms) :
             /\ TurnAt(ms)[q] \in DOMAIN ms
             /\ Turn(ms)[q].blocks = ms[TurnAt(ms)[q]].blocks
    BY TurnFacts
  <2>2. QED
    BY <2>1 DEF Prompted
<1>2. /\ DOMAIN Segments(ms) = DOMAIN runs
      /\ Segments(ms)[k] =
           [side   |-> runs[k][1].side,
            blocks |-> FlattenSeq([i \in DOMAIN runs[k] |-> runs[k][i].blocks]),
            cache  |-> Last(runs[k]).cache]
  BY DEF Segments
<1> HIDE DEF t, runs, N
<1> DEFINE w(x) ==
      /\ from[x] \in 1 .. Len(t) + 1 /\ from[x + 1] \in 1 .. Len(t) + 1 /\ from[x] < from[x + 1]
      /\ Len(runs[x]) = from[x + 1] - from[x]
      /\ DOMAIN runs[x] = 1 .. from[x + 1] - from[x] /\ IsSeq(runs[x])
      /\ \A i \in 1 .. from[x + 1] - from[x] : runs[x][i] = t[from[x] + i - 1]
<1>3. Cuts(t, runs, from) /\ k \in DOMAIN runs
  BY <1>2 DEF t, runs
<1>4. DOMAIN runs = 1 .. Len(runs) /\ \A x \in 1 .. Len(runs) : w(x)
  BY <1>1, <1>3, CutFacts
<1> HIDE DEF w
<1>5. w(k)
  BY <1>3, <1>4
<1>6. /\ a \in 1 .. N + 1 /\ z \in 1 .. N + 1 /\ a < z
      /\ Len(runs[k]) = l /\ DOMAIN runs[k] = 1 .. l
      /\ \A i \in 1 .. l : runs[k][i] = t[a + i - 1]
  BY <1>5 DEF w, N
<1> HIDE DEF a, z
<1>7. /\ l \in Nat /\ 1 \in 1 .. l /\ l \in 1 .. l /\ a + 1 - 1 = a /\ a + l - 1 = z - 1
      /\ a \in 1 .. N
      /\ \A i \in 1 .. l : a + i - 1 \in 1 .. N
  BY <1>1, <1>6
<1> HIDE DEF l
<1>8. runs[k][1] = t[a] /\ Last(runs[k]) = t[z - 1]
  <2>1. Last(runs[k]) = runs[k][l]
    BY <1>6 DEF Last
  <2>2. runs[k][1] = t[a + 1 - 1] /\ runs[k][l] = t[a + l - 1]
    BY <1>6, <1>7
  <2>3. QED
    BY <1>7, <2>1, <2>2
<1>9. /\ pieces = [i \in 1 .. l |-> t[a + i - 1].blocks]
      /\ [i \in DOMAIN runs[k] |-> runs[k][i].blocks] = pieces
  <2>1. pieces = [i \in 1 .. l |-> t[a + i - 1].blocks]
    BY DEF Pieces, l
  <2>2. QED
    BY <1>6, <2>1
<1> HIDE DEF pieces
<1>10. Nested(pieces)
  <2>1. /\ DOMAIN pieces = 1 .. l /\ pieces = [i \in 1 .. l |-> pieces[i]]
        /\ \A i \in 1 .. l : pieces[i] = t[a + i - 1].blocks
    BY <1>9
  <2>2. pieces \in [1 .. l -> Range(pieces)]
    BY <2>1 DEF Range
  <2>3. pieces \in Seq(Range(pieces))
    BY <1>7, <2>2, FcnIsSeq
  <2>4. \A i \in 1 .. l : IsSeq(pieces[i])
    BY <1>1, <1>7, <2>1
  <2>5. QED
    BY <2>1, <2>3, <2>4 DEF Nested, IsSeq
<1>11. /\ Segments(ms)[k].side = t[a].side /\ Segments(ms)[k].blocks = FlattenSeq(pieces)
       /\ Segments(ms)[k].cache = t[z - 1].cache
  <2>1. Segments(ms)[k] = [side |-> t[a].side, blocks |-> FlattenSeq(pieces),
                           cache |-> t[z - 1].cache]
    BY <1>2, <1>8, <1>9
  <2>2. QED
    BY <2>1
<1>12. QED
  BY <1>3, <1>6, <1>7, <1>10, <1>11 DEF a, z, t, runs, N, pieces

\* The segments are the same up to one that ends with message n.
LEMMA SegmentsAgree ==
  ASSUME NEW ms, NEW ms1, NEW n, Continues(ms, ms1, n),
         NEW from, Cuts(Turn(ms), SideRuns(Turn(ms)), from),
         AtChanges(Turn(ms), SideRuns(Turn(ms)), from),
         NEW k \in DOMAIN Segments(ms), TurnAt(ms)[from[k + 1] - 1] = n
  PROVE  /\ k \in DOMAIN Segments(ms1)
         /\ \A x \in 1 .. k : /\ Segments(ms1)[x].side = Segments(ms)[x].side
                              /\ Segments(ms1)[x].blocks = Segments(ms)[x].blocks
<1> DEFINE t == Turn(ms)
           t1 == Turn(ms1)
           runs == SideRuns(t)
           runs1 == SideRuns(t1)
           z == from[k + 1] - 1
<1>1. /\ Prompted(ms) /\ Prompted(ms1)
      /\ IsSeq(t) /\ Len(t) \in Nat /\ DOMAIN t = 1 .. Len(t)
      /\ IsSeq(t1) /\ Len(t1) \in Nat /\ DOMAIN t1 = 1 .. Len(t1)
  BY TurnFacts DEF Continues
<1>2. /\ k \in DOMAIN runs /\ from[k] \in 1 .. Len(t) /\ from[k + 1] \in 1 .. Len(t) + 1
      /\ from[k] < from[k + 1]
  BY <1>1, SegmentIs
<1>3. z \in DOMAIN t /\ z \in Nat /\ from[k + 1] = z + 1
  BY <1>1, <1>2
<1>4. /\ z + 1 \in DOMAIN t /\ z + 1 \in DOMAIN t1
      /\ \A q \in 1 .. z + 1 : t1[q].side = t[q].side
      /\ \A q \in 1 .. z : t1[q].blocks = t[q].blocks
  BY <1>3, TurnsAgree
<1> HIDE DEF z
<1>5. z + 1 <= Len(t) /\ z + 1 <= Len(t1)
  BY <1>1, <1>3, <1>4
<1>6. PICK from1 : Cuts(t1, runs1, from1) /\ AtChanges(t1, runs1, from1)
  BY <1>1, RunsCut
<1>7. k \in DOMAIN runs1 /\ \A x \in 1 .. k + 1 : from1[x] = from[x]
  <2> HIDE DEF t, t1, runs, runs1
  <2>1. Cuts(t, runs, from) /\ AtChanges(t, runs, from)
    BY DEF t, runs
  <2>2. SameStart(t, runs, from, t1, z, k)
    BY <1>2, <1>3, <1>4, <1>5 DEF SameStart, runs, t
  <2>3. IsSeq(t) /\ IsSeq(t1)
    BY <1>1
  <2>4. QED
    BY <1>6, <2>1, <2>2, <2>3, CutsAgree
<1>8. DOMAIN Segments(ms) = DOMAIN runs /\ DOMAIN Segments(ms1) = DOMAIN runs1
  BY DEF Segments
<1>9. DOMAIN runs = 1 .. Len(runs) /\ Len(runs) \in Nat
      /\ DOMAIN runs1 = 1 .. Len(runs1) /\ Len(runs1) \in Nat
  <2> HIDE DEF t, t1, runs, runs1
  <2>1. Cuts(t, runs, from)
    BY DEF t, runs
  <2>2. QED
    BY <1>1, <1>6, <2>1, CutFacts
<1>10. \A x \in 1 .. k : x \in DOMAIN runs /\ x \in DOMAIN runs1 /\ x \in 1 .. k + 1 /\ x + 1 \in 1 .. k + 1
  BY <1>2, <1>7, <1>9
<1>11. \A x \in 1 .. k : from[x] \in 1 .. z /\ from[x + 1] \in 1 .. z + 1 /\ from[x] < from[x + 1]
  <2>1. \A x \in 1 .. Len(runs) : from[x] \in 1 .. Len(t) + 1 /\ from[x + 1] \in 1 .. Len(t) + 1
                                  /\ from[x] < from[x + 1]
    <3> HIDE DEF t, t1, runs, runs1
    <3>1. Cuts(t, runs, from)
      BY DEF t, runs
    <3>2. QED
      BY <1>1, <3>1, CutFacts
  <2> DEFINE N == Len(runs)
             M == Len(t) + 1
             G == {d \in 0 .. k - 1 : from[k + 1 - d] <= z + 1}
  <2>2. N \in Nat /\ k \in 1 .. N
    BY <1>2, <1>9
  <2>3. 0 \in G
    BY <1>3, <2>2
  <2>4. ASSUME NEW d \in 1 .. k - 1, d - 1 \in G PROVE d \in G
    <3> DEFINE y == k + 1 - d
    <3>1. y \in 1 .. N /\ y + 1 = k + 1 - (d - 1) /\ d \in 0 .. k - 1
      BY <2>2
    <3>2. from[y + 1] <= z + 1
      BY <2>4, <3>1
    <3> HIDE DEF y
    <3>3. from[y] < from[y + 1] /\ from[y] \in Int /\ from[y + 1] \in Int
      BY <2>1, <3>1
    <3>4. from[y] <= z + 1
      BY <1>3, <3>2, <3>3
    <3>5. QED
      BY <3>1, <3>4 DEF y
  <2> HIDE DEF G
  <2>5. \A d \in 0 .. k - 1 : d \in G
    <3> DEFINE K == k - 1
    <3>1. K \in Nat /\ \A d \in 1 .. K : d - 1 \in G => d \in G
      BY <2>2, <2>4
    <3> HIDE DEF K
    <3>2. \A d \in 0 .. K : d \in G
      BY <2>3, <3>1, AllAlong
    <3>3. QED
      BY <3>2 DEF K
  <2>6. ASSUME NEW x \in 1 .. k PROVE from[x + 1] <= z + 1
    <3>1. k - x \in 0 .. k - 1 /\ k + 1 - (k - x) = x + 1
      BY <2>2
    <3>2. QED
      BY <2>5, <3>1 DEF G
  <2>7. ASSUME NEW x \in 1 .. k
        PROVE  from[x] \in 1 .. z /\ from[x + 1] \in 1 .. z + 1 /\ from[x] < from[x + 1]
    <3>1. x \in 1 .. N /\ from[x + 1] <= z + 1
      BY <2>2, <2>6
    <3>2. from[x] \in 1 .. M /\ from[x + 1] \in 1 .. M /\ from[x] < from[x + 1]
      BY <2>1, <3>1
    <3> HIDE DEF M, N
    <3>3. QED
      BY <1>3, <3>1, <3>2
  <2>8. QED
    BY <2>7
<1>12. ASSUME NEW x \in 1 .. k
       PROVE  /\ Segments(ms1)[x].side = Segments(ms)[x].side
              /\ Segments(ms1)[x].blocks = Segments(ms)[x].blocks
  <2> DEFINE pieces  == Pieces(t, from[x], from[x + 1])
             pieces1 == Pieces(t1, from1[x], from1[x + 1])
  <2>1. from1[x] = from[x] /\ from1[x + 1] = from[x + 1]
    BY <1>7, <1>10
  <2>2. Segments(ms)[x].side = t[from[x]].side /\ Segments(ms)[x].blocks = FlattenSeq(pieces)
    <3>1. x \in DOMAIN Segments(ms)
      BY <1>8, <1>10
    <3>2. QED
      BY <1>1, <3>1, SegmentIs
  <2>3. Segments(ms1)[x].side = t1[from1[x]].side
        /\ Segments(ms1)[x].blocks = FlattenSeq(pieces1)
    <3>1. x \in DOMAIN Segments(ms1)
      BY <1>8, <1>10
    <3>2. QED
      BY <1>1, <1>6, <3>1, SegmentIs
  <2>4. pieces1 = pieces
    <3> DEFINE a == from[x]
               b == from[x + 1]
    <3>1. a \in 1 .. z /\ b \in 1 .. z + 1 /\ z \in Nat
      BY <1>3, <1>11
    <3>2. pieces = [i \in 1 .. b - a |-> t[a + i - 1].blocks]
          /\ pieces1 = [i \in 1 .. b - a |-> t1[a + i - 1].blocks]
      BY <2>1 DEF Pieces
    <3> HIDE DEF a, b, pieces, pieces1
    <3>3. \A i \in 1 .. b - a : a + i - 1 \in 1 .. z
      BY <3>1
    <3>4. QED
      BY <1>4, <3>2, <3>3
  <2>5. t1[from1[x]].side = t[from[x]].side
    <3>1. from[x] \in 1 .. z + 1
      BY <1>3, <1>11
    <3>2. QED
      BY <1>4, <2>1, <3>1
  <2> HIDE DEF pieces, pieces1
  <2>6. QED
    BY <2>2, <2>3, <2>4, <2>5
<1>13. QED
  BY <1>7, <1>8, <1>12

\* A turn with calls that no message up to n answers.
Awaits(ms, n) ==
  \E i \in 1 .. n : /\ ms[i].role = "assistant"
                    /\ IdsOf(ms[i].blocks, "use") # {}
                    /\ \A j \in i .. n : ms[j].role \in {"system", "assistant"}

\* If none awaits its answers, an assistant's segment that ends with message n
\* has no calls.
LEMMA NoCalls ==
  ASSUME NEW ms, Prompted(ms), NEW n \in Nat, ~Awaits(ms, n),
         NEW from, Cuts(Turn(ms), SideRuns(Turn(ms)), from),
         AtChanges(Turn(ms), SideRuns(Turn(ms)), from),
         NEW k \in DOMAIN Segments(ms), TurnAt(ms)[from[k + 1] - 1] = n,
         Segments(ms)[k].side = "assistant"
  PROVE  \A p \in DOMAIN Segments(ms)[k].blocks : Segments(ms)[k].blocks[p].kind # "use"
<1> DEFINE t == Turn(ms)
           at == TurnAt(ms)
           runs == SideRuns(t)
           a == from[k]
           z == from[k + 1]
           bs == Segments(ms)[k].blocks
           pieces == Pieces(t, a, z)
<1>1. /\ IsSeq(t) /\ Len(t) \in Nat /\ DOMAIN t = 1 .. Len(t)
      /\ \A q \in DOMAIN t : /\ at[q] \in DOMAIN ms /\ ms[at[q]].role # "system"
                             /\ t[q].side = SideOf(ms[at[q]]) /\ t[q].blocks = ms[at[q]].blocks
      /\ \A i \in DOMAIN ms : ms[i].role # "system" => \E q \in DOMAIN t : at[q] = i
      /\ \A p, q \in DOMAIN t : p < q => at[p] < at[q]
  BY TurnFacts
<1>2. /\ k \in DOMAIN runs /\ a \in 1 .. Len(t) /\ z \in 1 .. Len(t) + 1 /\ a < z
      /\ Segments(ms)[k].side = t[a].side
      /\ bs = FlattenSeq(pieces) /\ Nested(pieces)
  BY SegmentIs
<1>3. Len(ms) \in Nat /\ DOMAIN ms = 1 .. Len(ms)
  BY SeqIs DEF Prompted
<1> HIDE DEF t, at, runs, bs, pieces
<1>4. \A q \in a .. z - 1 : q \in DOMAIN t /\ ms[at[q]].role = "assistant"
  <2>1. ASSUME NEW q \in a .. z - 1 PROVE q \in DOMAIN t /\ t[q].side = t[a].side
    <3>1. q \in DOMAIN t /\ a \in DOMAIN t
      BY <1>1, <1>2
    <3>2. Cuts(t, runs, from) /\ AtChanges(t, runs, from)
      BY DEF t, runs
    <3>3. InRun(from, k, q) /\ InRun(from, k, a)
      BY <1>1, <1>2 DEF InRun
    <3>4. \A p \in DOMAIN t : InRun(from, k, p) =>
            p - from[k] + 1 \in DOMAIN runs[k] /\ runs[k][p - from[k] + 1] = t[p]
      <4>1. IsSeq(t) /\ k \in DOMAIN runs
        BY <1>1, <1>2
      <4>2. QED
        BY <3>2, <4>1, RunPlaces
    <3>5. \A i \in DOMAIN runs[k] : runs[k][i].side = runs[k][1].side
      <4>1. IsSeq(t) /\ k \in DOMAIN runs
        BY <1>1, <1>2
      <4>2. QED
        BY <3>2, <4>1, RunSides
    <3>6. \A p \in DOMAIN t : InRun(from, k, p) => t[p].side = runs[k][1].side
      BY <3>4, <3>5
    <3>7. QED
      BY <3>1, <3>3, <3>6
  <2>2. \A q \in a .. z - 1 : SideOf(ms[at[q]]) = "assistant"
    BY <1>1, <1>2, <2>1
  <2>3. QED
    BY <2>1, <2>2 DEF SideOf
<1>5. z - 1 \in DOMAIN t /\ at[z - 1] = n
  BY <1>1, <1>2 DEF at
<1>6. ASSUME NEW p \in DOMAIN bs, bs[p].kind = "use" PROVE FALSE
  <2>1. PICK i \in DOMAIN pieces : bs[p] \in Range(pieces[i])
    <3>1. bs[p] \in Range(bs)
      BY DEF Range
    <3>2. QED
      BY <1>2, <3>1, FlatSeqs DEF Nested
  <2> DEFINE q == a + i - 1
             m == ms[at[q]]
  <2>2. i \in 1 .. z - a /\ pieces[i] = t[q].blocks
    BY <2>1 DEF pieces, Pieces
  <2>3. q \in a .. z - 1 /\ q \in Nat
    BY <1>1, <1>2, <2>2
  <2> HIDE DEF q
  <2>4. q \in DOMAIN t /\ m.role = "assistant" /\ m.blocks = pieces[i]
    BY <1>1, <1>4, <2>2, <2>3
  <2>5. IdsOf(m.blocks, "use") # {}
    <3>1. PICK j \in DOMAIN m.blocks : bs[p] = m.blocks[j]
      BY <2>1, <2>4 DEF Range
    <3>2. m.blocks[j].kind = "use"
      BY <1>6, <3>1
    <3>3. m.blocks[j].id \in IdsOf(m.blocks, "use")
      BY <3>2 DEF IdsOf
    <3>4. QED
      BY <3>3
  <2>6. at[q] \in 1 .. n
    <3>1. q = z - 1 \/ q < z - 1
      BY <1>1, <1>2, <2>3
    <3>2. at[q] = n \/ at[q] < n
      BY <1>1, <1>5, <2>4, <3>1
    <3>3. at[q] \in 1 .. Len(ms)
      BY <1>1, <1>3, <2>4
    <3>4. QED
      BY <1>3, <3>2, <3>3
  <2>7. ASSUME NEW j \in at[q] .. n PROVE ms[j].role \in {"system", "assistant"}
    <3>1. SUFFICES ASSUME ms[j].role # "system" PROVE ms[j].role = "assistant"
      OBVIOUS
    <3>2. j \in DOMAIN ms
      <4>1. n \in DOMAIN ms
        BY <1>1, <1>5
      <4>2. QED
        BY <1>3, <2>6, <4>1
    <3>3. PICK y \in DOMAIN t : at[y] = j
      BY <1>1, <3>1, <3>2
    <3>4. y \in Nat /\ z - 1 \in Nat /\ at[y] \in Int /\ at[q] \in Int /\ n \in Int
          /\ at[q] <= at[y] /\ at[y] <= n
      BY <1>1, <1>2, <2>6, <3>3
    <3>5. ~(y < q) /\ ~(z - 1 < y)
      <4>1. ~(y < q)
        <5>1. y < q => at[y] < at[q]
          BY <1>1, <2>4, <3>3
        <5>2. QED
          BY <3>4, <5>1
      <4>2. ~(z - 1 < y)
        <5>1. z - 1 < y => at[z - 1] < at[y]
          BY <1>1, <1>5, <3>3
        <5>2. QED
          BY <1>5, <3>4, <5>1
      <4>3. QED
        BY <4>1, <4>2
    <3>6. y \in a .. z - 1
      BY <1>1, <1>2, <2>3, <3>4, <3>5
    <3>7. QED
      BY <1>4, <3>3, <3>6
  <2>8. Awaits(ms, n)
    BY <2>4, <2>5, <2>6, <2>7 DEF Awaits
  <2>9. QED
    BY <2>8
<1>7. QED
  BY <1>6 DEF bs

\* So are the rendered segments: what calls the last of them has are answered
\* in front of it or not at all.
LEMMA RenderedAgree ==
  ASSUME NEW segs, NEW segs1, NEW k \in Nat, k <= Len(segs), k <= Len(segs1),
         Len(segs) \in Nat, Len(segs1) \in Nat,
         \A x \in 1 .. k : /\ segs1[x].side = segs[x].side
                           /\ segs1[x].blocks = segs[x].blocks,
         segs[k].side = "assistant" =>
           \A p \in DOMAIN segs[k].blocks : segs[k].blocks[p].kind # "use"
  PROVE  \A x \in 1 .. k :
           /\ RenderSegment(segs1, x).side = RenderSegment(segs, x).side
           /\ RenderSegment(segs1, x).blocks = RenderSegment(segs, x).blocks
<1>1. SUFFICES ASSUME NEW x \in 1 .. k
               PROVE  /\ RenderSegment(segs1, x).side = RenderSegment(segs, x).side
                      /\ RenderSegment(segs1, x).blocks = RenderSegment(segs, x).blocks
  OBVIOUS
<1> DEFINE bs == segs[x].blocks
<1>2. segs1[x].side = segs[x].side /\ segs1[x].blocks = bs
  OBVIOUS
<1>3. /\ RenderSegment(segs, x).side = segs[x].side
      /\ RenderSegment(segs, x).blocks =
           IF segs[x].side = "assistant" THEN RenderAssistantSegment(bs, AnswersAfter(segs, x))
           ELSE RenderUserSegment(bs, CallsBefore(segs, x))
      /\ RenderSegment(segs1, x).side = segs[x].side
      /\ RenderSegment(segs1, x).blocks =
           IF segs[x].side = "assistant" THEN RenderAssistantSegment(bs, AnswersAfter(segs1, x))
           ELSE RenderUserSegment(bs, CallsBefore(segs1, x))
  BY <1>2 DEF RenderSegment
<1>4. CallsBefore(segs1, x) = CallsBefore(segs, x)
  <2>1. x > 1 => x - 1 \in 1 .. k
    OBVIOUS
  <2>2. x > 1 => segs1[x - 1].blocks = segs[x - 1].blocks
    BY <2>1
  <2>3. QED
    BY <2>2 DEF CallsBefore
<1>5. x < k => AnswersAfter(segs1, x) = AnswersAfter(segs, x)
  <2>1. ASSUME x < k PROVE AnswersAfter(segs1, x) = AnswersAfter(segs, x)
    <3>1. x + 1 \in 1 .. k /\ x < Len(segs) /\ x < Len(segs1)
      BY <2>1
    <3>2. segs1[x + 1].blocks = segs[x + 1].blocks
      BY <3>1
    <3>3. QED
      BY <3>1, <3>2 DEF AnswersAfter
  <2>2. QED
    BY <2>1
<1>6. x = k /\ segs[x].side = "assistant" =>
        RenderAssistantSegment(bs, AnswersAfter(segs1, x))
          = RenderAssistantSegment(bs, AnswersAfter(segs, x))
  <2>1. ASSUME \A p \in DOMAIN bs : bs[p].kind # "use", NEW A, NEW B
        PROVE  RenderAssistantSegment(bs, A) = RenderAssistantSegment(bs, B)
    <3> HIDE DEF bs
    <3>1. QED
      BY <2>1 DEF RenderAssistantSegment
  <2>2. QED
    BY <2>1
<1> HIDE DEF bs
<1>7. x < k \/ x = k
  OBVIOUS
<1>8. QED
  BY <1>3, <1>4, <1>5, <1>6, <1>7

\* Rendered segments, of which the first k show the same.
AgreeTo(all, all1, k) ==
  /\ IsSeq(all) /\ IsSeq(all1)
  /\ k \in Nat /\ k <= Len(all) /\ k <= Len(all1)
  /\ \A x \in 1 .. k : all1[x].side = all[x].side /\ all1[x].blocks = all[x].blocks

\* So do those of them that the turns are put together from.
LEMMA FullAgree ==
  ASSUME NEW all, NEW all1, NEW k, AgreeTo(all, all1, k),
         NEW q \in DOMAIN InOrder(NonEmpty(all)), InOrder(NonEmpty(all))[q] = k
  PROVE  LET f  == Sub(all, NonEmpty(all))
             f1 == Sub(all1, NonEmpty(all1))
         IN  /\ DOMAIN f = DOMAIN InOrder(NonEmpty(all)) /\ f[q] = all[k]
             /\ \A y \in 1 .. q : /\ y \in DOMAIN f /\ y \in DOMAIN f1
                                  /\ f1[y].side = f[y].side /\ f1[y].blocks = f[y].blocks
<1> DEFINE E == NonEmpty(all)
           E1 == NonEmpty(all1)
           N == Len(all)
           N1 == Len(all1)
           o == InOrder(E)
           o1 == InOrder(E1)
           f == Sub(all, E)
           f1 == Sub(all1, E1)
<1>0. k \in Nat /\ k <= N /\ k <= N1
      /\ \A x \in 1 .. k : all1[x].side = all[x].side /\ all1[x].blocks = all[x].blocks
  BY DEF AgreeTo
<1>1. N \in Nat /\ DOMAIN all = 1 .. N /\ N1 \in Nat /\ DOMAIN all1 = 1 .. N1
  BY SeqIs DEF AgreeTo
<1>2. E \in SUBSET (1 .. N) /\ E1 \in SUBSET (1 .. N1)
  BY <1>1 DEF NonEmpty
<1>3. SameUpTo(E, N, E1, N1, k)
  <2>1. \A x \in 1 .. k : x \in E <=> x \in E1
    BY <1>0, <1>1 DEF NonEmpty
  <2> HIDE DEF E, E1, N, N1
  <2>2. QED
    BY <1>0, <1>1, <1>2, <2>1 DEF SameUpTo
<1>4. /\ DOMAIN f = DOMAIN o /\ \A y \in DOMAIN o : f[y] = all[o[y]]
      /\ DOMAIN f1 = DOMAIN o1 /\ \A y \in DOMAIN o1 : f1[y] = all1[o1[y]]
  BY DEF Sub
<1> HIDE DEF E, E1, N, N1, f, f1
<1>5. /\ Cardinality(E) \in Nat /\ DOMAIN o = 1 .. Cardinality(E) /\ o \in [1 .. Cardinality(E) -> E]
      /\ \A u, v \in 1 .. Cardinality(E) : u < v => o[u] < o[v]
  BY <1>1, <1>2, InOrderFacts
<1>6. q \in DOMAIN o /\ o[q] = k
  BY DEF E
<1> HIDE DEF o, o1
<1>7. ASSUME NEW y \in 1 .. q
      PROVE  /\ y \in DOMAIN f /\ y \in DOMAIN f1
             /\ f1[y].side = f[y].side /\ f1[y].blocks = f[y].blocks
  <2>1. y \in 1 .. Cardinality(E) /\ (y = q \/ y < q)
    BY <1>5, <1>6
  <2>2. o[y] \in 1 .. N
    BY <1>2, <1>5, <2>1
  <2>3. o[y] = k \/ o[y] < k
    BY <1>5, <1>6, <2>1
  <2>4. o[y] \in 1 .. k
    BY <1>0, <1>1, <2>2, <2>3
  <2>5. y \in DOMAIN o1 /\ o1[y] = o[y]
    <3>1. y \in DOMAIN InOrder(E) /\ InOrder(E)[y] <= k
      BY <1>5, <2>1, <2>4 DEF o
    <3>2. y \in DOMAIN InOrder(E1) /\ InOrder(E1)[y] = InOrder(E)[y]
      BY <1>3, <3>1, SamePlaces
    <3>3. QED
      BY <3>2 DEF o, o1
  <2>6. QED
    BY <1>0, <1>4, <1>5, <2>1, <2>4, <2>5
<1>8. f[q] = all[k]
  BY <1>4, <1>6
<1>9. QED
  BY <1>4, <1>7, <1>8 DEF f, f1, E, E1, o

\* What the first q rendered segments show is the same in both streams.
LEMMA StreamsAgree ==
  ASSUME NEW f, Filled(f), NEW c, Offsets(Blocks(f), c),
         NEW f1, Filled(f1), NEW c1, Offsets(Blocks(f1), c1),
         NEW q \in DOMAIN f,
         \A y \in 1 .. q : /\ y \in DOMAIN f1
                           /\ f1[y].side = f[y].side /\ f1[y].blocks = f[y].blocks
  PROVE  /\ c[q] \in Nat /\ c[q] <= Len(TurnStream(TurnsOf(f1)))
         /\ \A p \in 1 .. c[q] : TurnStream(TurnsOf(f1))[p] = TurnStream(TurnsOf(f))[p]
<1> DEFINE n  == Len(f)
           n1 == Len(f1)
           b  == Blocks(f)
           b1 == Blocks(f1)
           t  == TurnStream(TurnsOf(f))
           t1 == TurnStream(TurnsOf(f1))
<1>1. /\ n \in Nat /\ DOMAIN f = 1 .. n /\ Nested(b) /\ Len(b) = n
      /\ \A y \in DOMAIN f : b[y] = f[y].blocks
  BY BlocksNested
<1>2. /\ n1 \in Nat /\ DOMAIN f1 = 1 .. n1 /\ Nested(b1) /\ Len(b1) = n1
      /\ \A y \in DOMAIN f1 : b1[y] = f1[y].blocks
  BY BlocksNested
<1>3. \A y \in DOMAIN f : \A j \in 1 .. Len(f[y].blocks) :
        t[c[y - 1] + j] = Bare(f[y].blocks[j], f[y].side)
  BY StreamLaid
<1>4. /\ Len(t1) = c1[n1]
      /\ \A y \in DOMAIN f1 : \A j \in 1 .. Len(f1[y].blocks) :
           t1[c1[y - 1] + j] = Bare(f1[y].blocks[j], f1[y].side)
  BY StreamLaid
<1> HIDE DEF n, n1, b, b1, t, t1
<1>5. Offsets(b, c) /\ Offsets(b1, c1)
  BY DEF b, b1
<1>6. /\ c[0] = 0 /\ \A k \in 0 .. n : c[k] \in Nat
      /\ \A u, v \in 0 .. n : u <= v => c[u] <= c[v]
      /\ \A p \in 1 .. c[n] : \E k \in 1 .. n : \E j \in 1 .. Len(b[k]) : p = c[k - 1] + j
      /\ \A k \in 1 .. n : c[k - 1] \in Nat
  <2>1. /\ c[0] = 0 /\ \A k \in 0 .. Len(b) : c[k] \in Nat
        /\ \A u, v \in 0 .. Len(b) : u <= v => c[u] <= c[v]
        /\ Placed(b, c)
        /\ \A k \in 1 .. Len(b) : c[k - 1] \in Nat
    BY <1>1, <1>5, OffsetPlaces
  <2>2. QED
    BY <1>1, <2>1 DEF Placed
<1>7. /\ \A k \in 0 .. n1 : c1[k] \in Nat
      /\ \A u, v \in 0 .. n1 : u <= v => c1[u] <= c1[v]
  BY <1>2, <1>5, OffsetPlaces
<1>8. q \in Nat /\ q <= n /\ q <= n1 /\ q \in 0 .. n /\ q \in 0 .. n1 /\ n \in 0 .. n /\ n1 \in 0 .. n1
      /\ q \in 1 .. q
  <2>1. q \in 1 .. q
    BY <1>1
  <2>2. q \in DOMAIN f1
    BY <2>1
  <2>3. QED
    BY <1>1, <1>2, <2>1, <2>2
<1>9. \A y \in 0 .. q : c[y] = c1[y]
  <2>1. ASSUME NEW y \in 1 .. q PROVE Len(b[y]) = Len(b1[y])
    <3>1. y \in DOMAIN f /\ y \in DOMAIN f1
      BY <1>1, <1>8
    <3>2. QED
      BY <1>1, <1>2, <3>1
  <2>2. /\ Nested(b) /\ Nested(b1) /\ q \in Nat /\ q <= Len(b) /\ q <= Len(b1)
    BY <1>1, <1>2, <1>8
  <2>3. QED
    BY <1>5, <2>1, <2>2, SameOffsets
<1>10. c[q] \in Nat /\ c[q] <= Len(t1)
  <2>1. q \in 0 .. q
    BY <1>8
  <2>2. c[q] = c1[q] /\ c1[q] <= c1[n1]
    BY <1>7, <1>8, <1>9, <2>1
  <2>3. QED
    BY <1>4, <1>6, <1>8, <2>2
<1>11. ASSUME NEW p \in 1 .. c[q] PROVE t1[p] = t[p]
  <2>1. p \in 1 .. c[n] /\ p \in Nat /\ p <= c[q]
    <3>1. c[q] <= c[n] /\ c[q] \in Nat /\ c[n] \in Nat
      BY <1>6, <1>8
    <3>2. QED
      BY <3>1
  <2>2. PICK k \in 1 .. n : \E j \in 1 .. Len(b[k]) : p = c[k - 1] + j
    BY <1>6, <2>1
  <2>3. PICK j \in 1 .. Len(b[k]) : p = c[k - 1] + j
    BY <2>2
  <2>4. k \in 1 .. q
    <3>1. ASSUME q < k PROVE FALSE
      <4>1. q <= k - 1 /\ k - 1 \in 0 .. n
        BY <1>8, <3>1
      <4>2. c[q] <= c[k - 1] /\ c[k - 1] \in Nat /\ c[q] \in Nat
        BY <1>6, <1>8, <4>1
      <4>3. QED
        BY <2>1, <2>3, <4>2
    <3>2. QED
      BY <1>1, <1>8, <3>1
  <2>5. k \in DOMAIN f /\ k \in DOMAIN f1 /\ c1[k - 1] = c[k - 1]
        /\ f1[k].side = f[k].side /\ f1[k].blocks = f[k].blocks
    <3>1. k - 1 \in 0 .. q
      BY <1>8, <2>4
    <3>2. QED
      BY <1>1, <1>9, <2>4, <3>1
  <2>6. j \in 1 .. Len(f[k].blocks) /\ j \in 1 .. Len(f1[k].blocks)
    BY <1>1, <2>3, <2>5
  <2>7. t[p] = Bare(f[k].blocks[j], f[k].side)
    BY <1>3, <2>3, <2>5, <2>6
  <2>8. t1[p] = Bare(f1[k].blocks[j], f1[k].side)
    BY <1>4, <2>3, <2>5, <2>6
  <2>9. QED
    BY <2>5, <2>7, <2>8
<1>12. QED
  BY <1>10, <1>11 DEF t, t1

\* Every block that m marks, and all before it, is the same in t and t1.
MarkedAlike(t, m, t1) ==
  /\ IsSeq(t) /\ IsSeq(t1) /\ IsSeq(m) /\ Len(m) = Len(t)
  /\ \A p \in DOMAIN m : m[p] => p \in DOMAIN t1 /\ \A y \in 1 .. p : t1[y] = t[y]

\* Only system messages, and message n, have a breakpoint.
Breaks(ms, n) ==
  \A i \in DOMAIN ms : ms[i].cache => ms[i].role = "system" \/ i = n

\* A segment with a breakpoint ends with message n, so that it and those before
\* it are rendered in both prompts, and alike.
LEMMA RichReused ==
  ASSUME NEW ms, NEW ms1, NEW n, Continues(ms, ms1, n), ~Awaits(ms, n), Breaks(ms, n)
  PROVE  MarkedAlike(TurnStream(Turns(ms)), TurnMarks(Turns(ms)), TurnStream(Turns(ms1)))
<1> DEFINE f == Full(ms)
           f1 == Full(ms1)
           all == RenderedSegments(ms)
           all1 == RenderedSegments(ms1)
           segs == Segments(ms)
           segs1 == Segments(ms1)
           o == InOrder(NonEmpty(all))
           t == TurnStream(Turns(ms))
           m == TurnMarks(Turns(ms))
           t1 == TurnStream(Turns(ms1))
<1>1. Prompted(ms) /\ Prompted(ms1) /\ n \in Nat
  BY DEF Continues
<1>2. Filled(f) /\ Filled(f1)
  BY <1>1, FullMeets DEF Met, Filled
<1>3. Turns(ms) = TurnsOf(f) /\ Turns(ms1) = TurnsOf(f1)
  BY DEF Turns, TurnsOf, Full, RenderedSegments, NonEmpty, Content
<1>4. f = Sub(all, NonEmpty(all)) /\ f1 = Sub(all1, NonEmpty(all1))
  BY DEF Full
<1>5. /\ IsSeq(segs) /\ Len(segs) \in Nat /\ DOMAIN segs = 1 .. Len(segs)
      /\ \A k \in DOMAIN segs : IsSeq(segs[k].blocks)
      /\ IsSeq(segs1) /\ Len(segs1) \in Nat /\ DOMAIN segs1 = 1 .. Len(segs1)
  BY <1>1, SegmentsFacts, SeqIs
<1>6. /\ all = [k \in 1 .. Len(segs) |-> RenderSegment(segs, k)]
      /\ all1 = [k \in 1 .. Len(segs1) |-> RenderSegment(segs1, k)]
  BY <1>5 DEF RenderedSegments
<1> HIDE DEF f, f1, all, all1, segs, segs1
<1>7. IsSeq(all) /\ Len(all) = Len(segs) /\ IsSeq(all1) /\ Len(all1) = Len(segs1)
  <2>1. all \in [1 .. Len(segs) -> Range(all)] /\ all1 \in [1 .. Len(segs1) -> Range(all1)]
    BY <1>6 DEF Range
  <2>2. /\ all \in Seq(Range(all)) /\ Len(all) = Len(segs)
        /\ all1 \in Seq(Range(all1)) /\ Len(all1) = Len(segs1)
    BY <1>5, <2>1, FcnIsSeq
  <2>3. QED
    BY <2>2 DEF IsSeq
<1>8. PICK c : Offsets(Blocks(f), c)
  BY <1>2, BlocksNested, OffsetsExist
<1>9. PICK c1 : Offsets(Blocks(f1), c1)
  BY <1>2, BlocksNested, OffsetsExist
<1>10. /\ IsSeq(t) /\ IsSeq(m) /\ Len(t) = c[Len(f)] /\ Len(m) = c[Len(f)]
       /\ \A q \in DOMAIN f : \A j \in 1 .. Len(f[q].blocks) :
            m[c[q - 1] + j] = CacheLast(f[q].blocks, f[q].cache)[j].cache
       /\ IsSeq(t1)
  BY <1>2, <1>3, <1>8, <1>9, StreamLaid
<1> HIDE DEF t, m, t1
<1>11. ASSUME NEW p \in DOMAIN m, m[p]
       PROVE  p \in DOMAIN t1 /\ \A y \in 1 .. p : t1[y] = t[y]
  <2>1. /\ Len(f) \in Nat /\ DOMAIN f = 1 .. Len(f) /\ Nested(Blocks(f)) /\ Len(Blocks(f)) = Len(f)
        /\ \A q \in DOMAIN f : Blocks(f)[q] = f[q].blocks
    BY <1>2, BlocksNested
  <2>2. PICK q \in 1 .. Len(f) : \E j \in 1 .. Len(Blocks(f)[q]) : p = c[q - 1] + j
    <3>1. p \in 1 .. c[Len(f)]
      BY <1>10, SeqIs
    <3>2. Placed(Blocks(f), c)
      BY <1>8, <2>1, OffsetPlaces
    <3>3. QED
      BY <2>1, <3>1, <3>2 DEF Placed
  <2>3. PICK j \in 1 .. Len(Blocks(f)[q]) : p = c[q - 1] + j
    BY <2>2
  <2>4. q \in DOMAIN f /\ j \in 1 .. Len(f[q].blocks)
    BY <2>1, <2>3
  <2> DEFINE k == o[q]
  <2>5. DOMAIN f = DOMAIN o /\ f[q] = all[k] /\ k \in 1 .. Len(segs)
    <3>1. DOMAIN f = DOMAIN o /\ \A y \in DOMAIN o : f[y] = all[o[y]]
      BY <1>4 DEF Sub
    <3>2. o[q] \in NonEmpty(all)
      <4> DEFINE N == Len(segs)
                 E == NonEmpty(all)
      <4>1. N \in Nat /\ E \in SUBSET (1 .. N)
        BY <1>5, <1>6 DEF NonEmpty
      <4> HIDE DEF N, E
      <4>2. DOMAIN InOrder(E) = 1 .. Cardinality(E) /\ InOrder(E) \in [1 .. Cardinality(E) -> E]
        BY <4>1, InOrderFacts
      <4>3. QED
        BY <2>4, <3>1, <4>2 DEF E
    <3>3. QED
      BY <1>6, <2>4, <3>1, <3>2 DEF NonEmpty
  <2>6. f[q] = RenderSegment(segs, k) /\ k \in DOMAIN segs /\ q \in DOMAIN o
    BY <1>5, <1>6, <2>4, <2>5
  <2> HIDE DEF k
  <2>7. f[q].cache
    <3>1. \A b \in Range(f[q].blocks) : b.cache = FALSE
      BY <1>5, <2>6, Unmarked
    <3>2. ASSUME ~f[q].cache PROVE FALSE
      <4>1. CacheLast(f[q].blocks, f[q].cache) = f[q].blocks
        BY <3>2 DEF CacheLast
      <4>2. m[p] = f[q].blocks[j].cache
        BY <1>10, <2>3, <2>4, <4>1
      <4>3. f[q].blocks[j] \in Range(f[q].blocks)
        <5>1. IsSeq(f[q].blocks)
          BY <1>2, <2>4 DEF Filled, AreRendered
        <5>2. DOMAIN f[q].blocks = 1 .. Len(f[q].blocks)
          BY <5>1, SeqIs
        <5>3. QED
          BY <2>4, <5>2 DEF Range
      <4>4. QED
        BY <1>11, <3>1, <4>2, <4>3
    <3>3. QED
      BY <3>2
  <2>8. segs[k].cache
    BY <2>6, <2>7 DEF RenderSegment
  <2>9. IsSeq(Turn(ms))
    BY <1>1, TurnFacts
  <2>10. PICK from : /\ Cuts(Turn(ms), SideRuns(Turn(ms)), from)
                     /\ AtChanges(Turn(ms), SideRuns(Turn(ms)), from)
    BY <2>9, RunsCut
  <2>11. TurnAt(ms)[from[k + 1] - 1] = n
    <3> DEFINE z == from[k + 1] - 1
    <3>1. /\ from[k] \in 1 .. Len(Turn(ms)) /\ from[k + 1] \in 1 .. Len(Turn(ms)) + 1
          /\ from[k] < from[k + 1]
          /\ segs[k].cache = Turn(ms)[z].cache
      BY <1>1, <2>6, <2>10, SegmentIs DEF segs
    <3>2. z \in DOMAIN Turn(ms)
      <4>1. Len(Turn(ms)) \in Nat /\ DOMAIN Turn(ms) = 1 .. Len(Turn(ms))
        BY <1>1, TurnFacts
      <4>2. QED
        BY <3>1, <4>1
    <3> HIDE DEF z
    <3>3. /\ TurnAt(ms)[z] \in DOMAIN ms /\ ms[TurnAt(ms)[z]].role # "system"
          /\ Turn(ms)[z].cache = ms[TurnAt(ms)[z]].cache
      BY <1>1, <3>2, TurnFacts
    <3>4. ms[TurnAt(ms)[z]].cache
      BY <2>8, <3>1, <3>3
    <3>5. QED
      BY <3>3, <3>4 DEF Breaks, z
  <2>12. /\ k \in DOMAIN segs1
         /\ \A x \in 1 .. k : segs1[x].side = segs[x].side /\ segs1[x].blocks = segs[x].blocks
    BY <2>6, <2>10, <2>11, SegmentsAgree DEF segs, segs1
  <2>13. segs[k].side = "assistant" =>
           \A x \in DOMAIN segs[k].blocks : segs[k].blocks[x].kind # "use"
    BY <1>1, <2>6, <2>10, <2>11, NoCalls DEF segs
  <2>14. k \in Nat /\ k <= Len(segs) /\ k <= Len(segs1)
    BY <1>5, <2>6, <2>12
  <2>15. \A x \in 1 .. k : all1[x].side = all[x].side /\ all1[x].blocks = all[x].blocks
    <3>1. \A x \in 1 .. k :
            /\ RenderSegment(segs1, x).side = RenderSegment(segs, x).side
            /\ RenderSegment(segs1, x).blocks = RenderSegment(segs, x).blocks
      BY <1>5, <2>12, <2>13, <2>14, RenderedAgree
    <3>2. \A x \in 1 .. k : x \in 1 .. Len(segs) /\ x \in 1 .. Len(segs1)
      BY <1>5, <2>14
    <3>3. QED
      BY <1>6, <3>1, <3>2
  <2>16. \A y \in 1 .. q : /\ y \in DOMAIN f1
                           /\ f1[y].side = f[y].side /\ f1[y].blocks = f[y].blocks
    <3>1. q \in DOMAIN InOrder(NonEmpty(all)) /\ InOrder(NonEmpty(all))[q] = k
      BY <2>6 DEF k
    <3>2. k <= Len(all) /\ k <= Len(all1)
      BY <1>7, <2>14
    <3>3. \A y \in 1 .. q : /\ y \in DOMAIN Sub(all1, NonEmpty(all1))
                            /\ Sub(all1, NonEmpty(all1))[y].side = Sub(all, NonEmpty(all))[y].side
                            /\ Sub(all1, NonEmpty(all1))[y].blocks
                                 = Sub(all, NonEmpty(all))[y].blocks
      <4>1. AgreeTo(all, all1, k)
        BY <1>7, <2>14, <2>15, <3>2 DEF AgreeTo
      <4>2. QED
        BY <3>1, <4>1, FullAgree
    <3>4. QED
      BY <1>4, <3>3
  <2>17. /\ c[q] \in Nat /\ c[q] <= Len(t1)
         /\ \A y \in 1 .. c[q] : t1[y] = t[y]
    BY <1>2, <1>3, <1>8, <1>9, <2>4, <2>16, StreamsAgree DEF t, t1
  <2>18. p \in Nat /\ p >= 1 /\ p <= c[q]
    <3>1. /\ c[q - 1] \in Nat /\ Len(Blocks(f)[q]) \in Nat
          /\ c[q] = c[q - 1] + Len(Blocks(f)[q])
      BY <1>8, <2>1, OffsetPlaces
    <3>2. QED
      BY <2>3, <3>1
  <2>19. DOMAIN t1 = 1 .. Len(t1) /\ Len(t1) \in Nat
    BY <1>10, SeqIs
  <2>20. p \in 1 .. Len(t1) /\ \A y \in 1 .. p : y \in 1 .. c[q]
    BY <2>17, <2>18, <2>19
  <2>21. QED
    BY <2>17, <2>19, <2>20
<1>12. QED
  BY <1>10, <1>11 DEF MarkedAlike, t, m, t1

\* One block that shows all of a message.
FlatShown(x) ==
  [side |-> x.side, type |-> "text", id |-> "-",
   body |-> [i \in DOMAIN x.blocks |-> Part("text", x.blocks[i])]]

\* In a flattened request every message that is not a system message is a turn
\* of one block.
LEMMA FlatLaid ==
  ASSUME NEW ms, Prompted(ms)
  PROVE  LET turns == RenderFlat(ms).messages
             s     == TurnStream(turns)
             m     == TurnMarks(turns)
         IN  /\ IsSeq(s) /\ Len(s) = Len(Turn(ms))
             /\ IsSeq(m) /\ Len(m) = Len(Turn(ms))
             /\ \A q \in 1 .. Len(Turn(ms)) : /\ s[q] = FlatShown(Turn(ms)[q])
                                              /\ m[q] = Turn(ms)[q].cache
<1> DEFINE P == {i \in DOMAIN ms : ms[i].role # "system"}
           items == Sub(ms, P)
           block(x) == [type |-> "text", id |-> "-", cache |-> x.cache,
                        body |-> [i \in DOMAIN x.blocks |-> Part("text", x.blocks[i])]]
           turns == RenderFlat(ms).messages
           t == Turn(ms)
           n == Len(t)
           bare == [k \in DOMAIN turns |-> BareRow(turns[k])]
           mark == [k \in DOMAIN turns |-> MarkRow(turns[k])]
           off == [k \in 0 .. n |-> k]
<1>1. n \in Nat /\ DOMAIN t = 1 .. n
  BY TurnFacts
<1>2. turns = [i \in DOMAIN items |->
                 [side |-> SideOf(items[i]), content |-> <<block(items[i])>>]]
  BY DEF RenderFlat
<1>3. t = [i \in DOMAIN items |-> [side |-> SideOf(items[i]), blocks |-> items[i].blocks,
                                   cache |-> items[i].cache]]
  BY DEF Turn
<1>4. TurnStream(turns) = FlattenSeq(bare) /\ TurnMarks(turns) = FlattenSeq(mark)
  BY DEF TurnStream, TurnMarks
<1> HIDE DEF P, items, turns, t, n
<1>5. DOMAIN items = 1 .. n /\ DOMAIN turns = 1 .. n
  BY <1>1, <1>2, <1>3
<1>6. ASSUME NEW k \in 1 .. n
      PROVE  /\ bare[k] = <<FlatShown(t[k])>> /\ mark[k] = <<t[k].cache>>
  <2> DEFINE b == block(items[k])
             turn == turns[k]
  <2>1. turn = [side |-> SideOf(items[k]), content |-> <<b>>]
    BY <1>2, <1>5
  <2>2. t[k] = [side |-> SideOf(items[k]), blocks |-> items[k].blocks,
                cache |-> items[k].cache]
    BY <1>3, <1>5
  <2>3. Bare(b, SideOf(items[k])) = FlatShown(t[k]) /\ b.cache = t[k].cache
    BY <2>2 DEF Bare, FlatShown
  <2>4. bare[k] = BareRow(turn) /\ mark[k] = MarkRow(turn)
    BY <1>5
  <2> HIDE DEF b, turn
  <2>5. turn.content = <<b>> /\ turn.side = SideOf(items[k])
    BY <2>1
  <2>6. BareRow(turn) = <<Bare(b, SideOf(items[k]))>> /\ MarkRow(turn) = <<b.cache>>
    BY <2>5 DEF BareRow, MarkRow
  <2>7. QED
    BY <2>3, <2>4, <2>6
<1>7. /\ DOMAIN bare = 1 .. n /\ bare = [k \in 1 .. n |-> bare[k]]
      /\ DOMAIN mark = 1 .. n /\ mark = [k \in 1 .. n |-> mark[k]]
  BY <1>5
<1> HIDE DEF bare, mark
<1>8. \A x : IsSeq(<<x>>) /\ Len(<<x>>) = 1 /\ <<x>>[1] = x
  <2>1. ASSUME NEW x PROVE <<x>> \in Seq({x})
    OBVIOUS
  <2>2. QED
    BY <2>1, SeqFacts
<1>9. Nested(bare) /\ Len(bare) = n /\ Nested(mark) /\ Len(mark) = n
  <2>1. bare \in [1 .. n -> Range(bare)] /\ mark \in [1 .. n -> Range(mark)]
    BY <1>7 DEF Range
  <2>2. bare \in Seq(Range(bare)) /\ Len(bare) = n /\ mark \in Seq(Range(mark)) /\ Len(mark) = n
    BY <1>1, <2>1, FcnIsSeq
  <2>3. \A k \in 1 .. n : IsSeq(bare[k]) /\ IsSeq(mark[k])
    BY <1>6, <1>8
  <2>4. QED
    BY <1>7, <2>2, <2>3 DEF Nested, IsSeq
<1>10. Offsets(bare, off) /\ Offsets(mark, off)
  <2>1. off \in [0 .. n -> Nat] /\ off[0] = 0
    BY <1>1
  <2>2. ASSUME NEW k \in 1 .. n
        PROVE  off[k] = off[k - 1] + Len(bare[k]) /\ off[k] = off[k - 1] + Len(mark[k])
    <3>1. Len(bare[k]) = 1 /\ Len(mark[k]) = 1
      BY <1>6, <1>8
    <3>2. off[k] = k /\ off[k - 1] = k - 1
      BY <1>1
    <3>3. QED
      BY <1>1, <3>1, <3>2
  <2> HIDE DEF off
  <2>3. QED
    BY <1>9, <2>1, <2>2 DEF Offsets
<1>11. off[n] = n /\ \A k \in 1 .. n : off[k - 1] + 1 = k
  BY <1>1
<1> HIDE DEF off
<1>12. /\ IsSeq(FlattenSeq(bare)) /\ Len(FlattenSeq(bare)) = off[n]
       /\ \A k \in 1 .. n : \A j \in 1 .. Len(bare[k]) :
            FlattenSeq(bare)[off[k - 1] + j] = bare[k][j]
  <2>1. /\ IsSeq(FlattenSeq(bare)) /\ Len(FlattenSeq(bare)) = off[Len(bare)]
        /\ \A k \in 1 .. Len(bare) : \A j \in 1 .. Len(bare[k]) :
             FlattenSeq(bare)[off[k - 1] + j] = bare[k][j]
    BY <1>9, <1>10, FlattenLaid
  <2>2. QED
    BY <1>9, <2>1
<1>13. /\ IsSeq(FlattenSeq(mark)) /\ Len(FlattenSeq(mark)) = off[n]
       /\ \A k \in 1 .. n : \A j \in 1 .. Len(mark[k]) :
            FlattenSeq(mark)[off[k - 1] + j] = mark[k][j]
  <2>1. /\ IsSeq(FlattenSeq(mark)) /\ Len(FlattenSeq(mark)) = off[Len(mark)]
        /\ \A k \in 1 .. Len(mark) : \A j \in 1 .. Len(mark[k]) :
             FlattenSeq(mark)[off[k - 1] + j] = mark[k][j]
    BY <1>9, <1>10, FlattenLaid
  <2>2. QED
    BY <1>9, <2>1
<1>14. ASSUME NEW q \in 1 .. n
       PROVE  FlattenSeq(bare)[q] = FlatShown(t[q]) /\ FlattenSeq(mark)[q] = t[q].cache
  <2>1. 1 \in 1 .. Len(bare[q]) /\ 1 \in 1 .. Len(mark[q]) /\ off[q - 1] + 1 = q
    BY <1>6, <1>8, <1>11
  <2>2. bare[q][1] = FlatShown(t[q]) /\ mark[q][1] = t[q].cache
    BY <1>6, <1>8
  <2>3. FlattenSeq(bare)[off[q - 1] + 1] = bare[q][1]
    BY <1>12, <2>1
  <2>4. FlattenSeq(mark)[off[q - 1] + 1] = mark[q][1]
    BY <1>13, <2>1
  <2>5. QED
    BY <2>1, <2>2, <2>3, <2>4
<1>15. QED
  BY <1>4, <1>11, <1>12, <1>13, <1>14 DEF turns, t, n

\* Flattened, too, the prompts render alike up to the breakpoint.
LEMMA FlatReused ==
  ASSUME NEW ms, NEW ms1, NEW n, Continues(ms, ms1, n), Breaks(ms, n)
  PROVE  MarkedAlike(TurnStream(RenderFlat(ms).messages), TurnMarks(RenderFlat(ms).messages),
                     TurnStream(RenderFlat(ms1).messages))
<1> DEFINE t == TurnStream(RenderFlat(ms).messages)
           m == TurnMarks(RenderFlat(ms).messages)
           t1 == TurnStream(RenderFlat(ms1).messages)
<1>1. Prompted(ms) /\ Prompted(ms1)
  BY DEF Continues
<1>2. /\ IsSeq(t) /\ Len(t) = Len(Turn(ms)) /\ IsSeq(m) /\ Len(m) = Len(Turn(ms))
      /\ \A q \in 1 .. Len(Turn(ms)) : t[q] = FlatShown(Turn(ms)[q]) /\ m[q] = Turn(ms)[q].cache
  BY <1>1, FlatLaid
<1>3. /\ IsSeq(t1) /\ Len(t1) = Len(Turn(ms1))
      /\ \A q \in 1 .. Len(Turn(ms1)) : t1[q] = FlatShown(Turn(ms1)[q])
  BY <1>1, FlatLaid
<1>4. /\ Len(Turn(ms)) \in Nat /\ DOMAIN Turn(ms) = 1 .. Len(Turn(ms))
      /\ \A q \in DOMAIN Turn(ms) :
           /\ TurnAt(ms)[q] \in DOMAIN ms /\ ms[TurnAt(ms)[q]].role # "system"
           /\ Turn(ms)[q].cache = ms[TurnAt(ms)[q]].cache
  BY <1>1, TurnFacts
<1>5. Len(Turn(ms1)) \in Nat /\ DOMAIN Turn(ms1) = 1 .. Len(Turn(ms1))
  BY <1>1, TurnFacts
<1> HIDE DEF t, m, t1
<1>6. ASSUME NEW p \in DOMAIN m, m[p] PROVE p \in DOMAIN t1 /\ \A y \in 1 .. p : t1[y] = t[y]
  <2>1. p \in DOMAIN Turn(ms) /\ m[p] = Turn(ms)[p].cache
    BY <1>2, <1>4, SeqIs
  <2>2. ms[TurnAt(ms)[p]].cache
    BY <1>4, <1>6, <2>1
  <2>3. TurnAt(ms)[p] = n
    BY <1>4, <2>1, <2>2 DEF Breaks
  <2>4. /\ p \in Nat /\ p + 1 \in DOMAIN Turn(ms) /\ p + 1 \in DOMAIN Turn(ms1)
        /\ \A q \in 1 .. p + 1 : Turn(ms1)[q].side = Turn(ms)[q].side
        /\ \A q \in 1 .. p : Turn(ms1)[q].blocks = Turn(ms)[q].blocks
    BY <2>1, <2>3, TurnsAgree
  <2>5. ASSUME NEW y \in 1 .. p PROVE t1[y] = t[y]
    <3>1. y \in 1 .. Len(Turn(ms)) /\ y \in 1 .. Len(Turn(ms1)) /\ y \in 1 .. p + 1
      BY <1>4, <1>5, <2>4
    <3>2. FlatShown(Turn(ms1)[y]) = FlatShown(Turn(ms)[y])
      BY <2>4, <3>1 DEF FlatShown
    <3>3. QED
      BY <1>2, <1>3, <3>1, <3>2
  <2>6. p \in DOMAIN t1
    <3>1. DOMAIN t1 = 1 .. Len(Turn(ms1))
      BY <1>3, SeqIs
    <3>2. p >= 1
      BY <1>4, <2>1
    <3>3. QED
      BY <1>5, <2>4, <3>1, <3>2
  <2>7. QED
    BY <2>5, <2>6
<1>7. QED
  BY <1>2, <1>3, <1>6 DEF MarkedAlike, t, m, t1

\* What the system field adds to the stream.
SystemStream(req) == [i \in DOMAIN req.system |-> Bare(req.system[i], "system")]

\* System messages are the same ones, and show the same.
LEMMA SystemFlat ==
  ASSUME NEW ms, NEW ms1, NEW n, Continues(ms, ms1, n)
  PROVE  /\ IsSeq(RenderFlat(ms).system)
         /\ SystemStream(RenderFlat(ms1)) = SystemStream(RenderFlat(ms))
<1> DEFINE L == Len(ms)
           L1 == Len(ms1)
           S == {i \in DOMAIN ms : ms[i].role = "system"}
           S1 == {i \in DOMAIN ms1 : ms1[i].role = "system"}
           o == InOrder(S)
           c == Cardinality(S)
           block(x) == [type |-> "text", id |-> "-", cache |-> x.cache,
                        body |-> [i \in DOMAIN x.blocks |-> Part("text", x.blocks[i])]]
           y == RenderFlat(ms).system
           y1 == RenderFlat(ms1).system
<1>1. /\ L \in Nat /\ DOMAIN ms = 1 .. L /\ L1 \in Nat /\ DOMAIN ms1 = 1 .. L1
      /\ n \in Nat /\ n <= L /\ L <= L1
  BY SeqIs DEF Continues, Prompted
<1>2. S1 = S /\ S \in SUBSET (1 .. L) /\ \A i \in S : i \in 1 .. n
  <2>1. ASSUME NEW i \in S PROVE i \in 1 .. n /\ i \in S1
    <3>1. i \in 1 .. L /\ ~(i > n)
      BY <1>1 DEF Continues
    <3>2. i \in 1 .. n /\ i \in DOMAIN ms1 /\ ms1[i].role = ms[i].role
      BY <1>1, <3>1 DEF Continues
    <3>3. QED
      BY <3>2
  <2>2. ASSUME NEW i \in S1 PROVE i \in S
    <3>1. i \in 1 .. L1 /\ ~(i > n)
      BY <1>1 DEF Continues
    <3>2. i \in 1 .. L /\ ms1[i].role = ms[i].role
      BY <1>1, <3>1 DEF Continues
    <3>3. QED
      BY <1>1, <3>2
  <2>3. S \in SUBSET (1 .. L)
    BY <1>1
  <2> HIDE DEF S, S1
  <2>4. QED
    BY <2>1, <2>2, <2>3
<1>3. /\ y = [i \in DOMAIN Sub(ms, S) |-> block(Sub(ms, S)[i])]
      /\ y1 = [i \in DOMAIN Sub(ms1, S1) |-> block(Sub(ms1, S1)[i])]
  BY DEF RenderFlat
<1>4. /\ Sub(ms, S) = [q \in DOMAIN o |-> ms[o[q]]]
      /\ Sub(ms1, S1) = [q \in DOMAIN InOrder(S1) |-> ms1[InOrder(S1)[q]]]
  BY DEF Sub
<1> HIDE DEF L, L1, S, S1, o, c, y, y1
<1>5. c \in Nat /\ DOMAIN o = 1 .. c /\ o \in [1 .. c -> S]
  BY <1>1, <1>2, InOrderFacts DEF o, c
<1>6. /\ y = [q \in 1 .. c |-> block(ms[o[q]])] /\ y1 = [q \in 1 .. c |-> block(ms1[o[q]])]
  <2> HIDE DEF block
  <2>1. Sub(ms1, S1) = [q \in DOMAIN o |-> ms1[o[q]]]
    BY <1>2, <1>4 DEF o
  <2>2. QED
    BY <1>3, <1>4, <1>5, <2>1
<1>7. IsSeq(y)
  <2> HIDE DEF block
  <2>1. y \in [1 .. c -> Range(y)]
    BY <1>6 DEF Range
  <2>2. y \in Seq(Range(y))
    BY <1>5, <2>1, FcnIsSeq
  <2>3. QED
    BY <2>2 DEF IsSeq
<1>8. \A q \in 1 .. c : Bare(block(ms1[o[q]]), "system") = Bare(block(ms[o[q]]), "system")
  <2>1. ASSUME NEW q \in 1 .. c
        PROVE  Bare(block(ms1[o[q]]), "system") = Bare(block(ms[o[q]]), "system")
    <3>1. o[q] \in 1 .. n
      BY <1>2, <1>5
    <3>2. ms1[o[q]].blocks = ms[o[q]].blocks
      BY <3>1 DEF Continues
    <3>3. QED
      BY <3>2 DEF Bare
  <2>2. QED
    BY <2>1
<1>9. SystemStream(RenderFlat(ms1)) = SystemStream(RenderFlat(ms))
  <2> HIDE DEF block
  <2>1. /\ SystemStream(RenderFlat(ms)) = [i \in DOMAIN y |-> Bare(y[i], "system")]
        /\ SystemStream(RenderFlat(ms1)) = [i \in DOMAIN y1 |-> Bare(y1[i], "system")]
    BY DEF SystemStream, y, y1
  <2>2. /\ [i \in DOMAIN y |-> Bare(y[i], "system")]
             = [i \in 1 .. c |-> Bare(block(ms[o[i]]), "system")]
        /\ [i \in DOMAIN y1 |-> Bare(y1[i], "system")]
             = [i \in 1 .. c |-> Bare(block(ms1[o[i]]), "system")]
    BY <1>6
  <2>3. [i \in 1 .. c |-> Bare(block(ms1[o[i]]), "system")]
          = [i \in 1 .. c |-> Bare(block(ms[o[i]]), "system")]
    BY <1>8
  <2>4. QED
    BY <2>1, <2>2, <2>3
<1>10. QED
  BY <1>7, <1>9 DEF y
-----------------------------------------------------------------------------
(* What is cached *)

\* Rows that show the same, one by one.
ShowAlike(s, s1, side) ==
  /\ Nested(s) /\ Nested(s1) /\ Len(s1) = Len(s)
  /\ \A k \in 1 .. Len(s) :
       /\ Len(s1[k]) = Len(s[k])
       /\ \A j \in 1 .. Len(s[k]) : Bare(s1[k][j], side) = Bare(s[k][j], side)

\* They show the same put together.
LEMMA RowsAlike ==
  ASSUME NEW s, NEW s1, NEW side, ShowAlike(s, s1, side)
  PROVE  /\ IsSeq(FlattenSeq(s))
         /\ [i \in DOMAIN FlattenSeq(s1) |-> Bare(FlattenSeq(s1)[i], side)]
              = [i \in DOMAIN FlattenSeq(s) |-> Bare(FlattenSeq(s)[i], side)]
<1> DEFINE n == Len(s)
           u == FlattenSeq(s)
           u1 == FlattenSeq(s1)
<1>0. /\ Nested(s) /\ Nested(s1) /\ Len(s1) = n
      /\ \A k \in 1 .. n : Len(s1[k]) = Len(s[k])
      /\ \A k \in 1 .. n : \A j \in 1 .. Len(s[k]) : Bare(s1[k][j], side) = Bare(s[k][j], side)
  BY DEF ShowAlike
<1>1. PICK c : Offsets(s, c)
  BY <1>0, OffsetsExist
<1>2. /\ n \in Nat /\ \A k \in 0 .. n : c[k] \in Nat
      /\ Placed(s, c)
  BY <1>0, <1>1, OffsetPlaces
<1>3. /\ IsSeq(u) /\ Len(u) = c[n]
      /\ \A k \in 1 .. n : \A j \in 1 .. Len(s[k]) : u[c[k - 1] + j] = s[k][j]
  BY <1>0, <1>1, FlattenLaid
<1>4. Offsets(s1, c)
  BY <1>0, <1>1 DEF Offsets
<1>5. /\ IsSeq(u1) /\ Len(u1) = c[n]
      /\ \A k \in 1 .. n : \A j \in 1 .. Len(s1[k]) : u1[c[k - 1] + j] = s1[k][j]
  BY <1>0, <1>4, FlattenLaid
<1> HIDE DEF u, u1
<1>6. DOMAIN u = 1 .. c[n] /\ DOMAIN u1 = 1 .. c[n]
  BY <1>3, <1>5, SeqIs
<1>7. ASSUME NEW p \in 1 .. c[n] PROVE Bare(u1[p], side) = Bare(u[p], side)
  <2>1. PICK k \in 1 .. n : \E j \in 1 .. Len(s[k]) : p = c[k - 1] + j
    BY <1>2 DEF Placed
  <2>2. PICK j \in 1 .. Len(s[k]) : p = c[k - 1] + j
    BY <2>1
  <2>3. u[p] = s[k][j] /\ u1[p] = s1[k][j]
    BY <1>0, <1>3, <1>5, <2>2
  <2>4. QED
    BY <1>0, <2>1, <2>2, <2>3
<1>8. [i \in DOMAIN u1 |-> Bare(u1[i], side)] = [i \in DOMAIN u |-> Bare(u[i], side)]
  BY <1>6, <1>7
<1>9. QED
  BY <1>3, <1>8 DEF u, u1

\* The system field shows the same in both requests.
LEMMA SystemRich ==
  ASSUME NEW ms, NEW ms1, NEW n, Continues(ms, ms1, n)
  PROVE  /\ IsSeq(RenderRich(ms).system)
         /\ SystemStream(RenderRich(ms1)) = SystemStream(RenderRich(ms))
<1> DEFINE L == Len(ms)
           L1 == Len(ms1)
           S == {i \in DOMAIN ms : ms[i].role = "system" /\ ms[i].blocks # <<>>}
           S1 == {i \in DOMAIN ms1 : ms1[i].role = "system" /\ ms1[i].blocks # <<>>}
           o == InOrder(S)
           c == Cardinality(S)
           row(x) == CacheLast([i \in DOMAIN x.blocks |-> RenderSystemBlock(x.blocks[i])],
                               x.cache)
           y == [k \in 1 .. c |-> row(ms[o[k]])]
           y1 == [k \in 1 .. c |-> row(ms1[o[k]])]
<1>1. /\ L \in Nat /\ DOMAIN ms = 1 .. L /\ L1 \in Nat /\ DOMAIN ms1 = 1 .. L1
      /\ n \in Nat /\ n <= L /\ L <= L1
  BY SeqIs DEF Continues, Prompted
<1>2. S1 = S /\ S \in SUBSET (1 .. L) /\ \A i \in S : i \in 1 .. n /\ i \in 1 .. L
  <2>1. ASSUME NEW i \in S PROVE i \in 1 .. n /\ i \in 1 .. L /\ i \in S1
    <3>1. i \in 1 .. L /\ ~(i > n)
      BY <1>1 DEF Continues
    <3>2. /\ i \in 1 .. n /\ i \in DOMAIN ms1 /\ ms1[i].role = ms[i].role
          /\ ms1[i].blocks = ms[i].blocks
      BY <1>1, <3>1 DEF Continues
    <3>3. QED
      BY <3>1, <3>2
  <2>2. ASSUME NEW i \in S1 PROVE i \in S
    <3>1. i \in 1 .. L1 /\ ~(i > n)
      BY <1>1 DEF Continues
    <3>2. i \in 1 .. L /\ ms1[i].role = ms[i].role /\ ms1[i].blocks = ms[i].blocks
      BY <1>1, <3>1 DEF Continues
    <3>3. QED
      BY <1>1, <3>2
  <2>3. S \in SUBSET (1 .. L)
    BY <1>1
  <2> HIDE DEF S, S1
  <2>4. QED
    BY <2>1, <2>2, <2>3
<1>3. /\ System(ms) = FlattenSeq([k \in DOMAIN Sub(ms, S) |-> row(Sub(ms, S)[k])])
      /\ System(ms1) = FlattenSeq([k \in DOMAIN Sub(ms1, S1) |-> row(Sub(ms1, S1)[k])])
  BY DEF System
<1>4. /\ Sub(ms, S) = [q \in DOMAIN o |-> ms[o[q]]]
      /\ Sub(ms1, S1) = [q \in DOMAIN InOrder(S1) |-> ms1[InOrder(S1)[q]]]
  BY DEF Sub
<1>5. \A i \in S : ms[i].blocks # <<>>
  OBVIOUS
<1> HIDE DEF L, L1, S, S1, o, c
<1>6. c \in Nat /\ DOMAIN o = 1 .. c /\ o \in [1 .. c -> S]
  BY <1>1, <1>2, InOrderFacts DEF o, c
<1>7. System(ms) = FlattenSeq(y) /\ System(ms1) = FlattenSeq(y1)
  <2> HIDE DEF row
  <2>1. Sub(ms1, S1) = [q \in DOMAIN o |-> ms1[o[q]]]
    BY <1>2, <1>4 DEF o
  <2>2. /\ [k \in DOMAIN Sub(ms, S) |-> row(Sub(ms, S)[k])] = y
        /\ [k \in DOMAIN Sub(ms1, S1) |-> row(Sub(ms1, S1)[k])] = y1
    BY <1>4, <1>6, <2>1
  <2>3. QED
    BY <1>3, <2>2
<1>8. ASSUME NEW k \in 1 .. c
      PROVE  /\ IsSeq(row(ms[o[k]])) /\ IsSeq(row(ms1[o[k]]))
             /\ Len(row(ms1[o[k]])) = Len(row(ms[o[k]]))
             /\ \A j \in 1 .. Len(row(ms[o[k]])) :
                  Bare(row(ms1[o[k]])[j], "system") = Bare(row(ms[o[k]])[j], "system")
  <2> DEFINE bs == ms[o[k]].blocks
             w == [i \in DOMAIN bs |-> RenderSystemBlock(bs[i])]
             r == CacheLast(w, ms[o[k]].cache)
             r1 == CacheLast(w, ms1[o[k]].cache)
  <2>1. o[k] \in S /\ o[k] \in 1 .. n /\ o[k] \in 1 .. L
    BY <1>2, <1>6
  <2>2. IsSeq(bs) /\ bs # <<>> /\ ms1[o[k]].blocks = bs
    BY <1>1, <1>5, <2>1 DEF Continues, Prompted
  <2>3. row(ms[o[k]]) = r /\ row(ms1[o[k]]) = r1
    BY <2>2
  <2> HIDE DEF row, bs
  <2>4. AreRendered(w) /\ w # <<>>
    <3> DEFINE l == Len(bs)
    <3>1. l \in Nat /\ DOMAIN bs = 1 .. l /\ l # 0
      BY <2>2, SeqIs, EmptySeq DEF IsSeq
    <3>2. ASSUME NEW i \in 1 .. l PROVE IsRendered(RenderSystemBlock(bs[i]))
      BY BlockFacts DEF RenderSystemBlock
    <3>3. w = [i \in 1 .. l |-> RenderSystemBlock(bs[i])]
      BY <3>1
    <3> HIDE DEF w, l
    <3>4. w \in [1 .. l -> Range(w)]
      BY <3>3 DEF Range
    <3>5. w \in Seq(Range(w)) /\ Len(w) = l /\ DOMAIN w = 1 .. l
      BY <3>1, <3>4, FcnIsSeq
    <3>6. AreRendered(w)
      BY <3>2, <3>3, <3>5 DEF AreRendered, IsSeq
    <3>7. w # <<>>
      BY <3>1, <3>5, EmptySeq
    <3>8. QED
      BY <3>6, <3>7
  <2> HIDE DEF w
  <2>5. /\ AreRendered(r) /\ Len(r) = Len(w) /\ DOMAIN r = DOMAIN w
        /\ \A i \in DOMAIN r : r[i].type = w[i].type /\ r[i].id = w[i].id /\ r[i].body = w[i].body
    BY <2>4, Cached
  <2>6. /\ AreRendered(r1) /\ Len(r1) = Len(w) /\ DOMAIN r1 = DOMAIN w
        /\ \A i \in DOMAIN r1 : r1[i].type = w[i].type /\ r1[i].id = w[i].id /\ r1[i].body = w[i].body
    BY <2>4, Cached
  <2> HIDE DEF r, r1
  <2>7. DOMAIN r = 1 .. Len(r) /\ IsSeq(r) /\ IsSeq(r1)
    BY <2>5, <2>6, SeqIs DEF AreRendered
  <2>8. \A j \in 1 .. Len(r) : Bare(r1[j], "system") = Bare(r[j], "system")
    BY <2>5, <2>6, <2>7 DEF Bare
  <2>9. QED
    BY <2>3, <2>5, <2>6, <2>7, <2>8
<1>9. /\ \A k \in 1 .. c : y[k] = row(ms[o[k]]) /\ y1[k] = row(ms1[o[k]])
      /\ y = [k \in 1 .. c |-> y[k]] /\ y1 = [k \in 1 .. c |-> y1[k]]
  <2> HIDE DEF row
  <2>1. QED
    OBVIOUS
<1> HIDE DEF row, y, y1
<1>10. Nested(y) /\ Len(y) = c /\ Nested(y1) /\ Len(y1) = c
  <2>1. y \in [1 .. c -> Range(y)] /\ y1 \in [1 .. c -> Range(y1)]
    BY <1>9 DEF Range
  <2>2. /\ y \in Seq(Range(y)) /\ Len(y) = c /\ DOMAIN y = 1 .. c
        /\ y1 \in Seq(Range(y1)) /\ Len(y1) = c /\ DOMAIN y1 = 1 .. c
    BY <1>6, <2>1, FcnIsSeq
  <2>3. \A k \in 1 .. c : IsSeq(y[k]) /\ IsSeq(y1[k])
    BY <1>8, <1>9
  <2>4. QED
    BY <2>2, <2>3 DEF Nested, IsSeq
<1>11. ShowAlike(y, y1, "system")
  <2>1. ASSUME NEW k \in 1 .. c
        PROVE  /\ Len(y1[k]) = Len(y[k])
               /\ \A j \in 1 .. Len(y[k]) : Bare(y1[k][j], "system") = Bare(y[k][j], "system")
    <3>1. y[k] = row(ms[o[k]]) /\ y1[k] = row(ms1[o[k]])
      BY <1>9
    <3>2. QED
      BY <1>8, <3>1
  <2>2. QED
    BY <1>10, <2>1 DEF ShowAlike
<1>12. /\ IsSeq(FlattenSeq(y))
       /\ [i \in DOMAIN FlattenSeq(y1) |-> Bare(FlattenSeq(y1)[i], "system")]
            = [i \in DOMAIN FlattenSeq(y) |-> Bare(FlattenSeq(y)[i], "system")]
  BY <1>11, RowsAlike
<1>13. RenderRich(ms).system = FlattenSeq(y) /\ RenderRich(ms1).system = FlattenSeq(y1)
  BY <1>7 DEF RenderRich
<1>14. QED
  BY <1>12, <1>13 DEF SystemStream

\* If the system field shows the same, and so do the turns up to each mark,
\* then what is cached is a prefix of the next request.
LEMMA CachedReused ==
  ASSUME NEW req, NEW req1, IsSeq(req.system), SystemStream(req1) = SystemStream(req),
         MarkedAlike(TurnStream(req.messages), TurnMarks(req.messages),
                     TurnStream(req1.messages))
  PROVE  IsPrefix(CachedStream(req), Stream(req1))
<1> DEFINE a == SystemStream(req)
           b == [i \in DOMAIN req.system |-> req.system[i].cache]
           t == TurnStream(req.messages)
           t1 == TurnStream(req1.messages)
           m == TurnMarks(req.messages)
           u == a \o t
           u1 == a \o t1
           marks == b \o m
           marked == {i \in DOMAIN marks : marks[i]}
           x == Max(marked)
           l == Len(req.system)
           z == Len(t)
           z1 == Len(t1)
<1>1. Stream(req) = u
  BY DEF Stream, SystemStream, TurnStream, BareRow, Bare
<1>2. Stream(req1) = u1
  <2>1. Stream(req1) = SystemStream(req1) \o t1
    BY DEF Stream, SystemStream, TurnStream, BareRow, Bare
  <2>2. QED
    BY <2>1
<1>3. CachedStream(req) = IF marked = {} THEN <<>> ELSE SubSeq(Stream(req), 1, x)
  BY DEF CachedStream, TurnMarks, MarkRow
<1>4. l \in Nat /\ DOMAIN req.system = 1 .. l
  BY SeqIs
<1>5. /\ IsSeq(t) /\ IsSeq(t1) /\ IsSeq(m) /\ Len(m) = z
      /\ \A p \in DOMAIN m : m[p] => p \in DOMAIN t1 /\ \A y \in 1 .. p : t1[y] = t[y]
  BY DEF MarkedAlike
<1>6. /\ a = [i \in 1 .. l |-> a[i]] /\ b = [i \in 1 .. l |-> b[i]]
  BY <1>4 DEF SystemStream
<1> HIDE DEF a, b, t, t1, m, l
<1>7. /\ a \in Seq(Range(a)) /\ Len(a) = l /\ b \in Seq(Range(b)) /\ Len(b) = l
  <2>1. a \in [1 .. l -> Range(a)] /\ b \in [1 .. l -> Range(b)]
    BY <1>6 DEF Range
  <2>2. QED
    BY <1>4, <2>1, FcnIsSeq
<1>8. z \in Nat /\ z1 \in Nat /\ DOMAIN t1 = 1 .. z1 /\ DOMAIN m = 1 .. z
  BY <1>5, SeqIs
<1> DEFINE A == Range(a) \cup Range(t) \cup Range(t1)
           B == Range(b) \cup Range(m)
<1>9. a \in Seq(A) /\ t \in Seq(A) /\ t1 \in Seq(A) /\ b \in Seq(B) /\ m \in Seq(B)
  <2>1. IsSeq(a) /\ IsSeq(b)
    BY <1>7 DEF IsSeq
  <2>2. /\ Range(a) \subseteq A /\ Range(t) \subseteq A /\ Range(t1) \subseteq A
        /\ Range(b) \subseteq B /\ Range(m) \subseteq B
    OBVIOUS
  <2> HIDE DEF A, B
  <2>3. QED
    BY <1>5, <2>1, <2>2, SeqOver
<1> HIDE DEF A, B, z, z1
<1>10. /\ u \in Seq(A) /\ Len(u) = l + z
       /\ \A j \in 1 .. l + z : u[j] = IF j <= l THEN a[j] ELSE t[j - l]
  BY <1>7, <1>9, ConcatProperties DEF z
<1>11. /\ u1 \in Seq(A) /\ Len(u1) = l + z1
       /\ \A j \in 1 .. l + z1 : u1[j] = IF j <= l THEN a[j] ELSE t1[j - l]
  BY <1>7, <1>9, ConcatProperties DEF z1
<1>12. /\ marks \in Seq(B) /\ DOMAIN marks = 1 .. l + z
       /\ \A j \in 1 .. l + z : marks[j] = IF j <= l THEN b[j] ELSE m[j - l]
  <2>1. /\ marks \in Seq(B) /\ Len(marks) = l + z
        /\ \A j \in 1 .. l + z : marks[j] = IF j <= l THEN b[j] ELSE m[j - l]
    <3>1. /\ b \o m \in Seq(B) /\ Len(b \o m) = Len(b) + Len(m)
          /\ \A j \in 1 .. Len(b) + Len(m) :
               (b \o m)[j] = IF j <= Len(b) THEN b[j] ELSE m[j - Len(b)]
      BY <1>9, ConcatProperties
    <3>2. Len(b) = l /\ Len(m) = z
      BY <1>5, <1>7
    <3> HIDE DEF l, z
    <3>3. QED
      BY <3>1, <3>2
  <2> HIDE DEF marks
  <2>2. DOMAIN marks = 1 .. Len(marks)
    BY <2>1, SeqFacts
  <2>3. QED
    BY <2>1, <2>2
<1> HIDE DEF u, u1, marks
<1>13. CASE marked = {}
  <2>1. CachedStream(req) = <<>>
    BY <1>3, <1>13
  <2>2. Len(<<>>) = 0
    BY EmptyIs
  <2>3. SubSeq(<<>>, 1, 0) = SubSeq(u1, 1, 0)
    <3>1. SubSeq(u1, 1, 0) \in Seq(A) /\ Len(SubSeq(u1, 1, 0)) = 0
      BY <1>11, <1>4, <1>8, PieceFacts
    <3>2. SubSeq(<<>>, 1, 0) \in Seq({}) /\ Len(SubSeq(<<>>, 1, 0)) = 0
      <4>1. <<>> \in Seq({}) /\ Len(<<>>) = 0
        BY EmptySeq
      <4>2. QED
        BY <4>1, PieceFacts
    <3>3. QED
      BY <3>1, <3>2, EmptySeq
  <2>4. QED
    BY <1>2, <1>4, <1>8, <1>11, <2>1, <2>2, <2>3 DEF IsPrefix
<1>14. CASE marked # {}
  <2>1. x \in marked
    <3>1. marked \in SUBSET (0 .. l + z) /\ l + z \in Nat
      BY <1>4, <1>8, <1>12
    <3> HIDE DEF marked
    <3>2. QED
      BY <1>14, <3>1, MaxProps
  <2>2. x \in 1 .. l + z /\ marks[x]
    BY <1>12, <2>1
  <2> HIDE DEF x, marked
  <2>3. x <= l + z1 /\ \A y \in 1 .. x : u1[y] = u[y]
    <3>1. CASE x <= l
      <4>1. \A y \in 1 .. x : y \in 1 .. l + z /\ y \in 1 .. l + z1 /\ y <= l
        BY <1>4, <1>8, <2>2, <3>1
      <4>2. x <= l + z1
        BY <1>4, <1>8, <2>2, <3>1
      <4>3. ASSUME NEW y \in 1 .. x PROVE u1[y] = u[y]
        <5>1. u[y] = a[y] /\ u1[y] = a[y]
          BY <1>10, <1>11, <4>1
        <5>2. QED
          BY <5>1
      <4>4. QED
        BY <4>2, <4>3
    <3>2. CASE ~(x <= l)
      <4> DEFINE p == x - l
      <4>1. p \in 1 .. z /\ m[p]
        <5>1. p \in 1 .. z
          BY <1>4, <1>8, <2>2, <3>2
        <5>2. QED
          BY <1>12, <2>2, <3>2, <5>1
      <4>2. p \in 1 .. z1 /\ \A y \in 1 .. p : t1[y] = t[y]
        BY <1>5, <1>8, <4>1
      <4>3. x <= l + z1
        BY <1>4, <1>8, <2>2, <4>2
      <4>4. ASSUME NEW y \in 1 .. x PROVE u1[y] = u[y]
        <5>1. y \in 1 .. l + z /\ y \in 1 .. l + z1 /\ (~(y <= l) => y - l \in 1 .. p)
          BY <1>4, <1>8, <2>2, <4>3
        <5>2. QED
          BY <1>10, <1>11, <4>2, <5>1
      <4>5. QED
        BY <4>3, <4>4
    <3>3. QED
      BY <3>1, <3>2
  <2> DEFINE v == SubSeq(u, 1, x)
             v1 == SubSeq(u1, 1, x)
  <2>4. x \in Nat /\ x <= l + z /\ 1 <= x + 1 /\ x + 1 - 1 = x
        /\ \A i \in 1 .. x : 1 + i - 1 = i
    BY <1>4, <1>8, <2>2
  <2>5. v \in Seq(A) /\ Len(v) = x /\ \A i \in 1 .. x : v[i] = u[i]
    <3>1. v \in Seq(A) /\ Len(v) = x + 1 - 1 /\ \A i \in 1 .. x + 1 - 1 : v[i] = u[1 + i - 1]
      BY <1>10, <2>4, PieceFacts
    <3>2. QED
      BY <2>4, <3>1
  <2>6. v1 \in Seq(A) /\ Len(v1) = x /\ \A i \in 1 .. x : v1[i] = u1[i]
    <3>1. v1 \in Seq(A) /\ Len(v1) = x + 1 - 1 /\ \A i \in 1 .. x + 1 - 1 : v1[i] = u1[1 + i - 1]
      BY <1>11, <2>3, <2>4, PieceFacts
    <3>2. QED
      BY <2>4, <3>1
  <2> HIDE DEF v, v1
  <2> DEFINE w == SubSeq(v, 1, x)
  <2>7. w \in Seq(A) /\ Len(w) = x /\ \A i \in 1 .. x : w[i] = v[i]
    <3>1. w \in Seq(A) /\ Len(w) = x + 1 - 1 /\ \A i \in 1 .. x + 1 - 1 : w[i] = v[1 + i - 1]
      BY <2>4, <2>5, PieceFacts
    <3>2. QED
      BY <2>4, <3>1
  <2> HIDE DEF w
  <2>8. w = v1
    <3>1. \A i \in 1 .. x : w[i] = v1[i]
      BY <2>3, <2>5, <2>6, <2>7
    <3>2. QED
      BY <2>6, <2>7, <3>1, SeqEqual
  <2>9. CachedStream(req) = v
    BY <1>1, <1>3, <1>14 DEF v
  <2>10. QED
    BY <1>2, <1>11, <2>3, <2>5, <2>8, <2>9 DEF IsPrefix, w, v1
<1>15. QED
  BY <1>13, <1>14

\* Where the breakpoints are: on a system message, or on the last message of
\* the stable prefix.  Nothing else about the messages changes.
LEMMA StrategyBreaks ==
  ASSUME NEW ms, Prompted(ms), NEW k \in Nat \ {0}
  PROVE  LET a == ApplyCacheStrategy(ms, "anthropic", k)
         IN  /\ Len(a) = Len(ms) /\ DOMAIN a = DOMAIN ms
             /\ \A i \in DOMAIN ms : a[i].role = ms[i].role /\ a[i].blocks = ms[i].blocks
             /\ Breaks(a, StablePrefixLen(a, k))
<1> DEFINE l == Len(ms)
           S == {i \in DOMAIN ms : ms[i].role = "system"}
           a == ApplyCacheStrategy(ms, "anthropic", k)
           n == StablePrefixLen(ms, k)
<1>1. l \in Nat /\ DOMAIN ms = 1 .. l
  BY SeqIs DEF Prompted
<1>2. a = [i \in 1 .. l |-> [ms[i] EXCEPT !.cache = i \in Breakpoints(ms, k)]]
  BY <1>1 DEF ApplyCacheStrategy
<1>3. ASSUME NEW i \in 1 .. l
      PROVE  /\ a[i].role = ms[i].role /\ a[i].blocks = ms[i].blocks
             /\ a[i].cache <=> i \in Breakpoints(ms, k)
  <2> DEFINE v == i \in Breakpoints(ms, k)
             x == ms[i]
             e == [x EXCEPT !.cache = v]
  <2>1. x \in [role : {x.role}, blocks : {x.blocks}, cache : {x.cache}]
    BY <1>1 DEF Prompted
  <2>2. a[i] = e
    BY <1>2
  <2> HIDE DEF x, v
  <2>3. e.role = x.role /\ e.blocks = x.blocks /\ e.cache = v
    BY <2>1
  <2>4. QED
    BY <2>2, <2>3 DEF x, v
<1>4. IsSeq(a) /\ Len(a) = l /\ DOMAIN a = 1 .. l
  <2>1. a \in [1 .. l -> Range(a)]
    BY <1>2 DEF Range
  <2> HIDE DEF a
  <2>2. a \in Seq(Range(a)) /\ Len(a) = l /\ DOMAIN a = 1 .. l
    BY <1>1, <2>1, FcnIsSeq
  <2>3. QED
    BY <2>2 DEF IsSeq
<1>5. StablePrefixLen(a, k) = n
  BY <1>4 DEF StablePrefixLen
<1>6. ASSUME NEW i \in 1 .. l, i \in Breakpoints(ms, k)
      PROVE  ms[i].role = "system" \/ i = n
  <2>1. i \in (IF S = {} THEN {} ELSE {Max(S)}) \/ i = n
    BY <1>6 DEF Breakpoints
  <2>2. CASE S # {} /\ i = Max(S)
    <3>1. S \in SUBSET (0 .. l)
      BY <1>1
    <3> HIDE DEF S
    <3>2. i \in S
      BY <1>1, <2>2, <3>1, MaxProps
    <3>3. QED
      BY <3>2 DEF S
  <2>3. QED
    BY <2>1, <2>2
<1> HIDE DEF a
<1>7. Breaks(a, n)
  BY <1>3, <1>4, <1>6 DEF Breaks
<1>8. QED
  BY <1>1, <1>3, <1>4, <1>5, <1>7 DEF a
-----------------------------------------------------------------------------
(* The theorems *)

\* A message that can be rendered.
IsMessage(m) ==
  /\ m \in [role : {m.role}, blocks : {m.blocks}, cache : {m.cache}]
  /\ IsSeq(m.blocks)

\* A prompt is a sequence of messages.
LEMMA PromptedIs ==
  ASSUME NEW ms
  PROVE  Prompted(ms) <=> IsSeq(ms) /\ \A i \in DOMAIN ms : IsMessage(ms[i])
BY DEF Prompted, IsMessage

\* Setting the breakpoints leaves a prompt a prompt.
LEMMA StrategyPrompted ==
  ASSUME NEW ms, Prompted(ms), NEW policy, NEW n
  PROVE  Prompted(ApplyCacheStrategy(ms, policy, n))
<1> DEFINE v(i) == policy = "anthropic" /\ i \in Breakpoints(ms, n)
           a    == ApplyCacheStrategy(ms, policy, n)
           l    == Len(ms)
<1>1. IsSeq(ms) /\ \A i \in DOMAIN ms : IsMessage(ms[i])
  BY PromptedIs
<1>2. l \in Nat /\ DOMAIN ms = 1 .. l
  BY <1>1, SeqIs
<1>3. a = [i \in 1 .. l |-> [ms[i] EXCEPT !.cache = v(i)]]
  BY <1>2 DEF ApplyCacheStrategy
<1> HIDE DEF a, v, l
<1>4. \A m, c : IsMessage(m) => IsMessage([m EXCEPT !.cache = c])
  <2> SUFFICES ASSUME NEW m, NEW c, IsMessage(m) PROVE IsMessage([m EXCEPT !.cache = c])
    OBVIOUS
  <2> DEFINE e == [m EXCEPT !.cache = c]
  <2>1. m \in [role : {m.role}, blocks : {m.blocks}, cache : {m.cache}] /\ IsSeq(m.blocks)
    BY DEF IsMessage
  <2>2. e \in [role : {m.role}, blocks : {m.blocks}, cache : {c}]
    BY <2>1
  <2> HIDE DEF e
  <2>3. /\ e \in [role : {e.role}, blocks : {e.blocks}, cache : {e.cache}]
        /\ e.blocks = m.blocks
    BY <2>2
  <2>4. QED
    BY <2>1, <2>3 DEF IsMessage, e
<1>5. ASSUME NEW i \in 1 .. l PROVE IsMessage(a[i])
  <2>1. IsMessage(ms[i])
    BY <1>1, <1>2
  <2>2. a[i] = [ms[i] EXCEPT !.cache = v(i)]
    BY <1>3
  <2>3. QED
    BY <1>4, <2>1, <2>2
<1>6. IsSeq(a) /\ DOMAIN a = 1 .. l
  <2>1. a \in [1 .. l -> Range(a)]
    BY <1>3 DEF Range
  <2>2. a \in Seq(Range(a)) /\ DOMAIN a = 1 .. l
    BY <1>2, <2>1, FcnIsSeq
  <2>3. QED
    BY <2>2 DEF IsSeq
<1>7. Prompted(a)
  BY <1>5, <1>6, PromptedIs
<1>8. QED
  BY <1>7 DEF a

\* So does pushing a message, or replacing the last one.
LEMMA PushPrompted ==
  ASSUME NEW ms, Prompted(ms), NEW m, IsMessage(m)
  PROVE  /\ Prompted(Append(ms, m))
         /\ ms # <<>> => Prompted(Append(Front(ms), m))
<1>1. ASSUME NEW s, Prompted(s) PROVE Prompted(Append(s, m))
  <2> DEFINE a == Append(s, m)
             n == Len(s)
  <2>1. IsSeq(s) /\ \A i \in DOMAIN s : IsMessage(s[i])
    BY <1>1, PromptedIs
  <2>2. n \in Nat /\ DOMAIN s = 1 .. n
    BY <2>1, SeqIs
  <2>3. /\ IsSeq(a) /\ DOMAIN a = 1 .. n + 1 /\ a[n + 1] = m
        /\ \A i \in 1 .. n : a[i] = s[i]
    BY <2>1, Appended
  <2> HIDE DEF a, n
  <2>4. \A i \in 1 .. n + 1 : i \in 1 .. n \/ i = n + 1
    BY <2>2
  <2>5. \A i \in DOMAIN a : IsMessage(a[i])
    BY <2>1, <2>2, <2>3, <2>4
  <2>6. Prompted(a)
    BY <2>3, <2>5, PromptedIs
  <2>7. QED
    BY <2>6 DEF a
<1>2. ASSUME ms # <<>> PROVE Prompted(Front(ms))
  <2> DEFINE T == Range(ms)
             n == Len(ms)
             f == SubSeq(ms, 1, n - 1)
  <2>1. IsSeq(ms) /\ \A i \in DOMAIN ms : IsMessage(ms[i])
    BY PromptedIs
  <2>2. n \in Nat /\ DOMAIN ms = 1 .. n /\ ms \in Seq(T)
    BY <2>1, SeqIs DEF IsSeq
  <2>3. n # 0
    BY <1>2, <2>2, EmptySeq
  <2>4. n - 1 \in Nat /\ n - 1 <= n /\ 1 <= (n - 1) + 1 /\ (n - 1) + 1 - 1 = n - 1
    BY <2>2, <2>3
  <2> HIDE DEF T
  <2>5. f \in Seq(T) /\ Len(f) = n - 1 /\ \A i \in 1 .. n - 1 : f[i] = ms[1 + i - 1]
    BY <2>2, <2>4, PieceFacts
  <2>6. IsSeq(f) /\ DOMAIN f = 1 .. n - 1
    BY <2>5, SeqFacts
  <2> HIDE DEF f, n
  <2>7. \A i \in 1 .. n - 1 : 1 + i - 1 = i /\ i \in 1 .. n
    BY <2>2
  <2>8. \A i \in DOMAIN f : IsMessage(f[i])
    BY <2>1, <2>2, <2>5, <2>6, <2>7
  <2>9. Prompted(f)
    BY <2>6, <2>8, PromptedIs
  <2>10. QED
    BY <2>9 DEF f, n, Front
<1>3. QED
  BY <1>1, <1>2

\* A message pushed, or one put in place of the last one, leaves the roles of
\* the messages and what those before the last one say.
LEMMA PushKeeps ==
  ASSUME NEW ms, Prompted(ms), NEW m, IsMessage(m), NEW next,
         \/ next = Append(ms, m)
         \/ ms # <<>> /\ m.role = Last(ms).role /\ next = Append(Front(ms), m)
  PROVE  /\ Prompted(next) /\ Len(ms) <= Len(next) /\ Len(next) \in Nat
         /\ \A i \in 1 .. Len(ms) : next[i].role = ms[i].role
         /\ \A i \in 1 .. Len(ms) - 1 : next[i].blocks = ms[i].blocks
<1> DEFINE n == Len(ms)
<1>1. IsSeq(ms) /\ n \in Nat /\ DOMAIN ms = 1 .. n
  BY SeqIs DEF Prompted
<1>2. Prompted(next)
  BY PushPrompted
<1>3. CASE next = Append(ms, m)
  <2>1. Len(next) = n + 1 /\ \A i \in 1 .. n : next[i] = ms[i]
    BY <1>1, <1>3, Appended
  <2> HIDE DEF n
  <2>2. n <= Len(next) /\ Len(next) \in Nat /\ \A i \in 1 .. n - 1 : i \in 1 .. n
    BY <1>1, <2>1
  <2>3. QED
    BY <1>2, <2>1, <2>2 DEF n
<1>4. CASE ms # <<>> /\ m.role = Last(ms).role /\ next = Append(Front(ms), m)
  <2> DEFINE T == Range(ms)
             f == SubSeq(ms, 1, n - 1)
  <2>1. n # 0 /\ ms \in Seq(T)
    BY <1>1, <1>4, EmptySeq DEF IsSeq
  <2>2. n - 1 \in Nat /\ n - 1 <= n /\ 1 <= (n - 1) + 1 /\ (n - 1) + 1 - 1 = n - 1
    BY <1>1, <2>1
  <2> HIDE DEF T
  <2>3. f \in Seq(T) /\ Len(f) = n - 1 /\ \A i \in 1 .. n - 1 : f[i] = ms[1 + i - 1]
    BY <2>1, <2>2, PieceFacts
  <2>4. IsSeq(f)
    BY <2>3, SeqFacts
  <2>5. next = Append(f, m) /\ m.role = ms[n].role
    BY <1>4 DEF Front, Last, f
  <2> HIDE DEF f, n
  <2>6. /\ Len(next) = (n - 1) + 1 /\ next[(n - 1) + 1] = m
        /\ \A i \in 1 .. n - 1 : next[i] = f[i]
    BY <2>3, <2>4, <2>5, Appended
  <2>7. /\ (n - 1) + 1 = n
        /\ \A i \in 1 .. n - 1 : 1 + i - 1 = i
        /\ \A i \in 1 .. n : i \in 1 .. n - 1 \/ i = n
    BY <1>1
  <2>8. \A i \in 1 .. n - 1 : next[i] = ms[i]
    BY <2>3, <2>6, <2>7
  <2>9. \A i \in 1 .. n : next[i].role = ms[i].role
    BY <2>5, <2>6, <2>7, <2>8
  <2>10. n <= Len(next) /\ Len(next) \in Nat
    BY <1>1, <2>6, <2>7
  <2>11. QED
    BY <1>2, <2>8, <2>9, <2>10 DEF n
<1>5. QED
  BY <1>3, <1>4

\* The next prompt continues this one beyond the stable prefix.
LEMMA PushContinues ==
  ASSUME NEW ms, Prompted(ms), NEW m, IsMessage(m), NEW next,
         \/ next = Append(ms, m)
         \/ ms # <<>> /\ m.role = Last(ms).role /\ next = Append(Front(ms), m),
         NEW k \in Nat \ {0},
         NEW ms1, ms1 = ApplyCacheStrategy(next, "anthropic", k),
         \A i \in DOMAIN ms : i > StablePrefixLen(ms, k) => ms[i].role # "system",
         \A i \in DOMAIN ms1 : i > Len(ms) => ms1[i].role # "system"
  PROVE  Continues(ms, ms1, StablePrefixLen(ms, k))
<1> DEFINE n == StablePrefixLen(ms, k)
           l == Len(ms)
           N == Len(next)
<1>1. /\ Prompted(next) /\ l <= N /\ N \in Nat
      /\ \A i \in 1 .. l : next[i].role = ms[i].role
      /\ \A i \in 1 .. l - 1 : next[i].blocks = ms[i].blocks
  BY PushKeeps
<1>2. l \in Nat /\ DOMAIN ms = 1 .. l
  BY SeqIs DEF Prompted
<1>3. DOMAIN next = 1 .. N
  BY <1>1, SeqIs DEF Prompted
<1>4. n \in Nat /\ n <= l /\ (n > 0 => n < l)
  BY <1>2 DEF StablePrefixLen
<1>5. Prompted(ms1)
  BY <1>1, StrategyPrompted
<1>6. /\ Len(ms1) = N /\ DOMAIN ms1 = DOMAIN next
      /\ \A i \in DOMAIN next : ms1[i].role = next[i].role /\ ms1[i].blocks = next[i].blocks
  BY <1>1, StrategyBreaks
<1> HIDE DEF n, l, N
<1>7. \A i \in 1 .. l : i \in DOMAIN next
  <2>1. l \in Nat /\ N \in Nat /\ l <= N
    BY <1>1, <1>2
  <2>2. \A i \in 1 .. l : i \in 1 .. N
    BY <2>1
  <2>3. QED
    BY <1>3, <2>2
<1>8. \A i \in 1 .. l : ms1[i].role = ms[i].role
  BY <1>1, <1>6, <1>7
<1>9. \A i \in 1 .. n : ms1[i].blocks = ms[i].blocks
  <2>1. \A i \in 1 .. n : i \in 1 .. l /\ i \in 1 .. l - 1
    BY <1>2, <1>4
  <2>2. QED
    BY <1>1, <1>6, <1>7, <2>1
<1>10. \A i \in DOMAIN ms : i > n => ms[i].role # "system"
  BY DEF n
<1>11. ASSUME NEW i \in DOMAIN ms1, i > n PROVE ms1[i].role # "system"
  <2>1. CASE i > l
    BY <2>1 DEF l
  <2>2. CASE ~(i > l)
    <3>1. i \in 1 .. l
      <4>1. l \in Nat /\ N \in Nat /\ i \in 1 .. N
        BY <1>1, <1>2, <1>3, <1>6
      <4>2. QED
        BY <2>2, <4>1
    <3>2. QED
      BY <1>2, <1>8, <1>10, <1>11, <3>1
  <2>3. QED
    BY <2>1, <2>2
<1>12. QED
  BY <1>1, <1>4, <1>5, <1>6, <1>8, <1>9, <1>10, <1>11 DEF Continues, n, l

\* The alphabet is one of messages.
LEMMA Messages == \A m \in Alphabet : IsMessage(m)
<1>1. \A m \in Alphabet : /\ m = [role |-> m.role, blocks |-> m.blocks, cache |-> FALSE]
                          /\ IsSeq(m.blocks)
  BY RenderedPromptAssumption
<1>2. ASSUME NEW m \in Alphabet
      PROVE  m \in [role : {m.role}, blocks : {m.blocks}, cache : {m.cache}]
  BY <1>1
<1>3. QED
  BY <1>1, <1>2 DEF IsMessage

\* A step that renders a prompt pushes a message or replaces the last one.
LEMMA Steps ==
  ASSUME Next
  PROVE  \E next : \E m \in Alphabet :
           /\ \/ next = Append(prompt, m)
              \/ prompt # <<>> /\ m.role = Last(prompt).role /\ next = Append(Front(prompt), m)
           /\ Render(next)
<1>1. PICK m \in Alphabet : Push(m) \/ Replace(m)
  BY DEF Next
<1>2. CASE Push(m)
  BY <1>2 DEF Push
<1>3. CASE Replace(m)
  BY <1>3 DEF Replace
<1>4. QED
  BY <1>1, <1>2, <1>3

\* The request is always the rendering of the prompt as it stands, and the
\* prompt is one that can be rendered.
RenderedInv == Prompted(prompt) /\ request = RenderRich(prompt)

\* Both requests render the prompt as it stands, whose breakpoints are on a
\* system message or at the end of its stable prefix.
ReusedInv ==
  /\ RenderedInv
  /\ flat = RenderFlat(prompt)
  /\ suffix \in Nat \ {0}
  /\ Breaks(prompt, StablePrefixLen(prompt, suffix))

\* It holds from the first request on.
THEOREM ReusedAlways == Spec => []ReusedInv
<1>1. Init => ReusedInv
  <2> SUFFICES ASSUME Init PROVE ReusedInv
    OBVIOUS
  <2>1. prompt = <<>> /\ request = RenderRich(<<>>) /\ flat = RenderFlat(<<>>)
        /\ suffix \in Nat \ {0}
    BY RenderedPromptAssumption DEF Init
  <2>2. Prompted(<<>>) /\ \A n : Breaks(<<>>, n)
    BY EmptyIs DEF Prompted, Breaks
  <2>3. QED
    BY <2>1, <2>2 DEF ReusedInv, RenderedInv
<1>2. ReusedInv /\ [Next]_vars => ReusedInv'
  <2> SUFFICES ASSUME ReusedInv, [Next]_vars PROVE ReusedInv'
    OBVIOUS
  <2>1. CASE Next
    <3>1. PICK next : \E m \in Alphabet :
            /\ \/ next = Append(prompt, m)
               \/ prompt # <<>> /\ m.role = Last(prompt).role /\ next = Append(Front(prompt), m)
            /\ Render(next)
      BY <2>1, Steps
    <3>2. Prompted(prompt) /\ suffix \in Nat \ {0}
      BY DEF ReusedInv, RenderedInv
    <3>3. Prompted(next)
      BY <3>1, <3>2, Messages, PushKeeps
    <3>4. /\ prompt' = ApplyCacheStrategy(next, "anthropic", suffix) /\ suffix' = suffix
          /\ request' = RenderRich(prompt') /\ flat' = RenderFlat(prompt')
      BY <3>1 DEF Render
    <3>5. Prompted(prompt')
      BY <3>3, <3>4, StrategyPrompted
    <3>6. Breaks(prompt', StablePrefixLen(prompt', suffix'))
      BY <3>2, <3>3, <3>4, StrategyBreaks
    <3>7. QED
      BY <3>2, <3>4, <3>5, <3>6 DEF ReusedInv, RenderedInv
  <2>2. CASE UNCHANGED vars
    BY <2>2 DEF ReusedInv, RenderedInv, vars
  <2>3. QED
    BY <2>1, <2>2
<1>3. QED
  BY <1>1, <1>2, PTL DEF Spec

\* So does the part of it that is about the request.
THEOREM RenderedAlways == Spec => []RenderedInv
<1>1. ReusedInv => RenderedInv
  BY DEF ReusedInv
<1>2. QED
  BY <1>1, ReusedAlways, PTL

\* Whatever a host pushes or replaces, the request is one the Messages API
\* accepts (render_cache_control_rich).
THEOREM RequestsValid == Spec => []RequestValid
<1>1. RenderedInv => RequestValid
  <2> SUFFICES ASSUME RenderedInv PROVE RequestValid
    OBVIOUS
  <2>1. Prompted(prompt) /\ request = RenderRich(prompt)
    BY DEF RenderedInv
  <2>2. Alternates(RenderRich(prompt)) /\ Paired(RenderRich(prompt))
    BY <2>1, Requests
  <2>3. QED
    BY <2>1, <2>2 DEF RequestValid
<1>2. QED
  BY <1>1, RenderedAlways, PTL

\* A call that the following turn answers stays native, wherever in that turn
\* its answer is (render_cache_control_rich).
THEOREM AnswersStayNative == Spec => []AnsweredCallsNative
<1>1. RenderedInv => AnsweredCallsNative
  <2> SUFFICES ASSUME RenderedInv, NEW i \in DOMAIN prompt, NEW j \in DOMAIN prompt,
                      i < j, AnswersNextTurn(i, j),
                      NEW x \in IdsOf(prompt[i].blocks, "use") \cap IdsOf(prompt[j].blocks, "result")
               PROVE  x \in UNION {Native(request.messages[k], "use") :
                                     k \in DOMAIN request.messages}
    BY DEF AnsweredCallsNative
  <2>1. Prompted(prompt) /\ request = RenderRich(prompt)
    BY DEF RenderedInv
  <2>2. AnswersNext(prompt, i, j)
    BY DEF AnswersNext, AnswersNextTurn
  <2>3. PICK k \in DOMAIN Segments(prompt) :
          Segments(prompt)[k].side = "assistant" /\ x \in Meets(Segments(prompt), k)
    BY <2>1, <2>2, AnswersMeet
  <2>4. PICK q \in DOMAIN Full(prompt) : x \in NativeIds(Full(prompt)[q].blocks, "use")
    BY <2>1, <2>3, FullMeets
  <2>5. QED
    BY <2>1, <2>4, Requests
<1>2. QED
  BY <1>1, RenderedAlways, PTL

\* What the breakpoints of a request cache is a prefix of the next request as
\* well, whatever messages the host appends or changes behind the stable prefix,
\* native or flattened (apply_cache_strategy, render_cache_control_rich).
THEOREM CachedPrefixStays == Spec => CachedPrefixReused
<1> DEFINE Reuse ==
             \/ AwaitsAnswers(prompt)
             \/ SystemBehind(prompt) \/ SystemBehind(prompt')
             \/ \E i \in DOMAIN prompt' : i > Len(prompt) /\ prompt'[i].role = "system"
             \/ /\ IsPrefix(CachedStream(request), Stream(request'))
                /\ IsPrefix(CachedStream(flat), Stream(flat'))
<1>1. ReusedInv /\ [Next]_vars => [Reuse]_vars
  <2> SUFFICES ASSUME ReusedInv, Next,
                      ~AwaitsAnswers(prompt), ~SystemBehind(prompt),
                      \A i \in DOMAIN prompt' : i > Len(prompt) => prompt'[i].role # "system"
               PROVE  /\ IsPrefix(CachedStream(request), Stream(request'))
                      /\ IsPrefix(CachedStream(flat), Stream(flat'))
    OBVIOUS
  <2> DEFINE n == StablePrefixLen(prompt, suffix)
             r1 == RenderRich(prompt')
             f1 == RenderFlat(prompt')
  <2>1. /\ Prompted(prompt) /\ suffix \in Nat \ {0} /\ Breaks(prompt, n)
        /\ request = RenderRich(prompt) /\ flat = RenderFlat(prompt)
    BY DEF ReusedInv, RenderedInv
  <2>2. PICK next : \E m \in Alphabet :
          /\ \/ next = Append(prompt, m)
             \/ prompt # <<>> /\ m.role = Last(prompt).role /\ next = Append(Front(prompt), m)
          /\ Render(next)
    BY Steps
  <2>3. /\ prompt' = ApplyCacheStrategy(next, "anthropic", suffix)
        /\ request' = r1 /\ flat' = f1
    BY <2>2 DEF Render
  <2>4. ~Awaits(prompt, n)
    BY DEF Awaits, AwaitsAnswers
  <2>5. \A i \in DOMAIN prompt : i > n => prompt[i].role # "system"
    BY DEF SystemBehind
  <2>6. Continues(prompt, prompt', n)
    BY <2>1, <2>2, <2>3, <2>5, Messages, PushContinues
  <2>7. IsPrefix(CachedStream(request), Stream(r1))
    <3>1. IsSeq(request.system) /\ SystemStream(r1) = SystemStream(request)
      BY <2>1, <2>6, SystemRich
    <3>2. MarkedAlike(TurnStream(Turns(prompt)), TurnMarks(Turns(prompt)),
                      TurnStream(Turns(prompt')))
      BY <2>1, <2>4, <2>6, RichReused
    <3>3. request.messages = Turns(prompt) /\ r1.messages = Turns(prompt')
      BY <2>1 DEF RenderRich
    <3>4. QED
      BY <3>1, <3>2, <3>3, CachedReused
  <2>8. IsPrefix(CachedStream(flat), Stream(f1))
    <3>1. IsSeq(flat.system) /\ SystemStream(f1) = SystemStream(flat)
      BY <2>1, <2>6, SystemFlat
    <3>2. MarkedAlike(TurnStream(flat.messages), TurnMarks(flat.messages),
                      TurnStream(f1.messages))
      BY <2>1, <2>6, FlatReused
    <3>3. QED
      BY <3>1, <3>2, CachedReused
  <2>9. QED
    BY <2>3, <2>7, <2>8
<1>2. QED
  BY <1>1, ReusedAlways, PTL DEF Spec, CachedPrefixReused
=============================================================================
