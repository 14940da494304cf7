---------------------------- MODULE Ledger_proofs ----------------------------
(***************************************************************************)
(* Theorems of Session about the result of a compaction: the folds account *)
(* for every change, the ledger only grows, what is frozen stays, what the *)
(* recall index finds is in the store and stays findable; and about what   *)
(* is measured in tokens: the protected tail, the recent replies, and the  *)
(* budget itself.                                                          *)
(***************************************************************************)
EXTENDS Session_proofs

\* The positions that Sub takes are all of them, in order.
Picks(f, ms, P) ==
  /\ Cardinality(P) \in Nat
  /\ Sub(ms, P) = [k \in 1 .. Cardinality(P) |-> ms[f[k]]]
  /\ \A j, k \in 1 .. Cardinality(P) : j < k => f[j] < f[k]
  /\ \A i \in P : \E k \in 1 .. Cardinality(P) : f[k] = i

\* The positions that Sub takes, in order.
LEMMA AtOrder ==
  ASSUME NEW n \in Nat, NEW ms, NEW P \in SUBSET (1 .. n)
  PROVE  \E f \in [1 .. Cardinality(P) -> P] : Picks(f, ms, P)
<1>1. /\ Cardinality(P) \in Nat /\ DOMAIN InOrder(P) = 1 .. Cardinality(P)
      /\ InOrder(P) \in [1 .. Cardinality(P) -> P]
      /\ \A i \in P : \E k \in 1 .. Cardinality(P) : InOrder(P)[k] = i
      /\ \A j, k \in 1 .. Cardinality(P) : j < k => InOrder(P)[j] < InOrder(P)[k]
  BY InOrderFacts
<1>2. Sub(ms, P) = [k \in 1 .. Cardinality(P) |-> ms[InOrder(P)[k]]]
  BY <1>1 DEF Sub
<1>3. QED
  BY <1>1, <1>2 DEF Picks
-----------------------------------------------------------------------------
(* What the folds of a compaction cover *)

\* Every message that a compaction changed or lost is accounted for by exactly
\* one fold record, and every other one by none (compact.rs,
\* build_fold_records).
THEOREM FoldsAccount == Spec => []FoldsPartition
<1>1. Init => TypeInv /\ TraceInv
  BY TypeInit, TraceInit
<1>2. TypeInv /\ TraceInv /\ [Next]_vars => (TypeInv /\ TraceInv)'
  BY TypeNext, TraceNext
<1>3. TypeInv /\ TraceInv => FoldsPartition
  <2> SUFFICES ASSUME TypeInv, TraceInv, NEW s \in Sessions, pc[s] = "fold",
                      NEW i \in DOMAIN Pinned(messages[s])
               PROVE  LET orig == Pinned(messages[s])
                          new  == BuildFolds(orig, working[s], dropped[s])
                      IN  Cardinality({f \in new : f.first <= i /\ i <= f.last}) =
                            IF \E j \in DOMAIN working[s] :
                                 Untagged(working[s][j]) = orig[i]
                                   /\ working[s][j].idx = i
                            THEN 0 ELSE 1
    BY DEF FoldsPartition
  <2> DEFINE orig == Pinned(messages[s])
             w    == working[s]
             d    == dropped[s]
  <2>1. w \in Seq(Message) /\ orig \in Seq(Message)
    BY TypeFacts, PinnedType
  <2>2. Ordered(w)
    BY DEF TraceInv, TraceOf, Cascading, Traced
  <2>3. i \in DOMAIN orig
    OBVIOUS
  <2> HIDE DEF orig, w, d
  <2>4. Cardinality(Covering(BuildFolds(orig, w, d), i)) =
          IF Unchanged(orig, w, i) THEN 0 ELSE 1
    BY MessagesListed, <2>1, <2>2, <2>3, FoldsCover
  <2>5. QED
    BY <2>4 DEF orig, w, d, Covering, Unchanged
<1>4. QED
  BY <1>1, <1>2, <1>3, PTL DEF Spec
-----------------------------------------------------------------------------
(* The ledger.  That no two folds have the same id is not inductive by       *)
(* itself: the next number must be free, so no fold's number may exceed how  *)
(* many folds have its id but for the number.                                *)

Class(ledger, id) == {g \in ledger : g.id.of = id.of /\ g.id.span = id.span}

Numbers(ledger) ==
  /\ \A f, g \in ledger : f.id = g.id => f = g
  /\ \A f \in ledger : f.id.n <= Cardinality(Class(ledger, f.id))

\* Where the folds of a compaction begin, and what number they are given first.
LEMMA FoldsFirst ==
  ASSUME NEW orig \in Seq(Message), NEW gone \in Seq(Message), NEW st,
         NEW final \in Seq(Sound(Len(orig), st)),
         NEW f \in BuildFolds(orig, final, gone)
  PROVE  /\ f.first \in DOMAIN orig /\ f.first <= f.last /\ f.id.n = 1
<1>1. /\ DOMAIN orig = 1 .. Len(orig) /\ Len(orig) \in Nat
      /\ DOMAIN final = 1 .. Len(final)
      /\ \A j \in DOMAIN final : final[j].idx \in 0 .. Len(orig)
  BY LenProperties, ElementOfSeq DEF Sound
<1>2. final \in Seq(Message)
  BY <1>1, SoundFacts
<1>3. CASE f \in ReplacementFolds(orig, final)
  <2>1. PICK j \in DOMAIN final :
          /\ final[j].idx # 0
          /\ f = FoldRecord(ClassifyReplacement(final[j]), orig, final[j].idx,
                            final[j].idx, j, CcrIdOf(final[j]))
    BY <1>3 DEF ReplacementFolds
  <2>2. f.first = final[j].idx /\ f.last = final[j].idx /\ f.id.n = 1
    BY <2>1 DEF FoldRecord
  <2>3. QED
    BY <1>1, <2>1, <2>2
<1>4. CASE f \in SummaryFolds(orig, final)
  <2> DEFINE span == SummarizedSpan(orig, final)
  <2>1. span # {} /\ f = FoldRecord("Summarized", orig, Min(span), Max(span),
                           Min(SummaryPositions(final)),
                           CcrIdOf(final[Min(SummaryPositions(final))]))
    BY <1>4 DEF SummaryFolds
  <2>2. f.first = Min(span) /\ f.last = Max(span) /\ f.id.n = 1
    BY <2>1 DEF FoldRecord
  <2>3. span \subseteq Missing(orig, final)
    BY MessagesListed, <1>2, SpanFacts
  <2>4. /\ Min(span) \in span
        /\ \A x \in DOMAIN orig :
             Min(span) <= x /\ x <= Max(span) <=> x \in span
    BY MessagesListed, <1>2, <2>1, SpanFacts
  <2>5. Missing(orig, final) \subseteq DOMAIN orig
    BY DEF Missing
  <2> HIDE DEF span
  <2>6. QED
    BY <2>2, <2>3, <2>4, <2>5
<1>5. CASE f \in DroppedFolds(orig, final, gone)
  <2>1. PICK i \in DOMAIN orig : f.first = i /\ f.last = i /\ f.id.n = 1
    BY <1>5 DEF DroppedFolds, FoldRecord, Missing
  <2>2. QED
    BY <1>1, <2>1
<1>6. QED
  BY <1>3, <1>4, <1>5 DEF BuildFolds

\* No two folds of a compaction begin at the same position.
LEMMA FoldsApart ==
  ASSUME NEW orig \in Seq(Message), NEW gone \in Seq(Message), NEW st,
         NEW final \in Seq(Sound(Len(orig), st)), Ordered(final),
         NEW f \in BuildFolds(orig, final, gone),
         NEW g \in BuildFolds(orig, final, gone), f.first = g.first
  PROVE  f = g
<1> DEFINE new == BuildFolds(orig, final, gone)
           C   == Covering(new, f.first)
<1>1. Len(orig) \in Nat /\ DOMAIN orig = 1 .. Len(orig)
  BY LenProperties
<1>2. final \in Seq(Message)
  BY <1>1, SoundFacts
<1>3. /\ f.first \in DOMAIN orig /\ f.first <= f.last
      /\ g.first \in DOMAIN orig /\ g.first <= g.last
  BY FoldsFirst
<1>4. f \in C /\ g \in C
  BY <1>1, <1>3 DEF Covering
<1>5. IsFiniteSet(C) /\ C \in SUBSET new
  <2>1. IsFiniteSet(new)
    BY BuildFoldsType
  <2>2. C \in SUBSET new
    BY DEF Covering
  <2>3. QED
    BY <2>1, <2>2, FS_Subset
<1>6. Cardinality(C) \in {0, 1}
  BY MessagesListed, <1>2, <1>3, FoldsCover
<1> HIDE DEF C, new
<1>7. Cardinality(C) # 0
  BY <1>4, <1>5, FS_EmptySet
<1>8. \E x : C = {x}
  BY <1>5, <1>6, <1>7, FS_Singleton
<1>9. QED
  BY <1>4, <1>8

\* Numbering the new folds keeps the ids distinct (uniquify_fold_ids).
LEMMA NumberedApart ==
  ASSUME NEW ledger \in SUBSET Fold, IsFiniteSet(ledger), Numbers(ledger),
         NEW new \in SUBSET Fold, IsFiniteSet(new),
         \A f \in new : f.id.n = 1,
         \A f, g \in new : f.first = g.first => f = g
  PROVE  Numbers(ledger \cup Numbered(ledger, new))
<1> DEFINE twin(f) == {g \in new : g.id = f.id /\ g.first <= f.first}
           old(f)  == Class(ledger, f.id)
           num(f)  == Cardinality(old(f)) + Cardinality(twin(f))
           r       == [f \in new |-> [f EXCEPT !.id.n = num(f)]]
           all     == ledger \cup Numbered(ledger, new)
<1>1. \A f \in new : /\ IsFiniteSet(old(f)) /\ IsFiniteSet(twin(f))
                     /\ Cardinality(old(f)) \in Nat
                     /\ Cardinality(twin(f)) \in Nat
  <2>1. \A f \in new : old(f) \in SUBSET ledger /\ twin(f) \in SUBSET new
    BY DEF Class
  <2> HIDE DEF old, twin
  <2>2. QED
    BY <2>1, FS_Subset, FS_CardinalityType
<1>2. \A f \in new : /\ f \in Fold /\ f.id \in FoldId /\ f.first \in Nat
  BY DEF Fold
<1>3. Numbered(ledger, new) = {r[f] : f \in new}
  BY DEF Numbered, Class
<1>4. \A f \in new : /\ r[f].id.of = f.id.of /\ r[f].id.span = f.id.span
                     /\ r[f].id.n = num(f) /\ r[f].first = f.first
  <2>1. ASSUME NEW f \in new
        PROVE  /\ r[f].id.of = f.id.of /\ r[f].id.span = f.id.span
               /\ r[f].id.n = num(f) /\ r[f].first = f.first
    <3> DEFINE k == num(f)
    <3>1. f \in Fold /\ f.id \in FoldId
      BY <1>2
    <3>2. r[f] = [f EXCEPT !.id = [f.id EXCEPT !.n = k]]
      BY <3>1 DEF Fold
    <3> HIDE DEF k, r
    <3>3. r[f].id = [f.id EXCEPT !.n = k] /\ r[f].first = f.first
      BY <3>1, <3>2 DEF Fold
    <3>4. QED
      BY <3>1, <3>3 DEF FoldId, k
  <2>2. QED
    BY <2>1
<1>5. \A f \in new : f \in twin(f) /\ Cardinality(twin(f)) >= 1
  <2>1. \A f \in new : f \in twin(f)
    BY <1>2
  <2> HIDE DEF twin
  <2>2. \A f \in new : Cardinality(twin(f)) # 0
    BY <1>1, <2>1, FS_EmptySet
  <2>3. \A k \in Nat : k # 0 => k >= 1
    OBVIOUS
  <2>4. QED
    BY <1>1, <2>1, <2>2, <2>3
<1>6. \A f, g \in new : /\ old(f) = {x \in ledger : /\ x.id.of = f.id.of
                                                  /\ x.id.span = f.id.span}
                        /\ (f.id.of = g.id.of /\ f.id.span = g.id.span =>
                              f.id = g.id)
  BY <1>2 DEF Class, FoldId
<1> HIDE DEF twin, old, r
<1>7. ASSUME NEW f \in new, NEW g \in new, f # g, f.id = g.id
      PROVE  num(f) # num(g)
  <2>1. old(f) = old(g)
    BY <1>7 DEF old
  <2>2. ASSUME NEW x \in new, NEW y \in new, x.id = y.id, x.first < y.first
        PROVE  Cardinality(twin(x)) < Cardinality(twin(y))
    <3>1. x.first \in Nat /\ y.first \in Nat /\ \A z \in new : z.first \in Nat
      BY <1>2
    <3>2. twin(x) \subseteq twin(y)
      <4>1. \A z \in new : z.first <= x.first => z.first <= y.first
        BY <2>2, <3>1
      <4>2. QED
        BY <2>2, <4>1 DEF twin
    <3>3. y \in twin(y) /\ y \notin twin(x)
      BY <1>5, <2>2, <3>1 DEF twin
    <3>4. twin(x) \in SUBSET twin(y) /\ twin(x) # twin(y)
      BY <3>2, <3>3
    <3>5. /\ Cardinality(twin(x)) <= Cardinality(twin(y))
          /\ Cardinality(twin(x)) # Cardinality(twin(y))
      BY <1>1, <3>4, FS_Subset
    <3>6. \A a, b \in Nat : a <= b /\ a # b => a < b
      OBVIOUS
    <3>7. QED
      BY <1>1, <3>5, <3>6
  <2>3. Cardinality(twin(f)) # Cardinality(twin(g))
    <3>1. f.first < g.first \/ g.first < f.first
      BY <1>2, <1>7
    <3>2. \A a \in Nat : ~(a < a)
      OBVIOUS
    <3>3. QED
      BY <1>1, <1>7, <2>2, <3>1, <3>2
  <2>4. \A a, b, c \in Nat : b # c => a + b # a + c
    OBVIOUS
  <2>5. QED
    BY <1>1, <2>1, <2>3, <2>4
<1>8. ASSUME NEW f \in new, NEW g \in new, r[f].id = r[g].id PROVE f = g
  BY <1>4, <1>6, <1>7, <1>8
<1>9. ASSUME NEW f \in ledger, NEW g \in new PROVE f.id # r[g].id
  <2> SUFFICES ASSUME f.id = r[g].id PROVE FALSE
    OBVIOUS
  <2>1. f.id.n = num(g) /\ Class(ledger, f.id) = old(g)
    BY <1>4 DEF Class, old
  <2>2. f.id.n <= Cardinality(old(g))
    BY <2>1 DEF Numbers
  <2>3. \A a, b \in Nat : b >= 1 => ~(a + b <= a)
    OBVIOUS
  <2>4. QED
    BY <1>1, <1>5, <2>1, <2>2, <2>3
<1>10. \A f, g \in all : f.id = g.id => f = g
  BY <1>3, <1>8, <1>9 DEF Numbers
<1>11. IsFiniteSet(all)
  <2>1. IsFiniteSet(Numbered(ledger, new))
    BY NumberedFacts
  <2>2. QED
    BY <2>1, FS_Union
<1>12. ASSUME NEW f \in ledger PROVE f.id.n <= Cardinality(Class(all, f.id))
  <2>1. Class(ledger, f.id) \in SUBSET Class(all, f.id)
    BY DEF Class
  <2>2. Class(all, f.id) \in SUBSET all
    BY DEF Class
  <2>3. IsFiniteSet(Class(all, f.id)) /\ IsFiniteSet(Class(ledger, f.id))
    BY <1>11, <2>1, <2>2, FS_Subset
  <2>4. Cardinality(Class(ledger, f.id)) <= Cardinality(Class(all, f.id))
    BY <2>1, <2>3, FS_Subset
  <2>5. /\ Cardinality(Class(ledger, f.id)) \in Nat
        /\ Cardinality(Class(all, f.id)) \in Nat
        /\ f.id.n \in Nat
    BY <2>3, FS_CardinalityType DEF Fold, FoldId
  <2>6. f.id.n <= Cardinality(Class(ledger, f.id))
    BY DEF Numbers
  <2>7. \A a, b, c \in Nat : a <= b /\ b <= c => a <= c
    OBVIOUS
  <2>8. QED
    BY <2>4, <2>5, <2>6, <2>7
<1>13. ASSUME NEW f \in new
       PROVE  r[f].id.n <= Cardinality(Class(all, r[f].id))
  <2> DEFINE T == {r[g] : g \in twin(f)}
             h == [g \in twin(f) |-> r[g]]
             U == old(f) \cup T
  <2>1. twin(f) \in SUBSET new /\ \A g \in twin(f) : g.id = f.id
    BY DEF twin
  <2>2. h \in Surjection(twin(f), T)
    BY DEF Surjection
  <2>3. h \in Injection(twin(f), T)
    <3>1. \A x, y \in twin(f) : h[x] = h[y] => x = y
      BY <1>8, <2>1
    <3>2. h \in [twin(f) -> T]
      OBVIOUS
    <3> HIDE DEF h, T
    <3>3. QED
      BY <3>1, <3>2 DEF Injection, IsInjective
  <2>4. IsFiniteSet(T) /\ Cardinality(T) = Cardinality(twin(f))
    BY <1>1, <2>2, <2>3, FS_Surjection
  <2>5. old(f) \cap T = {}
    BY <1>9, <2>1 DEF old, Class
  <2>6. IsFiniteSet(U)
        /\ Cardinality(U) = Cardinality(old(f)) + Cardinality(T) - Cardinality({})
    BY <1>1, <2>4, <2>5, FS_Union
  <2>7. Cardinality({}) = 0
    BY FS_EmptySet
  <2>8. Cardinality(U) = num(f)
    <3>1. \A a, b \in Nat : a + b - 0 = a + b
      OBVIOUS
    <3>2. QED
      BY <1>1, <2>4, <2>6, <2>7, <3>1
  <2>9. U \in SUBSET Class(all, r[f].id)
    <3>1. \A g \in twin(f) : /\ r[g].id.of = r[f].id.of
                            /\ r[g].id.span = r[f].id.span
                            /\ r[g] \in all
      BY <1>3, <1>4, <2>1
    <3>2. T \subseteq Class(all, r[f].id)
      BY <3>1 DEF Class
    <3>3. old(f) \subseteq Class(all, r[f].id)
      BY <1>4 DEF old, Class
    <3> HIDE DEF T
    <3>4. QED
      BY <3>2, <3>3
  <2>10. IsFiniteSet(Class(all, r[f].id))
    <3>1. Class(all, r[f].id) \in SUBSET all
      BY DEF Class
    <3>2. QED
      BY <1>11, <3>1, FS_Subset
  <2>11. Cardinality(U) <= Cardinality(Class(all, r[f].id))
    BY <2>9, <2>10, FS_Subset
  <2>12. QED
    BY <1>4, <2>8, <2>11
<1>14. QED
  BY <1>3, <1>10, <1>12, <1>13 DEF Numbers

LedgerOf(s) ==
  /\ Numbers(folds[s])
  /\ pc[s] # "gc" => delta[s] = {}
  /\ Numbers(folds[s] \cup delta[s])

LedgerInv == \A s \in Sessions : LedgerOf(s)

\* The new folds join the ledger's numbering.
LEMMA LedgerBuild ==
  ASSUME TypeInv, TraceInv, LedgerInv, NEW s \in Sessions, BuildAndRetain(s)
  PROVE  LedgerOf(s)'
<1> DEFINE orig  == Pinned(messages[s])
           built == BuildFolds(orig, working[s], dropped[s])
           old   == folds[s]
           new   == Numbered(old, built)
<1>1. /\ working[s] \in Seq(Sound(Len(messages[s]), Text))
      /\ orig \in Seq(Message) /\ Len(orig) = Len(messages[s])
  BY TypeFacts, PinnedType
<1>2. /\ dropped[s] \in Seq(Message) /\ old \in SUBSET Fold
      /\ IsFiniteSet(old)
  BY DEF TypeInv, TypeOK, LedgersFinite
<1>3. Ordered(working[s])
  BY DEF BuildAndRetain, TraceInv, TraceOf, Cascading, Traced
<1>4. /\ delta'[s] = new /\ folds'[s] = old /\ pc'[s] = "gc"
  BY DEF BuildAndRetain, TypeInv, TypeOK
<1> HIDE DEF orig, old
<1>5. built \in SUBSET Fold /\ IsFiniteSet(built)
  BY <1>1, <1>2, BuildFoldsType
<1>6. \A f \in built : f.id.n = 1
  BY <1>1, <1>2, FoldsFirst
<1>7. \A f, g \in built : f.first = g.first => f = g
  BY <1>1, <1>2, <1>3, FoldsApart
<1>8. Numbers(old)
  BY DEF LedgerInv, LedgerOf, old
<1> HIDE DEF built
<1>9. Numbers(old \cup new)
  BY <1>2, <1>5, <1>6, <1>7, <1>8, NumberedApart
<1> HIDE DEF new
<1>10. QED
  BY <1>4, <1>8, <1>9 DEF LedgerOf

\* The other steps make no folds.
LEMMA LedgerOther ==
  ASSUME TypeInv, LedgerInv, NEW s \in Sessions, Step(s), ~BuildAndRetain(s)
  PROVE  LedgerOf(s)'
<1> USE DEF TypeInv, TypeOK, LedgerInv, LedgerOf
<1>1. CASE Commit(s)
  <2>1. folds'[s] = folds[s] \cup delta[s] /\ delta'[s] = {}
    BY <1>1 DEF Commit, Return
  <2>2. folds'[s] \cup delta'[s] = folds[s] \cup delta[s]
    BY <2>1
  <2>3. QED
    BY <2>1, <2>2
<1>2. CASE GiveUp(s) \/ Cancel(s)
  <2>1. folds'[s] = folds[s] /\ delta'[s] = {}
    BY <1>2 DEF GiveUp, Cancel, Return
  <2>2. folds'[s] \cup delta'[s] = folds[s]
    BY <2>1
  <2>3. QED
    BY <2>1, <2>2
<1>3. CASE \E id \in gc[s] : Delete(s, id)
  <2>1. folds' = folds /\ delta' = delta /\ pc' = pc
    BY <1>3 DEF Delete
  <2>2. QED
    BY <2>1
<1>4. ASSUME folds' = folds, delta' = delta, pc[s] # "gc" PROVE LedgerOf(s)'
  BY <1>4
<1>5. CASE \E batch \in Batches : Extend(s, batch)
  BY <1>4, <1>5 DEF Extend, flight
<1>6. CASE StartCompact(s)
  BY <1>4, <1>6 DEF StartCompact
<1>7. CASE Rules(s)
  BY <1>4, <1>7 DEF Rules, EndStage
<1>8. CASE Middle(s)
  BY <1>4, <1>8 DEF Middle, Compress, EndStage
<1>9. CASE Summarize(s)
  BY <1>4, <1>9 DEF Summarize, Compress, EndStage
<1>10. CASE Drop(s)
  BY <1>4, <1>10 DEF Drop
<1>11. CASE EndDrop(s)
  BY <1>4, <1>11 DEF EndDrop, flight
<1>12. QED
  BY <1>1, <1>2, <1>3, <1>5, <1>6, <1>7, <1>8, <1>9, <1>10, <1>11
     DEF Step, Compacting

\* Initially the ledgers are empty.
LEMMA LedgerInit == Init => LedgerInv
<1> SUFFICES ASSUME Init, NEW s \in Sessions PROVE LedgerOf(s)
  BY DEF LedgerInv
<1>1. folds[s] = {} /\ delta[s] = {} /\ folds[s] \cup delta[s] = {}
  BY DEF Init
<1>2. Numbers({})
  BY DEF Numbers
<1>3. QED
  BY <1>1, <1>2 DEF LedgerOf

\* Every step preserves the invariant.
LEMMA LedgerNext ==
  TypeInv /\ TraceInv /\ LedgerInv /\ [Next]_vars => LedgerInv'
<1> SUFFICES ASSUME TypeInv, TraceInv, LedgerInv, [Next]_vars PROVE LedgerInv'
  OBVIOUS
<1>1. CASE UNCHANGED vars
  BY <1>1 DEF vars, flight, LedgerInv, LedgerOf
<1>2. ASSUME NEW s \in Sessions, Step(s) PROVE LedgerInv'
  <2>1. LedgerOf(s)'
    BY <1>2, LedgerBuild, LedgerOther
  <2>2. ASSUME NEW t \in Sessions, t # s PROVE LedgerOf(t)'
    <3>1. Same(t)
      BY <1>2, <2>2, OthersSame
    <3>2. QED
      BY <3>1 DEF Same, LedgerInv, LedgerOf
  <2>3. QED
    BY <2>1, <2>2 DEF LedgerInv
<1>3. QED
  BY <1>1, <1>2 DEF Next, Step

\* A step takes no fold from a ledger.
LEMMA LedgerGrows ==
  ASSUME TypeInv, [Next]_vars, NEW s \in Sessions
  PROVE  folds[s] \subseteq folds'[s]
<1>1. CASE UNCHANGED vars
  BY <1>1 DEF vars
<1>2. ASSUME NEW t \in Sessions, Step(t) PROVE folds[s] \subseteq folds'[s]
  <2>1. CASE Commit(t)
    BY <2>1 DEF Commit, TypeInv, TypeOK
  <2>2. CASE ~Commit(t)
    BY <1>2, <2>2 DEF Step, Compacting, Extend, StartCompact, Rules, Middle,
       Summarize, Compress, EndStage, Drop, EndDrop, GiveUp, BuildAndRetain,
       Delete, Cancel
  <2>3. QED
    BY <2>1, <2>2
<1>3. QED
  BY <1>1, <1>2 DEF Next, Step

\* The ledger of a session only grows, and no two of its folds ever have the
\* same id, although ids repeat whenever the same text is folded again
\* (session.rs, uniquify_fold_ids).
THEOREM LedgerKept == Spec => LedgerAppendOnly
<1>1. Init => TypeInv /\ TraceInv /\ LedgerInv
  BY TypeInit, TraceInit, LedgerInit
<1>2. TypeInv /\ TraceInv /\ LedgerInv /\ [Next]_vars =>
        (TypeInv /\ TraceInv /\ LedgerInv)'
  BY TypeNext, TraceNext, LedgerNext
<1>3. TypeInv /\ LedgerInv' /\ [Next]_vars =>
        [\A s \in Sessions :
           /\ folds[s] \subseteq folds'[s]
           /\ \A f, g \in folds'[s] : f.id = g.id => f = g]_vars
  BY LedgerGrows DEF LedgerInv, LedgerOf, Numbers
<1>4. QED
  BY <1>1, <1>2, <1>3, PTL DEF Spec, LedgerAppendOnly
-----------------------------------------------------------------------------
(***************************************************************************)
(* The prompt over a session's life: the pinned messages and the           *)
(* replacements of earlier compactions stay what they are, and retention   *)
(* takes the oldest of the latter.                                         *)
(***************************************************************************)

Above(F, i) == {j \in F : j > i}

Beyond(F, c) == {i \in F : Cardinality(Above(F, i)) >= c}

\* The numbers of a set that have at least c greater ones in it: when there
\* are any, c of the set are left.
LEMMA CapFacts ==
  ASSUME NEW n \in Nat, NEW F \in SUBSET (1 .. n), NEW c \in Nat,
         Beyond(F, c) # {}
  PROVE  Cardinality(F \ Beyond(F, c)) = c
<1> DEFINE above(i) == {j \in F : j > i}
           E == Beyond(F, c)
           e == Max(E)
           L == F \ E
<1>1. IsFiniteSet(F) /\ F \in SUBSET Nat /\ E \in SUBSET (0 .. n)
  <2>1. IsFiniteSet(1 .. n)
    BY FS_Interval
  <2>2. 1 .. n \subseteq 0 .. n
    OBVIOUS
  <2>3. IsFiniteSet(F)
    BY <2>1, FS_Subset
  <2>4. \A x \in F : x \in Nat /\ x \in 0 .. n
    BY <2>2
  <2>5. \A x \in E : x \in F
    BY DEF Beyond
  <2> HIDE DEF above, E
  <2>6. QED
    BY <2>3, <2>4, <2>5
<1>2. \A i \in F : IsFiniteSet(above(i)) /\ Cardinality(above(i)) \in Nat
  <2>1. \A i \in F : above(i) \in SUBSET F
    OBVIOUS
  <2> HIDE DEF above
  <2>2. QED
    BY <1>1, <2>1, FS_Subset, FS_CardinalityType
<1>3. E = {i \in F : Cardinality(above(i)) >= c}
  BY DEF Beyond, Above
<1> HIDE DEF E
<1>4. e \in E /\ e \in F /\ \A x \in E : x <= e
  <2>1. e \in E /\ \A x \in E : x <= e
    BY <1>1, MaxProps DEF E
  <2> HIDE DEF e, above
  <2>2. QED
    BY <1>3, <2>1
<1>5. \A x \in F : x \in Nat
  BY <1>1
<1> HIDE DEF e
<1>6. L = above(e)
  <2>1. ASSUME NEW x \in L PROVE x \in above(e)
    <3>1. x \in F /\ x \notin E /\ e \in F
      BY <1>4
    <3>2. x # e
      BY <1>4, <3>1
    <3>3. ASSUME x < e PROVE FALSE
      <4>1. above(e) \in SUBSET above(x)
        <5>1. x \in Nat /\ e \in Nat
          BY <1>5, <3>1
        <5>2. \A y \in F : y > e => y > x
          BY <1>5, <3>3, <5>1
        <5>3. QED
          BY <5>2
      <4> HIDE DEF above
      <4>2. Cardinality(above(e)) <= Cardinality(above(x))
        BY <1>2, <3>1, <4>1, FS_Subset
      <4>3. Cardinality(above(e)) >= c /\ ~(Cardinality(above(x)) >= c)
        BY <1>4, <1>3, <3>1
      <4>4. Cardinality(above(e)) \in Nat /\ Cardinality(above(x)) \in Nat
        BY <1>2, <3>1
      <4>5. \A a, b \in Nat : a <= b /\ a >= c => b >= c
        OBVIOUS
      <4>6. QED
        BY <4>2, <4>3, <4>4, <4>5
    <3>4. QED
      BY <1>5, <3>1, <3>2, <3>3
  <2>2. ASSUME NEW x \in above(e) PROVE x \in L
    BY <1>4, <1>5, <2>2
  <2>3. QED
    BY <2>1, <2>2
<1>7. Cardinality(L) >= c /\ Cardinality(L) \in Nat /\ IsFiniteSet(L)
  BY <1>2, <1>4, <1>3, <1>6
<1>8. Cardinality(L) <= c
  <2>1. CASE L = {}
    <3>1. Cardinality(L) = 0
      BY <2>1, FS_EmptySet
    <3>2. QED
      BY <3>1
  <2>2. CASE L # {}
    <3> DEFINE g == Min(L)
    <3>1. L \in SUBSET Nat
      BY <1>1
    <3>2. g \in L /\ \A x \in L : g <= x
      BY <2>2, <3>1, MinProps
    <3> HIDE DEF g
    <3>3. above(g) = L \ {g}
      <4>1. g \in F /\ g > e /\ e \in Nat /\ g \in Nat
        BY <1>4, <1>5, <1>6, <3>2
      <4>2. \A x \in F : x > g => x \in L
        BY <1>5, <1>6, <4>1
      <4>3. \A x \in L : x # g => x > g
        BY <1>5, <3>2, <4>1
      <4>4. \A x \in F : x > g => x # g
        BY <1>5
      <4>5. QED
        BY <4>2, <4>3, <4>4
    <3>4. Cardinality(above(g)) = Cardinality(L) - 1
      BY <1>7, <3>2, <3>3, FS_RemoveElement
    <3>5. g \in F /\ ~(Cardinality(above(g)) >= c)
      BY <1>3, <3>2
    <3>6. \A k \in Nat : ~(k - 1 >= c) => k <= c
      OBVIOUS
    <3>7. QED
      BY <1>7, <3>4, <3>5, <3>6
  <2>3. QED
    BY <2>1, <2>2
<1>9. \A k \in Nat : k >= c /\ k <= c => k = c
  OBVIOUS
<1>10. QED
  BY <1>7, <1>8, <1>9 DEF E

\* Sub moves the finalized messages it takes, and no other.
LEMMA FinAt ==
  ASSUME NEW n \in Nat, NEW ms, DOMAIN ms = 1 .. n, NEW P \in SUBSET (1 .. n)
  PROVE  Cardinality(FinPositions(Sub(ms, P))) =
           Cardinality(FinPositions(ms) \cap P)
<1> DEFINE c == Cardinality(P)
           A == FinPositions(Sub(ms, P))
           B == FinPositions(ms) \cap P
<1>1. PICK f \in [1 .. c -> P] : Picks(f, ms, P)
  BY AtOrder
<1>2. /\ c \in Nat /\ Sub(ms, P) = [k \in 1 .. c |-> ms[f[k]]]
      /\ \A j, k \in 1 .. c : j < k => f[j] < f[k]
      /\ \A i \in P : \E k \in 1 .. c : f[k] = i
  BY <1>1 DEF Picks
<1>3. A = {k \in 1 .. c : ms[f[k]].fin}
  BY <1>2 DEF FinPositions
<1>4. B = {i \in P : ms[i].fin}
  BY DEF FinPositions
<1> HIDE DEF A, B, c
<1> DEFINE h == [k \in A |-> f[k]]
<1>5. h \in [A -> B]
  BY <1>3, <1>4
<1>6. \A j, k \in A : h[j] = h[k] => j = k
  <2> SUFFICES ASSUME NEW j \in 1 .. c, NEW k \in 1 .. c, f[j] = f[k]
               PROVE  j = k
    BY <1>3
  <2>1. f[j] \in Nat
    <3>1. f[j] \in P
      OBVIOUS
    <3>2. \A x \in P : x \in Nat
      OBVIOUS
    <3>3. QED
      BY <3>1, <3>2
  <2>2. ~(j < k) /\ ~(k < j)
    BY <1>2, <2>1
  <2>3. QED
    BY <1>2, <2>2
<1>7. \A i \in B : \E k \in A : h[k] = i
  <2> SUFFICES ASSUME NEW i \in P, ms[i].fin PROVE \E k \in A : h[k] = i
    BY <1>4
  <2>1. PICK k \in 1 .. c : f[k] = i
    BY <1>2
  <2>2. k \in A
    BY <1>3, <2>1
  <2>3. QED
    BY <2>1, <2>2
<1>8. h \in Surjection(A, B)
  <2> HIDE DEF h
  <2>1. QED
    BY <1>5, <1>7 DEF Surjection
<1>9. h \in Injection(A, B)
  <2> HIDE DEF h
  <2>1. QED
    BY <1>5, <1>6 DEF Injection, IsInjective
<1>10. IsFiniteSet(A)
  <2>1. IsFiniteSet(1 .. c)
    BY <1>2, FS_Interval
  <2>2. A \in SUBSET (1 .. c)
    BY <1>3
  <2>3. QED
    BY <2>1, <2>2, FS_Subset
<1> HIDE DEF h
<1>11. Cardinality(B) = Cardinality(A)
  BY <1>8, <1>9, <1>10, FS_Surjection
<1>12. QED
  BY <1>11 DEF A, B
-----------------------------------------------------------------------------
(* The result of a compaction.  Between two compactions no message has a     *)
(* tag, and what is finalized is pinned: a frozen message is the same record *)
(* before and after.                                                         *)

Fresh(w) == \A i \in DOMAIN w : w[i].idx = 0 /\ (w[i].fin => w[i].pinned)

There(next, x) == \E j \in DOMAIN next : next[j] = x

Frozen(ms, next, cfg) ==
  \A i \in DOMAIN ms :
    /\ ms[i].pinned /\ ~ms[i].fin => There(next, ms[i])
    /\ ms[i].fin => \/ There(next, ms[i])
                    \/ /\ cfg.maxFin # None
                       /\ Cardinality(FinPositions(next)) = cfg.maxFin

\* A replacement's fold is at the position of a summary or of a changed message.
LEMMA FoldAt ==
  ASSUME NEW orig \in Seq(Message), NEW final \in Seq(Message), NEW gone,
         NEW ledger, BuildFolds(orig, final, gone) \subseteq Fold,
         NEW j \in DOMAIN final, final[j].idx # 0, j \notin Changed(orig, final),
         NEW f \in Numbered(ledger, BuildFolds(orig, final, gone))
  PROVE  f.at # j
<1>1. PICK g \in BuildFolds(orig, final, gone) : f.at = g.at
  <2> DEFINE new == BuildFolds(orig, final, gone)
  <2> HIDE DEF new
  <2> DEFINE num(g) == Cardinality(
             {h \in ledger : h.id.of = g.id.of /\ h.id.span = g.id.span}) +
             Cardinality({h \in new : h.id = g.id /\ h.first <= g.first})
  <2>1. Numbered(ledger, new) = {[g EXCEPT !.id.n = num(g)] : g \in new}
    BY DEF Numbered
  <2> HIDE DEF num
  <2>2. PICK g \in new : f = [g EXCEPT !.id.n = num(g)]
    BY <2>1 DEF new
  <2>3. g \in Fold
    BY DEF new
  <2>4. f.at = g.at
    BY <2>2, <2>3 DEF Fold
  <2>5. QED
    BY <2>4 DEF new
<1>2. j \in Nat /\ j # 0
  BY LenProperties
<1>3. CASE g \in ReplacementFolds(orig, final)
  BY <1>1, <1>3 DEF ReplacementFolds, FoldRecord, Changed
<1>4. CASE g \in SummaryFolds(orig, final)
  <2>1. SummarizedSpan(orig, final) # {} /\ g.at = Min(SummaryPositions(final))
    BY <1>4 DEF SummaryFolds, FoldRecord
  <2>2. Min(SummaryPositions(final)) \in SummaryPositions(final)
    BY MessagesListed, <2>1, SpanFacts
  <2>3. QED
    BY <1>1, <2>1, <2>2 DEF SummaryPositions
<1>5. CASE g \in DroppedFolds(orig, final, gone)
  BY <1>1, <1>2, <1>5 DEF DroppedFolds, FoldRecord
<1>6. QED
  BY <1>3, <1>4, <1>5 DEF BuildFolds

\* A message that is pinned comes out of a compaction as it went in, before
\* retention.
LEMMA FinalKeeps ==
  ASSUME NEW ms \in Seq(Message), Fresh(ms), NEW w \in Seq(Message),
         Traced(ms, w), NEW gone, NEW ledger,
         BuildFolds(Pinned(ms), w, gone) \subseteq Fold,
         NEW new, new = Numbered(ledger, BuildFolds(Pinned(ms), w, gone)),
         NEW i \in DOMAIN ms, ms[i].pinned
  PROVE  \E j \in DOMAIN w : Finalized(Untag(w), new)[j] = ms[i]
<1> DEFINE orig == Pinned(ms)
<1>1. PICK j \in DOMAIN w : w[j].idx = i
  BY DEF Traced, PinnedThere
<1>2. i # 0 /\ ms[i] \in Message /\ w[j] \in Message
  BY LenProperties, ElementOfSeq
<1>3. /\ w[j].role = ms[i].role /\ w[j].err = ms[i].err /\ w[j].fin = ms[i].fin
      /\ w[j].pinned = (ms[i].pinned \/ ms[i].fin)
      /\ w[j].pinned => w[j].text = ms[i].text /\ w[j].ccr = ms[i].ccr
  BY <1>1, <1>2 DEF Traced, Comes
<1>4. w[j].pinned = TRUE /\ ms[i].pinned = TRUE /\ ms[i].idx = 0
  BY <1>2, <1>3 DEF Message, Fresh
<1>5. Untagged(w[j]) = ms[i]
  BY <1>2, <1>3, <1>4 DEF Message, Untagged
<1>6. orig[i] = ms[i] /\ orig \in Seq(Message)
  <2>1. orig[i] = [ms[i] EXCEPT !.pinned = ms[i].pinned \/ ms[i].fin]
        /\ orig \in Seq(Message)
    BY PinnedType
  <2>2. [ms[i] EXCEPT !.pinned = ms[i].pinned \/ ms[i].fin] = ms[i]
    BY <1>2, <1>4 DEF Message
  <2>3. QED
    BY <2>1, <2>2
<1> HIDE DEF orig
<1>7. j \notin Changed(orig, w)
  BY <1>1, <1>5, <1>6 DEF Changed
<1>8. \A f \in new : f.at # j
  BY <1>1, <1>2, <1>6, <1>7, FoldAt DEF orig
<1>9. Finalized(Untag(w), new)[j] = Untagged(w[j])
  BY <1>8 DEF Finalized, Untag
<1>10. QED
  BY <1>5, <1>9

\* The list that retention is applied to has no tags, and what is finalized in
\* it is pinned.
LEMMA FinalFresh ==
  ASSUME NEW ms, NEW w \in Seq(Message), Traced(ms, w), NEW new
  PROVE  Fresh(Finalized(Untag(w), new))
<1> DEFINE final == Finalized(Untag(w), new)
<1>1. \A j \in DOMAIN w : w[j] \in Message
  BY LenProperties, ElementOfSeq
<1>2. DOMAIN final = DOMAIN w
  BY DEF Finalized, Untag
<1>3. ASSUME NEW j \in DOMAIN w
      PROVE  final[j].idx = 0 /\ (final[j].fin => final[j].pinned)
  <2> DEFINE u == Untagged(w[j])
  <2>1. /\ u.idx = 0 /\ u.fin = w[j].fin /\ u.pinned = w[j].pinned
        /\ u \in Message
    BY <1>1 DEF Untagged, Message
  <2>2. w[j].fin => w[j].pinned
    BY DEF Traced, Comes
  <2>3. final[j] = IF \E f \in new : f.at = j
                   THEN [u EXCEPT !.fin = TRUE, !.pinned = TRUE] ELSE u
    BY DEF Finalized, Untag
  <2> HIDE DEF u, final
  <2>4. [u EXCEPT !.fin = TRUE, !.pinned = TRUE].idx = 0
        /\ [u EXCEPT !.fin = TRUE, !.pinned = TRUE].pinned
    BY <2>1 DEF Message
  <2>5. QED
    BY <2>1, <2>2, <2>3, <2>4
<1> HIDE DEF final
<1>4. QED
  BY <1>2, <1>3 DEF Fresh, final

\* Retention takes the oldest finalized messages, down to the cap.
LEMMA RetentionKeeps ==
  ASSUME NEW ms \in Seq(Message), NEW cfg \in Config, NEW i \in DOMAIN ms
  PROVE  LET left == Sub(ms, DOMAIN ms \ Evictable(ms, cfg))
         IN  \/ There(left, ms[i])
             \/ /\ ms[i].fin /\ cfg.maxFin # None
                /\ Cardinality(FinPositions(left)) = cfg.maxFin
<1> DEFINE E == Evictable(ms, cfg)
           P == DOMAIN ms \ E
           F == FinPositions(ms)
           left == Sub(ms, P)
           n == Len(ms)
<1>1. DOMAIN ms = 1 .. n /\ n \in Nat
  BY LenProperties
<1>2. P \in SUBSET (1 .. n) /\ F \in SUBSET (1 .. n)
  BY <1>1 DEF FinPositions
<1>3. CASE i \notin E
  <2>1. PICK f \in [1 .. Cardinality(P) -> P] : Picks(f, ms, P)
    <3> HIDE DEF P, n
    <3>1. QED
      BY <1>1, <1>2, AtOrder
  <2>2. i \in P
    BY <1>3
  <2> HIDE DEF P
  <2>3. \E k \in DOMAIN left : left[k] = ms[i]
    BY <2>1, <2>2 DEF Picks
  <2>4. QED
    BY <2>3 DEF There, P
<1>4. CASE i \in E
  <2>1. cfg.maxFin # None /\ cfg.maxFin \in Nat
    BY <1>4 DEF Evictable, Config
  <2>2. E = Beyond(F, cfg.maxFin)
    BY <2>1 DEF Evictable, Beyond, Above
  <2>3. ms[i].fin
    BY <1>4, <2>2 DEF FinPositions, Beyond
  <2> HIDE DEF E, F, n
  <2>4. Cardinality(F \ E) = cfg.maxFin
    BY <1>1, <1>2, <1>4, <2>1, <2>2, CapFacts
  <2>5. FinPositions(ms) \cap P = F \ E
    BY DEF F, FinPositions
  <2> HIDE DEF P
  <2>6. Cardinality(FinPositions(left)) = Cardinality(FinPositions(ms) \cap P)
    BY <1>1, <1>2, FinAt
  <2>7. QED
    BY <2>1, <2>3, <2>4, <2>5, <2>6 DEF P, E
<1>5. QED
  BY <1>3, <1>4

\* The frozen messages are already in the result that waits for its commit.
FrozenOf(s) ==
  /\ Fresh(messages[s])
  /\ pc[s] = "gc" => /\ Fresh(working[s])
                     /\ Frozen(messages[s], working[s], config[s])

FrozenInv == \A s \in Sessions : FrozenOf(s)

\* The result of a compaction.
LEMMA FrozenBuild ==
  ASSUME TypeInv, TraceInv, FrozenInv, NEW s \in Sessions, BuildAndRetain(s)
  PROVE  FrozenOf(s)'
<1> DEFINE ms    == messages[s]
           w     == working[s]
           d     == dropped[s]
           cfg   == config[s]
           old   == folds[s]
           new   == Numbered(old, BuildFolds(Pinned(ms), w, d))
           final == Finalized(Untag(w), new)
           left  == Sub(final, DOMAIN final \ Evictable(final, cfg))
           n     == Len(ms)
<1>1. /\ w \in Seq(Sound(n, Text)) /\ w \in Seq(Message)
      /\ ms \in Seq(Message) /\ n \in Nat /\ cfg \in Config
      /\ d \in Seq(Message)
  BY TypeFacts DEF TypeInv, TypeOK
<1>2. Traced(ms, w) /\ Fresh(ms)
  BY DEF BuildAndRetain, TraceInv, TraceOf, Cascading, FrozenInv, FrozenOf
<1>3. /\ messages'[s] = ms /\ working'[s] = left /\ config'[s] = cfg
  <2>1. delta'[s] = new
    BY DEF BuildAndRetain, TypeInv, TypeOK
  <2>2. QED
    BY <2>1 DEF BuildAndRetain, TypeInv, TypeOK
<1> HIDE DEF ms, w, d, cfg, old
<1>4. BuildFolds(Pinned(ms), w, d) \subseteq Fold
  <2>1. Pinned(ms) \in Seq(Message) /\ Len(Pinned(ms)) = n
    BY <1>1, PinnedType
  <2> HIDE DEF n
  <2>2. QED
    BY <1>1, <2>1, BuildFoldsType
<1>5. \A i \in DOMAIN ms : ms[i].pinned =>
        \E j \in DOMAIN w : final[j] = ms[i]
  BY <1>1, <1>2, <1>4, FinalKeeps
<1> HIDE DEF new
<1>6. Fresh(final)
  BY <1>1, <1>2, FinalFresh
<1>7. final \in Seq(Sound(n, Text)) /\ DOMAIN final = DOMAIN w
  BY <1>1, FinalizedFacts
<1> HIDE DEF final, n
<1>8. final \in Seq(Message)
  BY <1>1, <1>7, SoundFacts
<1>9. \A i \in DOMAIN final :
        \/ There(left, final[i])
        \/ /\ final[i].fin /\ cfg.maxFin # None
           /\ Cardinality(FinPositions(left)) = cfg.maxFin
  BY <1>1, <1>8, RetentionKeeps
<1>10. Fresh(left)
  <2> DEFINE P == DOMAIN final \ Evictable(final, cfg)
             S == {final[i] : i \in P}
  <2>1. left \in Seq(S)
    BY <1>8, AtFacts
  <2>2. \A x \in S : x.idx = 0 /\ (x.fin => x.pinned)
    BY <1>6 DEF Fresh
  <2> HIDE DEF S, left
  <2>3. \A k \in DOMAIN left : left[k] \in S
    BY <2>1, LenProperties, ElementOfSeq
  <2>4. QED
    BY <2>2, <2>3 DEF Fresh
<1> HIDE DEF left
<1>11. Frozen(ms, left, cfg)
  <2> SUFFICES ASSUME NEW i \in DOMAIN ms, ms[i].pinned
               PROVE  \/ There(left, ms[i])
                      \/ /\ ms[i].fin /\ cfg.maxFin # None
                         /\ Cardinality(FinPositions(left)) = cfg.maxFin
    BY <1>2 DEF Frozen, Fresh
  <2>1. QED
    BY <1>5, <1>7, <1>9
<1>12. QED
  BY <1>2, <1>3, <1>10, <1>11 DEF FrozenOf, ms

\* A push of unfinalized messages.
LEMMA FrozenExtend ==
  ASSUME TypeInv, FrozenInv, NEW s \in Sessions, NEW batch \in Batches,
         Extend(s, batch)
  PROVE  /\ FrozenOf(s)'
         /\ \A i \in DOMAIN messages[s] : There(messages'[s], messages[s][i])
<1> DEFINE ms == messages[s]
           to == ms \o batch
<1>1. /\ ms \in Seq(Message) /\ batch \in Seq(Message)
      /\ \A k \in DOMAIN batch : batch[k].idx = 0 /\ ~batch[k].fin
  <2>1. batch \in Seq({m \in Message : m.idx = 0 /\ ~m.fin})
    BY SessionAssumption
  <2>2. batch \in Seq(Message)
    BY <2>1, SeqMonotonic
  <2>3. \A k \in DOMAIN batch : batch[k] \in {m \in Message : m.idx = 0 /\ ~m.fin}
    BY <2>1, LenProperties, ElementOfSeq
  <2>4. QED
    BY <2>2, <2>3, TypeFacts
<1>2. /\ DOMAIN to = 1 .. Len(ms) + Len(batch)
      /\ DOMAIN ms = 1 .. Len(ms) /\ DOMAIN batch = 1 .. Len(batch)
      /\ Len(ms) \in Nat /\ Len(batch) \in Nat
      /\ \A k \in 1 .. Len(ms) + Len(batch) :
           to[k] = IF k <= Len(ms) THEN ms[k] ELSE batch[k - Len(ms)]
  BY <1>1, ConcatProperties, LenProperties
<1>3. messages'[s] = to /\ pc'[s] # "gc"
  BY DEF Extend, TypeInv, TypeOK
<1>4. Fresh(ms)
  BY DEF FrozenInv, FrozenOf
<1> HIDE DEF to, ms
<1>5. Fresh(to)
  <2> SUFFICES ASSUME NEW k \in DOMAIN to
               PROVE  to[k].idx = 0 /\ (to[k].fin => to[k].pinned)
    BY DEF Fresh
  <2>1. CASE k <= Len(ms)
    <3>1. k \in DOMAIN ms /\ to[k] = ms[k]
      BY <1>2, <2>1
    <3>2. QED
      BY <1>4, <3>1 DEF Fresh
  <2>2. CASE ~(k <= Len(ms))
    <3>1. k - Len(ms) \in DOMAIN batch /\ to[k] = batch[k - Len(ms)]
      BY <1>2, <2>2
    <3>2. QED
      BY <1>1, <3>1
  <2>3. QED
    BY <2>1, <2>2
<1>6. \A i \in DOMAIN ms : i \in DOMAIN to /\ to[i] = ms[i]
  BY <1>2
<1>7. QED
  BY <1>3, <1>5, <1>6 DEF FrozenOf, There, ms

\* The other steps.
LEMMA FrozenOther ==
  ASSUME TypeInv, FrozenInv, NEW s \in Sessions, Step(s),
         \A batch \in Batches : ~Extend(s, batch), ~BuildAndRetain(s), ~Commit(s)
  PROVE  /\ FrozenOf(s)' /\ messages' = messages
<1> USE DEF TypeInv, TypeOK
<1>1. ASSUME messages' = messages, pc'[s] # "gc"
      PROVE  FrozenOf(s)' /\ messages' = messages
  BY <1>1 DEF FrozenInv, FrozenOf
<1>2. CASE StartCompact(s)
  BY <1>1, <1>2 DEF StartCompact
<1>3. CASE Rules(s)
  BY <1>1, <1>3 DEF Rules, EndStage
<1>4. CASE Middle(s)
  BY <1>1, <1>4 DEF Middle, Compress, EndStage
<1>5. CASE Summarize(s)
  BY <1>1, <1>5 DEF Summarize, Compress, EndStage
<1>6. CASE Drop(s)
  BY <1>1, <1>6 DEF Drop
<1>7. CASE EndDrop(s)
  BY <1>1, <1>7 DEF EndDrop
<1>8. CASE GiveUp(s)
  BY <1>1, <1>8 DEF GiveUp, Return
<1>9. CASE Cancel(s)
  BY <1>1, <1>9 DEF Cancel, Return
<1>10. CASE \E id \in gc[s] : Delete(s, id)
  BY <1>10 DEF Delete, FrozenInv, FrozenOf
<1>11. QED
  BY <1>2, <1>3, <1>4, <1>5, <1>6, <1>7, <1>8, <1>9, <1>10 DEF Step, Compacting

\* Every step preserves the invariant.
LEMMA FrozenNext ==
  TypeInv /\ TraceInv /\ FrozenInv /\ [Next]_vars => FrozenInv'
<1> SUFFICES ASSUME TypeInv, TraceInv, FrozenInv, [Next]_vars PROVE FrozenInv'
  OBVIOUS
<1>1. CASE UNCHANGED vars
  BY <1>1 DEF vars, flight, FrozenInv, FrozenOf
<1>2. ASSUME NEW s \in Sessions, Step(s) PROVE FrozenInv'
  <2>1. FrozenOf(s)'
    <3>1. CASE Commit(s)
      <4>1. messages'[s] = working[s] /\ pc'[s] # "gc" /\ pc[s] = "gc"
        BY <3>1 DEF Commit, Return, TypeInv, TypeOK
      <4>2. QED
        BY <4>1 DEF FrozenInv, FrozenOf
    <3>2. QED
      BY <1>2, <3>1, FrozenBuild, FrozenExtend, FrozenOther
  <2>2. ASSUME NEW t \in Sessions, t # s PROVE FrozenOf(t)'
    <3>1. Same(t)
      BY <1>2, <2>2, OthersSame
    <3>2. QED
      BY <3>1 DEF Same, FrozenInv, FrozenOf
  <2>3. QED
    BY <2>1, <2>2 DEF FrozenInv
<1>3. QED
  BY <1>1, <1>2 DEF Next, Step

\* What a step does to the frozen messages of a session.
LEMMA FrozenStep ==
  ASSUME TypeInv, FrozenInv, [Next]_vars, NEW s \in Sessions
  PROVE  Frozen(messages[s], messages'[s], config[s])
<1>1. ASSUME \A i \in DOMAIN messages[s] : There(messages'[s], messages[s][i])
      PROVE  Frozen(messages[s], messages'[s], config[s])
  BY <1>1 DEF Frozen
<1>2. ASSUME messages'[s] = messages[s]
      PROVE  Frozen(messages[s], messages'[s], config[s])
  BY <1>1, <1>2 DEF There
<1>3. CASE UNCHANGED vars
  BY <1>2, <1>3 DEF vars
<1>4. ASSUME NEW t \in Sessions, Step(t)
      PROVE  Frozen(messages[s], messages'[s], config[s])
  <2>1. CASE t # s
    BY <1>2, <1>4, <2>1, OthersSame DEF Same
  <2>2. CASE t = s /\ Commit(s)
    <3>1. messages'[s] = working[s] /\ pc[s] = "gc"
      BY <2>2 DEF Commit, TypeInv, TypeOK
    <3>2. QED
      BY <3>1 DEF FrozenInv, FrozenOf
  <2>3. CASE t = s /\ \E batch \in Batches : Extend(s, batch)
    BY <1>1, <2>3, FrozenExtend
  <2>4. CASE t = s /\ BuildAndRetain(s)
    BY <1>2, <2>4 DEF BuildAndRetain
  <2>5. QED
    BY <1>2, <1>4, <2>1, <2>2, <2>3, <2>4, FrozenOther
<1>5. QED
  BY <1>3, <1>4 DEF Next, Step

\* Initially there are no messages.
LEMMA FrozenInit == Init => FrozenInv
  BY DEF Init, FrozenInv, FrozenOf, Fresh

\* A message the host pinned stays in the prompt for good, the same in every
\* field; a replacement that a compaction finalized stays too, until retention
\* has a cap and as many younger ones as the cap says are there
\* (ContextSession::compact, apply_retention).
THEOREM FrozenKept == Spec => FrozenPrefix
<1>1. Init => TypeInv /\ TraceInv /\ FrozenInv
  BY TypeInit, TraceInit, FrozenInit
<1>2. TypeInv /\ TraceInv /\ FrozenInv /\ [Next]_vars =>
        (TypeInv /\ TraceInv /\ FrozenInv)'
  BY TypeNext, TraceNext, FrozenNext
<1>3. TypeInv /\ FrozenInv /\ [Next]_vars =>
        [\A s \in Sessions : \A i \in DOMAIN messages[s] :
           LET m    == messages[s][i]
               next == messages'[s]
               here(x) == \E j \in DOMAIN next : next[j] = x
           IN  /\ m.pinned /\ ~m.fin => here(m)
               /\ m.fin => \/ here(m)
                           \/ /\ config[s].maxFin # None
                              /\ Cardinality(FinPositions(next)) =
                                   config[s].maxFin]_vars
  BY FrozenStep DEF Frozen, There
<1>4. QED
  BY <1>1, <1>2, <1>3, PTL DEF Spec, FrozenPrefix
-----------------------------------------------------------------------------
(* The recall index.  Its ids are those of folds, and what a fold takes its  *)
(* id from is referred to.                                                   *)

\* The id a fold record takes from a message is one the message refers to
\* (compact.rs, ccr_id and extract_ccr_marker).
LEMMA CcrIdRefers ==
  ASSUME NEW m \in Message
  PROVE  CcrIdOf(m) \in Refs(m) \cup {None}
<1>1. m.text \in Text
  BY MessageFacts
<1>2. FirstMarker(m.text) \in Markers(m.text) \cup {None}
  BY <1>1, MarkerFacts
<1>3. QED
  BY <1>2 DEF CcrIdOf, Refs

\* The id of a fold record is referred to by the result or by what it dropped.
LEMMA FoldIds ==
  ASSUME NEW orig, NEW dropd \in Seq(Message), NEW n \in Nat, NEW st,
         NEW final \in Seq(Sound(n, st)),
         \A j \in DOMAIN dropd : Refs(dropd[j]) \subseteq st
  PROVE  \A f \in BuildFolds(orig, final, dropd) : f.ccr \in st \cup {None}
<1>1. \A j \in DOMAIN final : CcrIdOf(final[j]) \in st \cup {None}
  <2>1. \A j \in DOMAIN final : final[j] \in Sound(n, st)
    BY ElementOfSeq, LenProperties
  <2>2. QED
    BY <2>1, CcrIdRefers DEF Sound
<1>2. \A j \in DOMAIN dropd : CcrIdOf(dropd[j]) \in st \cup {None}
  <2>1. \A j \in DOMAIN dropd : dropd[j] \in Message
    BY ElementOfSeq, LenProperties
  <2>2. QED
    BY <2>1, CcrIdRefers
<1>3. \A kind, first, last, at, ccr :
        FoldRecord(kind, orig, first, last, at, ccr).ccr = ccr
  BY DEF FoldRecord
<1>4. \A f \in ReplacementFolds(orig, final) : f.ccr \in st \cup {None}
  BY <1>1, <1>3 DEF ReplacementFolds
<1>5. \A f \in SummaryFolds(orig, final) : f.ccr \in st \cup {None}
  <2> DEFINE S == SummaryPositions(final)
  <2>1. CASE SummarizedSpan(orig, final) = {}
    BY <2>1 DEF SummaryFolds
  <2>2. CASE SummarizedSpan(orig, final) # {}
    <3>1. S # {} /\ S \subseteq DOMAIN final /\ S \in SUBSET Nat
      BY <2>2, LenProperties DEF SummarizedSpan, SummaryPositions
    <3>2. Min(S) \in DOMAIN final
      BY <3>1, MinProps
    <3>3. QED
      BY <1>1, <1>3, <2>2, <3>2 DEF SummaryFolds
  <2>3. QED
    BY <2>1, <2>2
<1>6. \A f \in DroppedFolds(orig, final, dropd) : f.ccr \in st \cup {None}
  BY <1>2, <1>3 DEF DroppedFolds
<1>7. QED
  BY <1>4, <1>5, <1>6 DEF BuildFolds

\* Numbering changes no CCR id and no range.
LEMMA NumberedKeeps ==
  ASSUME NEW ledger, NEW new \in SUBSET Fold
  PROVE  \A g \in Numbered(ledger, new) :
           \E f \in new : g.ccr = f.ccr /\ g.first = f.first
  BY DEF Numbered, Fold

\* The index holds documents under the ids it had and those of the new folds.
LEMMA IndexedIds ==
  ASSUME NEW docs, NEW ms, NEW new
  PROVE  IdsOf(Indexed(docs, ms, new))
           \subseteq IdsOf(docs) \cup {f.ccr : f \in {g \in new : g.ccr # None}}
  BY DEF Indexed, IdsOf
-----------------------------------------------------------------------------
(* What the index returns can be retrieved.  As for the prompt's own         *)
(* references, the property fails when the future is dropped between the     *)
(* deletes and the commit, and between sessions that share a store.          *)

\* A fold takes its id from the result or from a dropped message, so what was
\* dropped must refer to stored texts too, until the deletes begin.
RecallOf(s) ==
  /\ pc[s] # "gc" =>
       /\ evicted[s] = {}
       /\ \A j \in DOMAIN dropped[s] : Refs(dropped[s][j]) \subseteq store
  /\ KeepsOriginals => evicted[s] = {}
  /\ IdsOf(recall[s]) \subseteq store \cup evicted[s]

RecallInv == \A s \in Sessions : RecallOf(s)

\* Nothing takes a text from the store behind a session's back.
LEMMA StoreGrows ==
  ASSUME TypeInv, LiveInv, OneSession \/ KeepsOriginals,
         NEW s \in Sessions, Step(s), NEW t \in Sessions,
         t # s \/ KeepsOriginals \/ ~(\E id \in gc[s] : Delete(s, id))
  PROVE  store \subseteq store'
<1>1. CASE \E id \in gc[s] : Delete(s, id)
  <2>1. gc[s] = {}
    BY <1>1 DEF OneSession, LiveInv
  <2>2. QED
    BY <1>1, <2>1
<1>2. CASE ~(\E id \in gc[s] : Delete(s, id))
  BY <1>2 DEF Step, Compacting, Extend, StartCompact, Rules, Middle, Summarize,
     Compress, EndStage, Drop, EndDrop, GiveUp, BuildAndRetain, Commit, Cancel
<1>3. QED
  BY <1>1, <1>2

\* What the folds are indexed under is in the store when they are built.
LEMMA RecallBuild ==
  ASSUME TypeInv, LiveInv, RecallInv, NEW s \in Sessions, BuildAndRetain(s)
  PROVE  RecallOf(s)'
<1> DEFINE orig  == Pinned(messages[s])
           built == BuildFolds(orig, working[s], dropped[s])
           new   == Numbered(folds[s], built)
<1>1. /\ working[s] \in Seq(Sound(Len(messages[s]), store))
      /\ working[s] \in Seq(Sound(Len(messages[s]), Text))
      /\ Len(messages[s]) \in Nat /\ messages[s] \in Seq(Message)
  BY TypeFacts DEF LiveInv
<1>2. /\ dropped[s] \in Seq(Message)
      /\ \A j \in DOMAIN dropped[s] : Refs(dropped[s][j]) \subseteq store
      /\ evicted[s] = {} /\ IdsOf(recall[s]) \subseteq store
  BY DEF BuildAndRetain, TypeInv, TypeOK, RecallInv, RecallOf
<1>3. built \in SUBSET Fold
  <2>1. orig \in Seq(Message) /\ Len(orig) = Len(messages[s])
    BY <1>1, PinnedType
  <2> HIDE DEF orig
  <2>2. QED
    BY <1>1, <1>2, <2>1, BuildFoldsType
<1>4. \A f \in built : f.ccr \in store \cup {None}
  BY <1>1, <1>2, FoldIds
<1> HIDE DEF built
<1>5. \A f \in new : f.ccr \in store \cup {None}
  BY <1>3, <1>4, NumberedKeeps
<1>6. /\ recall'[s] = Indexed(recall[s], messages[s], new)
      /\ store' = store /\ evicted'[s] = evicted[s] /\ pc'[s] = "gc"
  BY DEF BuildAndRetain, TypeInv, TypeOK, built
<1> HIDE DEF new
<1>7. IdsOf(recall'[s]) \subseteq store
  BY <1>2, <1>5, <1>6, IndexedIds
<1>8. QED
  BY <1>2, <1>6, <1>7 DEF RecallOf

\* What is dropped refers to what the list referred to.
LEMMA RecallDrop ==
  ASSUME TypeInv, LiveInv, RecallInv, NEW s \in Sessions, Drop(s)
  PROVE  RecallOf(s)'
<1> DEFINE w == working[s]
           r == DropRange(w, config[s])
           gone == SubSeq(w, r[1], r[2])
           old  == dropped[s]
           n == Len(messages[s])
<1>1. w \in Seq(Sound(n, store)) /\ n \in Nat
  BY TypeFacts DEF LiveInv
<1>2. gone \in Seq(Sound(n, store))
  BY <1>1, DropFacts DEF Drop
<1>3. gone \in Seq(Message) /\ \A k \in DOMAIN gone : Refs(gone[k]) \subseteq store
  <2> HIDE DEF gone
  <2>1. \A k \in DOMAIN gone : gone[k] \in Sound(n, store)
    BY <1>2, ElementOfSeq, LenProperties
  <2>2. QED
    BY <1>1, <1>2, <2>1, SoundFacts DEF Sound
<1>4. /\ old \in Seq(Message) /\ evicted[s] = {}
      /\ \A k \in DOMAIN old : Refs(old[k]) \subseteq store
      /\ IdsOf(recall[s]) \subseteq store
  BY DEF Drop, TypeInv, TypeOK, RecallInv, RecallOf
<1>5. /\ dropped'[s] = old \o gone /\ store' = store
      /\ evicted'[s] = evicted[s] /\ recall'[s] = recall[s]
  BY DEF Drop, TypeInv, TypeOK
<1> HIDE DEF gone, old, w, r, n
<1>6. \A j \in DOMAIN (old \o gone) : Refs((old \o gone)[j]) \subseteq store
  BY <1>3, <1>4, ConcatElements
<1>7. QED
  BY <1>4, <1>5, <1>6 DEF RecallOf

\* A delete is noted, and the commit removes what was deleted from the index.
LEMMA RecallEnd ==
  ASSUME TypeInv, LiveInv, RecallInv, OneSession \/ KeepsOriginals,
         NEW s \in Sessions,
         Commit(s) \/ GiveUp(s) \/ Cancel(s) \/ \E id \in gc[s] : Delete(s, id)
  PROVE  RecallOf(s)'
<1> USE DEF RecallInv, RecallOf, TypeInv, TypeOK
<1>1. CASE Commit(s)
  <2>1. /\ recall'[s] = {d \in recall[s] : d.id \notin evicted[s]}
        /\ evicted'[s] = {} /\ dropped'[s] = <<>> /\ store' = store
    BY <1>1 DEF Commit, Return, Forgotten
  <2>2. IdsOf(recall'[s]) \subseteq store
    BY <2>1 DEF IdsOf
  <2>3. QED
    BY <2>1, <2>2
<1>2. CASE GiveUp(s) \/ Cancel(s)
  <2>1. pc[s] # "gc" \/ KeepsOriginals
    BY <1>2 DEF GiveUp, Cancel, OneSession
  <2>2. evicted[s] = {}
    BY <2>1
  <2>3. /\ recall'[s] = recall[s] /\ store \subseteq store'
        /\ evicted'[s] = {} /\ dropped'[s] = <<>>
    BY <1>2 DEF GiveUp, Cancel, Return
  <2>4. QED
    BY <2>2, <2>3
<1>3. CASE \E id \in gc[s] : Delete(s, id)
  <2>1. PICK id \in gc[s] : Delete(s, id)
    BY <1>3
  <2>2. ~KeepsOriginals
    BY <2>1 DEF LiveInv
  <2>3. pc'[s] = "gc" /\ recall'[s] = recall[s]
    BY <2>1 DEF Delete
  <2>4. store \cup evicted[s] \subseteq store' \cup evicted'[s]
    BY <2>1 DEF Delete
  <2>5. QED
    BY <2>2, <2>3, <2>4
<1>4. QED
  BY <1>1, <1>2, <1>3

\* Initially the index is empty.
LEMMA RecallInit == Init => RecallInv
<1> SUFFICES ASSUME Init, NEW s \in Sessions PROVE RecallOf(s)
  BY DEF RecallInv
<1>1. evicted[s] = {} /\ recall[s] = {} /\ dropped[s] = <<>>
  BY DEF Init
<1>2. QED
  BY <1>1 DEF RecallOf, IdsOf

\* Every step preserves the invariant.
LEMMA RecallNext ==
  ASSUME OneSession \/ KeepsOriginals
  PROVE  TypeInv /\ LiveInv /\ RecallInv /\ [Next]_vars => RecallInv'
<1> SUFFICES ASSUME TypeInv, LiveInv, RecallInv, [Next]_vars PROVE RecallInv'
  OBVIOUS
<1>1. CASE UNCHANGED vars
  BY <1>1 DEF vars, flight, RecallInv, RecallOf
<1>2. ASSUME NEW s \in Sessions, Step(s) PROVE RecallInv'
  <2>1. ASSUME NEW t \in Sessions, store \subseteq store',
               \/ recall'[t] = recall[t] /\ evicted'[t] = evicted[t]
                  /\ dropped'[t] = dropped[t] /\ pc'[t] # "gc" /\ pc[t] # "gc"
               \/ Same(t)
        PROVE  RecallOf(t)'
    BY <2>1 DEF Same, RecallInv, RecallOf
  <2>2. ASSUME NEW t \in Sessions, t # s PROVE RecallOf(t)'
    BY <1>2, <2>1, <2>2, OthersSame, StoreGrows
  <2>3. RecallOf(s)'
    <3>1. CASE BuildAndRetain(s)
      BY <3>1, RecallBuild
    <3>2. CASE Drop(s)
      BY <3>2, RecallDrop
    <3>3. CASE Commit(s) \/ GiveUp(s) \/ Cancel(s) \/ \E id \in gc[s] : Delete(s, id)
      BY <3>3, RecallEnd
    <3>4. CASE \/ \E batch \in Batches : Extend(s, batch)
               \/ StartCompact(s) \/ EndDrop(s)
      <4>1. /\ recall'[s] = recall[s] /\ evicted'[s] = evicted[s]
            /\ dropped'[s] = dropped[s] /\ pc'[s] # "gc" /\ pc[s] # "gc"
            /\ store \subseteq store'
        BY <3>4 DEF Extend, StartCompact, EndDrop, flight, TypeInv, TypeOK
      <4>2. QED
        BY <2>1, <4>1
    <3>5. CASE Rules(s) \/ Middle(s) \/ Summarize(s)
      <4>1. /\ recall'[s] = recall[s] /\ evicted'[s] = evicted[s]
            /\ dropped'[s] = dropped[s] /\ pc'[s] # "gc" /\ pc[s] # "gc"
            /\ store \subseteq store'
        BY <3>5 DEF Rules, Middle, Summarize, Compress, EndStage, TypeInv, TypeOK
      <4>2. QED
        BY <2>1, <4>1
    <3>6. QED
      BY <1>2, <3>1, <3>2, <3>3, <3>4, <3>5 DEF Step, Compacting
  <2>4. QED
    BY <2>2, <2>3 DEF RecallInv
<1>3. QED
  BY <1>1, <1>2 DEF Next, Step

\* Every id that the recall index may return can be retrieved, the ids that the
\* retention of the same compaction has just deleted aside: for one session,
\* and for sessions that share a store in which no originals are deleted
\* (RecallIndex::index, remove; apply_retention).
THEOREM RecallCorrect ==
  ASSUME OneSession \/ KeepsOriginals
  PROVE  Spec => []RecallResolves
<1>1. Init => TypeInv /\ LiveInv /\ RecallInv
  BY TypeInit, LiveInit, RecallInit
<1>2. TypeInv /\ LiveInv /\ RecallInv /\ [Next]_vars =>
        (TypeInv /\ LiveInv /\ RecallInv)'
  BY TypeNext, LiveNext, RecallNext
<1>3. RecallInv => RecallResolves
  BY DEF RecallInv, RecallOf, RecallResolves
<1>4. QED
  BY <1>1, <1>2, <1>3, PTL DEF Spec
-----------------------------------------------------------------------------
(* Tags *)

\* Of finitely many folds with an id, one has the last range.
LEMMA LastFold ==
  ASSUME NEW new \in SUBSET Fold, IsFiniteSet(new), NEW f \in new
  PROVE  \E g \in new : /\ g.ccr = f.ccr
                        /\ \A h \in new : h.ccr = g.ccr => h.first <= g.first
<1> DEFINE Mine == {h \in new : h.ccr = f.ccr}
           later(g) == {h \in Mine : h.first > g.first}
           T == {Cardinality(later(g)) : g \in Mine}
<1>1. IsFiniteSet(Mine) /\ \A h \in Mine : h.first \in Nat
  BY FS_Subset DEF Fold
<1>2. \A g \in Mine : IsFiniteSet(later(g)) /\ Cardinality(later(g)) \in Nat
  BY <1>1, FS_Subset, FS_CardinalityType
<1>3. T \in SUBSET Nat /\ T # {}
  BY <1>2
<1>4. Min(T) \in T /\ \A x \in T : Min(T) <= x
  <2> HIDE DEF T
  <2>1. QED
    BY <1>3, MinProps
<1>5. PICK g \in Mine : \A h \in Mine : Cardinality(later(g)) <= Cardinality(later(h))
  <2>1. PICK g \in Mine : Min(T) = Cardinality(later(g))
    BY <1>4
  <2>2. \A h \in Mine : Cardinality(later(h)) \in T
    OBVIOUS
  <2> HIDE DEF T, later
  <2>3. QED
    BY <1>4, <2>1, <2>2
<1>6. ASSUME NEW h \in Mine, h.first > g.first PROVE FALSE
  <2>1. \A x \in Mine : x.first > h.first => x.first > g.first
    BY <1>1, <1>6
  <2>2. later(h) \subseteq later(g) /\ h \in later(g) /\ h \notin later(h)
    BY <1>1, <1>6, <2>1
  <2> HIDE DEF later
  <2>3. Cardinality(later(h)) < Cardinality(later(g))
    BY <1>2, <2>2, FS_Subset
  <2>4. QED
    BY <1>2, <1>5, <2>3
<1>7. \A h \in Mine : h.first <= g.first
  BY <1>1, <1>6
<1>8. QED
  BY <1>7

\* Indexing folds takes no tag from an id and gives each fold's id its tags.
LEMMA IndexedTags ==
  ASSUME NEW docs \in SUBSET Doc, NEW ms, NEW new \in SUBSET Fold,
         IsFiniteSet(new), NEW tag
  PROVE  /\ \A d \in docs : tag \in d.tags =>
              d.id \in IdsOf(FindByTag(Indexed(docs, ms, new), tag))
         /\ \A f \in new : f.ccr # None /\ tag \in FoldTags(Originals(ms, f)) =>
              f.ccr \in IdsOf(FindByTag(Indexed(docs, ms, new), tag))
<1> DEFINE doc(f) == [id |-> f.ccr, kind |-> f.kind,
                      of |-> {m.text : m \in Originals(ms, f)},
                      tags |-> TagsUnder(docs, ms, new, f.ccr)]
<1>1. ASSUME NEW f \in new, f.ccr # None, tag \in TagsUnder(docs, ms, new, f.ccr)
      PROVE  f.ccr \in IdsOf(FindByTag(Indexed(docs, ms, new), tag))
  <2>1. PICK g \in new : /\ g.ccr = f.ccr
                         /\ \A h \in new : h.ccr = g.ccr => h.first <= g.first
    BY LastFold
  <2>2. doc(g) \in Indexed(docs, ms, new)
    BY <1>1, <2>1 DEF Indexed
  <2>3. doc(g).id = f.ccr /\ tag \in doc(g).tags
    BY <1>1, <2>1
  <2> HIDE DEF doc
  <2>4. QED
    BY <2>2, <2>3 DEF IdsOf, FindByTag
<1>2. ASSUME NEW d \in docs, tag \in d.tags
      PROVE  d.id \in IdsOf(FindByTag(Indexed(docs, ms, new), tag))
  <2>1. CASE \A f \in new : f.ccr # d.id
    BY <1>2, <2>1 DEF Indexed, IdsOf, FindByTag
  <2>2. CASE \E f \in new : f.ccr = d.id
    <3>1. PICK f \in new : f.ccr = d.id
      BY <2>2
    <3>2. d.id \in Text /\ d.id # None
      BY TextAssumption DEF Doc
    <3>3. tag \in TagsUnder(docs, ms, new, f.ccr)
      BY <1>2, <3>1 DEF TagsUnder
    <3>4. QED
      BY <1>1, <3>1, <3>2, <3>3
  <2>3. QED
    BY <2>1, <2>2
<1>3. ASSUME NEW f \in new, f.ccr # None, tag \in FoldTags(Originals(ms, f))
      PROVE  f.ccr \in IdsOf(FindByTag(Indexed(docs, ms, new), tag))
  BY <1>1, <1>3 DEF TagsUnder
<1>4. QED
  BY <1>2, <1>3

\* What a step of any session does to the tags of this one.
TagsKept(s) ==
  /\ \A d \in recall[s] : \A tag \in d.tags :
       d.id \in IdsOf(FindByTag(recall'[s], tag)) \cup evicted[s]
  /\ pc[s] = "fold" /\ pc'[s] = "gc" =>
       \A f \in delta'[s] : f.ccr # None =>
         \A tag \in FoldTags(Originals(messages[s], f)) :
           f.ccr \in IdsOf(FindByTag(recall'[s], tag))

\* The folds of a compaction are indexed as they are built.
LEMMA TagsBuild ==
  ASSUME TypeInv, NEW s \in Sessions, BuildAndRetain(s)
  PROVE  TagsKept(s)
<1>1. TypeInv'
  BY TypeBuild
<1>2. /\ delta'[s] \in SUBSET Fold /\ IsFiniteSet(delta'[s])
      /\ recall[s] \in SUBSET Doc
  BY <1>1 DEF TypeInv, TypeOK, LedgersFinite
<1>3. recall'[s] = Indexed(recall[s], messages[s], delta'[s])
  BY DEF BuildAndRetain, TypeInv, TypeOK
<1>4. QED
  BY <1>2, <1>3, IndexedTags DEF TagsKept

\* No other step takes a document from the index whose original it keeps.
LEMMA TagsOther ==
  ASSUME TypeInv, NEW s \in Sessions, Step(s), ~BuildAndRetain(s)
  PROVE  TagsKept(s)
<1>1. ASSUME recall'[s] = recall[s], ~(pc[s] = "fold" /\ pc'[s] = "gc")
      PROVE  TagsKept(s)
  BY <1>1 DEF TagsKept, IdsOf, FindByTag
<1>2. CASE Commit(s)
  <2>1. /\ recall'[s] = {d \in recall[s] : d.id \notin evicted[s]}
        /\ pc[s] = "gc"
    BY <1>2 DEF Commit, Forgotten, TypeInv, TypeOK
  <2>2. QED
    BY <2>1 DEF TagsKept, IdsOf, FindByTag
<1>3. CASE (\E batch \in Batches : Extend(s, batch)) \/ StartCompact(s) \/ Cancel(s)
  BY <1>1, <1>3 DEF Extend, StartCompact, Cancel, Return, TypeInv, TypeOK
<1>4. CASE Rules(s) \/ Middle(s) \/ Summarize(s)
  BY <1>1, <1>4 DEF Rules, Middle, Summarize, Compress, EndStage
<1>5. CASE Drop(s) \/ EndDrop(s) \/ GiveUp(s)
  BY <1>1, <1>5 DEF Drop, EndDrop, GiveUp
<1>6. CASE \E id \in gc[s] : Delete(s, id)
  BY <1>1, <1>6 DEF Delete
<1>7. QED
  BY <1>2, <1>3, <1>4, <1>5, <1>6 DEF Step, Compacting

\* What was once found by a tag is found by it until its original is collected,
\* and a new fold's tags are there as soon as it is (RecallIndex::index merges
\* the tags of an id that it has seen before).
THEOREM TagsKeptFindable == Spec => TagsStayFindable
<1>1. TypeInv /\ [Next]_vars => [\A s \in Sessions : TagsKept(s)]_vars
  <2> SUFFICES ASSUME TypeInv, NEW t \in Sessions, Step(t), NEW s \in Sessions
               PROVE  TagsKept(s)
    BY DEF Next, Step
  <2>1. CASE t = s
    BY <2>1, TagsBuild, TagsOther
  <2>2. CASE t # s
    <3>1. Same(s)
      BY <2>2, OthersSame
    <3>2. QED
      BY <3>1 DEF Same, TagsKept, IdsOf, FindByTag
  <2>3. QED
    BY <2>1, <2>2
<1>2. Init => TypeInv
  BY TypeInit
<1>3. TypeInv /\ [Next]_vars => TypeInv'
  BY TypeNext
<1>4. QED
  BY <1>1, <1>2, <1>3, PTL DEF Spec, TagsStayFindable, TagsKept
-----------------------------------------------------------------------------
(* What is measured in tokens *)

\* A list with some elements left out counts no more.
LEMMA AtCount ==
  ASSUME NEW ms \in Seq(Message), NEW P \in SUBSET (DOMAIN ms)
  PROVE  CountTokens(Sub(ms, P)) <= CountTokens(ms)
<1> DEFINE n == Len(ms)
           c == Cardinality(P)
           r == Sub(ms, P)
           R(x) == TokensFrom(r, x)
           T(x) == TokensFrom(ms, x)
<1>1. n \in Nat /\ DOMAIN ms = 1 .. n /\ \A i \in DOMAIN ms : ms[i] \in Message
  BY LenProperties, ElementOfSeq
<1>2. PICK f \in [1 .. c -> P] : Picks(f, ms, P)
  BY <1>1, AtOrder
<1> DEFINE G == {k \in Nat : k <= c => \A i \in 1 .. n + 1 :
                   (\A j \in 1 .. c : j >= c + 1 - k => f[j] >= i)
                     => R(c + 1 - k) <= T(i)}
<1>3. /\ c \in Nat /\ r = [k \in 1 .. c |-> ms[f[k]]]
      /\ \A j, k \in 1 .. c : j < k => f[j] < f[k]
      /\ \A k \in 1 .. c : f[k] \in 1 .. n
  BY <1>1, <1>2 DEF Picks
<1>4. /\ r \in Seq(Message) /\ Len(r) = c
      /\ \A k \in 1 .. c : r[k] = ms[f[k]]
  <2>1. \A k \in 1 .. c : ms[f[k]] \in Message
    BY <1>1, <1>3
  <2> HIDE DEF r, c
  <2>2. r \in [1 .. c -> Message]
    BY <1>3, <2>1
  <2>3. r \in Seq(Message)
    BY <1>3, <2>2, FcnIsSeq
  <2>4. Len(r) = c
    BY <1>3, <2>2, <2>3, LenProperties
  <2>5. QED
    BY <1>3, <2>3, <2>4
<1> HIDE DEF r, c, n
<1>5. /\ \A x \in 1 .. n + 1 : T(x) \in Nat
      /\ \A x \in 1 .. n : Tokens(ms[x].text) \in Nat
                           /\ T(x) = Tokens(ms[x].text) + T(x + 1)
      /\ \A x, y \in 1 .. n + 1 : x <= y => T(y) <= T(x)
  <2>1. /\ \A x \in 1 .. n + 1 : x \in Nat \ {0}
        /\ \A x \in 1 .. n : x \in Nat \ {0} /\ x <= Len(ms)
    BY <1>1 DEF n
  <2>2. QED
    BY MessagesListed, <2>1, TokensFromFacts, TokensLess
<1>6. /\ \A x \in 1 .. c + 1 : R(x) \in Nat
      /\ \A x \in 1 .. c : R(x) = Tokens(ms[f[x]].text) + R(x + 1)
      /\ R(c + 1) = 0
  <2>1. /\ \A x \in 1 .. c + 1 : x \in Nat \ {0}
        /\ \A x \in 1 .. c : x \in Nat \ {0} /\ x <= Len(r)
        /\ c + 1 \in Nat \ {0} /\ c + 1 > Len(r)
    BY <1>3, <1>4
  <2>2. /\ \A x \in 1 .. c + 1 : R(x) \in Nat
        /\ R(c + 1) = 0
    BY MessagesListed, <1>4, <2>1, TokensFromFacts
  <2>3. \A x \in 1 .. c : R(x) = Tokens(r[x].text) + R(x + 1)
    BY MessagesListed, <1>4, <2>1, TokensFromFacts
  <2>4. QED
    BY <1>4, <2>2, <2>3
<1> HIDE DEF R, T
<1>7. 0 \in G
  <2>1. c + 1 - 0 = c + 1
    BY <1>3
  <2>2. \A t \in Nat : 0 <= t
    OBVIOUS
  <2>3. QED
    BY <1>5, <1>6, <2>1, <2>2
<1>8. ASSUME NEW k \in G PROVE k + 1 \in G
  <2>1. SUFFICES ASSUME k + 1 <= c, NEW i \in 1 .. n + 1,
                        \A j \in 1 .. c : j >= c + 1 - (k + 1) => f[j] >= i
                 PROVE  R(c + 1 - (k + 1)) <= T(i)
    OBVIOUS
  <2>2. PICK x \in 1 .. c : x = c + 1 - (k + 1) /\ x + 1 = c + 1 - k
    <3>1. c - k \in 1 .. c /\ c - k = c + 1 - (k + 1) /\ (c - k) + 1 = c + 1 - k
      BY <1>3, <2>1
    <3>2. QED
      BY <3>1
  <2>3. f[x] \in 1 .. n /\ f[x] >= i /\ f[x] + 1 \in 1 .. n + 1
        /\ f[x] \in 1 .. n + 1 /\ i <= f[x]
    <3>1. x >= c + 1 - (k + 1)
      BY <1>3, <2>2
    <3>2. f[x] \in 1 .. n /\ f[x] >= i
      BY <1>3, <2>1, <3>1
    <3>3. QED
      BY <1>1, <3>2
  <2>4. \A j \in 1 .. c : j >= c + 1 - k => f[j] >= f[x] + 1
    <3> SUFFICES ASSUME NEW j \in 1 .. c, j >= c + 1 - k PROVE f[j] >= f[x] + 1
      OBVIOUS
    <3>1. x < j
      BY <1>3, <2>2
    <3>2. f[x] < f[j] /\ f[j] \in 1 .. n
      BY <1>3, <3>1
    <3>3. QED
      BY <1>1, <2>3, <3>2
  <2>5. R(c + 1 - k) <= T(f[x] + 1)
    <3>1. k <= c
      BY <1>3, <2>1
    <3>2. QED
      BY <2>3, <2>4, <3>1
  <2>6. /\ R(x) = Tokens(ms[f[x]].text) + R(x + 1)
        /\ T(f[x]) = Tokens(ms[f[x]].text) + T(f[x] + 1)
        /\ R(x + 1) <= T(f[x] + 1) /\ T(f[x]) <= T(i)
    BY <1>5, <1>6, <2>2, <2>3, <2>5
  <2>7. /\ Tokens(ms[f[x]].text) \in Nat /\ R(x + 1) \in Nat
        /\ T(f[x] + 1) \in Nat /\ T(i) \in Nat
    <3>1. x + 1 \in 1 .. c + 1
      BY <1>3
    <3>2. QED
      BY <1>5, <1>6, <2>3, <3>1
  <2>8. R(x) <= T(i)
    BY <2>6, <2>7
  <2>9. QED
    BY <2>2, <2>8
<1>9. G \in SUBSET Nat
  OBVIOUS
<1>10. c \in G
  <2> HIDE DEF G
  <2>1. QED
    BY <1>3, <1>7, <1>8, <1>9, FromZero
<1>11. R(1) <= T(1)
  <2>1. 1 \in 1 .. n + 1 /\ c + 1 - c = 1 /\ c <= c
        /\ \A y \in 1 .. n : y >= 1
    BY <1>1, <1>3
  <2>2. QED
    BY <1>3, <1>10, <2>1
<1>12. QED
  BY <1>11 DEF CountTokens, R, T, r
-----------------------------------------------------------------------------
(* The budget *)

\* Only a list that fits reaches the result, and building it adds nothing.
BudgetOf(s) == pc[s] \in {"fold", "gc"} => Fits(working[s], config[s])

BudgetInv == \A s \in Sessions : BudgetOf(s)

\* A list that counts no more fits where the other does.
LEMMA FitsLess ==
  ASSUME NEW u \in Seq(Message), NEW w \in Seq(Message), NEW cfg \in Config,
         CountTokens(u) <= CountTokens(w), Fits(w, cfg)
  PROVE  Fits(u, cfg)
<1>1. CASE cfg.limit = None
  BY <1>1 DEF Fits
<1>2. CASE cfg.limit # None
  <2>1. cfg.limit \in Nat
    BY <1>2 DEF Config
  <2>2. CountTokens(u) \in Nat /\ CountTokens(w) \in Nat
    BY MessagesListed, TokensFromFacts DEF CountTokens
  <2>3. CountTokens(w) <= cfg.limit
    BY <1>2 DEF Fits
  <2>4. CountTokens(u) <= cfg.limit
    BY <2>1, <2>2, <2>3
  <2>5. QED
    BY <2>4 DEF Fits
<1>3. QED
  BY <1>1, <1>2

\* The copy counts what the messages count.
LEMMA StartCount ==
  ASSUME NEW ms \in Seq(Message)
  PROVE  /\ Tagged(Pinned(ms)) \in Seq(Message)
         /\ CountTokens(Tagged(Pinned(ms))) = CountTokens(ms)
<1> DEFINE w == Tagged(Pinned(ms))
           p == Pinned(ms)
<1>1. Len(ms) \in Nat /\ \A i \in DOMAIN ms : Refs(ms[i]) \subseteq Text
  BY LenProperties, ElementOfSeq, MessageFacts
<1>2. ReferencedIds(ms) \subseteq Text
  BY <1>1 DEF ReferencedIds
<1>3. w \in Seq(Message)
  BY <1>1, <1>2, TaggedFacts, SoundFacts
<1>4. DOMAIN p = DOMAIN ms /\ \A i \in DOMAIN ms : p[i] \in Message
                                /\ p[i].text = ms[i].text
  <2>1. DOMAIN p = DOMAIN ms
        /\ \A i \in DOMAIN ms :
             /\ p[i] \in Message
             /\ p[i] = [ms[i] EXCEPT !.pinned = ms[i].pinned \/ ms[i].fin]
    BY PinnedType
  <2>2. \A i \in DOMAIN ms : ms[i] \in Message
    BY ElementOfSeq, LenProperties
  <2> HIDE DEF p
  <2>3. QED
    BY <2>1, <2>2 DEF Message
<1> HIDE DEF p
<1>5. DOMAIN w = DOMAIN ms /\ \A i \in DOMAIN ms : w[i].text = ms[i].text
  BY <1>4 DEF Tagged, p, Message
<1>6. QED
  BY MessagesListed, <1>3, <1>5, SameCount

\* Untagging and marking keep the texts, and retention only takes away.
LEMMA ResultCount ==
  ASSUME NEW n \in Nat, NEW w \in Seq(Sound(n, Text)), NEW new, NEW cfg
  PROVE  LET final == Finalized(Untag(w), new)
             left  == Sub(final, DOMAIN final \ Evictable(final, cfg))
         IN  left \in Seq(Message) /\ CountTokens(left) <= CountTokens(w)
<1> DEFINE final == Finalized(Untag(w), new)
           left  == Sub(final, DOMAIN final \ Evictable(final, cfg))
<1>1. final \in Seq(Sound(n, Text)) /\ DOMAIN final = DOMAIN w
  BY FinalizedFacts
<1>2. w \in Seq(Message) /\ final \in Seq(Message)
  BY <1>1, SoundFacts
<1>3. \A i \in DOMAIN w : final[i].text = w[i].text
  <2> DEFINE u == Untag(w)
  <2>1. \A i \in DOMAIN w : w[i] \in Message
    BY <1>2, ElementOfSeq, LenProperties
  <2>2. DOMAIN u = DOMAIN w /\ \A i \in DOMAIN w : u[i] = [w[i] EXCEPT !.idx = 0]
    BY DEF Untag, Untagged
  <2>3. \A i \in DOMAIN w : u[i] \in Message /\ u[i].text = w[i].text
    <3> HIDE DEF u, final, left
    <3>1. \A m \in Message : /\ [m EXCEPT !.idx = 0] \in Message
                              /\ [m EXCEPT !.idx = 0].text = m.text
      BY SMTT(30) DEF Message
    <3>2. QED
      BY <2>1, <2>2, <3>1
  <2>4. final = [i \in DOMAIN u |->
                   IF \E f \in new : f.at = i
                   THEN [u[i] EXCEPT !.fin = TRUE, !.pinned = TRUE] ELSE u[i]]
    BY DEF Finalized
  <2> HIDE DEF u, final
  <2>5. \A m \in Message : [m EXCEPT !.fin = TRUE, !.pinned = TRUE].text = m.text
    BY DEF Message
  <2>6. ASSUME NEW i \in DOMAIN w PROVE final[i].text = w[i].text
    <3>1. \/ final[i] = [u[i] EXCEPT !.fin = TRUE, !.pinned = TRUE]
          \/ final[i] = u[i]
      BY <2>2, <2>4, Zenon
    <3>2. QED
      BY <2>3, <2>5, <3>1
  <2>7. QED
    BY <2>6
<1> HIDE DEF final
<1>4. CountTokens(final) = CountTokens(w)
  BY MessagesListed, <1>1, <1>2, <1>3, SameCount
<1>5. left \in Seq(Message)
  <2>1. left \in Seq(Sound(n, Text))
    BY <1>1, RetentionFacts
  <2> HIDE DEF left
  <2>2. QED
    BY <2>1, SoundFacts
<1>6. CountTokens(left) <= CountTokens(final)
  BY <1>2, AtCount
<1>7. QED
  BY <1>4, <1>5, <1>6 DEF final

\* A stage goes to the result only when its list fits.
LEMMA BudgetStage ==
  ASSUME TypeInv, NEW s \in Sessions, NEW phase,
         NEW next \in {"middle", "summarize", "drop"}, NEW w, NEW saves,
         NEW failed, EndStage(s, phase, next, w, saves, failed)
  PROVE  BudgetOf(s)'
  BY DEF EndStage, BudgetOf, TypeInv, TypeOK

\* Steps of the session itself.
LEMMA BudgetStep ==
  ASSUME TypeInv, BudgetInv, NEW s \in Sessions, Step(s)
  PROVE  BudgetOf(s)'
<1> USE DEF TypeInv, TypeOK, BudgetInv, BudgetOf
<1>1. CASE \E batch \in Batches : Extend(s, batch)
  BY <1>1 DEF Extend, flight
<1>2. CASE StartCompact(s)
  <2>1. messages[s] \in Seq(Message) /\ config[s] \in Config
    BY TypeFacts
  <2>2. Fits(messages[s], config[s])
          => Fits(Tagged(Pinned(messages[s])), config[s])
    BY <2>1, StartCount DEF Fits
  <2>3. /\ working'[s] = Tagged(Pinned(messages[s])) /\ config'[s] = config[s]
        /\ pc'[s] \in {"fold", "gc"} => Fits(messages[s], config[s])
    BY <1>2 DEF StartCompact
  <2>4. QED
    BY <2>2, <2>3
<1>3. CASE Cancel(s) \/ GiveUp(s) \/ Commit(s)
  BY <1>3 DEF Cancel, GiveUp, Commit, Return
<1>4. CASE Rules(s)
  BY <1>4, BudgetStage DEF Rules
<1>5. CASE Middle(s) \/ Summarize(s)
  BY <1>5, BudgetStage DEF Middle, Summarize, Compress
<1>6. CASE Drop(s)
  BY <1>6 DEF Drop
<1>7. CASE EndDrop(s)
  BY <1>7 DEF EndDrop, flight
<1>8. CASE BuildAndRetain(s)
  <2> DEFINE final == Finalized(Untag(working[s]), delta'[s])
             left  == Sub(final, DOMAIN final \ Evictable(final, config[s]))
  <2>1. /\ working[s] \in Seq(Sound(Len(messages[s]), Text))
        /\ working[s] \in Seq(Message)
        /\ Len(messages[s]) \in Nat /\ config[s] \in Config
    BY TypeFacts
  <2>2. left \in Seq(Message) /\ CountTokens(left) <= CountTokens(working[s])
    BY <2>1, ResultCount
  <2> HIDE DEF left
  <2>3. Fits(working[s], config[s])
    BY <1>8 DEF BuildAndRetain
  <2>4. Fits(left, config[s])
    BY <2>1, <2>2, <2>3, FitsLess
  <2>5. working'[s] = left /\ config'[s] = config[s]
    BY <1>8 DEF BuildAndRetain, left
  <2>6. QED
    BY <2>4, <2>5
<1>9. CASE \E id \in gc[s] : Delete(s, id)
  BY <1>9 DEF Delete
<1>10. QED
  BY <1>1, <1>2, <1>3, <1>4, <1>5, <1>6, <1>7, <1>8, <1>9 DEF Step, Compacting

\* Every step preserves the invariant.
LEMMA BudgetNext == TypeInv /\ BudgetInv /\ [Next]_vars => BudgetInv'
<1> SUFFICES ASSUME TypeInv, BudgetInv, [Next]_vars PROVE BudgetInv'
  OBVIOUS
<1>1. CASE UNCHANGED vars
  BY <1>1 DEF vars, flight, BudgetInv, BudgetOf
<1>2. ASSUME NEW s \in Sessions, Step(s) PROVE BudgetInv'
  <2>1. BudgetOf(s)'
    BY <1>2, BudgetStep
  <2>2. ASSUME NEW t \in Sessions, t # s PROVE BudgetOf(t)'
    <3>1. Same(t)
      BY <1>2, <2>2, OthersSame
    <3>2. QED
      BY <3>1 DEF Same, BudgetInv, BudgetOf
  <2>3. QED
    BY <2>1, <2>2 DEF BudgetInv
<1>3. QED
  BY <1>1, <1>2 DEF Next, Step

\* What a compaction commits fits the budget, retention included, whatever the
\* tokens of the texts are (ContextSession::compact, compact_with_budget).
THEOREM BudgetKept == Spec => []BudgetRespected
<1>1. Init => TypeInv /\ BudgetInv
  <2>1. Init => BudgetInv
    BY DEF Init, BudgetInv, BudgetOf
  <2>2. QED
    BY <2>1, TypeInit
<1>2. TypeInv /\ BudgetInv /\ [Next]_vars => (TypeInv /\ BudgetInv)'
  BY TypeNext, BudgetNext
<1>3. BudgetInv => BudgetRespected
  BY DEF BudgetInv, BudgetOf, BudgetRespected
<1>4. QED
  BY <1>1, <1>2, <1>3, PTL DEF Spec
-----------------------------------------------------------------------------
(* What steps 2 and 3 preserve of a session's list *)

\* The recent replies, too.
LEMMA RepliesPreserved ==
  ASSUME NEW w \in Seq(Message), NEW cfg \in Config,
         NEW i \in RecentAssistants(w, cfg.keepAssistant)
  PROVE  i + PreserveRecent(w, cfg) > Len(w)
<1> DEFINE R == RecentAssistants(w, cfg.keepAssistant)
           p == PreserveRecent(w, cfg)
           n == Len(w)
<1>1. n \in Nat /\ R \in SUBSET Nat /\ R \subseteq 1 .. n /\ i \in R
  BY LenProperties DEF RecentAssistants
<1>2. p \in Nat /\ RecentAssistantPreserve(w, cfg.keepAssistant) <= p
  BY PreserveRecentType
<1>3. RecentAssistantPreserve(w, cfg.keepAssistant) = n + 1 - Min(R)
  BY <1>1 DEF RecentAssistantPreserve
<1> HIDE DEF R, p, n
<1>4. Min(R) \in R /\ Min(R) <= i
  BY <1>1, MinProps
<1>5. Min(R) \in Nat /\ i \in Nat
  BY <1>1, <1>4
<1>6. i + p > n
  BY <1>1, <1>2, <1>3, <1>4, <1>5
<1>7. QED
  BY <1>6 DEF p, n

\* Steps 2 and 3 leave it alone.
LEMMA CompressEnd ==
  ASSUME NEW n \in Nat, NEW w \in Seq(Sound(n, Text)), NEW cfg, NEW p \in Nat,
         NEW middle \in Nat, NEW summarize \in BOOLEAN, NEW F
  PROVE  KeepsEnd(w, PipeBand(AfterOldBand(w, p, middle, summarize), cfg, p, F), p)
<1> DEFINE o == AfterOldBand(w, p, middle, summarize)
           v == PipeBand(o, cfg, p, F)
<1>1. w \in Seq(Message) /\ o \in Seq(Message)
  BY OldBandFacts, SoundFacts
<1>2. KeepsEnd(w, o, p)
  BY MessagesListed, <1>1, OldBandEnd
<1> HIDE DEF o
<1>3. KeepsEnd(o, v, p)
  BY MessagesListed, <1>1, PipeEnd
<1> HIDE DEF v
<1>4. KeepsEnd(w, v, p)
  BY <1>2, <1>3 DEF KeepsEnd
<1>5. QED
  BY <1>4 DEF o, v
-----------------------------------------------------------------------------
(* The protected tail and the recent replies, through the cascade *)

\* The recent replies of ms stand in w, or were dropped as they were.
RepliesThere(ms, w, gone, cfg) ==
  \A i \in RecentAssistants(ms, cfg.keepAssistant) :
    \/ \E j \in DOMAIN w : Intact(ms, w[j], i)
    \/ \E j \in DOMAIN gone : gone[j].idx = i /\ gone[j].text = ms[i].text

\* What is still there of the recent replies is among those of the list: no
\* newer reply has come in.
LEMMA ReplyRecent ==
  ASSUME NEW ms \in Seq(Message), NEW w \in Seq(Message), Traced(ms, w),
         NEW keep \in Nat, NEW j \in DOMAIN w,
         w[j].idx \in RecentAssistants(ms, keep)
  PROVE  j \in RecentAssistants(w, keep)
<1> DEFINE i == w[j].idx
           A == {k \in j + 1 .. Len(w) : Classify(w[k]) = "AssistantReply"}
           B == {k \in i + 1 .. Len(ms) : Classify(ms[k]) = "AssistantReply"}
           f == [k \in A |-> w[k].idx]
<1>1. /\ DOMAIN w = 1 .. Len(w) /\ Len(w) \in Nat
      /\ DOMAIN ms = 1 .. Len(ms) /\ Len(ms) \in Nat
  BY LenProperties
<1>2. /\ i \in DOMAIN ms /\ Classify(ms[i]) = "AssistantReply"
      /\ Cardinality(B) < keep
  BY DEF RecentAssistants
<1>3. \A k \in DOMAIN w :
        /\ w[k].idx # 0 => /\ w[k].idx \in DOMAIN ms
                           /\ Classify(w[k]) = Classify(ms[w[k].idx])
        /\ w[k].idx = 0 => Classify(w[k]) # "AssistantReply"
  BY DEF Traced, Comes, Classify
<1>4. Classify(w[j]) = "AssistantReply" /\ i # 0
  BY <1>1, <1>2, <1>3
<1>5. \A k \in A : k \in DOMAIN w /\ j < k
  BY <1>1
<1>6. ASSUME NEW k \in A PROVE w[k].idx \in B /\ w[k].idx # 0
  <2>1. w[k].idx # 0 /\ w[k].idx \in DOMAIN ms
        /\ Classify(ms[w[k].idx]) = "AssistantReply"
    BY <1>3, <1>5
  <2>2. i < w[k].idx
    BY <1>4, <1>5, <2>1 DEF Traced, Ordered
  <2>3. QED
    BY <1>1, <1>2, <2>1, <2>2
<1>7. ASSUME NEW x \in A, NEW y \in A, w[x].idx = w[y].idx PROVE x = y
  <2>1. x \in DOMAIN w /\ y \in DOMAIN w /\ x \in Nat /\ y \in Nat
    BY <1>1, <1>5
  <2>2. x < y => w[x].idx < w[y].idx
    BY <1>6, <2>1 DEF Traced, Ordered
  <2>3. y < x => w[y].idx < w[x].idx
    BY <1>6, <2>1 DEF Traced, Ordered
  <2>4. w[x].idx \in Nat
    <3>1. w[x].idx \in DOMAIN ms
      BY <1>3, <1>6, <2>1
    <3>2. QED
      BY <1>1, <3>1
  <2>5. QED
    BY <1>7, <2>1, <2>2, <2>3, <2>4
<1>8. IsFiniteSet(B) /\ B \subseteq i + 1 .. Len(ms)
  <2>1. IsFiniteSet(i + 1 .. Len(ms))
    <3>1. i + 1 \in Int /\ Len(ms) \in Int
      BY <1>1, <1>2
    <3>2. QED
      BY <3>1, FS_Interval
  <2>2. QED
    BY <2>1, FS_Subset
<1> HIDE DEF A, B
<1>9. f \in Injection(A, B)
  BY <1>6, <1>7 DEF Injection, IsInjective
<1>10. IsFiniteSet(A) /\ Cardinality(A) <= Cardinality(B)
  BY <1>8, <1>9, FS_Injection
<1>11. Cardinality(A) \in Nat /\ Cardinality(B) \in Nat
  BY <1>8, <1>10, FS_CardinalityType
<1>12. Cardinality(A) < keep
  BY <1>2, <1>10, <1>11
<1>13. QED
  BY <1>4, <1>12 DEF RecentAssistants, A

\* A step that spares the recent replies of its list keeps those of the start.
LEMMA RepliesStay ==
  ASSUME NEW ms \in Seq(Message), NEW w \in Seq(Message), NEW cfg \in Config,
         NEW v \in Seq(Message), NEW gone, Traced(ms, w),
         RepliesThere(ms, w, gone, cfg),
         Spares(w, v, RecentAssistants(w, cfg.keepAssistant))
  PROVE  RepliesThere(ms, v, gone, cfg)
<1> SUFFICES ASSUME NEW i \in RecentAssistants(ms, cfg.keepAssistant),
                    NEW j \in DOMAIN w, Intact(ms, w[j], i)
             PROVE  \E k \in DOMAIN v : Intact(ms, v[k], i)
  BY DEF RepliesThere
<1>1. cfg.keepAssistant \in Nat
  BY DEF Config
<1>2. j \in RecentAssistants(w, cfg.keepAssistant)
  BY <1>1, ReplyRecent DEF Intact
<1>3. Len(w) - j < Len(v) /\ v[Len(v) - (Len(w) - j)] = w[j]
  BY <1>2 DEF Spares
<1>4. Len(v) - (Len(w) - j) \in DOMAIN v
  BY <1>3, LenProperties
<1>5. QED
  BY <1>3, <1>4

\* Every message of w is still in v or among the messages of all.
Moved(w, v, all) ==
  \A i \in DOMAIN w : \/ \E j \in DOMAIN v : v[j] = w[i]
                      \/ \E j \in DOMAIN all : all[j] = w[i]

\* What step 4 takes from the list is in what it dropped.
LEMMA CutMoves ==
  ASSUME NEW w \in Seq(Message), NEW old \in Seq(Message),
         NEW a \in Nat \ {0}, NEW b \in Nat, a <= b + 1, b <= Len(w)
  PROVE  Moved(w, Without(w, a, b), old \o SubSeq(w, a, b))
<1> SUFFICES ASSUME NEW i \in DOMAIN w
             PROVE  \/ \E j \in DOMAIN Without(w, a, b) : Without(w, a, b)[j] = w[i]
                    \/ \E j \in DOMAIN (old \o SubSeq(w, a, b)) :
                         (old \o SubSeq(w, a, b))[j] = w[i]
  BY DEF Moved
<1> DEFINE v == Without(w, a, b)
           gone == SubSeq(w, a, b)
           n == Len(w)
<1>1. n \in Nat /\ DOMAIN w = 1 .. n
  BY LenProperties
<1>2. a \in Nat \ {0} /\ b \in Nat /\ a <= b + 1 /\ b <= n
  BY <1>1
<1>3. /\ DOMAIN v = 1 .. n - (b + 1 - a)
      /\ \A j \in 1 .. n - (b + 1 - a) :
           v[j] = IF j < a THEN w[j] ELSE w[j + (b + 1 - a)]
  <2>1. CutOf(v, w, a, b)
    BY <1>2, CutIs, Zenon
  <2> HIDE DEF v
  <2>2. QED
    BY <2>1, Zenon DEF CutOf
<1>4. /\ gone \in Seq(Message) /\ Len(gone) = b + 1 - a
      /\ \A k \in 1 .. b + 1 - a : gone[k] = w[a + k - 1]
  BY <1>2, PieceFacts
<1>5. DOMAIN gone = 1 .. b + 1 - a
  BY <1>4, LenProperties
<1> HIDE DEF v, gone, n
<1>6. ASSUME i < a PROVE \E j \in DOMAIN v : v[j] = w[i]
  <2>1. i \in 1 .. n - (b + 1 - a)
    BY <1>1, <1>2, <1>6
  <2>2. v[i] = w[i] /\ i \in DOMAIN v
    BY <1>3, <1>6, <2>1
  <2>3. QED
    BY <2>2
<1>7. ASSUME i > b PROVE \E j \in DOMAIN v : v[j] = w[i]
  <2>1. PICK j \in 1 .. n - (b + 1 - a) : j = i - (b + 1 - a)
    <3>1. i - (b + 1 - a) \in 1 .. n - (b + 1 - a)
      BY <1>1, <1>2, <1>7
    <3>2. QED
      BY <3>1
  <2>2. ~(j < a) /\ j + (b + 1 - a) = i
    BY <1>1, <1>2, <1>7, <2>1
  <2>3. v[j] = w[i] /\ j \in DOMAIN v
    BY <1>3, <2>1, <2>2
  <2>4. QED
    BY <2>3
<1>8. ASSUME ~(i < a), ~(i > b)
      PROVE  \E j \in DOMAIN (old \o gone) : (old \o gone)[j] = w[i]
  <2>1. PICK k \in 1 .. b + 1 - a : k = i + 1 - a
    <3>1. i + 1 - a \in 1 .. b + 1 - a
      BY <1>1, <1>2, <1>8
    <3>2. QED
      BY <3>1
  <2>2. a + k - 1 = i
    BY <1>1, <1>2, <2>1
  <2>3. gone[k] = w[i] /\ k \in DOMAIN gone
    BY <1>4, <1>5, <2>2
  <2> DEFINE m == Len(old)
             l == Len(gone)
             c == old \o gone
  <2>4. /\ c \in Seq(Message) /\ Len(c) = m + l
        /\ \A j \in 1 .. m + l : c[j] = IF j <= m THEN old[j] ELSE gone[j - m]
    BY <1>4, ConcatProperties
  <2>5. m \in Nat /\ l \in Nat /\ DOMAIN c = 1 .. m + l /\ k \in 1 .. l
    BY <1>4, <2>3, <2>4, LenProperties
  <2> HIDE DEF m, l, c
  <2>6. k + m \in 1 .. m + l /\ ~(k + m <= m) /\ (k + m) - m = k
    BY <2>5
  <2>7. k + m \in DOMAIN c /\ c[k + m] = gone[k]
    BY <2>4, <2>5, <2>6
  <2>8. QED
    BY <2>3, <2>7 DEF c
<1>9. \/ \E j \in DOMAIN v : v[j] = w[i]
      \/ \E j \in DOMAIN (old \o gone) : (old \o gone)[j] = w[i]
  BY <1>6, <1>7, <1>8
<1>10. QED
  BY <1>9 DEF v, gone

\* So a drop moves every message.
LEMMA DropMoves ==
  ASSUME NEW w \in Seq(Message), NEW cfg, CanDrop(w, cfg), NEW old \in Seq(Message)
  PROVE  Moved(w, Without(w, DropRange(w, cfg)[1], DropRange(w, cfg)[2]),
               old \o SubSeq(w, DropRange(w, cfg)[1], DropRange(w, cfg)[2]))
<1> DEFINE a == DropRange(w, cfg)[1]
           b == DropRange(w, cfg)[2]
<1>1. a \in 1 .. Len(w) /\ b \in a .. Len(w)
  BY DropRangeFacts
<1> HIDE DEF a, b
<1>2. a \in Nat \ {0} /\ b \in Nat /\ a <= b + 1 /\ b <= Len(w)
  BY <1>1, LenProperties
<1>3. Moved(w, Without(w, a, b), old \o SubSeq(w, a, b))
  BY <1>2, CutMoves, Zenon
<1>4. QED
  BY <1>3 DEF a, b
-----------------------------------------------------------------------------
(* The invariant *)

TailOf(s) ==
  Cascading(s) =>
    /\ TailKept(messages[s], working[s], config[s])
    /\ RepliesThere(messages[s], working[s], dropped[s], config[s])

TailInv == \A s \in Sessions : TailOf(s)

\* The copy a compaction starts from is the whole list.
LEMMA TailStart ==
  ASSUME NEW ms \in Seq(Message), NEW cfg, NEW gone
  PROVE  /\ TailKept(ms, Tagged(Pinned(ms)), cfg)
         /\ RepliesThere(ms, Tagged(Pinned(ms)), gone, cfg)
<1> DEFINE p == Pinned(ms)
           w == Tagged(p)
<1>1. DOMAIN ms = 1 .. Len(ms) /\ Len(ms) \in Nat
  BY LenProperties
<1>2. DOMAIN p = DOMAIN ms
      /\ \A i \in DOMAIN ms : p[i] \in Message /\ p[i].text = ms[i].text
                              /\ p[i].ccr = ms[i].ccr
  <2>1. DOMAIN p = DOMAIN ms
        /\ \A i \in DOMAIN ms :
             /\ p[i] \in Message
             /\ p[i] = [ms[i] EXCEPT !.pinned = ms[i].pinned \/ ms[i].fin]
    BY PinnedType
  <2>2. \A i \in DOMAIN ms : ms[i] \in Message
    BY ElementOfSeq, LenProperties
  <2> HIDE DEF p
  <2>3. QED
    BY <2>1, <2>2 DEF Message
<1> HIDE DEF p
<1>3. DOMAIN w = DOMAIN ms /\ \A i \in DOMAIN ms : Intact(ms, w[i], i)
  BY <1>2 DEF Tagged, Intact, Message
<1> HIDE DEF w
<1>4. Len(w) = Len(ms)
  BY <1>1, <1>3
<1>5. \A i \in DOMAIN ms : Len(ms) - (Len(ms) - i) = i /\ Len(ms) - i < Len(ms)
  BY <1>1
<1>6. TailKept(ms, w, cfg)
  BY <1>3, <1>4, <1>5 DEF TailKept, ProtectedTail
<1>7. RepliesThere(ms, w, gone, cfg)
  BY <1>3 DEF RepliesThere, RecentAssistants
<1>8. QED
  BY <1>6, <1>7 DEF w, p

\* A stage that spares the tail and the replies of its list.
LEMMA TailStage ==
  ASSUME TypeInv, TypeInv', TraceInv, TailInv, NEW s \in Sessions, NEW phase,
         phase \in {"rules", "middle", "summarize", "drop"},
         NEW next, NEW w, NEW saves, NEW failed,
         EndStage(s, phase, next, w, saves, failed),
         Spares(working[s], w, ProtectedTail(working[s], config[s])),
         Spares(working[s], w,
                RecentAssistants(working[s], config[s].keepAssistant))
  PROVE  TailOf(s)'
<1>1. /\ working[s] \in Seq(Message) /\ messages[s] \in Seq(Message)
      /\ config[s] \in Config
  BY TypeFacts
<1>2. /\ Traced(messages[s], working[s])
      /\ TailKept(messages[s], working[s], config[s])
      /\ RepliesThere(messages[s], working[s], dropped[s], config[s])
  BY DEF EndStage, TraceInv, TraceOf, TailInv, TailOf, Cascading
<1>3. /\ working'[s] = w /\ messages'[s] = messages[s]
      /\ dropped'[s] = dropped[s] /\ config'[s] = config[s]
  BY DEF EndStage, TypeInv, TypeOK
<1>4. w \in Seq(Message)
  BY <1>3 DEF TypeInv, TypeOK
<1>5. TailKept(messages[s], w, config[s])
  BY MessagesListed, <1>1, <1>2, TailStays
<1>6. RepliesThere(messages[s], w, dropped[s], config[s])
  BY <1>1, <1>2, <1>4, RepliesStay
<1>7. QED
  BY <1>3, <1>5, <1>6 DEF TailOf

\* Step 1.
LEMMA TailRules ==
  ASSUME TypeInv, TypeInv', TraceInv, TailInv, NEW s \in Sessions, Rules(s)
  PROVE  TailOf(s)'
<1> DEFINE w == working[s]
           cfg == config[s]
<1>1. PICK F \in Faults(s, ClearSet(w, cfg)) :
        EndStage(s, "rules", "middle", AgentRules(w, cfg, F),
                 AgentSaves(w, cfg, F), F)
  BY DEF Rules
<1>2. w \in Seq(Message)
  BY TypeFacts
<1>3. /\ ProtectedTail(w, cfg) \subseteq DOMAIN w
      /\ ProtectedTail(w, cfg) \cap ClearSet(w, cfg) = {}
  BY DEF ProtectedTail, ClearSet
<1>4. /\ RecentAssistants(w, cfg.keepAssistant) \subseteq DOMAIN w
      /\ RecentAssistants(w, cfg.keepAssistant) \cap ClearSet(w, cfg) = {}
  BY DEF RecentAssistants, ClearSet, Clearable
<1> HIDE DEF w, cfg
<1>5. /\ Spares(w, AgentRules(w, cfg, F), ProtectedTail(w, cfg))
      /\ Spares(w, AgentRules(w, cfg, F), RecentAssistants(w, cfg.keepAssistant))
  BY MessagesListed, <1>2, <1>3, <1>4, RulesSpare
<1>6. QED
  BY <1>1, <1>5, TailStage DEF w, cfg

\* Steps 2 and 3.
LEMMA TailCompress ==
  ASSUME TypeInv, TypeInv', TraceInv, TailInv, NEW s \in Sessions,
         NEW phase \in {"middle", "summarize"}, NEW next,
         NEW middle \in Nat, NEW summarize \in BOOLEAN,
         Compress(s, phase, next, middle, summarize)
  PROVE  TailOf(s)'
<1> DEFINE w == working[s]
           cfg == config[s]
           p == PreserveRecent(w, cfg)
           o == AfterOldBand(w, p, middle, summarize)
<1>1. PICK F \in Faults(s, PipedBand(o, p)) :
        EndStage(s, phase, next, PipeBand(o, cfg, p, F),
                 PipeSaves(o, cfg, p, F), F)
  BY DEF Compress
<1>2. /\ w \in Seq(Sound(Len(messages[s]), Text)) /\ w \in Seq(Message)
      /\ cfg \in Config /\ Len(messages[s]) \in Nat
  BY TypeFacts
<1> HIDE DEF w, cfg
<1>3. p \in Nat
  BY <1>2, PreserveRecentType
<1>4. /\ ProtectedTail(w, cfg) \subseteq DOMAIN w
      /\ \A i \in ProtectedTail(w, cfg) : i + p > Len(w)
      /\ RecentAssistants(w, cfg.keepAssistant) \subseteq DOMAIN w
      /\ \A i \in RecentAssistants(w, cfg.keepAssistant) : i + p > Len(w)
  <2>1. /\ \A i \in ProtectedTail(w, cfg) : i + p > Len(w)
        /\ \A i \in RecentAssistants(w, cfg.keepAssistant) : i + p > Len(w)
    BY MessagesListed, <1>2, TailPreserved, RepliesPreserved
  <2>2. QED
    BY <2>1 DEF ProtectedTail, RecentAssistants
<1> HIDE DEF p
<1>5. KeepsEnd(w, PipeBand(o, cfg, p, F), p)
  BY <1>2, <1>3, CompressEnd
<1> DEFINE v == PipeBand(o, cfg, p, F)
<1> HIDE DEF v
<1>6. /\ Spares(w, v, ProtectedTail(w, cfg))
      /\ Spares(w, v, RecentAssistants(w, cfg.keepAssistant))
  BY MessagesListed, <1>2, <1>3, <1>4, <1>5, CompressSpares DEF v
<1>7. QED
  BY <1>1, <1>6, TailStage DEF v, p, w, cfg

\* Step 4.
LEMMA TailDrop ==
  ASSUME TypeInv, TailInv, NEW s \in Sessions, Drop(s)
  PROVE  TailOf(s)'
<1> DEFINE w == working[s]
           ms == messages[s]
           cfg == config[s]
           r == DropRange(w, cfg)
           v == Without(w, r[1], r[2])
           all == dropped[s] \o SubSeq(w, r[1], r[2])
<1>1. w \in Seq(Message) /\ ms \in Seq(Message) /\ cfg \in Config
  BY TypeFacts
<1>2. /\ CanDrop(w, cfg) /\ TailKept(ms, w, cfg)
      /\ RepliesThere(ms, w, dropped[s], cfg) /\ dropped[s] \in Seq(Message)
  BY DEF Drop, TailInv, TailOf, Cascading, TypeInv, TypeOK
<1>3. /\ working'[s] = v /\ dropped'[s] = all
      /\ messages'[s] = ms /\ config'[s] = cfg
  BY DEF Drop, Without, TypeInv, TypeOK
<1>4. TailKept(ms, v, cfg)
  <2>1. Spares(w, v, ProtectedTail(w, cfg))
    BY MessagesListed, <1>1, <1>2, DropSpares
  <2> HIDE DEF v, w, ms, cfg
  <2>2. QED
    BY MessagesListed, <1>1, <1>2, <2>1, TailStays
<1>5. Moved(w, v, all)
  <2>1. w \in Seq(Message) /\ CanDrop(w, cfg) /\ dropped[s] \in Seq(Message)
    BY <1>1, <1>2
  <2> HIDE DEF w, cfg
  <2>2. QED
    BY <2>1, DropMoves, Zenon
<1>6. \A k \in DOMAIN dropped[s] : \E j \in DOMAIN all : all[j] = dropped[s][k]
  <2> DEFINE old  == dropped[s]
             gone == SubSeq(w, r[1], r[2])
  <2>1. old \in Seq(Message) /\ gone \in Seq(Message)
    BY <1>1, <1>2, DropFacts
  <2> HIDE DEF old, gone
  <2>2. \A k \in DOMAIN old : \E j \in DOMAIN (old \o gone) : (old \o gone)[j] = old[k]
    BY <2>1, ConcatElements
  <2>3. QED
    BY <2>2 DEF old, gone
<1> HIDE DEF w, v, all, ms, cfg
<1>7. RepliesThere(ms, v, all, cfg)
  BY <1>2, <1>5, <1>6 DEF RepliesThere, Intact, Moved
<1>8. QED
  BY <1>3, <1>4, <1>7 DEF TailOf

\* The other steps leave the copy alone, start it, or end the cascade.
LEMMA TailOther ==
  ASSUME TypeInv, TailInv, NEW s \in Sessions,
         \/ \E batch \in Batches : Extend(s, batch)
         \/ StartCompact(s) \/ EndDrop(s) \/ GiveUp(s) \/ BuildAndRetain(s)
         \/ Commit(s) \/ Cancel(s)
         \/ \E id \in gc[s] : Delete(s, id)
  PROVE  TailOf(s)'
<1> USE DEF TypeInv, TypeOK
<1>1. CASE \E batch \in Batches : Extend(s, batch)
  BY <1>1 DEF Extend, TailOf, Cascading
<1>2. CASE StartCompact(s)
  <2>1. /\ working'[s] = Tagged(Pinned(messages[s])) /\ messages'[s] = messages[s]
        /\ config'[s] = config[s] /\ dropped'[s] = dropped[s]
    BY <1>2 DEF StartCompact
  <2>2. messages[s] \in Seq(Message)
    BY TypeFacts
  <2>3. /\ TailKept(messages[s], Tagged(Pinned(messages[s])), config[s])
        /\ RepliesThere(messages[s], Tagged(Pinned(messages[s])), dropped[s],
                        config[s])
    BY <2>2, TailStart
  <2>4. QED
    BY <2>1, <2>3 DEF TailOf
<1>3. CASE EndDrop(s)
  BY <1>3 DEF EndDrop, flight, TailInv, TailOf, Cascading
<1>4. CASE GiveUp(s) \/ Commit(s) \/ Cancel(s)
  BY <1>4 DEF GiveUp, Commit, Cancel, Return, TailOf, Cascading
<1>5. CASE BuildAndRetain(s)
  BY <1>5 DEF BuildAndRetain, TailOf, Cascading
<1>6. CASE \E id \in gc[s] : Delete(s, id)
  BY <1>6 DEF Delete, TailOf, Cascading
<1>7. QED
  BY <1>1, <1>2, <1>3, <1>4, <1>5, <1>6

\* Every step preserves the invariant.
LEMMA TailNext ==
  TypeInv /\ TypeInv' /\ TraceInv /\ TailInv /\ [Next]_vars => TailInv'
<1> SUFFICES ASSUME TypeInv, TypeInv', TraceInv, TailInv, [Next]_vars
             PROVE  TailInv'
  OBVIOUS
<1>1. CASE UNCHANGED vars
  BY <1>1 DEF vars, flight, TailInv, TailOf, Cascading
<1>2. ASSUME NEW s \in Sessions, Step(s) PROVE TailInv'
  <2>1. TailOf(s)'
    <3>1. CASE Rules(s)
      BY <3>1, TailRules
    <3>2. CASE Middle(s)
      <4>1. Len(working[s]) \in Nat
        BY TypeFacts, LenProperties
      <4>2. QED
        BY <3>2, <4>1, TailCompress DEF Middle
    <3>3. CASE Summarize(s)
      BY <3>3, CascadeAssumption, TailCompress DEF Summarize
    <3>4. CASE Drop(s)
      BY <3>4, TailDrop
    <3>5. QED
      BY <1>2, <3>1, <3>2, <3>3, <3>4, TailOther DEF Step, Compacting
  <2>2. ASSUME NEW t \in Sessions, t # s PROVE TailOf(t)'
    <3>1. Same(t)
      BY <1>2, <2>2, OthersSame
    <3>2. QED
      BY <3>1 DEF Same, TailInv, TailOf, Cascading
  <2>3. QED
    BY <2>1, <2>2 DEF TailInv
<1>3. QED
  BY <1>1, <1>2 DEF Next, Step

\* The invariant holds throughout.
LEMMA TailAlways == Spec => [](TypeInv /\ TailInv)
<1>1. Init => TypeInv /\ TraceInv /\ TailInv
  <2>1. Init => TailInv
    BY DEF Init, TailInv, TailOf, Cascading
  <2>2. QED
    BY <2>1, TypeInit, TraceInit
<1>2. TypeInv /\ TraceInv /\ TailInv /\ [Next]_vars
        => (TypeInv /\ TraceInv /\ TailInv)'
  BY TypeNext, TraceNext, TailNext
<1>3. QED
  BY <1>1, <1>2, PTL DEF Spec

\* No step of the cascade clears, pipes, summarizes or drops a message of the
\* tail the host asked to protect, although each step measures the tail anew, on
\* a list with other token counts (agent.rs, protected_tail_mask).
THEOREM TailSafe == Spec => []TailVerbatim
<1>1. TypeInv /\ TailInv => TailVerbatim
  <2> SUFFICES ASSUME TypeInv, TailInv, NEW s \in Sessions, Cascading(s),
                      NEW i \in ProtectedTail(messages[s], config[s])
               PROVE  Verbatim(s, i)
    BY DEF TailVerbatim
  <2> DEFINE j == Len(working[s]) - (Len(messages[s]) - i)
  <2>1. /\ messages[s] \in Seq(Message) /\ working[s] \in Seq(Message)
        /\ config[s] \in Config
        /\ TailKept(messages[s], working[s], config[s])
    BY TypeFacts DEF TailInv, TailOf
  <2>2. j \in ProtectedTail(working[s], config[s])
    BY MessagesListed, <2>1, TailThere
  <2>3. j \in DOMAIN working[s] /\ Intact(messages[s], working[s][j], i)
    BY <2>1, <2>2 DEF TailKept, ProtectedTail
  <2> HIDE DEF j
  <2>4. QED
    BY <2>3 DEF Verbatim, Intact
<1>2. QED
  BY <1>1, TailAlways, PTL

\* The newest keep_recent_assistant replies stay as they are or are dropped as
\* they are, whatever the earlier steps made of the list in which each step looks
\* for them (agent.rs, recent_assistant_preserve).
THEOREM RepliesSafe == Spec => []RecentRepliesRaw
<1>1. TailInv => RecentRepliesRaw
  BY DEF TailInv, TailOf, RepliesThere, Intact, RecentRepliesRaw, Verbatim
<1>2. QED
  BY <1>1, TailAlways, PTL
=============================================================================
