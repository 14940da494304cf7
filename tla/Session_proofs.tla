--------------------------- MODULE Session_proofs ---------------------------
(***************************************************************************)
(* Theorems of Session about types and ids, and about where the messages   *)
(* of a cascade come from: what is pinned is never touched, what is        *)
(* dropped was never protected, and calls stay with their results.         *)
(***************************************************************************)
EXTENDS Session, Cascade_proofs

\* A text or a length that grows keeps a message sound.
LEMMA SoundGrows ==
  ASSUME NEW n \in Nat, NEW more \in Nat, n <= more, NEW st, NEW to,
         st \subseteq to
  PROVE  /\ Sound(n, st) \subseteq Sound(more, to)
         /\ \A w \in Seq(Sound(n, st)) : w \in Seq(Sound(more, to))
<1>1. \A i \in 0 .. n : i \in 0 .. more
  OBVIOUS
<1>2. Sound(n, st) \subseteq Sound(more, to)
  BY <1>1 DEF Sound
<1>3. QED
  BY <1>2, SeqMonotonic

\* Sound messages are messages that refer to what is there, and the other way
\* round for messages without a tag.
LEMMA SoundFacts ==
  ASSUME NEW n \in Nat, NEW st, NEW w \in Seq(Sound(n, st))
  PROVE  w \in Seq(Message) /\ ReferencedIds(w) \subseteq st
<1>1. Sound(n, st) \subseteq Message
  BY DEF Sound
<1>2. w \in Seq(Message)
  BY <1>1, SeqMonotonic
<1>3. \A i \in DOMAIN w : w[i] \in Sound(n, st)
  BY ElementOfSeq, LenProperties
<1>4. ReferencedIds(w) \subseteq st
  BY <1>3 DEF ReferencedIds, Sound
<1>5. QED
  BY <1>2, <1>4

\* The list that the folds are made against.
LEMMA PinnedType ==
  ASSUME NEW ms \in Seq(Message)
  PROVE  /\ Pinned(ms) \in Seq(Message) /\ DOMAIN Pinned(ms) = DOMAIN ms
         /\ Len(Pinned(ms)) = Len(ms)
         /\ \A i \in DOMAIN ms :
              /\ Pinned(ms)[i] \in Message
              /\ Pinned(ms)[i] = [ms[i] EXCEPT !.pinned = ms[i].pinned \/ ms[i].fin]
<1> DEFINE p(i) == [ms[i] EXCEPT !.pinned = ms[i].pinned \/ ms[i].fin]
           n == Len(ms)
<1>1. /\ DOMAIN ms = 1 .. n /\ n \in Nat
      /\ \A i \in 1 .. n : ms[i] \in Message
  BY LenProperties, ElementOfSeq
<1>2. \A i \in 1 .. n : p(i) \in Message
  BY <1>1 DEF Message
<1>3. Pinned(ms) = [i \in 1 .. n |-> p(i)]
  BY <1>1 DEF Pinned
<1> HIDE DEF p, n
<1>4. Pinned(ms) \in [1 .. n -> Message]
  BY <1>2, <1>3
<1>5. Pinned(ms) \in Seq(Message) /\ Len(Pinned(ms)) = n
  BY <1>1, <1>4, FcnIsSeq
<1>6. QED
  BY <1>1, <1>2, <1>3, <1>5 DEF p, n

\* The working copy is sound when the messages are.
LEMMA TaggedFacts ==
  ASSUME NEW ms \in Seq(Message), NEW st, ReferencedIds(ms) \subseteq st
  PROVE  Tagged(Pinned(ms)) \in Seq(Sound(Len(ms), st))
<1> DEFINE n == Len(ms)
           p(i) == [ms[i] EXCEPT !.pinned = @ \/ ms[i].fin]
           t(i) == [p(i) EXCEPT !.idx = i]
<1>1. n \in Nat /\ DOMAIN ms = 1 .. n /\ \A i \in 1 .. n : ms[i] \in Message
  BY LenProperties, ElementOfSeq
<1>2. ASSUME NEW i \in 1 .. n PROVE t(i) \in Sound(n, st)
  <2>1. ms[i] \in Message /\ i \in Nat /\ Refs(ms[i]) \subseteq st
    BY <1>1 DEF ReferencedIds
  <2>2. p(i) \in Message /\ p(i).text = ms[i].text /\ p(i).ccr = ms[i].ccr
    BY <2>1 DEF Message
  <2> HIDE DEF p
  <2>3. /\ t(i) \in Message /\ t(i).text = ms[i].text
        /\ t(i).ccr = ms[i].ccr /\ t(i).idx = i
    BY <2>1, <2>2 DEF Message
  <2>4. Refs(t(i)) \subseteq st
    BY <2>1, <2>3 DEF Refs
  <2>5. t(i).idx \in 0 .. n
    BY <1>1, <2>3
  <2> HIDE DEF t
  <2>6. QED
    BY <2>3, <2>4, <2>5 DEF Sound
<1>3. Pinned(ms) = [i \in 1 .. n |-> p(i)]
  BY <1>1 DEF Pinned
<1>4. Tagged(Pinned(ms)) = [i \in 1 .. n |-> t(i)]
  BY <1>3 DEF Tagged
<1> HIDE DEF t, p
<1>5. QED
  BY <1>1, <1>2, <1>4, FcnIsSeq
-----------------------------------------------------------------------------
(* Building the result *)

\* Sub picks elements at the given positions and no other.
LEMMA AtFacts ==
  ASSUME NEW S, NEW ms \in Seq(S), NEW P \in SUBSET (DOMAIN ms)
  PROVE  Sub(ms, P) \in Seq({ms[i] : i \in P})
<1> DEFINE c == Cardinality(P)
           o == InOrder(P)
<1>1. c \in Nat /\ DOMAIN o = 1 .. c /\ o \in [1 .. c -> P]
  <2>1. Len(ms) \in Nat /\ P \in SUBSET (1 .. Len(ms))
    BY LenProperties
  <2>2. QED
    BY <2>1, InOrderFacts
<1>2. Sub(ms, P) = [k \in DOMAIN o |-> ms[o[k]]]
  BY DEF Sub
<1> HIDE DEF o, c
<1>3. Sub(ms, P) \in [1 .. c -> {ms[i] : i \in P}]
  BY <1>1, <1>2
<1>4. QED
  BY <1>1, <1>3, FcnIsSeq

\* Removing the tags and marking the replacements keeps messages sound and
\* what they refer to the same.
LEMMA FinalizedFacts ==
  ASSUME NEW n \in Nat, NEW st, NEW w \in Seq(Sound(n, st)), NEW new
  PROVE  LET final == Finalized(Untag(w), new)
         IN  /\ final \in Seq(Sound(n, st))
             /\ DOMAIN final = DOMAIN w
<1> DEFINE u(i) == [w[i] EXCEPT !.idx = 0]
           f(i) == IF \E g \in new : g.at = i
                   THEN [u(i) EXCEPT !.fin = TRUE, !.pinned = TRUE] ELSE u(i)
           len  == Len(w)
<1>1. len \in Nat /\ DOMAIN w = 1 .. len
      /\ \A i \in 1 .. len : w[i] \in Sound(n, st)
  BY LenProperties, ElementOfSeq
<1>2. ASSUME NEW i \in 1 .. len PROVE f(i) \in Sound(n, st)
  <2>1. w[i] \in Message /\ Refs(w[i]) \subseteq st
    BY <1>1 DEF Sound
  <2>2. /\ u(i) \in Message /\ u(i).text = w[i].text
        /\ u(i).ccr = w[i].ccr /\ u(i).idx = 0
    BY <2>1 DEF Message
  <2> HIDE DEF u
  <2>3. /\ f(i) \in Message /\ f(i).text = w[i].text
        /\ f(i).ccr = w[i].ccr /\ f(i).idx = 0
    BY <2>2 DEF Message
  <2> HIDE DEF f
  <2>4. Refs(f(i)) \subseteq st
    BY <2>1, <2>3 DEF Refs
  <2>5. 0 \in 0 .. n
    OBVIOUS
  <2>6. QED
    BY <2>3, <2>4, <2>5 DEF Sound
<1>3. Untag(w) = [i \in 1 .. len |-> u(i)]
  BY <1>1 DEF Untag, Untagged
<1>4. Finalized(Untag(w), new) = [i \in 1 .. len |-> f(i)]
  BY <1>3 DEF Finalized
<1> HIDE DEF f, u
<1>5. [i \in 1 .. len |-> f(i)] \in [1 .. len -> Sound(n, st)]
  BY <1>2
<1> HIDE DEF len
<1>6. QED
  BY <1>1, <1>4, <1>5, FcnIsSeq

\* What retention leaves is sound, and what it may delete is not referred to
\* by it (apply_retention).
LEMMA RetentionFacts ==
  ASSUME NEW n \in Nat, NEW st, NEW ms \in Seq(Sound(n, st)), NEW cfg
  PROVE  LET left == Sub(ms, DOMAIN ms \ Evictable(ms, cfg))
         IN  /\ left \in Seq(Sound(n, st))
             /\ Collectable(ms, cfg) \subseteq Text
             /\ Collectable(ms, cfg) \cap ReferencedIds(left) = {}
<1> DEFINE P == DOMAIN ms \ Evictable(ms, cfg)
           K == {ms[i] : i \in P}
           left == Sub(ms, P)
<1>1. \A i \in DOMAIN ms : ms[i] \in Sound(n, st)
  BY LenProperties, ElementOfSeq
<1>2. left \in Seq(K)
  BY AtFacts
<1>3. K \subseteq Sound(n, st)
  BY <1>1
<1> HIDE DEF left
<1>4. left \in Seq(Sound(n, st))
  BY <1>2, <1>3, SeqMonotonic
<1>5. \A k \in DOMAIN left : left[k] \in K
  BY <1>2, LenProperties, ElementOfSeq
<1>6. ReferencedIds(left) \subseteq UNION {Refs(ms[i]) : i \in P}
  BY <1>5 DEF ReferencedIds
<1>7. Evictable(ms, cfg) \subseteq DOMAIN ms
  BY DEF Evictable, FinPositions
<1>8. Collectable(ms, cfg) \subseteq Text
  <2>1. \A i \in DOMAIN ms : Refs(ms[i]) \subseteq Text
    BY <1>1, MessageFacts DEF Sound
  <2>2. QED
    BY <1>7, <2>1 DEF Collectable
<1>9. Collectable(ms, cfg) \cap ReferencedIds(left) = {}
  <2> DEFINE stay == UNION {Refs(ms[i]) : i \in P}
             all  == UNION {Refs(ms[i]) : i \in Evictable(ms, cfg)}
  <2>1. Collectable(ms, cfg) \subseteq all \ stay
    BY DEF Collectable
  <2> HIDE DEF stay, all
  <2>2. QED
    BY <1>6, <2>1 DEF stay
<1>10. QED
  BY <1>4, <1>8, <1>9 DEF left

\* Numbering keeps the fold records fold records, and finitely many.
LEMMA NumberedFacts ==
  ASSUME NEW ledger, IsFiniteSet(ledger),
         NEW new \in SUBSET Fold, IsFiniteSet(new)
  PROVE  /\ Numbered(ledger, new) \subseteq Fold
         /\ IsFiniteSet(Numbered(ledger, new))
<1> DEFINE old(f)  == {g \in ledger : g.id.of = f.id.of /\ g.id.span = f.id.span}
           twin(f) == {g \in new : g.id = f.id /\ g.first <= f.first}
           num(f)  == Cardinality(old(f)) + Cardinality(twin(f))
           r == [f \in new |-> [f EXCEPT !.id.n = num(f)]]
<1>1. ASSUME NEW f \in new PROVE r[f] \in Fold
  <2>1. IsFiniteSet(old(f)) /\ IsFiniteSet(twin(f))
    BY FS_Subset
  <2>2. num(f) \in Nat
    BY <2>1, FS_CardinalityType
  <2> HIDE DEF num
  <2>3. f \in Fold /\ f.id \in FoldId
    BY DEF Fold
  <2>4. [f.id EXCEPT !.n = num(f)] \in FoldId
    BY <2>2, <2>3 DEF FoldId
  <2>5. r[f] = [f EXCEPT !.id = [f.id EXCEPT !.n = num(f)]]
    BY <2>3 DEF Fold
  <2>6. QED
    BY <2>3, <2>4, <2>5 DEF Fold
<1>2. Numbered(ledger, new) = {r[f] : f \in new}
  BY DEF Numbered
<1>3. DOMAIN r = new /\ r = [f \in DOMAIN r |-> r[f]]
  OBVIOUS
<1> HIDE DEF r
<1>4. IsFiniteSet({r[f] : f \in DOMAIN r})
  BY <1>3, FiniteImage
<1>5. QED
  BY <1>1, <1>2, <1>3, <1>4
-----------------------------------------------------------------------------
(* Type correctness.  Fold records are records of positions of the original  *)
(* list, so the tags must stay within it; numbering them takes cardinalities,*)
(* so the ledger and the delta must be finite.                               *)

WorkingSound(st) ==
  \A s \in Sessions : working[s] \in Seq(Sound(Len(messages[s]), st))

LedgersFinite ==
  \A s \in Sessions : IsFiniteSet(folds[s]) /\ IsFiniteSet(delta[s])

TypeInv == TypeOK /\ WorkingSound(Text) /\ LedgersFinite

\* What the type invariant says of one session.
LEMMA TypeFacts ==
  ASSUME TypeInv, NEW s \in Sessions
  PROVE  /\ config[s] \in Config /\ messages[s] \in Seq(Message)
         /\ Len(messages[s]) \in Nat
         /\ working[s] \in Seq(Sound(Len(messages[s]), Text))
         /\ working[s] \in Seq(Message)
<1>1. config[s] \in Config /\ messages[s] \in Seq(Message)
  BY SessionAssumption DEF TypeInv, TypeOK
<1>2. Len(messages[s]) \in Nat
  BY <1>1, LenProperties
<1>3. working[s] \in Seq(Sound(Len(messages[s]), Text))
  BY DEF TypeInv, WorkingSound
<1>4. QED
  BY <1>1, <1>2, <1>3, SoundFacts

\* The initial state has the types.
LEMMA TypeInit == Init => TypeInv
<1> SUFFICES ASSUME Init PROVE TypeInv
  OBVIOUS
<1>1. TypeOK
  BY EmptySeq DEF Init, TypeOK, Phases
<1>2. WorkingSound(Text)
  BY EmptySeq DEF Init, WorkingSound
<1>3. LedgersFinite
  BY FS_EmptySet DEF Init, LedgersFinite
<1>4. QED
  BY <1>1, <1>2, <1>3 DEF TypeInv

\* A push has the types: the old working copies fit the longer list.
LEMMA TypeExtend ==
  ASSUME TypeInv, NEW s \in Sessions, NEW batch \in Batches, Extend(s, batch)
  PROVE  TypeInv'
<1>1. batch \in Seq(Message)
  <2>1. batch \in Seq({m \in Message : m.idx = 0 /\ ~m.fin})
    BY SessionAssumption
  <2>2. QED
    BY <2>1, SeqMonotonic
<1>2. messages[s] \in Seq(Message) /\ Len(messages[s]) \in Nat
  BY TypeFacts
<1>3. messages[s] \o batch \in Seq(Message)
      /\ Len(messages[s] \o batch) \in Nat
      /\ Len(messages[s]) <= Len(messages[s] \o batch)
  BY <1>1, <1>2, ConcatProperties, LenProperties
<1>4. messages' = [messages EXCEPT ![s] = messages[s] \o batch]
      /\ messages' \in [Sessions -> Seq(Message)]
  BY <1>3 DEF Extend, TypeInv, TypeOK
<1>5. TypeOK'
  BY <1>4 DEF Extend, TypeInv, TypeOK, flight
<1>6. WorkingSound(Text)'
  <2>1. ASSUME NEW t \in Sessions
        PROVE  working[t] \in Seq(Sound(Len(messages'[t]), Text))
    <3>1. working[t] \in Seq(Sound(Len(messages[t]), Text))
          /\ Len(messages[t]) \in Nat
      BY TypeFacts
    <3>2. CASE t = s
      <4>1. messages'[t] = messages[s] \o batch
        BY <1>4, <3>2 DEF TypeInv, TypeOK
      <4>2. QED
        BY <1>2, <1>3, <3>1, <3>2, <4>1, SoundGrows
    <3>3. CASE t # s
      <4>1. messages'[t] = messages[t]
        BY <1>4, <3>3 DEF TypeInv, TypeOK
      <4>2. QED
        BY <3>1, <4>1
    <3>4. QED
      BY <3>2, <3>3
  <2>2. working' = working
    BY DEF Extend, flight
  <2>3. QED
    BY <2>1, <2>2 DEF WorkingSound
<1>7. LedgersFinite'
  BY DEF Extend, flight, TypeInv, LedgersFinite
<1>8. QED
  BY <1>5, <1>6, <1>7 DEF TypeInv

\* A step that gives session s a working copy of sound messages, and leaves
\* its messages and ledger alone.
LEMMA TypeWorking ==
  ASSUME TypeInv, NEW s \in Sessions,
         NEW w \in Seq(Sound(Len(messages[s]), Text)),
         working' = [working EXCEPT ![s] = w],
         UNCHANGED messages
  PROVE  WorkingSound(Text)' /\ working' \in [Sessions -> Seq(Message)]
<1>1. working \in [Sessions -> Seq(Message)]
  BY DEF TypeInv, TypeOK
<1>2. w \in Seq(Message)
  <2>1. Len(messages[s]) \in Nat
    BY TypeFacts
  <2>2. QED
    BY <2>1, SoundFacts
<1>3. \A t \in Sessions : working'[t] \in Seq(Sound(Len(messages[t]), Text))
  BY <1>1 DEF TypeInv, WorkingSound
<1>4. QED
  BY <1>1, <1>2, <1>3 DEF WorkingSound

\* The working copy a compaction starts from.
LEMMA TypeStart ==
  ASSUME TypeInv, NEW s \in Sessions, StartCompact(s)
  PROVE  TypeInv'
<1> DEFINE w == Tagged(Pinned(messages[s]))
<1>1. w \in Seq(Sound(Len(messages[s]), Text))
  <2>1. messages[s] \in Seq(Message)
    BY TypeFacts
  <2>2. \A i \in DOMAIN messages[s] : Refs(messages[s][i]) \subseteq Text
    BY <2>1, LenProperties, ElementOfSeq, MessageFacts
  <2>3. ReferencedIds(messages[s]) \subseteq Text
    BY <2>2 DEF ReferencedIds
  <2>4. QED
    BY <2>1, <2>3, TaggedFacts
<1>2. working' = [working EXCEPT ![s] = w] /\ UNCHANGED messages
  BY DEF StartCompact
<1> HIDE DEF w
<1>3. WorkingSound(Text)' /\ working' \in [Sessions -> Seq(Message)]
  BY <1>1, <1>2, TypeWorking
<1>4. pc' \in [Sessions -> Phases] /\ settled' \in [Sessions -> {"new", "faulty", "settled"}]
  BY DEF StartCompact, TypeInv, TypeOK, Phases
<1>5. TypeOK'
  BY <1>3, <1>4 DEF StartCompact, TypeInv, TypeOK
<1>6. LedgersFinite'
  BY DEF StartCompact, TypeInv, LedgersFinite
<1>7. QED
  BY <1>3, <1>5, <1>6 DEF TypeInv

\* A stage of the cascade has the types when its list and its saves have.
LEMMA TypeStage ==
  ASSUME TypeInv, NEW s \in Sessions, NEW phase, NEW next \in Phases,
         NEW w, NEW saves \in SUBSET Text, NEW failed,
         w \in Seq(Sound(Len(messages[s]), Text \cup saves)),
         EndStage(s, phase, next, w, saves, failed)
  PROVE  TypeInv'
<1>1. w \in Seq(Sound(Len(messages[s]), Text))
  <2>1. Text \cup saves = Text
    OBVIOUS
  <2>2. QED
    BY <2>1
<1>2. working' = [working EXCEPT ![s] = w] /\ UNCHANGED messages
  BY DEF EndStage
<1>3. WorkingSound(Text)' /\ working' \in [Sessions -> Seq(Message)]
  BY <1>1, <1>2, TypeWorking
<1>4. pc' \in [Sessions -> Phases] /\ settled' \in [Sessions -> {"new", "faulty", "settled"}]
  BY DEF EndStage, TypeInv, TypeOK, Phases
<1>5. TypeOK'
  BY <1>3, <1>4 DEF EndStage, TypeInv, TypeOK
<1>6. LedgersFinite'
  BY DEF EndStage, TypeInv, LedgersFinite
<1>7. QED
  BY <1>3, <1>5, <1>6 DEF TypeInv

\* Step 1.
LEMMA TypeRules ==
  ASSUME TypeInv, NEW s \in Sessions, Rules(s)
  PROVE  TypeInv'
<1>1. PICK F \in Faults(s, ClearSet(working[s], config[s])) :
        EndStage(s, "rules", "middle", AgentRules(working[s], config[s], F),
                 AgentSaves(working[s], config[s], F), F)
  BY DEF Rules
<1>2. working[s] \in Seq(Sound(Len(messages[s]), Text))
  BY TypeFacts
<1>3. /\ AgentRules(working[s], config[s], F)
           \in Seq(Sound(Len(messages[s]),
                         Text \cup AgentSaves(working[s], config[s], F)))
      /\ AgentSaves(working[s], config[s], F) \in SUBSET Text
  BY <1>2, RulesFacts
<1>4. "middle" \in Phases
  BY DEF Phases
<1>5. QED
  BY <1>1, <1>3, <1>4, TypeStage

\* Steps 2 and 3.
LEMMA TypeCompress ==
  ASSUME TypeInv, NEW s \in Sessions, NEW phase, NEW next \in Phases,
         NEW middle \in Nat, NEW summarize \in BOOLEAN,
         Compress(s, phase, next, middle, summarize)
  PROVE  TypeInv'
<1> DEFINE p == PreserveRecent(working[s], config[s])
           o == AfterOldBand(working[s], p, middle, summarize)
<1>1. PICK F \in Faults(s, PipedBand(o, p)) :
        EndStage(s, phase, next, PipeBand(o, config[s], p, F),
                 PipeSaves(o, config[s], p, F), F)
  BY DEF Compress
<1>2. /\ working[s] \in Seq(Sound(Len(messages[s]), Text))
      /\ config[s] \in Config /\ Len(messages[s]) \in Nat
  BY TypeFacts
<1>3. /\ PipeBand(o, config[s], p, F)
           \in Seq(Sound(Len(messages[s]), Text \cup PipeSaves(o, config[s], p, F)))
      /\ PipeSaves(o, config[s], p, F) \in SUBSET Text
  BY <1>2, CompressFacts
<1> HIDE DEF o, p
<1>4. QED
  BY <1>1, <1>3, TypeStage

\* Step 4.
LEMMA TypeDrop ==
  ASSUME TypeInv, NEW s \in Sessions, Drop(s)
  PROVE  TypeInv'
<1> DEFINE w == working[s]
           r == DropRange(w, config[s])
           rest == SubSeq(w, 1, r[1] - 1) \o SubSeq(w, r[2] + 1, Len(w))
           gone == SubSeq(w, r[1], r[2])
           S == Sound(Len(messages[s]), Text)
<1>1. w \in Seq(S) /\ Len(messages[s]) \in Nat
  BY TypeFacts
<1>2. rest \in Seq(S) /\ gone \in Seq(S)
  BY <1>1, DropFacts DEF Drop
<1>3. gone \in Seq(Message)
  <2> HIDE DEF w, gone, rest
  <2>1. QED
    BY <1>1, <1>2, SoundFacts
<1>4. working' = [working EXCEPT ![s] = rest] /\ UNCHANGED messages
      /\ dropped' = [dropped EXCEPT ![s] = dropped[s] \o gone]
  BY DEF Drop
<1> HIDE DEF w, r, rest, gone
<1>5. WorkingSound(Text)' /\ working' \in [Sessions -> Seq(Message)]
  BY <1>2, <1>4, TypeWorking
<1>6. dropped' \in [Sessions -> Seq(Message)]
  <2>1. dropped \in [Sessions -> Seq(Message)]
    BY DEF TypeInv, TypeOK
  <2>2. dropped[s] \o gone \in Seq(Message)
    BY <1>3, <2>1, ConcatProperties
  <2>3. QED
    BY <1>4, <2>1, <2>2
<1>7. TypeOK'
  BY <1>5, <1>6 DEF Drop, TypeInv, TypeOK
<1>8. LedgersFinite'
  BY DEF Drop, TypeInv, LedgersFinite
<1>9. QED
  BY <1>5, <1>7, <1>8 DEF TypeInv

\* The end of the loop of step 4.
LEMMA TypeEndDrop ==
  ASSUME TypeInv, NEW s \in Sessions, EndDrop(s)
  PROVE  TypeInv'
<1>1. pc' \in [Sessions -> Phases]
  BY DEF EndDrop, TypeInv, TypeOK, Phases
<1>2. TypeOK'
  BY <1>1 DEF EndDrop, TypeInv, TypeOK, flight
<1>3. WorkingSound(Text)' /\ LedgersFinite'
  BY DEF EndDrop, TypeInv, WorkingSound, LedgersFinite, flight
<1>4. QED
  BY <1>2, <1>3 DEF TypeInv

\* The return of compact() resets what is in flight.
LEMMA TypeReturn ==
  ASSUME TypeInv, NEW s \in Sessions, Return(s)
  PROVE  /\ pc' \in [Sessions -> Phases]
         /\ working' \in [Sessions -> Seq(Message)]
         /\ dropped' \in [Sessions -> Seq(Message)]
         /\ delta' \in [Sessions -> SUBSET Fold]
         /\ gc' \in [Sessions -> SUBSET Text]
         /\ evicted' \in [Sessions -> SUBSET Text]
         /\ \A t \in Sessions : IsFiniteSet(delta'[t])
         /\ working'[s] = <<>>
         /\ \A t \in Sessions \ {s} : working'[t] = working[t]
<1>1. <<>> \in Seq(Message)
  BY EmptySeq
<1>2. /\ pc' \in [Sessions -> Phases]
      /\ delta' \in [Sessions -> SUBSET Fold]
      /\ gc' \in [Sessions -> SUBSET Text]
      /\ evicted' \in [Sessions -> SUBSET Text]
  BY DEF Return, TypeInv, TypeOK, Phases
<1>3. /\ working' \in [Sessions -> Seq(Message)]
      /\ dropped' \in [Sessions -> Seq(Message)]
      /\ working'[s] = <<>>
      /\ \A t \in Sessions \ {s} : working'[t] = working[t]
  BY <1>1 DEF Return, TypeInv, TypeOK
<1>4. \A t \in Sessions : IsFiniteSet(delta'[t])
  BY FS_EmptySet DEF Return, TypeInv, TypeOK, LedgersFinite
<1>5. QED
  BY <1>2, <1>3, <1>4

\* A working copy that a return emptied is sound.
LEMMA TypeReturned ==
  ASSUME TypeInv, NEW s \in Sessions, Return(s),
         \A t \in Sessions \ {s} : messages'[t] = messages[t]
  PROVE  WorkingSound(Text)'
<1>1. ASSUME NEW t \in Sessions
      PROVE  working'[t] \in Seq(Sound(Len(messages'[t]), Text))
  <2>1. CASE t = s
    BY <2>1, TypeReturn, EmptySeq
  <2>2. CASE t # s
    BY <2>2, TypeReturn, TypeFacts
  <2>3. QED
    BY <2>1, <2>2
<1>2. QED
  BY <1>1 DEF WorkingSound

\* BudgetExceeded.
LEMMA TypeGiveUp ==
  ASSUME TypeInv, NEW s \in Sessions, GiveUp(s)
  PROVE  TypeInv'
<1>1. Return(s)
  BY DEF GiveUp
<1>2. TypeOK'
  BY <1>1, TypeReturn DEF GiveUp, TypeInv, TypeOK
<1>3. WorkingSound(Text)'
  BY <1>1, TypeReturned DEF GiveUp
<1>4. LedgersFinite'
  BY <1>1, TypeReturn DEF GiveUp, TypeInv, LedgersFinite
<1>5. QED
  BY <1>2, <1>3, <1>4 DEF TypeInv

\* The future is dropped.
LEMMA TypeCancel ==
  ASSUME TypeInv, NEW s \in Sessions, Cancel(s)
  PROVE  TypeInv'
<1>1. Return(s)
  BY DEF Cancel
<1>2. Pending(s) \subseteq Text
  <2> DEFINE w == working[s]
             p == PreserveRecent(w, config[s])
             o == AfterOldBand(w, p, MiddleBand, TRUE)
  <2>1. /\ w \in Seq(Sound(Len(messages[s]), Text))
        /\ config[s] \in Config /\ Len(messages[s]) \in Nat
    BY TypeFacts
  <2>2. AgentSaves(w, config[s], {}) \subseteq Text
    BY <2>1, RulesFacts
  <2>3. PipeSaves(w, config[s], p, {}) \subseteq Text
    BY <2>1, PipeFacts
  <2>4. PipeSaves(o, config[s], p, {}) \subseteq Text
    BY <2>1, CompressFacts, CascadeAssumption
  <2>5. CASE pc[s] = "rules"
    BY <2>2, <2>5 DEF Pending
  <2>6. CASE pc[s] = "middle"
    BY <2>3, <2>6 DEF Pending
  <2>7. CASE pc[s] = "summarize"
    BY <2>4, <2>7 DEF Pending
  <2>8. CASE pc[s] \notin {"rules", "middle", "summarize"}
    BY <2>8 DEF Pending
  <2>9. QED
    BY <2>5, <2>6, <2>7, <2>8
<1>3. store' \subseteq Text
  BY <1>2 DEF Cancel, TypeInv, TypeOK
<1>4. TypeOK'
  BY <1>1, <1>3, TypeReturn DEF Cancel, TypeInv, TypeOK
<1>5. WorkingSound(Text)'
  BY <1>1, TypeReturned DEF Cancel
<1>6. LedgersFinite'
  BY <1>1, TypeReturn DEF Cancel, TypeInv, LedgersFinite
<1>7. QED
  BY <1>4, <1>5, <1>6 DEF TypeInv

\* A delete.
LEMMA TypeDelete ==
  ASSUME TypeInv, NEW s \in Sessions, NEW id \in gc[s], Delete(s, id)
  PROVE  TypeInv'
<1>1. id \in Text
  BY DEF TypeInv, TypeOK
<1>2. /\ store' \subseteq Text
      /\ gc' \in [Sessions -> SUBSET Text]
      /\ evicted' \in [Sessions -> SUBSET Text]
  <2>1. gc' \in [Sessions -> SUBSET Text]
    BY DEF Delete, TypeInv, TypeOK
  <2>2. CASE store' = store \ {id}
               /\ evicted' = [evicted EXCEPT ![s] = evicted[s] \cup {id}]
    <3>1. evicted[s] \cup {id} \in SUBSET Text
      BY <1>1 DEF TypeInv, TypeOK
    <3>2. evicted' \in [Sessions -> SUBSET Text]
      BY <2>2, <3>1 DEF TypeInv, TypeOK
    <3>3. QED
      BY <2>1, <2>2, <3>2 DEF TypeInv, TypeOK
  <2>3. CASE UNCHANGED <<store, evicted>>
    BY <2>1, <2>3 DEF TypeInv, TypeOK
  <2>4. QED
    BY <2>2, <2>3 DEF Delete
<1>3. TypeOK'
  BY <1>2 DEF Delete, TypeInv, TypeOK
<1>4. WorkingSound(Text)' /\ LedgersFinite'
  BY DEF Delete, TypeInv, WorkingSound, LedgersFinite
<1>5. QED
  BY <1>3, <1>4 DEF TypeInv

\* The messages and the ledger are replaced.
LEMMA TypeCommit ==
  ASSUME TypeInv, NEW s \in Sessions, Commit(s)
  PROVE  TypeInv'
<1>1. Return(s)
  BY DEF Commit
<1>2. working[s] \in Seq(Message)
  BY TypeFacts
<1>3. /\ messages' \in [Sessions -> Seq(Message)]
      /\ \A t \in Sessions \ {s} : messages'[t] = messages[t]
  BY <1>2 DEF Commit, TypeInv, TypeOK
<1>4. /\ folds' \in [Sessions -> SUBSET Fold]
      /\ recall' \in [Sessions -> SUBSET Doc]
      /\ settled' \in [Sessions -> {"new", "faulty", "settled"}]
  BY DEF Commit, Forgotten, TypeInv, TypeOK
<1>5. TypeOK'
  BY <1>1, <1>3, <1>4, TypeReturn DEF Commit, TypeInv, TypeOK
<1>6. WorkingSound(Text)'
  BY <1>1, <1>3, TypeReturned
<1>7. LedgersFinite'
  <2>1. \A t \in Sessions : IsFiniteSet(folds[t] \cup delta[t])
    BY FS_Union DEF TypeInv, LedgersFinite
  <2>2. \A t \in Sessions : folds'[t] = IF t = s THEN folds[t] \cup delta[t]
                                       ELSE folds[t]
    BY DEF Commit, TypeInv, TypeOK
  <2>3. \A t \in Sessions : IsFiniteSet(folds'[t])
    BY <2>1, <2>2 DEF TypeInv, LedgersFinite
  <2>4. QED
    BY <1>1, <2>3, TypeReturn DEF LedgersFinite
<1>8. QED
  BY <1>5, <1>6, <1>7 DEF TypeInv

\* Documents are made of the session's own texts.
LEMMA IndexedType ==
  ASSUME NEW docs \in SUBSET Doc, NEW ms \in Seq(Message), NEW new \in SUBSET Fold
  PROVE  Indexed(docs, ms, new) \subseteq Doc
<1>1. \A f \in new : Originals(ms, f) \subseteq Message
  BY ElementOfSeq, LenProperties DEF Originals
<1>2. \A f \in new : /\ {m.text : m \in Originals(ms, f)} \subseteq Text
                     /\ FoldTags(Originals(ms, f)) \subseteq Tag
  <2>1. \A m \in Message : m.text \in Text
    BY DEF Message
  <2>2. \A x \in Key : x.src \in Raw
    BY DEF Key
  <2>3. QED
    BY <1>1, <2>1, <2>2 DEF FoldTags, ErrorTags, Tag
<1>3. \A id : TagsUnder(docs, ms, new, id) \subseteq Tag
  BY <1>2 DEF TagsUnder, Doc
<1>4. \A f \in new : f.ccr # None => f.ccr \in Text
  BY DEF Fold
<1>5. \A f \in new : f.ccr # None =>
        [id |-> f.ccr, kind |-> f.kind, of |-> {m.text : m \in Originals(ms, f)},
         tags |-> TagsUnder(docs, ms, new, f.ccr)] \in Doc
  BY <1>2, <1>3, <1>4 DEF Doc, Fold
<1>6. QED
  BY <1>5 DEF Indexed

\* The folds, the numbering, the finalized marks and the retention.
LEMMA TypeBuild ==
  ASSUME TypeInv, NEW s \in Sessions, BuildAndRetain(s)
  PROVE  TypeInv'
<1> DEFINE orig  == Pinned(messages[s])
           built == BuildFolds(orig, working[s], dropped[s])
           new   == Numbered(folds[s], built)
           final == Finalized(Untag(working[s]), new)
           left  == Sub(final, DOMAIN final \ Evictable(final, config[s]))
           n     == Len(messages[s])
<1>1. /\ working[s] \in Seq(Sound(n, Text))
      /\ messages[s] \in Seq(Message) /\ n \in Nat
  BY TypeFacts
<1>2. orig \in Seq(Message) /\ Len(orig) = n
  BY <1>1, PinnedType
<1>3. dropped[s] \in Seq(Message) /\ folds[s] \subseteq Fold
      /\ IsFiniteSet(folds[s])
  BY DEF TypeInv, TypeOK, LedgersFinite
<1> HIDE DEF orig, n
<1>4. built \subseteq Fold /\ IsFiniteSet(built)
  BY <1>1, <1>2, <1>3, BuildFoldsType
<1> HIDE DEF built
<1>5. new \subseteq Fold /\ IsFiniteSet(new)
  BY <1>3, <1>4, NumberedFacts
<1> HIDE DEF new
<1>6. final \in Seq(Sound(n, Text))
  BY <1>1, FinalizedFacts
<1> HIDE DEF final
<1>7. left \in Seq(Sound(n, Text)) /\ Collectable(final, config[s]) \subseteq Text
  BY <1>1, <1>6, RetentionFacts
<1>8. /\ delta' = [delta EXCEPT ![s] = new]
      /\ working' = [working EXCEPT ![s] = left]
      /\ gc' = [gc EXCEPT ![s] = Collectable(final, config[s])]
      /\ recall' = [recall EXCEPT ![s] = Indexed(recall[s], messages[s], new)]
      /\ UNCHANGED messages
  <2>1. delta' = [delta EXCEPT ![s] = new]
    BY DEF BuildAndRetain, new, built, orig
  <2>2. delta'[s] = new
    BY <2>1 DEF TypeInv, TypeOK
  <2>3. QED
    BY <2>1, <2>2 DEF BuildAndRetain, final
<1> HIDE DEF left
<1>9. WorkingSound(Text)' /\ working' \in [Sessions -> Seq(Message)]
  BY <1>7, <1>8, TypeWorking DEF n
<1>10. delta' \in [Sessions -> SUBSET Fold]
  BY <1>5, <1>8 DEF TypeInv, TypeOK
<1>11. gc' \in [Sessions -> SUBSET Text]
  BY <1>7, <1>8 DEF TypeInv, TypeOK
<1>12. recall' \in [Sessions -> SUBSET Doc]
  <2>1. recall[s] \subseteq Doc
    BY DEF TypeInv, TypeOK
  <2>2. Indexed(recall[s], messages[s], new) \subseteq Doc
    BY <1>1, <1>5, <2>1, IndexedType
  <2>3. QED
    BY <1>8, <2>2 DEF TypeInv, TypeOK
<1>13. pc' \in [Sessions -> Phases]
  BY DEF BuildAndRetain, TypeInv, TypeOK, Phases
<1>14. TypeOK'
  BY <1>9, <1>10, <1>11, <1>12, <1>13 DEF BuildAndRetain, TypeInv, TypeOK
<1>15. LedgersFinite'
  <2>1. \A t \in Sessions : delta'[t] = IF t = s THEN new ELSE delta[t]
    BY <1>8 DEF TypeInv, TypeOK
  <2>2. \A t \in Sessions : IsFiniteSet(delta'[t])
    BY <1>5, <2>1 DEF TypeInv, LedgersFinite
  <2>3. QED
    BY <2>2 DEF BuildAndRetain, TypeInv, LedgersFinite
<1>16. QED
  BY <1>9, <1>14, <1>15 DEF TypeInv

\* Every step preserves the type invariant.
LEMMA TypeNext == TypeInv /\ [Next]_vars => TypeInv'
<1> SUFFICES ASSUME TypeInv, [Next]_vars PROVE TypeInv'
  OBVIOUS
<1>1. CASE UNCHANGED vars
  BY <1>1 DEF vars, flight, TypeInv, TypeOK, WorkingSound, LedgersFinite
<1>2. CASE Next
  <2>1. PICK s \in Sessions :
          \/ \E batch \in Batches : Extend(s, batch)
          \/ StartCompact(s) \/ Compacting(s) \/ Cancel(s)
    BY <1>2 DEF Next
  <2>2. CASE \E batch \in Batches : Extend(s, batch)
    BY <2>2, TypeExtend
  <2>3. CASE StartCompact(s)
    BY <2>3, TypeStart
  <2>4. CASE Cancel(s)
    BY <2>4, TypeCancel
  <2>5. CASE Compacting(s)
    <3>1. CASE Rules(s)
      BY <3>1, TypeRules
    <3>2. CASE Middle(s)
      <4>1. working[s] \in Seq(Message) /\ Len(working[s]) \in Nat
            /\ "summarize" \in Phases
        BY TypeFacts, LenProperties DEF Phases
      <4>2. QED
        BY <3>2, <4>1, TypeCompress DEF Middle
    <3>3. CASE Summarize(s)
      <4>1. MiddleBand \in Nat /\ "drop" \in Phases
        BY CascadeAssumption DEF Phases
      <4>2. QED
        BY <3>3, <4>1, TypeCompress DEF Summarize
    <3>4. CASE Drop(s)
      BY <3>4, TypeDrop
    <3>5. CASE EndDrop(s)
      BY <3>5, TypeEndDrop
    <3>6. CASE GiveUp(s)
      BY <3>6, TypeGiveUp
    <3>7. CASE BuildAndRetain(s)
      BY <3>7, TypeBuild
    <3>8. CASE Commit(s)
      BY <3>8, TypeCommit
    <3>9. CASE \E id \in gc[s] : Delete(s, id)
      BY <3>9, TypeDelete
    <3>10. QED
      BY <2>5, <3>1, <3>2, <3>3, <3>4, <3>5, <3>6, <3>7, <3>8, <3>9
         DEF Compacting
  <2>6. QED
    BY <2>1, <2>2, <2>3, <2>4, <2>5
<1>3. QED
  BY <1>1, <1>2

\* Every state a session reaches has the types: in particular a fold record is
\* always one of positions of the list it was made from, and its number one.
THEOREM TypeCorrect == Spec => []TypeOK
<1>1. Init => TypeInv
  BY TypeInit
<1>2. TypeInv /\ [Next]_vars => TypeInv'
  BY TypeNext
<1>3. TypeInv => TypeOK
  BY DEF TypeInv
<1>4. QED
  BY <1>1, <1>2, <1>3, PTL DEF Spec
-----------------------------------------------------------------------------
(* What the prompt refers to is in the store.  Two situations are outside the *)
(* theorem, because the property fails in them: a future that is dropped      *)
(* between the deletes and the commit, and sessions that share a store in     *)
(* which one of them deletes originals.                                       *)

OneSession == (\A s, t \in Sessions : s = t) /\ "gc" \notin MayCancel

KeepsOriginals == \A cfg \in Configs : ~(cfg.evictOriginals /\ cfg.hasStore)

\* The property by itself is not inductive: the cascade needs that the working
\* copy refers to stored texts before it becomes the messages, and the deletes
\* that the ids still to delete are not among them.
LiveInv ==
  \A s \in Sessions :
    /\ pc[s] # "gc" \/ KeepsOriginals => ReferencedIds(messages[s]) \subseteq store
    /\ working[s] \in Seq(Sound(Len(messages[s]), store))
    /\ pc[s] = "gc" => gc[s] \cap ReferencedIds(working[s]) = {}
    /\ KeepsOriginals => gc[s] = {}

\* Initially there is nothing to refer to.
LEMMA LiveInit == Init => LiveInv
<1> SUFFICES ASSUME Init, NEW s \in Sessions
             PROVE  /\ ReferencedIds(messages[s]) \subseteq store
                    /\ working[s] \in Seq(Sound(Len(messages[s]), store))
                    /\ pc[s] # "gc" /\ gc[s] = {}
  BY DEF LiveInv
<1>1. messages[s] = <<>> /\ working[s] = <<>> /\ pc[s] = "idle" /\ gc[s] = {}
  BY DEF Init
<1>2. ReferencedIds(messages[s]) = {}
  BY <1>1 DEF ReferencedIds
<1>3. QED
  BY <1>1, <1>2, EmptySeq

\* A step of session s outside the deletes that only adds to the store and
\* leaves the messages: sound messages in the working copy are enough.
LEMMA LiveWorking ==
  ASSUME TypeInv, LiveInv, NEW s \in Sessions,
         pc[s] # "gc" \/ KeepsOriginals,
         NEW w \in Seq(Sound(Len(messages[s]), store')),
         working'[s] = w,
         \A t \in Sessions \ {s} : working'[t] = working[t] /\ pc'[t] = pc[t],
         pc'[s] # "gc",
         UNCHANGED messages, store \subseteq store',
         \A t \in Sessions : gc'[t] \subseteq gc[t]
  PROVE  LiveInv'
<1> SUFFICES ASSUME NEW t \in Sessions
             PROVE  /\ pc'[t] # "gc" \/ KeepsOriginals
                         => ReferencedIds(messages[t]) \subseteq store'
                    /\ working'[t] \in Seq(Sound(Len(messages[t]), store'))
                    /\ pc'[t] = "gc" => gc'[t] \cap ReferencedIds(working'[t]) = {}
                    /\ KeepsOriginals => gc'[t] = {}
  BY DEF LiveInv
<1>1. KeepsOriginals => gc'[t] = {}
  BY DEF LiveInv
<1>2. pc'[t] # "gc" \/ KeepsOriginals => ReferencedIds(messages[t]) \subseteq store'
  BY DEF LiveInv
<1>3. working'[t] \in Seq(Sound(Len(messages[t]), store'))
  <2>1. CASE t = s
    BY <2>1
  <2>2. CASE t # s
    BY <2>2, SoundMonotonic DEF LiveInv
  <2>3. QED
    BY <2>1, <2>2
<1>4. pc'[t] = "gc" => gc'[t] \cap ReferencedIds(working'[t]) = {}
  BY DEF LiveInv
<1>5. QED
  BY <1>1, <1>2, <1>3, <1>4

\* A push quotes only markers that the prompt holds.
LEMMA LiveExtend ==
  ASSUME TypeInv, LiveInv, NEW s \in Sessions, NEW batch \in Batches,
         Extend(s, batch)
  PROVE  LiveInv'
<1> DEFINE ms == messages[s]
<1>1. ms \in Seq(Message) /\ batch \in Seq(Message) /\ Len(ms) \in Nat
  <2>1. batch \in Seq({m \in Message : m.idx = 0 /\ ~m.fin})
    BY SessionAssumption
  <2>2. QED
    BY <2>1, TypeFacts, SeqMonotonic
<1>2. /\ ms \o batch \in Seq(Message)
      /\ Len(ms \o batch) = Len(ms) + Len(batch) /\ Len(batch) \in Nat
      /\ \A i \in 1 .. Len(ms) + Len(batch) : (ms \o batch)[i] =
            IF i <= Len(ms) THEN ms[i] ELSE batch[i - Len(ms)]
  BY <1>1, ConcatProperties, LenProperties
<1>3. ReferencedIds(ms \o batch) \subseteq store
  <2>1. ReferencedIds(ms) \subseteq store /\ ReferencedIds(batch) \subseteq store
    BY DEF Extend, LiveInv
  <2>2. ASSUME NEW i \in DOMAIN (ms \o batch)
        PROVE  Refs((ms \o batch)[i]) \subseteq store
    <3>1. i \in 1 .. Len(ms) + Len(batch)
      BY <1>2, LenProperties
    <3>2. CASE i <= Len(ms)
      <4>1. i \in DOMAIN ms /\ (ms \o batch)[i] = ms[i]
        BY <1>1, <1>2, <3>1, <3>2, LenProperties
      <4>2. QED
        BY <2>1, <4>1 DEF ReferencedIds
    <3>3. CASE ~(i <= Len(ms))
      <4>1. i - Len(ms) \in DOMAIN batch /\ (ms \o batch)[i] = batch[i - Len(ms)]
        BY <1>1, <1>2, <3>1, <3>3, LenProperties
      <4>2. QED
        BY <2>1, <4>1 DEF ReferencedIds
    <3>4. QED
      BY <3>2, <3>3
  <2>3. QED
    BY <2>2 DEF ReferencedIds
<1>4. /\ messages'[s] = ms \o batch
      /\ \A t \in Sessions \ {s} : messages'[t] = messages[t]
      /\ UNCHANGED <<store, pc, working, gc>>
  BY DEF Extend, flight, TypeInv, TypeOK
<1>5. working[s] \in Seq(Sound(Len(ms \o batch), store))
  BY <1>1, <1>2, SoundGrows DEF LiveInv
<1> HIDE DEF ms
<1>6. QED
  BY <1>3, <1>4, <1>5 DEF LiveInv

\* The working copy refers to what the messages refer to.
LEMMA LiveStart ==
  ASSUME TypeInv, LiveInv, NEW s \in Sessions, StartCompact(s)
  PROVE  LiveInv'
<1> DEFINE w == Tagged(Pinned(messages[s]))
<1>1. w \in Seq(Sound(Len(messages[s]), store'))
  <2>1. messages[s] \in Seq(Message)
    BY TypeFacts
  <2>2. ReferencedIds(messages[s]) \subseteq store'
    BY DEF StartCompact, LiveInv
  <2>3. QED
    BY <2>1, <2>2, TaggedFacts
<1>2. working' = [working EXCEPT ![s] = w]
  BY DEF StartCompact
<1> HIDE DEF w
<1>3. /\ working'[s] = w /\ pc'[s] # "gc"
      /\ \A t \in Sessions \ {s} : working'[t] = working[t] /\ pc'[t] = pc[t]
      /\ UNCHANGED <<messages, gc>> /\ store \subseteq store' /\ pc[s] # "gc"
  BY <1>2 DEF StartCompact, TypeInv, TypeOK
<1>4. QED
  BY <1>1, <1>3, LiveWorking

\* A stage saves what its list refers to.
LEMMA LiveStage ==
  ASSUME TypeInv, LiveInv, NEW s \in Sessions,
         NEW phase, phase # "gc", NEW next, next # "gc",
         NEW w, NEW saves, NEW failed,
         w \in Seq(Sound(Len(messages[s]), store \cup saves)),
         EndStage(s, phase, next, w, saves, failed)
  PROVE  LiveInv'
<1>1. w \in Seq(Sound(Len(messages[s]), store'))
  BY DEF EndStage
<1>2. /\ working'[s] = w /\ pc'[s] # "gc"
      /\ \A t \in Sessions \ {s} : working'[t] = working[t] /\ pc'[t] = pc[t]
      /\ UNCHANGED <<messages, gc>> /\ store \subseteq store' /\ pc[s] # "gc"
  BY DEF EndStage, TypeInv, TypeOK
<1>3. QED
  BY <1>1, <1>2, LiveWorking

\* Step 1.
LEMMA LiveRules ==
  ASSUME TypeInv, LiveInv, NEW s \in Sessions, Rules(s)
  PROVE  LiveInv'
<1>1. PICK F \in Faults(s, ClearSet(working[s], config[s])) :
        EndStage(s, "rules", "middle", AgentRules(working[s], config[s], F),
                 AgentSaves(working[s], config[s], F), F)
  BY DEF Rules
<1>2. working[s] \in Seq(Sound(Len(messages[s]), store))
  BY DEF LiveInv
<1>3. AgentRules(working[s], config[s], F)
        \in Seq(Sound(Len(messages[s]),
                      store \cup AgentSaves(working[s], config[s], F)))
  BY <1>2, RulesFacts
<1>4. QED
  BY <1>1, <1>3, LiveStage

\* Steps 2 and 3.
LEMMA LiveCompress ==
  ASSUME TypeInv, LiveInv, NEW s \in Sessions,
         NEW phase, phase # "gc", NEW next, next # "gc",
         NEW middle \in Nat, NEW summarize \in BOOLEAN,
         Compress(s, phase, next, middle, summarize)
  PROVE  LiveInv'
<1> DEFINE p == PreserveRecent(working[s], config[s])
           o == AfterOldBand(working[s], p, middle, summarize)
<1>1. PICK F \in Faults(s, PipedBand(o, p)) :
        EndStage(s, phase, next, PipeBand(o, config[s], p, F),
                 PipeSaves(o, config[s], p, F), F)
  BY DEF Compress
<1>2. /\ working[s] \in Seq(Sound(Len(messages[s]), store))
      /\ config[s] \in Config /\ Len(messages[s]) \in Nat
  BY TypeFacts DEF LiveInv
<1>3. PipeBand(o, config[s], p, F)
        \in Seq(Sound(Len(messages[s]), store \cup PipeSaves(o, config[s], p, F)))
  BY <1>2, CompressFacts
<1> HIDE DEF o, p
<1>4. QED
  BY <1>1, <1>3, LiveStage

\* Step 4.
LEMMA LiveDrop ==
  ASSUME TypeInv, LiveInv, NEW s \in Sessions, Drop(s)
  PROVE  LiveInv'
<1> DEFINE w == working[s]
           r == DropRange(w, config[s])
           rest == SubSeq(w, 1, r[1] - 1) \o SubSeq(w, r[2] + 1, Len(w))
<1>1. w \in Seq(Sound(Len(messages[s]), store'))
  BY DEF LiveInv, Drop
<1>2. rest \in Seq(Sound(Len(messages[s]), store'))
  BY <1>1, DropFacts DEF Drop
<1>3. working' = [working EXCEPT ![s] = rest]
  BY DEF Drop
<1> HIDE DEF rest, w, r
<1>4. /\ working'[s] = rest /\ pc'[s] # "gc"
      /\ \A t \in Sessions \ {s} : working'[t] = working[t] /\ pc'[t] = pc[t]
      /\ UNCHANGED <<messages, gc>> /\ store \subseteq store' /\ pc[s] # "gc"
  BY <1>3 DEF Drop, TypeInv, TypeOK
<1>5. QED
  BY <1>2, <1>4, LiveWorking

\* The end of the loop of step 4.
LEMMA LiveEndDrop ==
  ASSUME TypeInv, LiveInv, NEW s \in Sessions, EndDrop(s)
  PROVE  LiveInv'
<1>1. working[s] \in Seq(Sound(Len(messages[s]), store'))
  BY DEF LiveInv, EndDrop
<1>2. /\ working' = working /\ pc'[s] # "gc"
      /\ \A t \in Sessions \ {s} : pc'[t] = pc[t]
      /\ UNCHANGED <<messages, gc>> /\ store \subseteq store' /\ pc[s] # "gc"
  BY DEF EndDrop, flight, TypeInv, TypeOK
<1>3. QED
  BY <1>1, <1>2, LiveWorking

\* A compaction that ends without a result leaves the messages alone.
LEMMA LiveReturn ==
  ASSUME TypeInv, LiveInv, NEW s \in Sessions, Return(s),
         pc[s] # "gc" \/ KeepsOriginals,
         UNCHANGED messages, store \subseteq store'
  PROVE  LiveInv'
<1>1. <<>> \in Seq(Sound(Len(messages[s]), store'))
  BY EmptySeq
<1>2. /\ working'[s] = <<>> /\ pc'[s] # "gc"
      /\ \A t \in Sessions \ {s} : working'[t] = working[t] /\ pc'[t] = pc[t]
      /\ \A t \in Sessions : gc'[t] \subseteq gc[t]
  BY DEF Return, TypeInv, TypeOK
<1>3. QED
  BY <1>1, <1>2, LiveWorking

\* The result refers to no id that is going to be deleted.
LEMMA LiveBuild ==
  ASSUME TypeInv, LiveInv, NEW s \in Sessions, BuildAndRetain(s)
  PROVE  LiveInv'
<1> DEFINE new   == delta'[s]
           final == Finalized(Untag(working[s]), new)
           left  == Sub(final, DOMAIN final \ Evictable(final, config[s]))
           n     == Len(messages[s])
<1>1. working[s] \in Seq(Sound(n, store)) /\ n \in Nat
  BY TypeFacts DEF LiveInv
<1>2. final \in Seq(Sound(n, store))
  BY <1>1, FinalizedFacts
<1> HIDE DEF final
<1>3. /\ left \in Seq(Sound(n, store))
      /\ Collectable(final, config[s]) \cap ReferencedIds(left) = {}
  BY <1>1, <1>2, RetentionFacts
<1>4. /\ working' = [working EXCEPT ![s] = left]
      /\ gc' = [gc EXCEPT ![s] = Collectable(final, config[s])]
  BY DEF BuildAndRetain, final
<1> HIDE DEF left, n
<1>5. /\ working'[s] = left /\ gc'[s] = Collectable(final, config[s])
      /\ \A t \in Sessions \ {s} :
           working'[t] = working[t] /\ pc'[t] = pc[t] /\ gc'[t] = gc[t]
      /\ pc'[s] = "gc" /\ pc[s] # "gc" /\ UNCHANGED <<messages, store>>
  BY <1>4 DEF BuildAndRetain, TypeInv, TypeOK
<1>6. KeepsOriginals => gc'[s] = {}
  <2>1. config[s] \in Configs
    BY DEF TypeInv, TypeOK
  <2>2. QED
    BY <1>5, <2>1 DEF KeepsOriginals, Collectable
<1>7. QED
  BY <1>3, <1>5, <1>6 DEF LiveInv, n

\* A delete spares what the result refers to, and there is no other session.
LEMMA LiveDelete ==
  ASSUME TypeInv, LiveInv, OneSession \/ KeepsOriginals,
         NEW s \in Sessions, NEW id \in gc[s], Delete(s, id)
  PROVE  LiveInv'
<1>1. ~KeepsOriginals /\ OneSession
  BY DEF LiveInv
<1>2. \A t \in Sessions : t = s
  BY <1>1 DEF OneSession
<1>3. working[s] \in Seq(Sound(Len(messages[s]), store'))
  <2> DEFINE n == Len(messages[s])
             K == {m \in Sound(n, store) : id \notin Refs(m)}
  <2>1. working[s] \in Seq(Sound(n, store))
    BY DEF LiveInv
  <2>2. id \notin ReferencedIds(working[s])
    BY DEF LiveInv, Delete
  <2>3. DOMAIN working[s] = 1 .. Len(working[s]) /\ Len(working[s]) \in Nat
        /\ working[s] = [i \in 1 .. Len(working[s]) |-> working[s][i]]
    BY <2>1, LenProperties
  <2>4. \A i \in 1 .. Len(working[s]) : working[s][i] \in K
    <3>1. \A i \in 1 .. Len(working[s]) : working[s][i] \in Sound(n, store)
      BY <2>1, ElementOfSeq
    <3>2. \A i \in 1 .. Len(working[s]) : id \notin Refs(working[s][i])
      BY <2>2, <2>3 DEF ReferencedIds
    <3>3. QED
      BY <3>1, <3>2
  <2>5. K \subseteq Sound(n, store')
    BY DEF Sound, Delete
  <2> HIDE DEF K
  <2>6. working[s] \in [1 .. Len(working[s]) -> K]
    BY <2>3, <2>4
  <2>7. working[s] \in Seq(K)
    BY <2>3, <2>6, FcnIsSeq
  <2>8. QED
    BY <2>5, <2>7, SeqMonotonic
<1>4. pc'[s] = "gc" /\ gc'[s] \subseteq gc[s] /\ UNCHANGED <<messages, working>>
  BY DEF Delete, TypeInv, TypeOK
<1>5. gc'[s] \cap ReferencedIds(working[s]) = {}
  BY <1>4 DEF LiveInv, Delete
<1>6. QED
  BY <1>1, <1>2, <1>3, <1>4, <1>5 DEF LiveInv

\* The result becomes the messages.
LEMMA LiveCommit ==
  ASSUME TypeInv, LiveInv, NEW s \in Sessions, Commit(s)
  PROVE  LiveInv'
<1>1. ReferencedIds(working[s]) \subseteq store
  <2>1. working[s] \in Seq(Sound(Len(messages[s]), store))
        /\ Len(messages[s]) \in Nat
    BY TypeFacts DEF LiveInv
  <2>2. QED
    BY <2>1, SoundFacts
<1>2. /\ messages'[s] = working[s] /\ working'[s] = <<>>
      /\ pc'[s] = "idle" /\ gc'[s] = {} /\ UNCHANGED store
      /\ \A t \in Sessions \ {s} :
           /\ messages'[t] = messages[t] /\ working'[t] = working[t]
           /\ pc'[t] = pc[t] /\ gc'[t] = gc[t]
  BY DEF Commit, Return, TypeInv, TypeOK
<1>3. working'[s] \in Seq(Sound(Len(messages'[s]), store))
  BY <1>2, EmptySeq
<1>4. QED
  BY <1>1, <1>2, <1>3 DEF LiveInv

\* Every step preserves the invariant.
LEMMA LiveNext ==
  ASSUME OneSession \/ KeepsOriginals
  PROVE  TypeInv /\ LiveInv /\ [Next]_vars => LiveInv'
<1> SUFFICES ASSUME TypeInv, LiveInv, [Next]_vars PROVE LiveInv'
  OBVIOUS
<1>1. CASE UNCHANGED vars
  BY <1>1 DEF vars, flight, LiveInv
<1>2. CASE Next
  <2>1. PICK s \in Sessions :
          \/ \E batch \in Batches : Extend(s, batch)
          \/ StartCompact(s) \/ Compacting(s) \/ Cancel(s)
    BY <1>2 DEF Next
  <2>2. CASE \E batch \in Batches : Extend(s, batch)
    BY <2>2, LiveExtend
  <2>3. CASE StartCompact(s)
    BY <2>3, LiveStart
  <2>4. CASE Cancel(s)
    <3>1. pc[s] # "gc" \/ KeepsOriginals
      BY <2>4 DEF Cancel, OneSession
    <3>2. Return(s) /\ UNCHANGED messages /\ store \subseteq store'
      BY <2>4 DEF Cancel
    <3>3. QED
      BY <3>1, <3>2, LiveReturn
  <2>5. CASE Compacting(s)
    <3>1. CASE Rules(s)
      BY <3>1, LiveRules
    <3>2. CASE Middle(s)
      <4>1. working[s] \in Seq(Message) /\ Len(working[s]) \in Nat
        BY TypeFacts, LenProperties
      <4>2. QED
        BY <3>2, <4>1, LiveCompress DEF Middle
    <3>3. CASE Summarize(s)
      BY <3>3, CascadeAssumption, LiveCompress DEF Summarize
    <3>4. CASE Drop(s)
      BY <3>4, LiveDrop
    <3>5. CASE EndDrop(s)
      BY <3>5, LiveEndDrop
    <3>6. CASE GiveUp(s)
      <4>1. Return(s) /\ UNCHANGED <<messages, store>> /\ pc[s] # "gc"
        BY <3>6 DEF GiveUp
      <4>2. QED
        BY <4>1, LiveReturn
    <3>7. CASE BuildAndRetain(s)
      BY <3>7, LiveBuild
    <3>8. CASE Commit(s)
      BY <3>8, LiveCommit
    <3>9. CASE \E id \in gc[s] : Delete(s, id)
      BY <3>9, LiveDelete
    <3>10. QED
      BY <2>5, <3>1, <3>2, <3>3, <3>4, <3>5, <3>6, <3>7, <3>8, <3>9
         DEF Compacting
  <2>6. QED
    BY <2>1, <2>2, <2>3, <2>4, <2>5
<1>3. QED
  BY <1>1, <1>2

\* Whatever the prompt of a session refers to, in a marker or in metadata, can
\* be retrieved: through failing saves, cancelled cascades, retention that
\* deletes originals, for one session; and for sessions that share a store
\* when none of them deletes (ContextSession::compact, apply_retention).
THEOREM LiveRefsCorrect ==
  ASSUME OneSession \/ KeepsOriginals
  PROVE  Spec => []LiveRefsStored
<1>1. Init => TypeInv /\ LiveInv
  BY TypeInit, LiveInit
<1>2. TypeInv /\ LiveInv /\ [Next]_vars => (TypeInv /\ LiveInv)'
  BY TypeNext, LiveNext
<1>3. TypeInv /\ LiveInv => LiveRefsStored
  <2> SUFFICES ASSUME TypeInv, LiveInv, NEW s \in Sessions
               PROVE  ReferencedIds(IF pc[s] = "gc" THEN working[s]
                                    ELSE messages[s]) \subseteq store
    BY DEF LiveRefsStored
  <2>1. working[s] \in Seq(Sound(Len(messages[s]), store))
        /\ Len(messages[s]) \in Nat
    BY TypeFacts DEF LiveInv
  <2>2. QED
    BY <2>1, SoundFacts DEF LiveInv
<1>4. QED
  BY <1>1, <1>2, <1>3, PTL DEF Spec
-----------------------------------------------------------------------------
(* What step 4 drops *)

\* What may be dropped now is no system instruction, no tool error and not the
\* latest user query of the list that the cascade started from.
Free(ms, m) ==
  m.idx # 0 =>
    /\ m.idx \in DOMAIN ms
    /\ Classify(ms[m.idx]) \notin {"SystemInstruction", "ToolResultError"}
    /\ ~IsLatestUser(ms, m.idx)

\* What step 4 may drop was free in the prompt.
LEMMA DropFree ==
  ASSUME NEW ms \in Seq(Message), NEW w \in Seq(Message), Traced(ms, w),
         NEW cfg, NEW j \in DOMAIN w, MemberDroppable(w, cfg, j)
  PROVE  Free(ms, w[j])
<1> SUFFICES ASSUME w[j].idx # 0 PROVE Free(ms, w[j])
  BY DEF Free
<1> DEFINE i == w[j].idx
<1>1. /\ DOMAIN w = 1 .. Len(w) /\ Len(w) \in Nat
      /\ DOMAIN ms = 1 .. Len(ms) /\ Len(ms) \in Nat
  BY LenProperties
<1>2. \A k \in DOMAIN w : w[k].idx # 0 =>
        /\ w[k].idx \in DOMAIN ms
        /\ Classify(w[k]) = Classify(ms[w[k].idx])
  BY DEF Traced, Comes, Classify
<1>3. i \in DOMAIN ms /\ Classify(ms[i]) = Classify(w[j])
  BY <1>2
<1>4. ASSUME IsLatestUser(ms, i) PROVE IsLatestUser(w, j)
  <2>1. Classify(w[j]) = "UserQuery"
    BY <1>3, <1>4 DEF IsLatestUser
  <2>2. ASSUME NEW k \in j + 1 .. Len(w) PROVE Classify(w[k]) # "UserQuery"
    <3>1. k \in DOMAIN w /\ j < k
      BY <1>1
    <3>2. CASE w[k].idx = 0
      BY <3>1, <3>2 DEF Traced, Comes, Classify
    <3>3. CASE w[k].idx # 0
      <4>1. w[k].idx \in DOMAIN ms /\ i < w[k].idx
        BY <1>2, <3>1, <3>3 DEF Traced, Ordered
      <4>2. w[k].idx \in i + 1 .. Len(ms)
        BY <1>1, <1>3, <4>1
      <4>3. Classify(ms[w[k].idx]) # "UserQuery"
        BY <1>4, <4>2 DEF IsLatestUser
      <4>4. QED
        BY <1>2, <3>1, <3>3, <4>3
    <3>4. QED
      BY <3>2, <3>3
  <2>3. QED
    BY <2>1, <2>2 DEF IsLatestUser
<1>5. QED
  BY <1>3, <1>4 DEF MemberDroppable, Free

\* A turn of the loop of step 4 keeps the list traced, and what it drops may
\* go.
LEMMA DropTraced ==
  ASSUME NEW ms \in Seq(Message), NEW w \in Seq(Message), Traced(ms, w),
         NEW cfg, CanDrop(w, cfg)
  PROVE  LET r == DropRange(w, cfg)
             gone == SubSeq(w, r[1], r[2])
         IN  /\ Traced(ms, SubSeq(w, 1, r[1] - 1) \o SubSeq(w, r[2] + 1, Len(w)))
             /\ gone \in Seq(Message)
             /\ \A j \in DOMAIN gone : Free(ms, gone[j])
<1> DEFINE a == DropRange(w, cfg)[1]
           b == DropRange(w, cfg)[2]
           gone == SubSeq(w, a, b)
<1>1. Len(w) \in Nat /\ DOMAIN w = 1 .. Len(w)
  BY LenProperties
<1>2. /\ a \in 1 .. Len(w) /\ b \in a .. Len(w)
      /\ \A i \in a .. b : MemberDroppable(w, cfg, i)
  BY DropRangeFacts
<1> HIDE DEF a, b
<1>3. a \in Nat \ {0} /\ b \in Nat /\ a <= b + 1 /\ b <= Len(w)
  BY <1>1, <1>2
<1>4. Traced(ms, Without(w, a, b))
  BY MessagesListed, <1>2, <1>3, CutTraced DEF MemberDroppable
<1>5. gone \in Seq(Message) /\ Len(gone) = b + 1 - a
      /\ \A i \in 1 .. b + 1 - a : gone[i] = w[a + i - 1]
  BY <1>3, PieceFacts
<1> HIDE DEF gone
<1>6. ASSUME NEW j \in DOMAIN gone PROVE Free(ms, gone[j])
  <2>1. j \in 1 .. b + 1 - a
    BY <1>5, LenProperties
  <2>2. a + j - 1 \in a .. b /\ a + j - 1 \in DOMAIN w
    BY <1>1, <1>3, <2>1
  <2>3. gone[j] = w[a + j - 1]
    BY <1>5, <2>1
  <2>4. QED
    BY <1>2, <2>2, <2>3, DropFree
<1>7. QED
  BY <1>4, <1>5, <1>6 DEF Without, a, b, gone

\* The copy that a compaction starts from.
LEMMA StartTraced ==
  ASSUME NEW ms \in Seq(Message)
  PROVE  Traced(ms, Tagged(Pinned(ms)))
<1> DEFINE p(i) == [ms[i] EXCEPT !.pinned = @ \/ ms[i].fin]
           t(i) == [p(i) EXCEPT !.idx = i]
           w == Tagged(Pinned(ms))
<1>1. /\ DOMAIN ms = 1 .. Len(ms) /\ Len(ms) \in Nat
      /\ \A i \in DOMAIN ms : ms[i] \in Message
  BY LenProperties, ElementOfSeq
<1>2. DOMAIN w = DOMAIN ms /\ \A i \in DOMAIN ms : w[i] = t(i)
  BY DEF Pinned, Tagged
<1>3. ASSUME NEW i \in DOMAIN ms
      PROVE  /\ t(i).idx = i /\ t(i).role = ms[i].role /\ t(i).err = ms[i].err
             /\ t(i).fin = ms[i].fin /\ t(i).text = ms[i].text
             /\ t(i).pinned = (ms[i].pinned \/ ms[i].fin)
             /\ t(i).ccr = ms[i].ccr
  BY <1>1 DEF Message
<1> HIDE DEF t, w
<1>4. \A i \in DOMAIN ms : i # 0
  BY <1>1
<1>5. \A j \in DOMAIN w : Comes(ms, w[j])
  BY <1>2, <1>3, <1>4 DEF Comes
<1>6. Ordered(w)
  BY <1>2, <1>3 DEF Ordered
<1>7. PinnedThere(ms, w)
  BY <1>2, <1>3 DEF PinnedThere
<1>8. QED
  BY <1>5, <1>6, <1>7 DEF Traced, w
-----------------------------------------------------------------------------
(* The invariant.  It is about one session at a time. *)

\* The session t is not touched.
Same(t) ==
  /\ config'[t] = config[t] /\ messages'[t] = messages[t]
  /\ folds'[t] = folds[t] /\ recall'[t] = recall[t] /\ pc'[t] = pc[t]
  /\ working'[t] = working[t] /\ dropped'[t] = dropped[t]
  /\ delta'[t] = delta[t] /\ gc'[t] = gc[t] /\ evicted'[t] = evicted[t]

Step(s) ==
  \/ \E batch \in Batches : Extend(s, batch)
  \/ StartCompact(s)
  \/ Compacting(s)
  \/ Cancel(s)

\* A step of one session touches no other.
LEMMA OthersSame ==
  ASSUME TypeInv, NEW s \in Sessions, Step(s), NEW t \in Sessions, t # s
  PROVE  Same(t)
<1> USE DEF Same, TypeInv, TypeOK
<1>1. CASE \E batch \in Batches : Extend(s, batch)
  BY <1>1 DEF Extend, flight
<1>2. CASE StartCompact(s)
  BY <1>2 DEF StartCompact
<1>3. CASE Cancel(s)
  BY <1>3 DEF Cancel, Return
<1>4. CASE Rules(s)
  BY <1>4 DEF Rules, EndStage
<1>5. CASE Middle(s)
  BY <1>5 DEF Middle, Compress, EndStage
<1>6. CASE Summarize(s)
  BY <1>6 DEF Summarize, Compress, EndStage
<1>7. CASE Drop(s)
  BY <1>7 DEF Drop
<1>8. CASE EndDrop(s)
  BY <1>8 DEF EndDrop, flight
<1>9. CASE GiveUp(s)
  BY <1>9 DEF GiveUp, Return
<1>10. CASE BuildAndRetain(s)
  BY <1>10 DEF BuildAndRetain
<1>11. CASE Commit(s)
  BY <1>11 DEF Commit, Return
<1>12. CASE \E id \in gc[s] : Delete(s, id)
  BY <1>12 DEF Delete
<1>13. QED
  BY <1>1, <1>2, <1>3, <1>4, <1>5, <1>6, <1>7, <1>8, <1>9, <1>10, <1>11, <1>12
     DEF Step, Compacting

\* What is pinned cannot be said of the working copy alone: the copy has to be
\* traced to the messages, in their order, for the latest user query of the one
\* to be that of the other.
TraceOf(s) ==
  /\ Cascading(s) => Traced(messages[s], working[s])
  /\ pc[s] = "idle" => dropped[s] = <<>>
  /\ \A j \in DOMAIN dropped[s] : Free(messages[s], dropped[s][j])

TraceInv == \A s \in Sessions : TraceOf(s)

\* A stage replaces the working copy, and nothing else TraceOf is about.
LEMMA TraceStage ==
  ASSUME TypeInv, TraceInv, NEW s \in Sessions, NEW phase, NEW next, NEW w,
         NEW saves, NEW failed, EndStage(s, phase, next, w, saves, failed),
         next # "idle", Traced(messages[s], w)
  PROVE  TraceOf(s)'
<1>1. /\ working'[s] = w /\ messages'[s] = messages[s] /\ pc'[s] # "idle"
      /\ dropped'[s] = dropped[s]
  BY DEF EndStage, TypeInv, TypeOK
<1>2. QED
  BY <1>1 DEF TraceInv, TraceOf

\* Steps 2 and 3.
LEMMA TraceCompress ==
  ASSUME TypeInv, TraceInv, NEW s \in Sessions,
         NEW phase \in {"middle", "summarize"}, NEW next, next # "idle",
         NEW middle \in Nat, NEW summarize \in BOOLEAN,
         Compress(s, phase, next, middle, summarize)
  PROVE  TraceOf(s)'
<1> DEFINE p == PreserveRecent(working[s], config[s])
           o == AfterOldBand(working[s], p, middle, summarize)
<1>1. PICK F \in Faults(s, PipedBand(o, p)) :
        EndStage(s, phase, next, PipeBand(o, config[s], p, F),
                 PipeSaves(o, config[s], p, F), F)
  BY DEF Compress
<1>2. /\ working[s] \in Seq(Sound(Len(messages[s]), Text))
      /\ working[s] \in Seq(Message) /\ messages[s] \in Seq(Message)
      /\ config[s] \in Config /\ Len(messages[s]) \in Nat
  BY TypeFacts
<1>3. p \in Nat
  BY <1>2, PreserveRecentType
<1>4. Traced(messages[s], working[s])
  BY <1>1 DEF EndStage, TraceInv, TraceOf, Cascading
<1> HIDE DEF p
<1>5. o \in Seq(Message)
  BY <1>2, <1>3, OldBandFacts, SoundFacts
<1>6. Traced(messages[s], o)
  BY MessagesListed, <1>2, <1>3, <1>4, OldBandTraced
<1> HIDE DEF o
<1>7. Traced(messages[s], PipeBand(o, config[s], p, F))
  BY MessagesListed, <1>5, <1>6, PipeTraced
<1>8. QED
  BY <1>1, <1>7, TraceStage DEF o, p

\* Step 1.
LEMMA TraceRules ==
  ASSUME TypeInv, TraceInv, NEW s \in Sessions, Rules(s)
  PROVE  TraceOf(s)'
<1>1. PICK F \in Faults(s, ClearSet(working[s], config[s])) :
        EndStage(s, "rules", "middle", AgentRules(working[s], config[s], F),
                 AgentSaves(working[s], config[s], F), F)
  BY DEF Rules
<1>2. working[s] \in Seq(Message) /\ Traced(messages[s], working[s])
  BY <1>1, TypeFacts DEF EndStage, TraceInv, TraceOf, Cascading
<1>3. Traced(messages[s], AgentRules(working[s], config[s], F))
  BY MessagesListed, <1>2, RulesTraced
<1>4. QED
  BY <1>1, <1>3, TraceStage

\* Step 4: what is dropped joins what was.
LEMMA TraceDrop ==
  ASSUME TypeInv, TraceInv, NEW s \in Sessions, Drop(s)
  PROVE  TraceOf(s)'
<1> DEFINE w == working[s]
           r == DropRange(w, config[s])
           rest == SubSeq(w, 1, r[1] - 1) \o SubSeq(w, r[2] + 1, Len(w))
           gone == SubSeq(w, r[1], r[2])
           old  == dropped[s]
<1>1. w \in Seq(Message) /\ messages[s] \in Seq(Message) /\ Traced(messages[s], w)
  BY TypeFacts DEF Drop, TraceInv, TraceOf, Cascading
<1>2. /\ Traced(messages[s], rest) /\ gone \in Seq(Message)
      /\ \A j \in DOMAIN gone : Free(messages[s], gone[j])
  BY <1>1, DropTraced DEF Drop
<1>3. /\ working'[s] = rest /\ dropped'[s] = old \o gone
      /\ messages'[s] = messages[s] /\ pc'[s] = "drop"
  BY DEF Drop, TypeInv, TypeOK
<1>4. old \in Seq(Message) /\ \A j \in DOMAIN old : Free(messages[s], old[j])
  BY DEF TypeInv, TypeOK, TraceInv, TraceOf
<1> HIDE DEF rest, gone, w, r, old
<1>5. \A j \in DOMAIN (old \o gone) : Free(messages[s], (old \o gone)[j])
  <2>1. /\ old \o gone \in Seq(Message)
        /\ Len(old \o gone) = Len(old) + Len(gone)
        /\ \A j \in 1 .. Len(old) + Len(gone) : (old \o gone)[j] =
             IF j <= Len(old) THEN old[j] ELSE gone[j - Len(old)]
    BY <1>2, <1>4, ConcatProperties
  <2>2. SUFFICES ASSUME NEW j \in 1 .. Len(old) + Len(gone)
                 PROVE  Free(messages[s], (old \o gone)[j])
    BY <2>1, LenProperties
  <2>3. /\ DOMAIN old = 1 .. Len(old) /\ Len(old) \in Nat
        /\ DOMAIN gone = 1 .. Len(gone) /\ Len(gone) \in Nat
    BY <1>2, <1>4, LenProperties
  <2>4. j <= Len(old) => j \in DOMAIN old
    BY <2>3
  <2>5. ~(j <= Len(old)) => j - Len(old) \in DOMAIN gone
    BY <2>3
  <2>6. QED
    BY <1>2, <1>4, <2>1, <2>4, <2>5
<1>6. QED
  BY <1>2, <1>3, <1>5 DEF TraceOf

\* The other steps leave the copy alone, or end the cascade.
LEMMA TraceOther ==
  ASSUME TypeInv, TraceInv, NEW s \in Sessions,
         \/ \E batch \in Batches : Extend(s, batch)
         \/ StartCompact(s) \/ EndDrop(s) \/ GiveUp(s) \/ BuildAndRetain(s)
         \/ Commit(s) \/ Cancel(s)
         \/ \E id \in gc[s] : Delete(s, id)
  PROVE  TraceOf(s)'
<1> USE DEF TypeInv, TypeOK
<1>1. CASE \E batch \in Batches : Extend(s, batch)
  <2>1. dropped'[s] = <<>> /\ pc'[s] = "idle"
    BY <1>1 DEF Extend, flight, TraceInv, TraceOf
  <2>2. QED
    BY <2>1 DEF TraceOf, Cascading
<1>2. CASE StartCompact(s)
  <2>1. Traced(messages[s], Tagged(Pinned(messages[s])))
    BY StartTraced, TypeFacts
  <2>2. /\ working'[s] = Tagged(Pinned(messages[s])) /\ messages'[s] = messages[s]
        /\ pc'[s] # "idle" /\ dropped'[s] = <<>>
    BY <1>2 DEF StartCompact, TraceInv, TraceOf
  <2>3. QED
    BY <2>1, <2>2 DEF TraceOf
<1>3. CASE EndDrop(s)
  BY <1>3 DEF EndDrop, flight, TraceInv, TraceOf, Cascading
<1>4. CASE GiveUp(s) \/ Commit(s) \/ Cancel(s)
  <2>1. dropped'[s] = <<>> /\ pc'[s] = "idle"
    BY <1>4 DEF GiveUp, Commit, Cancel, Return
  <2>2. QED
    BY <2>1 DEF TraceOf, Cascading
<1>5. CASE BuildAndRetain(s)
  BY <1>5 DEF BuildAndRetain, TraceInv, TraceOf, Cascading
<1>6. CASE \E id \in gc[s] : Delete(s, id)
  BY <1>6 DEF Delete, TraceInv, TraceOf, Cascading
<1>7. QED
  BY <1>1, <1>2, <1>3, <1>4, <1>5, <1>6

\* Initially there is nothing to trace.
LEMMA TraceInit == Init => TraceInv
  BY DEF Init, TraceInv, TraceOf, Cascading

\* Every step preserves the invariant.
LEMMA TraceNext == TypeInv /\ TraceInv /\ [Next]_vars => TraceInv'
<1> SUFFICES ASSUME TypeInv, TraceInv, [Next]_vars PROVE TraceInv'
  OBVIOUS
<1>1. CASE UNCHANGED vars
  BY <1>1 DEF vars, flight, TraceInv, TraceOf, Cascading
<1>2. ASSUME NEW s \in Sessions, Step(s) PROVE TraceInv'
  <2>1. TraceOf(s)'
    <3>1. CASE Rules(s)
      BY <3>1, TraceRules
    <3>2. CASE Middle(s)
      <4>1. Len(working[s]) \in Nat
        BY TypeFacts, LenProperties
      <4>2. QED
        BY <3>2, <4>1, TraceCompress DEF Middle
    <3>3. CASE Summarize(s)
      BY <3>3, CascadeAssumption, TraceCompress DEF Summarize
    <3>4. CASE Drop(s)
      BY <3>4, TraceDrop
    <3>5. QED
      BY <1>2, <3>1, <3>2, <3>3, <3>4, TraceOther DEF Step, Compacting
  <2>2. ASSUME NEW t \in Sessions, t # s PROVE TraceOf(t)'
    <3>1. Same(t)
      BY <1>2, <2>2, OthersSame
    <3>2. QED
      BY <3>1 DEF Same, TraceInv, TraceOf, Cascading
  <2>3. QED
    BY <2>1, <2>2 DEF TraceInv
<1>3. QED
  BY <1>1, <1>2 DEF Next, Step

\* A message the host pinned, or an earlier compaction finalized, goes through
\* every step of the cascade untouched (agent.rs, conversation.rs, budget.rs:
\* each of them checks meta_keys::PINNED for itself).
THEOREM PinnedKept == Spec => []PinnedVerbatim
<1>1. Init => TypeInv /\ TraceInv
  BY TypeInit, TraceInit
<1>2. TypeInv /\ TraceInv /\ [Next]_vars => (TypeInv /\ TraceInv)'
  BY TypeNext, TraceNext
<1>3. TypeInv /\ TraceInv => PinnedVerbatim
  <2> SUFFICES ASSUME TypeInv, TraceInv, NEW s \in Sessions, Cascading(s),
                      NEW i \in DOMAIN messages[s],
                      messages[s][i].pinned \/ messages[s][i].fin
               PROVE  Verbatim(s, i)
    BY DEF PinnedVerbatim
  <2>1. Traced(messages[s], working[s]) /\ i # 0
    BY TypeFacts, LenProperties DEF TraceInv, TraceOf
  <2>2. PICK j \in DOMAIN working[s] : working[s][j].idx = i
    BY <2>1 DEF Traced, PinnedThere
  <2>3. QED
    BY <2>1, <2>2 DEF Traced, Comes, Verbatim
<1>4. QED
  BY <1>1, <1>2, <1>3, PTL DEF Spec

\* Step 4 drops no system instruction, no tool error and not the latest user
\* query: those of the list the cascade started from, whatever the earlier
\* steps made of it (enforce_budget, member_droppable).
THEOREM DropsFree == Spec => []DropSparesProtected
<1>1. Init => TypeInv /\ TraceInv
  BY TypeInit, TraceInit
<1>2. TypeInv /\ TraceInv /\ [Next]_vars => (TypeInv /\ TraceInv)'
  BY TypeNext, TraceNext
<1>3. TypeInv /\ TraceInv => DropSparesProtected
  BY DEF TraceInv, TraceOf, Free, DropSparesProtected
<1>4. QED
  BY <1>1, <1>2, <1>3, PTL DEF Spec
-----------------------------------------------------------------------------
(* Tool calls and their results.  Positions i - 1 and i are linked when i    *)
(* continues the results of a call: of two that are linked, both are in the  *)
(* list or neither is.  This is only so while nothing is pinned.             *)

Stands(w, i) == \E j \in DOMAIN w : w[j].idx = i

\* Summaries stand before everything else.
InFront(w) == \A j, k \in DOMAIN w : j < k /\ w[k].idx = 0 => w[j].idx = 0

Linked(ms, w) ==
  \A h, i \in DOMAIN ms :
    FollowsCall(ms, h, i) => (Stands(w, i - 1) <=> Stands(w, i))

Unpinned(ms) == \A i \in DOMAIN ms : ~(ms[i].pinned \/ ms[i].fin)

\* Neighbours that are both there are neighbours.
LEMMA NextTo ==
  ASSUME NEW ms, NEW w \in Seq(Message), Traced(ms, w), InFront(w),
         NEW j \in DOMAIN w, NEW k \in DOMAIN w,
         w[k].idx = w[j].idx + 1, w[j].idx # 0
  PROVE  k = j + 1
<1>1. DOMAIN w = 1 .. Len(w) /\ Len(w) \in Nat /\ \A i \in DOMAIN w : w[i] \in Message
  BY LenProperties, ElementOfSeq
<1>2. \A i \in DOMAIN w : w[i].idx \in Nat
  BY <1>1 DEF Message
<1>3. w[k].idx # 0 /\ w[j].idx \in Nat
  BY <1>2
<1>4. j < k
  <2>1. j # k
    BY <1>3
  <2>2. k < j => w[k].idx < w[j].idx
    BY <1>3 DEF Traced, Ordered
  <2>3. ~(w[k].idx < w[j].idx)
    BY <1>3
  <2>4. QED
    BY <1>1, <2>1, <2>2, <2>3
<1>5. ASSUME j + 1 # k PROVE FALSE
  <2>1. PICK i \in DOMAIN w : i = j + 1 /\ j < i /\ i < k
    <3>1. j + 1 \in DOMAIN w /\ j < j + 1 /\ j + 1 < k
      BY <1>1, <1>4, <1>5
    <3>2. QED
      BY <3>1
  <2>2. w[i].idx # 0
    BY <2>1 DEF InFront
  <2>3. w[j].idx < w[i].idx /\ w[i].idx < w[k].idx
    BY <1>3, <2>1, <2>2 DEF Traced, Ordered
  <2>4. w[i].idx \in Nat
    BY <1>2
  <2>5. QED
    BY <1>3, <2>3, <2>4
<1>6. QED
  BY <1>5

\* The results of a call that are there follow the call.
LEMMA RunThere ==
  ASSUME NEW ms \in Seq(Message), NEW w \in Seq(Message), Traced(ms, w),
         InFront(w), Linked(ms, w), NEW h \in DOMAIN ms, NEW i \in DOMAIN ms,
         FollowsCall(ms, h, i), NEW j \in DOMAIN w, w[j].idx = i
  PROVE  /\ j - (i - h) \in DOMAIN w /\ w[j - (i - h)].idx = h
         /\ FollowsCall(w, j - (i - h), j)
<1> DEFINE G == {k \in Nat : k <= i - h => /\ j - k \in DOMAIN w
                                           /\ w[j - k].idx = i - k}
<1>1. /\ DOMAIN w = 1 .. Len(w) /\ Len(w) \in Nat
      /\ DOMAIN ms = 1 .. Len(ms) /\ Len(ms) \in Nat
  BY LenProperties
<1>2. /\ h < i /\ ms[h].role = "assistant"
      /\ \A k \in h + 1 .. i : ms[k].role = "tool"
  BY DEF FollowsCall
<1>3. 0 \in G
  <2>1. j - 0 = j /\ i - 0 = i
    BY <1>1
  <2>2. QED
    BY <2>1
<1>4. ASSUME NEW k \in G PROVE k + 1 \in G
  <2>1. SUFFICES ASSUME k + 1 <= i - h
                 PROVE  j - (k + 1) \in DOMAIN w /\ w[j - (k + 1)].idx = i - (k + 1)
    OBVIOUS
  <2>2. PICK e \in DOMAIN ms : e = i - k /\ h < e /\ e <= i /\ e - 1 = i - (k + 1)
    <3>1. /\ i - k \in DOMAIN ms /\ h < i - k /\ i - k <= i
          /\ (i - k) - 1 = i - (k + 1)
      <4>1. /\ h \in 1 .. Len(ms) /\ i \in 1 .. Len(ms) /\ k \in Nat
            /\ h \in Nat /\ i \in Nat
        BY <1>1
      <4> HIDE DEF G
      <4>2. i - k \in 1 .. Len(ms)
        BY <1>1, <1>2, <2>1, <4>1
      <4> SUFFICES /\ h < i - k /\ i - k <= i
                   /\ (i - k) - 1 = i - (k + 1)
        BY <1>1, <4>2
      <4>3. h \in Int /\ i \in Int /\ k \in Nat /\ k + 1 <= i - h
        BY <2>1, <4>1
      <4>4. QED
        BY <4>3, SMTT(30)
    <3>2. QED
      BY <3>1
  <2>3. j - k \in DOMAIN w /\ w[j - k].idx = e
    BY <1>1, <2>1, <2>2
  <2>4. FollowsCall(ms, h, e)
    <3>1. h + 1 .. e \subseteq h + 1 .. i
      BY <1>1, <2>2
    <3>2. QED
      BY <1>2, <2>2, <3>1 DEF FollowsCall
  <2>5. PICK l \in DOMAIN w : w[l].idx = e - 1
    BY <2>3, <2>4 DEF Linked, Stands
  <2>6. e - 1 # 0 /\ e = (e - 1) + 1
    BY <1>1, <2>2
  <2>7. j - k = l + 1
    BY <2>3, <2>5, <2>6, NextTo
  <2>8. j - (k + 1) = l
    BY <1>1, <2>3, <2>7
  <2>9. QED
    BY <2>2, <2>5, <2>8
<1>5. G \in SUBSET Nat
  OBVIOUS
<1>6. \A k \in Nat : k \in G
  <2> HIDE DEF G
  <2>1. QED
    BY <1>3, <1>4, <1>5, FromZero
<1>7. \A k \in 0 .. i - h : j - k \in DOMAIN w /\ w[j - k].idx = i - k
  <2>1. \A k \in 0 .. i - h : k \in Nat /\ k <= i - h
    BY <1>1
  <2> HIDE DEF G
  <2>2. \A k \in 0 .. i - h : k \in G
    BY <1>6, <2>1
  <2>3. QED
    BY <2>1, <2>2 DEF G
<1> HIDE DEF G
<1>8. \A x \in DOMAIN w : w[x].idx # 0 => w[x].role = ms[w[x].idx].role
  BY DEF Traced, Comes
<1> DEFINE p == j - (i - h)
<1>9. p \in DOMAIN w /\ w[p].idx = h /\ p < j
  <2>1. i - h \in 0 .. i - h /\ i - (i - h) = h
    BY <1>1, <1>2
  <2>2. p \in DOMAIN w /\ w[p].idx = h
    BY <1>7, <2>1
  <2>3. p < j
    BY <1>1, <1>2
  <2>4. QED
    BY <2>2, <2>3
<1>10. w[p].role = "assistant"
  BY <1>1, <1>2, <1>8, <1>9
<1>11. ASSUME NEW x \in p + 1 .. j PROVE w[x].role = "tool"
  <2>1. PICK k \in 0 .. i - h : k = j - x
    <3>1. j - x \in 0 .. i - h
      BY <1>1, <1>2
    <3>2. QED
      BY <3>1
  <2>2. j - k = x /\ i - k \in h + 1 .. i
    <3>1. h \in Nat /\ i \in Nat /\ j \in Nat /\ h < i
      BY <1>1, <1>2
    <3>2. j - k = x
      BY <2>1, <3>1
    <3>3. x > j - (i - h) /\ x <= j /\ x \in Int
      BY <3>1
    <3>4. k \in Int /\ 0 <= k /\ k = j - x
      BY <2>1, <3>1
    <3>5. k < i - h
      BY <3>1, <3>3, <3>4
    <3>6. i - k \in h + 1 .. i
      <4> HIDE DEF p, G
      <4>1. \A u, v, q \in Int : 0 <= q /\ q < v - u => v - q \in u + 1 .. v
        OBVIOUS
      <4>2. QED
        BY <3>1, <3>4, <3>5, <4>1
    <3>7. QED
      BY <3>2, <3>6
  <2>3. x \in DOMAIN w /\ w[x].idx = i - k
    BY <1>7, <2>2
  <2>4. w[x].idx # 0 /\ ms[i - k].role = "tool"
    BY <1>1, <1>2, <2>2, <2>3
  <2>5. QED
    BY <1>8, <2>3, <2>4
<1> HIDE DEF p
<1>12. FollowsCall(w, p, j)
  BY <1>9, <1>10, <1>11 DEF FollowsCall
<1>13. QED
  BY <1>9, <1>12 DEF p

\* A list in which all that is linked is linked leaves no group in part.
LEMMA GroupWhole ==
  ASSUME NEW ms \in Seq(Message), NEW w, Linked(ms, w),
         NEW h \in DOMAIN ms, NEW g \in Group(ms, h)
  PROVE  Stands(w, h) <=> Stands(w, g)
<1> DEFINE G == {k \in Nat : h + k <= g => (Stands(w, h) <=> Stands(w, h + k))}
<1>1. DOMAIN ms = 1 .. Len(ms) /\ Len(ms) \in Nat
  BY LenProperties
<1>2. CASE g = h
  BY <1>2
<1>3. CASE g # h
  <2>1. /\ FollowsCall(ms, h, g) /\ g \in DOMAIN ms /\ h < g
        /\ ms[h].role = "assistant" /\ \A k \in h + 1 .. g : ms[k].role = "tool"
    BY <1>3 DEF Group, FollowsCall
  <2>2. 0 \in G
    <3>1. h + 0 = h
      BY <1>1
    <3>2. QED
      BY <3>1
  <2>3. ASSUME NEW k \in G PROVE k + 1 \in G
    <3>1. SUFFICES ASSUME h + (k + 1) <= g
                   PROVE  Stands(w, h) <=> Stands(w, h + (k + 1))
      OBVIOUS
    <3>2. PICK i \in DOMAIN ms : i = h + (k + 1) /\ i - 1 = h + k /\ h < i /\ i <= g
      <4>1. h + (k + 1) \in DOMAIN ms /\ (h + (k + 1)) - 1 = h + k /\ h < h + (k + 1)
        BY <1>1, <2>1, <3>1
      <4>2. QED
        BY <3>1, <4>1
    <3>3. FollowsCall(ms, h, i)
      <4>1. h + 1 .. i \subseteq h + 1 .. g
        BY <1>1, <2>1, <3>2
      <4>2. QED
        BY <2>1, <3>2, <4>1 DEF FollowsCall
    <3>4. Stands(w, h + k) <=> Stands(w, i)
      BY <3>2, <3>3 DEF Linked
    <3>5. Stands(w, h) <=> Stands(w, h + k)
      <4>1. h + k <= g
        BY <1>1, <2>1, <3>1
      <4>2. QED
        BY <4>1
    <3>6. QED
      BY <3>2, <3>4, <3>5
  <2>4. G \in SUBSET Nat
    OBVIOUS
  <2>5. \A k \in Nat : k \in G
    <3> HIDE DEF G
    <3>1. QED
      BY <2>2, <2>3, <2>4, FromZero
  <2>6. g - h \in Nat /\ h + (g - h) = g /\ h + (g - h) <= g
    BY <1>1, <2>1
  <2>7. g - h \in G
    <3> HIDE DEF G
    <3>1. QED
      BY <2>5, <2>6
  <2>8. QED
    BY <2>6, <2>7
<1>4. QED
  BY <1>2, <1>3

\* Where an element of Without(w, a, b) stood.
Before(a, b, x) == IF x < a THEN x ELSE x + (b + 1 - a)

\* Where the elements of a cut list were.
LEMMA CutWhere ==
  ASSUME NEW S, NEW w \in Seq(S), NEW a \in Nat \ {0}, NEW b \in Nat,
         a <= b + 1, b <= Len(w)
  PROVE  LET rest == Without(w, a, b)
         IN  /\ \A x \in DOMAIN rest : /\ Before(a, b, x) \in DOMAIN w \ (a .. b)
                                       /\ rest[x] = w[Before(a, b, x)]
             /\ \A x, y \in DOMAIN rest : x < y => Before(a, b, x) < Before(a, b, y)
             /\ \A j \in DOMAIN w \ (a .. b) :
                  \E x \in DOMAIN rest : Before(a, b, x) = j
<1> DEFINE rest == Without(w, a, b)
           n    == Len(w)
           cut  == b + 1 - a
<1>1. /\ DOMAIN rest = 1 .. n - cut /\ DOMAIN w = 1 .. n
      /\ n \in Nat /\ cut \in Nat /\ b <= n
      /\ \A x \in 1 .. n - cut : rest[x] = IF x < a THEN w[x] ELSE w[x + cut]
  <2>1. /\ DOMAIN rest = 1 .. n - cut /\ DOMAIN w = 1 .. n
        /\ n \in Nat /\ cut \in Nat
        /\ \A x \in 1 .. n - cut : rest[x] = IF x < a THEN w[x] ELSE w[x + cut]
    <3>1. CutOf(rest, w, a, b)
      BY CutIs, Zenon
    <3> HIDE DEF rest
    <3>2. QED
      BY <3>1, Zenon DEF CutOf
  <2>2. QED
    BY <2>1
<1>2. cut = b + 1 - a
  OBVIOUS
<1>3. \A x : Before(a, b, x) = IF x < a THEN x ELSE x + cut
  BY DEF Before
<1> HIDE DEF rest, cut, n
<1>4. \A x \in 1 .. n - cut : Before(a, b, x) \in (1 .. n) \ (a .. b)
  BY <1>1, <1>2, <1>3
<1>5. \A x \in 1 .. n - cut : rest[x] = w[Before(a, b, x)]
  BY <1>1, <1>3
<1>6. \A x, y \in 1 .. n - cut : x < y => Before(a, b, x) < Before(a, b, y)
  BY <1>1, <1>3
<1>7. ASSUME NEW j \in (1 .. n) \ (a .. b)
      PROVE  \E x \in 1 .. n - cut : Before(a, b, x) = j
  <2>1. CASE j < a
    <3>1. j \in 1 .. n - cut
      BY <1>1, <1>2, <2>1
    <3>2. QED
      BY <1>3, <2>1, <3>1
  <2>2. CASE ~(j < a)
    <3>1. /\ j - cut \in 1 .. n - cut /\ ~(j - cut < a) /\ (j - cut) + cut = j
      BY <1>1, <1>2, <2>2
    <3>2. Before(a, b, j - cut) = j
      BY <1>3, <3>1
    <3>3. QED
      BY <3>1, <3>2
  <2>3. QED
    BY <2>1, <2>2
<1>8. QED
  BY <1>1, <1>4, <1>5, <1>6, <1>7 DEF rest

\* Of two linked messages the range a .. b of w holds both or neither.
Uncut(ms, w, a, b) ==
  \A h, i \in DOMAIN ms, j \in DOMAIN w :
    /\ FollowsCall(ms, h, i) /\ j + 1 \in DOMAIN w
    /\ w[j].idx = i - 1 /\ w[j + 1].idx = i
    => (j \in a .. b <=> j + 1 \in a .. b)

\* Taking such a range out keeps what is linked linked.
LEMMA CutLinked ==
  ASSUME NEW ms \in Seq(Message), NEW w \in Seq(Message), Traced(ms, w),
         InFront(w), Linked(ms, w), NEW a \in Nat \ {0}, NEW b \in Nat,
         a <= b + 1, b <= Len(w), Uncut(ms, w, a, b)
  PROVE  InFront(Without(w, a, b)) /\ Linked(ms, Without(w, a, b))
<1> DEFINE rest == Without(w, a, b)
           B(x) == Before(a, b, x)
<1>1. /\ \A x \in DOMAIN rest : B(x) \in DOMAIN w /\ B(x) \notin a .. b
                                /\ rest[x] = w[B(x)]
      /\ \A x, y \in DOMAIN rest : x < y => B(x) < B(y)
      /\ \A j \in DOMAIN w : j \notin a .. b => \E x \in DOMAIN rest : B(x) = j
  BY CutWhere
<1> HIDE DEF rest, B
<1>2. InFront(rest)
  BY <1>1 DEF InFront
<1>3. ASSUME NEW h \in DOMAIN ms, NEW i \in DOMAIN ms, FollowsCall(ms, h, i)
      PROVE  Stands(rest, i - 1) <=> Stands(rest, i)
  <2>1. i - 1 # 0 /\ i = (i - 1) + 1
    <3>1. DOMAIN ms = 1 .. Len(ms) /\ Len(ms) \in Nat /\ h < i
      BY <1>3, LenProperties DEF FollowsCall
    <3>2. QED
      BY <3>1
  <2>2. Stands(w, i - 1) <=> Stands(w, i)
    BY <1>3 DEF Linked
  <2>3. ASSUME NEW j \in DOMAIN w, NEW k \in DOMAIN w, w[j].idx = i - 1, w[k].idx = i
        PROVE  k = j + 1 /\ (j \in a .. b <=> k \in a .. b)
    <3>1. k = j + 1
      BY <2>1, <2>3, NextTo
    <3>2. QED
      BY <1>3, <2>3, <3>1 DEF Uncut
  <2>4. ASSUME NEW x \in DOMAIN rest, rest[x].idx = i - 1 PROVE Stands(rest, i)
    <3>1. B(x) \in DOMAIN w /\ B(x) \notin a .. b /\ w[B(x)].idx = i - 1
      BY <1>1, <2>4
    <3>2. PICK k \in DOMAIN w : w[k].idx = i
      BY <2>2, <3>1 DEF Stands
    <3>3. k \notin a .. b
      BY <2>3, <3>1, <3>2
    <3>4. QED
      BY <1>1, <3>2, <3>3 DEF Stands
  <2>5. ASSUME NEW x \in DOMAIN rest, rest[x].idx = i PROVE Stands(rest, i - 1)
    <3>1. B(x) \in DOMAIN w /\ B(x) \notin a .. b /\ w[B(x)].idx = i
      BY <1>1, <2>5
    <3>2. PICK j \in DOMAIN w : w[j].idx = i - 1
      BY <2>2, <3>1 DEF Stands
    <3>3. j \notin a .. b
      BY <2>3, <3>1, <3>2
    <3>4. QED
      BY <1>1, <3>2, <3>3 DEF Stands
  <2>6. QED
    BY <2>4, <2>5 DEF Stands
<1>4. QED
  BY <1>2, <1>3 DEF Linked, rest

\* Step 4 takes out a whole group of the list it works on.
LEMMA GroupUncut ==
  ASSUME NEW ms \in Seq(Message), NEW w \in Seq(Message), Traced(ms, w),
         InFront(w), Linked(ms, w), NEW a, NEW b, GroupRange(w, a, b)
  PROVE  Uncut(ms, w, a, b)
<1> SUFFICES ASSUME NEW h \in DOMAIN ms, NEW i \in DOMAIN ms, NEW j \in DOMAIN w,
                    FollowsCall(ms, h, i), j + 1 \in DOMAIN w,
                    w[j].idx = i - 1, w[j + 1].idx = i
             PROVE  j \in a .. b <=> j + 1 \in a .. b
  BY DEF Uncut
<1>1. /\ DOMAIN w = 1 .. Len(w) /\ Len(w) \in Nat
      /\ DOMAIN ms = 1 .. Len(ms) /\ Len(ms) \in Nat
  BY LenProperties
<1>2. PICK p \in DOMAIN w : FollowsCall(w, p, j + 1)
  <2>1. PICK k \in DOMAIN w : k = j + 1
    OBVIOUS
  <2>2. k - (i - h) \in DOMAIN w /\ FollowsCall(w, k - (i - h), k)
    BY <2>1, RunThere
  <2>3. QED
    BY <2>1, <2>2
<1>3. /\ a \in DOMAIN w /\ b \in a .. Len(w)
      /\ \A x \in DOMAIN w : ~FollowsCall(w, x, a)
      /\ a # b => FollowsCall(w, a, b)
      /\ \A x \in DOMAIN w : FollowsCall(w, a, x) => x <= b
  BY DEF GroupRange, Heads
<1>4. a \in Nat /\ b \in Nat /\ a <= b /\ j \in Nat /\ p \in Nat
  BY <1>1, <1>2, <1>3
<1>5. ~(p < a /\ a <= j + 1)
  <2>1. SUFFICES ASSUME p < a, a <= j + 1 PROVE FollowsCall(w, p, a)
    BY <1>2, <1>3
  <2>2. p + 1 .. a \subseteq p + 1 .. j + 1
    BY <1>4, <2>1
  <2>3. QED
    BY <1>2, <2>1, <2>2 DEF FollowsCall
<1>6. p < j + 1 /\ w[p].role = "assistant"
  BY <1>2 DEF FollowsCall
<1>7. ASSUME a < p, p <= b PROVE FALSE
  <2>1. FollowsCall(w, a, b) /\ p \in a + 1 .. b
    BY <1>3, <1>4, <1>7
  <2>2. w[p].role = "tool"
    BY <2>1 DEF FollowsCall
  <2>3. QED
    BY <1>6, <2>2
<1>8. ASSUME j \in a .. b, j + 1 \notin a .. b PROVE FALSE
  <2>1. j = b /\ a <= j + 1 /\ p <= b
    BY <1>4, <1>6, <1>8
  <2>2. p = a
    BY <1>4, <1>5, <1>7, <2>1
  <2>3. j + 1 <= b
    BY <1>2, <1>3, <2>2
  <2>4. QED
    BY <1>4, <2>1, <2>3
<1>9. ASSUME j \notin a .. b, j + 1 \in a .. b PROVE FALSE
  <2>1. j + 1 = a
    BY <1>4, <1>9
  <2>2. QED
    BY <1>4, <1>5, <1>6, <2>1
<1>10. QED
  BY <1>8, <1>9

\* When nothing is pinned the old band ends where it is aligned, before a message
\* that is no tool result (conversation.rs, align_band_start).
LEMMA BandAligned ==
  ASSUME NEW w \in Seq(Message), NEW p \in Nat, NEW middle \in Nat,
         Len(w) > p, \A i \in DOMAIN w : ~w[i].pinned
  PROVE  LET b == BandStart(w, p, middle)
         IN  b = 0 \/ b = Len(w) \/ w[b + 1].role # "tool"
<1> DEFINE recent == Len(w) - p
           b      == IF recent > middle THEN recent - middle ELSE 0
           A      == {c \in 0 .. b : c = 0 \/ w[c + 1].role # "tool"}
           a      == AlignBandStart(w, b)
           P      == {c \in 0 .. a - 1 : w[c + 1].pinned}
           C      == P \cup {a}
<1>1. /\ Len(w) \in Nat /\ DOMAIN w = 1 .. Len(w) /\ recent \in Nat
      /\ b \in Nat /\ b <= recent /\ recent <= Len(w)
  BY LenProperties
<1> HIDE DEF b, recent
<1>2. Max(A) \in A
  <2>1. A \in SUBSET (0 .. b) /\ 0 \in A /\ b \in Nat
    BY <1>1
  <2> HIDE DEF A
  <2>2. QED
    BY <2>1, MaxProps
<1>3. a = IF b >= Len(w) THEN b ELSE Max(A)
  BY DEF AlignBandStart, A
<1>4. a \in 0 .. Len(w) /\ (a = 0 \/ a = Len(w) \/ w[a + 1].role # "tool")
  <2>1. PICK c \in A : c = Max(A)
    BY <1>2
  <2>2. c \in 0 .. b /\ (c = 0 \/ w[c + 1].role # "tool")
    BY <2>1
  <2> HIDE DEF A, a
  <2> DEFINE n == Len(w)
  <2>3. n \in Nat /\ b \in Nat /\ b <= n
    <3>1. n \in Nat /\ b \in Nat /\ recent \in Nat /\ b <= recent /\ recent <= n
      BY <1>1
    <3> HIDE DEF n
    <3>2. QED
      BY <3>1
  <2> HIDE DEF n
  <2>4. CASE b >= n
    <3>1. b = n /\ a = b
      BY <1>3, <2>3, <2>4 DEF n
    <3>2. QED
      BY <2>3, <3>1 DEF n
  <2>5. CASE ~(b >= n)
    <3>1. a = c
      BY <1>3, <2>1, <2>5 DEF n
    <3>2. c \in 0 .. n
      BY <2>2, <2>3
    <3>3. QED
      BY <2>2, <3>1, <3>2 DEF n
  <2>6. QED
    BY <2>4, <2>5
<1>5. BandStart(w, p, middle) = Min(C)
  BY DEF BandStart, ClampBeforePinned, a, b, recent, C
<1> HIDE DEF a
<1>6. C = {a}
  <2> SUFFICES ASSUME NEW c \in 0 .. a - 1 PROVE ~w[c + 1].pinned
    OBVIOUS
  <2>1. c + 1 \in DOMAIN w
    <3>1. a \in 0 .. Len(w) /\ DOMAIN w = 1 .. Len(w) /\ Len(w) \in Nat
      BY <1>1, <1>4
    <3> HIDE DEF C, P, A
    <3>2. QED
      BY <3>1
  <2>2. QED
    BY <2>1
<1>7. C \in SUBSET Nat /\ C # {}
  BY <1>4, <1>6
<1> HIDE DEF C
<1>8. Min(C) \in C
  BY <1>7, MinProps
<1>9. QED
  BY <1>4, <1>5, <1>6, <1>8

\* The working copy while nothing is pinned.
Paired(ms, w) == InFront(w) /\ Linked(ms, w)

\* Rewriting in place leaves every tag where it is.
LEMMA RewritePaired ==
  ASSUME NEW ms, NEW w, NEW v, Paired(ms, w), DOMAIN v = DOMAIN w,
         \A i \in DOMAIN w : v[i].idx = w[i].idx
  PROVE  Paired(ms, v)
<1>1. InFront(v)
  BY DEF Paired, InFront
<1>2. \A e : Stands(v, e) <=> Stands(w, e)
  BY DEF Stands
<1>3. QED
  BY <1>1, <1>2 DEF Paired, Linked

\* Step 1.
LEMMA RulesPaired ==
  ASSUME NEW ms, NEW w \in Seq(Message), Paired(ms, w), NEW cfg, NEW F
  PROVE  Paired(ms, AgentRules(w, cfg, F))
<1>1. \A i \in DOMAIN w : w[i] \in Message
  BY ElementOfSeq, LenProperties
<1>2. /\ DOMAIN AgentRules(w, cfg, F) = DOMAIN w
      /\ \A i \in DOMAIN w : AgentRules(w, cfg, F)[i].idx = w[i].idx
  BY <1>1 DEF AgentRules, ClearedMessage, Message
<1>3. QED
  BY <1>2, RewritePaired

\* Band 2.
LEMMA PipePaired ==
  ASSUME NEW ms, NEW w \in Seq(Message), Paired(ms, w), NEW cfg, NEW p, NEW F
  PROVE  Paired(ms, PipeBand(w, cfg, p, F))
<1>1. \A i \in DOMAIN w : w[i] \in Message
  BY ElementOfSeq, LenProperties
<1>2. ASSUME NEW i \in DOMAIN w PROVE PipeBand(w, cfg, p, F)[i].idx = w[i].idx
  <2>1. PipedMessage(w[i], cfg, i \in F).idx = w[i].idx
    BY <1>1 DEF PipedMessage, Message
  <2>2. QED
    BY <2>1 DEF PipeBand
<1>3. DOMAIN PipeBand(w, cfg, p, F) = DOMAIN w
  BY DEF PipeBand
<1>4. QED
  BY <1>2, <1>3, RewritePaired

\* A summary in front.
LEMMA HeadPaired ==
  ASSUME NEW ms \in Seq(Message), NEW S, NEW v \in Seq(S), Paired(ms, v),
         NEW m \in S, m.idx = 0
  PROVE  Paired(ms, <<m>> \o v)
<1> DEFINE n == Len(v)
           x == <<m>> \o v
<1>1. n \in Nat /\ DOMAIN v = 1 .. n
  BY LenProperties
<1>2. <<m>> \in Seq(S) /\ Len(<<m>>) = 1 /\ <<m>>[1] = m
  OBVIOUS
<1>3. /\ x \in Seq(S) /\ Len(x) = 1 + n
      /\ \A i \in 1 .. 1 + n : x[i] = IF i <= 1 THEN <<m>>[i] ELSE v[i - 1]
  BY <1>2, ConcatProperties
<1>4. DOMAIN x = 1 .. 1 + n
  BY <1>3, LenProperties
<1> HIDE DEF x, n
<1>5. 1 \in DOMAIN x /\ x[1] = m
  BY <1>1, <1>2, <1>3, <1>4
<1>6. ASSUME NEW i \in DOMAIN v PROVE i + 1 \in DOMAIN x /\ x[i + 1] = v[i]
  <2>1. i + 1 \in 1 .. 1 + n /\ ~(i + 1 <= 1) /\ (i + 1) - 1 = i
    BY <1>1
  <2>2. x[i + 1] = v[(i + 1) - 1]
    BY <1>3, <2>1
  <2>3. QED
    BY <1>4, <2>1, <2>2
<1>7. \A j \in DOMAIN x : j = 1 \/ \E i \in DOMAIN v : j = i + 1
  <2> SUFFICES ASSUME NEW j \in DOMAIN x, j # 1
               PROVE  \E i \in DOMAIN v : j = i + 1
    OBVIOUS
  <2>1. j - 1 \in DOMAIN v /\ j = (j - 1) + 1
    BY <1>1, <1>4
  <2>2. QED
    BY <2>1
<1>8. InFront(x)
  <2> SUFFICES ASSUME NEW j \in DOMAIN x, NEW k \in DOMAIN x, j < k, x[k].idx = 0
               PROVE  x[j].idx = 0
    BY DEF InFront
  <2>1. CASE j = 1
    BY <1>5, <2>1
  <2>2. CASE j # 1
    <3>1. PICK a \in DOMAIN v : j = a + 1
      BY <1>7, <2>2
    <3>2. k # 1
      BY <1>1, <3>1
    <3>3. PICK b \in DOMAIN v : k = b + 1
      BY <1>7, <3>2
    <3>4. a < b
      BY <1>1, <3>1, <3>3
    <3>5. QED
      BY <1>6, <3>1, <3>3, <3>4 DEF Paired, InFront
  <2>3. QED
    BY <2>1, <2>2
<1>9. \A e : e # 0 => (Stands(x, e) <=> Stands(v, e))
  <2> SUFFICES ASSUME NEW e, e # 0 PROVE Stands(x, e) <=> Stands(v, e)
    OBVIOUS
  <2>1. Stands(v, e) => Stands(x, e)
    BY <1>6 DEF Stands
  <2>2. ASSUME NEW j \in DOMAIN x, x[j].idx = e PROVE Stands(v, e)
    <3>1. PICK i \in DOMAIN v : j = i + 1
      BY <1>5, <1>7, <2>2
    <3>2. v[i].idx = e
      BY <1>6, <2>2, <3>1
    <3>3. QED
      BY <3>2 DEF Stands
  <2>3. QED
    BY <2>1, <2>2 DEF Stands
<1>10. Linked(ms, x)
  <2> SUFFICES ASSUME NEW h \in DOMAIN ms, NEW i \in DOMAIN ms, FollowsCall(ms, h, i)
               PROVE  Stands(x, i - 1) <=> Stands(x, i)
    BY DEF Linked
  <2>1. i # 0 /\ i - 1 # 0
    <3>1. DOMAIN ms = 1 .. Len(ms) /\ Len(ms) \in Nat /\ h < i
      BY LenProperties DEF FollowsCall
    <3>2. QED
      BY <3>1
  <2>2. Stands(v, i - 1) <=> Stands(v, i)
    BY DEF Paired, Linked
  <2>3. QED
    BY <1>9, <2>1, <2>2
<1>11. QED
  BY <1>8, <1>10 DEF Paired, x

\* Nothing is pinned in the working copy either.
LEMMA NonePinned ==
  ASSUME NEW ms, NEW w, Traced(ms, w), Unpinned(ms)
  PROVE  \A j \in DOMAIN w : ~w[j].pinned
  BY DEF Traced, Comes, Unpinned

\* Band 1 cuts no call from its results.
LEMMA OldBandPaired ==
  ASSUME NEW ms \in Seq(Message), NEW w \in Seq(Message), Traced(ms, w),
         Paired(ms, w), Unpinned(ms),
         NEW preserve \in Nat, NEW middle \in Nat, NEW summarize \in BOOLEAN
  PROVE  Paired(ms, AfterOldBand(w, preserve, middle, summarize))
<1> DEFINE b    == BandStart(w, preserve, middle)
           rest == SubSeq(w, b + 1, Len(w))
           m    == SummaryMessage(SubSeq(w, 1, b))
<1>1. Len(w) \in Nat /\ DOMAIN w = 1 .. Len(w)
  BY LenProperties
<1>2. CASE Len(w) <= preserve
  BY <1>2 DEF AfterOldBand
<1>3. CASE ~(Len(w) <= preserve)
  <2>1. Len(w) > preserve
    BY <1>1, <1>3
  <2>2. b \in 0 .. Len(w) - preserve
    BY <2>1, BandFacts
  <2>3. b = 0 \/ b = Len(w) \/ w[b + 1].role # "tool"
    BY <2>1, NonePinned, BandAligned
  <2> HIDE DEF b
  <2>4. b \in Nat /\ 1 <= b + 1 /\ b <= Len(w)
    BY <1>1, <2>2
  <2>5. Uncut(ms, w, 1, b)
    <3> SUFFICES ASSUME NEW h \in DOMAIN ms, NEW i \in DOMAIN ms,
                        NEW j \in DOMAIN w, FollowsCall(ms, h, i),
                        j + 1 \in DOMAIN w, w[j + 1].idx = i
                 PROVE  j \in 1 .. b <=> j + 1 \in 1 .. b
      BY DEF Uncut
    <3>1. i # 0 /\ i \in h + 1 .. i
      <4>1. DOMAIN ms = 1 .. Len(ms) /\ Len(ms) \in Nat /\ h < i
        BY LenProperties DEF FollowsCall
      <4>2. QED
        BY <4>1
    <3>2. w[j + 1].role = "tool"
      BY <3>1 DEF FollowsCall, Traced, Comes
    <3>3. j # b
      BY <1>1, <2>3, <3>2
    <3>4. QED
      BY <1>1, <2>4, <3>3
  <2>6. rest \in Seq(Message) /\ Paired(ms, rest)
    <3>1. Paired(ms, Without(w, 1, b))
      BY <2>4, <2>5, CutLinked DEF Paired
    <3>2. b + 1 \in Nat \ {0} /\ Len(w) \in Int
      BY <1>1, <2>4
    <3>3. rest \in Seq(Message)
      BY <3>2, PieceIsSeq
    <3>4. SubSeq(w, 1, 1 - 1) = <<>>
      BY SubSeqEmpty
    <3>5. Without(w, 1, b) = rest
      BY <3>3, <3>4, ConcatEmptySeq DEF Without
    <3>6. QED
      BY <3>1, <3>3, <3>5
  <2> HIDE DEF rest
  <2>7. m.idx = 0
    BY DEF SummaryMessage
  <2> HIDE DEF m
  <2>8. rest \in Seq(Message \cup {m}) /\ m \in Message \cup {m}
    BY <2>6, SeqMonotonic
  <2>9. Paired(ms, <<m>> \o rest)
    BY <2>6, <2>7, <2>8, HeadPaired
  <2>10. <<>> \o rest = rest
    BY <2>6, ConcatEmptySeq
  <2>11. AfterOldBand(w, preserve, middle, summarize) =
           IF b = 0 THEN w ELSE (IF summarize THEN <<m>> ELSE <<>>) \o rest
    BY <1>3 DEF AfterOldBand, FoldOldBand, b, m, rest
  <2>12. QED
    BY <2>6, <2>9, <2>10, <2>11
<1>4. QED
  BY <1>2, <1>3

\* Step 4.
LEMMA DropPaired ==
  ASSUME NEW ms \in Seq(Message), NEW w \in Seq(Message), Traced(ms, w),
         Paired(ms, w), NEW cfg, CanDrop(w, cfg)
  PROVE  LET r == DropRange(w, cfg)
         IN  Paired(ms, SubSeq(w, 1, r[1] - 1) \o SubSeq(w, r[2] + 1, Len(w)))
<1> DEFINE a == DropRange(w, cfg)[1]
           b == DropRange(w, cfg)[2]
<1>1. Len(w) \in Nat
  BY LenProperties
<1>2. a \in 1 .. Len(w) /\ b \in a .. Len(w) /\ GroupRange(w, a, b)
  BY DropRangeFacts
<1> HIDE DEF a, b
<1>3. a \in Nat \ {0} /\ b \in Nat /\ a <= b + 1 /\ b <= Len(w)
  BY <1>1, <1>2
<1>4. Uncut(ms, w, a, b)
  BY <1>2, GroupUncut DEF Paired
<1>5. Paired(ms, Without(w, a, b))
  BY <1>3, <1>4, CutLinked DEF Paired
<1>6. QED
  BY <1>5 DEF Without, a, b

\* The copy that a compaction starts from has everything.
LEMMA StartPaired ==
  ASSUME NEW ms \in Seq(Message)
  PROVE  Paired(ms, Tagged(Pinned(ms)))
<1> DEFINE p(i) == [ms[i] EXCEPT !.pinned = @ \/ ms[i].fin]
           t(i) == [p(i) EXCEPT !.idx = i]
           w == Tagged(Pinned(ms))
<1>1. /\ DOMAIN ms = 1 .. Len(ms) /\ Len(ms) \in Nat
      /\ \A i \in DOMAIN ms : ms[i] \in Message
  BY LenProperties, ElementOfSeq
<1>2. DOMAIN w = DOMAIN ms /\ \A i \in DOMAIN ms : w[i] = t(i)
  BY DEF Pinned, Tagged
<1>3. \A i \in DOMAIN ms : t(i).idx = i
  BY <1>1 DEF Message
<1> HIDE DEF t, w
<1>4. InFront(w)
  BY <1>1, <1>2, <1>3 DEF InFront
<1>5. \A i \in DOMAIN ms : Stands(w, i)
  BY <1>2, <1>3 DEF Stands
<1>6. Linked(ms, w)
  <2> SUFFICES ASSUME NEW h \in DOMAIN ms, NEW i \in DOMAIN ms, FollowsCall(ms, h, i)
               PROVE  i - 1 \in DOMAIN ms
    BY <1>5 DEF Linked
  <2>1. h < i
    BY DEF FollowsCall
  <2>2. QED
    BY <1>1, <2>1
<1>7. QED
  BY <1>4, <1>6 DEF Paired, w

\* Of the steps of a cascade that pins nothing, each takes a call and its
\* results or none of them.  That needs the copy to be traced: a group of the
\* copy is a group of the prompt only where nothing in between is missing.
PairsOf(s) ==
  Cascading(s) /\ Unpinned(messages[s]) => Paired(messages[s], working[s])

PairsInv == \A s \in Sessions : PairsOf(s)

\* A stage replaces the working copy.
LEMMA PairsStage ==
  ASSUME TypeInv, NEW s \in Sessions, NEW phase, NEW next, NEW w, NEW saves,
         NEW failed, EndStage(s, phase, next, w, saves, failed),
         Unpinned(messages[s]) => Paired(messages[s], w)
  PROVE  PairsOf(s)'
<1>1. working'[s] = w /\ messages'[s] = messages[s]
  BY DEF EndStage, TypeInv, TypeOK
<1>2. QED
  BY <1>1 DEF PairsOf, Unpinned

\* Steps 2 and 3.
LEMMA PairsCompress ==
  ASSUME TypeInv, TraceInv, PairsInv, NEW s \in Sessions,
         NEW phase \in {"middle", "summarize"}, NEW next, NEW middle \in Nat,
         NEW summarize \in BOOLEAN, Compress(s, phase, next, middle, summarize)
  PROVE  PairsOf(s)'
<1> DEFINE p == PreserveRecent(working[s], config[s])
           o == AfterOldBand(working[s], p, middle, summarize)
<1>1. PICK F \in Faults(s, PipedBand(o, p)) :
        EndStage(s, phase, next, PipeBand(o, config[s], p, F),
                 PipeSaves(o, config[s], p, F), F)
  BY DEF Compress
<1>2. /\ working[s] \in Seq(Sound(Len(messages[s]), Text))
      /\ working[s] \in Seq(Message) /\ messages[s] \in Seq(Message)
      /\ config[s] \in Config /\ Len(messages[s]) \in Nat
  BY TypeFacts
<1>3. p \in Nat
  BY <1>2, PreserveRecentType
<1>4. /\ Traced(messages[s], working[s])
      /\ Unpinned(messages[s]) => Paired(messages[s], working[s])
  BY <1>1 DEF EndStage, TraceInv, TraceOf, PairsInv, PairsOf, Cascading
<1> HIDE DEF p
<1>5. o \in Seq(Message)
  BY <1>2, <1>3, OldBandFacts, SoundFacts
<1>6. Unpinned(messages[s]) => Paired(messages[s], o)
  BY <1>2, <1>3, <1>4, OldBandPaired
<1> HIDE DEF o
<1>7. Unpinned(messages[s]) => Paired(messages[s], PipeBand(o, config[s], p, F))
  BY <1>5, <1>6, PipePaired
<1>8. QED
  BY <1>1, <1>7, PairsStage DEF o, p

\* Step 1.
LEMMA PairsRules ==
  ASSUME TypeInv, PairsInv, NEW s \in Sessions, Rules(s)
  PROVE  PairsOf(s)'
<1>1. PICK F \in Faults(s, ClearSet(working[s], config[s])) :
        EndStage(s, "rules", "middle", AgentRules(working[s], config[s], F),
                 AgentSaves(working[s], config[s], F), F)
  BY DEF Rules
<1>2. /\ working[s] \in Seq(Message)
      /\ Unpinned(messages[s]) => Paired(messages[s], working[s])
  BY <1>1, TypeFacts DEF EndStage, PairsInv, PairsOf, Cascading
<1>3. Unpinned(messages[s])
        => Paired(messages[s], AgentRules(working[s], config[s], F))
  BY <1>2, RulesPaired
<1>4. QED
  BY <1>1, <1>3, PairsStage

\* Step 4.
LEMMA PairsDrop ==
  ASSUME TypeInv, TraceInv, PairsInv, NEW s \in Sessions, Drop(s)
  PROVE  PairsOf(s)'
<1> DEFINE w == working[s]
           r == DropRange(w, config[s])
           rest == SubSeq(w, 1, r[1] - 1) \o SubSeq(w, r[2] + 1, Len(w))
<1>1. /\ w \in Seq(Message) /\ messages[s] \in Seq(Message)
      /\ Traced(messages[s], w)
      /\ Unpinned(messages[s]) => Paired(messages[s], w)
  BY TypeFacts DEF Drop, TraceInv, TraceOf, PairsInv, PairsOf, Cascading
<1>2. Unpinned(messages[s]) => Paired(messages[s], rest)
  BY <1>1, DropPaired DEF Drop
<1>3. working'[s] = rest /\ messages'[s] = messages[s]
  BY DEF Drop, TypeInv, TypeOK
<1> HIDE DEF rest
<1>4. QED
  BY <1>2, <1>3 DEF PairsOf, Unpinned

\* The other steps leave the copy alone, or end the cascade.
LEMMA PairsOther ==
  ASSUME TypeInv, PairsInv, NEW s \in Sessions,
         \/ \E batch \in Batches : Extend(s, batch)
         \/ StartCompact(s) \/ EndDrop(s) \/ GiveUp(s) \/ BuildAndRetain(s)
         \/ Commit(s) \/ Cancel(s)
         \/ \E id \in gc[s] : Delete(s, id)
  PROVE  PairsOf(s)'
<1> USE DEF TypeInv, TypeOK
<1>1. CASE \E batch \in Batches : Extend(s, batch)
  BY <1>1 DEF Extend, PairsOf, Cascading
<1>2. CASE StartCompact(s)
  <2>1. Paired(messages[s], Tagged(Pinned(messages[s])))
    BY StartPaired, TypeFacts
  <2>2. working'[s] = Tagged(Pinned(messages[s])) /\ messages'[s] = messages[s]
    BY <1>2 DEF StartCompact
  <2>3. QED
    BY <2>1, <2>2 DEF PairsOf
<1>3. CASE EndDrop(s)
  BY <1>3 DEF EndDrop, flight, PairsInv, PairsOf, Cascading, Unpinned
<1>4. CASE GiveUp(s) \/ Commit(s) \/ Cancel(s)
  <2>1. pc'[s] = "idle"
    BY <1>4 DEF GiveUp, Commit, Cancel, Return
  <2>2. QED
    BY <2>1 DEF PairsOf, Cascading
<1>5. CASE BuildAndRetain(s)
  BY <1>5 DEF BuildAndRetain, PairsOf, Cascading
<1>6. CASE \E id \in gc[s] : Delete(s, id)
  BY <1>6 DEF Delete, PairsOf, Cascading
<1>7. QED
  BY <1>1, <1>2, <1>3, <1>4, <1>5, <1>6

\* Every step preserves the invariant.
LEMMA PairsNext ==
  TypeInv /\ TraceInv /\ PairsInv /\ [Next]_vars => PairsInv'
<1> SUFFICES ASSUME TypeInv, TraceInv, PairsInv, [Next]_vars PROVE PairsInv'
  OBVIOUS
<1>1. CASE UNCHANGED vars
  BY <1>1 DEF vars, flight, PairsInv, PairsOf, Cascading, Unpinned
<1>2. ASSUME NEW s \in Sessions, Step(s) PROVE PairsInv'
  <2>1. PairsOf(s)'
    <3>1. CASE Rules(s)
      BY <3>1, PairsRules
    <3>2. CASE Middle(s)
      <4>1. Len(working[s]) \in Nat
        BY TypeFacts, LenProperties
      <4>2. QED
        BY <3>2, <4>1, PairsCompress DEF Middle
    <3>3. CASE Summarize(s)
      BY <3>3, CascadeAssumption, PairsCompress DEF Summarize
    <3>4. CASE Drop(s)
      BY <3>4, PairsDrop
    <3>5. QED
      BY <1>2, <3>1, <3>2, <3>3, <3>4, PairsOther DEF Step, Compacting
  <2>2. ASSUME NEW t \in Sessions, t # s PROVE PairsOf(t)'
    <3>1. Same(t)
      BY <1>2, <2>2, OthersSame
    <3>2. QED
      BY <3>1 DEF Same, PairsInv, PairsOf, Cascading, Unpinned
  <2>3. QED
    BY <2>1, <2>2 DEF PairsInv
<1>3. QED
  BY <1>1, <1>2 DEF Next, Step

\* Where the host pinned nothing and nothing is finalized yet, a call and its
\* results all go through the cascade or all go from the prompt (conversation.rs,
\* align_band_start; budget.rs, enforce_budget).
THEOREM PairsKept == Spec => []PairsWhole
<1>1. Init => TypeInv /\ TraceInv /\ PairsInv
  BY TypeInit, TraceInit DEF Init, PairsInv, PairsOf, Cascading
<1>2. TypeInv /\ TraceInv /\ PairsInv /\ [Next]_vars
        => (TypeInv /\ TraceInv /\ PairsInv)'
  BY TypeNext, TraceNext, PairsNext
<1>3. TypeInv /\ PairsInv => PairsWhole
  <2> SUFFICES ASSUME TypeInv, PairsInv, NEW s \in Sessions,
                      Unpinned(messages[s]), pc[s] = "fold",
                      NEW h \in Heads(messages[s])
               PROVE  \/ {i \in Group(messages[s], h) : Kept(s, i)} = {}
                      \/ {i \in Group(messages[s], h) : Kept(s, i)}
                           = Group(messages[s], h)
    BY DEF PairsWhole, PairsStayTogether, Unpinned
  <2>1. Linked(messages[s], working[s]) /\ messages[s] \in Seq(Message)
    BY TypeFacts DEF PairsInv, PairsOf, Paired, Cascading
  <2>2. h \in DOMAIN messages[s]
    BY DEF Heads
  <2>3. \A g \in Group(messages[s], h) :
          Stands(working[s], h) <=> Stands(working[s], g)
    BY <2>1, <2>2, GroupWhole
  <2>4. \A i : Kept(s, i) <=> Stands(working[s], i)
    BY DEF Kept, Stands
  <2>5. QED
    BY <2>3, <2>4
<1>4. QED
  BY <1>1, <1>2, <1>3, PTL DEF Spec
=============================================================================
