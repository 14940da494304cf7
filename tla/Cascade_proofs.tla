--------------------------- MODULE Cascade_proofs ---------------------------
(***************************************************************************)
(* What each step of the cascade does to the messages it is given, whoever *)
(* runs it, a session or compact_rich: what stays sound, where messages    *)
(* come from, how many tokens they count, what stays at the end of the     *)
(* list, and which fold covers what.                                       *)
(***************************************************************************)
EXTENDS Cascade, Basics_proofs

(* Texts *)

\* A stub quotes the id of the text it replaced, and nothing else.
LEMMA StubFacts ==
  ASSUME NEW t \in Key
  PROVE  /\ Stub(t) \in Key
         /\ Markers(Stub(t)) = {t}
<1>1. t.layers \in Seq(Layers) /\ "stub" \in Layers
  BY DEF Key, Layers
<1> DEFINE ls == Append(t.layers, "stub")
<1>2. /\ ls \in Seq(Layers) /\ Len(ls) = Len(t.layers) + 1
      /\ ls[Len(ls)] = "stub" /\ ls # <<>>
  BY <1>1
<1>3. SubSeq(ls, 1, Len(ls) - 1) = t.layers
  BY <1>1
<1>4. Stub(t) = [t EXCEPT !.layers = ls] /\ Stub(t).layers = ls
  BY DEF Stub, Key
<1>5. Unlayered(Stub(t)) = t
  BY <1>3, <1>4 DEF Unlayered, Key
<1>6. QED
  BY <1>2, <1>4, <1>5 DEF Markers, IsStub, Key

\* The marker ids of a text are ids of texts that hosts pushed, cleared or
\* compressed, and the first of them is one of them.
LEMMA MarkerFacts ==
  ASSUME NEW t \in Text
  PROVE  /\ Markers(t) \subseteq Key
         /\ FirstMarker(t) \in Key \cup {None}
         /\ FirstMarker(t) \in Markers(t) \cup {None}
<1>1. CASE IsStub(t)
  <2>1. t \in Key
    <3>1. SUFFICES ASSUME t \in SummaryText PROVE FALSE
      BY DEF Text
    <3>2. t.layers \in Seq({"comp"}) /\ t.layers # <<>>
      BY <1>1, <3>1 DEF SummaryText, IsStub
    <3>3. t.layers[Len(t.layers)] = "comp"
      BY <3>2
    <3>4. QED
      BY <1>1, <3>3 DEF IsStub
  <2>2. t.layers \in Seq(Layers) /\ t.layers # <<>>
    BY <1>1, <2>1 DEF Key, IsStub
  <2>3. SubSeq(t.layers, 1, Len(t.layers) - 1) \in Seq(Layers)
    BY <2>2, PieceIsSeq
  <2>4. Unlayered(t) \in Key
    BY <2>1, <2>3 DEF Unlayered, Key
  <2>5. QED
    BY <1>1, <2>4 DEF Markers, FirstMarker
<1>2. CASE ~IsStub(t) /\ t.src \in Raw
  <2>1. Quote[t.src] \in Key \cup {None}
    BY <1>2, TextAssumption
  <2>2. Markers(t) = {Quote[t.src]} \ {None} /\ FirstMarker(t) = Quote[t.src]
    BY <1>2 DEF Markers, FirstMarker
  <2> DEFINE q == Quote[t.src]
  <2>3. {q} \ {None} \subseteq Key /\ q \in Key \cup {None}
    <3> HIDE DEF q
    <3>1. q \in Key \cup {None}
      BY <2>1 DEF q
    <3>2. QED
      BY <3>1
  <2>4. QED
    BY <2>2, <2>3
<1>3. CASE ~IsStub(t) /\ t.src \notin Raw
  <2>1. t \in SummaryText
    BY <1>3 DEF Text, Key
  <2>2. QED
    BY <1>3, <2>1 DEF Markers, FirstMarker, SummaryText
<1>4. QED
  BY <1>1, <1>2, <1>3

\* A pass of the pipeline keeps a text's kind and adds no marker to it.
LEMMA PipedFacts ==
  ASSUME NEW t \in Text
  PROVE  /\ Piped(t) \in Text
         /\ t \in Key => Piped(t) \in Key
         /\ Markers(Piped(t)) \subseteq Markers(t)
<1> DEFINE ls == Append(t.layers, "comp")
<1>1. CASE PassesLeft(t) = 0
  BY <1>1 DEF Piped
<1>2. CASE PassesLeft(t) # 0
  <2>1. Piped(t) = [t EXCEPT !.layers = ls]
    BY <1>2 DEF Piped
  <2>2. t \in Key => Piped(t) \in Key
    <3>1. ASSUME t \in Key PROVE ls \in Seq(Layers)
      <4>1. t.layers \in Seq(Layers) /\ "comp" \in Layers
        BY <3>1 DEF Key, Layers
      <4>2. QED
        BY <4>1, AppendProperties
    <3> HIDE DEF ls
    <3>2. QED
      BY <2>1, <3>1 DEF Key
  <2>3. t \in SummaryText => Piped(t) \in SummaryText
    <3>1. ASSUME t \in SummaryText PROVE ls \in Seq({"comp"})
      <4>1. t.layers \in Seq({"comp"})
        BY <3>1 DEF SummaryText
      <4>2. QED
        BY <4>1, AppendProperties
    <3> HIDE DEF ls
    <3>2. QED
      BY <2>1, <3>1 DEF SummaryText
  <2>4. "stub" \notin {t.layers[i] : i \in DOMAIN t.layers}
    BY <1>2 DEF PassesLeft
  <2>5. t.layers \in Seq(Layers)
    BY SeqMonotonic DEF Text, Key, SummaryText, Layers
  <2>6. ~IsStub(t)
    BY <2>4, <2>5 DEF IsStub
  <2>7. Piped(t).layers = ls /\ Piped(t).src = t.src
        /\ Piped(t).quotes = t.quotes
    BY <2>1 DEF Text, Key, SummaryText
  <2>8. ls[Len(ls)] = "comp"
    BY <2>5
  <2>9. ~IsStub(Piped(t))
    BY <2>7, <2>8 DEF IsStub
  <2>10. QED
    BY <2>2, <2>3, <2>6, <2>7, <2>9 DEF Text, Markers
<1>3. QED
  BY <1>1, <1>2
-----------------------------------------------------------------------------
(* Messages *)

\* Messages of which every CCR id can be found in `st', tagged with a position
\* of a list of n.
Sound(n, st) == {m \in Message : m.idx \in 0 .. n /\ Refs(m) \subseteq st}

\* More texts in the store keep a message sound.
LEMMA SoundMonotonic ==
  ASSUME NEW n, NEW st, NEW more, st \subseteq more
  PROVE  /\ Sound(n, st) \subseteq Sound(n, more)
         /\ \A w \in Seq(Sound(n, st)) : w \in Seq(Sound(n, more))
<1>1. Sound(n, st) \subseteq Sound(n, more)
  BY DEF Sound
<1>2. QED
  BY <1>1, SeqMonotonic

\* A message has one of the fields of the record, and its CCR ids are texts.
LEMMA MessageFacts ==
  ASSUME NEW m \in Message
  PROVE  /\ m.text \in Text /\ m.ccr \in Text \cup {None}
         /\ Refs(m) \subseteq Text
<1>1. m.text \in Text /\ m.ccr \in Text \cup {None}
  BY DEF Message
<1>2. Markers(m.text) \subseteq Text
  BY <1>1, MarkerFacts DEF Text
<1>3. QED
  BY <1>1, <1>2 DEF Refs

\* A cleared message refers to nothing but the text it lost (agent.rs).
LEMMA ClearedFacts ==
  ASSUME NEW n, NEW st, NEW m \in Sound(n, st), m.role = "tool"
  PROVE  ClearedMessage(m) \in Sound(n, st \cup {m.text})
<1> DEFINE c == ClearedMessage(m)
<1>1. m \in Message /\ m.text \in Key
  BY DEF Sound, Message
<1>2. Stub(m.text) \in Key /\ Markers(Stub(m.text)) = {m.text}
  BY <1>1, StubFacts
<1>3. c.text = Stub(m.text) /\ c.ccr = m.text /\ c.idx = m.idx
  BY <1>1 DEF ClearedMessage, Message
<1>4. c \in Message
  <2>1. m.text \in Text /\ Stub(m.text) \in Text
    BY <1>1, <1>2 DEF Text
  <2>2. QED
    BY <1>1, <1>2, <2>1 DEF ClearedMessage, Message
<1>5. Refs(c) \subseteq {m.text}
  BY <1>2, <1>3 DEF Refs
<1>6. QED
  BY <1>3, <1>4, <1>5 DEF Sound

\* A piped message refers to what it referred to, or to the text it lost,
\* which is saved when there is a store (pipeline.rs, compress_one).
LEMMA PipedMessageFacts ==
  ASSUME NEW n, NEW st, NEW m \in Sound(n, st), NEW cfg, NEW failed
  PROVE  /\ PipedMessage(m, cfg, failed)
              \in Sound(n, st \cup IF cfg.hasStore THEN {m.text} ELSE {})
         /\ failed => PipedMessage(m, cfg, failed) = m
<1> DEFINE p == PipedMessage(m, cfg, failed)
           saved == IF cfg.hasStore THEN {m.text} ELSE {}
<1>1. m \in Message /\ m.text \in Text /\ m.idx \in 0 .. n /\ Refs(m) \subseteq st
  BY MessageFacts DEF Sound
<1>2. CASE m.pinned \/ failed \/ Piped(m.text) = m.text
  BY <1>2, SoundMonotonic DEF PipedMessage
<1>3. CASE ~(m.pinned \/ failed \/ Piped(m.text) = m.text)
  <2>1. /\ Piped(m.text) \in Text
        /\ m.text \in Key => Piped(m.text) \in Key
        /\ Markers(Piped(m.text)) \subseteq Markers(m.text)
    BY <1>1, PipedFacts
  <2>2. p = [m EXCEPT !.text = Piped(m.text),
                      !.ccr = IF cfg.hasStore THEN m.text ELSE m.ccr]
    BY <1>3 DEF PipedMessage
  <2>3. /\ p.text = Piped(m.text)
        /\ p.ccr = IF cfg.hasStore THEN m.text ELSE m.ccr
        /\ p.idx = m.idx
    BY <1>1, <2>2 DEF Message
  <2>4. p \in Message
    BY <1>1, <2>1, <2>2 DEF Message
  <2>5. Refs(p) \subseteq st \cup saved
    BY <1>1, <2>1, <2>3 DEF Refs
  <2>6. QED
    BY <1>1, <1>3, <2>3, <2>4, <2>5 DEF Sound
<1>4. QED
  BY <1>2, <1>3
-----------------------------------------------------------------------------
(* Lists of messages *)

\* Step 1 keeps every message sound: it has saved what it cleared.
LEMMA RulesFacts ==
  ASSUME NEW n, NEW st, NEW w \in Seq(Sound(n, st)), NEW cfg, NEW F
  PROVE  /\ AgentRules(w, cfg, F) \in Seq(Sound(n, st \cup AgentSaves(w, cfg, F)))
         /\ AgentSaves(w, cfg, F) \subseteq Text
<1> DEFINE saves == AgentSaves(w, cfg, F)
           to    == Sound(n, st \cup saves)
<1>1. Len(w) \in Nat /\ DOMAIN w = 1 .. Len(w)
      /\ \A i \in DOMAIN w : w[i] \in Sound(n, st)
  BY LenProperties, ElementOfSeq
<1>2. ClearSet(w, cfg) \subseteq DOMAIN w
      /\ \A i \in ClearSet(w, cfg) : w[i].role = "tool"
  <2>1. ASSUME NEW i \in ClearSet(w, cfg) PROVE w[i].role = "tool"
    <3>1. Classify(w[i]) = "ToolResultSuccess" /\ i \in DOMAIN w
      BY DEF ClearSet, Clearable
    <3>2. w[i].role \in Roles /\ w[i].err \in BOOLEAN
      BY <1>1, <3>1 DEF Sound, Message
    <3>3. QED
      BY <3>1, <3>2 DEF Classify, Roles
  <2>2. QED
    BY <2>1 DEF ClearSet
<1>3. ASSUME NEW i \in DOMAIN w
      PROVE  (IF i \in ClearSet(w, cfg) \ F THEN ClearedMessage(w[i]) ELSE w[i])
               \in to
  <2>1. CASE i \in ClearSet(w, cfg) \ F
    <3>1. w[i].text \in saves
      BY <2>1 DEF AgentSaves
    <3>2. ClearedMessage(w[i]) \in Sound(n, st \cup {w[i].text})
      BY <1>1, <1>2, <2>1, ClearedFacts
    <3>3. st \cup {w[i].text} \subseteq st \cup saves
      BY <3>1
    <3>4. QED
      BY <2>1, <3>2, <3>3, SoundMonotonic
  <2>2. CASE i \notin ClearSet(w, cfg) \ F
    BY <1>1, <2>2, SoundMonotonic
  <2>3. QED
    BY <2>1, <2>2
<1>4. AgentRules(w, cfg, F) \in [1 .. Len(w) -> to]
  BY <1>1, <1>3 DEF AgentRules
<1>5. saves \subseteq Text
  <2>1. \A i \in DOMAIN w : w[i].text \in Text
    BY <1>1, MessageFacts DEF Sound
  <2>2. QED
    BY <1>2, <2>1 DEF AgentSaves
<1>6. QED
  BY <1>1, <1>4, <1>5, FcnIsSeq

\* Band 2 keeps every message sound: what it rewrote is saved first.
LEMMA PipeFacts ==
  ASSUME NEW n, NEW st, NEW w \in Seq(Sound(n, st)), NEW cfg, NEW p, NEW F
  PROVE  /\ PipeBand(w, cfg, p, F)
              \in Seq(Sound(n, st \cup PipeSaves(w, cfg, p, F)))
         /\ PipeSaves(w, cfg, p, F) \subseteq Text
<1> DEFINE saves == PipeSaves(w, cfg, p, F)
           to    == Sound(n, st \cup saves)
           band  == PipedBand(w, p)
<1>1. Len(w) \in Nat /\ DOMAIN w = 1 .. Len(w)
      /\ \A i \in DOMAIN w : w[i] \in Sound(n, st)
  BY LenProperties, ElementOfSeq
<1>2. band \subseteq DOMAIN w
  BY DEF PipedBand
<1>3. ASSUME NEW i \in DOMAIN w
      PROVE  (IF i \in band THEN PipedMessage(w[i], cfg, i \in F) ELSE w[i])
               \in to
  <2>1. w[i] \in to
    BY <1>1, SoundMonotonic
  <2>2. CASE i \in band /\ i \notin F
    <3> DEFINE mine == IF cfg.hasStore THEN {w[i].text} ELSE {}
    <3>1. mine \subseteq saves
      BY <2>2 DEF PipeSaves
    <3>2. PipedMessage(w[i], cfg, i \in F) \in Sound(n, st \cup mine)
      BY <1>1, PipedMessageFacts
    <3>3. st \cup mine \subseteq st \cup saves
      BY <3>1
    <3> HIDE DEF mine
    <3>4. QED
      BY <2>2, <3>2, <3>3, SoundMonotonic
  <2>3. CASE i \in band /\ i \in F
    BY <1>1, <2>1, <2>3, PipedMessageFacts
  <2>4. CASE i \notin band
    BY <2>1, <2>4
  <2>5. QED
    BY <2>2, <2>3, <2>4
<1>4. PipeBand(w, cfg, p, F) \in [1 .. Len(w) -> to]
  BY <1>1, <1>3 DEF PipeBand
<1>5. saves \subseteq Text
  <2>1. \A i \in DOMAIN w : w[i].text \in Text
    BY <1>1, MessageFacts DEF Sound
  <2>2. QED
    BY <1>2, <2>1 DEF PipeSaves
<1>6. QED
  BY <1>1, <1>4, <1>5, FcnIsSeq
-----------------------------------------------------------------------------
(* Steps 2 and 3: how much is preserved, where the old band ends *)

\* The number of messages to preserve is a number, and enough for each of the
\* three that ask for it.
LEMMA PreserveRecentType ==
  ASSUME NEW S, NEW w \in Seq(S), NEW cfg \in Config
  PROVE  /\ PreserveRecent(w, cfg) \in Nat
         /\ PreserveFloor <= PreserveRecent(w, cfg)
         /\ Cardinality(ProtectedTail(w, cfg)) <= PreserveRecent(w, cfg)
         /\ RecentAssistantPreserve(w, cfg.keepAssistant) <= PreserveRecent(w, cfg)
<1> DEFINE tail  == Cardinality(ProtectedTail(w, cfg))
           reply == RecentAssistantPreserve(w, cfg.keepAssistant)
           total == PreserveFloor + tail + reply
           cand  == {PreserveFloor, tail, reply}
<1>1. Len(w) \in Nat /\ DOMAIN w = 1 .. Len(w)
  BY LenProperties
<1>2. tail \in Nat
  <2>1. IsFiniteSet(1 .. Len(w))
    BY <1>1, FS_Interval
  <2>2. ProtectedTail(w, cfg) \in SUBSET (1 .. Len(w))
    BY <1>1 DEF ProtectedTail
  <2>3. IsFiniteSet(ProtectedTail(w, cfg))
    BY <2>1, <2>2, FS_Subset
  <2>4. QED
    BY <2>3, FS_CardinalityType
<1>3. reply \in Nat
  <2> DEFINE R == RecentAssistants(w, cfg.keepAssistant)
  <2>1. R \subseteq 1 .. Len(w)
    BY <1>1 DEF RecentAssistants
  <2>2. CASE R = {}
    BY <2>2 DEF RecentAssistantPreserve
  <2>3. CASE R # {}
    <3>1. R \in SUBSET Nat
      BY <2>1
    <3>2. Min(R) \in R
      BY <2>3, <3>1, MinProps
    <3>3. Min(R) \in 1 .. Len(w)
      BY <2>1, <3>2
    <3>4. Len(w) + 1 - Min(R) \in Nat
      BY <1>1, <3>3
    <3>5. QED
      BY <2>3, <3>4 DEF RecentAssistantPreserve
  <2>4. QED
    BY <2>2, <2>3
<1>4. PreserveFloor \in Nat
  BY CascadeAssumption
<1> HIDE DEF tail, reply
<1>5. total \in Nat /\ cand \in SUBSET (0 .. total) /\ cand # {}
  BY <1>2, <1>3, <1>4
<1> HIDE DEF total
<1>6. Max(cand) \in cand /\ \A x \in cand : x <= Max(cand)
  BY <1>5, MaxProps
<1>7. PreserveRecent(w, cfg) = Max(cand)
  BY DEF PreserveRecent, tail, reply
<1>8. QED
  BY <1>2, <1>3, <1>4, <1>6, <1>7 DEF tail, reply

\* The old band is a prefix of the list (conversation.rs).
LEMMA BandStartType ==
  ASSUME NEW S, NEW w \in Seq(S), NEW preserve \in Nat, NEW middle \in Nat,
         Len(w) > preserve
  PROVE  BandStart(w, preserve, middle) \in 0 .. Len(w)
<1> DEFINE recent == Len(w) - preserve
           b      == IF recent > middle THEN recent - middle ELSE 0
           A      == {c \in 0 .. b : c = 0 \/ w[c + 1].role # "tool"}
           a      == AlignBandStart(w, b)
           C      == {c \in 0 .. a - 1 : w[c + 1].pinned} \cup {a}
<1>1. Len(w) \in Nat
  BY LenProperties
<1>2. b \in 0 .. Len(w)
  BY <1>1
<1> HIDE DEF b
<1>3. a \in 0 .. Len(w)
  <2>1. A \in SUBSET (0 .. b) /\ 0 \in A /\ b \in Nat
    BY <1>2
  <2> HIDE DEF A
  <2>2. Max(A) \in A
    BY <2>1, MaxProps
  <2>3. Max(A) \in 0 .. Len(w)
    <3>1. Max(A) \in 0 .. b
      BY <2>1, <2>2
    <3>2. QED
      BY <1>1, <1>2, <3>1
  <2>4. a = IF b >= Len(w) THEN b ELSE Max(A)
    BY DEF AlignBandStart, A
  <2>5. QED
    BY <1>2, <2>3, <2>4
<1> HIDE DEF a
<1>4. C \in SUBSET Nat /\ C # {} /\ C \subseteq 0 .. Len(w)
  BY <1>1, <1>3
<1> HIDE DEF C
<1>5. Min(C) \in 0 .. Len(w)
  BY <1>4, MinProps
<1>6. BandStart(w, preserve, middle) = Min(C)
  BY DEF BandStart, ClampBeforePinned, a, b, C
<1>7. QED
  BY <1>5, <1>6

\* The text of a summary quotes nothing that the turns did not quote.
LEMMA SummaryTextFacts ==
  ASSUME NEW S, NEW old \in Seq(S), NEW st,
         \A i \in DOMAIN old : old[i].text \in Text /\ Markers(old[i].text) \subseteq st
  PROVE  SummaryOf(old) \in SummaryText /\ Markers(SummaryOf(old)) \subseteq st
<1> DEFINE shown  == IF Len(old) > SummaryCap THEN 1 .. SummaryCap
                     ELSE DOMAIN old
           quoted == {i \in shown : Markers(old[i].text) # {}}
           all    == UNION {Markers(old[i].text) : i \in quoted}
           one    == IF quoted = {} THEN None
                     ELSE FirstMarker(old[Min(quoted)].text)
           t      == SummaryOf(old)
<1>1. Len(old) \in Nat /\ DOMAIN old = 1 .. Len(old) /\ SummaryCap \in Nat
  BY LenProperties, TextAssumption
<1>2. quoted \subseteq DOMAIN old /\ quoted \in SUBSET Nat
  BY <1>1
<1>3. \A i \in DOMAIN old : /\ Markers(old[i].text) \subseteq Key \cap st
                           /\ FirstMarker(old[i].text)
                                \in Markers(old[i].text) \cup {None}
  BY MarkerFacts
<1> HIDE DEF quoted
<1>4. all \subseteq Key \cap st
  BY <1>2, <1>3
<1>5. one \in all \cup {None}
  <2>1. CASE quoted # {}
    <3>1. Min(quoted) \in quoted
      BY <1>2, <2>1, MinProps
    <3>2. QED
      BY <1>2, <1>3, <2>1, <3>1
  <2>2. CASE quoted = {}
    BY <2>2
  <2>3. QED
    BY <2>1, <2>2
<1>6. t = [src |-> IF Len(old) > SummaryCap THEN "capped" ELSE "summary",
           quotes |-> all, first |-> one, layers |-> <<>>]
  BY DEF SummaryOf, quoted
<1> HIDE DEF all, one
<1>7. t \in SummaryText /\ t.quotes = all /\ t.layers = <<>>
      /\ t.src \in {"summary", "capped"}
  <2>1. all \in SUBSET Key /\ one \in Key \cup {None} /\ <<>> \in Seq({"comp"})
    BY <1>4, <1>5
  <2>2. QED
    BY <1>5, <1>6, <2>1 DEF SummaryText
<1>8. Markers(t) = all
  BY <1>7, TextAssumption DEF Markers, IsStub
<1>9. QED
  BY <1>4, <1>7, <1>8

\* The summary of some turns refers to nothing that they did not refer to.
LEMMA SummaryFacts ==
  ASSUME NEW n \in Nat, NEW st, NEW old \in Seq(Sound(n, st))
  PROVE  SummaryMessage(old) \in Sound(n, st)
<1> DEFINE t == SummaryOf(old)
           m == SummaryMessage(old)
<1>1. t \in SummaryText /\ Markers(t) \subseteq st
  <2>1. ASSUME NEW i \in DOMAIN old
        PROVE  old[i].text \in Text /\ Markers(old[i].text) \subseteq st
    <3>1. old[i] \in Sound(n, st)
      BY ElementOfSeq, LenProperties
    <3>2. QED
      BY <3>1, MessageFacts DEF Sound, Refs
  <2>2. QED
    BY <2>1, SummaryTextFacts
<1> HIDE DEF t
<1>2. m = [role |-> "system", err |-> FALSE, text |-> t, ccr |-> None,
           pinned |-> FALSE, fin |-> FALSE, idx |-> 0]
  BY DEF SummaryMessage, t
<1>3. m \in Message
  BY <1>1, <1>2 DEF Message, Roles, Text
<1>4. Refs(m) \subseteq st /\ m.idx \in 0 .. n
  BY <1>1, <1>2 DEF Refs
<1> HIDE DEF m
<1>5. m \in Sound(n, st)
  BY <1>3, <1>4 DEF Sound
<1>6. QED
  BY <1>5 DEF m

\* Folding the old band keeps every message sound.
LEMMA OldBandFacts ==
  ASSUME NEW n \in Nat, NEW st, NEW w \in Seq(Sound(n, st)),
         NEW preserve \in Nat, NEW middle \in Nat, NEW summarize \in BOOLEAN
  PROVE  AfterOldBand(w, preserve, middle, summarize) \in Seq(Sound(n, st))
<1> DEFINE b == BandStart(w, preserve, middle)
           S == Sound(n, st)
<1>1. Len(w) \in Nat
  BY LenProperties
<1>2. CASE Len(w) <= preserve
  BY <1>2 DEF AfterOldBand
<1>3. CASE ~(Len(w) <= preserve)
  <2>1. b \in 0 .. Len(w)
    <3>1. Len(w) > preserve
      BY <1>1, <1>3
    <3>2. QED
      BY <3>1, BandStartType, SMTT(30)
  <2> HIDE DEF b
  <2>2. SubSeq(w, b + 1, Len(w)) \in Seq(S)
    <3>1. b + 1 \in Nat \ {0} /\ Len(w) \in Int
      BY <1>1, <2>1
    <3>2. QED
      BY <3>1, PieceIsSeq
  <2>3. SubSeq(w, 1, b) \in Seq(S)
    <3>1. b \in Int /\ b <= Len(w)
      BY <1>1, <2>1
    <3>2. QED
      BY <3>1, PieceIsSeq
  <2>4. SummaryMessage(SubSeq(w, 1, b)) \in S
    BY <2>3, SummaryFacts
  <2> DEFINE first == IF summarize THEN <<SummaryMessage(SubSeq(w, 1, b))>>
                      ELSE <<>>
  <2>5. first \in Seq(S)
    <3> HIDE DEF S
    <3>1. QED
      BY <2>4
  <2>6. first \o SubSeq(w, b + 1, Len(w)) \in Seq(S)
    BY <2>2, <2>5, ConcatProperties
  <2>7. AfterOldBand(w, preserve, middle, summarize) =
          IF b = 0 THEN w ELSE first \o SubSeq(w, b + 1, Len(w))
    BY <1>3 DEF AfterOldBand, FoldOldBand, b
  <2>8. QED
    BY <2>6, <2>7
<1>4. QED
  BY <1>2, <1>3
\* Steps 2 and 3 keep every message sound.
LEMMA CompressFacts ==
  ASSUME NEW n \in Nat, NEW st, NEW w \in Seq(Sound(n, st)),
         NEW cfg \in Config, NEW middle \in Nat, NEW summarize \in BOOLEAN,
         NEW F
  PROVE  LET p == PreserveRecent(w, cfg)
             o == AfterOldBand(w, p, middle, summarize)
         IN  /\ PipeBand(o, cfg, p, F)
                  \in Seq(Sound(n, st \cup PipeSaves(o, cfg, p, F)))
             /\ PipeSaves(o, cfg, p, F) \subseteq Text
<1> DEFINE p == PreserveRecent(w, cfg)
           o == AfterOldBand(w, p, middle, summarize)
<1>1. p \in Nat
  BY PreserveRecentType
<1> HIDE DEF p
<1>2. o \in Seq(Sound(n, st))
  BY <1>1, OldBandFacts
<1> HIDE DEF o
<1>3. /\ PipeBand(o, cfg, p, F)
           \in Seq(Sound(n, st \cup PipeSaves(o, cfg, p, F)))
      /\ PipeSaves(o, cfg, p, F) \subseteq Text
  BY <1>2, PipeFacts
<1>4. QED
  BY <1>3 DEF o, p
-----------------------------------------------------------------------------
(* Step 4 *)

\* What step 4 drops is a range of the list, and both the range and the rest
\* are pieces of it (budget.rs, the loop of enforce_budget).
LEMMA DropFacts ==
  ASSUME NEW S, NEW w \in Seq(S), NEW cfg, CanDrop(w, cfg)
  PROVE  LET r == DropRange(w, cfg)
         IN  /\ r[1] \in 1 .. Len(w) /\ r[2] \in r[1] .. Len(w)
             /\ SubSeq(w, r[1], r[2]) \in Seq(S)
             /\ SubSeq(w, 1, r[1] - 1) \o SubSeq(w, r[2] + 1, Len(w)) \in Seq(S)
<1> DEFINE H == DroppableHeads(w, cfg)
           h == Min(H)
           G == Group(w, h)
           l == Max(G)
<1>1. Len(w) \in Nat /\ DOMAIN w = 1 .. Len(w)
  BY LenProperties
<1>2. H \subseteq 1 .. Len(w) /\ H # {}
  BY <1>1 DEF CanDrop, DroppableHeads, Heads
<1>3. h \in 1 .. Len(w)
  <2>1. H \in SUBSET Nat
    BY <1>2
  <2> HIDE DEF H
  <2>2. h \in H
    BY <1>2, <2>1, MinProps
  <2>3. QED
    BY <1>2, <2>2
<1> HIDE DEF h
<1>4. G \subseteq h .. Len(w) /\ h \in G
  <2>1. \A i \in DOMAIN w : FollowsCall(w, h, i) => h < i
    BY DEF FollowsCall
  <2>2. {i \in DOMAIN w : FollowsCall(w, h, i)} \subseteq h .. Len(w)
    BY <1>1, <1>3, <2>1
  <2>3. h \in h .. Len(w)
    BY <1>1, <1>3
  <2>4. QED
    BY <2>2, <2>3 DEF Group
<1> HIDE DEF G
<1>5. l \in h .. Len(w)
  <2>1. h .. Len(w) \subseteq 0 .. Len(w)
    BY <1>1, <1>3
  <2>2. G \in SUBSET (0 .. Len(w)) /\ G # {}
    BY <1>4, <2>1
  <2>3. l \in G
    BY <1>1, <2>2, MaxProps
  <2>4. QED
    BY <1>4, <2>3
<1> HIDE DEF l
<1>6. SubSeq(w, h, l) \in Seq(S)
  BY <1>1, <1>3, <1>5, PieceIsSeq
<1>7. SubSeq(w, 1, h - 1) \in Seq(S)
  BY <1>1, <1>3, PieceIsSeq
<1>8. SubSeq(w, l + 1, Len(w)) \in Seq(S)
  BY <1>1, <1>3, <1>5, PieceIsSeq
<1>9. SubSeq(w, 1, h - 1) \o SubSeq(w, l + 1, Len(w)) \in Seq(S)
  BY <1>7, <1>8, ConcatProperties
<1>10. DropRange(w, cfg) = <<h, l>>
  BY DEF DropRange, h, l, G
<1>11. QED
  BY <1>3, <1>5, <1>6, <1>9, <1>10
-----------------------------------------------------------------------------
(* Fold records (compact.rs) *)

\* The CCR id of a message is a text, or there is none.
LEMMA CcrIdType ==
  ASSUME NEW m \in Message
  PROVE  CcrIdOf(m) \in Text \cup {None}
<1>1. m.text \in Text /\ m.ccr \in Text \cup {None}
  BY MessageFacts
<1>2. FirstMarker(m.text) \in Text \cup {None}
  <2>1. FirstMarker(m.text) \in Key \cup {None}
    BY <1>1, MarkerFacts
  <2>2. QED
    BY <2>1 DEF Text
<1>3. QED
  BY <1>1, <1>2 DEF CcrIdOf

\* A fold record of positions of the original list is one.
LEMMA FoldRecordType ==
  ASSUME NEW orig \in Seq(Message), NEW kind \in FoldKinds,
         NEW first \in 1 .. Len(orig), NEW last \in 1 .. Len(orig),
         first <= last, NEW at \in Nat, NEW ccr \in Text \cup {None}
  PROVE  FoldRecord(kind, orig, first, last, at, ccr) \in Fold
<1> DEFINE Part == [role : Roles, text : Text]
           part(i) == [role |-> orig[first + i - 1].role,
                       text |-> orig[first + i - 1].text]
           len  == last + 1 - first
           span == [i \in 1 .. len |-> part(i)]
           of   == IF ccr = None THEN span ELSE <<>>
<1>1. Len(orig) \in Nat /\ \A i \in 1 .. Len(orig) : orig[i] \in Message
  BY LenProperties, ElementOfSeq
<1>2. len \in Nat
  BY <1>1
<1>3. \A i \in 1 .. len : part(i) \in Part
  <2>1. ASSUME NEW i \in 1 .. len PROVE part(i) \in Part
    <3>1. first + i - 1 \in 1 .. Len(orig)
      BY <1>1
    <3>2. orig[first + i - 1] \in Message
      BY <1>1, <3>1
    <3>3. QED
      BY <3>2 DEF Message
  <2>2. QED
    BY <2>1
<1> HIDE DEF len, part, Part
<1>4. span \in Seq(Part)
  BY <1>2, <1>3, FcnIsSeq
<1>5. of \in Seq(Part)
  BY <1>4
<1>6. FoldRecord(kind, orig, first, last, at, ccr) =
        [id |-> [of |-> ccr, span |-> of, n |-> 1], kind |-> kind,
         first |-> first, last |-> last, at |-> at, ccr |-> ccr]
  BY DEF FoldRecord, len, part
<1> HIDE DEF of
<1>7. [of |-> ccr, span |-> of, n |-> 1] \in FoldId
  BY <1>5 DEF FoldId, Part
<1>8. first \in Nat /\ last \in Nat
  OBVIOUS
<1>9. QED
  BY <1>6, <1>7, <1>8 DEF Fold

\* The folds of a compaction are finitely many fold records.
LEMMA BuildFoldsType ==
  ASSUME NEW orig \in Seq(Message), NEW dropped \in Seq(Message), NEW st,
         NEW final \in Seq(Sound(Len(orig), st))
  PROVE  /\ BuildFolds(orig, final, dropped) \subseteq Fold
         /\ IsFiniteSet(BuildFolds(orig, final, dropped))
<1>1. /\ Len(orig) \in Nat /\ DOMAIN orig = 1 .. Len(orig)
      /\ Len(final) \in Nat /\ DOMAIN final = 1 .. Len(final)
      /\ \A i \in DOMAIN final :
           final[i] \in Message /\ final[i].idx \in 0 .. Len(orig)
      /\ \A i \in DOMAIN dropped : dropped[i] \in Message
  BY LenProperties, ElementOfSeq DEF Sound
<1>2. IsFiniteSet(DOMAIN orig) /\ IsFiniteSet(DOMAIN final)
  BY <1>1, FS_Interval
<1>3. ReplacementFolds(orig, final) \subseteq Fold
      /\ IsFiniteSet(ReplacementFolds(orig, final))
  <2> DEFINE J == {k \in DOMAIN final : /\ final[k].idx # 0
                                       /\ Untagged(final[k]) # orig[final[k].idx]}
             f == [j \in J |-> FoldRecord(ClassifyReplacement(final[j]), orig,
                     final[j].idx, final[j].idx, j, CcrIdOf(final[j]))]
  <2>1. IsFiniteSet(J)
    BY <1>2, FS_Subset
  <2>2. ASSUME NEW j \in J PROVE f[j] \in Fold
    <3>1. final[j] \in Message /\ final[j].idx \in 1 .. Len(orig) /\ j \in Nat
      BY <1>1
    <3>2. ClassifyReplacement(final[j]) \in FoldKinds
      BY DEF ClassifyReplacement, FoldKinds
    <3>3. CcrIdOf(final[j]) \in Text \cup {None}
      BY <3>1, CcrIdType
    <3>4. QED
      BY <3>1, <3>2, <3>3, FoldRecordType
  <2>3. ReplacementFolds(orig, final) = {f[j] : j \in J}
    BY DEF ReplacementFolds
  <2>4. DOMAIN f = J /\ f = [j \in DOMAIN f |-> f[j]]
    OBVIOUS
  <2> HIDE DEF f, J
  <2>5. IsFiniteSet({f[j] : j \in DOMAIN f})
    BY <2>1, <2>4, FiniteImage
  <2>6. QED
    BY <2>2, <2>3, <2>4, <2>5
<1>4. SummarizedSpan(orig, final) \subseteq DOMAIN orig
  BY DEF SummarizedSpan, Missing
<1>5. SummaryFolds(orig, final) \subseteq Fold
      /\ IsFiniteSet(SummaryFolds(orig, final))
  <2> DEFINE span == SummarizedSpan(orig, final)
             S    == SummaryPositions(final)
             at   == Min(S)
  <2>1. CASE span = {}
    BY <2>1, FS_EmptySet DEF SummaryFolds
  <2>2. CASE span # {}
    <3>1. S # {} /\ S \in SUBSET Nat /\ S \subseteq DOMAIN final
      BY <1>1, <2>2 DEF SummarizedSpan, SummaryPositions
    <3>2. at \in DOMAIN final /\ at \in Nat
      BY <3>1, MinProps
    <3>3. CcrIdOf(final[at]) \in Text \cup {None}
      BY <1>1, <3>2, CcrIdType
    <3>4. span \in SUBSET Nat /\ span \in SUBSET (0 .. Len(orig))
      BY <1>1, <1>4
    <3>5. /\ Min(span) \in span /\ Max(span) \in span
          /\ Min(span) <= Max(span)
      BY <1>1, <2>2, <3>4, MinProps, MaxProps
    <3>6. Min(span) \in 1 .. Len(orig) /\ Max(span) \in 1 .. Len(orig)
      BY <1>1, <1>4, <3>5
    <3>7. "Summarized" \in FoldKinds
      BY DEF FoldKinds
    <3> DEFINE r == FoldRecord("Summarized", orig, Min(span), Max(span), at,
                               CcrIdOf(final[at]))
    <3>8. r \in Fold
      BY <3>2, <3>3, <3>5, <3>6, <3>7, FoldRecordType
    <3>9. SummaryFolds(orig, final) = {r}
      BY <2>2 DEF SummaryFolds
    <3> HIDE DEF r
    <3>10. QED
      BY <3>8, <3>9, FS_Singleton
  <2>3. QED
    BY <2>1, <2>2
<1>6. DroppedFolds(orig, final, dropped) \subseteq Fold
      /\ IsFiniteSet(DroppedFolds(orig, final, dropped))
  <2> DEFINE I == Missing(orig, final) \ SummarizedSpan(orig, final)
             has(i) == \E j \in DOMAIN dropped : dropped[j].idx = i
             pos(i) == CHOOSE j \in DOMAIN dropped : dropped[j].idx = i
             id(i)  == IF has(i) THEN CcrIdOf(dropped[pos(i)]) ELSE None
             f == [i \in I |-> FoldRecord("Dropped", orig, i, i, 0, id(i))]
  <2>1. I \subseteq DOMAIN orig
    BY DEF Missing
  <2>2. IsFiniteSet(I)
    BY <1>2, <2>1, FS_Subset
  <2>3. \A i \in I : id(i) \in Text \cup {None}
    <3>1. ASSUME NEW i \in I, has(i) PROVE CcrIdOf(dropped[pos(i)]) \in Text \cup {None}
      <4>1. pos(i) \in DOMAIN dropped
        BY <3>1
      <4>2. dropped[pos(i)] \in Message
        BY <1>1, <4>1
      <4>3. QED
        BY <4>2, CcrIdType
    <3>2. QED
      BY <3>1
  <2>4. DroppedFolds(orig, final, dropped) = {f[i] : i \in I}
    BY DEF DroppedFolds
  <2> HIDE DEF id, I
  <2>5. ASSUME NEW i \in I PROVE f[i] \in Fold
    <3>1. i \in 1 .. Len(orig) /\ i <= i
      BY <1>1, <2>1
    <3>2. "Dropped" \in FoldKinds /\ 0 \in Nat
      BY DEF FoldKinds
    <3>3. QED
      BY <2>3, <3>1, <3>2, FoldRecordType
  <2>6. DOMAIN f = I /\ f = [i \in DOMAIN f |-> f[i]]
    OBVIOUS
  <2> HIDE DEF f
  <2>7. IsFiniteSet({f[i] : i \in DOMAIN f})
    BY <2>2, <2>6, FiniteImage
  <2>8. QED
    BY <2>4, <2>5, <2>6, <2>7
<1>7. QED
  BY <1>3, <1>5, <1>6, FS_Union DEF BuildFolds
-----------------------------------------------------------------------------
(* Lists of messages, whoever runs the steps on them *)

\* The messages of both: those of a session, and the flat projections of rich
\* messages, which may have the id of a saved message.
Listed ==
  {m \in [role : Roles, err : BOOLEAN, text : Text,
          ccr : Text \cup {None} \cup [rich : Nat], pinned : BOOLEAN,
          fin : BOOLEAN, idx : Nat] :
     m.role = "tool" => m.text \in Key}

\* A list of a session's messages is one.
LEMMA MessagesListed ==
  Message \subseteq Listed /\ \A w \in Seq(Message) : w \in Seq(Listed)
<1>1. Message \subseteq Listed
  BY DEF Message, Listed
<1>2. QED
  BY <1>1, SeqMonotonic

\* What the lemmas need of such a message.
LEMMA ListedFacts ==
  ASSUME NEW m \in Listed
  PROVE  /\ m.role \in Roles /\ m.text \in Text /\ m.idx \in Nat
         /\ m.role = "tool" => m.text \in Key
BY DEF Listed
-----------------------------------------------------------------------------
(* Pieces of a list, for lists of anything *)

\* A list without its elements a .. b, and the positions of what is left.
Without(w, a, b) == SubSeq(w, 1, a - 1) \o SubSeq(w, b + 1, Len(w))

\* v is w without the elements a .. b.
CutOf(v, w, a, b) ==
  /\ Len(v) = Len(w) - (b + 1 - a) /\ DOMAIN v = 1 .. Len(w) - (b + 1 - a)
  /\ Len(w) \in Nat /\ DOMAIN w = 1 .. Len(w) /\ b + 1 - a \in Nat
  /\ \A j \in 1 .. Len(w) - (b + 1 - a) :
       v[j] = IF j < a THEN w[j] ELSE w[j + (b + 1 - a)]

\* Cutting out the elements a .. b leaves the others, in order.
LEMMA CutIs ==
  ASSUME NEW S, NEW w \in Seq(S), NEW a \in Nat \ {0}, NEW b \in Nat,
         a <= b + 1, b <= Len(w)
  PROVE  Without(w, a, b) \in Seq(S) /\ CutOf(Without(w, a, b), w, a, b)
<1> DEFINE p == SubSeq(w, 1, a - 1)
           q == SubSeq(w, b + 1, Len(w))
<1>1. Len(w) \in Nat /\ DOMAIN w = 1 .. Len(w)
  BY LenProperties
<1>2. /\ p \in Seq(S) /\ Len(p) = a - 1
      /\ \A i \in 1 .. a - 1 : p[i] = w[i]
  <2>1. a - 1 \in Nat /\ a - 1 <= Len(w) /\ 1 <= (a - 1) + 1
    BY <1>1
  <2>2. \A i \in 1 .. a - 1 : 1 + i - 1 = i /\ i \in 1 .. (a - 1) + 1 - 1
    OBVIOUS
  <2>3. QED
    BY <2>1, <2>2, PieceFacts
<1>3. /\ q \in Seq(S) /\ Len(q) = Len(w) - b
      /\ \A i \in 1 .. Len(w) - b : q[i] = w[b + i]
  <2>1. b + 1 \in Nat \ {0} /\ b + 1 <= Len(w) + 1 /\ Len(w) \in Nat
    BY <1>1
  <2>2. /\ q \in Seq(S) /\ Len(q) = Len(w) + 1 - (b + 1)
        /\ \A i \in 1 .. Len(w) + 1 - (b + 1) : q[i] = w[(b + 1) + i - 1]
    BY <2>1, PieceFacts
  <2>3. Len(w) + 1 - (b + 1) = Len(w) - b
        /\ \A i \in 1 .. Len(w) - b : (b + 1) + i - 1 = b + i
    <3> DEFINE n == Len(w)
    <3>1. n \in Nat
      BY <1>1
    <3> HIDE DEF n
    <3>2. n + 1 - (b + 1) = n - b /\ \A i \in 1 .. n - b : (b + 1) + i - 1 = b + i
      BY <3>1
    <3>3. QED
      BY <3>2 DEF n
  <2> HIDE DEF q
  <2>4. QED
    BY <2>2, <2>3
<1> HIDE DEF p, q
<1>4. /\ p \o q \in Seq(S) /\ Len(p \o q) = Len(p) + Len(q)
      /\ \A i \in 1 .. Len(p) + Len(q) :
           (p \o q)[i] = IF i <= Len(p) THEN p[i] ELSE q[i - Len(p)]
  BY <1>2, <1>3, ConcatProperties
<1>5. Len(p) + Len(q) = Len(w) - (b + 1 - a)
  BY <1>1, <1>2, <1>3
<1>6. ASSUME NEW j \in 1 .. Len(w) - (b + 1 - a)
      PROVE  (p \o q)[j] = IF j < a THEN w[j] ELSE w[j + (b + 1 - a)]
  <2>1. CASE j < a
    BY <1>1, <1>2, <1>3, <1>4, <1>5, <2>1
  <2>2. CASE ~(j < a)
    <3>1. j - Len(p) \in 1 .. Len(w) - b /\ b + (j - Len(p)) = j + (b + 1 - a)
      BY <1>1, <1>2, <2>2
    <3>2. (p \o q)[j] = q[j - Len(p)]
      <4>1. j \in 1 .. Len(p) + Len(q) /\ ~(j <= Len(p))
        BY <1>1, <1>2, <1>5, <2>2
      <4>2. QED
        BY <1>4, <4>1
    <3>3. QED
      BY <1>3, <2>2, <3>1, <3>2
  <2>3. QED
    BY <2>1, <2>2
<1>7. b + 1 - a \in Nat /\ DOMAIN (p \o q) = 1 .. Len(p \o q)
  BY <1>4, LenProperties
<1>8. Without(w, a, b) = p \o q
  BY DEF Without, p, q
<1> DEFINE v == p \o q
<1>9. /\ v \in Seq(S) /\ Len(v) = Len(w) - (b + 1 - a)
      /\ DOMAIN v = 1 .. Len(w) - (b + 1 - a)
      /\ Len(w) \in Nat /\ DOMAIN w = 1 .. Len(w) /\ b + 1 - a \in Nat
      /\ \A j \in 1 .. Len(w) - (b + 1 - a) :
           v[j] = IF j < a THEN w[j] ELSE w[j + (b + 1 - a)]
  BY <1>1, <1>4, <1>5, <1>6, <1>7
<1> HIDE DEF v
<1>10. v \in Seq(S) /\ CutOf(v, w, a, b)
  BY <1>9, Zenon DEF CutOf
<1>11. QED
  BY <1>8, <1>10 DEF v

\* The same, written out.
LEMMA CutFacts ==
  ASSUME NEW S, NEW w \in Seq(S), NEW a \in Nat \ {0}, NEW b \in Nat,
         a <= b + 1, b <= Len(w)
  PROVE  /\ Without(w, a, b) \in Seq(S)
         /\ Len(Without(w, a, b)) = Len(w) - (b + 1 - a)
         /\ DOMAIN Without(w, a, b) = 1 .. Len(w) - (b + 1 - a)
         /\ Len(w) \in Nat /\ DOMAIN w = 1 .. Len(w) /\ b + 1 - a \in Nat
         /\ \A j \in 1 .. Len(w) - (b + 1 - a) :
              Without(w, a, b)[j] = IF j < a THEN w[j] ELSE w[j + (b + 1 - a)]
<1> DEFINE v == Without(w, a, b)
<1>1. v \in Seq(S) /\ CutOf(v, w, a, b)
  BY CutIs, Zenon
<1> HIDE DEF v
<1>2. /\ v \in Seq(S)
      /\ Len(v) = Len(w) - (b + 1 - a)
      /\ DOMAIN v = 1 .. Len(w) - (b + 1 - a)
      /\ Len(w) \in Nat /\ DOMAIN w = 1 .. Len(w) /\ b + 1 - a \in Nat
      /\ \A j \in 1 .. Len(w) - (b + 1 - a) :
           v[j] = IF j < a THEN w[j] ELSE w[j + (b + 1 - a)]
  BY <1>1, Zenon DEF CutOf
<1>3. QED
  BY <1>2, Zenon DEF v

\* The old band ends before the first pinned message, and leaves alone at least
\* what is preserved (conversation.rs, clamp_before_pinned).
LEMMA BandFacts ==
  ASSUME NEW S, NEW w \in Seq(S), NEW preserve \in Nat, NEW middle \in Nat,
         Len(w) > preserve
  PROVE  /\ BandStart(w, preserve, middle) \in 0 .. Len(w) - preserve
         /\ \A i \in 1 .. BandStart(w, preserve, middle) : ~w[i].pinned
<1> DEFINE recent == Len(w) - preserve
           b      == IF recent > middle THEN recent - middle ELSE 0
           A      == {c \in 0 .. b : c = 0 \/ w[c + 1].role # "tool"}
           a      == AlignBandStart(w, b)
           P      == {c \in 0 .. a - 1 : w[c + 1].pinned}
           C      == P \cup {a}
<1>1. Len(w) \in Nat /\ recent \in Nat /\ b \in 0 .. recent
  BY LenProperties
<1> HIDE DEF b, recent
<1>2. a \in 0 .. recent
  <2>1. A \in SUBSET (0 .. b) /\ 0 \in A /\ b \in Nat
    BY <1>1
  <2> HIDE DEF A
  <2>2. Max(A) \in A
    BY <2>1, MaxProps
  <2>3. Max(A) \in 0 .. b
    BY <2>1, <2>2
  <2>4. a = IF b >= Len(w) THEN b ELSE Max(A)
    BY DEF AlignBandStart, A
  <2>5. QED
    BY <1>1, <2>3, <2>4
<1> HIDE DEF a
<1>3. C \in SUBSET Nat /\ C # {} /\ C \subseteq 0 .. recent
  BY <1>1, <1>2
<1> HIDE DEF C
<1>4. Min(C) \in C /\ \A c \in C : Min(C) <= c
  BY <1>3, MinProps
<1>5. \A i \in 1 .. Min(C) : ~w[i].pinned
  <2> SUFFICES ASSUME NEW i \in 1 .. Min(C), w[i].pinned PROVE FALSE
    OBVIOUS
  <2>1. i - 1 \in 0 .. a - 1 /\ (i - 1) + 1 = i
    <3>1. Min(C) <= a /\ Min(C) \in Nat
      BY <1>3, <1>4 DEF C
    <3>2. QED
      BY <1>2, <3>1
  <2>2. i - 1 \in P
    BY <2>1
  <2>3. Min(C) <= i - 1 /\ Min(C) \in Nat
    BY <1>3, <1>4, <2>2 DEF C
  <2>4. QED
    BY <2>3
<1>6. BandStart(w, preserve, middle) = Min(C)
  BY DEF BandStart, ClampBeforePinned, a, b, recent, C
<1>7. QED
  BY <1>3, <1>4, <1>5, <1>6 DEF recent

\* a .. b is the group of the head a.
GroupRange(w, a, b) ==
  /\ a \in Heads(w) /\ b \in a .. Len(w)
  /\ a # b => FollowsCall(w, a, b)
  /\ \A i \in DOMAIN w : FollowsCall(w, a, i) => i <= b

\* The range that is dropped is a group, every message of which may go.
LEMMA DropRangeFacts ==
  ASSUME NEW S, NEW w \in Seq(S), NEW cfg, CanDrop(w, cfg)
  PROVE  /\ DropRange(w, cfg)[1] \in 1 .. Len(w)
         /\ DropRange(w, cfg)[2] \in DropRange(w, cfg)[1] .. Len(w)
         /\ \A i \in DropRange(w, cfg)[1] .. DropRange(w, cfg)[2] :
              MemberDroppable(w, cfg, i)
         /\ GroupRange(w, DropRange(w, cfg)[1], DropRange(w, cfg)[2])
<1> DEFINE H == DroppableHeads(w, cfg)
           h == Min(H)
           G == Group(w, h)
           l == Max(G)
<1>1. DropRange(w, cfg) = <<h, l>>
  BY DEF DropRange
<1>2. Len(w) \in Nat /\ DOMAIN w = 1 .. Len(w)
  BY LenProperties
<1>3. h \in H
  <2>1. H \in SUBSET Nat /\ H # {}
    BY <1>2 DEF CanDrop, DroppableHeads, Heads
  <2> HIDE DEF H
  <2>2. QED
    BY <2>1, MinProps
<1>4. /\ h \in 1 .. Len(w) /\ h \in Heads(w)
      /\ \A i \in G : MemberDroppable(w, cfg, i)
  BY <1>2, <1>3 DEF DroppableHeads, Heads
<1> HIDE DEF h
<1>5. G \in SUBSET (0 .. Len(w)) /\ h \in G /\ G \subseteq h .. Len(w)
  <2>1. \A i \in DOMAIN w : FollowsCall(w, h, i) => i \in h .. Len(w)
    BY <1>2, <1>4 DEF FollowsCall
  <2>2. QED
    BY <1>2, <1>4, <2>1 DEF Group
<1>6. l \in G /\ \A i \in G : i <= l
  <2> HIDE DEF G
  <2>1. QED
    BY <1>2, <1>5, MaxProps
<1>7. \A i \in h .. l : i \in G
  <2> SUFFICES ASSUME NEW i \in h .. l, i # h PROVE FollowsCall(w, h, i) /\ i \in DOMAIN w
    BY <1>5 DEF Group
  <2>1. l \in h .. Len(w)
    BY <1>5, <1>6
  <2> HIDE DEF l
  <2>2. FollowsCall(w, h, l)
    BY <1>4, <1>6, <2>1 DEF Group
  <2>3. h < i /\ i <= l /\ i \in DOMAIN w
    BY <1>2, <1>4, <2>1
  <2>4. h + 1 .. i \subseteq h + 1 .. l
    BY <1>4, <2>1, <2>3
  <2>5. QED
    BY <2>2, <2>3, <2>4 DEF FollowsCall
<1>8. l \in h .. Len(w)
  BY <1>5, <1>6
<1>9. GroupRange(w, h, l)
  <2>1. h # l => FollowsCall(w, h, l)
    BY <1>6 DEF Group
  <2>2. \A i \in DOMAIN w : FollowsCall(w, h, i) => i <= l
    BY <1>6 DEF Group
  <2> HIDE DEF l
  <2>3. QED
    BY <1>4, <1>8, <2>1, <2>2 DEF GroupRange
<1> HIDE DEF l, G
<1>10. QED
  BY <1>1, <1>4, <1>7, <1>8, <1>9
-----------------------------------------------------------------------------
(* Where the messages of a cascade come from *)

\* A message of the working copy comes from the original at its tag; without a
\* tag it is a summary.
Comes(ms, m) ==
  IF m.idx = 0
  THEN m.role = "system" /\ ~m.err /\ ~m.pinned /\ ~m.fin
  ELSE /\ m.idx \in DOMAIN ms
       /\ m.role = ms[m.idx].role /\ m.err = ms[m.idx].err
       /\ m.fin = ms[m.idx].fin
       /\ m.pinned = (ms[m.idx].pinned \/ ms[m.idx].fin)
       /\ m.pinned => m.text = ms[m.idx].text /\ m.ccr = ms[m.idx].ccr

\* The tags stand in order, none twice.
Ordered(w) ==
  \A j, k \in DOMAIN w :
    j < k /\ w[j].idx # 0 /\ w[k].idx # 0 => w[j].idx < w[k].idx

PinnedThere(ms, w) ==
  \A i \in DOMAIN ms :
    ms[i].pinned \/ ms[i].fin => \E j \in DOMAIN w : w[j].idx = i

Traced(ms, w) ==
  /\ \A j \in DOMAIN w : Comes(ms, w[j])
  /\ Ordered(w)
  /\ PinnedThere(ms, w)

\* A rewrite of the text that spares what is pinned.
Recast(m, x) ==
  /\ x.idx = m.idx /\ x.role = m.role /\ x.err = m.err
  /\ x.pinned = m.pinned /\ x.fin = m.fin
  /\ m.pinned => x.text = m.text /\ x.ccr = m.ccr

\* Rewriting messages in place keeps a list traced.
LEMMA RewriteTraced ==
  ASSUME NEW ms, NEW w, NEW v, Traced(ms, w), DOMAIN v = DOMAIN w,
         \A i \in DOMAIN w : Recast(w[i], v[i])
  PROVE  Traced(ms, v)
<1>1. \A j \in DOMAIN v : Comes(ms, v[j])
  BY DEF Traced, Comes, Recast
<1>2. Ordered(v)
  BY DEF Traced, Ordered, Recast
<1>3. PinnedThere(ms, v)
  BY DEF Traced, PinnedThere, Recast
<1>4. QED
  BY <1>1, <1>2, <1>3 DEF Traced

\* Cutting out messages that are not pinned keeps a list traced.
LEMMA CutTraced ==
  ASSUME NEW ms \in Seq(Listed), NEW S, NEW w \in Seq(S), Traced(ms, w),
         NEW a \in Nat \ {0}, NEW b \in Nat, a <= b + 1, b <= Len(w),
         \A i \in a .. b : ~w[i].pinned
  PROVE  Traced(ms, Without(w, a, b))
<1> DEFINE cut  == b + 1 - a
           rest == Without(w, a, b)
           old(j) == IF j < a THEN j ELSE j + cut
           n == Len(w)
<1>1. /\ DOMAIN rest = 1 .. n - cut /\ DOMAIN w = 1 .. n
      /\ cut \in Nat /\ n \in Nat
      /\ \A j \in 1 .. n - cut : rest[j] = IF j < a THEN w[j] ELSE w[j + cut]
  <2>1. CutOf(rest, w, a, b)
    BY CutIs, Zenon
  <2> HIDE DEF rest
  <2>2. QED
    BY <2>1, Zenon DEF CutOf
<1>2. cut = b + 1 - a /\ b <= n
  OBVIOUS
<1> HIDE DEF rest, cut, n
<1>3. \A j \in 1 .. n - cut : rest[j] = w[old(j)]
  BY <1>1
<1>4. \A j \in DOMAIN rest : old(j) \in DOMAIN w
  BY <1>1, <1>2
<1>5. \A j, k \in DOMAIN rest : j < k => old(j) < old(k)
  BY <1>1
<1>6. \A i \in DOMAIN w : i \in a .. b \/ \E j \in DOMAIN rest : old(j) = i
  <2> SUFFICES ASSUME NEW i \in DOMAIN w, i \notin a .. b
               PROVE  \E j \in DOMAIN rest : old(j) = i
    OBVIOUS
  <2>1. CASE i < a
    <3>1. i \in DOMAIN rest /\ old(i) = i
      BY <1>1, <1>2, <2>1
    <3>2. QED
      BY <3>1
  <2>2. CASE ~(i < a)
    <3>1. i - cut \in DOMAIN rest /\ old(i - cut) = i
      BY <1>1, <1>2, <2>2
    <3>2. QED
      BY <3>1
  <2>3. QED
    BY <2>1, <2>2
<1> HIDE DEF old
<1>7. \A j \in DOMAIN rest : Comes(ms, rest[j])
  BY <1>1, <1>3, <1>4 DEF Traced
<1>8. Ordered(rest)
  BY <1>1, <1>3, <1>4, <1>5 DEF Traced, Ordered
<1>9. PinnedThere(ms, rest)
  <2> SUFFICES ASSUME NEW i \in DOMAIN ms, ms[i].pinned \/ ms[i].fin
               PROVE  \E j \in DOMAIN rest : rest[j].idx = i
    BY DEF PinnedThere
  <2>1. i # 0
    BY LenProperties
  <2>2. PICK k \in DOMAIN w : w[k].idx = i
    BY DEF Traced, PinnedThere
  <2>3. w[k].pinned
    BY <2>1, <2>2 DEF Traced, Comes
  <2>4. PICK j \in DOMAIN rest : old(j) = k
    BY <1>6, <2>3
  <2>5. QED
    BY <1>1, <1>3, <2>2, <2>4
<1>10. QED
  BY <1>7, <1>8, <1>9 DEF Traced, rest

\* Step 1 clears no pinned message.
LEMMA RulesTraced ==
  ASSUME NEW ms, NEW w \in Seq(Listed), Traced(ms, w), NEW cfg, NEW F
  PROVE  Traced(ms, AgentRules(w, cfg, F))
<1>1. \A i \in DOMAIN w : w[i] \in Listed
  BY ElementOfSeq, LenProperties
<1>2. ASSUME NEW i \in DOMAIN w PROVE Recast(w[i], AgentRules(w, cfg, F)[i])
  <2>1. CASE i \in ClearSet(w, cfg) \ F
    <3>1. ~w[i].pinned
      BY <2>1 DEF ClearSet, Clearable
    <3>2. AgentRules(w, cfg, F)[i] = ClearedMessage(w[i])
      BY <2>1 DEF AgentRules
    <3>3. QED
      BY <1>1, <3>1, <3>2 DEF ClearedMessage, Recast, Listed
  <2>2. CASE i \notin ClearSet(w, cfg) \ F
    BY <2>2 DEF AgentRules, Recast
  <2>3. QED
    BY <2>1, <2>2
<1>3. DOMAIN AgentRules(w, cfg, F) = DOMAIN w
  BY DEF AgentRules
<1>4. QED
  BY <1>2, <1>3, RewriteTraced

\* Band 2 puts pinned messages back.
LEMMA PipeTraced ==
  ASSUME NEW ms, NEW w \in Seq(Listed), Traced(ms, w), NEW cfg, NEW p, NEW F
  PROVE  Traced(ms, PipeBand(w, cfg, p, F))
<1>1. \A i \in DOMAIN w : w[i] \in Listed
  BY ElementOfSeq, LenProperties
<1>2. ASSUME NEW i \in DOMAIN w PROVE Recast(w[i], PipeBand(w, cfg, p, F)[i])
  <2>1. CASE i \in PipedBand(w, p)
    <3>1. PipeBand(w, cfg, p, F)[i] = PipedMessage(w[i], cfg, i \in F)
      BY <2>1 DEF PipeBand
    <3>2. Recast(w[i], PipedMessage(w[i], cfg, i \in F))
      BY <1>1 DEF PipedMessage, Recast, Listed
    <3>3. QED
      BY <3>1, <3>2
  <2>2. CASE i \notin PipedBand(w, p)
    BY <2>2 DEF PipeBand, Recast
  <2>3. QED
    BY <2>1, <2>2
<1>3. DOMAIN PipeBand(w, cfg, p, F) = DOMAIN w
  BY DEF PipeBand
<1>4. QED
  BY <1>2, <1>3, RewriteTraced

\* A summary in front.
LEMMA HeadTraced ==
  ASSUME NEW ms, NEW S, NEW v \in Seq(S), Traced(ms, v),
         NEW m \in S, Comes(ms, m), m.idx = 0
  PROVE  Traced(ms, <<m>> \o v)
<1> DEFINE n == Len(v)
           x == <<m>> \o v
<1>1. n \in Nat /\ DOMAIN v = 1 .. n
  BY LenProperties
<1>2. <<m>> \in Seq(S) /\ Len(<<m>>) = 1 /\ <<m>>[1] = m
  OBVIOUS
<1>3. /\ x \in Seq(S) /\ Len(x) = 1 + n
      /\ \A i \in 1 .. 1 + n : x[i] = IF i <= 1 THEN <<m>>[i] ELSE v[i - 1]
  BY <1>2, ConcatProperties
<1>4. DOMAIN x = 1 .. 1 + n
  BY <1>3, LenProperties
<1> HIDE DEF x, n
<1>5. x[1] = m /\ \A i \in 1 .. n : x[i + 1] = v[i]
  <2>1. x[1] = m
    BY <1>1, <1>2, <1>3
  <2>2. ASSUME NEW i \in 1 .. n PROVE x[i + 1] = v[i]
    <3>1. i + 1 \in 1 .. 1 + n /\ ~(i + 1 <= 1) /\ (i + 1) - 1 = i
      BY <1>1
    <3>2. x[i + 1] = v[(i + 1) - 1]
      BY <1>3, <3>1
    <3>3. QED
      BY <3>1, <3>2
  <2>3. QED
    BY <2>1, <2>2
<1>6. \A j \in DOMAIN x : j = 1 \/ \E i \in DOMAIN v : j = i + 1
  <2> SUFFICES ASSUME NEW j \in DOMAIN x, j # 1
               PROVE  \E i \in DOMAIN v : j = i + 1
    OBVIOUS
  <2>1. j - 1 \in DOMAIN v /\ j = (j - 1) + 1
    BY <1>1, <1>4
  <2>2. QED
    BY <2>1
<1>7. \A j \in DOMAIN x : Comes(ms, x[j])
  BY <1>1, <1>5, <1>6 DEF Traced
<1>8. Ordered(x)
  <2> SUFFICES ASSUME NEW j \in DOMAIN x, NEW k \in DOMAIN x, j < k,
                      x[j].idx # 0, x[k].idx # 0
               PROVE  x[j].idx < x[k].idx
    BY DEF Ordered
  <2>1. PICK a \in DOMAIN v : j = a + 1
    BY <1>5, <1>6
  <2>2. PICK b \in DOMAIN v : k = b + 1
    BY <1>5, <1>6
  <2>3. a < b
    BY <1>1, <2>1, <2>2
  <2>4. QED
    BY <1>1, <1>5, <2>1, <2>2, <2>3 DEF Traced, Ordered
<1>9. PinnedThere(ms, x)
  <2>1. \A i \in DOMAIN v : i + 1 \in DOMAIN x /\ x[i + 1] = v[i]
    BY <1>1, <1>4, <1>5
  <2>2. QED
    BY <2>1 DEF Traced, PinnedThere
<1>10. QED
  BY <1>7, <1>8, <1>9 DEF Traced, x

\* Band 1 takes no pinned message away.
LEMMA OldBandTraced ==
  ASSUME NEW ms \in Seq(Listed), NEW w \in Seq(Listed), Traced(ms, w),
         NEW preserve \in Nat, NEW middle \in Nat, NEW summarize \in BOOLEAN
  PROVE  Traced(ms, AfterOldBand(w, preserve, middle, summarize))
<1> DEFINE b    == BandStart(w, preserve, middle)
           rest == SubSeq(w, b + 1, Len(w))
           m    == SummaryMessage(SubSeq(w, 1, b))
<1>1. Len(w) \in Nat
  BY LenProperties
<1>2. CASE Len(w) <= preserve
  BY <1>2 DEF AfterOldBand
<1>3. CASE ~(Len(w) <= preserve)
  <2>1. Len(w) > preserve
    BY <1>1, <1>3
  <2>2. b \in 0 .. Len(w) - preserve /\ \A i \in 1 .. b : ~w[i].pinned
    BY <2>1, BandFacts
  <2> HIDE DEF b
  <2>3. b \in Nat /\ 1 <= b + 1 /\ b <= Len(w)
    BY <1>1, <2>2
  <2>4. rest \in Seq(Listed) /\ Traced(ms, rest)
    <3>1. Traced(ms, Without(w, 1, b))
      BY <2>2, <2>3, CutTraced
    <3>2. b + 1 \in Nat \ {0} /\ Len(w) \in Int
      BY <1>1, <2>3
    <3>3. rest \in Seq(Listed)
      BY <3>2, PieceIsSeq
    <3>4. SubSeq(w, 1, 1 - 1) = <<>>
      BY SubSeqEmpty
    <3>5. Without(w, 1, b) = rest
      BY <3>3, <3>4, ConcatEmptySeq DEF Without
    <3>6. QED
      BY <3>1, <3>3, <3>5
  <2> HIDE DEF rest
  <2>5. m.idx = 0 /\ Comes(ms, m)
    BY DEF SummaryMessage, Comes
  <2> HIDE DEF m
  <2>6. rest \in Seq(Listed \cup {m}) /\ m \in Listed \cup {m}
    BY <2>4, SeqMonotonic
  <2>7. Traced(ms, <<m>> \o rest)
    BY <2>4, <2>5, <2>6, HeadTraced
  <2>8. <<>> \o rest = rest
    BY <2>4, ConcatEmptySeq
  <2>9. AfterOldBand(w, preserve, middle, summarize) =
          IF b = 0 THEN w ELSE (IF summarize THEN <<m>> ELSE <<>>) \o rest
    BY <1>3 DEF AfterOldBand, FoldOldBand, b, m, rest
  <2>10. QED
    BY <2>4, <2>7, <2>8, <2>9
<1>4. QED
  BY <1>2, <1>3
-----------------------------------------------------------------------------
(* Sums.  MapThenSumSet takes the elements of a set in an order that a CHOOSE *)
(* determines; that the order does not matter has to be shown first.          *)

\* The equation of the sums of t over the subsets of S.
SumStep(t, g, s) ==
  IF s = {} THEN 0 ELSE LET x == CHOOSE y \in s : TRUE IN t[x] + g[s \ {x}]

Sums(S, t, g) == g = [s \in SUBSET S |-> SumStep(t, g, s)]

TheSums(S, t) == CHOOSE g : Sums(S, t, g)

\* There is a function of the sums.
LEMMA SumsExist ==
  ASSUME NEW S, IsFiniteSet(S), NEW t \in [S -> Nat]
  PROVE  \E g \in [SUBSET S -> Nat] : Sums(S, t, g)
<1> DEFINE small(k) == {s \in SUBSET S : Cardinality(s) <= k}
           G == {k \in Nat : \E g \in [SUBSET S -> Nat] :
                               \A s \in small(k) : g[s] = SumStep(t, g, s)}
<1>1. \A s \in SUBSET S : IsFiniteSet(s) /\ Cardinality(s) \in Nat
  BY FS_Subset, FS_CardinalityType
<1>2. \A s \in SUBSET S : s # {} => (CHOOSE y \in s : TRUE) \in s
  OBVIOUS
<1>3. 0 \in G
  <2> DEFINE g == [s \in SUBSET S |-> 0]
  <2>1. \A s \in small(0) : s = {}
    BY <1>1, FS_EmptySet
  <2>2. \A s \in small(0) : g[s] = SumStep(t, g, s)
    BY <2>1 DEF SumStep
  <2>3. g \in [SUBSET S -> Nat]
    OBVIOUS
  <2>4. QED
    BY <2>2, <2>3
<1>4. ASSUME NEW k \in G PROVE k + 1 \in G
  <2>1. PICK g \in [SUBSET S -> Nat] : \A s \in small(k) : g[s] = SumStep(t, g, s)
    OBVIOUS
  <2> DEFINE h == [s \in SUBSET S |-> SumStep(t, g, s)]
  <2>2. ASSUME NEW s \in SUBSET S PROVE SumStep(t, g, s) \in Nat
    <3> DEFINE x == CHOOSE y \in s : TRUE
    <3>1. CASE s = {}
      BY <3>1 DEF SumStep
    <3>2. CASE s # {}
      <4>1. x \in S /\ s \ {x} \in SUBSET S
        BY <1>2, <3>2
      <4>2. SumStep(t, g, s) = t[x] + g[s \ {x}]
        BY <3>2 DEF SumStep
      <4> HIDE DEF x
      <4>3. t[x] \in Nat /\ g[s \ {x}] \in Nat
        BY <4>1
      <4>4. QED
        BY <4>2, <4>3
    <3>3. QED
      BY <3>1, <3>2
  <2>3. h \in [SUBSET S -> Nat]
    BY <2>2
  <2>4. ASSUME NEW s \in small(k + 1) PROVE h[s] = SumStep(t, h, s)
    <3>1. CASE s = {}
      BY <3>1 DEF SumStep
    <3>2. CASE s # {}
      <4> DEFINE x == CHOOSE y \in s : TRUE
      <4>1. x \in s /\ s \ {x} \in SUBSET S
        BY <1>2, <3>2
      <4> HIDE DEF x
      <4>2. s \ {x} \in small(k)
        <5>1. /\ Cardinality(s \ {x}) \in Nat
              /\ Cardinality(s) = Cardinality(s \ {x}) + 1
          BY <1>1, <4>1, LessOne
        <5>2. Cardinality(s) <= k + 1 /\ k \in Nat
          OBVIOUS
        <5>3. QED
          BY <4>1, <5>1, <5>2
      <4>3. h[s \ {x}] = g[s \ {x}]
        BY <2>1, <4>1, <4>2
      <4>4. QED
        BY <3>2, <4>3 DEF SumStep, x
    <3>3. QED
      BY <3>1, <3>2
  <2> HIDE DEF h, small
  <2>5. \E f \in [SUBSET S -> Nat] : \A s \in small(k + 1) : f[s] = SumStep(t, f, s)
    BY <2>3, <2>4
  <2>6. QED
    BY <2>5
<1>5. G \in SUBSET Nat
  OBVIOUS
<1> HIDE DEF G
<1>6. Cardinality(S) \in G
  BY <1>1, <1>3, <1>4, <1>5, FromZero
<1>7. PICK g \in [SUBSET S -> Nat] :
        \A s \in small(Cardinality(S)) : g[s] = SumStep(t, g, s)
  BY <1>6 DEF G
<1>8. \A s \in SUBSET S : s \in small(Cardinality(S))
  BY FS_Subset
<1>9. QED
  BY <1>7, <1>8 DEF Sums

\* Whatever the sets they are made for, the sums of the same values are equal.
LEMMA SumsAgree ==
  ASSUME NEW S, IsFiniteSet(S), NEW t, NEW g, Sums(S, t, g),
         NEW T, NEW u, NEW h, Sums(T, u, h),
         NEW R, R \subseteq S, R \subseteq T, \A x \in R : t[x] = u[x]
  PROVE  g[R] = h[R]
<1> DEFINE G == {k \in Nat : \A s \in SUBSET R : Cardinality(s) = k => g[s] = h[s]}
<1>1. \A s \in SUBSET R : /\ IsFiniteSet(s) /\ Cardinality(s) \in Nat
                         /\ g[s] = SumStep(t, g, s) /\ h[s] = SumStep(u, h, s)
  BY FS_Subset, FS_CardinalityType DEF Sums
<1>2. 0 \in G
  <2>1. \A s \in SUBSET R : Cardinality(s) = 0 => s = {}
    BY <1>1, FS_EmptySet
  <2>2. QED
    BY <1>1, <2>1 DEF SumStep
<1>3. ASSUME NEW k \in G PROVE k + 1 \in G
  <2>1. ASSUME NEW s \in SUBSET R, Cardinality(s) = k + 1 PROVE g[s] = h[s]
    <3> DEFINE x == CHOOSE y \in s : TRUE
    <3>1. s # {}
      BY <2>1, FS_EmptySet
    <3>2. x \in s
      BY <3>1
    <3>3. g[s] = t[x] + g[s \ {x}] /\ h[s] = u[x] + h[s \ {x}]
      BY <1>1, <3>1 DEF SumStep
    <3> HIDE DEF x
    <3>4. Cardinality(s \ {x}) = k /\ s \ {x} \in SUBSET R
      <4>1. /\ Cardinality(s \ {x}) \in Nat
            /\ Cardinality(s) = Cardinality(s \ {x}) + 1
        BY <1>1, <3>2, LessOne
      <4>2. QED
        BY <2>1, <4>1
    <3>5. g[s \ {x}] = h[s \ {x}] /\ t[x] = u[x]
      BY <3>2, <3>4
    <3>6. QED
      BY <3>3, <3>5
  <2>2. QED
    BY <2>1
<1>4. G \in SUBSET Nat
  OBVIOUS
<1> HIDE DEF G
<1>5. \A k \in Nat : k \in G
  BY <1>2, <1>3, <1>4, FromZero
<1>6. Cardinality(R) \in G /\ R \in SUBSET R
  BY <1>1, <1>5
<1>7. QED
  BY <1>6 DEF G

\* The sums of naturals.
Adds(S, t, g) ==
  IsFiniteSet(S) /\ t \in [S -> Nat] /\ g \in [SUBSET S -> Nat] /\ Sums(S, t, g)

\* Any element of S may be taken first.
AnyFirst(S, t, g) == \A x \in S : g[S] = t[x] + g[S \ {x}]

\* The order in which the elements are taken does not matter.
LEMMA SumsAnyOrder ==
  ASSUME NEW S, NEW t, NEW g, Adds(S, t, g)
  PROVE  AnyFirst(S, t, g)
<1> DEFINE G == {k \in Nat : \A s \in SUBSET S : Cardinality(s) = k =>
                               \A x \in s : g[s] = t[x] + g[s \ {x}]}
<1> USE DEF Adds
<1>1. \A s \in SUBSET S : /\ IsFiniteSet(s) /\ Cardinality(s) \in Nat
                         /\ g[s] = SumStep(t, g, s)
  BY FS_Subset, FS_CardinalityType DEF Sums
<1>2. 0 \in G
  BY <1>1, FS_EmptySet
<1>3. ASSUME NEW k \in G PROVE k + 1 \in G
  <2>1. ASSUME NEW s \in SUBSET S, Cardinality(s) = k + 1, NEW x \in s
        PROVE  g[s] = t[x] + g[s \ {x}]
    <3> DEFINE c == CHOOSE y \in s : TRUE
    <3>1. c \in s /\ g[s] = t[c] + g[s \ {c}]
      BY <1>1 DEF SumStep
    <3> HIDE DEF c
    <3>2. CASE x = c
      BY <3>1, <3>2
    <3>3. CASE x # c
      <4>1. /\ s \ {x} \in SUBSET S /\ c \in s \ {x}
            /\ s \ {c} \in SUBSET S /\ x \in s \ {c}
            /\ (s \ {x}) \ {c} = (s \ {c}) \ {x}
        BY <3>1, <3>3
      <4>2. Cardinality(s \ {x}) = k /\ Cardinality(s \ {c}) = k
        <5>1. /\ Cardinality(s \ {x}) \in Nat
              /\ Cardinality(s) = Cardinality(s \ {x}) + 1
              /\ Cardinality(s \ {c}) \in Nat
              /\ Cardinality(s) = Cardinality(s \ {c}) + 1
          BY <1>1, <3>1, LessOne
        <5>2. QED
          BY <2>1, <5>1
      <4>3. /\ g[s \ {x}] = t[c] + g[(s \ {x}) \ {c}]
            /\ g[s \ {c}] = t[x] + g[(s \ {c}) \ {x}]
        BY <4>1, <4>2
      <4> DEFINE r == (s \ {x}) \ {c}
      <4>4. t[c] \in Nat /\ t[x] \in Nat /\ g[r] \in Nat
        BY <3>1
      <4> HIDE DEF r
      <4>5. /\ g[s \ {x}] = t[c] + g[r] /\ g[s \ {c}] = t[x] + g[r]
        BY <4>1, <4>3 DEF r
      <4>6. t[c] + (t[x] + g[r]) = t[x] + (t[c] + g[r])
        BY <4>4
      <4>7. QED
        BY <3>1, <4>5, <4>6
    <3>4. QED
      BY <3>2, <3>3
  <2>2. QED
    BY <2>1
<1>4. G \in SUBSET Nat
  OBVIOUS
<1> HIDE DEF G
<1>5. \A k \in Nat : k \in G
  BY <1>2, <1>3, <1>4, FromZero
<1>6. Cardinality(S) \in G /\ S \in SUBSET S
  BY <1>1, <1>5
<1>7. QED
  BY <1>6 DEF G, AnyFirst
-----------------------------------------------------------------------------
(* Token counts *)

\* The token count of a text is a number.
LEMMA TokensType ==
  ASSUME NEW x \in Text
  PROVE  Tokens(x) \in Nat
  BY TextAssumption DEF Tokens

\* The counts of the messages at positions i and after.
Counts(ms, i) == [j \in i .. Len(ms) |-> Tokens(ms[j].text)]

\* TokensFrom is such a sum.
LEMMA TokensSum ==
  ASSUME NEW ms \in Seq(Listed), NEW i \in Nat \ {0}
  PROVE  \E g \in [SUBSET (i .. Len(ms)) -> Nat] :
           /\ Sums(i .. Len(ms), Counts(ms, i), g)
           /\ TokensFrom(ms, i) = g[i .. Len(ms)]
<1> DEFINE S == i .. Len(ms)
           t == Counts(ms, i)
           g == TheSums(S, t)
<1>1. Len(ms) \in Nat /\ DOMAIN ms = 1 .. Len(ms)
      /\ \A j \in DOMAIN ms : ms[j] \in Listed
  BY LenProperties, ElementOfSeq
<1>2. TokensFrom(ms, i) = g[S]
  <2> DEFINE Plus(h, s) == IF s = {} THEN 0
                           ELSE Tokens(ms[CHOOSE x \in s : TRUE].text)
                                  + h[s \ {CHOOSE x \in s : TRUE}]
             Code(h) == [s \in SUBSET S |-> Plus(h, s)]
             Mine(h) == [s \in SUBSET S |-> SumStep(t, h, s)]
  <2>1. ASSUME NEW h, NEW s \in SUBSET S PROVE Plus(h, s) = SumStep(t, h, s)
    <3>1. CASE s = {}
      BY <3>1 DEF SumStep
    <3>2. CASE s # {}
      <4>1. (CHOOSE x \in s : TRUE) \in s
        BY <3>2
      <4>2. \A j \in S : t[j] = Tokens(ms[j].text)
        BY DEF Counts
      <4>3. t[CHOOSE x \in s : TRUE] = Tokens(ms[CHOOSE x \in s : TRUE].text)
        <5> HIDE DEF S, t
        <5>1. QED
          BY <4>1, <4>2
      <4> HIDE DEF S, t
      <4>4. QED
        BY <3>2, <4>3 DEF SumStep
    <3>3. QED
      BY <3>1, <3>2
  <2>2. \A h : Code(h) = Mine(h)
    BY <2>1
  <2>3. g = CHOOSE h : h = Mine(h)
    BY Zenon DEF TheSums, Sums
  <2>4. TokensFrom(ms, i) = (CHOOSE h : h = Code(h))[S]
    BY Zenon DEF TokensFrom, MapThenSumSet, MapThenFoldSet
  <2> HIDE DEF Code, Mine, g
  <2>5. (CHOOSE h : h = Code(h)) = (CHOOSE h : h = Mine(h))
    BY <2>2
  <2>6. QED
    BY <2>3, <2>4, <2>5
<1>3. t \in [S -> Nat]
  <2>1. \A j \in S : j \in DOMAIN ms
    BY <1>1
  <2>2. \A j \in S : Tokens(ms[j].text) \in Nat
    BY <1>1, <2>1, ListedFacts, TokensType
  <2>3. QED
    BY <2>2 DEF Counts
<1>4. IsFiniteSet(S)
  BY <1>1, FS_Interval
<1> HIDE DEF S, t
<1>5. PICK h \in [SUBSET S -> Nat] : Sums(S, t, h)
  BY <1>3, <1>4, SumsExist
<1>6. Sums(S, t, g)
  BY <1>5 DEF TheSums
<1> HIDE DEF g
<1>7. \A s \in SUBSET S : g[s] = h[s]
  BY <1>4, <1>5, <1>6, SumsAgree
<1>8. g \in [SUBSET S -> Nat]
  <2>1. g = [s \in SUBSET S |-> SumStep(t, g, s)]
    BY <1>6 DEF Sums
  <2>2. QED
    BY <1>7, <2>1
<1>9. QED
  BY <1>2, <1>6, <1>8 DEF S, t

\* TokensFrom counts the message at i, then those after it, and nothing beyond
\* the end.
LEMMA TokensFromFacts ==
  ASSUME NEW ms \in Seq(Listed), NEW i \in Nat \ {0}
  PROVE  /\ TokensFrom(ms, i) \in Nat
         /\ i <= Len(ms) => /\ Tokens(ms[i].text) \in Nat
                            /\ TokensFrom(ms, i) =
                                 Tokens(ms[i].text) + TokensFrom(ms, i + 1)
         /\ i > Len(ms) => TokensFrom(ms, i) = 0
<1> DEFINE S == i .. Len(ms)
           T == i + 1 .. Len(ms)
           t == Counts(ms, i)
           u == Counts(ms, i + 1)
<1>1. Len(ms) \in Nat /\ i + 1 \in Nat \ {0}
  BY LenProperties
<1>2. IsFiniteSet(S) /\ T \subseteq S
  <2> HIDE DEF t, u
  <2>1. i \in Int /\ Len(ms) \in Int
    BY <1>1
  <2>2. IsFiniteSet(S)
    BY <2>1, FS_Interval
  <2>3. T \subseteq S
    BY <1>1
  <2>4. QED
    BY <2>2, <2>3
<1>3. PICK g \in [SUBSET S -> Nat] : Sums(S, t, g) /\ TokensFrom(ms, i) = g[S]
  BY TokensSum
<1>4. PICK h \in [SUBSET T -> Nat] : Sums(T, u, h) /\ TokensFrom(ms, i + 1) = h[T]
  BY <1>1, TokensSum
<1>5. TokensFrom(ms, i) \in Nat
  BY <1>3
<1>6. CASE i > Len(ms)
  <2>1. S = {} /\ ~(i <= Len(ms))
    BY <1>1, <1>6
  <2>2. g[{}] = 0
    BY <1>3 DEF Sums, SumStep
  <2>3. QED
    BY <1>3, <1>5, <2>1, <2>2
<1>7. CASE i <= Len(ms)
  <2>1. i \in S /\ S \ {i} = T /\ ~(i > Len(ms))
    BY <1>1, <1>7
  <2>2. t \in [S -> Nat]
    <3>1. \A j \in S : j \in 1 .. Len(ms)
      BY <1>1
    <3>2. \A j \in S : Tokens(ms[j].text) \in Nat
      BY <3>1, ElementOfSeq, ListedFacts, TokensType
    <3>3. QED
      BY <3>2 DEF Counts
  <2>3. \A j \in T : t[j] = u[j]
    BY <1>2 DEF Counts
  <2>4. t[i] = Tokens(ms[i].text) /\ t[i] \in Nat
    BY <2>1, <2>2 DEF Counts
  <2> HIDE DEF S, T, t, u
  <2>5. g[T] = h[T]
    <3>1. T \subseteq T
      OBVIOUS
    <3>2. QED
      BY <1>2, <1>3, <1>4, <2>3, <3>1, SumsAgree
  <2>6. g[S] = t[i] + g[S \ {i}]
    <3>1. Adds(S, t, g)
      BY <1>2, <1>3, <2>2 DEF Adds
    <3>2. QED
      BY <2>1, <3>1, SumsAnyOrder DEF AnyFirst
  <2>7. QED
    BY <1>3, <1>4, <1>5, <2>1, <2>4, <2>5, <2>6
<1>8. QED
  BY <1>1, <1>6, <1>7

\* The later the position, the fewer tokens follow it.
LEMMA TokensLess ==
  ASSUME NEW ms \in Seq(Listed), NEW i \in Nat \ {0}, NEW j \in Nat, i <= j
  PROVE  TokensFrom(ms, j) <= TokensFrom(ms, i)
<1> DEFINE T(x) == TokensFrom(ms, x)
           G == {k \in Nat : T(i + k) <= T(i)}
<1>1. \A x \in Nat \ {0} : T(x) \in Nat /\ T(x + 1) \in Nat /\ T(x + 1) <= T(x)
  <2> SUFFICES ASSUME NEW x \in Nat \ {0}
               PROVE  T(x) \in Nat /\ T(x + 1) \in Nat /\ T(x + 1) <= T(x)
    OBVIOUS
  <2>1. x + 1 \in Nat \ {0} /\ Len(ms) \in Nat
    BY LenProperties
  <2>2. T(x) \in Nat /\ T(x + 1) \in Nat
    BY <2>1, TokensFromFacts
  <2>3. CASE x <= Len(ms)
    <3>1. Tokens(ms[x].text) \in Nat /\ T(x) = Tokens(ms[x].text) + T(x + 1)
      BY <2>3, TokensFromFacts
    <3> HIDE DEF T
    <3>2. QED
      BY <2>2, <3>1
  <2>4. CASE ~(x <= Len(ms))
    <3>1. x > Len(ms) /\ x + 1 > Len(ms)
      BY <2>1, <2>4
    <3>2. T(x) = 0 /\ T(x + 1) = 0
      BY <2>1, <3>1, TokensFromFacts
    <3>3. QED
      BY <2>2, <3>2
  <2>5. QED
    BY <2>3, <2>4
<1> HIDE DEF T
<1>2. i + 0 = i
  OBVIOUS
<1>3. 0 \in G
  BY <1>1, <1>2
<1>4. ASSUME NEW k \in G PROVE k + 1 \in G
  <2>1. i + k \in Nat \ {0} /\ i + (k + 1) = (i + k) + 1
    OBVIOUS
  <2>2. T((i + k) + 1) <= T(i + k) /\ T(i + k) <= T(i)
    BY <1>1, <2>1
  <2>3. T((i + k) + 1) \in Nat /\ T(i + k) \in Nat /\ T(i) \in Nat
    BY <1>1, <2>1
  <2>4. T((i + k) + 1) <= T(i)
    BY <2>2, <2>3
  <2>5. QED
    BY <2>1, <2>4
<1>5. G \in SUBSET Nat
  OBVIOUS
<1> HIDE DEF G
<1>6. \A k \in Nat : k \in G
  BY <1>3, <1>4, <1>5, FromZero
<1>7. j - i \in G /\ i + (j - i) = j
  BY <1>6
<1>8. QED
  BY <1>7 DEF G, T

\* The last k texts of two lists are the same.
SameEnd(u, w, k) ==
  /\ k <= Len(u) /\ k <= Len(w)
  /\ \A e \in 0 .. k - 1 : u[Len(u) - e].text = w[Len(w) - e].text

\* Then so are their tokens.
LEMMA EndTokens ==
  ASSUME NEW u \in Seq(Listed), NEW w \in Seq(Listed), NEW k \in Nat,
         SameEnd(u, w, k)
  PROVE  TokensFrom(u, Len(u) + 1 - k) = TokensFrom(w, Len(w) + 1 - k)
<1> DEFINE m == Len(u)
           n == Len(w)
           U(x) == TokensFrom(u, x)
           W(x) == TokensFrom(w, x)
           G == {e \in Nat : e <= k => U(m + 1 - e) = W(n + 1 - e)}
<1>1. /\ m \in Nat /\ n \in Nat /\ k <= m /\ k <= n
      /\ \A e \in 0 .. k - 1 : u[m - e].text = w[n - e].text
  BY LenProperties DEF SameEnd
<1>2. U(m + 1) = 0 /\ W(n + 1) = 0
  <2>1. m + 1 \in Nat \ {0} /\ n + 1 \in Nat \ {0} /\ m + 1 > m /\ n + 1 > n
    BY <1>1
  <2>2. QED
    BY <2>1, TokensFromFacts
<1>3. /\ \A x \in 1 .. m : U(x) = Tokens(u[x].text) + U(x + 1)
      /\ \A x \in 1 .. n : W(x) = Tokens(w[x].text) + W(x + 1)
  <2>1. /\ \A x \in 1 .. m : x \in Nat \ {0} /\ x <= m
        /\ \A x \in 1 .. n : x \in Nat \ {0} /\ x <= n
    BY <1>1
  <2>2. QED
    BY <2>1, TokensFromFacts
<1> HIDE DEF U, W, m, n
<1>4. 0 \in G
  <2>1. m + 1 - 0 = m + 1 /\ n + 1 - 0 = n + 1
    BY <1>1
  <2>2. QED
    BY <1>2, <2>1
<1>5. ASSUME NEW e \in G PROVE e + 1 \in G
  <2>1. SUFFICES ASSUME e + 1 <= k PROVE U(m + 1 - (e + 1)) = W(n + 1 - (e + 1))
    OBVIOUS
  <2>2. /\ e \in 0 .. k - 1 /\ e <= k /\ m - e \in 1 .. m /\ n - e \in 1 .. n
        /\ m + 1 - (e + 1) = m - e /\ n + 1 - (e + 1) = n - e
        /\ (m - e) + 1 = m + 1 - e /\ (n - e) + 1 = n + 1 - e
    BY <1>1, <2>1
  <2>3. U(m + 1 - e) = W(n + 1 - e) /\ u[m - e].text = w[n - e].text
    BY <1>1, <2>2
  <2>4. /\ U(m - e) = Tokens(u[m - e].text) + U(m + 1 - e)
        /\ W(n - e) = Tokens(w[n - e].text) + W(n + 1 - e)
    BY <1>3, <2>2
  <2>5. QED
    BY <2>2, <2>3, <2>4
<1>6. G \in SUBSET Nat
  OBVIOUS
<1> HIDE DEF G
<1>7. k \in G
  BY <1>4, <1>5, <1>6, FromZero
<1>8. QED
  BY <1>7 DEF G, U, W, m, n

\* Lists with the same texts have the same count.
LEMMA SameCount ==
  ASSUME NEW u \in Seq(Listed), NEW w \in Seq(Listed), DOMAIN u = DOMAIN w,
         \A i \in DOMAIN u : u[i].text = w[i].text
  PROVE  CountTokens(u) = CountTokens(w)
<1>1. /\ Len(u) = Len(w) /\ Len(u) \in Nat /\ DOMAIN u = 1 .. Len(u)
      /\ \A e \in 0 .. Len(u) - 1 : Len(u) - e \in DOMAIN u
      /\ Len(u) + 1 - Len(u) = 1
  BY LenProperties
<1>2. SameEnd(u, w, Len(u))
  BY <1>1 DEF SameEnd
<1>3. QED
  BY <1>1, <1>2, EndTokens DEF CountTokens
-----------------------------------------------------------------------------
(* The protected tail.  Positions are counted from the end: what the steps   *)
(* spare keeps its distance to it.                                           *)

\* What follows a protected message is protected.
LEMMA TailUp ==
  ASSUME NEW ms \in Seq(Listed), NEW cfg \in Config,
         NEW i \in ProtectedTail(ms, cfg), NEW j \in i .. Len(ms)
  PROVE  j \in ProtectedTail(ms, cfg)
<1>1. /\ DOMAIN ms = 1 .. Len(ms) /\ Len(ms) \in Nat /\ cfg.tail \in Nat
      /\ i \in DOMAIN ms /\ TokensFrom(ms, i + 1) < cfg.tail
  BY LenProperties DEF ProtectedTail, Config
<1>2. i + 1 \in Nat \ {0} /\ j + 1 \in Nat \ {0} /\ i + 1 <= j + 1
      /\ j \in DOMAIN ms
  BY <1>1
<1>3. /\ TokensFrom(ms, j + 1) <= TokensFrom(ms, i + 1)
      /\ TokensFrom(ms, j + 1) \in Nat /\ TokensFrom(ms, i + 1) \in Nat
  BY <1>2, TokensLess, TokensFromFacts
<1>4. TokensFrom(ms, j + 1) < cfg.tail
  BY <1>1, <1>3
<1>5. QED
  BY <1>2, <1>4 DEF ProtectedTail

\* Steps 2 and 3 preserve at least the protected tail of their list.
LEMMA TailPreserved ==
  ASSUME NEW w \in Seq(Listed), NEW cfg \in Config,
         NEW i \in ProtectedTail(w, cfg)
  PROVE  i + PreserveRecent(w, cfg) > Len(w)
<1> DEFINE T == ProtectedTail(w, cfg)
           p == PreserveRecent(w, cfg)
           n == Len(w)
<1>1. n \in Nat /\ DOMAIN w = 1 .. n /\ T \subseteq 1 .. n /\ i \in 1 .. n
  BY LenProperties DEF ProtectedTail
<1>2. p \in Nat /\ Cardinality(T) <= p
  BY PreserveRecentType
<1>3. i .. n \in SUBSET T
  BY TailUp
<1>4. IsFiniteSet(1 .. n) /\ Cardinality(i .. n) = n - i + 1
  BY <1>1, FS_Interval
<1> HIDE DEF T, p, n
<1>5. IsFiniteSet(T) /\ Cardinality(T) \in Nat
  BY <1>1, <1>4, FS_Subset, FS_CardinalityType
<1>6. n - i + 1 <= Cardinality(T)
  BY <1>3, <1>4, <1>5, FS_Subset
<1>7. i + p > n
  BY <1>1, <1>2, <1>5, <1>6
<1>8. QED
  BY <1>7 DEF p, n

\* The last p elements of w are also the last ones of v.
KeepsEnd(w, v, p) ==
  \A e \in Nat : e < p /\ e < Len(w) =>
    e < Len(v) /\ v[Len(v) - e] = w[Len(w) - e]

\* The old band ends before what is preserved.
LEMMA OldBandEnd ==
  ASSUME NEW w \in Seq(Listed), NEW p \in Nat, NEW middle \in Nat,
         NEW summarize \in BOOLEAN
  PROVE  KeepsEnd(w, AfterOldBand(w, p, middle, summarize), p)
<1> DEFINE n    == Len(w)
           b    == BandStart(w, p, middle)
           rest == SubSeq(w, b + 1, n)
           m    == SummaryMessage(SubSeq(w, 1, b))
           head == IF summarize THEN <<m>> ELSE <<>>
           v    == AfterOldBand(w, p, middle, summarize)
<1>1. n \in Nat
  BY LenProperties
<1>2. CASE n <= p \/ b = 0
  <2>1. v = w
    BY <1>2 DEF AfterOldBand, FoldOldBand
  <2>2. QED
    BY <2>1 DEF KeepsEnd
<1>3. CASE ~(n <= p) /\ b # 0
  <2>1. n > p
    BY <1>1, <1>3
  <2>2. b \in 0 .. n - p
    BY <2>1, BandFacts
  <2>3. v = head \o rest
    BY <1>3 DEF AfterOldBand, FoldOldBand
  <2> HIDE DEF v, b
  <2>4. b + 1 \in Nat \ {0} /\ b + 1 <= n + 1 /\ n <= n
    BY <1>1, <2>1, <2>2
  <2>5. /\ rest \in Seq(Listed) /\ Len(rest) = n + 1 - (b + 1)
        /\ \A i \in 1 .. n + 1 - (b + 1) : rest[i] = w[(b + 1) + i - 1]
    BY <1>1, <2>4, PieceFacts
  <2> HIDE DEF rest, m
  <2>6. /\ head \in Seq(Listed \cup {m}) /\ rest \in Seq(Listed \cup {m})
        /\ Len(head) \in Nat
    <3>1. <<m>> \in Seq(Listed \cup {m}) /\ <<>> \in Seq(Listed \cup {m})
      OBVIOUS
    <3>2. rest \in Seq(Listed \cup {m})
      BY <2>5, SeqMonotonic
    <3>3. QED
      BY <3>1, <3>2, LenProperties
  <2> DEFINE h == Len(head)
  <2>7. /\ Len(head \o rest) = h + Len(rest)
        /\ \A i \in 1 .. h + Len(rest) : (head \o rest)[i] =
             IF i <= h THEN head[i] ELSE rest[i - h]
    BY <2>6, ConcatProperties
  <2> HIDE DEF head, h, n
  <2>8. Len(rest) = n - b /\ Len(v) = h + (n - b)
    BY <1>1, <2>2, <2>3, <2>5, <2>7
  <2>9. ASSUME NEW e \in Nat, e < p, e < n
        PROVE  e < Len(v) /\ v[Len(v) - e] = w[n - e]
    <3>1. b \in Nat /\ h \in Nat /\ b <= n - p
      BY <1>1, <2>1, <2>2, <2>6 DEF h
    <3>2. /\ h + (n - b) - e \in 1 .. h + (n - b) /\ ~(h + (n - b) - e <= h)
          /\ h + (n - b) - e - h = (n - b) - e /\ e < h + (n - b)
          /\ (n - b) - e \in 1 .. n + 1 - (b + 1)
          /\ (b + 1) + ((n - b) - e) - 1 = n - e
      BY <1>1, <2>1, <2>9, <3>1
    <3>3. PICK x \in 1 .. h + (n - b) : x = h + (n - b) - e
      BY <3>2
    <3>4. ~(x <= h) /\ x - h = (n - b) - e
      BY <1>1, <3>1, <3>2, <3>3
    <3>5. v[x] = rest[(n - b) - e]
      <4>1. x \in 1 .. h + Len(rest)
        BY <2>8, <3>3
      <4>2. v[x] = rest[x - h]
        BY <2>3, <2>7, <3>4, <4>1
      <4>3. QED
        BY <3>4, <4>2
    <3>6. rest[(n - b) - e] = w[n - e]
      BY <2>5, <3>2
    <3>7. Len(v) - e = x /\ e < Len(v)
      BY <1>1, <2>8, <3>1, <3>2, <3>3
    <3>8. QED
      BY <3>5, <3>6, <3>7
  <2>10. QED
    BY <2>9 DEF KeepsEnd, n, v
<1>4. QED
  BY <1>2, <1>3

\* Band 2 leaves alone what is preserved.
LEMMA PipeEnd ==
  ASSUME NEW w \in Seq(Listed), NEW cfg, NEW p \in Nat, NEW F
  PROVE  KeepsEnd(w, PipeBand(w, cfg, p, F), p)
<1> DEFINE v == PipeBand(w, cfg, p, F)
           n == Len(w)
<1>1. n \in Nat /\ DOMAIN w = 1 .. n
  BY LenProperties
<1>2. DOMAIN v = 1 .. n /\ \A i \in 1 .. n : i + p > n => v[i] = w[i]
  <2>1. DOMAIN v = DOMAIN w
        /\ \A i \in DOMAIN w : i \notin PipedBand(w, p) => v[i] = w[i]
    BY DEF PipeBand
  <2>2. \A i \in 1 .. n : i + p > n => ~(i + p <= n)
    BY <1>1
  <2>3. QED
    BY <1>1, <2>1, <2>2 DEF PipedBand
<1> HIDE DEF v
<1>3. Len(v) = n
  BY <1>1, <1>2
<1> HIDE DEF n
<1>4. ASSUME NEW e \in Nat, e < p, e < n PROVE v[n - e] = w[n - e]
  <2>1. n - e \in 1 .. n /\ (n - e) + p > n
    BY <1>1, <1>4
  <2>2. QED
    BY <1>2, <2>1
<1>5. QED
  BY <1>3, <1>4 DEF KeepsEnd, v, n

\* x is message i of ms, as far as a host can tell.
Intact(ms, x, i) == x.idx = i /\ x.text = ms[i].text /\ x.ccr = ms[i].ccr

\* The protected tail of ms ends the list w.
TailKept(ms, w, cfg) ==
  \A i \in ProtectedTail(ms, cfg) :
    /\ Len(ms) - i < Len(w)
    /\ Intact(ms, w[Len(w) - (Len(ms) - i)], i)

\* The elements of w at the positions Q stand in v, as far from its end.
Spares(w, v, Q) ==
  \A i \in Q : Len(w) - i < Len(v) /\ v[Len(v) - (Len(w) - i)] = w[i]

\* The tail that each step measures anew holds the one the cascade started
\* with.
LEMMA TailThere ==
  ASSUME NEW ms \in Seq(Listed), NEW w \in Seq(Listed), NEW cfg \in Config,
         TailKept(ms, w, cfg), NEW i \in ProtectedTail(ms, cfg)
  PROVE  Len(w) - (Len(ms) - i) \in ProtectedTail(w, cfg)
<1> DEFINE n == Len(ms)
           l == Len(w)
           e == n - i
<1>1. /\ n \in Nat /\ l \in Nat /\ DOMAIN w = 1 .. l /\ DOMAIN ms = 1 .. n
      /\ i \in 1 .. n /\ TokensFrom(ms, i + 1) < cfg.tail
  BY LenProperties DEF ProtectedTail
<1>2. e \in Nat /\ e < l /\ e < n
  BY <1>1 DEF TailKept
<1>3. SameEnd(w, ms, e)
  <2>1. ASSUME NEW d \in 0 .. e - 1 PROVE w[l - d].text = ms[n - d].text
    <3>1. n - d \in i .. n /\ n - (n - d) = d
      BY <1>1, <2>1
    <3>2. n - d \in ProtectedTail(ms, cfg)
      BY <3>1, TailUp
    <3>3. Intact(ms, w[l - (n - (n - d))], n - d)
      BY <3>2 DEF TailKept
    <3>4. QED
      BY <3>1, <3>3 DEF Intact
  <2>2. e <= l /\ e <= n
    BY <1>1, <1>2
  <2>3. QED
    BY <2>1, <2>2 DEF SameEnd
<1>4. TokensFrom(w, l + 1 - e) = TokensFrom(ms, n + 1 - e)
  BY <1>2, <1>3, EndTokens
<1>5. l + 1 - e = (l - e) + 1 /\ n + 1 - e = i + 1 /\ l - e \in 1 .. l
  BY <1>1, <1>2
<1>6. TokensFrom(w, (l - e) + 1) < cfg.tail
  BY <1>1, <1>4, <1>5
<1> HIDE DEF e, l
<1>7. l - e \in ProtectedTail(w, cfg)
  BY <1>1, <1>5, <1>6 DEF ProtectedTail
<1>8. QED
  BY <1>7 DEF e, l

\* A step that spares the tail it measured keeps the one of the start.
LEMMA TailStays ==
  ASSUME NEW ms \in Seq(Listed), NEW w \in Seq(Listed), NEW cfg \in Config,
         NEW v, TailKept(ms, w, cfg), Spares(w, v, ProtectedTail(w, cfg))
  PROVE  TailKept(ms, v, cfg)
<1> SUFFICES ASSUME NEW i \in ProtectedTail(ms, cfg)
             PROVE  /\ Len(ms) - i < Len(v)
                    /\ Intact(ms, v[Len(v) - (Len(ms) - i)], i)
  BY DEF TailKept
<1> DEFINE k == Len(w) - (Len(ms) - i)
<1>1. k \in ProtectedTail(w, cfg) /\ Intact(ms, w[k], i)
  BY TailThere DEF TailKept
<1>2. Len(w) - k < Len(v) /\ v[Len(v) - (Len(w) - k)] = w[k]
  BY <1>1 DEF Spares
<1>3. Len(w) - k = Len(ms) - i
  <2>1. Len(w) \in Nat /\ Len(ms) \in Nat /\ i \in Nat
    BY LenProperties DEF ProtectedTail
  <2>2. QED
    BY <2>1
<1> HIDE DEF k
<1>4. QED
  BY <1>1, <1>2, <1>3

\* Step 1 clears neither the tail nor a reply.
LEMMA RulesSpare ==
  ASSUME NEW w \in Seq(Listed), NEW cfg, NEW F,
         NEW Q, Q \subseteq DOMAIN w, Q \cap ClearSet(w, cfg) = {}
  PROVE  Spares(w, AgentRules(w, cfg, F), Q)
<1> DEFINE v == AgentRules(w, cfg, F)
<1>1. DOMAIN v = DOMAIN w /\ \A i \in Q : v[i] = w[i]
  BY DEF AgentRules
<1> HIDE DEF v
<1>2. DOMAIN w = 1 .. Len(w) /\ Len(w) \in Nat
  BY LenProperties
<1>3. Len(v) = Len(w)
  BY <1>1, <1>2
<1>4. \A i \in Q : Len(w) - i < Len(w) /\ Len(w) - (Len(w) - i) = i
  BY <1>2
<1>5. QED
  BY <1>1, <1>3, <1>4 DEF Spares, v

\* Steps 2 and 3 spare what is within the distance they preserve.
LEMMA CompressSpares ==
  ASSUME NEW w \in Seq(Listed), NEW v, NEW p \in Nat, KeepsEnd(w, v, p),
         NEW Q, Q \subseteq DOMAIN w, \A i \in Q : i + p > Len(w)
  PROVE  Spares(w, v, Q)
<1> SUFFICES ASSUME NEW i \in Q
             PROVE  Len(w) - i < Len(v) /\ v[Len(v) - (Len(w) - i)] = w[i]
  BY DEF Spares
<1>1. DOMAIN w = 1 .. Len(w) /\ Len(w) \in Nat /\ i \in DOMAIN w
  BY LenProperties
<1>2. PICK e \in Nat : e = Len(w) - i
  BY <1>1
<1>3. e < p /\ e < Len(w) /\ Len(w) - e = i
  BY <1>1, <1>2
<1>4. e < Len(v) /\ v[Len(v) - e] = w[Len(w) - e]
  BY <1>3 DEF KeepsEnd
<1>5. QED
  BY <1>2, <1>3, <1>4

\* Step 4 spares the tail.
LEMMA DropSpares ==
  ASSUME NEW w \in Seq(Listed), NEW cfg \in Config, CanDrop(w, cfg)
  PROVE  LET r == DropRange(w, cfg)
         IN  Spares(w, Without(w, r[1], r[2]), ProtectedTail(w, cfg))
<1> DEFINE a == DropRange(w, cfg)[1]
           b == DropRange(w, cfg)[2]
           v == Without(w, a, b)
<1>1. Len(w) \in Nat /\ DOMAIN w = 1 .. Len(w)
  BY LenProperties
<1>2. /\ a \in 1 .. Len(w) /\ b \in a .. Len(w)
      /\ \A i \in a .. b : i \notin ProtectedTail(w, cfg)
  BY DropRangeFacts DEF MemberDroppable
<1> HIDE DEF a, b
<1>3. /\ Len(v) = Len(w) - (b + 1 - a)
      /\ \A j \in 1 .. Len(w) - (b + 1 - a) :
           v[j] = IF j < a THEN w[j] ELSE w[j + (b + 1 - a)]
  <2>1. a \in Nat \ {0} /\ b \in Nat /\ a <= b + 1 /\ b <= Len(w)
    BY <1>1, <1>2
  <2>2. CutOf(v, w, a, b)
    BY <2>1, CutIs, Zenon
  <2> HIDE DEF v
  <2>3. QED
    BY <2>2, Zenon DEF CutOf
<1> HIDE DEF v
<1>4. ASSUME NEW i \in ProtectedTail(w, cfg)
      PROVE  Len(w) - i < Len(v) /\ v[Len(v) - (Len(w) - i)] = w[i]
  <2>1. i \in 1 .. Len(w)
    BY <1>1 DEF ProtectedTail
  <2>2. b < i
    <3>1. ~(i < a)
      <4>1. i < a => a \in i .. Len(w) /\ a \in a .. b
        BY <1>1, <1>2, <2>1
      <4>2. QED
        BY <1>2, <4>1, TailUp
    <3>2. i \notin a .. b
      BY <1>2
    <3>3. QED
      BY <1>1, <1>2, <2>1, <3>1, <3>2
  <2>3. PICK j \in 1 .. Len(w) - (b + 1 - a) : j = i - (b + 1 - a)
    <3>1. i - (b + 1 - a) \in 1 .. Len(w) - (b + 1 - a)
      BY <1>1, <1>2, <2>1, <2>2
    <3>2. QED
      BY <3>1
  <2>4. /\ Len(v) - (Len(w) - i) = j /\ ~(j < a) /\ j + (b + 1 - a) = i
        /\ Len(w) - i < Len(v)
    BY <1>1, <1>2, <1>3, <2>1, <2>2, <2>3
  <2>5. QED
    BY <1>3, <2>4
<1>5. QED
  BY <1>4 DEF Spares, a, b, v
-----------------------------------------------------------------------------
(* The folds of a list that comes from another one.  The records of          *)
(* Cascade!BuildFolds, by what they are made from.                           *)

Changed(orig, final) ==
  {k \in DOMAIN final : /\ final[k].idx # 0
                        /\ Untagged(final[k]) # orig[final[k].idx]}

ReplacementFold(orig, final, j) ==
  FoldRecord(ClassifyReplacement(final[j]), orig, final[j].idx, final[j].idx,
             j, CcrIdOf(final[j]))

SummaryFold(orig, final) ==
  FoldRecord("Summarized", orig, Min(SummarizedSpan(orig, final)),
             Max(SummarizedSpan(orig, final)), Min(SummaryPositions(final)),
             CcrIdOf(final[Min(SummaryPositions(final))]))

DroppedFold(orig, gone, i) ==
  FoldRecord("Dropped", orig, i, i, 0,
    IF \E j \in DOMAIN gone : gone[j].idx = i
    THEN CcrIdOf(gone[CHOOSE j \in DOMAIN gone : gone[j].idx = i])
    ELSE None)

\* What BuildFolds is made of, and the positions of each part.
LEMMA FoldsMade ==
  ASSUME NEW orig, NEW final, NEW gone
  PROVE  /\ BuildFolds(orig, final, gone) =
              {ReplacementFold(orig, final, j) : j \in Changed(orig, final)}
              \cup (IF SummarizedSpan(orig, final) = {} THEN {}
                    ELSE {SummaryFold(orig, final)})
              \cup {DroppedFold(orig, gone, i) :
                      i \in Missing(orig, final) \ SummarizedSpan(orig, final)}
         /\ \A j : /\ ReplacementFold(orig, final, j).first = final[j].idx
                   /\ ReplacementFold(orig, final, j).last = final[j].idx
                   /\ ReplacementFold(orig, final, j).at = j
         /\ SummaryFold(orig, final).first = Min(SummarizedSpan(orig, final))
         /\ SummaryFold(orig, final).last = Max(SummarizedSpan(orig, final))
         /\ SummaryFold(orig, final).at = Min(SummaryPositions(final))
         /\ \A i : /\ DroppedFold(orig, gone, i).first = i
                   /\ DroppedFold(orig, gone, i).last = i
                   /\ DroppedFold(orig, gone, i).at = 0
<1>1. BuildFolds(orig, final, gone) =
        ReplacementFolds(orig, final) \cup SummaryFolds(orig, final)
          \cup DroppedFolds(orig, final, gone)
  BY DEF BuildFolds
<1>2. ReplacementFolds(orig, final) =
        {ReplacementFold(orig, final, j) : j \in Changed(orig, final)}
  BY DEF ReplacementFolds, ReplacementFold, Changed
<1>3. SummaryFolds(orig, final) =
        IF SummarizedSpan(orig, final) = {} THEN {} ELSE {SummaryFold(orig, final)}
  BY DEF SummaryFolds, SummaryFold
<1>4. DroppedFolds(orig, final, gone) =
        {DroppedFold(orig, gone, i) :
           i \in Missing(orig, final) \ SummarizedSpan(orig, final)}
  BY DEF DroppedFolds, DroppedFold
<1>5. \A j : /\ ReplacementFold(orig, final, j).first = final[j].idx
             /\ ReplacementFold(orig, final, j).last = final[j].idx
             /\ ReplacementFold(orig, final, j).at = j
  BY DEF ReplacementFold, FoldRecord
<1>6. /\ SummaryFold(orig, final).first = Min(SummarizedSpan(orig, final))
      /\ SummaryFold(orig, final).last = Max(SummarizedSpan(orig, final))
      /\ SummaryFold(orig, final).at = Min(SummaryPositions(final))
  BY DEF SummaryFold, FoldRecord
<1>7. \A i : /\ DroppedFold(orig, gone, i).first = i
             /\ DroppedFold(orig, gone, i).last = i
             /\ DroppedFold(orig, gone, i).at = 0
  BY DEF DroppedFold, FoldRecord
<1>8. QED
  BY <1>1, <1>2, <1>3, <1>4, <1>5, <1>6, <1>7

\* The summary's span is a run of missing messages.
LEMMA SpanFacts ==
  ASSUME NEW orig \in Seq(Listed), NEW final \in Seq(Listed)
  PROVE  LET span == SummarizedSpan(orig, final)
         IN  /\ span \subseteq Missing(orig, final)
             /\ span # {} =>
                  /\ Min(span) \in span
                  /\ \A x \in DOMAIN orig :
                       Min(span) <= x /\ x <= Max(span) <=> x \in span
                  /\ Min(SummaryPositions(final)) \in SummaryPositions(final)
<1> DEFINE span == SummarizedSpan(orig, final)
           M    == Missing(orig, final)
           sums == SummaryPositions(final)
           n    == Len(orig)
<1>1. /\ DOMAIN orig = 1 .. n /\ n \in Nat
      /\ DOMAIN final = 1 .. Len(final) /\ Len(final) \in Nat
  BY LenProperties
<1>2. M \in SUBSET (DOMAIN orig)
  BY DEF Missing
<1>3. span \in SUBSET M
  BY DEF SummarizedSpan
<1> SUFFICES ASSUME span # {}
             PROVE  /\ Min(span) \in span
                    /\ \A x \in DOMAIN orig :
                         Min(span) <= x /\ x <= Max(span) <=> x \in span
                    /\ Min(sums) \in sums
  BY <1>3
<1>4. sums # {} /\ span = {i \in M : Min(M) .. i \subseteq M}
  BY DEF SummarizedSpan
<1>5. sums \in SUBSET Nat
  BY <1>1 DEF SummaryPositions
<1> HIDE DEF span, M, sums, n
<1>6. Min(sums) \in sums
  BY <1>4, <1>5, MinProps
<1>7. M \in SUBSET Nat /\ M # {} /\ span \in SUBSET (0 .. n) /\ span \in SUBSET Nat
  <2>1. 1 .. n \subseteq 0 .. n /\ 0 .. n \subseteq Nat
    BY <1>1
  <2>2. QED
    BY <1>1, <1>2, <1>3, <2>1
<1>8. Min(M) \in M /\ \A x \in M : Min(M) <= x
  BY <1>7, MinProps
<1>9. Min(span) \in span /\ \A x \in span : Min(span) <= x
  BY <1>7, MinProps
<1>10. Max(span) \in span /\ \A x \in span : x <= Max(span)
  BY <1>1, <1>7, MaxProps
<1>11. ASSUME NEW x \in DOMAIN orig, Min(span) <= x, x <= Max(span)
       PROVE  x \in span
  <2>1. Min(M) \in Nat /\ Min(span) \in Nat /\ Max(span) \in Nat /\ x \in Nat
    <3>1. \A S \in SUBSET Nat : \A y \in S : y \in Nat
      OBVIOUS
    <3>2. x \in Nat
      BY <1>1
    <3>3. Min(M) \in Nat
      BY <1>7, <1>8, <3>1
    <3>4. Min(span) \in Nat
      BY <1>7, <1>9, <3>1
    <3>5. Max(span) \in Nat
      BY <1>7, <1>10, <3>1
    <3>6. QED
      BY <3>2, <3>3, <3>4, <3>5
  <2>2. Min(M) <= Min(span)
    BY <1>3, <1>8, <1>9
  <2>3. Min(M) .. Max(span) \subseteq M
    BY <1>4, <1>10
  <2>4. x \in Min(M) .. Max(span) /\ Min(M) .. x \subseteq Min(M) .. Max(span)
    <3> DEFINE a == Min(M)
               b == Min(span)
               c == Max(span)
    <3> HIDE DEF a, b, c
    <3>1. a \in Nat /\ b \in Nat /\ c \in Nat /\ a <= b /\ b <= x /\ x <= c
      BY <1>11, <2>1, <2>2 DEF a, b, c
    <3>2. x \in a .. c /\ a .. x \subseteq a .. c
      BY <2>1, <3>1
    <3>3. QED
      BY <3>2 DEF a, c
  <2>5. QED
    BY <1>4, <2>3, <2>4
<1>12. QED
  BY <1>6, <1>9, <1>10, <1>11

\* No two messages of a traced list have the same tag.
LEMMA OneTag ==
  ASSUME NEW w \in Seq(Listed), Ordered(w), NEW j \in DOMAIN w,
         NEW k \in DOMAIN w, w[j].idx # 0, w[j].idx = w[k].idx
  PROVE  j = k
<1>1. DOMAIN w = 1 .. Len(w) /\ Len(w) \in Nat
  BY LenProperties
<1>2. w[j].idx \in Nat
  BY ElementOfSeq, <1>1 DEF Listed
<1>3. ~(j < k) /\ ~(k < j)
  BY <1>2 DEF Ordered
<1>4. QED
  BY <1>1, <1>3

Covering(new, i) == {f \in new : f.first <= i /\ i <= f.last}

Unchanged(orig, final, i) ==
  \E j \in DOMAIN final : Untagged(final[j]) = orig[i] /\ final[j].idx = i

\* An original position is covered by one fold when its message is changed or
\* lost, and else by none.
LEMMA FoldsOver ==
  ASSUME NEW orig \in Seq(Listed), NEW final \in Seq(Listed), Ordered(final),
         NEW gone, NEW i \in DOMAIN orig
  PROVE  LET over == Covering(BuildFolds(orig, final, gone), i)
         IN  /\ Unchanged(orig, final, i) => over = {}
             /\ ~Unchanged(orig, final, i) => \E f : over = {f}
<1> DEFINE span == SummarizedSpan(orig, final)
           M    == Missing(orig, final)
           C    == Changed(orig, final)
           rf   == {ReplacementFold(orig, final, j) : j \in C}
           sf   == IF span = {} THEN {} ELSE {SummaryFold(orig, final)}
           df   == {DroppedFold(orig, gone, k) : k \in M \ span}
           over(f) == f.first <= i /\ i <= f.last
           new  == BuildFolds(orig, final, gone)
           kept == \E j \in DOMAIN final :
                     Untagged(final[j]) = orig[i] /\ final[j].idx = i
<1>1. /\ DOMAIN orig = 1 .. Len(orig) /\ Len(orig) \in Nat
      /\ DOMAIN final = 1 .. Len(final) /\ Len(final) \in Nat
      /\ \A j \in DOMAIN final : final[j] \in Listed
  BY LenProperties, ElementOfSeq
<1>2. \A j \in DOMAIN final : final[j].idx \in Nat
  BY <1>1 DEF Listed
<1>3. i \in Nat /\ i # 0
  BY <1>1
<1>4. new = rf \cup sf \cup df
  BY FoldsMade
<1>5. \A j \in C : over(ReplacementFold(orig, final, j)) <=> final[j].idx = i
  <2>1. \A j \in C : /\ ReplacementFold(orig, final, j).first = final[j].idx
                     /\ ReplacementFold(orig, final, j).last = final[j].idx
                     /\ final[j].idx \in Nat
    BY <1>2 DEF Changed, ReplacementFold, FoldRecord
  <2> HIDE DEF C
  <2>2. QED
    BY <1>3, <2>1
<1>6. span # {} => (over(SummaryFold(orig, final)) <=> i \in span)
  <2>1. span # {} => \A x \in DOMAIN orig :
                       Min(span) <= x /\ x <= Max(span) <=> x \in span
    BY SpanFacts
  <2>2. /\ SummaryFold(orig, final).first = Min(span)
        /\ SummaryFold(orig, final).last = Max(span)
    BY FoldsMade
  <2> HIDE DEF span
  <2>3. QED
    BY <2>1, <2>2
<1>7. \A k \in M \ span : over(DroppedFold(orig, gone, k)) <=> k = i
  <2>1. \A k : /\ DroppedFold(orig, gone, k).first = k
               /\ DroppedFold(orig, gone, k).last = k
    BY DEF DroppedFold, FoldRecord
  <2>2. \A k \in M : k \in Nat
    BY <1>1 DEF Missing
  <2> HIDE DEF span, M
  <2>3. QED
    BY <1>3, <2>1, <2>2
<1>8. span \subseteq M
  BY SpanFacts
<1>9. i \in M <=> \A j \in DOMAIN final : final[j].idx # i
  BY DEF Missing
<1>10. \A j \in C : j \in DOMAIN final /\ Untagged(final[j]) # orig[final[j].idx]
  BY DEF Changed
<1>11. \A j \in DOMAIN final :
         final[j].idx = i /\ Untagged(final[j]) # orig[i] => j \in C
  BY <1>3 DEF Changed
<1> HIDE DEF span, M, C, over, new
<1>12. CASE i \in M
  <2>1. ~kept
    BY <1>9, <1>12
  <2>2. \A f \in rf : ~over(f)
    BY <1>5, <1>9, <1>10, <1>12
  <2>3. \E r : {f \in new : over(f)} = {r}
    <3>1. CASE i \in span
      <4>1. \A f \in df : ~over(f)
        BY <1>7, <3>1
      <4>2. sf = {SummaryFold(orig, final)} /\ over(SummaryFold(orig, final))
        BY <1>6, <3>1
      <4> HIDE DEF rf, sf, df
      <4>3. {f \in new : over(f)} = {SummaryFold(orig, final)}
        BY <1>4, <2>2, <4>1, <4>2
      <4>4. QED
        BY <4>3
    <3>2. CASE i \notin span
      <4> DEFINE d == DroppedFold(orig, gone, i)
      <4>1. \A f \in sf : ~over(f)
        BY <1>6, <3>2
      <4>2. d \in df /\ over(d) /\ \A f \in df : over(f) => f = d
        BY <1>7, <1>12, <3>2
      <4> HIDE DEF rf, sf, df, d
      <4>3. {f \in new : over(f)} = {d}
        BY <1>4, <2>2, <4>1, <4>2
      <4>4. QED
        BY <4>3
    <3>3. QED
      BY <3>1, <3>2
  <2>4. QED
    BY <2>1, <2>3 DEF new, over, Covering, Unchanged
<1>13. CASE i \notin M
  <2>1. PICK j \in DOMAIN final : final[j].idx = i
    BY <1>9, <1>13
  <2>2. \A k \in DOMAIN final : final[k].idx = i => k = j
    BY <1>3, <2>1, OneTag
  <2>3. \A f \in sf \cup df : ~over(f)
    BY <1>6, <1>7, <1>8, <1>13
  <2>4. CASE Untagged(final[j]) = orig[i]
    <3>1. \A f \in rf : ~over(f)
      BY <1>5, <1>10, <2>1, <2>2, <2>4
    <3> HIDE DEF rf, sf, df
    <3>2. {f \in new : over(f)} = {}
      BY <1>4, <2>3, <3>1
    <3>3. QED
      BY <2>1, <2>4, <3>2 DEF new, over, Covering, Unchanged
  <2>5. CASE Untagged(final[j]) # orig[i]
    <3> DEFINE d == ReplacementFold(orig, final, j)
    <3>1. ~kept
      BY <2>2, <2>5
    <3>2. d \in rf /\ over(d) /\ \A f \in rf : over(f) => f = d
      BY <1>5, <1>10, <1>11, <2>1, <2>2, <2>5
    <3> HIDE DEF rf, sf, df, d
    <3>3. {f \in new : over(f)} = {d}
      BY <1>4, <2>3, <3>2
    <3>4. QED
      BY <3>1, <3>3 DEF new, over, Covering, Unchanged
  <2>6. QED
    BY <2>4, <2>5
<1>14. QED
  BY <1>12, <1>13

\* The same, counted.
LEMMA FoldsCover ==
  ASSUME NEW orig \in Seq(Listed), NEW final \in Seq(Listed), Ordered(final),
         NEW gone, NEW i \in DOMAIN orig
  PROVE  Cardinality(Covering(BuildFolds(orig, final, gone), i)) =
           IF Unchanged(orig, final, i) THEN 0 ELSE 1
<1> DEFINE over == Covering(BuildFolds(orig, final, gone), i)
           same == Unchanged(orig, final, i)
<1>1. CASE same
  <2>1. over = {}
    BY <1>1, FoldsOver
  <2> HIDE DEF over
  <2>2. Cardinality(over) = 0
    BY <2>1, FS_EmptySet
  <2>3. QED
    BY <1>1, <2>2 DEF over
<1>2. CASE ~same
  <2>1. \E f : over = {f}
    BY <1>2, FoldsOver
  <2> HIDE DEF over
  <2>2. Cardinality(over) = 1
    BY <2>1, FS_Singleton
  <2>3. QED
    BY <1>2, <2>2 DEF over
<1>3. QED
  BY <1>1, <1>2
=============================================================================
