---------------------------- MODULE Rich_proofs ----------------------------
(***************************************************************************)
(* Theorems of Rich: what compact_rich rewrites can be had again, through  *)
(* any number of compactions; a failed result is spared while no budget    *)
(* presses; what is emitted fits; a content key stands for what the        *)
(* provider is shown; the folds account for every change once and carry    *)
(* the native tags; and the protected tail keeps its blocks.               *)
(***************************************************************************)
EXTENDS Rich, Cascade_proofs

\* A flat message that is m as it was, or has been rewritten since.
Deeper(m, x) ==
  Untagged(x) = ToFlat(m) \/ Len(x.text.layers) > Len(FlatText(m.body).layers)

\* A message of the flat projection of ms.  One that stands for a message of
\* ms has its flat text, or, where there is a store, an id that is found there;
\* it is not rewritten without its text being another one.
Flat(ms, st, has) ==
  {m \in [role : Roles, err : BOOLEAN, text : Text,
          ccr : Text \cup {None} \cup [rich : Nat], pinned : BOOLEAN,
          fin : BOOLEAN, idx : 0 .. Len(ms)] :
     /\ m.role = "tool" => m.text \in Key
     /\ m.idx # 0 /\ has => \/ m.text = FlatText(ms[m.idx].body)
                            \/ m.ccr \in st
     /\ m.idx # 0 => Deeper(ms[m.idx], m)}

\* Rewriting the text in place with one more layer.
LEMMA DeeperFacts ==
  ASSUME NEW t \in Text, NEW layer
  PROVE  /\ t.layers \in Seq(Layers) /\ Len(t.layers) \in Nat
         /\ Len(Append(t.layers, layer)) = Len(t.layers) + 1
<1>1. t.layers \in Seq(Layers)
  BY SeqMonotonic DEF Text, Key, SummaryText, Layers
<1>2. t.layers \in Seq(Layers \cup {layer})
  BY <1>1, SeqMonotonic
<1>3. QED
  BY <1>1, <1>2, LenProperties, AppendProperties

\* What has been rewritten once more has been rewritten.
LEMMA DeeperStill ==
  ASSUME NEW r, NEW m, NEW x, m.text \in Text, FlatText(r.body) \in Text,
         Deeper(r, m), NEW layer, x.text.layers = Append(m.text.layers, layer)
  PROVE  Deeper(r, x)
<1> DEFINE a == Len(m.text.layers)
           b == Len(FlatText(r.body).layers)
<1>1. a \in Nat /\ b \in Nat /\ Len(x.text.layers) = a + 1
  BY DeeperFacts
<1>2. Untagged(m) = ToFlat(r) => m.text = FlatText(r.body)
  <2>1. ToFlat(r).text = FlatText(r.body)
    BY DEF ToFlat
  <2>2. Untagged(m).text = m.text
    BY DEF Untagged
  <2>3. QED
    BY <2>1, <2>2
<1>3. a >= b
  BY <1>1, <1>2 DEF Deeper
<1> HIDE DEF a, b
<1>4. a + 1 > b
  BY <1>1, <1>3
<1>5. QED
  BY <1>1, <1>4 DEF Deeper, b

\* The fields of a rich message and of its content.
LEMMA RichFields ==
  ASSUME NEW m \in RichMessage
  PROVE  /\ m.role \in Roles /\ m.pinned \in BOOLEAN /\ m.cache \in BOOLEAN
         /\ m.ccr \in Text \cup {None} \cup [rich : Nat]
         /\ \/ m.body.kind = "text" /\ m.body = Plain(m.body.text) /\ m.body.text \in Text
            \/ /\ m.body.kind = "blocks" /\ m.body = Blocks(m.body.of, m.body.passes)
               /\ m.body.of \in Contents /\ m.body.passes \in Nat
BY DEF RichMessage, RichBody, Plain, Blocks

\* A message flattens to a text; that of blocks goes back to a pushed one.
LEMMA FlatTextType ==
  ASSUME NEW m \in RichMessage
  PROVE  FlatText(m.body) \in Text /\ (m.role = "tool" => FlatText(m.body) \in Key)
<1>1. CASE m.body.kind = "text"
  BY <1>1, RichFields DEF FlatText, RichMessage
<1>2. CASE m.body.kind = "blocks"
  <2> DEFINE r == FlatOf[m.body.of]
             l == [i \in 1 .. m.body.passes |-> "comp"]
  <2>1. m.body.of \in Contents /\ m.body.passes \in Nat
    BY <1>2, RichFields
  <2>2. r \in Raw
    BY <2>1, RichAssumption
  <2>3. l \in Seq(Layers)
    BY <2>1 DEF Layers
  <2>4. FlatText(m.body) = [src |-> r, quotes |-> {}, first |-> None, layers |-> l]
    BY <1>2 DEF FlatText, RawText
  <2> HIDE DEF r, l
  <2>5. FlatText(m.body) \in Key
    BY <2>2, <2>3, <2>4 DEF Key
  <2>6. QED
    BY <2>5 DEF Text
<1>3. QED
  BY <1>1, <1>2, RichFields

\* More texts in the store change nothing for a flat message.
LEMMA FlatMonotonic ==
  ASSUME NEW ms, NEW st, NEW has, NEW more, st \subseteq more
  PROVE  /\ Flat(ms, st, has) \subseteq Flat(ms, more, has)
         /\ \A w \in Seq(Flat(ms, st, has)) : w \in Seq(Flat(ms, more, has))
<1>1. Flat(ms, st, has) \subseteq Flat(ms, more, has)
  BY DEF Flat
<1>2. QED
  BY <1>1, SeqMonotonic

\* The message that a flat one stands for.
LEMMA FlatOrigin ==
  ASSUME NEW ms \in Seq(RichMessage), NEW st, NEW has, NEW m \in Flat(ms, st, has),
         m.idx # 0
  PROVE  /\ m.idx \in DOMAIN ms /\ ms[m.idx] \in RichMessage
         /\ FlatText(ms[m.idx].body) \in Text
<1>1. /\ DOMAIN ms = 1 .. Len(ms) /\ Len(ms) \in Nat
      /\ \A i \in DOMAIN ms : ms[i] \in RichMessage
  BY LenProperties, ElementOfSeq
<1>2. m.idx \in 0 .. Len(ms)
  BY DEF Flat
<1>3. m.idx \in DOMAIN ms
  BY <1>1, <1>2
<1>4. QED
  BY <1>1, <1>3, FlatTextType

\* A cleared message has the id of the text it lost.
LEMMA FlatCleared ==
  ASSUME NEW ms \in Seq(RichMessage), NEW st, NEW has,
         NEW m \in Flat(ms, st, has), m.role = "tool"
  PROVE  ClearedMessage(m) \in Flat(ms, st \cup {m.text}, has)
<1> DEFINE c == ClearedMessage(m)
<1>1. m.text \in Key /\ Stub(m.text) \in Key
  BY StubFacts DEF Flat
<1>2. c = [m EXCEPT !.text = Stub(m.text), !.ccr = m.text]
  BY DEF ClearedMessage
<1>3. /\ c \in [role : Roles, err : BOOLEAN, text : Text,
                ccr : Text \cup {None} \cup [rich : Nat], pinned : BOOLEAN,
                fin : BOOLEAN, idx : 0 .. Len(ms)]
      /\ c.text = Stub(m.text) /\ c.ccr = m.text /\ c.idx = m.idx
  BY <1>1, <1>2 DEF Flat, Text
<1> HIDE DEF c
<1>4. m.idx # 0 => Deeper(ms[m.idx], c)
  <2> SUFFICES ASSUME m.idx # 0 PROVE Deeper(ms[m.idx], c)
    OBVIOUS
  <2>1. FlatText(ms[m.idx].body) \in Text /\ Deeper(ms[m.idx], m) /\ m.text \in Text
    BY FlatOrigin DEF Flat
  <2>2. c.text.layers = Append(m.text.layers, "stub")
    BY <1>1, <1>3 DEF Stub, Key
  <2>3. QED
    BY <2>1, <2>2, DeeperStill
<1>5. c \in Flat(ms, st \cup {m.text}, has)
  BY <1>1, <1>3, <1>4 DEF Flat
<1>6. QED
  BY <1>5 DEF c

\* So has a piped one, when there is a store.
LEMMA FlatPiped ==
  ASSUME NEW ms \in Seq(RichMessage), NEW st, NEW cfg,
         NEW m \in Flat(ms, st, cfg.hasStore), NEW failed
  PROVE  PipedMessage(m, cfg, failed)
           \in Flat(ms, st \cup IF cfg.hasStore THEN {m.text} ELSE {}, cfg.hasStore)
<1> DEFINE p == PipedMessage(m, cfg, failed)
           more == st \cup IF cfg.hasStore THEN {m.text} ELSE {}
<1>1. CASE m.pinned \/ failed \/ Piped(m.text) = m.text
  BY <1>1, FlatMonotonic DEF PipedMessage
<1>2. CASE ~(m.pinned \/ failed \/ Piped(m.text) = m.text)
  <2>1. p = [m EXCEPT !.text = Piped(m.text),
                      !.ccr = IF cfg.hasStore THEN m.text ELSE m.ccr]
    BY <1>2 DEF PipedMessage
  <2>2. /\ m.text \in Text /\ Piped(m.text) \in Text
        /\ m.text \in Key => Piped(m.text) \in Key
    BY PipedFacts DEF Flat
  <2>3. /\ p \in [role : Roles, err : BOOLEAN, text : Text,
                  ccr : Text \cup {None} \cup [rich : Nat], pinned : BOOLEAN,
                  fin : BOOLEAN, idx : 0 .. Len(ms)]
        /\ p.text = Piped(m.text) /\ p.role = m.role /\ p.idx = m.idx
        /\ cfg.hasStore => p.ccr = m.text /\ m.text \in more
    BY <2>1, <2>2 DEF Flat
  <2>4. m.role = "tool" => m.text \in Key
    BY DEF Flat
  <2> HIDE DEF p, more
  <2>5. m.idx # 0 => Deeper(ms[m.idx], p)
    <3> SUFFICES ASSUME m.idx # 0 PROVE Deeper(ms[m.idx], p)
      OBVIOUS
    <3>1. FlatText(ms[m.idx].body) \in Text /\ Deeper(ms[m.idx], m) /\ m.text \in Text
      BY FlatOrigin DEF Flat
    <3>2. Piped(m.text) = [m.text EXCEPT !.layers = Append(@, "comp")]
      BY <1>2 DEF Piped
    <3>3. p.text.layers = Append(m.text.layers, "comp")
      BY <2>3, <3>1, <3>2 DEF Text, Key, SummaryText
    <3>4. QED
      BY <3>1, <3>3, DeeperStill
  <2>6. p \in Flat(ms, more, cfg.hasStore)
    BY <2>2, <2>3, <2>4, <2>5 DEF Flat
  <2>7. QED
    BY <2>6 DEF p, more
<1>3. QED
  BY <1>1, <1>2

\* Step 1 keeps the messages flat.
LEMMA FlatRules ==
  ASSUME NEW ms \in Seq(RichMessage), NEW st, NEW cfg,
         NEW w \in Seq(Flat(ms, st, cfg.hasStore)), NEW F
  PROVE  AgentRules(w, cfg, F)
           \in Seq(Flat(ms, st \cup AgentSaves(w, cfg, F), cfg.hasStore))
<1> DEFINE has  == cfg.hasStore
           more == st \cup AgentSaves(w, cfg, F)
           to   == Flat(ms, more, has)
<1>1. Len(w) \in Nat /\ DOMAIN w = 1 .. Len(w)
      /\ \A i \in DOMAIN w : w[i] \in Flat(ms, st, has)
  BY LenProperties, ElementOfSeq
<1>2. ASSUME NEW i \in DOMAIN w
      PROVE  (IF i \in ClearSet(w, cfg) \ F THEN ClearedMessage(w[i]) ELSE w[i]) \in to
  <2>1. CASE i \in ClearSet(w, cfg) \ F
    <3>1. Classify(w[i]) = "ToolResultSuccess"
      BY <2>1 DEF ClearSet, Clearable
    <3>2. w[i].role \in Roles /\ w[i].err \in BOOLEAN
      BY <1>1 DEF Flat
    <3>3. w[i].role = "tool"
      BY <3>1, <3>2 DEF Classify, Roles
    <3>4. ClearedMessage(w[i]) \in Flat(ms, st \cup {w[i].text}, has)
      BY <1>1, <3>3, FlatCleared
    <3>5. st \cup {w[i].text} \subseteq more
      BY <2>1 DEF AgentSaves
    <3> HIDE DEF has, more
    <3>6. QED
      BY <2>1, <3>4, <3>5, FlatMonotonic
  <2>2. CASE i \notin ClearSet(w, cfg) \ F
    BY <1>1, <2>2, FlatMonotonic
  <2>3. QED
    BY <2>1, <2>2
<1>3. AgentRules(w, cfg, F) \in [1 .. Len(w) -> to]
  BY <1>1, <1>2 DEF AgentRules
<1> HIDE DEF to
<1>4. AgentRules(w, cfg, F) \in Seq(to)
  BY <1>1, <1>3, FcnIsSeq
<1>5. QED
  BY <1>4 DEF to

\* So does band 2.
LEMMA FlatPipe ==
  ASSUME NEW ms \in Seq(RichMessage), NEW st, NEW cfg,
         NEW w \in Seq(Flat(ms, st, cfg.hasStore)), NEW p, NEW F
  PROVE  PipeBand(w, cfg, p, F)
           \in Seq(Flat(ms, st \cup PipeSaves(w, cfg, p, F), cfg.hasStore))
<1> DEFINE has  == cfg.hasStore
           more == st \cup PipeSaves(w, cfg, p, F)
           to   == Flat(ms, more, has)
           band == PipedBand(w, p)
<1>1. Len(w) \in Nat /\ DOMAIN w = 1 .. Len(w)
      /\ \A i \in DOMAIN w : w[i] \in Flat(ms, st, has)
  BY LenProperties, ElementOfSeq
<1>2. ASSUME NEW i \in DOMAIN w
      PROVE  (IF i \in band THEN PipedMessage(w[i], cfg, i \in F) ELSE w[i]) \in to
  <2>1. w[i] \in to
    BY <1>1, FlatMonotonic
  <2>2. CASE i \in band /\ i \notin F
    <3> DEFINE mine == IF has THEN {w[i].text} ELSE {}
    <3>1. st \cup mine \subseteq more
      BY <2>2 DEF PipeSaves
    <3>2. PipedMessage(w[i], cfg, i \in F) \in Flat(ms, st \cup mine, has)
      BY <1>1, FlatPiped
    <3> HIDE DEF mine, more, has
    <3>3. QED
      BY <2>2, <3>1, <3>2, FlatMonotonic
  <2>3. CASE i \in band /\ i \in F
    <3>1. PipedMessage(w[i], cfg, i \in F) = w[i]
      BY <2>3 DEF PipedMessage
    <3>2. QED
      BY <2>1, <3>1
  <2>4. CASE i \notin band
    BY <2>1, <2>4
  <2>5. QED
    BY <2>2, <2>3, <2>4
<1>3. PipeBand(w, cfg, p, F) \in [1 .. Len(w) -> to]
  BY <1>1, <1>2 DEF PipeBand
<1> HIDE DEF to
<1>4. PipeBand(w, cfg, p, F) \in Seq(to)
  BY <1>1, <1>3, FcnIsSeq
<1>5. QED
  BY <1>4 DEF to

\* The summary of band 1 stands for no single message.
LEMMA FlatOldBand ==
  ASSUME NEW ms \in Seq(RichMessage), NEW st, NEW has,
         NEW w \in Seq(Flat(ms, st, has)),
         NEW preserve \in Nat, NEW middle \in Nat, NEW summarize \in BOOLEAN
  PROVE  AfterOldBand(w, preserve, middle, summarize) \in Seq(Flat(ms, st, has))
<1> DEFINE b == BandStart(w, preserve, middle)
           S == Flat(ms, st, has)
<1>1. Len(w) \in Nat /\ w \in Seq(S)
  BY LenProperties
<1>2. CASE Len(w) <= preserve
  BY <1>2 DEF AfterOldBand
<1>3. CASE ~(Len(w) <= preserve)
  <2>1. b \in 0 .. Len(w)
    <3>1. Len(w) > preserve
      BY <1>1, <1>3
    <3> HIDE DEF S
    <3>2. QED
      BY <3>1, BandStartType, SMTT(30)
  <2> HIDE DEF b
  <2>2. SubSeq(w, b + 1, Len(w)) \in Seq(S)
    <3>1. b + 1 \in Nat \ {0} /\ Len(w) \in Int
      BY <1>1, <2>1
    <3> HIDE DEF S
    <3>2. QED
      BY <1>1, <3>1, PieceIsSeq
  <2> DEFINE old == SubSeq(w, 1, b)
  <2>3. old \in Seq(S)
    <3>1. b \in Int /\ b <= Len(w)
      BY <1>1, <2>1
    <3> HIDE DEF S
    <3>2. QED
      BY <1>1, <3>1, PieceIsSeq
  <2>4. SummaryMessage(old) \in S
    <3> HIDE DEF old
    <3>1. \A i \in DOMAIN old : old[i].text \in Text
      BY <2>3, ElementOfSeq, LenProperties DEF Flat
    <3>2. \A i \in DOMAIN old : Markers(old[i].text) \subseteq Key
      BY <3>1, MarkerFacts
    <3>3. SummaryOf(old) \in SummaryText
      <4> HIDE DEF S
      <4>1. QED
        BY <2>3, <3>1, <3>2, SummaryTextFacts
    <3>4. Len(ms) \in Nat
      BY LenProperties
    <3>5. SummaryOf(old) \in Text
      BY <3>3 DEF Text
    <3>6. QED
      BY <3>4, <3>5 DEF SummaryMessage, Flat, Roles
  <2> HIDE DEF old, S
  <2> DEFINE first == IF summarize THEN <<SummaryMessage(old)>> ELSE <<>>
  <2>5. first \in Seq(S)
    BY <2>4
  <2>6. first \o SubSeq(w, b + 1, Len(w)) \in Seq(S)
    BY <2>2, <2>5, ConcatProperties
  <2>7. AfterOldBand(w, preserve, middle, summarize) =
          IF b = 0 THEN w ELSE first \o SubSeq(w, b + 1, Len(w))
    BY <1>3 DEF AfterOldBand, FoldOldBand, b, old
  <2>8. QED
    BY <2>6, <2>7 DEF S
<1>4. QED
  BY <1>2, <1>3

\* Steps 2 and 3 keep the messages flat.
LEMMA FlatCompress ==
  ASSUME NEW ms \in Seq(RichMessage), NEW st, NEW cfg \in Config,
         NEW w \in Seq(Flat(ms, st, cfg.hasStore)),
         NEW middle \in Nat, NEW summarize \in BOOLEAN, NEW F
  PROVE  LET p == PreserveRecent(w, cfg)
             o == AfterOldBand(w, p, middle, summarize)
         IN  PipeBand(o, cfg, p, F)
               \in Seq(Flat(ms, st \cup PipeSaves(o, cfg, p, F), cfg.hasStore))
<1> DEFINE p == PreserveRecent(w, cfg)
           o == AfterOldBand(w, p, middle, summarize)
<1>1. p \in Nat
  BY PreserveRecentType
<1> HIDE DEF p
<1>2. o \in Seq(Flat(ms, st, cfg.hasStore))
  BY <1>1, FlatOldBand
<1> HIDE DEF o
<1>3. PipeBand(o, cfg, p, F)
        \in Seq(Flat(ms, st \cup PipeSaves(o, cfg, p, F), cfg.hasStore))
  BY <1>2, FlatPipe
<1>4. QED
  BY <1>3 DEF o, p

\* The cascade starts from flat messages.
LEMMA FlatStart ==
  ASSUME NEW ms \in Seq(RichMessage), NEW st, NEW has
  PROVE  /\ TaggedFlats(ms) \in Seq(Flat(ms, st, has))
         /\ DOMAIN TaggedFlats(ms) = DOMAIN ms
         /\ \A i \in DOMAIN ms :
              /\ TaggedFlats(ms)[i].idx = i
              /\ TaggedFlats(ms)[i].text = FlatText(ms[i].body)
              /\ TaggedFlats(ms)[i].err = HasErrorResult(ms[i].body)
              /\ TaggedFlats(ms)[i].role = ms[i].role
<1>1. Len(ms) \in Nat /\ DOMAIN ms = 1 .. Len(ms)
      /\ \A i \in DOMAIN ms : ms[i] \in RichMessage
  BY LenProperties, ElementOfSeq
<1>2. \A i \in DOMAIN ms :
        TaggedFlats(ms)[i] =
          [role |-> ms[i].role, err |-> HasErrorResult(ms[i].body),
           text |-> FlatText(ms[i].body), ccr |-> ms[i].ccr,
           pinned |-> ms[i].pinned, fin |-> FALSE, idx |-> i]
  BY DEF TaggedFlats, ToFlat
<1>3. \A i \in DOMAIN ms :
        /\ FlatText(ms[i].body) \in Text
        /\ ms[i].role = "tool" => FlatText(ms[i].body) \in Key
        /\ ms[i].role \in Roles /\ ms[i].pinned \in BOOLEAN
        /\ ms[i].ccr \in Text \cup {None} \cup [rich : Nat]
        /\ HasErrorResult(ms[i].body) \in BOOLEAN
  BY <1>1, FlatTextType, RichFields DEF HasErrorResult
<1>4. \A i \in DOMAIN ms : TaggedFlats(ms)[i] \in Flat(ms, st, has)
  <2> SUFFICES ASSUME NEW i \in DOMAIN ms PROVE TaggedFlats(ms)[i] \in Flat(ms, st, has)
    OBVIOUS
  <2> DEFINE t == FlatText(ms[i].body)
             e == HasErrorResult(ms[i].body)
             m == [role |-> ms[i].role, err |-> e, text |-> t, ccr |-> ms[i].ccr,
                   pinned |-> ms[i].pinned, fin |-> FALSE, idx |-> i]
  <2>1. TaggedFlats(ms)[i] = m
    BY <1>2
  <2>2. i \in 0 .. Len(ms)
    BY <1>1
  <2>3. /\ t \in Text /\ e \in BOOLEAN
        /\ ms[i].role = "tool" => t \in Key
        /\ ms[i].role \in Roles /\ ms[i].pinned \in BOOLEAN
        /\ ms[i].ccr \in Text \cup {None} \cup [rich : Nat]
    BY <1>3
  <2>4. m.text = t /\ m.idx = i /\ m.role = ms[i].role /\ t = FlatText(ms[i].body)
    OBVIOUS
  <2>5. Deeper(ms[i], m)
    <3> DEFINE z == [role |-> ms[i].role, err |-> e, text |-> t, ccr |-> ms[i].ccr,
                     pinned |-> ms[i].pinned, fin |-> FALSE, idx |-> 0]
    <3>1. ToFlat(ms[i]) = z
      BY DEF ToFlat
    <3> DEFINE S == [role : {ms[i].role}, err : {e}, text : {t}, ccr : {ms[i].ccr},
                     pinned : {ms[i].pinned}, fin : {FALSE}, idx : {i, 0}]
    <3> HIDE DEF e, t
    <3>2. m \in S /\ z \in S /\ z.idx = 0
      OBVIOUS
    <3> HIDE DEF m, z
    <3>3. Untagged(m) \in S /\ Untagged(m).idx = 0
      BY <3>2 DEF Untagged
    <3>4. Untagged(m) = z
      BY <3>2, <3>3 DEF Untagged
    <3>5. QED
      BY <3>1, <3>4 DEF Deeper
  <2> HIDE DEF t, e
  <2>6. m \in [role : Roles, err : BOOLEAN, text : Text,
               ccr : Text \cup {None} \cup [rich : Nat], pinned : BOOLEAN,
               fin : BOOLEAN, idx : 0 .. Len(ms)]
    BY <2>2, <2>3
  <2> HIDE DEF m
  <2>7. m \in Flat(ms, st, has)
    BY <2>3, <2>4, <2>5, <2>6 DEF Flat
  <2>8. QED
    BY <2>1, <2>7
<1>5. TaggedFlats(ms) \in [1 .. Len(ms) -> Flat(ms, st, has)]
  BY <1>1, <1>4 DEF TaggedFlats
<1>6. TaggedFlats(ms) \in Seq(Flat(ms, st, has)) /\ DOMAIN TaggedFlats(ms) = 1 .. Len(ms)
  BY <1>1, <1>5, FcnIsSeq
<1>7. QED
  BY <1>1, <1>2, <1>6
-----------------------------------------------------------------------------
(* Blocks and the rebuilt prompt *)

\* Compressing a content makes another text of text; blocks go through one
\* more pass, or stay as they are.
LEMMA ContentFacts ==
  ASSUME NEW m \in RichMessage, NEW policy
  PROVE  LET body == m.body
             new  == CompressContent(body, policy)
         IN  /\ new \in RichBody
             /\ body.kind = "text" => /\ new.kind = "text"
                                      /\ m.role = "tool" => new.text \in Key
             /\ body.kind = "blocks" =>
                  \/ new = body
                  \/ new = Blocks(body.of, body.passes + 1)
<1> DEFINE body == m.body
           new  == CompressContent(body, policy)
<1>1. CASE body.kind = "text"
  <2>1. body.text \in Text /\ body \in RichBody
    BY <1>1 DEF RichMessage, RichBody
  <2>2. Piped(body.text) \in Text /\ (body.text \in Key => Piped(body.text) \in Key)
    BY <2>1, PipedFacts
  <2>3. new = IF policy.text THEN Plain(Piped(body.text)) ELSE body
    BY <1>1 DEF CompressContent
  <2>4. m.role = "tool" => body.text \in Key
    BY <1>1 DEF RichMessage
  <2> HIDE DEF body, new
  <2>5. new \in RichBody /\ new.kind = "text" /\ (m.role = "tool" => new.text \in Key)
    BY <1>1, <2>1, <2>2, <2>3, <2>4 DEF RichBody, Plain
  <2>6. QED
    BY <1>1, <2>5 DEF body, new
<1>2. CASE body.kind = "blocks"
  <2>1. /\ body.of \in Contents /\ body.passes \in Nat /\ body \in RichBody
    BY <1>2 DEF RichMessage, RichBody
  <2>2. new = body \/ new = Blocks(body.of, body.passes + 1)
    BY <1>2 DEF CompressContent
  <2> HIDE DEF body, new
  <2>3. Blocks(body.of, body.passes + 1) \in RichBody
    BY <2>1 DEF RichBody, Blocks
  <2>4. QED
    BY <1>2, <2>1, <2>2, <2>3 DEF body, new
<1>3. QED
  BY <1>1, <1>2, RichFields

\* A rewritten message is a rich message, under its old id or a new one; it is
\* another message only if its content is another.
LEMMA RewrittenFacts ==
  ASSUME NEW m \in RichMessage, NEW n \in Nat
  PROVE  LET new == [Rewritten(m) EXCEPT !.ccr = [rich |-> n]]
         IN  /\ Rewritten(m) \in RichMessage /\ new \in RichMessage
             /\ Rewritten(m).body = CompressContent(m.body, config.rich)
             /\ new.body = CompressContent(m.body, config.rich)
             /\ new.ccr = [rich |-> n]
             /\ Rewritten(m) # m => CompressContent(m.body, config.rich) # m.body
<1> DEFINE b == CompressContent(m.body, config.rich)
<1>1. /\ b \in RichBody
      /\ m.role = "tool" /\ b.kind = "text" => b.text \in Key
  <2>1. /\ b \in RichBody
        /\ m.body.kind = "text" /\ m.role = "tool" => b.text \in Key
        /\ m.body.kind = "blocks" =>
             b = m.body \/ b = Blocks(m.body.of, m.body.passes + 1)
    BY ContentFacts
  <2> HIDE DEF b
  <2>2. m.body.kind \in {"text", "blocks"}
    BY RichFields
  <2>3. m.body.kind = "blocks" => b.kind = "blocks"
    BY <2>1 DEF Blocks
  <2>4. QED
    BY <2>1, <2>2, <2>3
<1>2. Rewritten(m) = [m EXCEPT !.body = b]
  BY DEF Rewritten
<1> HIDE DEF b
<1>3. [m EXCEPT !.body = b] \in RichMessage /\ [m EXCEPT !.body = b].body = b
  BY <1>1 DEF RichMessage
<1>4. [rich |-> n] \in [rich : Nat]
  OBVIOUS
<1>5. /\ [[m EXCEPT !.body = b] EXCEPT !.ccr = [rich |-> n]] \in RichMessage
      /\ [[m EXCEPT !.body = b] EXCEPT !.ccr = [rich |-> n]].body = b
      /\ [[m EXCEPT !.body = b] EXCEPT !.ccr = [rich |-> n]].ccr = [rich |-> n]
  BY <1>3, <1>4 DEF RichMessage
<1>6. b = m.body => [m EXCEPT !.body = b] = m
  BY DEF RichMessage
<1>7. QED
  BY <1>2, <1>3, <1>5, <1>6 DEF b

\* What reconstruct makes of a message that is not kept.
FlatMessage(m) ==
  [role |-> m.role, body |-> Plain(m.text), ccr |-> m.ccr, pinned |-> m.pinned,
   cache |-> FALSE]

\* Kept messages are messages of the prompt; the result is a rich prompt.
LEMMA ReconstructedFacts ==
  ASSUME prompt \in Seq(RichMessage), NEW st, NEW has,
         NEW w \in Seq(Flat(prompt, st, has))
  PROVE  /\ Reconstructed(w) \in Seq(RichMessage)
         /\ DOMAIN Reconstructed(w) = DOMAIN w
         /\ KeptPositions(w) \subseteq DOMAIN w
         /\ \A j \in KeptPositions(w) : /\ w[j].idx \in DOMAIN prompt
                                        /\ Reconstructed(w)[j] = prompt[w[j].idx]
         /\ \A j \in DOMAIN w \ KeptPositions(w) :
              Reconstructed(w)[j] = FlatMessage(w[j])
<1>1. Len(w) \in Nat /\ DOMAIN w = 1 .. Len(w)
      /\ \A j \in DOMAIN w : w[j] \in Flat(prompt, st, has)
  BY LenProperties, ElementOfSeq
<1>2. Len(prompt) \in Nat /\ DOMAIN prompt = 1 .. Len(prompt)
      /\ \A i \in DOMAIN prompt : prompt[i] \in RichMessage
  BY LenProperties, ElementOfSeq
<1>3. KeptPositions(w) \subseteq DOMAIN w
  BY DEF KeptPositions
<1>4. \A j \in KeptPositions(w) : w[j].idx \in DOMAIN prompt
  <2> SUFFICES ASSUME NEW j \in KeptPositions(w) PROVE w[j].idx \in DOMAIN prompt
    OBVIOUS
  <2>1. w[j].idx \in 0 .. Len(prompt)
    BY <1>1, <1>3 DEF Flat
  <2>2. w[j].idx # 0
    BY DEF KeptPositions
  <2>3. QED
    BY <1>2, <2>1, <2>2
<1>5. \A j \in DOMAIN w : FlatMessage(w[j]) \in RichMessage
  <2> SUFFICES ASSUME NEW j \in DOMAIN w PROVE FlatMessage(w[j]) \in RichMessage
    OBVIOUS
  <2> DEFINE m == w[j]
  <2>1. m \in Flat(prompt, st, has)
    BY <1>1
  <2> HIDE DEF m
  <2>2. /\ m.role \in Roles /\ m.text \in Text /\ m.pinned \in BOOLEAN
        /\ m.ccr \in Text \cup {None} \cup [rich : Nat]
        /\ m.role = "tool" => m.text \in Key
    BY <2>1 DEF Flat
  <2>3. Plain(m.text) \in RichBody /\ Plain(m.text).text = m.text
    BY <2>2 DEF Plain, RichBody
  <2>4. FlatMessage(m) \in RichMessage
    BY <2>2, <2>3 DEF FlatMessage, RichMessage
  <2>5. QED
    BY <2>4 DEF m
<1>6. \A j \in DOMAIN w :
        Reconstructed(w)[j] = IF j \in KeptPositions(w) THEN prompt[w[j].idx]
                              ELSE FlatMessage(w[j])
  BY DEF Reconstructed, FlatMessage
<1> HIDE DEF KeptPositions
<1>7. \A j \in DOMAIN w : Reconstructed(w)[j] \in RichMessage
  BY <1>2, <1>4, <1>5, <1>6
<1>8. Reconstructed(w) \in [1 .. Len(w) -> RichMessage]
  BY <1>1, <1>7 DEF Reconstructed
<1>9. Reconstructed(w) \in Seq(RichMessage) /\ DOMAIN Reconstructed(w) = 1 .. Len(w)
  BY <1>1, <1>8, FcnIsSeq
<1>10. QED
  BY <1>1, <1>3, <1>4, <1>6, <1>9

\* Annotations touch nothing but the annotations.
LEMMA AnnotatedFacts ==
  ASSUME NEW ms \in Seq(RichMessage), NEW policy, NEW suffix
  PROVE  LET new == ApplyCacheStrategy(ms, policy, suffix)
         IN  /\ new \in Seq(RichMessage) /\ DOMAIN new = DOMAIN ms
             /\ Len(new) = Len(ms)
             /\ \A i \in DOMAIN ms : /\ new[i].body = ms[i].body
                                     /\ new[i].role = ms[i].role
                                     /\ new[i].ccr = ms[i].ccr
<1> DEFINE new == ApplyCacheStrategy(ms, policy, suffix)
           mark(i) == policy = "anthropic" /\ i \in Breakpoints(ms, suffix)
<1>1. Len(ms) \in Nat /\ DOMAIN ms = 1 .. Len(ms)
      /\ \A i \in DOMAIN ms : ms[i] \in RichMessage
  BY LenProperties, ElementOfSeq
<1>2. new = [i \in DOMAIN ms |-> [ms[i] EXCEPT !.cache = mark(i)]]
  BY DEF ApplyCacheStrategy
<1>3. \A i \in DOMAIN ms : mark(i) \in BOOLEAN
  OBVIOUS
<1> HIDE DEF new, mark
<1>4. ASSUME NEW i \in DOMAIN ms
      PROVE  /\ new[i] \in RichMessage /\ new[i].body = ms[i].body
             /\ new[i].role = ms[i].role /\ new[i].ccr = ms[i].ccr
  <2>1. new[i] = [ms[i] EXCEPT !.cache = mark(i)]
    BY <1>2
  <2>2. mark(i) \in BOOLEAN /\ ms[i] \in RichMessage
    BY <1>1, <1>3
  <2>3. QED
    BY <2>1, <2>2 DEF RichMessage
<1>5. new \in [1 .. Len(ms) -> RichMessage]
  BY <1>1, <1>2, <1>4
<1>6. new \in Seq(RichMessage) /\ Len(new) = Len(ms) /\ DOMAIN new = 1 .. Len(ms)
  BY <1>1, <1>5, FcnIsSeq
<1>7. QED
  BY <1>1, <1>4, <1>6 DEF new
-----------------------------------------------------------------------------
(* The invariant *)

Phases == {"idle", "rules", "middle", "summarize", "drop", "rebuild", "blocks"}

\* What the variables may hold, the list of the cascade while there is one.
Typed ==
  /\ config \in RichConfigs
  /\ prompt \in Seq(RichMessage)
  /\ archive \in Seq(RichMessage)
  /\ pushes \in Nat
  /\ pc \in Phases
  /\ pc # "idle" => working \in Seq(Flat(prompt, store, config.cascade.hasStore))

\* The message a kept position stands for, while block compression is at work:
\* untouched, or rewritten once and, if that is to be undone, saved.
Served(m, j) ==
  \/ out[j] = m
  \/ /\ j \notin todo
     /\ out[j].body = CompressContent(m.body, config.rich)
     /\ out[j].body # m.body
     /\ config.rich.reversible =>
          out[j].ccr \in RichId /\ archive[out[j].ccr.rich] = m

\* While block compression is at work, kept messages are served, the others
\* are flat text.
Rebuilt ==
  pc = "blocks" =>
    /\ out \in Seq(RichMessage) /\ DOMAIN out = DOMAIN working
    /\ todo \subseteq KeptPositions(working)
    /\ \A j \in KeptPositions(working) : Served(prompt[working[j].idx], j)
    /\ \A j \in DOMAIN working \ KeptPositions(working) :
         out[j] = FlatMessage(working[j])

\* A message that so many passes have compressed leads to the one before.
LeadsBack(m, a) ==
  m.body.kind = "blocks" /\ m.body.passes > 0 =>
    /\ m.ccr \in [rich : 1 .. Len(a)]
    /\ a[m.ccr.rich].body = Blocks(m.body.of, m.body.passes - 1)

\* Whatever the host or the archive holds leads back.
Led ==
  config.rich.reversible =>
    /\ \A i \in DOMAIN prompt : LeadsBack(prompt[i], archive)
    /\ \A n \in DOMAIN archive : LeadsBack(archive[n], archive)

\* At the start the host has nothing.
LEMMA RichInit == Init => Typed /\ Rebuilt /\ Led
<1> SUFFICES ASSUME Init PROVE Typed /\ Rebuilt /\ Led
  OBVIOUS
<1>1. <<>> \in Seq(RichMessage) /\ DOMAIN <<>> = {}
  OBVIOUS
<1>2. QED
  BY <1>1 DEF Init, Typed, Rebuilt, Led, Phases

\* The configuration, as far as the proofs need it.
LEMMA ConfigFacts ==
  ASSUME Typed
  PROVE  config.cascade \in Config /\ config.rich \in RichPolicy
BY RichAssumption DEF Typed

\* What a step of the cascade saves is in the store when its list is.
LEMMA TypedCascade ==
  ASSUME Typed, NEW phase, phase \in Phases \ {"idle", "blocks"},
         NEW next, next \in Phases \ {"idle", "blocks"}, NEW list, NEW saves,
         CascadeStep(phase, next, list, saves),
         list \in Seq(Flat(prompt, store \cup saves, config.cascade.hasStore))
  PROVE  Typed' /\ pc' # "blocks"
<1>1. /\ config' = config /\ prompt' = prompt /\ archive' = archive
      /\ pushes' = pushes /\ working' = list /\ store' = store \cup saves
      /\ pc' \in {"rebuild", next}
  BY DEF CascadeStep
<1>2. QED
  BY <1>1 DEF Typed, Phases

\* The steps of the cascade, one by one, keep its list flat.
LEMMA TypedRules ==
  ASSUME Typed, Rules
  PROVE  Typed' /\ pc' # "blocks"
<1> DEFINE list  == AgentRules(working, config.cascade, {})
           saves == AgentSaves(working, config.cascade, {})
<1>1. /\ working \in Seq(Flat(prompt, store, config.cascade.hasStore))
      /\ prompt \in Seq(RichMessage)
  BY DEF Typed, Rules, CascadeStep
<1>2. list \in Seq(Flat(prompt, store \cup saves, config.cascade.hasStore))
  BY <1>1, FlatRules
<1>3. CascadeStep("rules", "middle", list, saves)
  BY DEF Rules
<1> HIDE DEF list, saves
<1>4. QED
  BY <1>2, <1>3, TypedCascade DEF Phases

\* Steps 2 and 3 of it alike.
LEMMA TypedCompress ==
  ASSUME Typed, NEW phase, phase \in Phases \ {"idle", "blocks"},
         NEW next, next \in Phases \ {"idle", "blocks"},
         NEW middle \in Nat, NEW summarize \in BOOLEAN,
         Compress(phase, next, middle, summarize)
  PROVE  Typed' /\ pc' # "blocks"
<1> DEFINE p == PreserveRecent(working, config.cascade)
           w == AfterOldBand(working, p, middle, summarize)
           list  == PipeBand(w, config.cascade, p, {})
           saves == PipeSaves(w, config.cascade, p, {})
<1>1. CascadeStep(phase, next, list, saves)
  BY DEF Compress
<1>2. working \in Seq(Flat(prompt, store, config.cascade.hasStore))
  BY <1>1 DEF Typed, CascadeStep
<1>3. prompt \in Seq(RichMessage) /\ config.cascade \in Config
  BY ConfigFacts DEF Typed
<1>4. list \in Seq(Flat(prompt, store \cup saves, config.cascade.hasStore))
  BY <1>2, <1>3, FlatCompress
<1> HIDE DEF list, saves
<1>5. QED
  BY <1>1, <1>4, TypedCascade

\* Each with its own band.
LEMMA TypedBands ==
  ASSUME Typed, Middle \/ Summarize
  PROVE  Typed' /\ pc' # "blocks"
<1>1. CASE Middle
  <2>1. Len(working) \in Nat
    <3>1. working \in Seq(Flat(prompt, store, config.cascade.hasStore))
      BY <1>1 DEF Typed, Middle, Compress, CascadeStep
    <3>2. QED
      BY <3>1, LenProperties
  <2>2. Compress("middle", "summarize", Len(working), FALSE)
    BY <1>1 DEF Middle
  <2>3. QED
    BY <2>1, <2>2, TypedCompress DEF Phases
<1>2. CASE Summarize
  <2>1. Compress("summarize", "drop", MiddleBand, TRUE) /\ MiddleBand \in Nat
    BY <1>2, CascadeAssumption DEF Summarize
  <2>2. QED
    BY <2>1, TypedCompress DEF Phases
<1>3. QED
  BY <1>1, <1>2

\* Dropping leaves a part of the list.
LEMMA TypedDrop ==
  ASSUME Typed, Drop
  PROVE  Typed' /\ pc' # "blocks"
<1> DEFINE S == Flat(prompt, store, config.cascade.hasStore)
           r == DropRange(working, config.cascade)
           v == SubSeq(working, 1, r[1] - 1) \o
                  SubSeq(working, r[2] + 1, Len(working))
<1>1. /\ pc = "drop" /\ CanDrop(working, config.cascade) /\ working' = v
      /\ UNCHANGED <<config, prompt, store, archive, pc, pushes>>
  BY DEF Drop
<1>2. working \in Seq(S)
  BY <1>1 DEF Typed
<1>3. v \in Seq(S)
  <2> HIDE DEF S
  <2>1. QED
    BY <1>1, <1>2, DropFacts
<1> HIDE DEF v
<1>4. QED
  BY <1>1, <1>3 DEF Typed

\* What hosts push are rich messages.
LEMMA BatchTyped ==
  ASSUME NEW batch \in RichBatches
  PROVE  batch \in Seq(RichMessage)
<1>1. batch \in Seq({m \in RichMessage : m.body.kind = "blocks" => m.body.passes = 0})
  BY RichAssumption
<1>2. {m \in RichMessage : m.body.kind = "blocks" => m.body.passes = 0}
        \subseteq RichMessage
  OBVIOUS
<1>3. QED
  BY <1>1, <1>2, SeqMonotonic

\* Pushing and flattening.
LEMMA TypedStart ==
  ASSUME Typed, Compact \/ (\E batch \in RichBatches : Push(batch))
  PROVE  Typed' /\ pc' # "blocks"
<1>1. CASE Compact
  <2>1. /\ working' = TaggedFlats(prompt) /\ pc' \in {"rebuild", "rules"}
        /\ UNCHANGED <<config, prompt, store, archive, pushes>>
    BY <1>1 DEF Compact
  <2>2. prompt \in Seq(RichMessage)
    BY DEF Typed
  <2>3. TaggedFlats(prompt) \in Seq(Flat(prompt, store, config.cascade.hasStore))
    BY <2>2, FlatStart
  <2>4. QED
    BY <2>1, <2>3 DEF Typed, Phases
<1>2. ASSUME NEW batch \in RichBatches, Push(batch) PROVE Typed' /\ pc' # "blocks"
  <2>1. /\ prompt' = prompt \o batch /\ pc = "idle" /\ pushes' = pushes + 1
        /\ UNCHANGED <<config, store, archive, pc, working>>
    BY <1>2 DEF Push
  <2>2. batch \in Seq(RichMessage)
    BY BatchTyped
  <2>3. prompt \o batch \in Seq(RichMessage)
    BY <2>2, ConcatProperties DEF Typed
  <2>4. QED
    BY <2>1, <2>3 DEF Typed, Phases
<1>3. QED
  BY <1>1, <1>2

\* The blocks come back.
LEMMA TypedRebuild ==
  ASSUME Typed, Rebuild
  PROVE  Typed' /\ Rebuilt'
<1> DEFINE has == config.cascade.hasStore
           K == KeptPositions(working)
<1>1. /\ pc # "idle" /\ pc' = "blocks" /\ out' = Reconstructed(working)
      /\ todo' = CompressPositions(working)
      /\ UNCHANGED <<config, prompt, store, archive, working, pushes>>
  BY DEF Rebuild
<1>2. prompt \in Seq(RichMessage) /\ working \in Seq(Flat(prompt, store, has))
  BY <1>1 DEF Typed
<1>3. /\ Reconstructed(working) \in Seq(RichMessage)
      /\ DOMAIN Reconstructed(working) = DOMAIN working
      /\ \A j \in K : Reconstructed(working)[j] = prompt[working[j].idx]
      /\ \A j \in DOMAIN working \ K :
           Reconstructed(working)[j] = FlatMessage(working[j])
  BY <1>2, ReconstructedFacts
<1>4. CompressPositions(working) \subseteq K
  BY DEF CompressPositions
<1>5. KeptPositions(working)' = K
  BY <1>1 DEF KeptPositions
<1>6. Typed'
  BY <1>1, <1>2 DEF Typed, Phases
<1> HIDE DEF K
<1>7. \A j \in K : Served(prompt[working[j].idx], j)'
  BY <1>1, <1>3 DEF Served
<1>8. Rebuilt'
  BY <1>1, <1>3, <1>4, <1>5, <1>7 DEF Rebuilt, K
<1>9. QED
  BY <1>6, <1>8

\* Saving a message makes it available under its id and touches no other.
LEMMA ArchiveFacts ==
  ASSUME archive \in Seq(RichMessage), NEW m \in RichMessage
  PROVE  /\ Archived(m) \in Seq(RichMessage)
         /\ ArchiveId(m) \in 1 .. Len(Archived(m))
         /\ Archived(m)[ArchiveId(m)] = m
         /\ Len(archive) <= Len(Archived(m))
         /\ \A n \in 1 .. Len(archive) : Archived(m)[n] = archive[n]
         /\ \A n \in 1 .. Len(Archived(m)) :
              n \in 1 .. Len(archive) \/ Archived(m)[n] = m
<1>1. Len(archive) \in Nat /\ DOMAIN archive = 1 .. Len(archive)
  BY LenProperties
<1>2. CASE \E n \in DOMAIN archive : archive[n] = m
  <2>1. ArchiveId(m) \in DOMAIN archive /\ archive[ArchiveId(m)] = m
    BY <1>2 DEF ArchiveId
  <2>2. Archived(m) = archive
    BY <2>1 DEF Archived
  <2>3. QED
    BY <1>1, <2>1, <2>2
<1>3. CASE ~\E n \in DOMAIN archive : archive[n] = m
  <2>1. ArchiveId(m) = Len(archive) + 1
    BY <1>3 DEF ArchiveId
  <2>2. Archived(m) = Append(archive, m)
    <3>1. Len(archive) + 1 \notin DOMAIN archive
      BY <1>1
    <3>2. QED
      BY <2>1, <3>1 DEF Archived
  <2>3. /\ Append(archive, m) \in Seq(RichMessage)
        /\ Len(Append(archive, m)) = Len(archive) + 1
        /\ Append(archive, m)[Len(archive) + 1] = m
        /\ \A n \in 1 .. Len(archive) : Append(archive, m)[n] = archive[n]
    BY AppendProperties
  <2>4. QED
    BY <1>1, <2>1, <2>2, <2>3
<1>4. QED
  BY <1>2, <1>3

\* What a store of rich messages can do between two states.
Grows(a, b, m) ==
  /\ Len(a) <= Len(b)
  /\ \A n \in 1 .. Len(a) : b[n] = a[n]
  /\ \A n \in 1 .. Len(b) : n \in 1 .. Len(a) \/ b[n] = m

\* One message through block compression.
LEMMA NextFacts ==
  ASSUME Typed, Rebuilt, CompressNext
  PROVE  LET j == Min(todo)
             m == prompt[working[j].idx]
         IN  /\ j \in todo /\ todo \subseteq DOMAIN out /\ out[j] = m
             /\ working[j].idx \in DOMAIN prompt /\ m \in RichMessage
             /\ todo' = todo \ {j}
             /\ archive' \in Seq(RichMessage) /\ Grows(archive, archive', m)
             /\ out' \in Seq(RichMessage) /\ DOMAIN out' = DOMAIN out
             /\ \A i \in DOMAIN out : i # j => out'[i] = out[i]
             /\ \/ out'[j] = m
                \/ /\ out'[j].body = CompressContent(m.body, config.rich)
                   /\ out'[j].body # m.body
                   /\ config.rich.reversible =>
                        /\ out'[j].ccr \in [rich : 1 .. Len(archive')]
                        /\ archive'[out'[j].ccr.rich] = m
<1> DEFINE j == Min(todo)
           m == prompt[working[j].idx]
           K == KeptPositions(working)
<1>1. /\ pc = "blocks" /\ todo # {} /\ todo' = todo \ {j}
      /\ working \in Seq(Flat(prompt, store, config.cascade.hasStore))
      /\ out \in Seq(RichMessage) /\ DOMAIN out = DOMAIN working
      /\ todo \subseteq K /\ prompt \in Seq(RichMessage)
      /\ archive \in Seq(RichMessage)
      /\ \A i \in K : Served(prompt[working[i].idx], i)
  BY DEF CompressNext, Typed, Rebuilt
<1>2. /\ K \subseteq DOMAIN working
      /\ \A i \in K : working[i].idx \in DOMAIN prompt
  BY <1>1, ReconstructedFacts
<1>3. /\ DOMAIN out = 1 .. Len(out) /\ Len(out) \in Nat
      /\ \A i \in DOMAIN out : out[i] \in RichMessage
  BY <1>1, LenProperties, ElementOfSeq
<1>4. todo \subseteq DOMAIN out
  BY <1>1, <1>2
<1>5. j \in todo
  <2>1. todo \in SUBSET Nat
    BY <1>3, <1>4
  <2>2. QED
    BY <1>1, <2>1, MinProps
<1> HIDE DEF j, K
<1>6. out[j] = m
  BY <1>1, <1>5 DEF Served
<1>7. working[j].idx \in DOMAIN prompt /\ j \in DOMAIN out /\ m \in RichMessage
  BY <1>1, <1>2, <1>3, <1>4, <1>5, <1>6
<1> DEFINE old == out[j]
           saved == config.rich.reversible /\ config.cascade.hasStore
           id == ArchiveId(old)
           new == [Rewritten(old) EXCEPT !.ccr = [rich |-> id]]
<1>8. /\ Archived(old) \in Seq(RichMessage)
      /\ id \in 1 .. Len(Archived(old)) /\ Archived(old)[id] = old
      /\ Grows(archive, Archived(old), old)
  BY <1>1, <1>3, <1>7, ArchiveFacts DEF Grows
<1>9. Grows(archive, archive, old)
  BY <1>1, LenProperties DEF Grows
<1>10. /\ Rewritten(old) \in RichMessage /\ new \in RichMessage
       /\ Rewritten(old).body = CompressContent(old.body, config.rich)
       /\ new.body = CompressContent(old.body, config.rich)
       /\ new.ccr = [rich |-> id]
       /\ Rewritten(old) # old => CompressContent(old.body, config.rich) # old.body
  <2>1. id \in Nat
    BY <1>8, LenProperties
  <2>2. old \in RichMessage
    BY <1>3, <1>7
  <2> HIDE DEF id, old
  <2>3. QED
    BY <2>1, <2>2, RewrittenFacts
<1>11. \/ /\ Rewritten(old) # old /\ archive' = Archived(old)
          /\ out' = [out EXCEPT ![j] = new]
       \/ UNCHANGED <<out, archive>>
       \/ /\ Rewritten(old) # old /\ ~config.rich.reversible
          /\ out' = [out EXCEPT ![j] = Rewritten(old)] /\ archive' = archive
  BY DEF CompressNext, j
<1> HIDE DEF new, old, id, m
<1>12. CASE Rewritten(old) # old /\ archive' = Archived(old)
            /\ out' = [out EXCEPT ![j] = new]
  <2>1. out' \in [1 .. Len(out) -> RichMessage]
    BY <1>3, <1>10, <1>12
  <2>2. out' \in Seq(RichMessage) /\ DOMAIN out' = DOMAIN out
    BY <1>3, <2>1, FcnIsSeq
  <2>3. out'[j] = new /\ \A i \in DOMAIN out : i # j => out'[i] = out[i]
    BY <1>7, <1>12
  <2>4. new.ccr \in [rich : 1 .. Len(archive')] /\ archive'[new.ccr.rich] = old
    BY <1>8, <1>10, <1>12
  <2>5. old = m
    BY <1>6 DEF old
  <2>6. QED
    BY <1>1, <1>4, <1>5, <1>6, <1>7, <1>8, <1>10, <1>12, <2>2, <2>3, <2>4, <2>5
       DEF j, m
<1>13. CASE UNCHANGED <<out, archive>>
  <2>1. old = m
    BY <1>6 DEF old
  <2>2. QED
    BY <1>1, <1>4, <1>5, <1>6, <1>7, <1>9, <1>13, <2>1 DEF j, m
<1>14. CASE Rewritten(old) # old /\ ~config.rich.reversible
            /\ out' = [out EXCEPT ![j] = Rewritten(old)] /\ archive' = archive
  <2>1. out' \in [1 .. Len(out) -> RichMessage]
    BY <1>3, <1>10, <1>14
  <2>2. out' \in Seq(RichMessage) /\ DOMAIN out' = DOMAIN out
    BY <1>3, <2>1, FcnIsSeq
  <2>3. out'[j] = Rewritten(old) /\ \A i \in DOMAIN out : i # j => out'[i] = out[i]
    BY <1>7, <1>14
  <2>4. old = m
    BY <1>6 DEF old
  <2>5. QED
    BY <1>1, <1>4, <1>5, <1>6, <1>7, <1>9, <1>10, <1>14, <2>2, <2>3, <2>4
       DEF j, m
<1>15. QED
  BY <1>11, <1>12, <1>13, <1>14

\* Block compression keeps every part of the invariant.
LEMMA NextKeeps ==
  ASSUME Typed, Rebuilt, Led, CompressNext
  PROVE  Typed' /\ Rebuilt' /\ Led'
<1> DEFINE j == Min(todo)
           m == prompt[working[j].idx]
           K == KeptPositions(working)
<1>1. /\ j \in todo /\ todo \subseteq DOMAIN out /\ out[j] = m
      /\ working[j].idx \in DOMAIN prompt /\ m \in RichMessage
      /\ todo' = todo \ {j}
      /\ archive' \in Seq(RichMessage) /\ Grows(archive, archive', m)
      /\ out' \in Seq(RichMessage) /\ DOMAIN out' = DOMAIN out
      /\ \A i \in DOMAIN out : i # j => out'[i] = out[i]
      /\ \/ out'[j] = m
         \/ /\ out'[j].body = CompressContent(m.body, config.rich)
            /\ out'[j].body # m.body
            /\ config.rich.reversible =>
                 /\ out'[j].ccr \in [rich : 1 .. Len(archive')]
                 /\ archive'[out'[j].ccr.rich] = m
  BY NextFacts
<1>2. /\ pc = "blocks"
      /\ UNCHANGED <<config, prompt, store, pc, working, pushes>>
  BY DEF CompressNext
<1>3. /\ DOMAIN out = DOMAIN working /\ todo \subseteq K
      /\ \A i \in K : Served(prompt[working[i].idx], i)
      /\ \A i \in DOMAIN working \ K : out[i] = FlatMessage(working[i])
  BY <1>2 DEF Rebuilt
<1>4. Typed'
  BY <1>1, <1>2 DEF Typed
<1>5. KeptPositions(working)' = K
  BY <1>2 DEF KeptPositions
<1>6. K \subseteq DOMAIN working
  BY DEF KeptPositions
<1>7. Len(archive) \in Nat /\ Len(archive') \in Nat
      /\ DOMAIN archive = 1 .. Len(archive) /\ DOMAIN archive' = 1 .. Len(archive')
  BY <1>1, LenProperties DEF Typed
<1> HIDE DEF j, K
<1>8. ASSUME NEW i \in K PROVE Served(prompt[working[i].idx], i)'
  <2> DEFINE mine == prompt[working[i].idx]
  <2>1. Served(mine, i) /\ i \in DOMAIN out
    BY <1>3, <1>6
  <2>2. CASE i = j
    <3>1. mine = m /\ i \notin todo'
      BY <1>1, <2>2
    <3> HIDE DEF m, mine
    <3>2. Served(mine, i)'
      BY <1>1, <1>2, <2>2, <3>1 DEF Served, RichId, mine, m
    <3>3. QED
      BY <3>2 DEF mine
  <2>3. CASE i # j
    <3>1. out'[i] = out[i] /\ (i \notin todo => i \notin todo')
      BY <1>1, <2>1, <2>3
    <3>2. ASSUME NEW x, x \in RichId
          PROVE  x \in RichId' /\ archive'[x.rich] = archive[x.rich]
      <4>1. x.rich \in 1 .. Len(archive) /\ x = [rich |-> x.rich]
        BY <3>2 DEF RichId
      <4>2. x.rich \in 1 .. Len(archive') /\ archive'[x.rich] = archive[x.rich]
        BY <1>1, <1>7, <4>1 DEF Grows
      <4>3. QED
        BY <4>1, <4>2 DEF RichId
    <3>3. mine' = mine
      BY <1>2
    <3> HIDE DEF mine
    <3>4. Served(mine, i)'
      BY <1>2, <2>1, <3>1, <3>2, <3>3 DEF Served
    <3>5. QED
      BY <3>4 DEF mine
  <2>4. QED
    BY <2>2, <2>3
<1>9. Rebuilt'
  <2>1. \A i \in DOMAIN working \ K : out'[i] = FlatMessage(working[i])
    BY <1>1, <1>3
  <2>2. todo' \subseteq K /\ DOMAIN out' = DOMAIN working
    BY <1>1, <1>3
  <2>3. QED
    BY <1>1, <1>2, <1>5, <1>8, <2>1, <2>2 DEF Rebuilt
<1>10. ASSUME NEW x, LeadsBack(x, archive) PROVE LeadsBack(x, archive')
  <2>1. ASSUME x.ccr \in [rich : 1 .. Len(archive)]
        PROVE  /\ x.ccr \in [rich : 1 .. Len(archive')]
               /\ archive'[x.ccr.rich] = archive[x.ccr.rich]
    <3>1. x.ccr.rich \in 1 .. Len(archive) /\ x.ccr = [rich |-> x.ccr.rich]
      BY <2>1
    <3>2. /\ x.ccr.rich \in 1 .. Len(archive')
          /\ archive'[x.ccr.rich] = archive[x.ccr.rich]
      BY <1>1, <1>7, <3>1 DEF Grows
    <3>3. QED
      BY <3>1, <3>2
  <2>2. QED
    BY <1>10, <2>1 DEF LeadsBack
<1>11. ASSUME config.rich.reversible
       PROVE  /\ \A i \in DOMAIN prompt : LeadsBack(prompt[i], archive')
              /\ \A n \in DOMAIN archive' : LeadsBack(archive'[n], archive')
  <2>1. \A i \in DOMAIN prompt : LeadsBack(prompt[i], archive')
    BY <1>10, <1>11 DEF Led
  <2>2. ASSUME NEW n \in DOMAIN archive' PROVE LeadsBack(archive'[n], archive')
    <3>1. CASE n \in DOMAIN archive
      <4>1. archive'[n] = archive[n] /\ LeadsBack(archive[n], archive)
        BY <1>1, <1>7, <1>11, <3>1 DEF Led, Grows
      <4>2. QED
        BY <1>10, <4>1
    <3>2. CASE n \notin DOMAIN archive
      <4>1. archive'[n] = m
        BY <1>1, <1>7, <3>2 DEF Grows
      <4>2. LeadsBack(m, archive')
        BY <1>1, <2>1
      <4>3. QED
        BY <4>1, <4>2
    <3>3. QED
      BY <3>1, <3>2
  <2>3. QED
    BY <2>1, <2>2
<1>12. Led'
  BY <1>2, <1>11 DEF Led
<1>13. QED
  BY <1>4, <1>9, <1>12

\* Whatever is emitted leads back.
LEMMA OutLeads ==
  ASSUME Typed, Rebuilt, Led, pc = "blocks", config.rich.reversible,
         NEW j \in DOMAIN out
  PROVE  LeadsBack(out[j], archive)
<1> DEFINE K == KeptPositions(working)
           m == prompt[working[j].idx]
<1>1. /\ DOMAIN out = DOMAIN working /\ prompt \in Seq(RichMessage)
      /\ working \in Seq(Flat(prompt, store, config.cascade.hasStore))
      /\ \A i \in K : Served(prompt[working[i].idx], i)
      /\ \A i \in DOMAIN working \ K : out[i] = FlatMessage(working[i])
  BY DEF Typed, Rebuilt
<1>2. \A i \in K : working[i].idx \in DOMAIN prompt
  BY <1>1, ReconstructedFacts
<1> HIDE DEF K
<1>3. CASE j \notin K
  BY <1>1, <1>3 DEF FlatMessage, Plain, LeadsBack
<1>4. CASE j \in K
  <2>1. Served(m, j) /\ LeadsBack(m, archive)
    BY <1>1, <1>2, <1>4 DEF Led
  <2>2. m \in RichMessage
    BY <1>1, <1>2, <1>4, ElementOfSeq, LenProperties
  <2> HIDE DEF m
  <2>3. CASE out[j] = m
    BY <2>1, <2>3
  <2>4. CASE /\ out[j].body = CompressContent(m.body, config.rich)
             /\ out[j].body # m.body
             /\ out[j].ccr \in RichId /\ archive[out[j].ccr.rich] = m
    <3> DEFINE new == CompressContent(m.body, config.rich)
    <3>1. /\ m.body.kind = "text" => new.kind = "text"
          /\ m.body.kind = "blocks" =>
               new = m.body \/ new = Blocks(m.body.of, m.body.passes + 1)
      BY <2>2, ContentFacts
    <3> HIDE DEF new
    <3>2. new = out[j].body /\ new # m.body
      BY <2>4 DEF new
    <3>3. CASE m.body.kind = "text"
      BY <3>1, <3>2, <3>3 DEF LeadsBack
    <3>4. CASE m.body.kind = "blocks"
      <4>1. m.body = Blocks(m.body.of, m.body.passes) /\ m.body.passes \in Nat
        BY <2>2, <3>4, RichFields DEF Plain
      <4>2. new.of = m.body.of /\ new.passes = m.body.passes + 1
        BY <3>1, <3>2, <3>4 DEF Blocks
      <4>3. new.passes - 1 = m.body.passes
        BY <4>1, <4>2
      <4>4. archive[out[j].ccr.rich].body = Blocks(new.of, new.passes - 1)
        BY <2>4, <4>1, <4>2, <4>3
      <4>5. QED
        BY <2>4, <3>2, <4>4 DEF LeadsBack, RichId
    <3>5. QED
      BY <2>2, <3>3, <3>4, RichFields
  <2>5. QED
    BY <2>1, <2>3, <2>4 DEF Served
<1>5. QED
  BY <1>3, <1>4

\* Handing back the result, or the host's own messages.
LEMMA FinishKeeps ==
  ASSUME Typed, Rebuilt, Led, Finish \/ Exceeded
  PROVE  Typed' /\ Rebuilt' /\ Led'
<1>1. CASE Exceeded
  <2>1. pc' = "idle" /\ UNCHANGED <<config, prompt, store, archive, pushes>>
    BY <1>1 DEF Exceeded
  <2>2. QED
    BY <2>1 DEF Typed, Rebuilt, Led, Phases
<1>2. CASE Finish
  <2>1. /\ pc = "blocks" /\ pc' = "idle" /\ prompt' = Emitted
        /\ UNCHANGED <<config, store, archive, pushes>>
    BY <1>2 DEF Finish
  <2>2. out \in Seq(RichMessage)
    BY <2>1 DEF Rebuilt
  <2>3. /\ Emitted \in Seq(RichMessage) /\ DOMAIN Emitted = DOMAIN out
        /\ \A i \in DOMAIN out : /\ Emitted[i].body = out[i].body
                                 /\ Emitted[i].ccr = out[i].ccr
    BY <2>2, AnnotatedFacts DEF Emitted
  <2>4. Typed'
    BY <2>1, <2>3 DEF Typed, Phases
  <2>5. Rebuilt'
    BY <2>1 DEF Rebuilt
  <2>6. ASSUME config.rich.reversible, NEW i \in DOMAIN prompt'
        PROVE  LeadsBack(prompt'[i], archive')
    <3>1. LeadsBack(out[i], archive)
      BY <2>1, <2>3, <2>6, OutLeads
    <3>2. /\ prompt'[i].body = out[i].body /\ prompt'[i].ccr = out[i].ccr
          /\ archive' = archive
      BY <2>1, <2>3
    <3>3. QED
      BY <3>1, <3>2 DEF LeadsBack
  <2>7. Led'
    BY <2>1, <2>6 DEF Led
  <2>8. QED
    BY <2>4, <2>5, <2>7
<1>3. QED
  BY <1>1, <1>2

\* What a host pushes has been through no pass.
LEMMA PushLeads ==
  ASSUME Typed, Led, NEW batch \in RichBatches, Push(batch)
  PROVE  Led'
<1> DEFINE Fresh == {m \in RichMessage : m.body.kind = "blocks" => m.body.passes = 0}
<1>1. /\ prompt' = prompt \o batch /\ UNCHANGED <<config, archive>>
      /\ prompt \in Seq(RichMessage)
  BY DEF Push, Typed
<1>2. batch \in Seq(Fresh)
  BY RichAssumption
<1>3. Fresh \subseteq RichMessage
  OBVIOUS
<1>4. \A m \in Fresh : LeadsBack(m, archive)
  BY DEF LeadsBack
<1> HIDE DEF Fresh
<1>5. batch \in Seq(RichMessage)
  BY <1>2, <1>3, SeqMonotonic
<1>6. /\ DOMAIN prompt = 1 .. Len(prompt) /\ Len(prompt) \in Nat
      /\ DOMAIN batch = 1 .. Len(batch) /\ Len(batch) \in Nat
      /\ \A i \in DOMAIN batch : batch[i] \in Fresh
  BY <1>1, <1>2, LenProperties, ElementOfSeq
<1>7. /\ DOMAIN (prompt \o batch) = 1 .. Len(prompt) + Len(batch)
      /\ \A i \in 1 .. Len(prompt) + Len(batch) :
           (prompt \o batch)[i] = IF i <= Len(prompt) THEN prompt[i]
                                  ELSE batch[i - Len(prompt)]
  BY <1>1, <1>5, ConcatProperties, LenProperties
<1>8. ASSUME config.rich.reversible, NEW i \in DOMAIN (prompt \o batch)
      PROVE  LeadsBack((prompt \o batch)[i], archive)
  <2>1. CASE i <= Len(prompt)
    <3>1. i \in DOMAIN prompt /\ (prompt \o batch)[i] = prompt[i]
      BY <1>6, <1>7, <2>1
    <3>2. QED
      BY <1>8, <3>1 DEF Led
  <2>2. CASE ~(i <= Len(prompt))
    <3>1. i - Len(prompt) \in DOMAIN batch
      BY <1>6, <1>7, <2>2
    <3>2. (prompt \o batch)[i] = batch[i - Len(prompt)]
      BY <1>7, <2>2
    <3>3. QED
      BY <1>4, <1>6, <3>1, <3>2
  <2>3. QED
    BY <2>1, <2>2
<1>9. QED
  BY <1>1, <1>8 DEF Led

\* Every step keeps the invariant.
LEMMA RichNext ==
  ASSUME Typed, Rebuilt, Led, [Next]_vars
  PROVE  Typed' /\ Rebuilt' /\ Led'
<1>1. CASE UNCHANGED vars
  BY <1>1 DEF vars, Typed, Rebuilt, Led, Served, RichId, KeptPositions
<1>2. ASSUME NEW batch \in RichBatches, Push(batch)
      PROVE  Typed' /\ Rebuilt' /\ Led'
  BY <1>2, TypedStart, PushLeads DEF Rebuilt
<1>3. CASE Compact
  BY <1>3, TypedStart DEF Rebuilt, Led, Compact
<1>4. CASE Rules
  BY <1>4, TypedRules DEF Rebuilt, Led, Rules, CascadeStep
<1>5. CASE Middle \/ Summarize
  <2>1. Typed' /\ pc' # "blocks"
    BY <1>5, TypedBands
  <2>2. UNCHANGED <<config, prompt, archive>>
    BY <1>5 DEF Middle, Summarize, Compress, CascadeStep
  <2>3. QED
    BY <2>1, <2>2 DEF Rebuilt, Led
<1>6. CASE Drop
  <2>1. Typed' /\ pc' # "blocks"
    BY <1>6, TypedDrop
  <2>2. UNCHANGED <<config, prompt, archive>>
    BY <1>6 DEF Drop
  <2>3. QED
    BY <2>1, <2>2 DEF Rebuilt, Led
<1>7. CASE Rebuild
  BY <1>7, TypedRebuild DEF Led, Rebuild
<1>8. CASE CompressNext
  BY <1>8, NextKeeps
<1>9. CASE Finish \/ Exceeded
  BY <1>9, FinishKeeps
<1>10. CASE Rest
  BY <1>1, <1>10 DEF Rest
<1>11. QED
  BY <1>1, <1>2, <1>3, <1>4, <1>5, <1>6, <1>7, <1>8, <1>9, <1>10 DEF Next

\* The invariant of the theorems below.
LEMMA RichInvariant == Spec => [](Typed /\ Rebuilt /\ Led)
<1>1. Typed /\ Rebuilt /\ Led /\ [Next]_vars => (Typed /\ Rebuilt /\ Led)'
  BY RichNext
<1>2. QED
  BY RichInit, <1>1, PTL DEF Spec
-----------------------------------------------------------------------------
(* What can be had again *)

\* Blocks that were compressed, over several compactions and more than once,
\* lead back to the blocks the host pushed (rich.rs, compress_rich_messages and
\* restore_rich_message).
THEOREM LeadBack == Spec => []BlocksLeadBack
<1>1. Typed /\ Led => BlocksLeadBack
  BY DEF Led, BlocksLeadBack, LeadsBack, RichId
<1>2. QED
  BY RichInvariant, <1>1, PTL

\* Where a store backs the compaction, what it rewrote can be had again: a
\* message of blocks as it was, one that became flat text by its stored text
\* (rich.rs, compact_rich).
THEOREM RewritesKept == Spec => []RewritesRestore
<1>1. ASSUME Typed, Rebuilt PROVE RewritesRestore
  <2> SUFFICES ASSUME Done, config.cascade.hasStore, config.rich.reversible,
                      NEW j \in DOMAIN out, working[j].idx # 0,
                      out[j].body # prompt[working[j].idx].body
               PROVE  IF j \in KeptPositions(working)
                      THEN /\ out[j].ccr \in RichId
                           /\ archive[out[j].ccr.rich] = prompt[working[j].idx]
                      ELSE out[j].ccr \in store
    BY DEF RewritesRestore
  <2>1. /\ pc = "blocks" /\ DOMAIN out = DOMAIN working
        /\ working \in Seq(Flat(prompt, store, config.cascade.hasStore))
        /\ \A i \in KeptPositions(working) : Served(prompt[working[i].idx], i)
        /\ \A i \in DOMAIN working \ KeptPositions(working) :
             out[i] = FlatMessage(working[i])
    BY <1>1 DEF Done, Typed, Rebuilt
  <2>2. CASE j \in KeptPositions(working)
    <3> HIDE DEF KeptPositions
    <3>1. QED
      BY <2>1, <2>2 DEF Served
  <2>3. CASE j \notin KeptPositions(working)
    <3>1. out[j].ccr = working[j].ccr
      BY <2>1, <2>3 DEF FlatMessage
    <3>2. working[j].text # FlatText(prompt[working[j].idx].body)
      BY <2>1, <2>3 DEF KeptPositions
    <3>3. working[j] \in Flat(prompt, store, config.cascade.hasStore)
      BY <2>1, ElementOfSeq, LenProperties
    <3>4. working[j].ccr \in store
      BY <3>2, <3>3 DEF Flat
    <3>5. QED
      BY <2>3, <3>1, <3>4
  <2>4. QED
    BY <2>2, <2>3
<1>2. QED
  BY RichInvariant, <1>1, PTL
-----------------------------------------------------------------------------
(* Failed results, while no budget presses *)

\* Without a limit the cascade is its first step.
Unpressed ==
  config.cascade.limit = None =>
    /\ pc \in {"idle", "rules", "rebuild", "blocks"}
    /\ pc = "rules" => working = TaggedFlats(prompt)
    /\ pc \in {"rebuild", "blocks"} =>
         working = AgentRules(TaggedFlats(prompt), config.cascade, {})

\* No step gets from there to a later step of the cascade.
LEMMA UnpressedNext ==
  ASSUME Unpressed, [Next]_vars
  PROVE  Unpressed'
<1>1. CASE UNCHANGED vars
  BY <1>1 DEF vars, Unpressed
<1>2. CASE \E batch \in RichBatches : Push(batch)
  BY <1>2 DEF Push, Unpressed
<1>3. CASE Compact
  BY <1>3 DEF Compact, Unpressed, Fits
<1>4. CASE Rules
  <2>1. /\ pc = "rules" /\ UNCHANGED <<config, prompt>>
        /\ working' = AgentRules(working, config.cascade, {})
        /\ pc' = IF Fits(working', config.cascade) THEN "rebuild" ELSE "middle"
    BY <1>4 DEF Rules, CascadeStep
  <2>2. QED
    BY <2>1 DEF Unpressed, Fits
<1>5. CASE Middle \/ Summarize \/ Drop
  BY <1>5 DEF Middle, Summarize, Compress, CascadeStep, Drop, Unpressed
<1>6. CASE Rebuild
  <2>1. /\ pc \in {"rebuild", "drop"} /\ pc' = "blocks"
        /\ UNCHANGED <<config, prompt, working>>
    BY <1>6 DEF Rebuild
  <2>2. QED
    BY <2>1 DEF Unpressed
<1>7. CASE CompressNext
  <2>1. UNCHANGED <<config, prompt, working, pc>>
    BY <1>7 DEF CompressNext
  <2>2. QED
    BY <2>1 DEF Unpressed
<1>8. CASE Finish \/ Exceeded
  BY <1>8 DEF Finish, Exceeded, Unpressed
<1>9. CASE Rest
  BY <1>1, <1>9 DEF Rest
<1>10. QED
  BY <1>1, <1>2, <1>3, <1>4, <1>5, <1>6, <1>7, <1>8, <1>9 DEF Next

\* However many passes there were, a failed result shows what it always did.
LEMMA ErrorBlocksKept ==
  ASSUME NEW c \in Contents, NEW k \in DOMAIN BlocksOf[c], BlocksOf[c][k].err,
         NEW n, NEW policy
  PROVE  BlocksAt(c, n, policy)[k] = BlocksAt(c, 0, policy)[k]
<1> DEFINE b == BlocksOf[c][k]
<1>1. b.kind = "result"
  BY RichAssumption
<1>2. \A x : CompressBlock(b, x, policy) =
              [b EXCEPT !.text = RawText(@),
                        !.inner = [i \in DOMAIN b.inner |->
                                     [b.inner[i] EXCEPT !.text = RawText(@)]]]
  BY <1>1 DEF CompressBlock
<1>3. \A x : BlocksAt(c, x, policy)[k] = CompressBlock(b, x, policy)
  BY DEF BlocksAt
<1> HIDE DEF b
<1>4. QED
  BY <1>2, <1>3

\* While no budget presses, a failed result is neither cleared nor compressed
\* (agent.rs, apply_agent_rules; rich.rs, compress_block).
THEOREM ErrorsKept == Spec => []ErrorsSpared
<1>1. Init => Unpressed
  BY DEF Init, Unpressed
<1>2. ASSUME Typed, Rebuilt, Unpressed PROVE ErrorsSpared
  <2> SUFFICES ASSUME Done, config.cascade.limit = None, NEW i \in DOMAIN prompt,
                      HasErrorResult(prompt[i].body)
               PROVE  \E j \in DOMAIN out :
                        /\ working[j].idx = i
                        /\ \/ out[j].body = prompt[i].body
                           \/ out[j].body.kind = "blocks"
                        /\ \A k \in DOMAIN BlocksOf[prompt[i].body.of] :
                             BlocksOf[prompt[i].body.of][k].err =>
                               BlocksAt(prompt[i].body.of, out[j].body.passes,
                                        config.rich)[k] =
                               BlocksAt(prompt[i].body.of, 0, config.rich)[k]
    BY DEF ErrorsSpared
  <2> DEFINE flats == TaggedFlats(prompt)
             m == prompt[i]
  <2>1. /\ pc = "blocks" /\ DOMAIN out = DOMAIN working
        /\ working = AgentRules(flats, config.cascade, {})
        /\ \A j \in KeptPositions(working) : Served(prompt[working[j].idx], j)
    BY <1>2 DEF Done, Typed, Rebuilt, Unpressed
  <2>2. /\ DOMAIN flats = DOMAIN prompt /\ flats[i].idx = i
        /\ flats[i].text = FlatText(m.body) /\ flats[i].err = HasErrorResult(m.body)
        /\ flats[i].role = m.role /\ m \in RichMessage /\ i # 0
    <3>1. prompt \in Seq(RichMessage)
      BY <1>2 DEF Typed
    <3>2. m \in RichMessage /\ i # 0
      BY <3>1, ElementOfSeq, LenProperties
    <3>3. QED
      BY <3>1, <3>2, FlatStart
  <2> HIDE DEF flats
  <2>3. Classify(flats[i]) # "ToolResultSuccess"
    <3>1. flats[i].err = TRUE
      BY <2>2 DEF HasErrorResult
    <3>2. flats[i].role \in Roles
      BY <2>2, RichFields
    <3> HIDE DEF m
    <3>3. QED
      BY <3>1, <3>2 DEF Classify, Roles
  <2>4. i \notin ClearSet(flats, config.cascade)
    BY <2>3 DEF ClearSet, Clearable
  <2>5. working[i] = flats[i] /\ i \in DOMAIN working
    BY <2>1, <2>2, <2>4 DEF AgentRules
  <2>6. i \in KeptPositions(working)
    BY <2>2, <2>5 DEF KeptPositions
  <2>7. Served(m, i)
    BY <2>1, <2>2, <2>5, <2>6
  <2>8. m.body.kind = "blocks" /\ m.body.of \in Contents
    BY <2>2, RichFields DEF HasErrorResult
  <2> HIDE DEF m
  <2>9. out[i].body = m.body \/ out[i].body.kind = "blocks"
    <3> DEFINE new == CompressContent(m.body, config.rich)
    <3>1. new = m.body \/ new = Blocks(m.body.of, m.body.passes + 1)
      BY <2>2, <2>8, ContentFacts
    <3> HIDE DEF new
    <3>2. new.kind = "blocks"
      BY <2>8, <3>1 DEF Blocks
    <3>3. QED
      BY <2>7, <3>2 DEF Served, new
  <2>10. \A k \in DOMAIN BlocksOf[m.body.of] :
           BlocksOf[m.body.of][k].err =>
             BlocksAt(m.body.of, out[i].body.passes, config.rich)[k] =
             BlocksAt(m.body.of, 0, config.rich)[k]
    BY <2>8, ErrorBlocksKept
  <2>11. QED
    BY <2>1, <2>2, <2>5, <2>9, <2>10 DEF m
<1>3. Unpressed /\ [Next]_vars => Unpressed'
  BY UnpressedNext
<1>4. Spec => []Unpressed
  BY <1>1, <1>3, PTL DEF Spec
<1>5. QED
  BY RichInvariant, <1>2, <1>4, PTL
-----------------------------------------------------------------------------
(* What is emitted *)

\* Messages of the same sizes have the same size.
LEMMA CountSame ==
  ASSUME NEW a, NEW b, DOMAIN a = DOMAIN b,
         \A i \in DOMAIN a : RichTokens(a[i]) = RichTokens(b[i])
  PROVE  RichCount(a) = RichCount(b)
<1> DEFINE S == DOMAIN a
           First(s) == CHOOSE x \in s : TRUE
           OfA(h) == [s \in SUBSET S |-> IF s = {} THEN 0
                        ELSE RichTokens(a[First(s)]) + h[s \ {First(s)}]]
           OfB(h) == [s \in SUBSET S |-> IF s = {} THEN 0
                        ELSE RichTokens(b[First(s)]) + h[s \ {First(s)}]]
<1>1. RichCount(a) = (CHOOSE h : h = OfA(h))[S]
  BY Zenon DEF RichCount, MapThenSumSet, MapThenFoldSet
<1>2. RichCount(b) = (CHOOSE h : h = OfB(h))[S]
  BY Zenon DEF RichCount, MapThenSumSet, MapThenFoldSet
<1>3. ASSUME NEW h PROVE OfA(h) = OfB(h)
  <2>1. ASSUME NEW s \in SUBSET S, s # {}
        PROVE  RichTokens(a[First(s)]) = RichTokens(b[First(s)])
    <3>1. First(s) \in s
      BY <2>1
    <3> HIDE DEF First
    <3>2. QED
      BY <3>1
  <2> HIDE DEF First
  <2>2. QED
    BY <2>1
<1> HIDE DEF OfA, OfB
<1>4. (CHOOSE h : h = OfA(h)) = (CHOOSE h : h = OfB(h))
  BY <1>3
<1>5. QED
  BY <1>1, <1>2, <1>4

\* What a compaction hands back fits the budget at its true size (rich.rs, the
\* guard of compact_rich).
THEOREM EmittedKept == Spec => EmittedFits
<1>1. ASSUME Typed, Rebuilt, [Next]_vars
      PROVE  config.cascade.limit # None /\ pushes' = pushes /\ prompt' # prompt =>
               RichCount(prompt') <= config.cascade.limit
  <2> SUFFICES ASSUME config.cascade.limit # None, pushes' = pushes, prompt' # prompt
               PROVE  RichCount(prompt') <= config.cascade.limit
    OBVIOUS
  <2>1. ASSUME NEW batch \in RichBatches, Push(batch) PROVE FALSE
    BY <1>1, <2>1 DEF Push, Typed
  <2>2. CASE Finish
    <3>1. pc = "blocks" /\ WithinBudget(out) /\ prompt' = Emitted
      BY <2>2 DEF Finish
    <3>2. out \in Seq(RichMessage)
      BY <1>1, <3>1 DEF Rebuilt
    <3>3. /\ DOMAIN Emitted = DOMAIN out
          /\ \A i \in DOMAIN out : Emitted[i].body = out[i].body
      BY <3>2, AnnotatedFacts DEF Emitted
    <3>4. RichCount(Emitted) = RichCount(out)
      BY <3>3, CountSame DEF RichTokens
    <3>5. QED
      BY <3>1, <3>4 DEF WithinBudget
  <2>3. CASE \/ UNCHANGED vars \/ Rest \/ Compact \/ Rules \/ Middle \/ Summarize
             \/ Drop \/ Rebuild \/ CompressNext \/ Exceeded
    BY <2>3 DEF vars, Rest, Compact, Rules, Middle, Summarize, Compress,
                CascadeStep, Drop, Rebuild, CompressNext, Exceeded
  <2>4. QED
    BY <1>1, <2>1, <2>2, <2>3 DEF Next
<1>2. Typed /\ Rebuilt /\ [Next]_vars =>
        [config.cascade.limit # None /\ pushes' = pushes /\ prompt' # prompt =>
           RichCount(prompt') <= config.cascade.limit]_vars
  BY <1>1
<1>3. QED
  BY RichInvariant, <1>2, PTL DEF Spec, EmittedFits
-----------------------------------------------------------------------------
(* What a content key stands for *)

\* What CanonicalPrefix and Shown tell of one message.
CanonAt(m, policy) ==
  IF m.body.kind = "text"
  THEN [role |-> m.role, of |-> "text", blocks |-> <<m.body.text>>]
  ELSE LET bs == BlocksAt(m.body.of, m.body.passes, policy)
       IN  [role |-> m.role, of |-> "blocks",
            blocks |-> [k \in DOMAIN bs |-> CanonicalBlock(bs[k])]]

\* Messages that the key does not tell apart look the same to the provider.
LEMMA SameShown ==
  ASSUME NEW a, NEW b, CanonAt(a, config.rich) = CanonAt(b, config.rich)
  PROVE  Shown(a) = Shown(b)
<1>1. CASE a.body.kind = "text" /\ b.body.kind = "text"
  <2>1. a.role = b.role /\ <<a.body.text>> = <<b.body.text>>
    BY <1>1 DEF CanonAt
  <2>2. a.body.text = b.body.text
    BY <2>1
  <2>3. QED
    BY <1>1, <2>1, <2>2 DEF Shown
<1>2. CASE a.body.kind # "text" /\ b.body.kind # "text"
  <2> DEFINE as == BlocksAt(a.body.of, a.body.passes, config.rich)
             bs == BlocksAt(b.body.of, b.body.passes, config.rich)
             ca == [k \in DOMAIN as |-> CanonicalBlock(as[k])]
             cb == [k \in DOMAIN bs |-> CanonicalBlock(bs[k])]
  <2>1. /\ Shown(a) = [role |-> a.role, blocks |-> [k \in DOMAIN as |-> RenderBlock(as[k])]]
        /\ Shown(b) = [role |-> b.role, blocks |-> [k \in DOMAIN bs |-> RenderBlock(bs[k])]]
    BY <1>2 DEF Shown
  <2>2. /\ CanonAt(a, config.rich) = [role |-> a.role, of |-> "blocks", blocks |-> ca]
        /\ CanonAt(b, config.rich) = [role |-> b.role, of |-> "blocks", blocks |-> cb]
    BY <1>2 DEF CanonAt
  <2> HIDE DEF as, bs
  <2>3. /\ DOMAIN ca = DOMAIN as /\ DOMAIN cb = DOMAIN bs
        /\ \A k \in DOMAIN as : ca[k] = CanonicalBlock(as[k])
        /\ \A k \in DOMAIN bs : cb[k] = CanonicalBlock(bs[k])
    OBVIOUS
  <2> HIDE DEF ca, cb
  <2>4. a.role = b.role /\ ca = cb
    <3>1. [role |-> a.role, of |-> "blocks", blocks |-> ca] =
            [role |-> b.role, of |-> "blocks", blocks |-> cb]
      BY <2>2, Zenon
    <3>2. QED
      BY <3>1
  <2>5. DOMAIN as = DOMAIN bs
    BY <2>3, <2>4
  <2>6. ASSUME NEW k \in DOMAIN as PROVE RenderBlock(as[k]) = RenderBlock(bs[k])
    <3>1. CanonicalBlock(as[k]) = CanonicalBlock(bs[k])
      BY <2>3, <2>4, <2>5
    <3>2. /\ as[k].kind = bs[k].kind /\ as[k].id = bs[k].id
          /\ as[k].text = bs[k].text /\ as[k].inner = bs[k].inner
      BY <3>1 DEF CanonicalBlock
    <3>3. QED
      BY <3>2 DEF RenderBlock
  <2>7. QED
    BY <2>1, <2>4, <2>5, <2>6
<1>3. QED
  BY <1>1, <1>2 DEF CanonAt

\* A content key is that of the first messages of the prompt, and the plan says
\* of how many.
KeyInv ==
  plan.key # <<>> =>
    /\ plan.prefix \in 0 .. Len(prompt)
    /\ plan.key = [i \in 1 .. plan.prefix |-> CanonAt(prompt[i], config.rich)]

\* The key that is reported is taken of what is emitted.
LEMMA EmittedKey ==
  ASSUME Typed, out \in Seq(RichMessage)
  PROVE  EmittedPlan.key # <<>> =>
           /\ EmittedPlan.prefix \in 0 .. Len(Emitted)
           /\ EmittedPlan.key =
                [i \in 1 .. EmittedPlan.prefix |-> CanonAt(Emitted[i], config.rich)]
<1> DEFINE n == StablePrefixLen(out, config.suffix)
           prefix == SubSeq(out, 1, n)
<1>1. config.suffix \in Nat
  BY RichAssumption DEF Typed
<1>2. Len(out) \in Nat /\ DOMAIN out = 1 .. Len(out)
      /\ \A i \in DOMAIN out : out[i] \in RichMessage
  BY LenProperties, ElementOfSeq
<1>3. n \in 0 .. Len(out)
  BY <1>1, <1>2 DEF StablePrefixLen
<1>4. /\ Len(Emitted) = Len(out) /\ DOMAIN Emitted = DOMAIN out
      /\ \A i \in DOMAIN out : Emitted[i].body = out[i].body /\ Emitted[i].role = out[i].role
  BY AnnotatedFacts DEF Emitted
<1>5. StablePrefixLen(Emitted, config.suffix) = n
  BY <1>4 DEF StablePrefixLen
<1> HIDE DEF n
<1>6. prefix = [i \in 1 .. n |-> out[i]]
  BY <1>2, <1>3
<1>7. DOMAIN prefix = 1 .. n /\ \A i \in 1 .. n : prefix[i] = out[i]
  BY <1>6
<1> HIDE DEF prefix
<1>8. CanonicalPrefix(prefix) = [i \in 1 .. n |-> CanonAt(prefix[i], config.rich)]
  BY <1>7 DEF CanonicalPrefix, CanonAt
<1>9. \A i \in 1 .. n : CanonAt(prefix[i], config.rich) = CanonAt(Emitted[i], config.rich)
  <2>1. \A i \in 1 .. n : i \in DOMAIN out
    BY <1>2, <1>3
  <2>2. \A i \in 1 .. n : prefix[i].body = Emitted[i].body /\ prefix[i].role = Emitted[i].role
    BY <1>4, <1>7, <2>1
  <2>3. QED
    BY <2>2 DEF CanonAt
<1>10. CanonicalPrefix(prefix) = [i \in 1 .. n |-> CanonAt(Emitted[i], config.rich)]
  BY <1>8, <1>9
<1>11. EmittedPlan = PlanOf(Emitted, config.cache, config.suffix, RichCount(prefix),
                            CanonicalPrefix(prefix), config.minimum)
  BY DEF EmittedPlan, n, prefix
<1>12. EmittedPlan.key # <<>> =>
         EmittedPlan.prefix = n /\ EmittedPlan.key = CanonicalPrefix(prefix)
  BY <1>5, <1>11 DEF PlanOf
<1>13. QED
  BY <1>3, <1>4, <1>10, <1>12

\* Every step keeps the key that of the prompt.
LEMMA KeyNext ==
  ASSUME Typed, Rebuilt, KeyInv, [Next]_vars
  PROVE  KeyInv' /\ config' = config
<1>1. ASSUME NEW batch \in RichBatches, Push(batch) PROVE KeyInv' /\ config' = config
  <2>1. /\ prompt \in Seq(RichMessage) /\ batch \in Seq(RichMessage)
        /\ prompt' = prompt \o batch /\ plan' = plan /\ config' = config
    BY <1>1, BatchTyped DEF Typed, Push
  <2>2. /\ Len(prompt) \in Nat /\ Len(batch) \in Nat
        /\ Len(prompt') = Len(prompt) + Len(batch)
        /\ \A i \in 1 .. Len(prompt) : prompt'[i] = prompt[i]
    BY <2>1, LenProperties, ConcatProperties
  <2>3. CASE plan.key # <<>>
    <3>1. /\ plan.prefix \in 0 .. Len(prompt)
          /\ plan.key = [i \in 1 .. plan.prefix |-> CanonAt(prompt[i], config.rich)]
      BY <1>1, <2>3 DEF KeyInv
    <3>2. \A i \in 1 .. plan.prefix : prompt'[i] = prompt[i]
      BY <2>2, <3>1
    <3>3. plan.key = [i \in 1 .. plan.prefix |-> CanonAt(prompt'[i], config.rich)]
      BY <3>1, <3>2
    <3>4. plan.prefix \in 0 .. Len(prompt')
      BY <2>2, <3>1
    <3>5. QED
      BY <2>1, <3>3, <3>4 DEF KeyInv
  <2>4. CASE plan.key = <<>>
    BY <2>1, <2>4 DEF KeyInv
  <2>5. QED
    BY <2>3, <2>4
<1>2. CASE Finish
  <2>1. /\ pc = "blocks" /\ prompt' = Emitted /\ plan' = EmittedPlan
        /\ config' = config
    BY <1>2 DEF Finish
  <2>2. out \in Seq(RichMessage)
    BY <2>1 DEF Rebuilt
  <2>3. QED
    BY <2>1, <2>2, EmittedKey DEF KeyInv
<1>3. CASE \/ UNCHANGED vars \/ Rest \/ Compact \/ Rules \/ Middle \/ Summarize
           \/ Drop \/ Rebuild \/ CompressNext \/ Exceeded
  <2>1. plan' = plan /\ prompt' = prompt /\ config' = config
    BY <1>3 DEF vars, Rest, Compact, Rules, Middle, Summarize, Compress,
                CascadeStep, Drop, Rebuild, CompressNext, Exceeded
  <2>2. QED
    BY <2>1 DEF KeyInv
<1>4. QED
  BY <1>1, <1>2, <1>3 DEF Next

\* A cache that is found under a reported key is never stale: the same key, the
\* same prefix as the provider is shown it (rich.rs, canonical_prefix).
THEOREM KeysTrack == Spec => KeyTracksPrefix
<1> DEFINE Tracks == plan'.key = plan.key /\ plan.key # <<>> =>
                       ShownPrefix(prompt', plan'.prefix) = ShownPrefix(prompt, plan.prefix)
<1>1. Init => KeyInv
  BY DEF Init, KeyInv, PlanOf
<1>2. ASSUME Typed, Rebuilt, KeyInv, [Next]_vars PROVE Tracks
  <2> SUFFICES ASSUME plan'.key = plan.key, plan.key # <<>>
               PROVE  ShownPrefix(prompt', plan'.prefix) = ShownPrefix(prompt, plan.prefix)
    OBVIOUS
  <2> DEFINE n == plan.prefix
             p == plan'.prefix
  <2>1. KeyInv' /\ config' = config
    BY <1>2, KeyNext
  <2>2. /\ n \in 0 .. Len(prompt)
        /\ plan.key = [i \in 1 .. n |-> CanonAt(prompt[i], config.rich)]
    BY <1>2 DEF KeyInv
  <2>3. /\ p \in 0 .. Len(prompt')
        /\ plan.key = [i \in 1 .. p |-> CanonAt(prompt'[i], config.rich)]
    BY <2>1 DEF KeyInv
  <2> HIDE DEF n, p
  <2>4. 1 .. n = 1 .. p
    BY <2>2, <2>3
  <2>5. n = p
    BY <2>2, <2>3, <2>4
  <2>6. \A i \in 1 .. n :
          CanonAt(prompt'[i], config.rich) = CanonAt(prompt[i], config.rich)
    BY <2>2, <2>3, <2>5
  <2>7. \A i \in 1 .. n : Shown(prompt'[i]) = Shown(prompt[i])
    BY <2>6, SameShown
  <2>8. ShownPrefix(prompt', p) = ShownPrefix(prompt, n)
    BY <2>5, <2>7 DEF ShownPrefix
  <2>9. QED
    BY <2>8 DEF n, p
<1>3. Typed /\ Rebuilt /\ KeyInv /\ [Next]_vars => KeyInv'
  BY KeyNext
<1>4. Typed /\ Rebuilt /\ KeyInv /\ [Next]_vars => [Tracks]_vars
  BY <1>2
<1>5. QED
  BY RichInvariant, <1>1, <1>3, <1>4, PTL DEF Spec, KeyTracksPrefix
-----------------------------------------------------------------------------
(* Where the messages of the list come from *)

\* Flat messages are messages of a list.
LEMMA FlatListed ==
  ASSUME NEW ms \in Seq(RichMessage), NEW st, NEW has,
         NEW w \in Seq(Flat(ms, st, has))
  PROVE  w \in Seq(Listed)
<1>1. Len(ms) \in Nat
  BY LenProperties
<1>2. Flat(ms, st, has) \subseteq Listed
  BY <1>1 DEF Flat, Listed
<1>3. QED
  BY <1>2, SeqMonotonic

\* The flat projection of a prompt, message by message.
LEMMA FlatsListed ==
  ASSUME NEW ms \in Seq(RichMessage)
  PROVE  /\ Flats(ms) \in Seq(Listed)
         /\ DOMAIN Flats(ms) = DOMAIN ms /\ Len(Flats(ms)) = Len(ms)
         /\ \A i \in DOMAIN ms :
              /\ Flats(ms)[i] = ToFlat(ms[i])
              /\ ToFlat(ms[i]).role = ms[i].role
              /\ ToFlat(ms[i]).err = HasErrorResult(ms[i].body)
              /\ ToFlat(ms[i]).text = FlatText(ms[i].body)
              /\ ToFlat(ms[i]).ccr = ms[i].ccr
              /\ ToFlat(ms[i]).pinned = ms[i].pinned
              /\ ToFlat(ms[i]).fin = FALSE /\ ToFlat(ms[i]).idx = 0
<1>1. Len(ms) \in Nat /\ DOMAIN ms = 1 .. Len(ms)
      /\ \A i \in DOMAIN ms : ms[i] \in RichMessage
  BY LenProperties, ElementOfSeq
<1>2. ASSUME NEW i \in DOMAIN ms PROVE ToFlat(ms[i]) \in Listed
  <2> DEFINE t == FlatText(ms[i].body)
             e == HasErrorResult(ms[i].body)
  <2>1. /\ t \in Text /\ e \in BOOLEAN
        /\ ms[i].role = "tool" => t \in Key
        /\ ms[i].role \in Roles /\ ms[i].pinned \in BOOLEAN
        /\ ms[i].ccr \in Text \cup {None} \cup [rich : Nat]
    BY <1>1, FlatTextType, RichFields DEF HasErrorResult
  <2>2. ToFlat(ms[i]) = [role |-> ms[i].role, err |-> e, text |-> t,
                         ccr |-> ms[i].ccr, pinned |-> ms[i].pinned,
                         fin |-> FALSE, idx |-> 0]
    BY DEF ToFlat
  <2> HIDE DEF t, e
  <2>3. QED
    BY <2>1, <2>2 DEF Listed
<1>3. Flats(ms) \in [1 .. Len(ms) -> Listed]
  BY <1>1, <1>2 DEF Flats
<1>4. /\ Flats(ms) \in Seq(Listed) /\ Len(Flats(ms)) = Len(ms)
      /\ DOMAIN Flats(ms) = 1 .. Len(ms)
  BY <1>1, <1>3, FcnIsSeq
<1>5. \A i \in DOMAIN ms : Flats(ms)[i] = ToFlat(ms[i])
  BY DEF Flats
<1>6. QED
  BY <1>1, <1>4, <1>5 DEF ToFlat

\* The list comes from the prompt, and the tail that the host protects ends it.
RichTrace ==
  pc # "idle" => /\ Traced(Flats(prompt), working)
                 /\ TailKept(Flats(prompt), working, config.cascade)

\* It starts that way.
LEMMA TraceStart ==
  ASSUME Typed, Compact
  PROVE  RichTrace'
<1> DEFINE ms == Flats(prompt)
           w == TaggedFlats(prompt)
<1>1. prompt \in Seq(RichMessage)
  BY DEF Typed
<1>2. /\ ms \in Seq(Listed) /\ DOMAIN ms = DOMAIN prompt
      /\ DOMAIN ms = 1 .. Len(ms) /\ Len(ms) \in Nat
      /\ w \in Seq(Flat(prompt, {}, FALSE)) /\ DOMAIN w = DOMAIN prompt
      /\ DOMAIN w = 1 .. Len(w) /\ Len(w) \in Nat
  <2>1. ms \in Seq(Listed) /\ DOMAIN ms = DOMAIN prompt
    BY <1>1, FlatsListed, LenProperties
  <2>2. w \in Seq(Flat(prompt, {}, FALSE)) /\ DOMAIN w = DOMAIN prompt
    BY <1>1, FlatStart, LenProperties
  <2> HIDE DEF ms, w
  <2>3. DOMAIN ms = 1 .. Len(ms) /\ Len(ms) \in Nat
    BY <2>1, LenProperties
  <2>4. DOMAIN w = 1 .. Len(w) /\ Len(w) \in Nat
    BY <2>2, LenProperties
  <2>5. QED
    BY <2>1, <2>2, <2>3, <2>4
<1>3. ASSUME NEW i \in DOMAIN prompt
      PROVE  /\ w[i].idx = i /\ w[i].role = ms[i].role /\ w[i].err = ms[i].err
             /\ w[i].text = ms[i].text /\ w[i].ccr = ms[i].ccr
             /\ w[i].fin = ms[i].fin /\ w[i].pinned = ms[i].pinned /\ ~ms[i].fin
  <2>1. w[i] = [role |-> prompt[i].role, err |-> HasErrorResult(prompt[i].body),
                text |-> FlatText(prompt[i].body), ccr |-> prompt[i].ccr,
                pinned |-> prompt[i].pinned, fin |-> FALSE, idx |-> i]
    BY DEF TaggedFlats, ToFlat
  <2>2. ms[i] = [role |-> prompt[i].role, err |-> HasErrorResult(prompt[i].body),
                 text |-> FlatText(prompt[i].body), ccr |-> prompt[i].ccr,
                 pinned |-> prompt[i].pinned, fin |-> FALSE, idx |-> 0]
    BY DEF Flats, ToFlat
  <2>3. QED
    BY <2>1, <2>2
<1>4. \A i \in DOMAIN prompt : i # 0 /\ ms[i].pinned \in BOOLEAN
  <2>1. ASSUME NEW i \in DOMAIN prompt PROVE ms[i].pinned \in BOOLEAN
    BY <1>2, ElementOfSeq DEF Listed
  <2>2. QED
    BY <1>2, <2>1
<1> HIDE DEF ms, w
<1>5. Traced(ms, w)
  <2>1. \A j \in DOMAIN w : Comes(ms, w[j])
    BY <1>2, <1>3, <1>4 DEF Comes
  <2>2. Ordered(w)
    BY <1>2, <1>3 DEF Ordered
  <2>3. PinnedThere(ms, w)
    BY <1>2, <1>3 DEF PinnedThere
  <2>4. QED
    BY <2>1, <2>2, <2>3 DEF Traced
<1>6. Len(w) = Len(ms)
  BY <1>2
<1>7. \A i \in DOMAIN ms : Len(ms) - (Len(ms) - i) = i /\ Len(ms) - i < Len(ms)
  BY <1>2
<1>8. TailKept(ms, w, config.cascade)
  BY <1>2, <1>3, <1>6, <1>7 DEF TailKept, Intact, ProtectedTail
<1>9. working' = w /\ prompt' = prompt /\ config' = config
  BY DEF Compact, w
<1>10. QED
  BY <1>5, <1>8, <1>9 DEF RichTrace, ms

\* A step that keeps the list traced and spares the tail it measured.
LEMMA TraceStage ==
  ASSUME Typed, RichTrace, pc # "idle", NEW list, working' = list,
         prompt' = prompt, config' = config,
         Traced(Flats(prompt), list),
         Spares(working, list, ProtectedTail(working, config.cascade))
  PROVE  RichTrace'
<1>1. /\ prompt \in Seq(RichMessage) /\ config.cascade \in Config
      /\ working \in Seq(Flat(prompt, store, config.cascade.hasStore))
  BY ConfigFacts DEF Typed
<1>2. Flats(prompt) \in Seq(Listed) /\ working \in Seq(Listed)
  BY <1>1, FlatsListed, FlatListed
<1>3. TailKept(Flats(prompt), working, config.cascade)
  BY DEF RichTrace
<1>4. TailKept(Flats(prompt), list, config.cascade)
  BY <1>1, <1>2, <1>3, TailStays
<1>5. QED
  BY <1>4 DEF RichTrace

\* Step 1.
LEMMA TraceRules ==
  ASSUME Typed, RichTrace, Rules
  PROVE  RichTrace'
<1> DEFINE ms == Flats(prompt)
           w == working
           cfg == config.cascade
           list == AgentRules(w, cfg, {})
<1>1. /\ pc # "idle" /\ working' = list /\ prompt' = prompt /\ config' = config
  BY DEF Rules, CascadeStep
<1>2. w \in Seq(Listed) /\ Traced(ms, w)
  BY <1>1, FlatListed DEF Typed, RichTrace
<1>3. /\ ProtectedTail(w, cfg) \subseteq DOMAIN w
      /\ ProtectedTail(w, cfg) \cap ClearSet(w, cfg) = {}
  BY DEF ProtectedTail, ClearSet
<1> HIDE DEF ms, w, cfg
<1>4. Traced(ms, list)
  BY <1>2, RulesTraced
<1>5. Spares(w, list, ProtectedTail(w, cfg))
  BY <1>2, <1>3, RulesSpare
<1> HIDE DEF list
<1>6. QED
  BY <1>1, <1>4, <1>5, TraceStage DEF ms, w, cfg

\* Steps 2 and 3.
LEMMA TraceCompress ==
  ASSUME Typed, RichTrace, NEW phase, phase # "idle", NEW next,
         NEW middle \in Nat, NEW summarize \in BOOLEAN,
         Compress(phase, next, middle, summarize)
  PROVE  RichTrace'
<1> DEFINE ms == Flats(prompt)
           w == working
           cfg == config.cascade
           p == PreserveRecent(w, cfg)
           o == AfterOldBand(w, p, middle, summarize)
           list == PipeBand(o, cfg, p, {})
<1>1. /\ pc # "idle" /\ working' = list /\ prompt' = prompt /\ config' = config
  BY DEF Compress, CascadeStep
<1>2. /\ prompt \in Seq(RichMessage) /\ cfg \in Config
      /\ w \in Seq(Flat(prompt, store, cfg.hasStore)) /\ Traced(ms, w)
  BY <1>1, ConfigFacts DEF Typed, RichTrace
<1>3. ms \in Seq(Listed) /\ w \in Seq(Listed)
  BY <1>2, FlatsListed, FlatListed
<1> HIDE DEF ms, w, cfg
<1>4. p \in Nat
  BY <1>2, PreserveRecentType
<1>5. /\ ProtectedTail(w, cfg) \subseteq DOMAIN w
      /\ \A i \in ProtectedTail(w, cfg) : i + p > Len(w)
  <2>1. \A i \in ProtectedTail(w, cfg) : i + p > Len(w)
    BY <1>2, <1>3, TailPreserved
  <2>2. QED
    BY <2>1 DEF ProtectedTail
<1> HIDE DEF p
<1>6. o \in Seq(Flat(prompt, store, cfg.hasStore))
  BY <1>2, <1>4, FlatOldBand
<1>7. o \in Seq(Listed)
  BY <1>2, <1>6, FlatListed
<1>8. Traced(ms, o) /\ KeepsEnd(w, o, p)
  BY <1>2, <1>3, <1>4, OldBandTraced, OldBandEnd
<1> HIDE DEF o
<1>9. Traced(ms, list) /\ KeepsEnd(o, list, p)
  BY <1>4, <1>7, <1>8, PipeTraced, PipeEnd
<1> HIDE DEF list
<1>10. KeepsEnd(w, list, p)
  BY <1>8, <1>9 DEF KeepsEnd
<1>11. Spares(w, list, ProtectedTail(w, cfg))
  BY <1>3, <1>4, <1>5, <1>10, CompressSpares
<1>12. QED
  BY <1>1, <1>9, <1>11, TraceStage DEF ms, w, cfg

\* A turn of the loop of step 4.
LEMMA TraceDrop ==
  ASSUME Typed, RichTrace, Drop
  PROVE  RichTrace'
<1> DEFINE ms == Flats(prompt)
           w == working
           cfg == config.cascade
           a == DropRange(w, cfg)[1]
           b == DropRange(w, cfg)[2]
           list == Without(w, a, b)
<1>1. /\ pc # "idle" /\ CanDrop(w, cfg) /\ working' = list
      /\ prompt' = prompt /\ config' = config
  BY DEF Drop, Without
<1>2. /\ prompt \in Seq(RichMessage) /\ cfg \in Config
      /\ w \in Seq(Flat(prompt, store, cfg.hasStore)) /\ Traced(ms, w)
  BY <1>1, ConfigFacts DEF Typed, RichTrace
<1>3. ms \in Seq(Listed) /\ w \in Seq(Listed)
  BY <1>2, FlatsListed, FlatListed
<1>4. Spares(w, list, ProtectedTail(w, cfg))
  <2> HIDE DEF w, cfg
  <2>1. QED
    BY <1>1, <1>2, <1>3, DropSpares
<1>5. /\ a \in 1 .. Len(w) /\ b \in a .. Len(w)
      /\ \A i \in a .. b : ~w[i].pinned
  <2> HIDE DEF w, cfg
  <2>1. QED
    BY <1>1, <1>3, DropRangeFacts DEF MemberDroppable
<1> HIDE DEF ms, w, cfg, a, b
<1>6. a \in Nat \ {0} /\ b \in Nat /\ a <= b + 1 /\ b <= Len(w)
  <2>1. Len(w) \in Nat
    BY <1>3, LenProperties
  <2>2. QED
    BY <1>5, <2>1
<1>7. Traced(ms, list)
  BY <1>2, <1>3, <1>5, <1>6, CutTraced
<1> HIDE DEF list
<1>8. QED
  BY <1>1, <1>4, <1>7, TraceStage DEF ms, w, cfg

\* Every step keeps it.
LEMMA TraceNext ==
  ASSUME Typed, RichTrace, [Next]_vars
  PROVE  RichTrace'
<1>1. CASE UNCHANGED vars
  BY <1>1 DEF vars, RichTrace
<1>2. CASE (\E batch \in RichBatches : Push(batch)) \/ Finish \/ Exceeded
  BY <1>2 DEF Push, Finish, Exceeded, RichTrace
<1>3. CASE Compact
  BY <1>3, TraceStart
<1>4. CASE Rules
  BY <1>4, TraceRules
<1>5. CASE Middle
  <2>1. pc # "idle"
    BY <1>5 DEF Middle, Compress, CascadeStep
  <2>2. Len(working) \in Nat
    BY <2>1, LenProperties DEF Typed
  <2>3. Compress("middle", "summarize", Len(working), FALSE)
    BY <1>5 DEF Middle
  <2>4. QED
    BY <2>2, <2>3, TraceCompress
<1>6. CASE Summarize
  <2>1. Compress("summarize", "drop", MiddleBand, TRUE) /\ MiddleBand \in Nat
    BY <1>6, CascadeAssumption DEF Summarize
  <2>2. QED
    BY <2>1, TraceCompress
<1>7. CASE Drop
  BY <1>7, TraceDrop
<1>8. CASE Rebuild \/ CompressNext
  <2>1. pc # "idle" /\ UNCHANGED <<config, prompt, working>>
    BY <1>8 DEF Rebuild, CompressNext
  <2>2. QED
    BY <2>1 DEF RichTrace
<1>9. CASE Rest
  BY <1>1, <1>9 DEF Rest
<1>10. QED
  BY <1>1, <1>2, <1>3, <1>4, <1>5, <1>6, <1>7, <1>8, <1>9 DEF Next

\* So it holds all along.
LEMMA TraceAlways == Spec => [](Typed /\ Rebuilt /\ RichTrace)
<1>1. Init => RichTrace
  BY DEF Init, RichTrace
<1>2. Typed /\ RichTrace /\ [Next]_vars => RichTrace'
  BY TraceNext
<1>3. QED
  BY RichInvariant, <1>1, <1>2, PTL DEF Spec
-----------------------------------------------------------------------------
(* The folds *)

\* A message is kept exactly when no step of the cascade has rewritten it: a
\* rewritten one has more layers than it started with.
LEMMA KeptAsWas ==
  ASSUME Typed, pc # "idle", NEW j \in DOMAIN working, working[j].idx # 0
  PROVE  /\ working[j].idx \in DOMAIN prompt
         /\ j \in KeptPositions(working) <=>
              Untagged(working[j]) = Flats(prompt)[working[j].idx]
<1> DEFINE x == working[j]
           m == prompt[x.idx]
<1>1. /\ prompt \in Seq(RichMessage)
      /\ x \in Flat(prompt, store, config.cascade.hasStore)
  BY ElementOfSeq, LenProperties DEF Typed
<1>2. x.idx \in DOMAIN prompt /\ FlatText(m.body) \in Text
  <2> HIDE DEF x
  <2>1. QED
    BY <1>1, FlatOrigin DEF x
<1>3. Flats(prompt)[x.idx] = ToFlat(m) /\ ToFlat(m).text = FlatText(m.body)
  BY <1>1, <1>2, FlatsListed
<1>4. j \in KeptPositions(working) <=> x.text = FlatText(m.body)
  BY DEF KeptPositions
<1>5. Deeper(m, x)
  BY <1>1 DEF Flat
<1>6. Untagged(x).text = x.text
  BY <1>1 DEF Untagged, Flat
<1> HIDE DEF x, m
<1>7. x.text = FlatText(m.body) => Untagged(x) = ToFlat(m)
  <2> SUFFICES ASSUME x.text = FlatText(m.body) PROVE Untagged(x) = ToFlat(m)
    OBVIOUS
  <2>1. Len(FlatText(m.body).layers) \in Nat
    BY <1>2, DeeperFacts
  <2>2. QED
    BY <1>5, <2>1 DEF Deeper
<1>8. QED
  BY <1>2, <1>3, <1>4, <1>6, <1>7 DEF x, m

\* What is not kept is other content, flat text with the id of the cascade.
LEMMA OtherContent ==
  ASSUME Typed, Rebuilt, pc = "blocks", NEW j \in DOMAIN working,
         working[j].idx # 0, j \notin KeptPositions(working)
  PROVE  /\ out[j].body # prompt[working[j].idx].body
         /\ out[j].ccr = working[j].ccr
<1>1. out[j] = FlatMessage(working[j])
  BY DEF Rebuilt
<1>2. out[j].body = Plain(working[j].text) /\ out[j].ccr = working[j].ccr
  BY <1>1 DEF FlatMessage
<1>3. FlatText(Plain(working[j].text)) = working[j].text
  BY DEF FlatText, Plain
<1>4. QED
  BY <1>2, <1>3 DEF KeptPositions

\* The folds of block compression, by the positions they are made from.
BlockPositions ==
  {k \in KeptPositions(working) : out[k].body # prompt[working[k].idx].body}

BlockFold(j) ==
  FoldRecord("Compressed", Flats(prompt), working[j].idx, working[j].idx, j,
             out[j].ccr)

\* The two parts of the folds.
LEMMA RichFoldsMade ==
  /\ RichFolds = BuildFolds(Flats(prompt), working, dropped) \cup
                   {BlockFold(j) : j \in BlockPositions}
  /\ \A j : /\ BlockFold(j).first = working[j].idx
            /\ BlockFold(j).last = working[j].idx
            /\ BlockFold(j).at = j /\ BlockFold(j).ccr = out[j].ccr
<1>1. RichFolds = BuildFolds(Flats(prompt), working, dropped) \cup
                    {BlockFold(j) : j \in BlockPositions}
  BY DEF RichFolds, BlockFold, BlockPositions
<1>2. \A j : /\ BlockFold(j).first = working[j].idx
             /\ BlockFold(j).last = working[j].idx
             /\ BlockFold(j).at = j /\ BlockFold(j).ccr = out[j].ccr
  BY DEF BlockFold, FoldRecord
<1>3. QED
  BY <1>1, <1>2

\* The content of message i is still there.
Stands(i) ==
  \E j \in DOMAIN out : working[j].idx = i /\ out[j].body = prompt[i].body

\* One fold covers a message whose content is changed or lost, none the others.
LEMMA RichCover ==
  ASSUME Typed, Rebuilt, RichTrace, pc = "blocks", NEW i \in DOMAIN prompt
  PROVE  /\ Stands(i) => Covering(RichFolds, i) = {}
         /\ ~Stands(i) => \E f : Covering(RichFolds, i) = {f}
<1> DEFINE K == KeptPositions(working)
           A == BuildFolds(Flats(prompt), working, dropped)
           B == {BlockFold(j) : j \in BlockPositions}
           over(f) == f.first <= i /\ i <= f.last
           same == Unchanged(Flats(prompt), working, i)
<1>1. /\ prompt \in Seq(RichMessage) /\ DOMAIN out = DOMAIN working
      /\ working \in Seq(Listed) /\ Ordered(working)
      /\ Flats(prompt) \in Seq(Listed) /\ i \in DOMAIN Flats(prompt)
  BY FlatListed, FlatsListed DEF Typed, Rebuilt, RichTrace, Traced
<1>2. DOMAIN prompt = 1 .. Len(prompt) /\ Len(prompt) \in Nat /\ i \in Nat /\ i # 0
  BY <1>1, LenProperties
<1>3. /\ K \subseteq DOMAIN working
      /\ \A j \in K : working[j].idx # 0 /\ working[j].idx \in Nat
  <2>1. \A j \in DOMAIN working : working[j].idx \in Nat
    BY <1>1, ElementOfSeq, LenProperties DEF Listed
  <2>2. QED
    BY <2>1 DEF KeptPositions
<1>4. /\ same => Covering(A, i) = {}
      /\ ~same => \E f : Covering(A, i) = {f}
  BY <1>1, FoldsOver
<1>5. same <=> \E j \in K : working[j].idx = i
  <2>1. \A j \in DOMAIN working : working[j].idx = i =>
          (j \in K <=> Untagged(working[j]) = Flats(prompt)[i])
    BY <1>2, KeptAsWas
  <2>2. QED
    BY <1>3, <2>1 DEF Unchanged
<1>6. \A j \in BlockPositions : over(BlockFold(j)) <=> working[j].idx = i
  <2>1. \A j \in BlockPositions :
          /\ BlockFold(j).first = working[j].idx
          /\ BlockFold(j).last = working[j].idx /\ working[j].idx \in Nat
    BY <1>3, RichFoldsMade DEF BlockPositions
  <2>2. QED
    BY <1>2, <2>1
<1>7. Covering(RichFolds, i) = Covering(A, i) \cup {f \in B : over(f)}
  BY RichFoldsMade DEF Covering
<1>8. \A j \in DOMAIN working : working[j].idx = i /\ j \notin K =>
        out[j].body # prompt[i].body
  BY <1>2, OtherContent
<1>9. BlockPositions = {j \in K : out[j].body # prompt[working[j].idx].body}
  BY DEF BlockPositions
<1> HIDE DEF A, K, same, over
<1>10. CASE ~same
  <2>1. ~Stands(i)
    BY <1>1, <1>5, <1>8, <1>10 DEF Stands
  <2>2. {f \in B : over(f)} = {}
    BY <1>5, <1>6, <1>9, <1>10
  <2> HIDE DEF B
  <2>3. QED
    BY <1>4, <1>7, <1>10, <2>1, <2>2
<1>11. CASE same
  <2>1. PICK j \in K : working[j].idx = i
    BY <1>5, <1>11
  <2>2. \A k \in DOMAIN working : working[k].idx = i => k = j
    BY <1>1, <1>2, <1>3, <2>1, OneTag
  <2>3. Stands(i) <=> out[j].body = prompt[i].body
    BY <1>1, <1>3, <2>1, <2>2 DEF Stands
  <2>4. Covering(A, i) = {}
    BY <1>4, <1>11
  <2>5. \A k \in BlockPositions : over(BlockFold(k)) => k = j
    BY <1>3, <1>6, <1>9, <2>2
  <2>6. CASE out[j].body = prompt[i].body
    <3>1. j \notin BlockPositions
      BY <1>9, <2>1, <2>6
    <3>2. {f \in B : over(f)} = {}
      BY <2>5, <3>1
    <3> HIDE DEF B
    <3>3. QED
      BY <1>7, <2>3, <2>4, <2>6, <3>2
  <2>7. CASE out[j].body # prompt[i].body
    <3>1. j \in BlockPositions /\ over(BlockFold(j))
      BY <1>6, <1>9, <2>1, <2>7
    <3>2. {f \in B : over(f)} = {BlockFold(j)}
      BY <2>5, <3>1
    <3> HIDE DEF B
    <3>3. QED
      BY <1>7, <2>3, <2>4, <2>7, <3>2
  <2>8. QED
    BY <2>6, <2>7
<1>12. QED
  BY <1>10, <1>11

\* Every message that the result changed or lost is accounted for by exactly one
\* fold, and a fold names the message that stands there for it (rich.rs,
\* reconstruct_and_compress and block_compression_fold).
THEOREM RichFoldsAccount == Spec => []RichFoldsPartition
<1>1. ASSUME Typed, Rebuilt, RichTrace PROVE RichFoldsPartition
  <2> SUFFICES ASSUME Done PROVE RichFoldsPartition
    BY DEF RichFoldsPartition
  <2>1. pc = "blocks" /\ pc # "idle"
    BY DEF Done
  <2>2. ASSUME NEW i \in DOMAIN prompt
        PROVE  Cardinality({f \in RichFolds : f.first <= i /\ i <= f.last}) =
                 IF Stands(i) THEN 0 ELSE 1
    <3> DEFINE over == Covering(RichFolds, i)
    <3>1. CASE Stands(i)
      <4>1. over = {}
        BY <1>1, <2>1, <3>1, RichCover
      <4> HIDE DEF over
      <4>2. Cardinality(over) = 0
        BY <4>1, FS_EmptySet
      <4>3. QED
        BY <3>1, <4>2 DEF over, Covering
    <3>2. CASE ~Stands(i)
      <4>1. \E f : over = {f}
        BY <1>1, <2>1, <3>2, RichCover
      <4> HIDE DEF over
      <4>2. Cardinality(over) = 1
        BY <4>1, FS_Singleton
      <4>3. QED
        BY <3>2, <4>2 DEF over, Covering
    <3>3. QED
      BY <3>1, <3>2
  <2>3. ASSUME NEW f \in RichFolds, f.at # 0, f.kind # "Summarized"
        PROVE  /\ working[f.at].idx = f.first
               /\ f.ccr = IF f.at \in KeptPositions(working) THEN out[f.at].ccr
                          ELSE CcrIdOf([ccr |-> out[f.at].ccr,
                                        text |-> working[f.at].text])
    <3> DEFINE A == BuildFolds(Flats(prompt), working, dropped)
    <3>1. CASE f \in {BlockFold(j) : j \in BlockPositions}
      BY <3>1, RichFoldsMade DEF BlockPositions
    <3>2. CASE f \in A
      <4>1. PICK j \in Changed(Flats(prompt), working) :
              f = ReplacementFold(Flats(prompt), working, j)
        <5>1. SummaryFold(Flats(prompt), working).kind = "Summarized"
          BY DEF SummaryFold, FoldRecord
        <5>2. \A i : DroppedFold(Flats(prompt), dropped, i).at = 0
          BY DEF DroppedFold, FoldRecord
        <5> DEFINE span == SummarizedSpan(Flats(prompt), working)
        <5>3. A = {ReplacementFold(Flats(prompt), working, j) :
                     j \in Changed(Flats(prompt), working)}
                  \cup (IF span = {} THEN {}
                        ELSE {SummaryFold(Flats(prompt), working)})
                  \cup {DroppedFold(Flats(prompt), dropped, i) :
                          i \in Missing(Flats(prompt), working) \ span}
          BY FoldsMade
        <5> HIDE DEF A, span
        <5>4. QED
          BY <2>3, <3>2, <5>1, <5>2, <5>3
      <4>2. /\ j \in DOMAIN working /\ working[j].idx # 0
            /\ Untagged(working[j]) # Flats(prompt)[working[j].idx]
        BY DEF Changed
      <4>3. j \notin KeptPositions(working)
        BY <1>1, <2>1, <4>2, KeptAsWas
      <4>4. /\ f.at = j /\ f.first = working[j].idx
            /\ f.ccr = CcrIdOf(working[j])
        BY <4>1 DEF ReplacementFold, FoldRecord
      <4>5. out[j].ccr = working[j].ccr
        BY <1>1, <2>1, <4>2, <4>3, OtherContent
      <4>6. CcrIdOf(working[j]) =
              CcrIdOf([ccr |-> out[j].ccr, text |-> working[j].text])
        BY <4>5 DEF CcrIdOf
      <4>7. QED
        BY <4>3, <4>4, <4>6
    <3>3. QED
      BY <3>1, <3>2, RichFoldsMade
  <2>4. QED
    BY <2>2, <2>3, Zenon DEF RichFoldsPartition, Stands
<1>2. QED
  BY TraceAlways, <1>1, PTL

\* A tool that was called, and the fact that one failed, never get lost: what no
\* fold covers keeps its blocks (rich.rs, block_compression_fold).
THEOREM NativeTagsSafe == Spec => NativeTagsKept
<1>1. ASSUME Typed, Rebuilt, RichTrace, [Next]_vars
      PROVE  NativeTags \subseteq NativeTags'
  <2>1. CASE UNCHANGED <<prompt, found>>
    BY <2>1 DEF NativeTags
  <2>2. ASSUME NEW batch \in RichBatches, Push(batch)
        PROVE  NativeTags \subseteq NativeTags'
    <3>1. prompt' = prompt \o batch /\ found' = found
      BY <2>2 DEF Push
    <3>2. prompt \in Seq(RichMessage) /\ batch \in Seq(RichMessage)
      BY <1>1, BatchTyped DEF Typed
    <3>3. \A i \in DOMAIN prompt :
            \E j \in DOMAIN (prompt \o batch) : (prompt \o batch)[j] = prompt[i]
      BY <3>2, ConcatElements
    <3>4. QED
      BY <3>1, <3>3 DEF NativeTags
  <2>3. CASE Finish
    <3>1. /\ pc = "blocks" /\ prompt' = Emitted
          /\ found' = found \cup UNION {TagsOf(f) : f \in RichFolds}
      BY <2>3 DEF Finish
    <3>2. /\ DOMAIN Emitted = DOMAIN out
          /\ \A j \in DOMAIN out : Emitted[j].body = out[j].body
      BY <1>1, <3>1, AnnotatedFacts DEF Rebuilt, Emitted
    <3>3. ASSUME NEW i \in DOMAIN prompt
          PROVE  BlockTags(prompt[i].body) \subseteq NativeTags'
      <4>1. CASE Stands(i)
        <5>1. PICK j \in DOMAIN out : out[j].body = prompt[i].body
          BY <4>1 DEF Stands
        <5>2. j \in DOMAIN prompt' /\ prompt'[j].body = prompt[i].body
          BY <3>1, <3>2, <5>1
        <5>3. QED
          BY <5>2 DEF NativeTags, BlockTags
      <4>2. CASE ~Stands(i)
        <5>1. PICK f : Covering(RichFolds, i) = {f}
          BY <1>1, <3>1, <4>2, RichCover
        <5>2. f \in RichFolds /\ f.first <= i /\ i <= f.last
          BY <5>1 DEF Covering
        <5>3. i \in f.first .. f.last
          <6>1. i \in Int
            BY <1>1, LenProperties DEF Typed
          <6>2. QED
            BY <5>2, <6>1
        <5>4. BlockTags(prompt[i].body) \subseteq TagsOf(f)
          BY <5>3 DEF TagsOf, RichTags
        <5> HIDE DEF RichFolds
        <5>5. QED
          BY <3>1, <5>2, <5>4 DEF NativeTags
      <4>3. QED
        BY <4>1, <4>2
    <3>4. found \subseteq NativeTags'
      BY <3>1 DEF NativeTags
    <3>5. QED
      BY <3>3, <3>4 DEF NativeTags
  <2>4. QED
    <3>1. \/ UNCHANGED <<prompt, found>>
          \/ \E batch \in RichBatches : Push(batch)
          \/ Finish
      BY <1>1 DEF Next, vars, Rest, Compact, Rules, Middle, Summarize, Compress,
                  CascadeStep, Drop, Rebuild, CompressNext, Exceeded
    <3>2. QED
      BY <2>1, <2>2, <2>3, <3>1
<1>2. Typed /\ Rebuilt /\ RichTrace /\ [Next]_vars =>
        [NativeTags \subseteq NativeTags']_vars
  BY <1>1
<1>3. QED
  BY TraceAlways, <1>2, PTL DEF Spec, NativeTagsKept
-----------------------------------------------------------------------------
(* The protected tail *)

\* Block compression leaves alone what stands for the tail: its positions are
\* taken from the prompt, not from the list.
TailServed ==
  pc = "blocks" =>
    /\ todo \subseteq CompressPositions(working)
    /\ \A j \in KeptPositions(working) :
         working[j].idx \in ProtectedTail(Flats(prompt), config.cascade) =>
           out[j] = prompt[working[j].idx]

\* Every step keeps it.
LEMMA TailServedNext ==
  ASSUME Typed, Rebuilt, TailServed, [Next]_vars
  PROVE  TailServed'
<1>1. CASE UNCHANGED vars
  BY <1>1 DEF vars, TailServed, CompressPositions, KeptPositions
<1>2. CASE Rebuild
  <2>1. /\ out' = Reconstructed(working) /\ todo' = CompressPositions(working)
        /\ UNCHANGED <<config, prompt, working>> /\ pc # "idle"
    BY <1>2 DEF Rebuild
  <2>2. \A j \in KeptPositions(working) :
          Reconstructed(working)[j] = prompt[working[j].idx]
    BY <2>1, ReconstructedFacts DEF Typed
  <2>3. /\ KeptPositions(working)' = KeptPositions(working)
        /\ CompressPositions(working)' = CompressPositions(working)
    BY <2>1 DEF KeptPositions, CompressPositions
  <2>4. QED
    BY <2>1, <2>2, <2>3 DEF TailServed
<1>3. CASE CompressNext
  <2>1. /\ pc = "blocks" /\ UNCHANGED <<config, prompt, working>>
        /\ todo' \subseteq todo
    BY <1>3 DEF CompressNext
  <2>2. /\ Min(todo) \in todo
        /\ \A i \in DOMAIN out : i # Min(todo) => out'[i] = out[i]
    BY <1>3, NextFacts
  <2>3. /\ KeptPositions(working)' = KeptPositions(working)
        /\ CompressPositions(working)' = CompressPositions(working)
    BY <2>1 DEF KeptPositions, CompressPositions
  <2>4. KeptPositions(working) \subseteq DOMAIN out
    BY <2>1 DEF Rebuilt, KeptPositions
  <2>5. ASSUME NEW j \in KeptPositions(working),
               working[j].idx \in ProtectedTail(Flats(prompt), config.cascade)
        PROVE  out'[j] = prompt[working[j].idx]
    <3>1. j # Min(todo)
      BY <2>1, <2>2, <2>5 DEF TailServed, CompressPositions
    <3>2. QED
      BY <2>1, <2>2, <2>4, <2>5, <3>1 DEF TailServed
  <2>6. QED
    BY <2>1, <2>3, <2>5 DEF TailServed
<1>4. CASE pc' # "blocks"
  BY <1>4 DEF TailServed
<1>5. QED
  <2>1. \/ UNCHANGED vars \/ Rebuild \/ CompressNext \/ Finish \/ Exceeded
        \/ \E batch \in RichBatches : Push(batch)
        \/ Compact \/ Drop
        \/ \E next \in {"middle", "summarize", "drop"} :
             \E phase, list, saves : CascadeStep(phase, next, list, saves)
    BY DEF Next, Rest, Rules, Middle, Summarize, Compress
  <2>2. Finish \/ Exceeded \/ (\E batch \in RichBatches : Push(batch)) \/ Compact
          \/ Drop => pc' # "blocks"
    BY DEF Finish, Exceeded, Push, Compact, Drop
  <2>3. ASSUME NEW phase, NEW next \in {"middle", "summarize", "drop"}, NEW list,
               NEW saves, CascadeStep(phase, next, list, saves)
        PROVE  pc' # "blocks"
    BY <2>3 DEF CascadeStep
  <2>4. QED
    BY <1>1, <1>2, <1>3, <1>4, <2>1, <2>2, <2>3

\* The tail that the host protects keeps its blocks, wherever folding has moved
\* it (rich.rs, compact_rich).
THEOREM TailBlocksKept == Spec => []TailBlocksVerbatim
<1>1. ASSUME Typed, Rebuilt, RichTrace, TailServed PROVE TailBlocksVerbatim
  <2> SUFFICES ASSUME pc = "blocks",
                      NEW i \in ProtectedTail(Flats(prompt), config.cascade)
               PROVE  \E j \in DOMAIN out : working[j].idx = i /\ out[j] = prompt[i]
    BY DEF TailBlocksVerbatim
  <2> DEFINE ms == Flats(prompt)
             j == Len(working) - (Len(ms) - i)
  <2>1. /\ prompt \in Seq(RichMessage) /\ DOMAIN out = DOMAIN working
        /\ working \in Seq(Listed) /\ ms \in Seq(Listed)
        /\ TailKept(ms, working, config.cascade)
    BY <1>1, FlatListed, FlatsListed DEF Typed, Rebuilt, RichTrace
  <2>2. i \in DOMAIN prompt /\ i # 0 /\ ms[i].text = FlatText(prompt[i].body)
    <3>1. i \in DOMAIN ms
      BY DEF ProtectedTail
    <3>2. i \in DOMAIN prompt /\ DOMAIN prompt = 1 .. Len(prompt)
          /\ Len(prompt) \in Nat
      BY <2>1, <3>1, FlatsListed, LenProperties
    <3>3. ms[i] = ToFlat(prompt[i]) /\ ToFlat(prompt[i]).text = FlatText(prompt[i].body)
      BY <2>1, <3>2, FlatsListed
    <3>4. QED
      BY <3>2, <3>3
  <2>3. Intact(ms, working[j], i)
    BY <2>1 DEF TailKept
  <2>4. j \in DOMAIN working
    <3>1. /\ Len(working) \in Nat /\ DOMAIN working = 1 .. Len(working)
          /\ Len(ms) \in Nat /\ DOMAIN ms = 1 .. Len(ms) /\ i \in DOMAIN ms
      BY <2>1, LenProperties DEF ProtectedTail
    <3>2. Len(ms) - i < Len(working)
      BY <2>1 DEF TailKept
    <3>3. QED
      BY <3>1, <3>2
  <2> HIDE DEF ms, j
  <2>5. j \in KeptPositions(working)
    BY <2>2, <2>3, <2>4 DEF Intact, KeptPositions
  <2>6. out[j] = prompt[i]
    BY <1>1, <2>3, <2>5 DEF Intact, TailServed
  <2>7. QED
    BY <2>1, <2>3, <2>4, <2>6 DEF Intact
<1>2. Init => TailServed
  BY DEF Init, TailServed
<1>3. Typed /\ Rebuilt /\ TailServed /\ [Next]_vars => TailServed'
  BY TailServedNext
<1>4. QED
  BY TraceAlways, <1>1, <1>2, <1>3, PTL DEF Spec
=============================================================================
