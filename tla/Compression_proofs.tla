------------------------- MODULE Compression_proofs -------------------------
(***************************************************************************)
(* Theorems of Compression: what a reversible pipeline emits can be had    *)
(* again, whichever saves fail, and what the compressors may not leave     *)
(* out: error strings and types, diagnostics, originals of references, and *)
(* code.                                                                   *)
(***************************************************************************)
EXTENDS Compression, Basics_proofs

(* JSON values *)

\* All the values directly in one are its children.
LEMMA PartsFacts ==
  ASSUME NEW v
  PROVE  /\ Parts(v, TRUE) = Range(Children(v)) /\ Within(v) = Spread(v, TRUE)
         /\ \A all : Parts(v, all) \subseteq Range(Children(v))
BY DEF Parts, Within

\* What is reached from v in at most n steps, by the recursion of Spread.
ReachStep(v, all, g, n) ==
  IF n = 0 THEN {v}
  ELSE LET above == g[n - 1]
       IN  above \cup UNION {Parts(w, all) : w \in above}

Reaches(v, all, g) == g = [n \in 0 .. Nesting |-> ReachStep(v, all, g, n)]

\* The recursion has a solution.
LEMMA ReachesExist ==
  ASSUME NEW v, NEW all
  PROVE  \E g : Reaches(v, all, g)
<1> DEFINE G == {k \in Nat : \E g : \A n \in 0 .. Nesting : n <= k => g[n] = ReachStep(v, all, g, n)}
<1>1. Nesting \in Nat
  BY CrusherAssumption
<1>2. 0 \in G
  <2> DEFINE g == [n \in 0 .. Nesting |-> {v}]
  <2>1. \A n \in 0 .. Nesting : n <= 0 => g[n] = ReachStep(v, all, g, n)
    BY <1>1 DEF ReachStep
  <2> HIDE DEF g
  <2>2. QED
    BY <2>1
<1>3. ASSUME NEW k \in G PROVE k + 1 \in G
  <2>1. PICK g : \A n \in 0 .. Nesting : n <= k => g[n] = ReachStep(v, all, g, n)
    OBVIOUS
  <2> DEFINE h == [n \in 0 .. Nesting |-> ReachStep(v, all, g, n)]
  <2>2. ASSUME NEW n \in 0 .. Nesting, n <= k + 1 PROVE h[n] = ReachStep(v, all, h, n)
    <3>1. h[n] = ReachStep(v, all, g, n)
      OBVIOUS
    <3>2. CASE n = 0
      BY <3>1, <3>2 DEF ReachStep
    <3>3. CASE n # 0
      <4>1. n - 1 \in 0 .. Nesting /\ n - 1 <= k
        BY <1>1, <2>2, <3>3
      <4>2. h[n - 1] = g[n - 1]
        BY <2>1, <4>1
      <4> HIDE DEF h
      <4>3. QED
        BY <3>1, <3>3, <4>2 DEF ReachStep
    <3>4. QED
      BY <3>2, <3>3
  <2> HIDE DEF h
  <2>3. \E f : \A n \in 0 .. Nesting : n <= k + 1 => f[n] = ReachStep(v, all, f, n)
    BY <2>2
  <2>4. QED
    BY <2>3
<1>4. G \in SUBSET Nat
  OBVIOUS
<1> HIDE DEF G
<1>5. Nesting \in G
  BY <1>1, <1>2, <1>3, <1>4, FromZero
<1>6. PICK g : \A n \in 0 .. Nesting : n <= Nesting => g[n] = ReachStep(v, all, g, n)
  BY <1>5 DEF G
<1> DEFINE f == [n \in 0 .. Nesting |-> g[n]]
<1>7. ASSUME NEW n \in 0 .. Nesting PROVE f[n] = ReachStep(v, all, f, n)
  <2>1. f[n] = ReachStep(v, all, g, n)
    BY <1>1, <1>6
  <2>2. n # 0 => f[n - 1] = g[n - 1]
    BY <1>1
  <2> HIDE DEF f
  <2>3. QED
    BY <2>1, <2>2 DEF ReachStep
<1>8. Reaches(v, all, f)
  BY <1>7 DEF Reaches
<1>9. QED
  BY <1>8

\* What is reached from a value in at most n steps.
Reached(v, all) == CHOOSE g : Reaches(v, all, g)

\* Spread, step by step.
LEMMA ReachedSteps ==
  ASSUME NEW v, NEW all
  PROVE  /\ Spread(v, all) = Reached(v, all)[Nesting] /\ Reached(v, all)[0] = {v}
         /\ \A n \in 1 .. Nesting :
              Reached(v, all)[n] = Reached(v, all)[n - 1]
                                \cup UNION {Parts(w, all) : w \in Reached(v, all)[n - 1]}
<1> DEFINE g == Reached(v, all)
<1>1. Nesting \in Nat
  BY CrusherAssumption
<1>2. Reaches(v, all, g)
  BY ReachesExist DEF Reached
<1>3. Spread(v, all) = g[Nesting]
  BY DEF Spread, Reached, Reaches, ReachStep
<1> HIDE DEF g
<1>4. g[0] = {v}
  BY <1>1, <1>2 DEF Reaches, ReachStep
<1>5. ASSUME NEW n \in 1 .. Nesting
      PROVE  g[n] = g[n - 1] \cup UNION {Parts(w, all) : w \in g[n - 1]}
  <2>1. n \in 0 .. Nesting /\ n # 0
    BY <1>1
  <2>2. QED
    BY <1>2, <2>1 DEF Reaches, ReachStep
<1>6. QED
  BY <1>3, <1>4, <1>5 DEF g

\* A value is within itself; and a set that holds it, and with a value all that
\* is directly in it, holds all that is within it.
LEMMA WithinFacts ==
  ASSUME NEW v
  PROVE  /\ v \in Within(v)
         /\ \A W : v \in W /\ (\A w \in W : Range(Children(w)) \subseteq W)
                     => Within(v) \subseteq W
<1>1. PICK g : /\ Within(v) = g[Nesting] /\ g[0] = {v}
               /\ \A n \in 1 .. Nesting :
                    g[n] = g[n - 1] \cup UNION {Range(Children(w)) : w \in g[n - 1]}
  <2>1. PICK all : all = TRUE
    OBVIOUS
  <2> DEFINE g == Reached(v, all)
  <2>2. Within(v) = Spread(v, all) /\ \A w : Parts(w, all) = Range(Children(w))
    BY <2>1, PartsFacts
  <2>3. Spread(v, all) = g[Nesting] /\ g[0] = {v}
    BY ReachedSteps
  <2>4. ASSUME NEW n \in 1 .. Nesting
        PROVE  g[n] = g[n - 1] \cup UNION {Range(Children(w)) : w \in g[n - 1]}
    <3>1. g[n] = g[n - 1] \cup UNION {Parts(w, all) : w \in g[n - 1]}
      BY ReachedSteps
    <3> HIDE DEF g
    <3>2. QED
      BY <2>2, <3>1
  <2> HIDE DEF g
  <2>5. QED
    BY <2>2, <2>3, <2>4
<1>2. Nesting \in Nat
  BY CrusherAssumption
<1>3. ASSUME NEW W, v \in W, \A w \in W : Range(Children(w)) \subseteq W
      PROVE  v \in Within(v) /\ Within(v) \subseteq W
  <2> DEFINE G == {k \in Nat : k <= Nesting => v \in g[k] /\ g[k] \subseteq W}
  <2>1. 0 \in G
    BY <1>1, <1>3
  <2>2. ASSUME NEW k \in G PROVE k + 1 \in G
    <3> SUFFICES ASSUME k + 1 <= Nesting
                 PROVE  v \in g[k + 1] /\ g[k + 1] \subseteq W
      OBVIOUS
    <3>1. k \in Nat /\ k <= Nesting /\ k + 1 \in 1 .. Nesting /\ (k + 1) - 1 = k
      BY <1>2
    <3>2. v \in g[k] /\ g[k] \subseteq W
      BY <3>1
    <3>3. g[k + 1] = g[k] \cup UNION {Range(Children(w)) : w \in g[k]}
      BY <1>1, <3>1
    <3>4. QED
      BY <1>3, <3>2, <3>3
  <2>3. G \in SUBSET Nat
    OBVIOUS
  <2>4. Nesting \in G
    <3> HIDE DEF G
    <3>1. QED
      BY <1>2, <2>1, <2>2, <2>3, FromZero
  <2>5. QED
    BY <1>1, <1>2, <2>4
<1>4. v \in Within(v)
  <2> DEFINE G == {k \in Nat : k <= Nesting => v \in g[k]}
  <2>1. 0 \in G
    BY <1>1
  <2>2. ASSUME NEW k \in G PROVE k + 1 \in G
    <3> SUFFICES ASSUME k + 1 <= Nesting PROVE  v \in g[k + 1]
      OBVIOUS
    <3>1. k \in Nat /\ k <= Nesting /\ k + 1 \in 1 .. Nesting /\ (k + 1) - 1 = k
      BY <1>2
    <3>2. v \in g[k]
      BY <3>1
    <3>3. g[k + 1] = g[k] \cup UNION {Range(Children(w)) : w \in g[k]}
      BY <1>1, <3>1
    <3>4. QED
      BY <3>2, <3>3
  <2>3. G \in SUBSET Nat
    OBVIOUS
  <2>4. Nesting \in G
    <3> HIDE DEF G
    <3>1. QED
      BY <1>2, <2>1, <2>2, <2>3, FromZero
  <2>5. QED
    BY <1>1, <1>2, <2>4
<1>5. QED
  BY <1>3, <1>4

\* What is processed with `left' levels to go, by the recursion of Crush.
Below(g, left, w) == [i \in DOMAIN Children(w) |-> g[left - 1][Children(w)[i]]]

ProcessStep(v, k, hint, emit, g, left) ==
  [w \in Within(v) |->
     IF left = 0 THEN [value |-> w, saves |-> <<>>]
     ELSE ProcessValue(w, Below(g, left, w), k, hint, emit)]

Processes(v, k, hint, emit, g) ==
  g = [left \in 0 .. MaxDepth |-> ProcessStep(v, k, hint, emit, g, left)]

\* The recursion has a solution.
LEMMA ProcessesExist ==
  ASSUME NEW v, NEW k, NEW hint, NEW emit
  PROVE  \E g : Processes(v, k, hint, emit, g)
<1> DEFINE At(g, n) == ProcessStep(v, k, hint, emit, g, n)
           G == {j \in Nat : \E g : \A n \in 0 .. MaxDepth : n <= j => g[n] = At(g, n)}
<1>1. MaxDepth \in Nat
  BY CrusherAssumption
<1>2. ASSUME NEW g, NEW h, NEW n \in 0 .. MaxDepth, n # 0 => g[n - 1] = h[n - 1]
      PROVE  At(g, n) = At(h, n)
  <2>1. CASE n = 0
    BY <2>1 DEF ProcessStep
  <2>2. CASE n # 0
    <3>1. \A w : Below(g, n, w) = Below(h, n, w)
      BY <1>2, <2>2 DEF Below
    <3>2. QED
      BY <3>1 DEF ProcessStep
  <2>3. QED
    BY <2>1, <2>2
<1> HIDE DEF At
<1>3. 0 \in G
  <2> DEFINE g == [n \in 0 .. MaxDepth |-> At(<<>>, n)]
  <2>1. ASSUME NEW n \in 0 .. MaxDepth, n <= 0 PROVE g[n] = At(g, n)
    <3>1. g[n] = At(<<>>, n) /\ n = 0
      BY <1>1, <2>1
    <3> HIDE DEF g
    <3>2. QED
      BY <1>2, <3>1
  <2> HIDE DEF g
  <2>2. \E f : \A n \in 0 .. MaxDepth : n <= 0 => f[n] = At(f, n)
    BY <2>1
  <2>3. QED
    BY <2>2
<1>4. ASSUME NEW j \in G PROVE j + 1 \in G
  <2>1. PICK g : \A n \in 0 .. MaxDepth : n <= j => g[n] = At(g, n)
    OBVIOUS
  <2> DEFINE h == [n \in 0 .. MaxDepth |-> At(g, n)]
  <2>2. ASSUME NEW n \in 0 .. MaxDepth, n <= j + 1 PROVE h[n] = At(h, n)
    <3>1. h[n] = At(g, n)
      OBVIOUS
    <3>2. n # 0 => h[n - 1] = g[n - 1]
      <4>1. n # 0 => n - 1 \in 0 .. MaxDepth /\ n - 1 <= j
        BY <1>1, <2>2
      <4>2. QED
        BY <2>1, <4>1
    <3> HIDE DEF h
    <3>3. QED
      BY <1>2, <3>1, <3>2
  <2> HIDE DEF h
  <2>3. \E f : \A n \in 0 .. MaxDepth : n <= j + 1 => f[n] = At(f, n)
    BY <2>2
  <2>4. j + 1 \in Nat
    OBVIOUS
  <2>5. QED
    BY <2>3, <2>4
<1>5. G \in SUBSET Nat
  OBVIOUS
<1> HIDE DEF G
<1>6. MaxDepth \in G
  BY <1>1, <1>3, <1>4, <1>5, FromZero
<1>7. PICK g : \A n \in 0 .. MaxDepth : n <= MaxDepth => g[n] = At(g, n)
  BY <1>6 DEF G
<1> DEFINE f == [n \in 0 .. MaxDepth |-> g[n]]
<1>8. ASSUME NEW n \in 0 .. MaxDepth PROVE f[n] = At(f, n)
  <2>1. f[n] = At(g, n)
    BY <1>1, <1>7
  <2>2. n # 0 => f[n - 1] = g[n - 1]
    BY <1>1
  <2> HIDE DEF f
  <2>3. QED
    BY <1>2, <2>1, <2>2
<1>9. Processes(v, k, hint, emit, f)
  BY <1>8 DEF Processes, At
<1>10. QED
  BY <1>9

\* Crush, step by step.
LEMMA CrushSteps ==
  ASSUME NEW v, NEW k, NEW hint, NEW emit
  PROVE  \E g : /\ Crush(v, k, hint, emit) = g[MaxDepth][v]
                /\ \A w \in Within(v) : g[0][w] = [value |-> w, saves |-> <<>>]
                /\ \A n \in 1 .. MaxDepth : \A w \in Within(v) :
                     g[n][w] = ProcessValue(w, Below(g, n, w), k, hint, emit)
<1> DEFINE g == CHOOSE f : Processes(v, k, hint, emit, f)
<1>1. MaxDepth \in Nat
  BY CrusherAssumption
<1>2. Processes(v, k, hint, emit, g)
  BY ProcessesExist
<1>3. Crush(v, k, hint, emit) = g[MaxDepth][v]
  BY DEF Crush, Processes, ProcessStep, Below
<1> HIDE DEF g
<1>4. \A w \in Within(v) : g[0][w] = [value |-> w, saves |-> <<>>]
  BY <1>1, <1>2 DEF Processes, ProcessStep
<1>5. ASSUME NEW n \in 1 .. MaxDepth, NEW w \in Within(v)
      PROVE  g[n][w] = ProcessValue(w, Below(g, n, w), k, hint, emit)
  <2>1. n \in 0 .. MaxDepth /\ n # 0
    BY <1>1
  <2>2. g[n] = ProcessStep(v, k, hint, emit, g, n)
    BY <1>2, <2>1 DEF Processes
  <2>3. QED
    BY <2>1, <2>2 DEF ProcessStep
<1>6. QED
  BY <1>3, <1>4, <1>5

\* The saves of a value by its type, from those of its children.
LEMMA SavesAreSeq ==
  ASSUME NEW w, NEW results, NEW k, NEW hint, NEW emit,
         IsSeq(results), \A i \in DOMAIN results : IsSeq(results[i].saves)
  PROVE  IsSeq(ProcessValue(w, results, k, hint, emit).saves)
<1> DEFINE p == ProcessValue(w, results, k, hint, emit)
<1>1. IsSeq(<<>>) /\ \A x : IsSeq(<<x>>)
  <2>1. \A x : <<x>> \in Seq({x})
    OBVIOUS
  <2>2. QED
    BY <2>1, EmptyIs, SeqFacts
<1>2. IsSeq(Saves(results))
  <2> DEFINE s == [i \in DOMAIN results |-> results[i].saves]
  <2>1. IsSeq(s)
    <3> DEFINE n == Len(results)
    <3>1. n \in Nat /\ DOMAIN results = 1 .. n
      BY SeqIs
    <3> HIDE DEF n
    <3>2. s \in [1 .. n -> Range(s)]
      BY <3>1 DEF Range
    <3> HIDE DEF s
    <3>3. QED
      BY <3>1, <3>2, FcnIsSeq, SeqFacts
  <2>2. \A i \in DOMAIN s : IsSeq(s[i])
    OBVIOUS
  <2> HIDE DEF s
  <2>3. IsSeq(FlattenSeq(s))
    BY <2>1, <2>2, FlatSeqs
  <2>4. QED
    BY <2>3 DEF Saves, s
<1>3. \/ p.saves = <<>> \/ (\E x : p.saves = <<x>>) \/ p.saves = Saves(results)
  BY DEF ProcessValue, ProcessRecords, ProcessMixed
<1> HIDE DEF p
<1>4. IsSeq(p.saves)
  BY <1>1, <1>2, <1>3
<1>5. QED
  BY <1>4 DEF p

\* The arrays to save are a sequence.
LEMMA CrushIsSeq ==
  ASSUME NEW v, IsJson(v), NEW k, NEW hint, NEW emit
  PROVE  IsSeq(Crush(v, k, hint, emit).saves)
<1>1. PICK g : /\ Crush(v, k, hint, emit) = g[MaxDepth][v]
               /\ \A w \in Within(v) : g[0][w] = [value |-> w, saves |-> <<>>]
               /\ \A n \in 1 .. MaxDepth : \A w \in Within(v) :
                    g[n][w] = ProcessValue(w, Below(g, n, w), k, hint, emit)
  BY CrushSteps
<1>2. MaxDepth \in Nat
  BY CrusherAssumption
<1> DEFINE G == {n \in Nat : n <= MaxDepth => \A w \in Within(v) : IsSeq(g[n][w].saves)}
<1>3. 0 \in G
  <2>1. \A w \in Within(v) : IsSeq(g[0][w].saves)
    <3>1. ASSUME NEW w \in Within(v) PROVE IsSeq(g[0][w].saves)
      <4>1. g[0][w] = [value |-> w, saves |-> <<>>]
        BY <1>1
      <4>2. QED
        BY <4>1, EmptyIs
    <3>2. QED
      BY <3>1
  <2>2. QED
    BY <2>1
<1>4. ASSUME NEW n \in G PROVE n + 1 \in G
  <2> SUFFICES ASSUME n + 1 <= MaxDepth, NEW w \in Within(v)
               PROVE  IsSeq(g[n + 1][w].saves)
    OBVIOUS
  <2>1. n \in Nat /\ n <= MaxDepth /\ n + 1 \in 1 .. MaxDepth /\ (n + 1) - 1 = n
    BY <1>2
  <2> DEFINE cs == Children(w)
             r  == Below(g, n + 1, w)
  <2>2. IsSeq(cs) /\ \A i \in DOMAIN cs : cs[i] \in Within(v)
    <3>1. IsSeq(Children(w)) /\ Range(Children(w)) \subseteq Within(v)
      BY DEF IsJson
    <3>2. \A i \in DOMAIN cs : cs[i] \in Range(cs)
      <4> HIDE DEF cs
      <4>1. QED
        BY DEF Range
    <3>3. QED
      BY <3>1, <3>2
  <2>3. r = [i \in DOMAIN cs |-> g[n][cs[i]]]
    BY <2>1 DEF Below
  <2>4. IsSeq(r) /\ DOMAIN r = DOMAIN cs
    <3> DEFINE m == Len(cs)
    <3>1. m \in Nat /\ DOMAIN cs = 1 .. m
      BY <2>2, SeqIs
    <3> HIDE DEF m, cs, r
    <3>2. r \in [1 .. m -> Range(r)] /\ DOMAIN r = DOMAIN cs
      BY <2>3, <3>1 DEF Range
    <3>3. QED
      BY <3>1, <3>2, FcnIsSeq, SeqFacts
  <2>5. \A i \in DOMAIN r : IsSeq(r[i].saves)
    BY <2>1, <2>2, <2>3, <2>4
  <2>6. g[n + 1][w] = ProcessValue(w, r, k, hint, emit)
    BY <1>1, <2>1
  <2> HIDE DEF r, cs
  <2>7. QED
    BY <2>4, <2>5, <2>6, SavesAreSeq
<1>5. G \in SUBSET Nat
  OBVIOUS
<1>6. MaxDepth \in G
  <2> HIDE DEF G
  <2>1. QED
    BY <1>2, <1>3, <1>4, <1>5, FromZero
<1>7. v \in Within(v)
  BY WithinFacts
<1>8. QED
  BY <1>1, <1>2, <1>6, <1>7
-----------------------------------------------------------------------------
(* What the pipeline emits *)

\* A message is emitted as it was, or compressed once all of its saves are in
\* the store, with the id of its text if that has changed.
Emitted(i) ==
  LET c == Aligned(prompt[i])
  IN  \/ out[i] = [text |-> Original(c), ccr |-> None]
      \/ \E k \in Sizes(c) :
           /\ Range(SavesOf(config, c, k)) \subseteq store
           /\ out[i] = [text |-> Compressed(config, c, k),
                        ccr |-> IF config.reversible /\ Compressed(config, c, k) # Original(c)
                                THEN [text |-> c] ELSE None]

\* While a message is being saved, each of its saves is done or still to do.
PipeInv ==
  /\ config \in PipelineConfigs /\ prompt \in Prompts
  /\ IsSeq(out) /\ IsSeq(pending) /\ Len(out) <= Len(prompt)
  /\ phase = "save" =>
       /\ Len(out) < Len(prompt)
       /\ \E k \in Sizes(Current) :
            /\ result = Compressed(config, Current, k)
            /\ Range(SavesOf(config, Current, k)) \subseteq store \cup Range(pending)
  /\ \A i \in DOMAIN out : Emitted(i)

\* What a compressor is given is well formed.
LEMMA AlignedFacts ==
  ASSUME PipeInv, NEW i \in 1 .. Len(prompt)
  PROVE  WellFormed(Aligned(prompt[i]))
<1>1. IsSeq(prompt) /\ \A j \in DOMAIN prompt : WellFormed(prompt[j]) /\ WellFormed(Align(prompt[j]))
  BY PromptsAssumption DEF PipeInv
<1>2. i \in DOMAIN prompt
  BY <1>1, SeqIs
<1>3. QED
  BY <1>1, <1>2 DEF Aligned

\* The saves of a content are a sequence, and its text is one of them.
LEMMA SavesFacts ==
  ASSUME NEW cfg, NEW c, WellFormed(c), NEW k
  PROVE  /\ IsSeq(SavesOf(cfg, c, k))
         /\ cfg.reversible => [text |-> c] \in Range(SavesOf(cfg, c, k))
         /\ cfg.reversible /\ Compressor(c) = "smart_crusher" =>
              \A i \in DOMAIN Crushed(cfg, c, k).saves :
                [array |-> Crushed(cfg, c, k).saves[i]] \in Range(SavesOf(cfg, c, k))
<1> DEFINE arrays == IF Compressor(c) = "smart_crusher" THEN Crushed(cfg, c, k).saves ELSE <<>>
           s == [i \in DOMAIN arrays |-> [array |-> arrays[i]]]
<1>1. IsSeq(<<>>)
  BY EmptyIs
<1>2. IsSeq(arrays)
  <2>1. CASE Compressor(c) = "smart_crusher"
    <3>1. IsJson(c.body[1])
      BY <2>1 DEF WellFormed
    <3>2. QED
      BY <2>1, <3>1, CrushIsSeq DEF Crushed
  <2>2. QED
    BY <1>1, <2>1
<1> HIDE DEF arrays
<1>3. IsSeq(s)
  <2> DEFINE n == Len(arrays)
  <2>1. n \in Nat /\ DOMAIN arrays = 1 .. n
    BY <1>2, SeqIs
  <2> HIDE DEF n
  <2>2. s \in [1 .. n -> Range(s)]
    BY <2>1 DEF Range
  <2> HIDE DEF s
  <2>3. QED
    BY <2>1, <2>2, FcnIsSeq, SeqFacts
<1>4. \A i \in DOMAIN arrays : [array |-> arrays[i]] \in Range(s)
  BY DEF Range
<1>5. SavesOf(cfg, c, k) = IF ~cfg.reversible THEN <<>> ELSE Append(s, [text |-> c])
  BY DEF SavesOf, arrays
<1> HIDE DEF s
<1>6. /\ IsSeq(Append(s, [text |-> c]))
      /\ \A y : y \in Range(Append(s, [text |-> c])) <=> y \in Range(s) \/ y = [text |-> c]
  BY <1>3, Appended
<1>7. /\ IsSeq(SavesOf(cfg, c, k))
      /\ cfg.reversible => [text |-> c] \in Range(SavesOf(cfg, c, k))
      /\ cfg.reversible => \A i \in DOMAIN arrays :
                                [array |-> arrays[i]] \in Range(SavesOf(cfg, c, k))
  BY <1>1, <1>4, <1>5, <1>6
<1>8. QED
  BY <1>7 DEF arrays

\* A compressor hands its content back, or puts its name to what is left.
LEMMA CompressedFacts ==
  ASSUME NEW cfg, NEW c, NEW k
  PROVE  \/ Compressed(cfg, c, k) = Original(c)
         \/ /\ Compressed(cfg, c, k).by = Compressor(c) /\ Compressed(cfg, c, k).of = c
            /\ Compressor(c) \in {"smart_crusher", "log_stripper", "ast_code", "semantic"}
<1>1. Compressor(c) \in {"smart_crusher", "log_stripper", "ast_code", "semantic"}
  <2>1. DetectContentType(c.marks) \in
          {"PlainText", "JsonArray", "GitDiff", "Html", "SearchResults", "BuildOutput",
           "SourceCode"}
    BY DEF DetectContentType
  <2>2. QED
    BY <2>1 DEF Compressor, Route
<1>2. CASE Compressor(c) = "smart_crusher"
  BY <1>2 DEF Compressed, Written
<1>3. CASE Compressor(c) = "log_stripper"
  BY <1>3 DEF Compressed, Written
<1>4. CASE Compressor(c) = "ast_code"
  BY <1>4 DEF Compressed, Written
<1>5. CASE Compressor(c) = "semantic"
  BY <1>5 DEF Compressed, Written
<1>6. QED
  BY <1>1, <1>2, <1>3, <1>4, <1>5

\* The initial states.
LEMMA PipeInit == Init => PipeInv
<1> SUFFICES ASSUME Init PROVE PipeInv
  OBVIOUS
<1>1. IsSeq(<<>>) /\ Len(<<>>) = 0 /\ DOMAIN <<>> = {}
  BY EmptyIs
<1>2. IsSeq(prompt) /\ prompt \in Prompts
  BY PromptsAssumption DEF Init
<1>3. Len(<<>>) <= Len(prompt)
  BY <1>1, <1>2, SeqIs
<1>4. QED
  BY <1>1, <1>2, <1>3 DEF Init, PipeInv

\* What has been emitted stays so; a message is added as it ought to be.
LEMMA PipeEmits ==
  ASSUME PipeInv, Len(out) < Len(prompt), UNCHANGED <<config, prompt>>, store' = store,
         NEW x, out' = Append(out, x), IsSeq(pending'), phase' = "route",
         \/ x = [text |-> Original(Current), ccr |-> None]
         \/ \E k \in Sizes(Current) :
              /\ Range(SavesOf(config, Current, k)) \subseteq store
              /\ x = [text |-> Compressed(config, Current, k),
                      ccr |-> IF config.reversible /\ Compressed(config, Current, k) # Original(Current)
                              THEN [text |-> Current] ELSE None]
  PROVE  PipeInv'
<1> DEFINE n == Len(out)
<1>1. /\ IsSeq(out) /\ n \in Nat /\ DOMAIN out = 1 .. n
      /\ IsSeq(prompt) /\ Len(prompt) \in Nat
  BY PromptsAssumption, SeqIs DEF PipeInv
<1>2. /\ IsSeq(out') /\ Len(out') = n + 1 /\ DOMAIN (out') = 1 .. n + 1
      /\ \A i \in 1 .. n : (out')[i] = out[i]
      /\ (out')[n + 1] = x
  BY <1>1, Appended
<1>3. Len(out') <= Len(prompt')
  BY <1>1, <1>2
<1>4. \A i : Aligned(prompt[i])' = Aligned(prompt'[i])
  BY DEF Aligned
<1>5. ASSUME NEW i \in 1 .. n + 1 PROVE Emitted(i)'
  <2>1. CASE i \in 1 .. n
    <3>1. Emitted(i) /\ (out')[i] = out[i]
      BY <1>1, <1>2, <2>1 DEF PipeInv
    <3>2. QED
      BY <3>1 DEF Emitted, Aligned
  <2>2. CASE i = n + 1
    <3>1. (out')[i] = x /\ Current = Aligned(prompt[i])
      BY <1>2, <2>2 DEF Current
    <3>2. QED
      BY <3>1 DEF Emitted, Aligned
  <2>3. i \in 1 .. n \/ i = n + 1
    BY <1>1
  <2>4. QED
    BY <2>1, <2>2, <2>3
<1> HIDE DEF n
<1>6. QED
  BY <1>2, <1>3, <1>5 DEF PipeInv

\* A step of another kind leaves what has been emitted.
LEMMA PipeKeeps ==
  ASSUME PipeInv, UNCHANGED <<config, prompt, out>>, store \subseteq store',
         IsSeq(pending'),
         phase' = "save" =>
           /\ Len(out) < Len(prompt)
           /\ \E k \in Sizes(Current) :
                /\ result' = Compressed(config, Current, k)
                /\ Range(SavesOf(config, Current, k)) \subseteq store' \cup Range(pending')
  PROVE  PipeInv'
<1>1. ASSUME NEW i \in DOMAIN out PROVE Emitted(i)'
  <2>1. Emitted(i)
    BY DEF PipeInv
  <2>2. QED
    BY <2>1 DEF Emitted, Aligned
<1>2. Current' = Current
  BY DEF Current, Aligned
<1>3. phase' = "save" =>
        /\ Len(out') < Len(prompt')
        /\ \E k \in Sizes(Current') :
             /\ result' = Compressed(config', Current', k)
             /\ Range(SavesOf(config', Current', k)) \subseteq store' \cup Range(pending')
  BY <1>2
<1>4. QED
  BY <1>1, <1>3 DEF PipeInv

\* Every step.
LEMMA PipeNext == PipeInv /\ [Next]_vars => PipeInv'
<1> SUFFICES ASSUME PipeInv, [Next]_vars PROVE PipeInv'
  OBVIOUS
<1>1. /\ IsSeq(out) /\ IsSeq(pending) /\ IsSeq(prompt)
      /\ Len(out) \in Nat /\ Len(prompt) \in Nat
  BY PromptsAssumption, SeqIs DEF PipeInv
<1>2. Len(out) < Len(prompt) => WellFormed(Current)
  <2>1. Len(out) < Len(prompt) => Len(out) + 1 \in 1 .. Len(prompt)
    BY <1>1
  <2>2. QED
    BY <2>1, AlignedFacts DEF Current
<1>3. CASE PassThrough
  <2> DEFINE x == [text |-> Original(Current), ccr |-> None]
  <2>1. /\ Len(out) < Len(prompt) /\ UNCHANGED <<config, prompt>> /\ store' = store
        /\ out' = Append(out, x) /\ IsSeq(pending') /\ phase' = "route"
    BY <1>1, <1>3 DEF PassThrough
  <2>2. QED
    BY <2>1, PipeEmits
<1>4. ASSUME NEW k \in Sizes(Current), Len(out) < Len(prompt), Compress(k)
      PROVE  PipeInv'
  <2>1. IsSeq(SavesOf(config, Current, k))
    BY <1>2, <1>4, SavesFacts
  <2>2. /\ UNCHANGED <<config, prompt, out>> /\ store \subseteq store'
        /\ pending' = SavesOf(config, Current, k)
        /\ result' = Compressed(config, Current, k)
    BY <1>4 DEF Compress
  <2>3. Range(SavesOf(config, Current, k)) \subseteq store' \cup Range(pending')
    BY <2>2
  <2>4. QED
    BY <1>4, <2>1, <2>2, <2>3, PipeKeeps
<1>5. CASE Save
  <2>1. /\ UNCHANGED <<config, prompt, out, phase, result>>
        /\ phase = "save" /\ pending # <<>>
        /\ store' = store \cup {Head(pending)} /\ pending' = Tail(pending)
    BY <1>5 DEF Save
  <2>2. PICK k \in Sizes(Current) :
          /\ result = Compressed(config, Current, k)
          /\ Range(SavesOf(config, Current, k)) \subseteq store \cup Range(pending)
    BY <2>1 DEF PipeInv
  <2>3. Len(out) < Len(prompt)
    BY <2>1 DEF PipeInv
  <2>4. /\ IsSeq(pending')
        /\ \A x \in Range(pending) : x = Head(pending) \/ x \in Range(pending')
    BY <1>1, <2>1, Shortened
  <2>5. Range(SavesOf(config, Current, k)) \subseteq store' \cup Range(pending')
    BY <2>1, <2>2, <2>4
  <2>6. QED
    BY <2>1, <2>2, <2>3, <2>4, <2>5, PipeKeeps
<1>6. CASE SaveFails
  <2> DEFINE x == [text |-> Original(Current), ccr |-> None]
  <2>1. /\ UNCHANGED <<config, prompt>> /\ store' = store /\ phase = "save"
        /\ out' = Append(out, x) /\ pending' = <<>> /\ phase' = "route"
    BY <1>6 DEF SaveFails
  <2>2. Len(out) < Len(prompt) /\ IsSeq(pending')
    BY <2>1, EmptyIs DEF PipeInv
  <2>3. QED
    BY <2>1, <2>2, PipeEmits
<1>7. CASE Finish
  <2>1. PICK k \in Sizes(Current) :
          /\ result = Compressed(config, Current, k)
          /\ Range(SavesOf(config, Current, k)) \subseteq store \cup Range(pending)
    BY <1>7 DEF PipeInv, Finish
  <2> DEFINE x == [text |-> Compressed(config, Current, k),
                   ccr |-> IF config.reversible /\ Compressed(config, Current, k) # Original(Current)
                           THEN [text |-> Current] ELSE None]
  <2>2. /\ UNCHANGED <<config, prompt>> /\ store' = store /\ phase = "save"
        /\ out' = Append(out, x) /\ pending = <<>> /\ pending' = <<>> /\ phase' = "route"
    BY <1>7, <2>1 DEF Finish
  <2>3. Len(out) < Len(prompt) /\ IsSeq(pending')
    BY <2>2, EmptyIs DEF PipeInv
  <2>4. Range(SavesOf(config, Current, k)) \subseteq store
    <3>1. Range(<<>>) = {}
      BY EmptyIs DEF Range
    <3>2. QED
      BY <2>1, <2>2, <3>1
  <2>5. \E j \in Sizes(Current) :
          /\ Range(SavesOf(config, Current, j)) \subseteq store
          /\ x = [text |-> Compressed(config, Current, j),
                  ccr |-> IF config.reversible /\ Compressed(config, Current, j) # Original(Current)
                          THEN [text |-> Current] ELSE None]
    BY <2>4
  <2> HIDE DEF x
  <2>6. QED
    BY <2>2, <2>3, <2>5, PipeEmits
<1>8. CASE UNCHANGED vars
  <2>1. UNCHANGED <<config, prompt, out, phase, result, pending, store>>
    BY <1>8 DEF vars
  <2>2. phase = "save" =>
          /\ Len(out) < Len(prompt)
          /\ \E k \in Sizes(Current) :
               /\ result = Compressed(config, Current, k)
               /\ Range(SavesOf(config, Current, k)) \subseteq store \cup Range(pending)
    BY DEF PipeInv
  <2>3. QED
    BY <1>1, <2>1, <2>2, PipeKeeps
<1>9. QED
  BY <1>3, <1>4, <1>5, <1>6, <1>7, <1>8 DEF Next

\* The invariant behind the theorems.
LEMMA PipeAlways == Spec => []PipeInv
BY PipeInit, PipeNext, PTL DEF Spec

\* What differs from what the pipeline was given is in the store by its id,
\* for any contents, compressors and sizes, whichever of its saves fail
\* (pipeline.rs, compress_one and run).
THEOREM OriginalsKept == Spec => []Recoverable
<1>1. PipeInv => Recoverable
  <2> SUFFICES ASSUME PipeInv, config.reversible, NEW i \in DOMAIN out
               PROVE  IF out[i].text.by = "none" THEN out[i].text.of = Aligned(prompt[i])
                      ELSE /\ out[i].ccr = [text |-> Aligned(prompt[i])]
                           /\ out[i].ccr \in store
    BY DEF Recoverable
  <2> DEFINE c == Aligned(prompt[i])
  <2>1. Emitted(i)
    BY DEF PipeInv
  <2>2. WellFormed(c)
    <3>1. i \in 1 .. Len(prompt)
      <4>1. IsSeq(out) /\ IsSeq(prompt) /\ Len(out) <= Len(prompt)
        BY PromptsAssumption DEF PipeInv
      <4>2. /\ DOMAIN out = 1 .. Len(out)
            /\ Len(out) \in Nat /\ Len(prompt) \in Nat
        BY <4>1, SeqIs
      <4>3. QED
        BY <4>1, <4>2
    <3>2. QED
      BY <3>1, AlignedFacts
  <2>3. Original(c).by = "none" /\ Original(c).of = c
    BY DEF Original, Written
  <2>4. CASE out[i] = [text |-> Original(c), ccr |-> None]
    BY <2>3, <2>4
  <2>5. ASSUME NEW k,
               Range(SavesOf(config, c, k)) \subseteq store,
               out[i] = [text |-> Compressed(config, c, k),
                         ccr |-> IF config.reversible /\ Compressed(config, c, k) # Original(c)
                                 THEN [text |-> c] ELSE None]
        PROVE  IF out[i].text.by = "none" THEN out[i].text.of = c
               ELSE out[i].ccr = [text |-> c] /\ out[i].ccr \in store
    <3> HIDE DEF c
    <3>1. \/ Compressed(config, c, k) = Original(c)
          \/ Compressed(config, c, k).by # "none"
      BY CompressedFacts
    <3>2. [text |-> c] \in Range(SavesOf(config, c, k))
      BY <2>2, SavesFacts
    <3>3. CASE Compressed(config, c, k) = Original(c)
      BY <2>3, <2>5, <3>3
    <3>4. CASE Compressed(config, c, k).by # "none"
      BY <2>3, <2>5, <3>2, <3>4
    <3>5. QED
      BY <3>1, <3>3, <3>4
  <2>6. QED
    BY <2>1, <2>4, <2>5 DEF Emitted
<1>2. QED
  BY <1>1, PipeAlways, PTL
-----------------------------------------------------------------------------
(* Prose *)

\* What is left of n paragraphs, the last line included.
LeftOf(n) == Seq([para : 0 .. n, see : Nat, cut : BOOLEAN])

\* A reference leads to a paragraph that says what it stands for.
Resolves(paras, left) ==
  \A n \in DOMAIN left : left[n].see # 0 =>
    /\ left[n].see \in DOMAIN left
    /\ left[left[n].see].see = 0
    /\ paras[left[left[n].see].para].norm = paras[left[n].para].norm

TextStates(paras) ==
  {acc \in [dups : Nat, out : LeftOf(Len(paras))] : Resolves(paras, acc.out)}

\* One more paragraph, as in CompressText.
TextStep(paras, hint, acc, i) ==
  LET focus == hint /\ paras[i].hit
      first == FirstShown(acc.out, paras, i)
  IN  IF paras[i].norm = "" THEN acc
      ELSE IF ~focus /\ first # 0
      THEN [dups |-> acc.dups + 1,
            out  |-> IF acc.dups < 3 THEN Append(acc.out, Seen(i, first)) ELSE acc.out]
      ELSE [acc EXCEPT !.out = Append(@, Shown(i, paras[i].long /\ ~focus))]

\* What is added to a text in which every reference resolves may refer to a
\* paragraph that is shown there.
LEMMA ResolvesAppended ==
  ASSUME NEW paras, Len(paras) \in Nat, NEW left \in LeftOf(Len(paras)),
         Resolves(paras, left), NEW x \in [para : 0 .. Len(paras), see : Nat, cut : BOOLEAN],
         x.see # 0 => /\ x.see \in DOMAIN left /\ left[x.see].see = 0
                      /\ paras[left[x.see].para].norm = paras[x.para].norm
  PROVE  Append(left, x) \in LeftOf(Len(paras)) /\ Resolves(paras, Append(left, x))
<1> DEFINE a == Append(left, x)
           m == Len(left)
           R == [para : 0 .. Len(paras), see : Nat, cut : BOOLEAN]
<1>1. left \in Seq(R) /\ m \in Nat /\ DOMAIN left = 1 .. m
  BY LenProperties DEF LeftOf
<1> HIDE DEF R
<1>2. /\ a \in Seq(R) /\ Len(a) = m + 1 /\ a[m + 1] = x
      /\ \A i \in 1 .. m : a[i] = left[i]
  BY <1>1, AppendProperties DEF R
<1>3. DOMAIN a = 1 .. m + 1
  BY <1>2, LenProperties
<1> HIDE DEF a, m
<1>4. ASSUME NEW n \in DOMAIN a, a[n].see # 0
      PROVE  /\ a[n].see \in DOMAIN a
             /\ a[a[n].see].see = 0
             /\ paras[a[a[n].see].para].norm = paras[a[n].para].norm
  <2>1. n \in 1 .. m \/ n = m + 1
    BY <1>1, <1>3
  <2>2. \A i \in 1 .. m : i \in 1 .. m + 1
    BY <1>1
  <2>3. CASE n \in 1 .. m
    <3>1. a[n] = left[n]
      BY <1>2, <2>3
    <3>2. /\ left[n].see \in 1 .. m /\ left[left[n].see].see = 0
          /\ paras[left[left[n].see].para].norm = paras[left[n].para].norm
      BY <1>1, <1>4, <2>3, <3>1 DEF Resolves
    <3>3. a[left[n].see] = left[left[n].see]
      BY <1>2, <3>2
    <3>4. QED
      BY <1>3, <2>2, <3>1, <3>2, <3>3
  <2>4. CASE n = m + 1
    <3>1. a[n] = x /\ x.see \in 1 .. m
      BY <1>1, <1>2, <1>4, <2>4
    <3>2. a[x.see] = left[x.see]
      BY <1>2, <3>1
    <3>3. QED
      BY <1>3, <1>4, <2>2, <3>1, <3>2
  <2>5. QED
    BY <2>1, <2>3, <2>4
<1>5. QED
  BY <1>2, <1>4 DEF a, R, LeftOf, Resolves

\* A step keeps the references resolved.
LEMMA TextStepFacts ==
  ASSUME NEW paras, IsSeq(paras), NEW hint, NEW acc \in TextStates(paras),
         NEW i \in 1 .. Len(paras)
  PROVE  TextStep(paras, hint, acc, i) \in TextStates(paras)
<1> DEFINE left  == acc.out
           first == FirstShown(left, paras, i)
           n == Len(paras)
           I == {j \in 1 .. Len(left) : left[j].see = 0 /\ paras[left[j].para].norm = paras[i].norm}
<1>1. /\ n \in Nat /\ left \in LeftOf(n) /\ Resolves(paras, left)
      /\ acc.dups \in Nat /\ acc = [dups |-> acc.dups, out |-> left]
  BY SeqIs DEF TextStates
<1>2. Len(left) \in Nat /\ DOMAIN left = 1 .. Len(left)
  BY <1>1, LenProperties DEF LeftOf
<1>3. first = 0 \/ first \in I
  <2>1. first = IF I # {} THEN Min(I) ELSE 0
    BY DEF FirstShown, SelectInSeq
  <2>2. I \in SUBSET Nat
    BY <1>2
  <2> HIDE DEF I, first
  <2>3. QED
    BY <2>1, <2>2, MinProps
<1>4. i \in 0 .. n
  BY <1>1
<1>5. \A j \in I : j \in DOMAIN left /\ j \in Nat /\ left[j].see = 0
                 /\ paras[left[j].para].norm = paras[i].norm
  BY <1>2
<1>6. ASSUME NEW dups \in Nat, NEW text \in LeftOf(n), Resolves(paras, text)
      PROVE  [dups |-> dups, out |-> text] \in TextStates(paras)
  BY <1>6 DEF TextStates
<1>7. acc.dups + 1 \in Nat
  BY <1>1
<1> HIDE DEF I, first, left, n
<1>8. CASE paras[i].norm # "" /\ ~(hint /\ paras[i].hit) /\ first # 0
  <2> DEFINE x == Seen(i, first)
  <2>1. first \in DOMAIN left /\ first \in Nat /\ first \in I
    BY <1>3, <1>8, <1>5
  <2>2. x \in [para : 0 .. n, see : Nat, cut : BOOLEAN] /\ x.see = first /\ x.para = i
    BY <1>4, <2>1 DEF Seen
  <2>3. /\ left[x.see].see = 0
        /\ paras[left[x.see].para].norm = paras[x.para].norm
    BY <1>5, <2>1, <2>2
  <2> HIDE DEF x
  <2>4. Append(left, x) \in LeftOf(n) /\ Resolves(paras, Append(left, x))
    BY <1>1, <2>1, <2>2, <2>3, ResolvesAppended DEF n
  <2>5. TextStep(paras, hint, acc, i) =
          [dups |-> acc.dups + 1, out |-> IF acc.dups < 3 THEN Append(left, x) ELSE left]
    BY <1>8 DEF TextStep, x, left, first
  <2>6. CASE acc.dups < 3
    BY <1>6, <1>7, <2>4, <2>5, <2>6
  <2>7. CASE ~(acc.dups < 3)
    BY <1>1, <1>6, <1>7, <2>5, <2>7
  <2>8. QED
    BY <2>6, <2>7
<1>9. CASE paras[i].norm # "" /\ ~(~(hint /\ paras[i].hit) /\ first # 0)
  <2> DEFINE x == Shown(i, paras[i].long /\ ~(hint /\ paras[i].hit))
  <2>1. x \in [para : 0 .. n, see : Nat, cut : BOOLEAN] /\ x.see = 0
    BY <1>4 DEF Shown
  <2> HIDE DEF x
  <2>2. Append(left, x) \in LeftOf(n) /\ Resolves(paras, Append(left, x))
    BY <1>1, <2>1, ResolvesAppended DEF n
  <2>3. TextStep(paras, hint, acc, i) = [acc EXCEPT !.out = Append(left, x)]
    BY <1>9 DEF TextStep, x, left, first
  <2>4. TextStep(paras, hint, acc, i) = [dups |-> acc.dups, out |-> Append(left, x)]
    BY <1>1, <2>3
  <2>5. QED
    BY <1>1, <1>6, <2>2, <2>4
<1>10. CASE paras[i].norm = ""
  BY <1>10 DEF TextStep
<1>11. QED
  BY <1>8, <1>9, <1>10

\* Every reference of a compressed text resolves in it.
LEMMA TextResolves ==
  ASSUME NEW paras, IsSeq(paras), NEW hint
  PROVE  Resolves(paras, CompressText(paras, hint))
<1> DEFINE N == Len(paras)
           D == TextStates(paras)
           a == [dups |-> 0, out |-> <<>>]
           Rec(g) == [n \in 0 .. N |-> IF n = 0 THEN a
                                       ELSE TextStep(paras, hint, g[n - 1], n)]
           h == CHOOSE g : g = Rec(g)
<1>1. N \in Nat
  BY SeqIs
<1>2. a \in D
  <2>1. <<>> \in LeftOf(N)
    BY EmptySeq DEF LeftOf
  <2>2. Resolves(paras, <<>>)
    BY EmptyIs DEF Resolves
  <2>3. QED
    BY <2>1, <2>2 DEF TextStates
<1>3. \E step \in [1 .. N -> [D -> D]] :
        \A n \in 1 .. N : \A acc \in D : step[n][acc] = TextStep(paras, hint, acc, n)
  <2> HIDE DEF D
  <2>1. \A n \in 1 .. N : \A acc \in D : TextStep(paras, hint, acc, n) \in D
    BY TextStepFacts DEF D
  <2> DEFINE step == [n \in 1 .. N |-> [acc \in D |-> TextStep(paras, hint, acc, n)]]
  <2>2. step \in [1 .. N -> [D -> D]]
    BY <2>1
  <2>3. \A n \in 1 .. N : \A acc \in D : step[n][acc] = TextStep(paras, hint, acc, n)
    OBVIOUS
  <2> HIDE DEF step
  <2>4. QED
    BY <2>2, <2>3
<1>4. \E g : g = Rec(g)
  <2> HIDE DEF D, N, a
  <2>1. PICK step \in [1 .. N -> [D -> D]] :
          \A n \in 1 .. N : \A acc \in D : step[n][acc] = TextStep(paras, hint, acc, n)
    BY <1>3
  <2>2. \E g \in [0 .. N -> D] : Iterated(g, a, step, N)
    BY <1>1, <1>2, <2>1, Iterates
  <2>3. PICK g \in [0 .. N -> D] : g[0] = a /\ \A n \in 1 .. N : g[n] = step[n][g[n - 1]]
    BY <2>2 DEF Iterated
  <2>4. ASSUME NEW n \in 0 .. N PROVE g[n] = Rec(g)[n]
    <3>1. CASE n = 0
      BY <2>3, <3>1
    <3>2. CASE n # 0
      <4>1. n \in 1 .. N /\ n - 1 \in 0 .. N
        BY <1>1, <3>2
      <4>2. g[n - 1] \in D
        BY <4>1
      <4>3. QED
        BY <2>3, <2>1, <3>2, <4>1, <4>2
    <3>3. QED
      BY <3>1, <3>2
  <2>5. g = [n \in 0 .. N |-> g[n]] /\ Rec(g) = [n \in 0 .. N |-> Rec(g)[n]]
    OBVIOUS
  <2> HIDE DEF Rec
  <2>6. g = Rec(g)
    BY <2>4, <2>5
  <2>7. QED
    BY <2>6
<1>5. h = Rec(h)
  <2> HIDE DEF Rec
  <2>1. QED
    BY <1>4
<1>6. h[N] \in D
  <2> HIDE DEF h, D, N, a
  <2>1. h[0] = a
    BY <1>1, <1>5
  <2>2. ASSUME NEW n \in 1 .. N, h[n - 1] \in D PROVE h[n] \in D
    <3>1. n \in 0 .. N /\ n # 0
      BY <1>1
    <3>2. h[n] = TextStep(paras, hint, h[n - 1], n)
      BY <1>5, <3>1
    <3>3. QED
      BY <2>2, <3>2, TextStepFacts DEF D, N
  <2> HIDE DEF Rec
  <2>3. \A n \in 0 .. N : h[n] \in D
    BY <1>1, <1>2, <2>1, <2>2, IteratesIn
  <2>4. QED
    BY <1>1, <2>3
<1>7. CompressText(paras, hint) =
        IF h[N].dups > 5 THEN Append(h[N].out, Shown(0, FALSE)) ELSE h[N].out
  BY DEF CompressText, TextStep
<1> HIDE DEF h, N, a, Rec
<1>8. h[N].out \in LeftOf(Len(paras)) /\ Resolves(paras, h[N].out)
  BY <1>6 DEF TextStates
<1>9. Resolves(paras, Append(h[N].out, Shown(0, FALSE)))
  <2>1. /\ Shown(0, FALSE) \in [para : 0 .. Len(paras), see : Nat, cut : BOOLEAN]
        /\ Shown(0, FALSE).see = 0
    BY <1>1 DEF Shown, N
  <2>2. QED
    BY <1>1, <1>8, <2>1, ResolvesAppended DEF N
<1>10. QED
  BY <1>7, <1>8, <1>9

\* A message that has been emitted was well formed, aligned or not.
LEMMA PromptFacts ==
  ASSUME PipeInv, NEW i \in DOMAIN out
  PROVE  WellFormed(prompt[i]) /\ WellFormed(Aligned(prompt[i]))
<1>1. IsSeq(out) /\ IsSeq(prompt) /\ Len(out) <= Len(prompt)
  BY PromptsAssumption DEF PipeInv
<1>2. /\ DOMAIN out = 1 .. Len(out) /\ DOMAIN prompt = 1 .. Len(prompt)
      /\ Len(out) \in Nat /\ Len(prompt) \in Nat
  BY <1>1, SeqIs
<1>3. i \in 1 .. Len(prompt)
  BY <1>1, <1>2
<1>4. WellFormed(prompt[i])
  BY <1>2, <1>3, PromptsAssumption DEF PipeInv
<1>5. QED
  BY <1>3, <1>4, AlignedFacts

\* An emitted text of a compressor is what it makes of the message.
LEMMA EmittedBy ==
  ASSUME PipeInv, NEW i \in DOMAIN out, out[i].text.by # "none"
  PROVE  \E k \in Sizes(Aligned(prompt[i])) :
           LET c == Aligned(prompt[i])
           IN  /\ WellFormed(c) /\ out[i].text = Compressed(config, c, k)
               /\ out[i].text.by = Compressor(c) /\ out[i].text.of = c
               /\ Compressed(config, c, k) # Original(c)
               /\ Range(SavesOf(config, c, k)) \subseteq store
<1> DEFINE c == Aligned(prompt[i])
<1>1. Emitted(i)
  BY DEF PipeInv
<1>2. WellFormed(c)
  BY PromptFacts
<1>3. Original(c).by = "none"
  BY DEF Original, Written
<1>4. PICK k \in Sizes(c) :
        /\ Range(SavesOf(config, c, k)) \subseteq store
        /\ out[i].text = Compressed(config, c, k)
  BY <1>1, <1>3 DEF Emitted
<1> HIDE DEF c
<1>5. /\ Compressed(config, c, k).by = Compressor(c) /\ Compressed(config, c, k).of = c
      /\ Compressed(config, c, k) # Original(c)
  BY <1>3, <1>4, CompressedFacts
<1>6. QED
  BY <1>2, <1>4, <1>5 DEF c

\* In every prose text that is emitted, what "[see paragraph N]" points at is
\* there, is no reference itself and says what the reference stands for,
\* whatever paragraphs were left out before it (semantic.rs).
THEOREM ReferencesKept == Spec => []ReferencesResolve
<1>1. PipeInv => ReferencesResolve
  <2> SUFFICES ASSUME PipeInv, NEW i \in DOMAIN out, By(i, "semantic"),
                      NEW n \in DOMAIN Result(i), Result(i)[n].see # 0
               PROVE  LET seen == Result(i)[Result(i)[n].see]
                          paras == AsParas(out[i].text.of)
                      IN  seen.see = 0 /\ paras[seen.para].norm = paras[Result(i)[n].para].norm
    BY DEF ReferencesResolve
  <2> DEFINE c == Aligned(prompt[i])
             paras == AsParas(c)
  <2>1. out[i].text.by = "semantic"
    BY DEF By
  <2>2. PICK k \in Sizes(c) :
          /\ WellFormed(c) /\ out[i].text = Compressed(config, c, k)
          /\ out[i].text.by = Compressor(c) /\ out[i].text.of = c
          /\ Compressed(config, c, k) # Original(c)
    BY <2>1, EmittedBy
  <2> HIDE DEF c
  <2>3. Result(i) = CompressText(paras, config.hint)
    <3>1. Compressor(c) = "semantic"
      BY <2>1, <2>2
    <3>2. \/ Compressed(config, c, k) = Original(c)
          \/ Compressed(config, c, k) = Written("semantic", c, CompressText(AsParas(c), config.hint))
      BY <3>1 DEF Compressed
    <3>3. QED
      BY <2>2, <3>2 DEF Result, Written
  <2>4. IsSeq(paras)
    <3>1. CASE c.kind = "text"
      BY <2>2, <3>1 DEF AsParas, WellFormed
    <3>2. CASE c.kind # "text"
      <4> DEFINE x == [norm |-> "lines", long |-> FALSE, hit |-> FALSE]
      <4>1. <<x>> \in Seq({x})
        OBVIOUS
      <4>2. IsSeq(<<x>>)
        BY <4>1, SeqFacts
      <4>3. QED
        BY <3>2, <4>2 DEF AsParas
    <3>3. QED
      BY <3>1, <3>2
  <2> HIDE DEF paras
  <2>5. Resolves(paras, Result(i))
    BY <2>3, <2>4, TextResolves
  <2>6. QED
    BY <2>2, <2>5 DEF Resolves, paras
<1>2. QED
  BY <1>1, PipeAlways, PTL
-----------------------------------------------------------------------------
(* Logs *)

\* What parse_lines knows while it reads a log.
Traces(log) ==
  [flavor : {"none"} \cup {log[n].starts : n \in DOMAIN log}, count : Nat,
   lines : SUBSET DOMAIN log]

\* One more line, as in StackLines.
TraceStep(log, n, acc) ==
  LET line  == log[n]
      going == /\ acc.flavor # "none"
               /\ acc.count < TraceLines
               /\ acc.flavor \notin line.ends
  IN  IF going
      THEN [acc EXCEPT !.count = @ + 1, !.lines = @ \cup {n}]
      ELSE IF line.starts # "none"
      THEN [flavor |-> line.starts, count |-> 1, lines |-> acc.lines \cup {n}]
      ELSE [acc EXCEPT !.flavor = "none", !.count = 0]

\* A line that is read adds nothing but itself to the traces.
LEMMA TraceStepFacts ==
  ASSUME NEW log, NEW n \in DOMAIN log, NEW acc \in Traces(log)
  PROVE  TraceStep(log, n, acc) \in Traces(log)
<1> DEFINE F == {"none"} \cup {log[m].starts : m \in DOMAIN log}
           L == SUBSET DOMAIN log
<1>1. /\ acc.flavor \in F /\ acc.count \in Nat /\ acc.lines \in L
      /\ acc = [flavor |-> acc.flavor, count |-> acc.count, lines |-> acc.lines]
  BY DEF Traces
<1>2. log[n].starts \in F /\ "none" \in F /\ acc.lines \cup {n} \in L
  BY <1>1
<1>3. acc.count + 1 \in Nat
  BY <1>1
<1> HIDE DEF F, L
<1>4. \A f \in F, k \in Nat, s \in L : [flavor |-> f, count |-> k, lines |-> s] \in Traces(log)
  BY DEF Traces, F, L
<1>5. \/ TraceStep(log, n, acc) =
           [flavor |-> acc.flavor, count |-> acc.count + 1, lines |-> acc.lines \cup {n}]
      \/ TraceStep(log, n, acc) =
           [flavor |-> log[n].starts, count |-> 1, lines |-> acc.lines \cup {n}]
      \/ TraceStep(log, n, acc) = [flavor |-> "none", count |-> 0, lines |-> acc.lines]
  BY <1>1 DEF TraceStep
<1>6. QED
  BY <1>1, <1>2, <1>3, <1>4, <1>5

\* The lines of the stack traces are lines of the log.
LEMMA StackFacts ==
  ASSUME NEW log, IsSeq(log)
  PROVE  StackLines(log) \subseteq DOMAIN log
<1> DEFINE N == Len(log)
           D == Traces(log)
           a == [flavor |-> "none", count |-> 0, lines |-> {}]
           Rec(g) == [n \in 0 .. N |-> IF n = 0 THEN a ELSE TraceStep(log, n, g[n - 1])]
           h == CHOOSE g : g = Rec(g)
<1>1. N \in Nat /\ DOMAIN log = 1 .. N
  BY SeqIs
<1>2. a \in D
  BY DEF Traces
<1>3. \E step \in [1 .. N -> [D -> D]] :
        \A n \in 1 .. N : \A acc \in D : step[n][acc] = TraceStep(log, n, acc)
  <2> DEFINE step == [n \in 1 .. N |-> [acc \in D |-> TraceStep(log, n, acc)]]
  <2> HIDE DEF D
  <2>1. \A n \in 1 .. N : \A acc \in D : TraceStep(log, n, acc) \in D
    BY <1>1, TraceStepFacts DEF D
  <2>2. step \in [1 .. N -> [D -> D]]
    BY <2>1
  <2>3. \A n \in 1 .. N : \A acc \in D : step[n][acc] = TraceStep(log, n, acc)
    OBVIOUS
  <2> HIDE DEF step
  <2>4. QED
    BY <2>2, <2>3
<1>4. \E g : g = Rec(g)
  <2> HIDE DEF D, N, a
  <2>1. PICK step \in [1 .. N -> [D -> D]] :
          \A n \in 1 .. N : \A acc \in D : step[n][acc] = TraceStep(log, n, acc)
    BY <1>3
  <2>2. \E g \in [0 .. N -> D] : Iterated(g, a, step, N)
    BY <1>1, <1>2, <2>1, Iterates
  <2>3. PICK g \in [0 .. N -> D] : g[0] = a /\ \A n \in 1 .. N : g[n] = step[n][g[n - 1]]
    BY <2>2 DEF Iterated
  <2>4. ASSUME NEW n \in 0 .. N PROVE g[n] = Rec(g)[n]
    <3>1. CASE n = 0
      BY <2>3, <3>1
    <3>2. CASE n # 0
      <4>1. n \in 1 .. N /\ n - 1 \in 0 .. N
        BY <1>1, <3>2
      <4>2. g[n - 1] \in D
        BY <4>1
      <4>3. QED
        BY <2>1, <2>3, <3>2, <4>1, <4>2
    <3>3. QED
      BY <3>1, <3>2
  <2>5. g = [n \in 0 .. N |-> g[n]] /\ Rec(g) = [n \in 0 .. N |-> Rec(g)[n]]
    OBVIOUS
  <2> HIDE DEF Rec
  <2>6. g = Rec(g)
    BY <2>4, <2>5
  <2>7. QED
    BY <2>6
<1>5. h = Rec(h)
  <2> HIDE DEF Rec
  <2>1. QED
    BY <1>4
<1>6. h[N] \in D
  <2> HIDE DEF h, D, N, a
  <2>1. h[0] = a
    BY <1>1, <1>5
  <2>2. ASSUME NEW n \in 1 .. N, h[n - 1] \in D PROVE h[n] \in D
    <3>1. n \in 0 .. N /\ n # 0 /\ n \in DOMAIN log
      BY <1>1
    <3>2. h[n] = TraceStep(log, n, h[n - 1])
      BY <1>5, <3>1
    <3>3. QED
      BY <2>2, <3>1, <3>2, TraceStepFacts DEF D
  <2> HIDE DEF Rec
  <2>3. \A n \in 0 .. N : h[n] \in D
    BY <1>1, <1>2, <2>1, <2>2, IteratesIn
  <2>4. QED
    BY <1>1, <2>3
<1>7. StackLines(log) = h[N].lines
  BY DEF StackLines, TraceStep
<1> HIDE DEF h, N, a, Rec
<1>8. QED
  BY <1>6, <1>7 DEF Traces

\* The score of a line of a well-formed log, and what gives it a high one.
LEMMA ScoreFacts ==
  ASSUME NEW log, IsSeq(log), \A n \in DOMAIN log : log[n].level \in DOMAIN LevelScore,
         NEW n \in DOMAIN log
  PROVE  /\ Scores(log)[n] \in 0 .. 100
         /\ log[n].level \in {"Error", "Fail"} => Scores(log)[n] = 100
         /\ \/ log[n].level \in {"Error", "Fail", "Warn"}
            \/ n \in StackLines(log)
            \/ log[n].summary
            => Scores(log)[n] >= 32
<1> DEFINE l == LevelScore[log[n].level]
           s == IF n \in StackLines(log) THEN 30 ELSE 0
           m == IF log[n].summary THEN 40 ELSE 0
<1>1. Scores(log)[n] = Min({100, l + s + m})
  BY DEF Scores
<1>2. /\ l \in {2, 5, 10, 50, 100}
      /\ log[n].level \in {"Error", "Fail"} => l = 100
      /\ log[n].level = "Warn" => l = 50
  BY DEF LevelScore
<1>3. s \in {0, 30} /\ m \in {0, 40}
  OBVIOUS
<1>4. /\ n \in StackLines(log) => s = 30
      /\ log[n].summary => m = 40
  OBVIOUS
<1> HIDE DEF l, s, m
<1>5. l + s + m \in Nat
  BY <1>2, <1>3
<1>6. /\ Scores(log)[n] \in {100, l + s + m} /\ Scores(log)[n] <= 100
      /\ Scores(log)[n] <= l + s + m
  <2> DEFINE t == l + s + m
  <2> HIDE DEF t
  <2>1. {100, t} \in SUBSET Nat /\ {100, t} # {}
    BY <1>5 DEF t
  <2>2. Min({100, t}) \in {100, t} /\ \A x \in {100, t} : Min({100, t}) <= x
    BY <2>1, MinProps
  <2>3. QED
    BY <1>1, <2>2 DEF t
<1>7. Scores(log)[n] \in 0 .. 100
  BY <1>5, <1>6
<1>8. ASSUME log[n].level \in {"Error", "Fail"} PROVE Scores(log)[n] = 100
  BY <1>2, <1>3, <1>6, <1>8
<1>9. ASSUME \/ log[n].level \in {"Error", "Fail", "Warn"}
             \/ n \in StackLines(log)
             \/ log[n].summary
      PROVE  Scores(log)[n] >= 32
  <2>1. l >= 50 \/ s = 30 \/ m = 40
    BY <1>2, <1>4, <1>9
  <2>2. l + s + m >= 32
    BY <1>2, <1>3, <2>1
  <2>3. QED
    BY <1>6, <2>2
<1>10. QED
  BY <1>7, <1>8, <1>9

\* Of the best of some lines none scores less than one that is not among them.
LEMMA BestFacts ==
  ASSUME NEW n \in Nat, NEW lines \in SUBSET (1 .. n), NEW score,
         \A x \in lines : score[x] \in Nat, NEW count \in Nat,
         NEW x \in Best(lines, score, count), NEW y \in lines,
         y \notin Best(lines, score, count)
  PROVE  score[x] >= score[y]
<1> DEFINE ahead(z) == {m \in lines : score[m] > score[z] \/ (score[m] = score[z] /\ m < z)}
<1> SUFFICES ASSUME score[y] > score[x] PROVE FALSE
  BY DEF Best
<1>1. x \in lines /\ Cardinality(ahead(x)) < count
  BY DEF Best
<1>2. IsFiniteSet(lines)
  <2>1. IsFiniteSet(1 .. n)
    BY FS_Interval
  <2>2. QED
    BY <2>1, FS_Subset
<1>3. ahead(y) \in SUBSET ahead(x)
  <2>1. ASSUME NEW m \in ahead(y) PROVE m \in ahead(x)
    <3>1. m \in lines /\ score[m] >= score[y]
      OBVIOUS
    <3>2. score[m] > score[x]
      BY <1>1, <3>1
    <3>3. QED
      BY <3>1, <3>2
  <2>2. QED
    BY <2>1
<1>4. IsFiniteSet(ahead(x))
  <2>1. ahead(x) \in SUBSET lines
    OBVIOUS
  <2> HIDE DEF ahead
  <2>2. QED
    BY <1>2, <2>1, FS_Subset
<1>5. ~(Cardinality(ahead(y)) < count)
  BY DEF Best
<1> HIDE DEF ahead
<1>6. /\ Cardinality(ahead(y)) <= Cardinality(ahead(x)) /\ IsFiniteSet(ahead(y))
  BY <1>3, <1>4, FS_Subset
<1>7. Cardinality(ahead(x)) \in Nat /\ Cardinality(ahead(y)) \in Nat
  BY <1>4, <1>6, FS_CardinalityType
<1>8. QED
  BY <1>1, <1>5, <1>6, <1>7

\* The ends of a selection are selected.
LEMMA SelectEnds ==
  ASSUME NEW n \in Nat, NEW lines \in SUBSET (1 .. n), lines # {}, NEW score
  PROVE  /\ SelectWithFirstLast(lines, score) \subseteq lines
         /\ {Min(lines), Max(lines)} \subseteq SelectWithFirstLast(lines, score)
<1>1. Min(lines) \in lines /\ Max(lines) \in lines
  <2>1. lines \in SUBSET Nat /\ lines \in SUBSET (0 .. n)
    OBVIOUS
  <2>2. QED
    BY <2>1, MinProps, MaxProps
<1>2. QED
  BY <1>1 DEF SelectWithFirstLast, Best

\* A diagnostic is a line of the log that scores more than a focus match does,
\* and a candidate.
LEMMA DiagnosticFacts ==
  ASSUME NEW log, IsSeq(log), \A n \in DOMAIN log : log[n].level \in DOMAIN LevelScore,
         NEW hint, NEW d \in Diagnostics(log)
  PROVE  d \in DOMAIN log /\ Scores(log)[d] >= 32 /\ d \in Candidates(log, hint)
<1> DEFINE score == Scores(log)
           N == Len(log)
<1>1. N \in Nat /\ DOMAIN log = 1 .. N
  BY SeqIs
<1>2. StackLines(log) \subseteq DOMAIN log
  BY StackFacts
<1>3. \/ d \in SelectWithFirstLast(AtLevel(log, "Error"), score)
      \/ d \in SelectWithFirstLast(AtLevel(log, "Fail"), score)
      \/ d \in Earliest(DedupeSimilar(log, AtLevel(log, "Warn")), MaxWarnings)
      \/ d \in KeptStacks(StackLines(log))
      \/ d \in {n \in DOMAIN log : log[n].summary}
  BY DEF Diagnostics
<1>4. ASSUME NEW level, d \in SelectWithFirstLast(AtLevel(log, level), score)
      PROVE  d \in AtLevel(log, level)
  <2> DEFINE lines == AtLevel(log, level)
  <2>1. lines \in SUBSET (1 .. N)
    BY <1>1 DEF AtLevel
  <2> HIDE DEF lines, score, N
  <2>2. CASE lines = {}
    <3>1. Cardinality({}) = 0 /\ 0 <= MaxErrors
      BY FS_EmptySet, LogAssumption
    <3>2. SelectWithFirstLast(lines, score) = lines
      BY <2>2, <3>1 DEF SelectWithFirstLast
    <3>3. QED
      BY <1>4, <3>2 DEF lines
  <2>3. CASE lines # {}
    <3>1. SelectWithFirstLast(lines, score) \subseteq lines
      BY <1>1, <2>1, <2>3, SelectEnds
    <3>2. QED
      BY <1>4, <3>1 DEF lines
  <2>4. QED
    BY <2>2, <2>3
<1>5. \/ d \in AtLevel(log, "Error") \/ d \in AtLevel(log, "Fail")
      \/ d \in AtLevel(log, "Warn") \/ d \in StackLines(log)
      \/ d \in DOMAIN log /\ log[d].summary
  <2>1. \A S, k : Earliest(S, k) \subseteq S /\ DedupeSimilar(log, S) \subseteq S
    BY DEF Earliest, DedupeSimilar
  <2>2. KeptStacks(StackLines(log)) \subseteq StackLines(log)
    BY DEF KeptStacks
  <2> HIDE DEF score
  <2>3. QED
    BY <1>3, <1>4, <2>1, <2>2
<1>6. d \in DOMAIN log
  BY <1>2, <1>5 DEF AtLevel
<1>7. score[d] >= 32
  <2>1. \/ log[d].level \in {"Error", "Fail", "Warn"}
        \/ d \in StackLines(log)
        \/ log[d].summary
    BY <1>5 DEF AtLevel
  <2>2. QED
    BY <1>6, <2>1, ScoreFacts
<1>8. d \in Candidates(log, hint)
  <2>1. d \in Nat /\ ContextLines \in Nat
    BY <1>1, <1>6, LogAssumption
  <2>2. d <= d + ContextLines
    BY <2>1
  <2>3. QED
    BY <1>6, <2>2 DEF Candidates, Around
<1>9. QED
  BY <1>6, <1>7, <1>8

\* What a line scores for the truncation.
LEMMA FocusFacts ==
  ASSUME NEW log, IsSeq(log), \A n \in DOMAIN log : log[n].level \in DOMAIN LevelScore,
         NEW hint, NEW n \in DOMAIN log
  PROVE  /\ FocusScores(log, hint)[n] \in Nat
         /\ FocusScores(log, hint)[n] >= Scores(log)[n]
         /\ \/ FocusScores(log, hint)[n] = Scores(log)[n]
            \/ FocusScores(log, hint)[n] = 30
<1> DEFINE s == Scores(log)[n]
<1>1. s \in 0 .. 100
  BY ScoreFacts
<1>2. FocusScores(log, hint)[n] = IF hint /\ log[n].hit THEN Max({s, 30}) ELSE s
  BY DEF FocusScores, FocusLineScore
<1> HIDE DEF s
<1>3. Max({s, 30}) \in {s, 30} /\ Max({s, 30}) >= s
  <2>1. {s, 30} \in SUBSET (0 .. 100) /\ {s, 30} # {}
    BY <1>1
  <2>2. Max({s, 30}) \in {s, 30} /\ \A x \in {s, 30} : x <= Max({s, 30})
    BY <2>1, MaxProps
  <2>3. QED
    BY <1>1, <2>2
<1>4. FocusScores(log, hint)[n] \in {s, 30} /\ FocusScores(log, hint)[n] >= s
  BY <1>1, <1>2, <1>3
<1>5. QED
  BY <1>1, <1>4 DEF s

\* A diagnostic that a log loses scores no more than any line it keeps.
LEMMA KeptByScore ==
  ASSUME NEW log, IsSeq(log), \A n \in DOMAIN log : log[n].level \in DOMAIN LevelScore,
         NEW k \in Nat, NEW hint, NEW d \in Diagnostics(log),
         d \notin CompressLog(log, k, hint).kept, NEW x \in CompressLog(log, k, hint).kept
  PROVE  /\ x \in DOMAIN log /\ Scores(log)[x] >= Scores(log)[d]
<1> DEFINE lines == Candidates(log, hint)
           score == FocusScores(log, hint)
           N == Len(log)
<1>1. N \in Nat /\ DOMAIN log = 1 .. N /\ lines \in SUBSET (1 .. N)
  BY SeqIs DEF Candidates, Around
<1>2. d \in DOMAIN log /\ Scores(log)[d] >= 32 /\ d \in lines
  BY DiagnosticFacts
<1>3. CompressLog(log, k, hint).kept = SelectLines(log, k, hint)
  BY <1>2 DEF CompressLog
<1>4. CompressLog(log, k, hint).kept = Best(lines, score, k)
  BY <1>2, <1>3 DEF SelectLines
<1>5. \A n \in lines : score[n] \in Nat
  BY <1>1, FocusFacts
<1>6. x \in lines
  BY <1>4 DEF Best
<1>7. score[x] >= score[d]
  <2> HIDE DEF lines, score, N
  <2>1. QED
    BY <1>1, <1>2, <1>4, <1>5, BestFacts
<1>8. x \in DOMAIN log
  BY <1>1, <1>6
<1>9. /\ score[d] \in Nat /\ score[d] >= Scores(log)[d]
      /\ score[x] \in Nat /\ (score[x] = Scores(log)[x] \/ score[x] = 30)
  BY <1>2, <1>8, FocusFacts
<1>10. Scores(log)[d] \in 0 .. 100 /\ Scores(log)[x] \in 0 .. 100
  BY <1>2, <1>8, ScoreFacts
<1> HIDE DEF score
<1>11. QED
  BY <1>2, <1>7, <1>8, <1>9, <1>10

\* What is known of a log that is emitted with lines left out.
LEMMA StrippedFacts ==
  ASSUME PipeInv, NEW i \in DOMAIN out, By(i, "log_stripper")
  PROVE  /\ IsSeq(Lines(i)) /\ \A n \in DOMAIN Lines(i) : Lines(i)[n].level \in DOMAIN LevelScore
         /\ \E k \in Nat : Result(i) = CompressLog(Lines(i), k, config.hint)
<1> DEFINE c == Aligned(prompt[i])
<1>1. out[i].text.by = "log_stripper"
  BY DEF By
<1>2. PICK k \in Sizes(c) :
        /\ WellFormed(c) /\ out[i].text = Compressed(config, c, k)
        /\ out[i].text.by = Compressor(c) /\ out[i].text.of = c
        /\ Compressed(config, c, k) # Original(c)
  BY <1>1, EmittedBy
<1> HIDE DEF c
<1>3. Compressor(c) = "log_stripper"
  BY <1>1, <1>2
<1>4. k \in Nat
  BY <1>2, <1>3, CompressionAssumption DEF Sizes
<1>5. \/ Compressed(config, c, k) = Original(c)
      \/ Compressed(config, c, k) =
           Written("log_stripper", c, CompressLog(c.body, k, config.hint))
  BY <1>3 DEF Compressed
<1>6. Result(i) = CompressLog(c.body, k, config.hint)
  BY <1>2, <1>5 DEF Result, Written
<1>7. Lines(i) = c.body
  BY <1>2 DEF Lines
<1>8. QED
  BY <1>2, <1>3, <1>4, <1>6, <1>7 DEF WellFormed

\* A match of the focus hint never costs a diagnostic its place: where one is
\* missing every line that is kept scores 0.32 or more for itself, a match
\* counts for 0.30 (log_stripper.rs, FOCUS_LINE_SCORE).
THEOREM DiagnosticsSpared == Spec => []FocusSparesDiagnostics
<1>1. PipeInv => FocusSparesDiagnostics
  <2> SUFFICES ASSUME PipeInv, NEW i \in DOMAIN out, By(i, "log_stripper"),
                      NEW d \in Diagnostics(Lines(i)), d \notin Result(i).kept,
                      NEW n \in Result(i).kept
               PROVE  Scores(Lines(i))[n] >= 32
    BY DEF FocusSparesDiagnostics
  <2> DEFINE log == Lines(i)
  <2>1. /\ IsSeq(log) /\ \A m \in DOMAIN log : log[m].level \in DOMAIN LevelScore
        /\ \E k \in Nat : Result(i) = CompressLog(log, k, config.hint)
    BY StrippedFacts
  <2>2. PICK k \in Nat : Result(i) = CompressLog(log, k, config.hint)
    BY <2>1
  <2> HIDE DEF log
  <2>3. d \in Diagnostics(log)
    BY DEF log
  <2>4. n \in DOMAIN log /\ Scores(log)[n] >= Scores(log)[d]
    BY <2>1, <2>2, <2>3, KeptByScore
  <2>5. Scores(log)[d] >= 32 /\ d \in DOMAIN log
    BY <2>1, <2>3, DiagnosticFacts
  <2>6. Scores(log)[d] \in 0 .. 100 /\ Scores(log)[n] \in 0 .. 100
    BY <2>1, <2>4, <2>5, ScoreFacts
  <2>7. Scores(log)[n] >= 32
    BY <2>4, <2>5, <2>6
  <2>8. QED
    BY <2>7 DEF log
<1>2. QED
  BY <1>1, PipeAlways, PTL

\* Where a line that is no error has found room, so have the first and the last
\* error and the first and the last failure (log_stripper.rs,
\* select_with_first_last).
THEOREM ErrorEndsSpared == Spec => []ErrorEndsKept
<1>1. PipeInv => ErrorEndsKept
  <2> SUFFICES ASSUME PipeInv, NEW i \in DOMAIN out, By(i, "log_stripper"),
                      NEW n \in Result(i).kept, Scores(Lines(i))[n] < 100,
                      NEW level \in {"Error", "Fail"}, AtLevel(Lines(i), level) # {},
                      NEW e \in {Min(AtLevel(Lines(i), level)), Max(AtLevel(Lines(i), level))},
                      e \notin Result(i).kept
               PROVE  FALSE
    BY DEF ErrorEndsKept
  <2> DEFINE log == Lines(i)
             lines == AtLevel(log, level)
  <2>1. /\ IsSeq(log) /\ \A m \in DOMAIN log : log[m].level \in DOMAIN LevelScore
        /\ \E k \in Nat : Result(i) = CompressLog(log, k, config.hint)
    BY StrippedFacts
  <2>2. PICK k \in Nat : Result(i) = CompressLog(log, k, config.hint)
    BY <2>1
  <2>3. lines # {} /\ e \in {Min(lines), Max(lines)} /\ Scores(log)[n] < 100
    OBVIOUS
  <2> HIDE DEF log
  <2>4. Len(log) \in Nat /\ lines \in SUBSET (1 .. Len(log))
    BY <2>1, SeqIs DEF AtLevel
  <2>5. e \in lines /\ e \in SelectWithFirstLast(lines, Scores(log))
    <3> HIDE DEF lines
    <3>1. QED
      BY <2>3, <2>4, SelectEnds
  <2>6. e \in Diagnostics(log)
    BY <2>5 DEF Diagnostics
  <2>7. n \in DOMAIN log /\ Scores(log)[n] >= Scores(log)[e]
    BY <2>1, <2>2, <2>6, KeptByScore
  <2>8. e \in DOMAIN log /\ log[e].level \in {"Error", "Fail"}
    BY <2>5 DEF AtLevel
  <2>9. Scores(log)[e] = 100 /\ Scores(log)[n] \in 0 .. 100
    BY <2>1, <2>7, <2>8, ScoreFacts
  <2>10. QED
    BY <2>3, <2>7, <2>9
<1>2. QED
  BY <1>1, PipeAlways, PTL
-----------------------------------------------------------------------------
(* Samples *)

\* A sum of naturals is one.
LEMMA TotalFacts ==
  ASSUME NEW xs, IsSeq(xs), \A i \in DOMAIN xs : xs[i] \in Nat
  PROVE  Total(xs) \in Nat
<1> DEFINE N == Len(xs)
           Rec(g) == [n \in 0 .. N |-> IF n = 0 THEN 0 ELSE g[n - 1] + xs[n]]
           h == CHOOSE g : g = Rec(g)
<1>1. N \in Nat /\ \A n \in 1 .. N : xs[n] \in Nat
  BY SeqIs
<1>2. \E step \in [1 .. N -> [Nat -> Nat]] :
        \A n \in 1 .. N : \A acc \in Nat : step[n][acc] = acc + xs[n]
  <2> DEFINE step == [n \in 1 .. N |-> [acc \in Nat |-> acc + xs[n]]]
  <2> HIDE DEF N
  <2>1. step \in [1 .. N -> [Nat -> Nat]]
    BY <1>1
  <2>2. \A n \in 1 .. N : \A acc \in Nat : step[n][acc] = acc + xs[n]
    OBVIOUS
  <2> HIDE DEF step
  <2>3. QED
    BY <2>1, <2>2
<1>3. \E g : g = Rec(g)
  <2> HIDE DEF N
  <2>1. PICK step \in [1 .. N -> [Nat -> Nat]] :
          \A n \in 1 .. N : \A acc \in Nat : step[n][acc] = acc + xs[n]
    BY <1>2
  <2>2. \E g \in [0 .. N -> Nat] : Iterated(g, 0, step, N)
    BY <1>1, <2>1, Iterates
  <2>3. PICK g \in [0 .. N -> Nat] : g[0] = 0 /\ \A n \in 1 .. N : g[n] = step[n][g[n - 1]]
    BY <2>2 DEF Iterated
  <2>4. ASSUME NEW n \in 0 .. N PROVE g[n] = Rec(g)[n]
    <3>1. CASE n = 0
      BY <2>3, <3>1
    <3>2. CASE n # 0
      <4>1. n \in 1 .. N /\ n - 1 \in 0 .. N
        BY <1>1, <3>2
      <4>2. g[n - 1] \in Nat
        BY <4>1
      <4>3. QED
        BY <2>1, <2>3, <3>2, <4>1, <4>2
    <3>3. QED
      BY <3>1, <3>2
  <2>5. g = [n \in 0 .. N |-> g[n]] /\ Rec(g) = [n \in 0 .. N |-> Rec(g)[n]]
    OBVIOUS
  <2> HIDE DEF Rec
  <2>6. g = Rec(g)
    BY <2>4, <2>5
  <2>7. QED
    BY <2>6
<1>4. h = Rec(h)
  <2> HIDE DEF Rec
  <2>1. QED
    BY <1>3
<1>5. h[N] \in Nat
  <2> HIDE DEF h, N
  <2>1. h[0] = 0
    BY <1>1, <1>4
  <2>2. ASSUME NEW n \in 1 .. N, h[n - 1] \in Nat PROVE h[n] \in Nat
    <3>1. n \in 0 .. N /\ n # 0
      BY <1>1
    <3>2. h[n] = h[n - 1] + xs[n]
      BY <1>4, <3>1
    <3>3. QED
      BY <1>1, <2>2, <3>2
  <2> HIDE DEF Rec
  <2>3. h[0] \in Nat
    BY <2>1
  <2>4. \A n \in 0 .. N : h[n] \in Nat
    BY <1>1, <2>2, <2>3, IteratesIn
  <2>5. QED
    BY <1>1, <2>4
<1>6. Total(xs) = h[N]
  BY DEF Total
<1>7. QED
  BY <1>5, <1>6

\* What Fill makes of a set at position i.
FillStep(n, k, kept, top, value, acc, i) ==
  IF \/ i \notin Strided(n, k - Cardinality(kept))
     \/ Cardinality(acc) >= top
     \/ \E j \in acc : value[j] = value[i]
  THEN acc ELSE acc \cup {i}

\* Filling up a set of positions takes none away.
LEMMA FillFacts ==
  ASSUME NEW n \in Nat, NEW kept \in SUBSET (1 .. n), NEW k, NEW top, NEW value
  PROVE  kept \subseteq Fill(kept, n, k, top, value) /\ Fill(kept, n, k, top, value) \subseteq 1 .. n
<1> DEFINE D == {s \in SUBSET (1 .. n) : kept \subseteq s}
           Step(acc, i) == FillStep(n, k, kept, top, value, acc, i)
           Rec(g) == [i \in 0 .. n |-> IF i = 0 THEN kept ELSE Step(g[i - 1], i)]
           h == CHOOSE g : g = Rec(g)
<1>1. kept \in D
  OBVIOUS
<1>2. \A i \in 1 .. n : \A acc \in D : Step(acc, i) \in D
  BY DEF FillStep
<1>3. Fill(kept, n, k, top, value) \in {kept, h[n]}
  BY DEF Fill, FillStep
<1> HIDE DEF D, Step
<1>4. \E step \in [1 .. n -> [D -> D]] :
        \A i \in 1 .. n : \A acc \in D : step[i][acc] = Step(acc, i)
  <2> DEFINE step == [i \in 1 .. n |-> [acc \in D |-> Step(acc, i)]]
  <2>1. step \in [1 .. n -> [D -> D]]
    BY <1>2
  <2>2. \A i \in 1 .. n : \A acc \in D : step[i][acc] = Step(acc, i)
    OBVIOUS
  <2> HIDE DEF step
  <2>3. QED
    BY <2>1, <2>2
<1>5. \E g : g = Rec(g)
  <2>1. PICK step \in [1 .. n -> [D -> D]] :
          \A i \in 1 .. n : \A acc \in D : step[i][acc] = Step(acc, i)
    BY <1>4
  <2>2. \E g \in [0 .. n -> D] : Iterated(g, kept, step, n)
    BY <1>1, <2>1, Iterates
  <2>3. PICK g \in [0 .. n -> D] : g[0] = kept /\ \A i \in 1 .. n : g[i] = step[i][g[i - 1]]
    BY <2>2 DEF Iterated
  <2>4. ASSUME NEW i \in 0 .. n PROVE g[i] = Rec(g)[i]
    <3>1. CASE i = 0
      BY <2>3, <3>1
    <3>2. CASE i # 0
      <4>1. i \in 1 .. n /\ i - 1 \in 0 .. n
        BY <3>2
      <4>2. g[i - 1] \in D
        BY <4>1
      <4>3. QED
        BY <2>1, <2>3, <3>2, <4>1, <4>2
    <3>3. QED
      BY <3>1, <3>2
  <2>5. g = [i \in 0 .. n |-> g[i]] /\ Rec(g) = [i \in 0 .. n |-> Rec(g)[i]]
    OBVIOUS
  <2> HIDE DEF Rec
  <2>6. g = Rec(g)
    BY <2>4, <2>5
  <2>7. QED
    BY <2>6
<1>6. h = Rec(h)
  <2> HIDE DEF Rec
  <2>1. QED
    BY <1>5
<1>7. h[n] \in D
  <2> HIDE DEF h
  <2>1. h[0] = kept
    BY <1>6
  <2>2. ASSUME NEW i \in 1 .. n, h[i - 1] \in D PROVE h[i] \in D
    <3>1. i \in 0 .. n /\ i # 0
      OBVIOUS
    <3>2. h[i] = Step(h[i - 1], i)
      BY <1>6, <3>1
    <3>3. QED
      BY <1>2, <2>2, <3>2
  <2> HIDE DEF Rec
  <2>3. \A i \in 0 .. n : h[i] \in D
    BY <1>1, <2>1, <2>2, IteratesIn
  <2>4. QED
    BY <2>3
<1>8. QED
  BY <1>1, <1>3, <1>7 DEF D

\* What Length reads on one level of a value, after those above.
OwnLength(w) == IF w.t = "str" THEN w.len ELSE 1

ReadStep(above) ==
  LET level == FlattenSeq([i \in DOMAIN above.level |-> Children(above.level[i])])
  IN  [level  |-> level,
       length |-> above.length + Total([i \in DOMAIN level |-> OwnLength(level[i])])]

\* The next level is one of values that are in the same value.
LEMMA ReadStepFacts ==
  ASSUME NEW v, IsJson(v), NEW acc \in [level : Seq(Within(v)), length : Nat]
  PROVE  ReadStep(acc) \in [level : Seq(Within(v)), length : Nat]
<1> DEFINE s == acc.level
           cs == [i \in DOMAIN s |-> Children(s[i])]
           level == FlattenSeq(cs)
           own == [i \in DOMAIN level |-> OwnLength(level[i])]
<1>1. /\ s \in Seq(Within(v)) /\ acc.length \in Nat
      /\ Len(s) \in Nat /\ DOMAIN s = 1 .. Len(s)
      /\ \A i \in DOMAIN s : s[i] \in Within(v)
  <2>1. s \in Seq(Within(v)) /\ acc.length \in Nat
    OBVIOUS
  <2>2. QED
    BY <2>1, LenProperties, ElementOfSeq
<1>2. \A i \in DOMAIN s : IsSeq(cs[i]) /\ Range(cs[i]) \subseteq Within(v)
  BY <1>1 DEF IsJson
<1>3. IsSeq(cs) /\ DOMAIN cs = DOMAIN s
  <2> DEFINE n == Len(s)
  <2>1. n \in Nat /\ DOMAIN cs = 1 .. n /\ cs = [i \in 1 .. n |-> cs[i]]
    BY <1>1
  <2> HIDE DEF n, cs, s
  <2>2. cs \in [1 .. n -> Range(cs)]
    BY <2>1 DEF Range
  <2>3. IsSeq(cs)
    BY <2>1, <2>2, FcnIsSeq, SeqFacts
  <2>4. QED
    BY <2>3 DEF cs
<1> HIDE DEF cs, s
<1>4. IsSeq(level) /\ Range(level) \subseteq Within(v)
  <2>1. /\ IsSeq(level)
        /\ \A x : x \in Range(level) <=> \E i \in DOMAIN cs : x \in Range(cs[i])
    BY <1>2, <1>3, FlatSeqs
  <2>2. QED
    BY <1>2, <1>3, <2>1
<1> HIDE DEF level
<1>5. /\ level \in Seq(Within(v)) /\ Len(level) \in Nat /\ DOMAIN level = 1 .. Len(level)
      /\ \A i \in DOMAIN level : level[i] \in Within(v)
  <2>1. level \in Seq(Within(v))
    BY <1>4, SeqOver
  <2>2. QED
    BY <2>1, LenProperties, ElementOfSeq
<1>6. \A i \in DOMAIN own : own[i] \in Nat
  BY <1>5 DEF IsJson, OwnLength
<1>7. IsSeq(own)
  <2> DEFINE n == Len(level)
  <2>1. n \in Nat /\ own \in [1 .. n -> Nat]
    BY <1>5, <1>6
  <2> HIDE DEF n, own
  <2>2. QED
    BY <2>1, FcnIsSeq, SeqFacts
<1>8. Total(own) \in Nat
  <2> HIDE DEF own
  <2>1. QED
    BY <1>6, <1>7, TotalFacts
<1>9. ReadStep(acc) = [level |-> level, length |-> acc.length + Total(own)]
  BY DEF ReadStep, own, level, cs, s
<1> HIDE DEF own
<1>10. acc.length + Total(own) \in Nat
  BY <1>1, <1>8
<1>11. QED
  BY <1>5, <1>9, <1>10

\* The length of a value is a natural.
LEMMA LengthFacts ==
  ASSUME NEW v, IsJson(v), NEW w \in Within(v)
  PROVE  Length(w) \in Nat
<1> DEFINE N == Nesting
           D == [level : Seq(Within(v)), length : Nat]
           a == [level |-> <<w>>, length |-> OwnLength(w)]
           Rec(g) == [n \in 0 .. N |-> IF n = 0 THEN a ELSE ReadStep(g[n - 1])]
           h == CHOOSE g : g = Rec(g)
<1>1. N \in Nat
  BY CrusherAssumption
<1>2. a \in D
  BY DEF IsJson, OwnLength
<1>3. \E step \in [1 .. N -> [D -> D]] :
        \A n \in 1 .. N : \A acc \in D : step[n][acc] = ReadStep(acc)
  <2> DEFINE step == [n \in 1 .. N |-> [acc \in D |-> ReadStep(acc)]]
  <2> HIDE DEF D
  <2>1. \A acc \in D : ReadStep(acc) \in D
    BY ReadStepFacts DEF D
  <2>2. step \in [1 .. N -> [D -> D]]
    BY <2>1
  <2>3. \A n \in 1 .. N : \A acc \in D : step[n][acc] = ReadStep(acc)
    OBVIOUS
  <2> HIDE DEF step
  <2>4. QED
    BY <2>2, <2>3
<1>4. \E g : g = Rec(g)
  <2> HIDE DEF D, N, a
  <2>1. PICK step \in [1 .. N -> [D -> D]] :
          \A n \in 1 .. N : \A acc \in D : step[n][acc] = ReadStep(acc)
    BY <1>3
  <2>2. \E g \in [0 .. N -> D] : Iterated(g, a, step, N)
    BY <1>1, <1>2, <2>1, Iterates
  <2>3. PICK g \in [0 .. N -> D] : g[0] = a /\ \A n \in 1 .. N : g[n] = step[n][g[n - 1]]
    BY <2>2 DEF Iterated
  <2>4. ASSUME NEW n \in 0 .. N PROVE g[n] = Rec(g)[n]
    <3>1. CASE n = 0
      BY <2>3, <3>1
    <3>2. CASE n # 0
      <4>1. n \in 1 .. N /\ n - 1 \in 0 .. N
        BY <1>1, <3>2
      <4>2. g[n - 1] \in D
        BY <4>1
      <4>3. QED
        BY <2>1, <2>3, <3>2, <4>1, <4>2
    <3>3. QED
      BY <3>1, <3>2
  <2>5. g = [n \in 0 .. N |-> g[n]] /\ Rec(g) = [n \in 0 .. N |-> Rec(g)[n]]
    OBVIOUS
  <2> HIDE DEF Rec
  <2>6. g = Rec(g)
    BY <2>4, <2>5
  <2>7. QED
    BY <2>6
<1>5. h = Rec(h)
  <2> HIDE DEF Rec
  <2>1. QED
    BY <1>4
<1>6. h[N] \in D
  <2> HIDE DEF h, D, N, a
  <2>1. h[0] = a
    BY <1>1, <1>5
  <2>2. ASSUME NEW n \in 1 .. N, h[n - 1] \in D PROVE h[n] \in D
    <3>1. n \in 0 .. N /\ n # 0
      BY <1>1
    <3>2. h[n] = ReadStep(h[n - 1])
      BY <1>5, <3>1
    <3>3. QED
      BY <2>2, <3>2, ReadStepFacts DEF D
  <2> HIDE DEF Rec
  <2>3. \A n \in 0 .. N : h[n] \in D
    BY <1>1, <1>2, <2>1, <2>2, IteratesIn
  <2>4. QED
    BY <1>1, <2>3
<1>7. Length(w) = h[N].length
  BY DEF Length, ReadStep, OwnLength
<1> HIDE DEF h, N, a, Rec
<1>8. QED
  BY <1>6, <1>7

\* A sample of records holds one of them if there is one, and no more than k
\* when there are more.
LEMMA RecordsFacts ==
  ASSUME NEW v, IsJson(v), NEW items, IsSeq(items), Range(items) \subseteq Within(v),
         NEW k \in Nat \ {0}, NEW hint
  PROVE  /\ CrushRecords(items, k, hint) \subseteq DOMAIN items
         /\ Len(items) # 0 => CrushRecords(items, k, hint) # {}
         /\ Len(items) > k => /\ Cardinality(CrushRecords(items, k, hint)) \in Nat
                              /\ Cardinality(CrushRecords(items, k, hint)) <= k
<1> DEFINE n == Len(items)
           first == (k * FirstPercent) \div 100
           last == (k * LastPercent) \div 100
           middle == k - (first + last)
           hits(i) == IF hint /\ Hits(items[i]) THEN 1 ELSE 0
           rec(i) == [at |-> i, length |-> Length(items[i]), hits |-> hits(i)]
           records == {rec(i) : i \in 1 .. n}
           ahead == [a \in records |-> {b \in records : Better(b, a)}]
           best == {a \in records : Cardinality(ahead[a]) < middle}
           ends == {i \in 1 .. n : i <= first \/ i > n - last}
           spots == {a.at : a \in best}
           kept == CrushRecords(items, k, hint)
<1>1. n \in Nat /\ DOMAIN items = 1 .. n
  BY SeqIs
<1>2. \A i \in 1 .. n : Length(items[i]) \in Nat
  <2>1. \A i \in 1 .. n : items[i] \in Within(v)
    BY <1>1 DEF Range
  <2>2. QED
    BY <2>1, LengthFacts
<1>3. kept = IF n <= k THEN 1 .. n ELSE ends \cup spots
  BY DEF CrushRecords
<1>4. /\ first \in Nat /\ last \in Nat /\ middle \in Nat /\ first + last + middle = k
  <2>1. /\ FirstPercent \in Nat /\ LastPercent \in Nat /\ FirstPercent + LastPercent <= 100
        /\ k \in Nat
    BY CrusherAssumption
  <2> DEFINE x == k * FirstPercent
             y == k * LastPercent
  <2>2. x \in Nat /\ y \in Nat
    BY <2>1
  <2>3. x + y = k * (FirstPercent + LastPercent)
    BY <2>1
  <2>4. k * (FirstPercent + LastPercent) <= k * 100
    BY <2>1
  <2>5. x + y <= k * 100
    BY <2>3, <2>4
  <2> HIDE DEF x, y
  <2>6. \A z \in Nat : z \div 100 \in Nat /\ 100 * (z \div 100) <= z
    OBVIOUS
  <2>7. /\ x \div 100 \in Nat /\ y \div 100 \in Nat
        /\ 100 * (x \div 100) <= x /\ 100 * (y \div 100) <= y
    BY <2>2, <2>6
  <2>8. first = x \div 100 /\ last = y \div 100
    BY DEF x, y
  <2> HIDE DEF first, last
  <2>9. first + last <= k
    BY <2>1, <2>2, <2>5, <2>7, <2>8
  <2>10. QED
    BY <2>1, <2>7, <2>8, <2>9
<1> HIDE DEF first, last, middle
<1>5. \A i \in 1 .. n : rec(i).at = i /\ rec(i).length \in Nat /\ rec(i).hits \in Nat
  BY <1>2
<1>6. \A a \in records : a.at \in 1 .. n /\ a.length \in Nat /\ a.hits \in Nat /\ a = rec(a.at)
  BY <1>5
<1> HIDE DEF rec
<1>7. IsFiniteSet(records)
  <2> DEFINE f == [i \in 1 .. n |-> rec(i)]
  <2>1. IsFiniteSet(1 .. n)
    BY <1>1, FS_Interval
  <2>2. IsFiniteSet({f[i] : i \in DOMAIN f})
    BY <2>1, FiniteImage
  <2>3. records = {f[i] : i \in DOMAIN f}
    OBVIOUS
  <2>4. QED
    BY <2>2, <2>3
<1> HIDE DEF records
<1>8. StrictOrder(records, ahead)
  <2>1. ahead \in [records -> SUBSET records]
    OBVIOUS
  <2>2. ASSUME NEW x \in records PROVE ~Better(x, x)
    BY <1>6 DEF Better
  <2>3. ASSUME NEW x \in records, NEW y \in records, x # y PROVE Better(x, y) \/ Better(y, x)
    <3>1. x.at # y.at
      BY <1>6, <2>3
    <3>2. QED
      BY <1>1, <1>6, <3>1 DEF Better
  <2>4. ASSUME NEW x \in records, NEW y \in records, NEW z \in records, Better(x, y), Better(y, z)
        PROVE  Better(x, z)
    <3>1. /\ x.hits \in Nat /\ y.hits \in Nat /\ z.hits \in Nat
          /\ x.length \in Nat /\ y.length \in Nat /\ z.length \in Nat
          /\ x.at \in Int /\ y.at \in Int /\ z.at \in Int
      BY <1>6
    <3> HIDE DEF records
    <3>2. QED
      BY <2>4, <3>1 DEF Better
  <2>5. QED
    BY <2>1, <2>2, <2>3, <2>4 DEF StrictOrder
<1> HIDE DEF ahead
<1>9. /\ Cardinality(records) \in Nat
      /\ \A x \in records : Cardinality(ahead[x]) \in 0 .. Cardinality(records) - 1
      /\ \A x, y \in records : Cardinality(ahead[x]) = Cardinality(ahead[y]) => x = y
      /\ \A m \in 1 .. Cardinality(records) : \E x \in records : Cardinality(ahead[x]) = m - 1
  BY <1>7, <1>8, OrderFacts
<1>10. IsFiniteSet(best) /\ Cardinality(best) <= middle
  <2> DEFINE rank == [a \in records |-> Cardinality(ahead[a])]
  <2>1. /\ \A x \in records : rank[x] \in Nat
        /\ \A x, y \in records : rank[x] = rank[y] => x = y
    BY <1>9
  <2>2. best = {a \in records : rank[a] < middle}
    OBVIOUS
  <2> HIDE DEF rank, best
  <2>3. /\ IsFiniteSet({a \in records : rank[a] < middle})
        /\ Cardinality({a \in records : rank[a] < middle}) <= middle
    BY <1>4, <2>1, FewAhead
  <2>4. QED
    BY <2>2, <2>3
<1>11. best \subseteq records
  OBVIOUS
<1>12. middle # 0 /\ n # 0 => best # {}
  <2> SUFFICES ASSUME middle # 0, n # 0 PROVE best # {}
    OBVIOUS
  <2>1. 1 \in 1 .. n
    BY <1>1
  <2>2. records # {}
    BY <2>1 DEF records
  <2>3. Cardinality(records) # 0
    BY <1>7, <2>2, FS_EmptySet
  <2>4. 1 \in 1 .. Cardinality(records) /\ 1 - 1 = 0
    BY <1>9, <2>3
  <2>5. PICK x \in records : Cardinality(ahead[x]) = 0
    BY <1>9, <2>4
  <2>6. 0 < middle
    BY <1>4
  <2>7. QED
    BY <2>5, <2>6
<1> HIDE DEF best
<1>13. IsFiniteSet(spots) /\ Cardinality(spots) <= Cardinality(best) /\ spots \subseteq 1 .. n
  <2> DEFINE f == [a \in best |-> a.at]
  <2>1. f \in Surjection(best, spots)
    BY DEF Surjection
  <2>2. spots \subseteq 1 .. n
    BY <1>6, <1>11
  <2> HIDE DEF f, spots
  <2>3. QED
    BY <1>10, <2>1, <2>2, FS_Surjection
<1>14. kept \subseteq 1 .. n
  BY <1>3, <1>13
<1>15. ASSUME n # 0 PROVE kept # {}
  <2>1. 1 \in 1 .. n /\ n \in 1 .. n
    BY <1>1, <1>15
  <2>2. CASE n <= k
    BY <1>3, <2>1, <2>2
  <2>3. CASE ~(n <= k) /\ first # 0
    <3>1. 1 \in ends
      BY <1>4, <2>1, <2>3
    <3>2. QED
      BY <1>3, <2>3, <3>1
  <2>4. CASE ~(n <= k) /\ last # 0
    <3>1. n \in ends
      BY <1>1, <1>4, <2>1, <2>4
    <3>2. QED
      BY <1>3, <2>4, <3>1
  <2>5. CASE ~(n <= k) /\ first = 0 /\ last = 0
    <3>1. middle # 0
      BY <1>4, <2>5
    <3>2. PICK a : a \in best
      BY <1>12, <1>15, <3>1
    <3>3. a.at \in spots
      BY <3>2
    <3>4. QED
      BY <1>3, <2>5, <3>3
  <2>6. QED
    BY <2>2, <2>3, <2>4, <2>5
<1>16. ASSUME n > k PROVE Cardinality(kept) \in Nat /\ Cardinality(kept) <= k
  <2> DEFINE low == 1 .. first
             high == (n - last) + 1 .. n
             all == (low \cup high) \cup spots
  <2>1. /\ IsFiniteSet(low) /\ Cardinality(low) <= first
        /\ IsFiniteSet(high) /\ Cardinality(high) <= last
    <3>1. n - last \in Int /\ (n - last) + 1 \in Int /\ first \in Int /\ 1 \in Int /\ n \in Int
      BY <1>1, <1>4
    <3>2. IsFiniteSet(low) /\ Cardinality(low) = IF 1 > first THEN 0 ELSE (first - 1) + 1
      BY <3>1, FS_Interval
    <3>3. /\ IsFiniteSet(high)
          /\ Cardinality(high) = IF (n - last) + 1 > n THEN 0 ELSE (n - ((n - last) + 1)) + 1
      BY <3>1, FS_Interval
    <3> HIDE DEF low, high
    <3>4. QED
      BY <1>1, <1>4, <3>2, <3>3
  <2>2. ends \subseteq low \cup high
    BY <1>1, <1>4
  <2>3. ~(n <= k)
    BY <1>1, <1>16
  <2>4. kept \in SUBSET all
    BY <1>3, <2>2, <2>3
  <2> HIDE DEF low, high, kept, spots
  <2>5. IsFiniteSet(low \cup high) /\ Cardinality(low \cup high) <= first + last
    <3>1. /\ IsFiniteSet(low \cup high)
          /\ Cardinality(low \cup high) =
               Cardinality(low) + Cardinality(high) - Cardinality(low \cap high)
      BY <2>1, FS_Union
    <3>2. IsFiniteSet(low \cap high)
      BY <2>1, FS_Intersection
    <3>3. /\ Cardinality(low) \in Nat /\ Cardinality(high) \in Nat
          /\ Cardinality(low \cap high) \in Nat
      BY <2>1, <3>2, FS_CardinalityType
    <3>4. QED
      BY <1>4, <2>1, <3>1, <3>3
  <2>6. IsFiniteSet(all) /\ Cardinality(all) <= (first + last) + middle
    <3> DEFINE both == low \cup high
    <3> HIDE DEF both
    <3>1. IsFiniteSet(both) /\ Cardinality(both) <= first + last
      BY <2>5 DEF both
    <3>2. /\ IsFiniteSet(both \cup spots)
          /\ Cardinality(both \cup spots) =
               Cardinality(both) + Cardinality(spots) - Cardinality(both \cap spots)
      BY <1>13, <3>1, FS_Union
    <3>3. IsFiniteSet(both \cap spots)
      BY <3>1, FS_Intersection
    <3>4. /\ Cardinality(both) \in Nat /\ Cardinality(spots) \in Nat
          /\ Cardinality(both \cap spots) \in Nat /\ Cardinality(best) \in Nat
      BY <1>10, <1>13, <3>1, <3>3, FS_CardinalityType
    <3>5. all = both \cup spots
      BY DEF both
    <3> HIDE DEF all
    <3>6. QED
      BY <1>4, <1>10, <1>13, <3>1, <3>2, <3>4, <3>5
  <2> HIDE DEF all
  <2>7. IsFiniteSet(kept) /\ Cardinality(kept) <= Cardinality(all)
    BY <2>4, <2>6, FS_Subset
  <2>8. Cardinality(kept) \in Nat /\ Cardinality(all) \in Nat
    BY <2>6, <2>7, FS_CardinalityType
  <2>9. QED
    BY <1>4, <2>6, <2>7, <2>8
<1>17. QED
  BY <1>1, <1>14, <1>15, <1>16
-----------------------------------------------------------------------------
(* What is left of a JSON value *)

\* More steps reach more.
LEMMA ReachedGrows ==
  ASSUME NEW v, NEW all, NEW n \in 0 .. Nesting
  PROVE  v \in Reached(v, all)[n] /\ Reached(v, all)[n] \subseteq Spread(v, all)
<1> DEFINE g == Reached(v, all)
           G == {k \in Nat : k <= Nesting => v \in g[k]}
           H == {k \in Nat : k <= Nesting => g[Nesting - k] \subseteq Spread(v, all)}
<1>1. Nesting \in Nat
  BY CrusherAssumption
<1>2. /\ Spread(v, all) = g[Nesting] /\ g[0] = {v}
      /\ \A m \in 1 .. Nesting :
           g[m] = g[m - 1] \cup UNION {Parts(w, all) : w \in g[m - 1]}
  BY ReachedSteps
<1> HIDE DEF g
<1>3. 0 \in G /\ 0 \in H
  BY <1>1, <1>2
<1>4. ASSUME NEW k \in G PROVE k + 1 \in G
  <2> SUFFICES ASSUME k + 1 <= Nesting PROVE v \in g[k + 1]
    OBVIOUS
  <2>1. k \in Nat /\ k <= Nesting /\ k + 1 \in 1 .. Nesting /\ (k + 1) - 1 = k
    BY <1>1
  <2>2. v \in g[k]
    BY <2>1
  <2>3. QED
    BY <1>2, <2>1, <2>2
<1>5. ASSUME NEW k \in H PROVE k + 1 \in H
  <2> SUFFICES ASSUME k + 1 <= Nesting PROVE g[Nesting - (k + 1)] \subseteq Spread(v, all)
    OBVIOUS
  <2>1. /\ k \in Nat /\ k <= Nesting /\ Nesting - k \in 1 .. Nesting
        /\ (Nesting - k) - 1 = Nesting - (k + 1)
    BY <1>1
  <2>2. g[Nesting - k] \subseteq Spread(v, all)
    BY <2>1
  <2>3. g[(Nesting - k) - 1] \subseteq g[Nesting - k]
    BY <1>2, <2>1
  <2>4. QED
    BY <2>1, <2>2, <2>3
<1>6. G \in SUBSET Nat /\ H \in SUBSET Nat
  OBVIOUS
<1>7. n \in G /\ Nesting - n \in H
  <2> HIDE DEF G, H
  <2>1. n \in Nat /\ Nesting - n \in Nat
    BY <1>1
  <2>2. QED
    BY <1>3, <1>4, <1>5, <1>6, <2>1, FromZero
<1>8. n <= Nesting /\ Nesting - n <= Nesting /\ Nesting - (Nesting - n) = n
  BY <1>1
<1>9. QED
  BY <1>7, <1>8 DEF g

\* One step further: the value, and what is reached from those directly in it.
LEMMA ReachedTop ==
  ASSUME NEW v, NEW all, NEW n \in 1 .. Nesting
  PROVE  \A u : u \in Reached(v, all)[n] <=>
                  u = v \/ \E c \in Parts(v, all) : u \in Reached(c, all)[n - 1]
<1> DEFINE In(u, k) == u = v \/ \E c \in Parts(v, all) : u \in Reached(c, all)[k]
           G == {k \in Nat : k + 1 <= Nesting => \A u : u \in Reached(v, all)[k + 1] <=> In(u, k)}
<1>1. Nesting \in Nat
  BY CrusherAssumption
<1>2. 0 \in G
  <2> SUFFICES ASSUME 1 <= Nesting, NEW u PROVE u \in Reached(v, all)[1] <=> In(u, 0)
    OBVIOUS
  <2>1. 1 \in 1 .. Nesting /\ 1 - 1 = 0
    BY <1>1
  <2>2. Reached(v, all)[1] = Reached(v, all)[0] \cup UNION {Parts(w, all) : w \in Reached(v, all)[0]}
    BY <2>1, ReachedSteps
  <2>3. Reached(v, all)[0] = {v} /\ \A c : Reached(c, all)[0] = {c}
    BY ReachedSteps
  <2>4. QED
    BY <2>2, <2>3
<1>3. ASSUME NEW k \in G PROVE k + 1 \in G
  <2> SUFFICES ASSUME (k + 1) + 1 <= Nesting, NEW u
               PROVE  u \in Reached(v, all)[(k + 1) + 1] <=> In(u, k + 1)
    OBVIOUS
  <2>1. /\ k \in Nat /\ k + 1 <= Nesting /\ k + 1 \in 1 .. Nesting /\ k + 1 \in 0 .. Nesting
        /\ (k + 1) - 1 = k /\ (k + 1) + 1 \in 1 .. Nesting /\ ((k + 1) + 1) - 1 = k + 1
        /\ k \in 0 .. Nesting
    BY <1>1
  <2>2. \A x : x \in Reached(v, all)[k + 1] <=> In(x, k)
    BY <2>1
  <2>3. u \in Reached(v, all)[(k + 1) + 1] <=>
          u \in Reached(v, all)[k + 1] \/ \E w \in Reached(v, all)[k + 1] : u \in Parts(w, all)
    BY <2>1, ReachedSteps
  <2>4. \A c : u \in Reached(c, all)[k + 1] <=>
          u \in Reached(c, all)[k] \/ \E w \in Reached(c, all)[k] : u \in Parts(w, all)
    BY <2>1, ReachedSteps
  <2>5. \A c : c \in Reached(c, all)[k + 1]
    BY <2>1, ReachedGrows
  <2>6. QED
    BY <2>2, <2>3, <2>4, <2>5
<1>4. G \in SUBSET Nat
  OBVIOUS
<1>5. n - 1 \in G
  <2> HIDE DEF G
  <2>1. n - 1 \in Nat
    BY <1>1
  <2>2. QED
    BY <1>2, <1>3, <1>4, <2>1, FromZero
<1>6. (n - 1) + 1 = n /\ n <= Nesting
  BY <1>1
<1>7. QED
  BY <1>5, <1>6

\* What is within a value is the value or within one that is directly in it.
LEMMA WithinTop ==
  ASSUME NEW v, NEW u \in Within(v)
  PROVE  u = v \/ \E c \in Range(Children(v)) : u \in Within(c)
<1>1. Nesting \in Nat
  BY CrusherAssumption
<1>2. u \in Reached(v, TRUE)[Nesting]
  BY ReachedSteps, PartsFacts
<1>3. CASE Nesting = 0
  <2>1. Reached(v, TRUE)[0] = {v}
    BY ReachedSteps, PartsFacts
  <2>2. QED
    BY <1>2, <1>3, <2>1
<1>4. CASE Nesting # 0
  <2>1. Nesting \in 1 .. Nesting /\ Nesting - 1 \in 0 .. Nesting
    BY <1>1, <1>4
  <2>2. u = v \/ \E c \in Range(Children(v)) : u \in Reached(c, TRUE)[Nesting - 1]
    BY <1>2, <2>1, ReachedTop, PartsFacts
  <2>3. \A c : Reached(c, TRUE)[Nesting - 1] \subseteq Within(c)
    <3>1. \A c : Reached(c, TRUE)[Nesting - 1] \subseteq Spread(c, TRUE)
      BY <2>1, ReachedGrows
    <3>2. QED
      BY <3>1, PartsFacts
  <2>4. QED
    BY <2>2, <2>3
<1>5. QED
  BY <1>3, <1>4

\* What is within a part of a JSON value is within the value.
LEMMA WithinPart ==
  ASSUME NEW v, IsJson(v), NEW w \in Within(v)
  PROVE  Within(w) \subseteq Within(v) /\ IsSeq(Children(w)) /\ Range(Children(w)) \subseteq Within(v)
<1>1. \A x \in Within(v) : Range(Children(x)) \subseteq Within(v)
  BY DEF IsJson
<1>2. Within(w) \subseteq Within(v)
  BY <1>1, WithinFacts
<1>3. QED
  BY <1>2 DEF IsJson

\* The positions that the crushers keep are positions of the items.
LEMMA SampleFacts ==
  ASSUME NEW items, IsSeq(items), NEW k, NEW hint
  PROVE  /\ CrushStrings(items, k) \subseteq DOMAIN items
         /\ CrushNumbers(items, k) \subseteq DOMAIN items
         /\ CrushFields(items, k) \subseteq DOMAIN items
         /\ CrushMixed(items, k, hint) \subseteq DOMAIN items
         /\ CrushRecords(items, k, hint) \subseteq DOMAIN items
<1> DEFINE n == Len(items)
<1>1. n \in Nat /\ DOMAIN items = 1 .. n
  BY SeqIs
<1>2. \A f : Outliers([i \in 1 .. n |-> f[i]]) \subseteq 1 .. n
  <2>1. \A f : Len([i \in 1 .. n |-> f[i]]) = n
    <3>1. ASSUME NEW f PROVE Len([i \in 1 .. n |-> f[i]]) = n
      <4> DEFINE g == [i \in 1 .. n |-> f[i]]
      <4>1. g \in [1 .. n -> {f[i] : i \in 1 .. n}]
        OBVIOUS
      <4> HIDE DEF g, n
      <4>2. Len(g) = n
        BY <1>1, <4>1, FcnIsSeq
      <4>3. QED
        BY <4>2 DEF g
    <3>2. QED
      BY <3>1
  <2>2. \A xs : Outliers(xs) \subseteq 1 .. Len(xs)
    BY DEF Outliers
  <2>3. QED
    BY <2>1, <2>2
<1>3. Ends(n, k) \subseteq 1 .. n
  BY DEF Ends
<1> HIDE DEF n
<1>4. CrushStrings(items, k) \subseteq 1 .. n
  <2> DEFINE errors == {i \in 1 .. n : items[i].err}
             lens == [i \in 1 .. n |-> items[i].len]
             odd == Outliers(lens)
             kept == (errors \cup odd) \cup Ends(n, k)
             top == k + Cardinality(errors) + Cardinality(odd)
             strs == [i \in 1 .. n |-> items[i].str]
  <2>1. CrushStrings(items, k) \in {1 .. n, Fill(kept, n, k, top, strs)}
    BY DEF CrushStrings, n
  <2>2. odd \subseteq 1 .. n
    <3>1. lens = [i \in 1 .. n |-> lens[i]]
      OBVIOUS
    <3> HIDE DEF lens
    <3>2. QED
      BY <1>2, <3>1
  <2> HIDE DEF odd
  <2>3. kept \in SUBSET (1 .. n)
    BY <1>3, <2>2
  <2> HIDE DEF kept, top, strs
  <2>4. QED
    BY <1>1, <2>1, <2>3, FillFacts
<1>5. CrushNumbers(items, k) \subseteq 1 .. n
  <2> DEFINE xs == [i \in 1 .. n |-> items[i].num]
             odd == Outliers(xs)
             kept == (odd \cup ChangePoints(xs)) \cup Ends(n, k)
             top == k + Cardinality(odd)
             all == [i \in 1 .. n |-> i]
  <2>1. CrushNumbers(items, k) \in {1 .. n, Fill(kept, n, k, top, all)}
    BY DEF CrushNumbers, n
  <2>2. xs = [i \in 1 .. n |-> xs[i]]
    OBVIOUS
  <2>3. Len(xs) = n
    <3> DEFINE R == {items[i].num : i \in 1 .. n}
    <3>1. xs \in [1 .. n -> R]
      OBVIOUS
    <3> HIDE DEF xs, R
    <3>2. QED
      BY <1>1, <3>1, FcnIsSeq
  <2> HIDE DEF xs
  <2>4. odd \subseteq 1 .. n
    BY <1>2, <2>2
  <2>5. ChangePoints(xs) \subseteq 1 .. n
    <3>1. ChangePoints(xs) \subseteq (Window + 1) .. (n - Window)
      BY <2>3 DEF ChangePoints
    <3>2. Window \in Nat
      BY CrusherAssumption
    <3>3. \A i \in (Window + 1) .. (n - Window) : i \in 1 .. n
      BY <1>1, <3>2
    <3>4. QED
      BY <3>1, <3>3
  <2> HIDE DEF odd
  <2>6. kept \in SUBSET (1 .. n)
    BY <1>3, <2>4, <2>5
  <2> HIDE DEF kept, top, all
  <2>7. QED
    BY <1>1, <2>1, <2>6, FillFacts
<1>6. CrushFields(items, k) \subseteq 1 .. n
  <2> DEFINE errors == {i \in 1 .. n : HasError(items[i])}
             small == {i \in 1 .. n : Length(items[i]) <= SmallField}
             ends == {i \in 1 .. n : \/ i <= Share(k, FirstPercent)
                                     \/ i > n - Share(k, LastPercent)}
             kept == (errors \cup small) \cup ends
             top == k + Cardinality(errors)
             all == [i \in 1 .. n |-> i]
  <2>1. CrushFields(items, k) \in {1 .. n, Fill(kept, n, k, top, all)}
    BY DEF CrushFields, n
  <2>2. kept \in SUBSET (1 .. n)
    OBVIOUS
  <2> HIDE DEF kept, top, all
  <2>3. QED
    BY <1>1, <2>1, <2>2, FillFacts
<1>7. CrushRecords(items, k, hint) \subseteq 1 .. n
  <2> DEFINE rec(i) == [at |-> i, length |-> Length(items[i]),
                        hits |-> IF hint /\ Hits(items[i]) THEN 1 ELSE 0]
             records == {rec(i) : i \in 1 .. n}
             middle == k - ((k * FirstPercent) \div 100 + (k * LastPercent) \div 100)
             best == {a \in records : Cardinality({b \in records : Better(b, a)}) < middle}
             spots == {a.at : a \in best}
  <2>1. \A a \in best : a.at \in 1 .. n
    <3>1. \A i : rec(i).at = i
      OBVIOUS
    <3>2. \A a \in best : \E i \in 1 .. n : a = rec(i)
      OBVIOUS
    <3> HIDE DEF rec, best
    <3>3. QED
      BY <3>1, <3>2
  <2>2. CrushRecords(items, k, hint) \subseteq 1 .. n \cup spots
    BY DEF CrushRecords, n
  <2> HIDE DEF best
  <2>3. QED
    BY <2>1, <2>2
<1>8. CrushMixed(items, k, hint) \subseteq 1 .. n
  <2> DEFINE at(t) == InOrder(OfType(items, t))
             group(t) == [i \in DOMAIN at(t) |-> items[at(t)[i]]]
  <2>1. ASSUME NEW t PROVE \A i \in DOMAIN at(t) : at(t)[i] \in 1 .. n
    <3> DEFINE S == OfType(items, t)
               c == Cardinality(S)
    <3>1. S \in SUBSET (1 .. n)
      BY <1>1 DEF OfType
    <3> HIDE DEF S
    <3>2. DOMAIN InOrder(S) = 1 .. c /\ InOrder(S) \in [1 .. c -> S]
      BY <1>1, <3>1, InOrderFacts
    <3> HIDE DEF c
    <3>3. \A i \in DOMAIN InOrder(S) : InOrder(S)[i] \in 1 .. n
      BY <3>1, <3>2
    <3>4. QED
      BY <3>3 DEF S
  <2>2. ASSUME NEW i \in CrushMixed(items, k, hint), i \notin DOMAIN items
        PROVE  \E t, j : j \in DOMAIN at(t) /\ i = at(t)[j]
    <3> DEFINE size(t) == SizeOf(group(t), k)
               kept(t) == CASE t = "obj" -> CrushRecords(group(t), size(t), hint)
                            [] t = "str" -> CrushStrings(group(t), size(t))
                            [] t = "num" -> MixedNumbers(group(t), size(t))
                            [] OTHER     -> DOMAIN group(t)
               picked(t) == IF Len(group(t)) < MinItems THEN DOMAIN group(t)
                            ELSE IF t = "num" THEN kept(t)
                            ELSE {j \in DOMAIN group(t) : \E m \in kept(t) : group(t)[m] = group(t)[j]}
    <3>1. CrushMixed(items, k, hint) =
            IF Len(items) <= Passthrough THEN DOMAIN items
            ELSE UNION {{at(t)[j] : j \in picked(t)} : t \in {items[x].t : x \in DOMAIN items}}
      BY DEF CrushMixed
    <3>2. ASSUME NEW t PROVE picked(t) \subseteq DOMAIN at(t)
      <4>1. DOMAIN group(t) = DOMAIN at(t)
        OBVIOUS
      <4>2. MixedNumbers(group(t), size(t)) \subseteq DOMAIN at(t)
        <5> DEFINE m == Cardinality(OfType(items, t))
                   xs == [x \in 1 .. m |-> group(t)[x].num]
        <5>1. m \in Nat /\ DOMAIN at(t) = 1 .. m
          <6>1. OfType(items, t) \in SUBSET (1 .. n)
            BY <1>1 DEF OfType
          <6>2. QED
            BY <1>1, <6>1, InOrderFacts
        <5> HIDE DEF m
        <5>2. Len(group(t)) = m
          <6> DEFINE R == Range(group(t))
                     g == group(t)
          <6>1. g \in [1 .. m -> R]
            BY <5>1 DEF Range
          <6> HIDE DEF g, R
          <6>2. Len(g) = m
            BY <5>1, <6>1, FcnIsSeq
          <6>3. QED
            BY <6>2 DEF g
        <5>3. Len(xs) = m
          <6> DEFINE R == Range(xs)
          <6>1. xs \in [1 .. m -> R]
            BY DEF Range
          <6> HIDE DEF xs, R
          <6>2. QED
            BY <5>1, <6>1, FcnIsSeq
        <5>4. MixedNumbers(group(t), size(t)) = Ends(m, size(t)) \cup Outliers(xs)
          BY <5>2 DEF MixedNumbers
        <5> HIDE DEF xs, group, size, at
        <5>5. Ends(m, size(t)) \subseteq 1 .. m /\ Outliers(xs) \subseteq 1 .. m
          BY <5>3 DEF Ends, Outliers
        <5>6. QED
          BY <5>1, <5>4, <5>5
      <4> HIDE DEF group, size, at
      <4>3. QED
        BY <4>1, <4>2
    <3> HIDE DEF picked
    <3>3. QED
      BY <2>2, <3>1, <3>2
  <2>3. QED
    BY <1>1, <2>1, <2>2
<1>9. QED
  BY <1>1, <1>4, <1>5, <1>6, <1>7, <1>8

\* The items in front of the last one.
LEMMA FrontFacts ==
  ASSUME NEW s, IsSeq(s), NEW x
  PROVE  /\ Front(Append(s, x)) = s /\ Append(s, x) # <<>>
         /\ Append(s, x)[Len(Append(s, x))] = x
<1> DEFINE a == Append(s, x)
           n == Len(s)
           T == Range(a)
           f == SubSeq(a, 1, n)
<1>1. /\ IsSeq(a) /\ Len(a) = n + 1 /\ DOMAIN a = 1 .. n + 1
      /\ (\A i \in 1 .. n : a[i] = s[i]) /\ a[n + 1] = x
  BY Appended
<1>2. n \in Nat /\ DOMAIN s = 1 .. n
  BY SeqIs
<1>3. a # <<>>
  <2> HIDE DEF a
  <2>1. QED
    BY <1>1, <1>2, EmptyIs
<1>4. a \in Seq(T)
  <2> HIDE DEF a
  <2>1. QED
    BY <1>1 DEF IsSeq
<1> HIDE DEF a, n, T
<1>5. /\ f \in Seq(T) /\ Len(f) = n + 1 - 1
      /\ \A i \in 1 .. n + 1 - 1 : f[i] = a[1 + i - 1]
  BY <1>1, <1>2, <1>4, PieceFacts
<1>6. Len(f) = n /\ DOMAIN f = 1 .. n /\ \A i \in 1 .. n : f[i] = s[i]
  <2>1. Len(f) = n
    BY <1>2, <1>5
  <2>2. DOMAIN f = 1 .. n
    BY <1>5, <2>1, SeqFacts
  <2>3. \A i \in 1 .. n : f[i] = s[i]
    <3>1. \A i \in 1 .. n : i \in 1 .. n + 1 - 1 /\ 1 + i - 1 = i
      BY <1>2
    <3>2. QED
      BY <1>1, <1>5, <3>1
  <2>4. QED
    BY <2>1, <2>2, <2>3
<1>7. f = s
  <2>1. f = [i \in 1 .. n |-> f[i]] /\ s = [i \in 1 .. n |-> s[i]]
    <3>1. f \in [1 .. Len(f) -> T] /\ s \in [1 .. Len(s) -> Range(s)]
      BY <1>5, LenProperties DEF IsSeq
    <3>2. QED
      BY <1>6, <3>1 DEF n
  <2>2. QED
    BY <1>6, <2>1
<1>8. Front(a) = f
  BY <1>1, <1>2 DEF Front
<1>9. QED
  BY <1>1, <1>3, <1>7, <1>8 DEF a, n

Dropped(items) == [t |-> "dropped", items |-> items]

\* What process_value may make of a value: the value itself; a sample of its
\* items, with a marker or without one; what has become of its items; or what
\* has become of its fields, or of some of them.
Kept(w, p) ==
  \E kept \in SUBSET DOMAIN w.items : p.value = [w EXCEPT !.items = Sub(w.items, kept)]

Cut(w, p) ==
  /\ p.saves = <<w.items>>
  /\ \E kept \in SUBSET DOMAIN w.items :
       /\ Cardinality(kept) <= MaxItems
       /\ p.value = [w EXCEPT !.items = Append(Sub(w.items, kept), Dropped(w.items))]

ItemsOf(w, results, p) ==
  p.saves = Saves(results) /\ p.value = [w EXCEPT !.items = Values(results)]

FieldsOf(w, results, p) ==
  /\ p.saves = Saves(results)
  /\ \/ p.value = [w EXCEPT !.fields = Values(results)]
     \/ \E kept \in SUBSET DOMAIN Values(results) :
          p.value = [w EXCEPT !.fields = Sub(Values(results), kept)]

\* What has become of the children, as a sequence.
LEMMA ValuesFacts ==
  ASSUME NEW results, IsSeq(results)
  PROVE  /\ IsSeq(Values(results)) /\ DOMAIN Values(results) = DOMAIN results
         /\ Len(Values(results)) = Len(results)
         /\ \A i \in DOMAIN results : Values(results)[i] = results[i].value
<1> DEFINE s == Values(results)
           n == Len(results)
<1>1. n \in Nat /\ DOMAIN results = 1 .. n
  BY SeqIs
<1>2. DOMAIN s = DOMAIN results /\ \A i \in DOMAIN results : s[i] = results[i].value
  BY DEF Values
<1>3. s \in [1 .. n -> Range(s)]
  BY <1>1 DEF Values, Range
<1> HIDE DEF s, n
<1>4. IsSeq(s) /\ Len(s) = n
  BY <1>1, <1>3, FcnIsSeq, SeqFacts
<1>5. QED
  BY <1>2, <1>4 DEF s, n

\* An array of records keeps a sample or is cut; a cut shows no more than the
\* configured maximum.
LEMMA RecordsCut ==
  ASSUME NEW v, IsJson(v), NEW w \in Within(v), w.t = "arr", NEW k, NEW hint, NEW emit
  PROVE  Kept(w, ProcessRecords(w, k, hint, emit)) \/ Cut(w, ProcessRecords(w, k, hint, emit))
<1> DEFINE items == w.items
           size == SizeOf(items, k)
           kept == CrushRecords(items, size, hint)
           p == ProcessRecords(w, k, hint, emit)
<1>1. IsSeq(items) /\ Range(items) \subseteq Within(v)
  BY WithinPart DEF Children
<1>2. Len(items) \in Nat /\ DOMAIN items = 1 .. Len(items)
  BY <1>1, SeqIs
<1>3. kept \in SUBSET DOMAIN items
  BY <1>1, SampleFacts
<1>4. \/ p.value = [w EXCEPT !.items = Sub(items, kept)]
      \/ /\ p.saves = <<items>> /\ kept # DOMAIN items
         /\ p.value = [w EXCEPT !.items = Append(Sub(items, kept), Dropped(items))]
  BY DEF ProcessRecords, Dropped
<1>5. CASE kept # DOMAIN items
  <2>1. ~(Len(items) <= size)
    BY <1>2, <1>5 DEF CrushRecords
  <2>2. size = k /\ k \in OptimalK(Len(items)) /\ k # Len(items)
    BY <1>2, <2>1 DEF SizeOf
  <2>3. k \in MinKept .. MaxItems
    BY <2>2 DEF OptimalK
  <2>4. k \in Nat \ {0} /\ k <= MaxItems /\ MaxItems \in Nat /\ Len(items) > k
    <3>1. MinKept \in Nat /\ MaxItems \in Nat /\ 1 <= MinKept
      BY CrusherAssumption
    <3>2. k \in Nat \ {0} /\ k <= MaxItems
      BY <2>3, <3>1
    <3>3. ~(Len(items) <= k) /\ Len(items) \in Nat
      BY <1>2, <2>1, <2>2
    <3> HIDE DEF items
    <3>4. QED
      BY <3>1, <3>2, <3>3
  <2>5. Cardinality(kept) \in Nat /\ Cardinality(kept) <= k
    <3> HIDE DEF items
    <3>1. QED
      BY <1>1, <2>2, <2>4, RecordsFacts
  <2> HIDE DEF kept, p
  <2>6. Cardinality(kept) <= MaxItems
    BY <2>4, <2>5
  <2> HIDE DEF kept, p
  <2>7. Kept(w, p) \/ Cut(w, p)
    BY <1>3, <1>4, <2>6 DEF Kept, Cut
  <2>8. QED
    BY <2>7 DEF p
<1>6. CASE kept = DOMAIN items
  <2> HIDE DEF kept, p
  <2>1. Kept(w, p)
    BY <1>3, <1>4, <1>6 DEF Kept
  <2>2. QED
    BY <2>1 DEF p
<1>7. QED
  BY <1>5, <1>6

\* What process_value makes of a value within a JSON value.
LEMMA ShapeFacts ==
  ASSUME NEW v, IsJson(v), NEW w \in Within(v), NEW results, IsSeq(results),
         NEW k, NEW hint, NEW emit
  PROVE  LET p == ProcessValue(w, results, k, hint, emit)
         IN  \/ p.value = w
             \/ w.t = "arr" /\ (Kept(w, p) \/ Cut(w, p) \/ ItemsOf(w, results, p))
             \/ w.t = "obj" /\ FieldsOf(w, results, p)
<1> DEFINE p == ProcessValue(w, results, k, hint, emit)
           items == w.items
           size == SizeOf(items, k)
           type == ArrayType(items)
           sampled(kept) == [[value |-> w, saves |-> <<>>] EXCEPT !.value.items = Sub(items, kept)]
<1>1. CASE w.t = "arr"
  <2>1. IsSeq(items) /\ Range(items) \subseteq Within(v)
    BY <1>1, WithinPart DEF Children
  <2>2. ASSUME NEW kept \in SUBSET DOMAIN items PROVE Kept(w, sampled(kept))
    BY DEF Kept
  <2>3. CASE Len(items) >= MinItems /\ type = "obj"
    <3>1. p = ProcessRecords(w, k, hint, emit)
      BY <1>1, <2>3 DEF ProcessValue
    <3>2. QED
      BY <1>1, <3>1, RecordsCut
  <2>4. CASE Len(items) >= MinItems /\ type = "str"
    <3>1. p = sampled(CrushStrings(items, size))
      BY <1>1, <2>4 DEF ProcessValue
    <3>2. CrushStrings(items, size) \in SUBSET DOMAIN items
      BY <2>1, SampleFacts
    <3> HIDE DEF sampled, items, p
    <3>3. QED
      BY <1>1, <2>2, <3>1, <3>2 DEF p
  <2>5. CASE Len(items) >= MinItems /\ type = "num"
    <3>1. p = sampled(CrushNumbers(items, size))
      BY <1>1, <2>5 DEF ProcessValue
    <3>2. CrushNumbers(items, size) \in SUBSET DOMAIN items
      BY <2>1, SampleFacts
    <3> HIDE DEF sampled, items, p
    <3>3. QED
      BY <1>1, <2>2, <3>1, <3>2 DEF p
  <2>6. CASE Len(items) >= MinItems /\ type = "mixed"
    <3>1. p = ProcessMixed(w, k, hint, emit)
      BY <1>1, <2>6 DEF ProcessValue
    <3>2. p.value = [w EXCEPT !.items = Sub(items, CrushMixed(items, k, hint))]
      BY <3>1 DEF ProcessMixed
    <3>3. CrushMixed(items, k, hint) \in SUBSET DOMAIN items
      BY <2>1, SampleFacts
    <3> HIDE DEF p
    <3>4. QED
      BY <1>1, <3>2, <3>3 DEF Kept, p
  <2>7. CASE ~(Len(items) >= MinItems /\ type \in {"obj", "str", "num", "mixed"})
    <3>1. p = [value |-> [w EXCEPT !.items = Values(results)], saves |-> Saves(results)]
      BY <1>1, <2>7 DEF ProcessValue
    <3>2. QED
      BY <1>1, <3>1 DEF ItemsOf
  <2>8. QED
    BY <2>3, <2>4, <2>5, <2>6, <2>7
<1>2. CASE w.t = "obj"
  <2> DEFINE fields == Values(results)
             kept == CrushFields(fields, SizeOf(fields, k))
  <2>1. \/ p = [value |-> [w EXCEPT !.fields = fields], saves |-> Saves(results)]
        \/ p = [value |-> [w EXCEPT !.fields = Sub(fields, kept)], saves |-> Saves(results)]
    BY <1>2 DEF ProcessValue
  <2>2. kept \in SUBSET DOMAIN fields
    BY ValuesFacts, SampleFacts
  <2> HIDE DEF p, kept
  <2>3. QED
    BY <1>2, <2>1, <2>2 DEF FieldsOf, p
<1>3. CASE w.t \notin {"arr", "obj"}
  BY <1>3 DEF ProcessValue
<1>4. QED
  BY <1>1, <1>2, <1>3

\* A value with other items.
LEMMA ReplacedItems ==
  ASSUME NEW v, IsJson(v), NEW w \in Within(v), w.t = "arr", NEW s, NEW x,
         x = [w EXCEPT !.items = s]
  PROVE  x.t = "arr" /\ x.items = s /\ Children(x) = s
<1>1. {"t", "items"} \subseteq DOMAIN w
  BY DEF IsJson
<1>2. x.t = "arr" /\ x.items = s
  BY <1>1
<1>3. QED
  BY <1>2 DEF Children

\* A value with other fields.
LEMMA ReplacedFields ==
  ASSUME NEW v, IsJson(v), NEW w \in Within(v), w.t = "obj", NEW s, NEW x,
         x = [w EXCEPT !.fields = s]
  PROVE  x.t = "obj" /\ Children(x) = s
<1>1. {"t", "fields"} \subseteq DOMAIN w
  BY DEF IsJson
<1>2. x.t = "obj" /\ x.fields = s
  BY <1>1
<1>3. QED
  BY <1>2 DEF Children

\* Every value of a JSON value has one of the six types.
LEMMA JsonTypes ==
  ASSUME NEW v, IsJson(v), NEW w \in Within(v)
  PROVE  w.t \in {"str", "num", "bool", "null", "arr", "obj"}
BY DEF IsJson

\* What MarkersHonest says of one array, for any set of saved arrays.
Sound(v, items, saved) ==
  items # <<>> /\ items[Len(items)].t = "dropped" =>
    /\ items[Len(items)].items \in saved
    /\ items[Len(items)].items \in Arrays(v)
    /\ Len(Front(items)) <= MaxItems
    /\ \E kept \in SUBSET DOMAIN items[Len(items)].items :
         Sub(items[Len(items)].items, kept) = Front(items)

AllSound(v, u, saved) == \A w \in Within(u) : w.t = "arr" => Sound(v, w.items, saved)

\* An array with no marker at its end claims nothing.
LEMMA Unmarked ==
  ASSUME NEW v, NEW s, IsSeq(s), \A c \in Range(s) : c.t # "dropped", NEW saved
  PROVE  Sound(v, s, saved)
<1> SUFFICES ASSUME s # <<>> PROVE s[Len(s)] \in Range(s)
  BY DEF Sound
<1>1. s \in Seq(Range(s))
  BY DEF IsSeq
<1>2. Len(s) \in Nat /\ DOMAIN s = 1 .. Len(s) /\ Len(s) # 0
  BY <1>1, SeqIs, EmptySeq
<1>3. Len(s) \in DOMAIN s
  BY <1>2
<1>4. QED
  BY <1>3 DEF Range

\* Nor does any array of the input.
LEMMA RawSound ==
  ASSUME NEW v, IsJson(v), NEW w \in Within(v), NEW saved
  PROVE  AllSound(v, w, saved)
<1> SUFFICES ASSUME NEW u \in Within(w), u.t = "arr" PROVE Sound(v, u.items, saved)
  BY DEF AllSound
<1>1. u \in Within(v)
  BY WithinPart
<1>2. IsSeq(u.items) /\ Range(u.items) \subseteq Within(v)
  BY <1>1, WithinPart DEF Children
<1>3. \A c \in Range(u.items) : c.t # "dropped"
  BY <1>2, JsonTypes
<1>4. QED
  BY <1>2, <1>3, Unmarked

\* Sound at the top and in every part: sound.
LEMMA SoundAround ==
  ASSUME NEW v, NEW u, NEW saved, u.t = "arr" => Sound(v, u.items, saved),
         \A c \in Range(Children(u)) : AllSound(v, c, saved)
  PROVE  AllSound(v, u, saved)
<1> SUFFICES ASSUME NEW w \in Within(u), w.t = "arr" PROVE Sound(v, w.items, saved)
  BY DEF AllSound
<1>1. w = u \/ \E c \in Range(Children(u)) : w \in Within(c)
  BY WithinTop
<1>2. QED
  BY <1>1 DEF AllSound

\* More saves do no harm.
LEMMA SoundGrows ==
  ASSUME NEW v, NEW u, NEW saved, NEW more, saved \subseteq more, AllSound(v, u, saved)
  PROVE  AllSound(v, u, more)
BY DEF AllSound, Sound

\* A marker holds no arrays.
LEMMA MarkerSound ==
  ASSUME NEW v, NEW items, NEW saved
  PROVE  AllSound(v, Dropped(items), saved)
<1> DEFINE d == Dropped(items)
<1>1. d.t = "dropped"
  BY DEF Dropped
<1> HIDE DEF d
<1>2. Children(d) = <<>>
  BY <1>1 DEF Children
<1>3. Range(<<>>) = {}
  BY EmptyIs DEF Range
<1>4. AllSound(v, d, saved)
  BY <1>1, <1>2, <1>3, SoundAround
<1>5. QED
  BY <1>4 DEF d

\* Every way of processing a value whose parts have been processed soundly.
LEMMA StepSound ==
  ASSUME NEW v, IsJson(v), NEW w \in Within(v), NEW k, NEW hint, NEW emit,
         NEW results, IsSeq(results), DOMAIN results = DOMAIN Children(w),
         \A i \in DOMAIN results :
           /\ IsSeq(results[i].saves) /\ results[i].value.t = Children(w)[i].t
           /\ AllSound(v, results[i].value, Range(results[i].saves))
  PROVE  LET p == ProcessValue(w, results, k, hint, emit)
         IN  p.value.t = w.t /\ AllSound(v, p.value, Range(p.saves))
<1> DEFINE p == ProcessValue(w, results, k, hint, emit)
           items == w.items
           saved == Range(p.saves)
<1> SUFFICES p.value.t = w.t /\ AllSound(v, p.value, saved)
  OBVIOUS
<1>1. \/ p.value = w
      \/ w.t = "arr" /\ (Kept(w, p) \/ Cut(w, p) \/ ItemsOf(w, results, p))
      \/ w.t = "obj" /\ FieldsOf(w, results, p)
  BY ShapeFacts
<1> HIDE DEF p
<1>2. /\ IsSeq(Children(w)) /\ Range(Children(w)) \subseteq Within(v)
      /\ w.t = "arr" => Children(w) = items
  BY WithinPart DEF Children
<1>3. \A c \in Within(v) : c.t # "dropped" /\ AllSound(v, c, saved)
  BY JsonTypes, RawSound
<1> HIDE DEF saved
<1>4. CASE p.value = w
  BY <1>3, <1>4
<1>5. ASSUME w.t = "arr", NEW kept \in SUBSET DOMAIN items
      PROVE  /\ IsSeq(Sub(items, kept)) /\ Range(Sub(items, kept)) \subseteq Within(v)
             /\ Len(Sub(items, kept)) = Cardinality(kept)
  <2>1. IsSeq(items) /\ Range(items) \subseteq Within(v)
    BY <1>2, <1>5
  <2>2. /\ IsSeq(Sub(items, kept)) /\ Range(Sub(items, kept)) = {items[i] : i \in kept}
        /\ Len(Sub(items, kept)) = Cardinality(kept)
    BY <2>1, SubFacts
  <2>3. \A i \in kept : items[i] \in Range(items)
    BY DEF Range
  <2>4. QED
    BY <2>1, <2>2, <2>3
<1>6. CASE w.t = "arr" /\ Kept(w, p)
  <2>1. PICK kept \in SUBSET DOMAIN items : p.value = [w EXCEPT !.items = Sub(items, kept)]
    BY <1>6 DEF Kept
  <2> DEFINE s == Sub(items, kept)
  <2>2. IsSeq(s) /\ Range(s) \subseteq Within(v)
    BY <1>5, <1>6, <2>1
  <2> HIDE DEF s
  <2>3. p.value.t = "arr" /\ p.value.items = s /\ Children(p.value) = s
    <3>1. p.value = [w EXCEPT !.items = s]
      BY <2>1 DEF s
    <3>2. QED
      BY <1>6, <3>1, ReplacedItems
  <2>4. Sound(v, s, saved)
    BY <1>3, <2>2, Unmarked
  <2>5. AllSound(v, p.value, saved)
    BY <1>3, <2>2, <2>3, <2>4, SoundAround
  <2>6. QED
    BY <1>6, <2>3, <2>5
<1>7. CASE w.t = "arr" /\ Cut(w, p)
  <2>1. PICK kept \in SUBSET DOMAIN items :
          /\ Cardinality(kept) <= MaxItems
          /\ p.value = [w EXCEPT !.items = Append(Sub(items, kept), Dropped(items))]
    BY <1>7 DEF Cut
  <2> DEFINE s == Sub(items, kept)
             d == Dropped(items)
             a == Append(s, d)
  <2>2. IsSeq(s) /\ Range(s) \subseteq Within(v) /\ Len(s) = Cardinality(kept)
    BY <1>5, <1>7, <2>1
  <2>3. items \in saved
    <3>1. p.saves = <<items>> /\ <<items>> \in Seq({items}) /\ Len(<<items>>) = 1
      BY <1>7 DEF Cut
    <3>2. 1 \in DOMAIN p.saves /\ p.saves[1] = items
      BY <3>1
    <3>3. QED
      BY <3>2 DEF saved, Range
  <2>4. d.t = "dropped" /\ d.items = items
    BY DEF Dropped
  <2>5. AllSound(v, d, saved)
    BY MarkerSound
  <2>6. items \in Arrays(v)
    BY <1>7 DEF Arrays
  <2>7. p.value.t = "arr" /\ p.value.items = a /\ Children(p.value) = a
    <3> HIDE DEF s, d, a
    <3>1. p.value = [w EXCEPT !.items = a]
      BY <2>1 DEF s, d, a
    <3>2. QED
      BY <1>7, <3>1, ReplacedItems
  <2>8. Front(a) = s /\ a[Len(a)] = d
    <3> HIDE DEF s, d
    <3>1. QED
      BY <2>2, FrontFacts
  <2>9. \A c : c \in Range(a) <=> c \in Range(s) \/ c = d
    <3> HIDE DEF s, d
    <3>1. QED
      BY <2>2, Appended
  <2> HIDE DEF a, d
  <2>10. Sound(v, a, saved)
    <3>1. Len(Front(a)) <= MaxItems
      BY <2>1, <2>2, <2>8
    <3>2. \E sample \in SUBSET DOMAIN items : Sub(items, sample) = Front(a)
      BY <2>1, <2>8
    <3> HIDE DEF items
    <3>3. QED
      BY <2>3, <2>4, <2>6, <2>8, <3>1, <3>2 DEF Sound
  <2> HIDE DEF s
  <2>11. \A c \in Range(a) : AllSound(v, c, saved)
    BY <1>3, <2>2, <2>5, <2>9
  <2>12. AllSound(v, p.value, saved)
    BY <2>7, <2>10, <2>11, SoundAround
  <2>13. QED
    BY <1>7, <2>7, <2>12
<1> DEFINE new == Values(results)
<1>8. /\ IsSeq(new) /\ DOMAIN new = DOMAIN results
      /\ \A i \in DOMAIN results : new[i] = results[i].value
  BY ValuesFacts
<1>9. ASSUME p.saves = Saves(results), NEW i \in DOMAIN results
      PROVE  AllSound(v, new[i], saved) /\ new[i].t # "dropped"
  <2> DEFINE s == [j \in DOMAIN results |-> results[j].saves]
  <2>1. IsSeq(s)
    <3> DEFINE n == Len(results)
    <3>1. n \in Nat /\ DOMAIN results = 1 .. n
      BY SeqIs
    <3> HIDE DEF n
    <3>2. s \in [1 .. n -> Range(s)]
      BY <3>1 DEF Range
    <3> HIDE DEF s
    <3>3. QED
      BY <3>1, <3>2, FcnIsSeq, SeqFacts
  <2>2. \A j \in DOMAIN s : IsSeq(s[j])
    OBVIOUS
  <2>3. DOMAIN s = DOMAIN results /\ s[i] = results[i].saves
    BY <1>9
  <2> HIDE DEF s
  <2>4. \A x : x \in Range(FlattenSeq(s)) <=> \E j \in DOMAIN s : x \in Range(s[j])
    BY <2>1, <2>2, FlatSeqs
  <2>5. Range(results[i].saves) \subseteq saved
    BY <1>9, <2>3, <2>4 DEF saved, Saves, s
  <2>6. AllSound(v, new[i], saved)
    BY <1>8, <1>9, <2>5, SoundGrows
  <2>7. Children(w)[i] \in Within(v)
    BY <1>2, <1>9 DEF Range
  <2>8. new[i].t # "dropped"
    BY <1>3, <1>8, <1>9, <2>7
  <2>9. QED
    BY <2>6, <2>8
<1> HIDE DEF new
<1>10. ASSUME p.saves = Saves(results), NEW c \in Range(new)
       PROVE  AllSound(v, c, saved) /\ c.t # "dropped"
  <2>1. PICK i \in DOMAIN new : c = new[i]
    BY <1>10 DEF Range
  <2>2. QED
    BY <1>8, <1>9, <1>10, <2>1
<1>11. CASE w.t = "arr" /\ ItemsOf(w, results, p)
  <2>1. p.saves = Saves(results) /\ p.value = [w EXCEPT !.items = new]
    BY <1>11 DEF ItemsOf, new
  <2>2. p.value.t = "arr" /\ p.value.items = new /\ Children(p.value) = new
    <3>1. w.t = "arr"
      BY <1>11
    <3>2. PICK x : x = p.value /\ x = [w EXCEPT !.items = new]
      BY <2>1
    <3>3. x.t = "arr" /\ x.items = new /\ Children(x) = new
      <4>1. {"t", "items"} \subseteq DOMAIN w
        BY <3>1 DEF IsJson
      <4>2. x.t = "arr" /\ x.items = new
        BY <3>1, <3>2, <4>1
      <4>3. QED
        BY <4>2 DEF Children
    <3>4. QED
      BY <3>2, <3>3
  <2>3. Sound(v, new, saved)
    BY <1>8, <1>10, <2>1, Unmarked
  <2>4. AllSound(v, p.value, saved)
    BY <1>10, <2>1, <2>2, <2>3, SoundAround
  <2>5. QED
    BY <1>11, <2>2, <2>4
<1>12. CASE w.t = "obj" /\ FieldsOf(w, results, p)
  <2>1. p.saves = Saves(results)
    BY <1>12 DEF FieldsOf
  <2>2. PICK s : p.value = [w EXCEPT !.fields = s] /\ Range(s) \subseteq Range(new)
    <3>1. CASE p.value = [w EXCEPT !.fields = new]
      BY <3>1
    <3>2. CASE p.value # [w EXCEPT !.fields = new]
      <4>1. PICK kept \in SUBSET DOMAIN new : p.value = [w EXCEPT !.fields = Sub(new, kept)]
        BY <1>12, <3>2 DEF FieldsOf, new
      <4>2. Range(Sub(new, kept)) = {new[i] : i \in kept}
        BY <1>8, <4>1, SubFacts
      <4>3. \A i \in kept : new[i] \in Range(new)
        BY <4>1 DEF Range
      <4>4. QED
        BY <4>1, <4>2, <4>3
    <3>3. QED
      BY <3>1, <3>2
  <2>3. p.value.t = "obj" /\ Children(p.value) = s
    BY <1>12, <2>2, ReplacedFields
  <2>4. AllSound(v, p.value, saved)
    BY <1>10, <2>1, <2>2, <2>3, SoundAround
  <2>5. QED
    BY <1>12, <2>3, <2>4
<1>13. QED
  BY <1>1, <1>4, <1>6, <1>7, <1>11, <1>12

\* Without markers there is nothing to save.
LEMMA NoSaves ==
  ASSUME NEW w, NEW results, NEW k, NEW hint, NEW emit, ~emit, IsSeq(results),
         \A i \in DOMAIN results : IsSeq(results[i].saves),
         \A i \in DOMAIN results : Range(results[i].saves) = {}
  PROVE  Range(ProcessValue(w, results, k, hint, emit).saves) = {}
<1> DEFINE p == ProcessValue(w, results, k, hint, emit)
           s == [j \in DOMAIN results |-> results[j].saves]
<1>1. p.saves = <<>> \/ p.saves = Saves(results)
  BY DEF ProcessValue, ProcessRecords, ProcessMixed
<1>2. Range(<<>>) = {}
  BY EmptyIs DEF Range
<1>3. IsSeq(s)
  <2> DEFINE n == Len(results)
  <2>1. n \in Nat /\ DOMAIN results = 1 .. n
    BY SeqIs
  <2> HIDE DEF n
  <2>2. s \in [1 .. n -> Range(s)]
    BY <2>1 DEF Range
  <2> HIDE DEF s
  <2>3. QED
    BY <2>1, <2>2, FcnIsSeq, SeqFacts
<1>4. \A j \in DOMAIN s : IsSeq(s[j]) /\ Range(s[j]) = {}
  OBVIOUS
<1>5. Saves(results) = FlattenSeq(s)
  BY DEF Saves
<1> HIDE DEF p, s
<1>6. Range(FlattenSeq(s)) = {}
  BY <1>3, <1>4, FlatSeqs
<1>7. QED
  BY <1>1, <1>2, <1>5, <1>6 DEF p

\* Whatever is sampled at whatever depth, the markers are honest.
LEMMA CrushSound ==
  ASSUME NEW v, IsJson(v), NEW k, NEW hint, NEW emit
  PROVE  LET p == Crush(v, k, hint, emit)
         IN  /\ p.value.t = v.t /\ AllSound(v, p.value, Range(p.saves))
             /\ ~emit => Range(p.saves) = {}
<1>1. PICK g : /\ Crush(v, k, hint, emit) = g[MaxDepth][v]
               /\ \A w \in Within(v) : g[0][w] = [value |-> w, saves |-> <<>>]
               /\ \A n \in 1 .. MaxDepth : \A w \in Within(v) :
                    g[n][w] = ProcessValue(w, Below(g, n, w), k, hint, emit)
  BY CrushSteps
<1>2. MaxDepth \in Nat
  BY CrusherAssumption
<1> DEFINE Good(w, p) == /\ IsSeq(p.saves) /\ p.value.t = w.t
                         /\ AllSound(v, p.value, Range(p.saves))
                         /\ ~emit => Range(p.saves) = {}
           G == {n \in Nat : n <= MaxDepth => \A w \in Within(v) : Good(w, g[n][w])}
<1>3. 0 \in G
  <2> SUFFICES ASSUME NEW w \in Within(v) PROVE Good(w, g[0][w])
    OBVIOUS
  <2>1. g[0][w] = [value |-> w, saves |-> <<>>]
    BY <1>1
  <2>2. g[0][w].value = w /\ g[0][w].saves = <<>>
    BY <2>1
  <2>3. Range(<<>>) = {}
    BY EmptyIs DEF Range
  <2>4. QED
    BY <2>2, <2>3, RawSound, EmptyIs
<1>4. ASSUME NEW n \in G PROVE n + 1 \in G
  <2> SUFFICES ASSUME n + 1 <= MaxDepth, NEW w \in Within(v)
               PROVE  Good(w, g[n + 1][w])
    OBVIOUS
  <2>1. n \in Nat /\ n <= MaxDepth /\ n + 1 \in 1 .. MaxDepth /\ (n + 1) - 1 = n
    BY <1>2
  <2> DEFINE cs == Children(w)
             r  == Below(g, n + 1, w)
  <2>2. IsSeq(cs) /\ \A i \in DOMAIN cs : cs[i] \in Within(v)
    <3>1. IsSeq(Children(w)) /\ Range(Children(w)) \subseteq Within(v)
      BY DEF IsJson
    <3>2. \A i \in DOMAIN cs : cs[i] \in Range(cs)
      <4> HIDE DEF cs
      <4>1. QED
        BY DEF Range
    <3>3. QED
      BY <3>1, <3>2
  <2>3. r = [i \in DOMAIN cs |-> g[n][cs[i]]]
    BY <2>1 DEF Below
  <2>4. IsSeq(r) /\ DOMAIN r = DOMAIN cs
    <3> DEFINE m == Len(cs)
    <3>1. m \in Nat /\ DOMAIN cs = 1 .. m
      BY <2>2, SeqIs
    <3> HIDE DEF m, cs, r
    <3>2. r \in [1 .. m -> Range(r)] /\ DOMAIN r = DOMAIN cs
      BY <2>3, <3>1 DEF Range
    <3>3. QED
      BY <3>1, <3>2, FcnIsSeq, SeqFacts
  <2>5. \A c \in Within(v) : Good(c, g[n][c])
    BY <2>1
  <2> HIDE DEF r, Good
  <2>6. \A i \in DOMAIN r : Good(cs[i], r[i])
    BY <2>2, <2>3, <2>4, <2>5
  <2>7. g[n + 1][w] = ProcessValue(w, r, k, hint, emit)
    BY <1>1, <2>1 DEF r
  <2>8. \A i \in DOMAIN r : /\ IsSeq(r[i].saves) /\ r[i].value.t = cs[i].t
                            /\ AllSound(v, r[i].value, Range(r[i].saves))
    BY <2>6 DEF Good
  <2>9. /\ ProcessValue(w, r, k, hint, emit).value.t = w.t
        /\ AllSound(v, ProcessValue(w, r, k, hint, emit).value,
                    Range(ProcessValue(w, r, k, hint, emit).saves))
    BY <2>4, <2>8, StepSound
  <2>10. IsSeq(ProcessValue(w, r, k, hint, emit).saves)
    BY <2>4, <2>8, SavesAreSeq
  <2>11. ~emit => Range(ProcessValue(w, r, k, hint, emit).saves) = {}
    <3>1. ~emit => \A i \in DOMAIN r : Range(r[i].saves) = {}
      BY <2>6 DEF Good
    <3>2. QED
      BY <2>4, <2>8, <3>1, NoSaves
  <2>12. QED
    BY <2>7, <2>9, <2>10, <2>11 DEF Good
<1>5. G \in SUBSET Nat
  OBVIOUS
<1>6. MaxDepth \in G
  <2> HIDE DEF G
  <2>1. QED
    BY <1>2, <1>3, <1>4, <1>5, FromZero
<1>7. v \in Within(v)
  BY WithinFacts
<1>8. QED
  BY <1>1, <1>2, <1>6, <1>7

\* What smart_crusher leaves of the message's JSON value, which alignment only
\* writes anew, once the arrays are in the store.
LEMMA CrushedFacts ==
  ASSUME PipeInv, NEW i \in DOMAIN out, By(i, "smart_crusher")
  PROVE  \E k \in OptimalK(Passthrough + 1) :
           LET p == Crush(Json(i), k, config.hint, config.reversible)
           IN  /\ IsJson(Json(i)) /\ out[i].text.left = p.value
               /\ config.reversible => \A n \in DOMAIN p.saves : [array |-> p.saves[n]] \in store
<1> DEFINE c == Aligned(prompt[i])
<1>1. out[i].text.by = "smart_crusher"
  BY DEF By
<1>2. PICK k \in Sizes(c) :
        /\ WellFormed(c) /\ out[i].text = Compressed(config, c, k)
        /\ out[i].text.by = Compressor(c)
        /\ Compressed(config, c, k) # Original(c)
        /\ Range(SavesOf(config, c, k)) \subseteq store
  BY <1>1, EmittedBy
<1>3. Json(i) = c.body[1]
  <2> DEFINE d == prompt[i]
  <2>1. Compressor(c) = "smart_crusher" /\ c.kind = "json"
    BY <1>1, <1>2 DEF WellFormed
  <2>2. {"kind", "body", "canon", "marks"} \subseteq DOMAIN d
    BY PromptFacts DEF WellFormed
  <2>3. c = d \/ c = Align(d)
    BY DEF Aligned
  <2> HIDE DEF d, c
  <2>4. CASE d.kind = "json"
    <3>1. [d EXCEPT !.canon = TRUE].body = d.body
      BY <2>2
    <3>2. c = d \/ c = [d EXCEPT !.canon = TRUE]
      BY <2>3, <2>4 DEF Align
    <3>3. QED
      BY <3>1, <3>2 DEF Json, d
  <2>5. CASE d.kind # "json"
    <3>1. Align(d).kind = d.kind
      BY <2>2, <2>5 DEF Align
    <3>2. QED
      BY <2>1, <2>3, <2>5, <3>1
  <2>6. QED
    BY <2>4, <2>5
<1> HIDE DEF c
<1>4. Compressor(c) = "smart_crusher" /\ IsJson(c.body[1])
  BY <1>1, <1>2 DEF WellFormed
<1>5. Sizes(c) = OptimalK(Passthrough + 1)
  BY <1>4 DEF Sizes
<1>6. out[i].text.left = Crushed(config, c, k).value
  BY <1>2, <1>4 DEF Compressed, Written
<1>7. config.reversible =>
        \A n \in DOMAIN Crushed(config, c, k).saves :
          [array |-> Crushed(config, c, k).saves[n]] \in store
  BY <1>2, <1>4, SavesFacts
<1>8. Crushed(config, c, k) = Crush(Json(i), k, config.hint, config.reversible)
  BY <1>3 DEF Crushed
<1>9. QED
  BY <1>3, <1>4, <1>5, <1>6, <1>7, <1>8

\* Every marker that is emitted, at whatever depth, leads to a stored array of
\* the input that holds the records in front of it in their order, no more of
\* them than configured (smart_crusher.rs, process_array and
\* crush_with_options; pipeline.rs, compress_one).
THEOREM MarkersSaved == Spec => []MarkersHonest
<1>1. PipeInv => MarkersHonest
  <2> SUFFICES ASSUME PipeInv, NEW i \in DOMAIN out, By(i, "smart_crusher"),
                      NEW items \in Marked(out[i].text.left)
               PROVE  LET whole == items[Len(items)].items
                          shown == Front(items)
                      IN  /\ [array |-> whole] \in store
                          /\ whole \in Arrays(Json(i))
                          /\ Len(shown) <= MaxItems
                          /\ \E kept \in SUBSET DOMAIN whole : Sub(whole, kept) = shown
    BY DEF MarkersHonest
  <2>1. PICK k \in OptimalK(Passthrough + 1) :
          LET p == Crush(Json(i), k, config.hint, config.reversible)
          IN  /\ IsJson(Json(i)) /\ out[i].text.left = p.value
              /\ config.reversible => \A n \in DOMAIN p.saves : [array |-> p.saves[n]] \in store
    BY CrushedFacts
  <2> DEFINE v == Json(i)
             p == Crush(v, k, config.hint, config.reversible)
  <2>2. AllSound(v, p.value, Range(p.saves))
    BY <2>1, CrushSound
  <2>3. PICK u \in Within(p.value) : u.t = "arr" /\ items = u.items
    BY <2>1 DEF Marked, Arrays
  <2>4. items # <<>> /\ items[Len(items)].t = "dropped"
    BY DEF Marked
  <2>5. Sound(v, items, Range(p.saves))
    BY <2>2, <2>3 DEF AllSound
  <2>6. items[Len(items)].items \in Range(p.saves) /\ config.reversible
    <3>1. ~config.reversible => Range(p.saves) = {}
      BY <2>1, CrushSound
    <3>2. QED
      BY <2>4, <2>5, <3>1 DEF Sound
  <2>7. [array |-> items[Len(items)].items] \in store
    BY <2>1, <2>6 DEF Range
  <2>8. QED
    BY <2>4, <2>5, <2>7 DEF Sound
<1>2. QED
  BY <1>1, PipeAlways, PTL
-----------------------------------------------------------------------------
(* What samples never lose *)

\* An array that has items keeps at least one.
LEMMA SizeFacts ==
  ASSUME NEW items, IsSeq(items), Len(items) # 0, NEW k
  PROVE  SizeOf(items, k) \in Nat \ {0}
<1>1. Len(items) \in Nat
  BY SeqIs
<1>2. MinKept \in Nat /\ MaxItems \in Nat /\ 1 <= MinKept /\ Passthrough \in Nat
  BY CrusherAssumption
<1>3. QED
  BY <1>1, <1>2 DEF SizeOf, OptimalK

\* Both ends start at the first item.
LEMMA EndsFacts ==
  ASSUME NEW n \in Nat \ {0}, NEW k \in Nat \ {0}
  PROVE  1 \in Ends(n, k)
<1> DEFINE share == Share(k, FirstPercent)
           down == (k * FirstPercent) \div 100
           up == IF \/ (k * FirstPercent) % 100 > 50
                    \/ (k * FirstPercent) % 100 = 50 /\ down % 2 = 1
                 THEN down + 1 ELSE down
           first == Min({share, k})
<1>1. FirstPercent \in Nat
  BY CrusherAssumption
<1>2. up \in Nat
  <2> DEFINE x == k * FirstPercent
  <2>1. x \in Nat
    BY <1>1
  <2> HIDE DEF x
  <2>2. x \div 100 \in Nat
    BY <2>1
  <2>3. down = x \div 100
    BY DEF x
  <2> HIDE DEF down
  <2>4. QED
    BY <2>2, <2>3
<1>3. share = Max({1, up})
  BY DEF Share
<1> HIDE DEF up, share
<1>4. Max({1, up}) \in {1, up} /\ Max({1, up}) >= 1
  <2> DEFINE x == IF up >= 1 THEN up ELSE 1
  <2>1. x \in {1, up} /\ \A y \in {1, up} : x >= y
    BY <1>2
  <2>2. Max({1, up}) \in {1, up} /\ \A y \in {1, up} : Max({1, up}) >= y
    BY <2>1 DEF Max
  <2>3. QED
    BY <2>2
<1>5. share \in Nat /\ share >= 1
  BY <1>2, <1>3, <1>4
<1>6. first \in {share, k}
  <2> DEFINE x == IF share <= k THEN share ELSE k
  <2>1. x \in {share, k} /\ \A y \in {share, k} : x <= y
    BY <1>5
  <2>2. QED
    BY <2>1 DEF Min
<1> HIDE DEF first
<1>7. 1 <= first
  BY <1>5, <1>6
<1>8. Ends(n, k) = {i \in 1 .. n : i <= first \/ i > n - Min({Share(k, LastPercent), k - first})}
  BY DEF Ends, first, share
<1>9. 1 \in 1 .. n
  OBVIOUS
<1>10. QED
  BY <1>7, <1>8, <1>9

\* Strings and numbers: some are kept, and all the strings that tell of errors.
LEMMA SamplesKeep ==
  ASSUME NEW items, IsSeq(items), NEW k
  PROVE  /\ \A i \in DOMAIN items : items[i].err => i \in CrushStrings(items, k)
         /\ \A i \in DOMAIN items : HasError(items[i]) => i \in CrushFields(items, k)
         /\ Len(items) # 0 /\ k \in Nat \ {0} =>
              /\ CrushStrings(items, k) # {} /\ CrushNumbers(items, k) # {}
              /\ MixedNumbers(items, k) # {}
         /\ MixedNumbers(items, k) \subseteq DOMAIN items
<1> DEFINE n == Len(items)
<1>1. n \in Nat /\ DOMAIN items = 1 .. n
  BY SeqIs
<1>2. ASSUME n # 0, k \in Nat \ {0} PROVE 1 \in Ends(n, k) /\ 1 \in 1 .. n
  BY <1>1, <1>2, EndsFacts
<1> HIDE DEF n
<1>3. ASSUME NEW P, NEW top, NEW value, P \subseteq 1 .. n
      PROVE  P \subseteq Fill(P, n, k, top, value)
  BY <1>1, <1>3, FillFacts
<1>4. \A xs : Len(xs) = n => Outliers(xs) \subseteq 1 .. n /\ ChangePoints(xs) \subseteq 1 .. n
  <2>1. \A xs : Outliers(xs) \subseteq 1 .. Len(xs)
    BY DEF Outliers
  <2>2. ASSUME NEW xs, Len(xs) = n PROVE ChangePoints(xs) \subseteq 1 .. n
    <3>1. Window \in Nat
      BY CrusherAssumption
    <3>2. \A i \in (Window + 1) .. (n - Window) : i \in 1 .. n
      BY <1>1, <3>1
    <3>3. ChangePoints(xs) \subseteq (Window + 1) .. (n - Window)
      BY <2>2 DEF ChangePoints
    <3>4. QED
      BY <3>2, <3>3
  <2>3. QED
    BY <2>1, <2>2
<1>5. \A f : Len([i \in 1 .. n |-> f[i]]) = n
  <2>1. ASSUME NEW f PROVE Len([i \in 1 .. n |-> f[i]]) = n
    <3> DEFINE g == [i \in 1 .. n |-> f[i]]
               R == {f[i] : i \in 1 .. n}
    <3>1. g \in [1 .. n -> R]
      OBVIOUS
    <3> HIDE DEF g, R
    <3>2. Len(g) = n
      BY <1>1, <3>1, FcnIsSeq
    <3>3. QED
      BY <3>2 DEF g
  <2>2. QED
    BY <2>1
<1>6. /\ \A i \in 1 .. n : items[i].err => i \in CrushStrings(items, k)
      /\ n # 0 /\ k \in Nat \ {0} => CrushStrings(items, k) # {}
  <2> DEFINE errors == {i \in 1 .. n : items[i].err}
             lens == [i \in 1 .. n |-> items[i].len]
             odd == Outliers(lens)
             P == (errors \cup odd) \cup Ends(n, k)
             top == k + Cardinality(errors) + Cardinality(odd)
             strs == [i \in 1 .. n |-> items[i].str]
  <2>1. CrushStrings(items, k) \in {1 .. n, Fill(P, n, k, top, strs)}
    BY DEF CrushStrings, n
  <2>2. odd \subseteq 1 .. n
    <3>1. lens = [i \in 1 .. n |-> lens[i]]
      OBVIOUS
    <3> HIDE DEF lens
    <3>2. Len(lens) = n
      BY <1>5, <3>1
    <3>3. QED
      BY <1>4, <3>2
  <2>3. Ends(n, k) \subseteq 1 .. n
    BY DEF Ends
  <2> HIDE DEF odd, top, strs
  <2>4. P \subseteq 1 .. n
    BY <2>2, <2>3
  <2>5. P \subseteq CrushStrings(items, k)
    <3> HIDE DEF P
    <3>1. P \subseteq Fill(P, n, k, top, strs)
      BY <1>3, <2>4
    <3>2. QED
      BY <2>1, <2>4, <3>1
  <2>6. QED
    BY <1>2, <2>5
<1>7. n # 0 /\ k \in Nat \ {0} => CrushNumbers(items, k) # {}
  <2> DEFINE xs == [i \in 1 .. n |-> items[i].num]
             P == (Outliers(xs) \cup ChangePoints(xs)) \cup Ends(n, k)
             top == k + Cardinality(Outliers(xs))
             all == [i \in 1 .. n |-> i]
  <2>1. CrushNumbers(items, k) \in {1 .. n, Fill(P, n, k, top, all)}
    BY DEF CrushNumbers, n
  <2>2. Len(xs) = n
    <3>1. xs = [i \in 1 .. n |-> xs[i]]
      OBVIOUS
    <3> HIDE DEF xs
    <3>2. QED
      BY <1>5, <3>1
  <2>3. Ends(n, k) \subseteq 1 .. n
    BY DEF Ends
  <2> HIDE DEF xs, top, all
  <2>4. P \subseteq 1 .. n
    BY <1>4, <2>2, <2>3
  <2>5. P \subseteq CrushNumbers(items, k)
    <3> HIDE DEF P
    <3>1. P \subseteq Fill(P, n, k, top, all)
      BY <1>3, <2>4
    <3>2. QED
      BY <2>1, <2>4, <3>1
  <2>6. QED
    BY <1>2, <2>5
<1>8. \A i \in 1 .. n : HasError(items[i]) => i \in CrushFields(items, k)
  <2> DEFINE errors == {i \in 1 .. n : HasError(items[i])}
             small == {i \in 1 .. n : Length(items[i]) <= SmallField}
             ends == {i \in 1 .. n : \/ i <= Share(k, FirstPercent)
                                     \/ i > n - Share(k, LastPercent)}
             P == (errors \cup small) \cup ends
             top == k + Cardinality(errors)
             all == [i \in 1 .. n |-> i]
  <2>1. CrushFields(items, k) \in {1 .. n, Fill(P, n, k, top, all)}
    BY DEF CrushFields, n
  <2>2. P \subseteq 1 .. n
    OBVIOUS
  <2> HIDE DEF top, all
  <2>3. P \subseteq CrushFields(items, k)
    <3> HIDE DEF P
    <3>1. P \subseteq Fill(P, n, k, top, all)
      BY <1>3, <2>2
    <3>2. QED
      BY <2>1, <2>2, <3>1
  <2> HIDE DEF small, ends
  <2>4. QED
    BY <2>3
<1>9. /\ n # 0 /\ k \in Nat \ {0} => MixedNumbers(items, k) # {}
      /\ MixedNumbers(items, k) \subseteq 1 .. n
  <2> DEFINE xs == [i \in 1 .. n |-> items[i].num]
  <2>1. MixedNumbers(items, k) = Ends(n, k) \cup Outliers(xs)
    BY DEF MixedNumbers, n
  <2>2. xs = [i \in 1 .. n |-> xs[i]]
    OBVIOUS
  <2> HIDE DEF xs
  <2>3. Outliers(xs) \subseteq 1 .. n
    BY <1>4, <1>5, <2>2
  <2>4. Ends(n, k) \subseteq 1 .. n
    BY DEF Ends
  <2>5. QED
    BY <1>2, <2>1, <2>3, <2>4
<1>10. QED
  BY <1>1, <1>6, <1>7, <1>8, <1>9 DEF n

\* The values of one type in a mixed array, in their order.
GroupOf(items, t) == [j \in DOMAIN InOrder(OfType(items, t)) |-> items[InOrder(OfType(items, t))[j]]]

KeptOf(items, t, k, hint) ==
  LET group == GroupOf(items, t)
      size  == SizeOf(group, k)
  IN  CASE t = "obj" -> CrushRecords(group, size, hint)
        [] t = "str" -> CrushStrings(group, size)
        [] t = "num" -> MixedNumbers(group, size)
        [] OTHER     -> DOMAIN group

Picked(items, t, k, hint) ==
  LET group == GroupOf(items, t)
      kept  == KeptOf(items, t, k, hint)
  IN  IF Len(group) < MinItems THEN DOMAIN group
      ELSE IF t = "num" THEN kept
      ELSE {j \in DOMAIN group : \E m \in kept : group[m] = group[j]}

\* CrushMixed, group by group.
LEMMA MixedIs ==
  ASSUME NEW items, NEW k, NEW hint
  PROVE  CrushMixed(items, k, hint) =
           IF Len(items) <= Passthrough THEN DOMAIN items
           ELSE UNION {{InOrder(OfType(items, t))[j] : j \in Picked(items, t, k, hint)} :
                         t \in {items[i].t : i \in DOMAIN items}}
BY DEF CrushMixed, Picked, KeptOf, GroupOf

\* A group holds the values of its type, each of them in its place.
LEMMA GroupFacts ==
  ASSUME NEW items, IsSeq(items), NEW t
  PROVE  LET group == GroupOf(items, t)
             at    == InOrder(OfType(items, t))
         IN  /\ IsSeq(group) /\ DOMAIN group = DOMAIN at /\ Range(group) \subseteq Range(items)
             /\ \A j \in DOMAIN group :
                  at[j] \in DOMAIN items /\ group[j] = items[at[j]] /\ group[j].t = t
             /\ \A i \in DOMAIN items : items[i].t = t => \E j \in DOMAIN group : at[j] = i
<1> DEFINE S == OfType(items, t)
           at == InOrder(S)
           c == Cardinality(S)
           n == Len(items)
           group == GroupOf(items, t)
<1>1. n \in Nat /\ DOMAIN items = 1 .. n
  BY SeqIs
<1> HIDE DEF n
<1>2. S \in SUBSET (1 .. n) /\ \A i : i \in S <=> i \in 1 .. n /\ items[i].t = t
  BY <1>1 DEF OfType
<1> HIDE DEF S
<1>3. /\ c \in Nat /\ DOMAIN at = 1 .. c /\ at \in [1 .. c -> S]
      /\ \A i \in S : \E j \in 1 .. c : at[j] = i
  BY <1>1, <1>2, InOrderFacts
<1>4. group = [j \in DOMAIN at |-> items[at[j]]]
  BY DEF GroupOf, S
<1> HIDE DEF at, c, group
<1>5. DOMAIN group = 1 .. c /\ \A j \in 1 .. c : group[j] = items[at[j]] /\ at[j] \in S
  BY <1>3, <1>4
<1>6. group \in [1 .. c -> Range(group)]
  BY <1>3, <1>4 DEF Range
<1>7. IsSeq(group)
  <2> DEFINE R == Range(group)
  <2> HIDE DEF R
  <2>1. group \in [1 .. c -> R]
    BY <1>6 DEF R
  <2>2. QED
    BY <1>3, <2>1, FcnIsSeq, SeqFacts
<1>8. Range(group) \subseteq Range(items)
  <2>1. ASSUME NEW j \in DOMAIN group PROVE group[j] \in Range(items)
    BY <1>1, <1>2, <1>5, <2>1 DEF Range
  <2>2. QED
    BY <2>1 DEF Range
<1>9. /\ DOMAIN group = DOMAIN at
      /\ \A j \in DOMAIN group :
           at[j] \in DOMAIN items /\ group[j] = items[at[j]] /\ group[j].t = t
  BY <1>1, <1>2, <1>3, <1>5
<1>10. \A i \in DOMAIN items : items[i].t = t => \E j \in DOMAIN group : at[j] = i
  BY <1>1, <1>2, <1>3, <1>5
<1>11. QED
  BY <1>7, <1>8, <1>9, <1>10 DEF at, S, group

\* A mixed array keeps the strings that tell of errors, everything that is
\* neither record, string nor number, and something of every type.
LEMMA MixedKeeps ==
  ASSUME NEW v, IsJson(v), NEW items, IsSeq(items), Range(items) \subseteq Within(v),
         NEW k, NEW hint, NEW i \in DOMAIN items
  PROVE  /\ items[i].t \notin {"obj", "str", "num"} => i \in CrushMixed(items, k, hint)
         /\ items[i].t = "str" /\ items[i].err => i \in CrushMixed(items, k, hint)
         /\ \E j \in CrushMixed(items, k, hint) : j \in DOMAIN items /\ items[j].t = items[i].t
<1> DEFINE t == items[i].t
           at == InOrder(OfType(items, t))
           group == GroupOf(items, t)
           size == SizeOf(group, k)
           kept == KeptOf(items, t, k, hint)
           picked == Picked(items, t, k, hint)
           mixed == CrushMixed(items, k, hint)
<1>1. /\ IsSeq(group) /\ DOMAIN group = DOMAIN at /\ Range(group) \subseteq Within(v)
      /\ \A j \in DOMAIN group :
           at[j] \in DOMAIN items /\ group[j] = items[at[j]] /\ group[j].t = t
      /\ \E j \in DOMAIN group : at[j] = i
  <2> HIDE DEF t
  <2>1. t = items[i].t
    BY DEF t
  <2>2. QED
    BY <2>1, GroupFacts
<1>2. PICK p \in DOMAIN group : at[p] = i
  BY <1>1
<1>3. group[p] = items[i]
  BY <1>1, <1>2
<1>4. CASE Len(items) <= Passthrough
  BY <1>4, MixedIs
<1>5. CASE ~(Len(items) <= Passthrough)
  <2>1. \A j \in picked : at[j] \in mixed
    <3>1. mixed = UNION {{InOrder(OfType(items, u))[j] : j \in Picked(items, u, k, hint)} :
                           u \in {items[x].t : x \in DOMAIN items}}
      BY <1>5, MixedIs
    <3>2. t \in {items[x].t : x \in DOMAIN items}
      OBVIOUS
    <3> HIDE DEF t
    <3>3. QED
      BY <3>1, <3>2
  <2>2. Len(group) \in Nat /\ DOMAIN group = 1 .. Len(group)
    BY <1>1, SeqIs
  <2>3. Len(group) # 0
    BY <1>2, <2>2
  <2>4. size \in Nat \ {0}
    <3> HIDE DEF group
    <3>1. QED
      BY <1>1, <2>3, SizeFacts
  <2>5. kept = CASE t = "obj" -> CrushRecords(group, size, hint)
                 [] t = "str" -> CrushStrings(group, size)
                 [] t = "num" -> MixedNumbers(group, size)
                 [] OTHER     -> DOMAIN group
    BY DEF KeptOf
  <2>6. picked = IF Len(group) < MinItems THEN DOMAIN group
                 ELSE IF t = "num" THEN kept
                 ELSE {j \in DOMAIN group : \E m \in kept : group[m] = group[j]}
    BY DEF Picked
  <2>7. mixed \subseteq DOMAIN items
    BY SampleFacts
  <2> HIDE DEF group, size, kept, picked, at, mixed
  <2>8. /\ CrushRecords(group, size, hint) \subseteq DOMAIN group
        /\ CrushStrings(group, size) \subseteq DOMAIN group
    BY <1>1, SampleFacts
  <2>9. CrushRecords(group, size, hint) # {}
    BY <1>1, <2>3, <2>4, RecordsFacts
  <2>10. /\ CrushStrings(group, size) # {} /\ MixedNumbers(group, size) # {}
         /\ group[p].err => p \in CrushStrings(group, size)
         /\ MixedNumbers(group, size) \subseteq DOMAIN group
    BY <1>1, <1>2, <2>3, <2>4, SamplesKeep
  <2> HIDE DEF t
  <2>11. t \notin {"obj", "str", "num"} \/ (t = "str" /\ group[p].err) => p \in picked
    BY <1>2, <2>5, <2>6, <2>10
  <2>12. picked # {}
    <3>1. kept # {}
      BY <1>2, <2>5, <2>9, <2>10
    <3>2. t # "num" => kept \subseteq DOMAIN group
      BY <2>5, <2>8
    <3>3. QED
      BY <1>2, <2>6, <3>1, <3>2
  <2>13. picked \subseteq DOMAIN group
    BY <2>5, <2>6, <2>8, <2>10
  <2>14. \E j \in mixed : j \in DOMAIN items /\ items[j].t = t
    <3>1. PICK j \in DOMAIN group : j \in picked
      BY <2>12, <2>13
    <3>2. at[j] \in mixed /\ at[j] \in DOMAIN items /\ items[at[j]].t = t
      BY <1>1, <2>1, <3>1
    <3>3. QED
      BY <3>2
  <2>15. t \notin {"obj", "str", "num"} \/ (t = "str" /\ items[i].err) => i \in mixed
    BY <1>2, <1>3, <2>1, <2>11
  <2>16. QED
    BY <2>14, <2>15 DEF t, mixed
<1>6. QED
  BY <1>4, <1>5

\* Of which type the items of an array are, where it is only one.
LEMMA TypeFacts ==
  ASSUME NEW v, IsJson(v), NEW items, IsSeq(items), Range(items) \subseteq Within(v)
  PROVE  ArrayType(items) \in {"obj", "str", "num"} =>
           \A i \in DOMAIN items : items[i].t = ArrayType(items)
<1> DEFINE types == {items[i].t : i \in DOMAIN items}
<1>1. Len(items) \in Nat /\ DOMAIN items = 1 .. Len(items)
  BY SeqIs
<1>2. IsFiniteSet(types)
  <2> DEFINE f == [i \in DOMAIN items |-> items[i].t]
  <2>1. IsFiniteSet(1 .. Len(items))
    BY <1>1, FS_Interval
  <2>2. IsFiniteSet({f[i] : i \in DOMAIN f})
    BY <1>1, <2>1, FiniteImage
  <2>3. types = {f[i] : i \in DOMAIN f}
    OBVIOUS
  <2>4. QED
    BY <2>2, <2>3
<1>3. ArrayType(items) = IF Cardinality(types) = 1 THEN CHOOSE t \in types : TRUE
                         ELSE IF types = {} THEN "empty" ELSE "mixed"
  BY DEF ArrayType
<1>4. \A i \in DOMAIN items : items[i].t \in types
  OBVIOUS
<1> HIDE DEF types
<1>5. CASE Cardinality(types) = 1
  <2>1. PICK x : types = {x}
    BY <1>2, <1>5, FS_Singleton
  <2>2. ArrayType(items) = x
    BY <1>3, <1>5, <2>1
  <2>3. QED
    BY <1>4, <2>1, <2>2
<1>6. CASE Cardinality(types) # 1
  BY <1>3, <1>6
<1>7. QED
  BY <1>5, <1>6

\* Less is reached if the records of arrays are left out.
LEMMA ReachedLess ==
  ASSUME NEW v, NEW n \in 0 .. Nesting
  PROVE  Reached(v, FALSE)[n] \subseteq Reached(v, TRUE)[n]
<1>1. PICK all, some : all = TRUE /\ some = FALSE
  OBVIOUS
<1> DEFINE g == Reached(v, all)
           h == Reached(v, some)
           G == {k \in Nat : k <= Nesting => h[k] \subseteq g[k]}
<1>2. Nesting \in Nat
  BY CrusherAssumption
<1>3. /\ g[0] = {v} /\ h[0] = {v}
      /\ \A k \in 1 .. Nesting :
           /\ g[k] = g[k - 1] \cup UNION {Parts(w, all) : w \in g[k - 1]}
           /\ h[k] = h[k - 1] \cup UNION {Parts(w, some) : w \in h[k - 1]}
  BY ReachedSteps
<1>4. \A w : Parts(w, some) \subseteq Parts(w, all)
  BY <1>1, PartsFacts
<1> HIDE DEF g, h
<1>5. 0 \in G
  BY <1>3
<1>6. ASSUME NEW k \in G PROVE k + 1 \in G
  <2> SUFFICES ASSUME k + 1 <= Nesting PROVE h[k + 1] \subseteq g[k + 1]
    OBVIOUS
  <2>1. k \in Nat /\ k <= Nesting /\ k + 1 \in 1 .. Nesting /\ (k + 1) - 1 = k
    BY <1>2
  <2>2. h[k] \subseteq g[k]
    BY <2>1
  <2>3. /\ g[k + 1] = g[k] \cup UNION {Parts(w, all) : w \in g[k]}
        /\ h[k + 1] = h[k] \cup UNION {Parts(w, some) : w \in h[k]}
    BY <1>3, <2>1
  <2>4. QED
    BY <1>4, <2>2, <2>3
<1>7. G \in SUBSET Nat
  OBVIOUS
<1>8. n \in G
  <2> HIDE DEF G
  <2>1. n \in Nat
    BY <1>2
  <2>2. QED
    BY <1>5, <1>6, <1>7, <2>1, FromZero
<1>9. n <= Nesting
  BY <1>2
<1>10. QED
  BY <1>1, <1>8, <1>9 DEF g, h

\* Nothing else is reached from a value without children.
LEMMA ReachedLeaf ==
  ASSUME NEW v, v.t \notin {"arr", "obj"}, NEW all, NEW n \in 0 .. Nesting
  PROVE  Reached(v, all)[n] = {v}
<1>1. Children(v) = <<>> /\ Range(<<>>) = {}
  BY EmptyIs DEF Children, Range
<1>2. Parts(v, all) = {}
  BY <1>1 DEF Parts
<1>3. CASE n = 0
  BY <1>3, ReachedSteps
<1>4. CASE n # 0
  <2>1. n \in 1 .. Nesting
    BY <1>4, CrusherAssumption
  <2>2. \A u : u \in Reached(v, all)[n] <=> u = v
    BY <1>2, <2>1, ReachedTop
  <2>3. QED
    BY <2>2
<1>5. QED
  BY <1>3, <1>4

\* A string that tells of an error; that it is there, within n steps.
Error(u) == u.t = "str" /\ u.err

Tells(s, v, n) == \E u \in Reached(v, TRUE)[n] : Error(u) /\ u.str = s

\* What a child tells the value tells.
LEMMA TellsUp ==
  ASSUME NEW n \in 1 .. Nesting, NEW s, NEW v, NEW c \in Range(Children(v)), Tells(s, c, n - 1)
  PROVE  Tells(s, v, n)
<1>1. PICK u \in Reached(c, TRUE)[n - 1] : Error(u) /\ u.str = s
  BY DEF Tells
<1>2. PICK all : all = TRUE
  OBVIOUS
<1>3. c \in Parts(v, all)
  BY <1>2, PartsFacts
<1>4. u \in Reached(v, all)[n]
  BY <1>1, <1>2, <1>3, ReachedTop
<1>5. QED
  BY <1>1, <1>2, <1>4 DEF Tells

\* An element of a sequence is one of a sample if its position is kept.
LEMMA SubKeeps ==
  ASSUME NEW items, IsSeq(items), NEW kept \in SUBSET DOMAIN items, NEW i \in kept
  PROVE  items[i] \in Range(Sub(items, kept))
<1>1. Range(Sub(items, kept)) = {items[j] : j \in kept}
  BY SubFacts
<1>2. QED
  BY <1>1

\* What every value but a record in an array has left of its error texts, once
\* its children have been processed so.
LEMMA StepTells ==
  ASSUME NEW v, IsJson(v), NEW w \in Within(v), NEW k, NEW hint, NEW emit,
         NEW results, IsSeq(results), DOMAIN results = DOMAIN Children(w),
         NEW n \in 1 .. Nesting,
         \A i \in DOMAIN results : \A u \in Reached(Children(w)[i], FALSE)[n - 1] :
           Error(u) => Tells(u.str, results[i].value, n - 1),
         NEW u \in Reached(w, FALSE)[n], Error(u)
  PROVE  Tells(u.str, ProcessValue(w, results, k, hint, emit).value, n)
<1> DEFINE p == ProcessValue(w, results, k, hint, emit)
           items == w.items
           size == SizeOf(items, k)
           type == ArrayType(items)
           sampled(kept) == [[value |-> w, saves |-> <<>>] EXCEPT !.value.items = Sub(items, kept)]
           new == Values(results)
<1>1. n \in 0 .. Nesting /\ n - 1 \in 0 .. Nesting
  BY CrusherAssumption
<1>2. /\ IsSeq(Children(w)) /\ Range(Children(w)) \subseteq Within(v)
  BY WithinPart
<1>3. CASE u = w
  <2>1. w.t = "str"
    BY <1>3 DEF Error
  <2>2. p.value = w
    BY <2>1 DEF ProcessValue
  <2>3. w \in Reached(w, TRUE)[n]
    BY <1>1, ReachedGrows
  <2> HIDE DEF p
  <2>4. Tells(u.str, p.value, n)
    BY <1>3, <2>2, <2>3 DEF Tells
  <2>5. QED
    BY <2>4 DEF p
<1>4. CASE u # w
  <2>1. PICK i \in DOMAIN Children(w) :
          /\ u \in Reached(Children(w)[i], FALSE)[n - 1]
          /\ w.t = "arr" => Children(w)[i].t # "obj"
    <3>1. PICK some : some = FALSE
      OBVIOUS
    <3>2. PICK c \in Parts(w, some) : u \in Reached(c, some)[n - 1]
      <4>1. u \in Reached(w, some)[n] <=>
              u = w \/ \E c \in Parts(w, some) : u \in Reached(c, some)[n - 1]
        BY ReachedTop
      <4>2. QED
        BY <1>4, <3>1, <4>1
    <3>3. c \in Range(Children(w)) /\ (w.t = "arr" => c.t # "obj")
      BY <3>1, <3>2 DEF Parts
    <3>4. QED
      BY <3>1, <3>2, <3>3 DEF Range
  <2> DEFINE c == Children(w)[i]
  <2>2. c \in Within(v)
    BY <1>2 DEF Range
  <2>3. c.t \notin {"arr", "obj"} => u = c
    <3>1. PICK some : some = FALSE
      OBVIOUS
    <3>2. u \in Reached(c, some)[n - 1]
      BY <2>1, <3>1
    <3> HIDE DEF c
    <3>3. QED
      BY <1>1, <3>2, ReachedLeaf
  <2>4. Tells(u.str, c, n - 1)
    BY <1>1, <2>1, ReachedLess DEF Tells
  <2>5. Tells(u.str, results[i].value, n - 1)
    BY <2>1
  <2>6. new[i] = results[i].value /\ IsSeq(new) /\ DOMAIN new = DOMAIN results /\ i \in DOMAIN new
    BY ValuesFacts
  <2> HIDE DEF new
  <2>7. CASE w.t = "arr"
    <3>1. Children(w) = items
      BY <2>7 DEF Children
    <3>2. IsSeq(items) /\ Range(items) \subseteq Within(v) /\ i \in DOMAIN items /\ c = items[i]
      BY <1>2, <3>1
    <3>3. c.t # "obj" /\ (c.t \in {"str", "num"} => c.t = "str" /\ c.err)
      BY <2>1, <2>3, <2>7 DEF Error
    <3> HIDE DEF c
    <3>4. ASSUME NEW s, NEW x, x = [w EXCEPT !.items = s],
                 NEW d \in Range(s), Tells(u.str, d, n - 1)
          PROVE  Tells(u.str, x, n)
      <4>1. Children(x) = s
        BY <2>7, <3>4, ReplacedItems
      <4>2. d \in Range(Children(x))
        BY <3>4, <4>1
      <4>3. QED
        BY <3>4, <4>2, TellsUp
    <3>5. CASE Len(items) >= MinItems /\ type = "obj"
      BY <3>2, <3>3, <3>5, TypeFacts
    <3>6. CASE Len(items) >= MinItems /\ type = "num"
      BY <3>2, <3>3, <3>6, TypeFacts
    <3>7. CASE Len(items) >= MinItems /\ type = "str"
      <4> DEFINE kept == CrushStrings(items, size)
      <4>1. p = sampled(kept)
        BY <2>7, <3>7 DEF ProcessValue
      <4>2. p.value = [w EXCEPT !.items = Sub(items, kept)]
        BY <4>1
      <4>3. c.t = "str"
        BY <3>2, <3>7, TypeFacts
      <4> HIDE DEF size
      <4>4. kept \in SUBSET DOMAIN items /\ i \in kept
        BY <3>2, <3>3, <4>3, SampleFacts, SamplesKeep
      <4> HIDE DEF kept, p
      <4>5. c \in Range(Sub(items, kept))
        BY <3>2, <4>4, SubKeeps
      <4>6. Tells(u.str, p.value, n)
        BY <2>4, <3>4, <4>2, <4>5
      <4>7. QED
        BY <4>6 DEF p
    <3>8. CASE Len(items) >= MinItems /\ type = "mixed"
      <4> DEFINE kept == CrushMixed(items, k, hint)
      <4>1. p = ProcessMixed(w, k, hint, emit)
        BY <2>7, <3>8 DEF ProcessValue
      <4>2. p.value = [w EXCEPT !.items = Sub(items, kept)]
        BY <4>1 DEF ProcessMixed
      <4>3. kept \in SUBSET DOMAIN items /\ i \in kept
        BY <3>2, <3>3, SampleFacts, MixedKeeps
      <4> HIDE DEF kept, p
      <4>4. c \in Range(Sub(items, kept))
        BY <3>2, <4>3, SubKeeps
      <4>5. Tells(u.str, p.value, n)
        BY <2>4, <3>4, <4>2, <4>4
      <4>6. QED
        BY <4>5 DEF p
    <3>9. CASE ~(Len(items) >= MinItems /\ type \in {"obj", "str", "num", "mixed"})
      <4>1. p = [value |-> [w EXCEPT !.items = new], saves |-> Saves(results)]
        BY <2>7, <3>9 DEF ProcessValue, new
      <4> HIDE DEF p
      <4>2. p.value = [w EXCEPT !.items = new]
        BY <4>1
      <4>3. new[i] \in Range(new)
        BY <2>6 DEF Range
      <4>4. Tells(u.str, p.value, n)
        BY <2>5, <2>6, <3>4, <4>2, <4>3
      <4>5. QED
        BY <4>4 DEF p
    <3>10. QED
      BY <3>5, <3>6, <3>7, <3>8, <3>9
  <2>8. CASE w.t = "obj"
    <3> DEFINE kept == CrushFields(new, SizeOf(new, k))
    <3>1. \/ p = [value |-> [w EXCEPT !.fields = new], saves |-> Saves(results)]
          \/ p = [value |-> [w EXCEPT !.fields = Sub(new, kept)], saves |-> Saves(results)]
      BY <2>8 DEF ProcessValue, new
    <3>2. HasError(new[i])
      <4>1. PICK x \in Reached(new[i], TRUE)[n - 1] : Error(x)
        BY <2>5, <2>6 DEF Tells
      <4>2. PICK all : all = TRUE
        OBVIOUS
      <4>3. x \in Spread(new[i], all)
        BY <1>1, <4>1, <4>2, ReachedGrows
      <4>4. x \in Within(new[i])
        BY <4>2, <4>3, PartsFacts
      <4>5. QED
        BY <4>1, <4>4 DEF HasError, Error
    <3>3. kept \in SUBSET DOMAIN new /\ i \in kept
      BY <2>6, <3>2, SampleFacts, SamplesKeep
    <3> HIDE DEF kept, p
    <3>4. PICK s : p.value = [w EXCEPT !.fields = s] /\ new[i] \in Range(s)
      <4>1. new[i] \in Range(new) /\ new[i] \in Range(Sub(new, kept))
        BY <2>6, <3>3, SubKeeps DEF Range
      <4>2. QED
        BY <3>1, <4>1
    <3>5. Children(p.value) = s
      BY <2>8, <3>4, ReplacedFields
    <3>6. Tells(u.str, p.value, n)
      BY <2>5, <2>6, <3>4, <3>5, TellsUp
    <3>7. QED
      BY <3>6 DEF p
  <2>9. CASE w.t \notin {"arr", "obj"}
    <3>1. PICK some : some = FALSE
      OBVIOUS
    <3>2. u \in Reached(w, some)[n]
      BY <3>1
    <3>3. QED
      BY <1>1, <1>4, <2>9, <3>2, ReachedLeaf
  <2>10. QED
    BY <2>7, <2>8, <2>9
<1>5. QED
  BY <1>3, <1>4

\* What the whole recursion has left of the error texts of a value.
LEMMA CrushTells ==
  ASSUME NEW v, IsJson(v), NEW k, NEW hint, NEW emit,
         NEW s \in Exposed(v)
  PROVE  s \in ErrorTexts(Crush(v, k, hint, emit).value)
<1>1. PICK g : /\ Crush(v, k, hint, emit) = g[MaxDepth][v]
               /\ \A w \in Within(v) : g[0][w] = [value |-> w, saves |-> <<>>]
               /\ \A n \in 1 .. MaxDepth : \A w \in Within(v) :
                    g[n][w] = ProcessValue(w, Below(g, n, w), k, hint, emit)
  BY CrushSteps
<1>2. MaxDepth \in Nat /\ Nesting \in Nat
  BY CrusherAssumption
<1> DEFINE Rest(n, w, m) == \A u \in Reached(w, FALSE)[m] : Error(u) => Tells(u.str, g[n][w].value, m)
           G == {m \in Nat : m <= Nesting =>
                               \A n \in 0 .. MaxDepth : \A w \in Within(v) : Rest(n, w, m)}
<1>3. ASSUME NEW w \in Within(v), NEW m \in 0 .. Nesting PROVE Rest(0, w, m)
  <2>1. g[0][w] = [value |-> w, saves |-> <<>>]
    BY <1>1
  <2>2. g[0][w].value = w
    BY <2>1
  <2>3. QED
    BY <2>2, ReachedLess DEF Tells
<1>4. 0 \in G
  <2> SUFFICES ASSUME NEW n \in 0 .. MaxDepth, NEW w \in Within(v),
                      NEW u \in Reached(w, FALSE)[0], Error(u)
               PROVE  Tells(u.str, g[n][w].value, 0)
    OBVIOUS
  <2>1. CASE n = 0
    <3>1. 0 \in 0 .. Nesting
      BY <1>2
    <3>2. QED
      BY <1>3, <2>1, <3>1
  <2>2. CASE n # 0
    <3>1. PICK some : some = FALSE
      OBVIOUS
    <3>2. u = w
      BY <3>1, ReachedSteps
    <3>3. n \in 1 .. MaxDepth
      BY <1>2, <2>2
    <3>4. g[n][w] = ProcessValue(w, Below(g, n, w), k, hint, emit)
      BY <1>1, <3>3
    <3>5. ProcessValue(w, Below(g, n, w), k, hint, emit).value = w
      BY <3>2 DEF Error, ProcessValue
    <3>6. PICK all : all = TRUE
      OBVIOUS
    <3>7. w \in Reached(w, all)[0]
      BY ReachedSteps
    <3>8. QED
      BY <3>2, <3>4, <3>5, <3>6, <3>7 DEF Tells
  <2>3. QED
    BY <2>1, <2>2
<1>5. ASSUME NEW m \in G PROVE m + 1 \in G
  <2> HIDE DEF Rest
  <2> SUFFICES ASSUME m + 1 <= Nesting, NEW n \in 0 .. MaxDepth, NEW w \in Within(v)
               PROVE  Rest(n, w, m + 1)
    OBVIOUS
  <2>1. /\ m \in Nat /\ m <= Nesting /\ m + 1 \in 1 .. Nesting /\ (m + 1) - 1 = m
        /\ m + 1 \in 0 .. Nesting
    BY <1>2
  <2>2. CASE n = 0
    BY <1>3, <2>1, <2>2
  <2>3. CASE n # 0
    <3>1. n \in 1 .. MaxDepth /\ n - 1 \in 0 .. MaxDepth
      BY <1>2, <2>3
    <3> DEFINE cs == Children(w)
               r  == Below(g, n, w)
    <3>2. IsSeq(cs) /\ \A i \in DOMAIN cs : cs[i] \in Within(v)
      <4>1. IsSeq(Children(w)) /\ Range(Children(w)) \subseteq Within(v)
        BY DEF IsJson
      <4>2. \A i \in DOMAIN cs : cs[i] \in Range(cs)
        <5> HIDE DEF cs
        <5>1. QED
          BY DEF Range
      <4>3. QED
        BY <4>1, <4>2
    <3>3. r = [i \in DOMAIN cs |-> g[n - 1][cs[i]]]
      BY DEF Below
    <3>4. IsSeq(r) /\ DOMAIN r = DOMAIN cs
      <4> DEFINE l == Len(cs)
      <4>1. l \in Nat /\ DOMAIN cs = 1 .. l
        BY <3>2, SeqIs
      <4> HIDE DEF l, cs, r
      <4>2. r \in [1 .. l -> Range(r)] /\ DOMAIN r = DOMAIN cs
        BY <3>3, <4>1 DEF Range
      <4>3. QED
        BY <4>1, <4>2, FcnIsSeq, SeqFacts
    <3>5. \A c \in Within(v) : Rest(n - 1, c, m)
      BY <2>1, <3>1
    <3>6. g[n][w] = ProcessValue(w, r, k, hint, emit)
      BY <1>1, <3>1
    <3> HIDE DEF r
    <3>7. \A i \in DOMAIN r : Rest(n - 1, cs[i], m) /\ r[i] = g[n - 1][cs[i]]
      BY <3>2, <3>3, <3>4, <3>5
    <3>8. \A i \in DOMAIN r : \A u \in Reached(cs[i], FALSE)[(m + 1) - 1] :
            Error(u) => Tells(u.str, r[i].value, (m + 1) - 1)
      <4> HIDE DEF cs
      <4>1. QED
        BY <2>1, <3>7 DEF Rest
    <3>9. \A u \in Reached(w, FALSE)[m + 1] :
            Error(u) => Tells(u.str, ProcessValue(w, r, k, hint, emit).value, m + 1)
      <4>1. ASSUME NEW u \in Reached(w, FALSE)[m + 1], Error(u)
            PROVE  Tells(u.str, ProcessValue(w, r, k, hint, emit).value, m + 1)
        BY <2>1, <3>4, <3>8, <4>1, StepTells
      <4>2. QED
        BY <4>1
    <3>10. QED
      BY <3>6, <3>9 DEF Rest
  <2>4. QED
    BY <2>2, <2>3
<1>6. G \in SUBSET Nat
  OBVIOUS
<1>7. Nesting \in G
  <2> HIDE DEF G
  <2>1. QED
    BY <1>2, <1>4, <1>5, <1>6, FromZero
<1>8. v \in Within(v) /\ MaxDepth \in 0 .. MaxDepth
  BY <1>2, WithinFacts
<1>9. Rest(MaxDepth, v, Nesting)
  <2> HIDE DEF Rest
  <2>1. QED
    BY <1>2, <1>7, <1>8
<1>10. PICK u \in Reached(v, FALSE)[Nesting] : Error(u) /\ u.str = s
  <2>1. PICK some : some = FALSE
    OBVIOUS
  <2>2. PICK u \in Spread(v, some) : Error(u) /\ u.str = s
    BY <2>1 DEF Exposed, Error
  <2>3. u \in Reached(v, some)[Nesting]
    BY ReachedSteps
  <2>4. QED
    BY <2>1, <2>2, <2>3
<1>11. PICK x \in Reached(Crush(v, k, hint, emit).value, TRUE)[Nesting] : Error(x) /\ x.str = s
  BY <1>1, <1>9, <1>10 DEF Tells
<1>12. PICK all : all = TRUE
  OBVIOUS
<1>13. x \in Spread(Crush(v, k, hint, emit).value, all)
  BY <1>11, <1>12, ReachedSteps
<1>14. x \in Within(Crush(v, k, hint, emit).value)
  BY <1>12, <1>13, PartsFacts
<1>15. QED
  BY <1>11, <1>14 DEF ErrorTexts, Error

\* Every string that tells of an error, outside of the records of an array, is
\* in what is emitted, however deep it is and whatever is sampled around it
\* (smart_crusher.rs, crush_string_array, crush_object and crush_mixed_array).
THEOREM ErrorTextsKept == Spec => []ErrorTextsSurvive
<1>1. PipeInv => ErrorTextsSurvive
  <2> SUFFICES ASSUME PipeInv, NEW i \in DOMAIN out, By(i, "smart_crusher"),
                      NEW s \in Exposed(Json(i))
               PROVE  s \in ErrorTexts(out[i].text.left)
    BY DEF ErrorTextsSurvive
  <2>1. PICK k : /\ IsJson(Json(i))
                 /\ out[i].text.left =
                      Crush(Json(i), k, config.hint, config.reversible).value
    BY CrushedFacts
  <2>2. QED
    BY <2>1, CrushTells
<1>2. QED
  BY <1>1, PipeAlways, PTL

\* What is left of a value has its type.
LEMMA TypeKept ==
  ASSUME NEW v, IsJson(v), NEW w \in Within(v), NEW results, IsSeq(results),
         NEW k, NEW hint, NEW emit
  PROVE  ProcessValue(w, results, k, hint, emit).value.t = w.t
<1> DEFINE p == ProcessValue(w, results, k, hint, emit)
<1>1. \/ p.value = w
      \/ w.t = "arr" /\ (Kept(w, p) \/ Cut(w, p) \/ ItemsOf(w, results, p))
      \/ w.t = "obj" /\ FieldsOf(w, results, p)
  BY ShapeFacts
<1>2. /\ w.t = "arr" => {"t", "items"} \subseteq DOMAIN w
      /\ w.t = "obj" => {"t", "fields"} \subseteq DOMAIN w
  BY DEF IsJson
<1> HIDE DEF p
<1>3. \/ p.value = w
      \/ w.t = "arr" /\ \E s : p.value = [w EXCEPT !.items = s]
      \/ w.t = "obj" /\ \E s : p.value = [w EXCEPT !.fields = s]
  BY <1>1 DEF Kept, Cut, ItemsOf, FieldsOf
<1>4. p.value.t = w.t
  BY <1>2, <1>3
<1>5. QED
  BY <1>4 DEF p

\* What an array has left has every type of its items.
LEMMA StepKinds ==
  ASSUME NEW v, IsJson(v), NEW w \in Within(v), w.t = "arr", NEW k, NEW hint, NEW emit,
         NEW results, IsSeq(results), DOMAIN results = DOMAIN Children(w),
         \A i \in DOMAIN results : results[i].value.t = Children(w)[i].t,
         NEW i \in DOMAIN w.items
  PROVE  \E x \in Range(ProcessValue(w, results, k, hint, emit).value.items) : x.t = w.items[i].t
<1> DEFINE p == ProcessValue(w, results, k, hint, emit)
           items == w.items
           size == SizeOf(items, k)
           type == ArrayType(items)
           sampled(kept) == [[value |-> w, saves |-> <<>>] EXCEPT !.value.items = Sub(items, kept)]
           new == Values(results)
<1>1. IsSeq(items) /\ Range(items) \subseteq Within(v) /\ Children(w) = items
  BY WithinPart DEF Children
<1>2. Len(items) # 0
  BY <1>1, SeqIs
<1>3. size \in Nat \ {0}
  BY <1>1, <1>2, SizeFacts
<1>4. ASSUME NEW s, NEW x, x = [w EXCEPT !.items = s], NEW d \in Range(s), d.t = items[i].t
      PROVE  \E y \in Range(x.items) : y.t = items[i].t
  <2>1. x.items = s
    BY <1>4, ReplacedItems
  <2>2. QED
    BY <1>4, <2>1
<1>5. ASSUME type \in {"obj", "str", "num"}, NEW kept \in SUBSET DOMAIN items, kept # {}
      PROVE  \E d \in Range(Sub(items, kept)) : d.t = items[i].t
  <2>1. PICK j \in kept : TRUE
    BY <1>5
  <2>2. items[j] \in Range(Sub(items, kept))
    BY <1>1, <2>1, SubKeeps
  <2>3. items[j].t = type /\ items[i].t = type
    BY <1>1, <1>5, <2>1, TypeFacts
  <2>4. QED
    BY <2>2, <2>3
<1> HIDE DEF items, type, size
<1>6. CASE Len(items) >= MinItems /\ type = "obj"
  <2> DEFINE kept == CrushRecords(items, size, hint)
  <2>1. p = ProcessRecords(w, k, hint, emit)
    BY <1>6 DEF ProcessValue, items, type
  <2>2. \/ p.value = [w EXCEPT !.items = Sub(items, kept)]
        \/ p.value = [w EXCEPT !.items = Append(Sub(items, kept), Dropped(items))]
    BY <2>1 DEF ProcessRecords, Dropped, items, size
  <2>3. kept \in SUBSET DOMAIN items /\ kept # {}
    BY <1>1, <1>2, <1>3, RecordsFacts
  <2> HIDE DEF kept, p
  <2>4. PICK d \in Range(Sub(items, kept)) : d.t = items[i].t
    BY <1>5, <1>6, <2>3
  <2>5. IsSeq(Sub(items, kept))
    BY <1>1, <2>3, SubFacts
  <2>6. d \in Range(Append(Sub(items, kept), Dropped(items)))
    BY <2>4, <2>5, Appended
  <2>7. \E y \in Range(p.value.items) : y.t = items[i].t
    BY <1>4, <2>2, <2>4, <2>6
  <2>8. QED
    BY <2>7 DEF p, items
<1>7. CASE Len(items) >= MinItems /\ type = "str"
  <2> DEFINE kept == CrushStrings(items, size)
  <2>1. p = sampled(kept)
    BY <1>7 DEF ProcessValue, items, type, size
  <2>2. p.value = [w EXCEPT !.items = Sub(items, kept)]
    BY <2>1
  <2>3. kept \in SUBSET DOMAIN items /\ kept # {}
    BY <1>1, <1>2, <1>3, SampleFacts, SamplesKeep
  <2> HIDE DEF kept, p
  <2>4. \E d \in Range(Sub(items, kept)) : d.t = items[i].t
    BY <1>5, <1>7, <2>3
  <2>5. \E y \in Range(p.value.items) : y.t = items[i].t
    BY <1>4, <2>2, <2>4
  <2>6. QED
    BY <2>5 DEF p, items
<1>8. CASE Len(items) >= MinItems /\ type = "num"
  <2> DEFINE kept == CrushNumbers(items, size)
  <2>1. p = sampled(kept)
    BY <1>8 DEF ProcessValue, items, type, size
  <2>2. p.value = [w EXCEPT !.items = Sub(items, kept)]
    BY <2>1
  <2>3. kept \in SUBSET DOMAIN items /\ kept # {}
    BY <1>1, <1>2, <1>3, SampleFacts, SamplesKeep
  <2> HIDE DEF kept, p
  <2>4. \E d \in Range(Sub(items, kept)) : d.t = items[i].t
    BY <1>5, <1>8, <2>3
  <2>5. \E y \in Range(p.value.items) : y.t = items[i].t
    BY <1>4, <2>2, <2>4
  <2>6. QED
    BY <2>5 DEF p, items
<1>9. CASE Len(items) >= MinItems /\ type = "mixed"
  <2> DEFINE kept == CrushMixed(items, k, hint)
  <2>1. p = ProcessMixed(w, k, hint, emit)
    BY <1>9 DEF ProcessValue, items, type
  <2>2. p.value = [w EXCEPT !.items = Sub(items, kept)]
    BY <2>1 DEF ProcessMixed, items
  <2>3. kept \in SUBSET DOMAIN items
    BY <1>1, SampleFacts
  <2>4. PICK j \in kept : items[j].t = items[i].t
    <3>1. i \in DOMAIN items
      BY DEF items
    <3>2. QED
      BY <1>1, <3>1, MixedKeeps
  <2> HIDE DEF kept, p
  <2>5. items[j] \in Range(Sub(items, kept))
    BY <1>1, <2>3, <2>4, SubKeeps
  <2>6. \E y \in Range(p.value.items) : y.t = items[i].t
    BY <1>4, <2>2, <2>4, <2>5
  <2>7. QED
    BY <2>6 DEF p, items
<1>10. CASE ~(Len(items) >= MinItems /\ type \in {"obj", "str", "num", "mixed"})
  <2>1. p = [value |-> [w EXCEPT !.items = new], saves |-> Saves(results)]
    BY <1>10 DEF ProcessValue, items, type
  <2>2. p.value = [w EXCEPT !.items = new]
    BY <2>1
  <2>3. i \in DOMAIN results /\ results[i].value.t = items[i].t
    BY <1>1 DEF items
  <2>4. new[i] = results[i].value /\ i \in DOMAIN new
    BY <2>3, ValuesFacts
  <2> HIDE DEF new, p
  <2>5. new[i] \in Range(new)
    BY <2>4 DEF Range
  <2>6. \E y \in Range(p.value.items) : y.t = items[i].t
    BY <1>4, <2>2, <2>3, <2>4, <2>5
  <2>7. QED
    BY <2>6 DEF p, items
<1>11. QED
  BY <1>6, <1>7, <1>8, <1>9, <1>10

\* No type of value vanishes from an array, whatever is sampled.
LEMMA CrushKinds ==
  ASSUME NEW v, IsJson(v), v.t = "arr", NEW k, NEW hint, NEW emit
  PROVE  {x.t : x \in Range(v.items)} \subseteq
           {x.t : x \in Range(Crush(v, k, hint, emit).value.items)}
<1>1. PICK g : /\ Crush(v, k, hint, emit) = g[MaxDepth][v]
               /\ \A w \in Within(v) : g[0][w] = [value |-> w, saves |-> <<>>]
               /\ \A n \in 1 .. MaxDepth : \A w \in Within(v) :
                    g[n][w] = ProcessValue(w, Below(g, n, w), k, hint, emit)
  BY CrushSteps
<1>2. MaxDepth \in Nat
  BY CrusherAssumption
<1>3. v \in Within(v)
  BY WithinFacts
<1>4. CASE MaxDepth = 0
  <2>1. g[0][v] = [value |-> v, saves |-> <<>>]
    BY <1>1, <1>3
  <2>2. g[0][v].value = v
    BY <2>1
  <2>3. QED
    BY <1>1, <1>4, <2>2
<1>5. CASE MaxDepth # 0
  <2> DEFINE cs == Children(v)
             r  == Below(g, MaxDepth, v)
  <2>1. MaxDepth \in 1 .. MaxDepth /\ MaxDepth - 1 \in 0 .. MaxDepth
    BY <1>2, <1>5
  <2>2. IsSeq(cs) /\ \A i \in DOMAIN cs : cs[i] \in Within(v)
    <3>1. IsSeq(Children(v)) /\ Range(Children(v)) \subseteq Within(v)
      BY <1>3, WithinPart
    <3>2. \A i \in DOMAIN cs : cs[i] \in Range(cs)
      <4> HIDE DEF cs
      <4>1. QED
        BY DEF Range
    <3>3. QED
      BY <3>1, <3>2
  <2>3. r = [i \in DOMAIN cs |-> g[MaxDepth - 1][cs[i]]]
    BY DEF Below
  <2>4. IsSeq(r) /\ DOMAIN r = DOMAIN cs
    <3> DEFINE l == Len(cs)
    <3>1. l \in Nat /\ DOMAIN cs = 1 .. l
      BY <2>2, SeqIs
    <3> HIDE DEF l, cs, r
    <3>2. r \in [1 .. l -> Range(r)] /\ DOMAIN r = DOMAIN cs
      BY <2>3, <3>1 DEF Range
    <3>3. QED
      BY <3>1, <3>2, FcnIsSeq, SeqFacts
  <2>5. ASSUME NEW w \in Within(v) PROVE g[MaxDepth - 1][w].value.t = w.t
    <3>1. CASE MaxDepth - 1 = 0
      <4>1. g[0][w] = [value |-> w, saves |-> <<>>]
        BY <1>1
      <4>2. g[0][w].value = w
        BY <4>1
      <4>3. QED
        BY <3>1, <4>2
    <3>2. CASE MaxDepth - 1 # 0
      <4> DEFINE below == Below(g, MaxDepth - 1, w)
      <4>1. MaxDepth - 1 \in 1 .. MaxDepth
        BY <1>2, <2>1, <3>2
      <4>2. g[MaxDepth - 1][w] = ProcessValue(w, below, k, hint, emit)
        BY <1>1, <4>1
      <4>3. IsSeq(below)
        <5> DEFINE ds == Children(w)
                   l == Len(ds)
                   f == g[MaxDepth - 1 - 1]
        <5>1. IsSeq(ds)
          BY WithinPart
        <5>2. below = [i \in DOMAIN ds |-> f[ds[i]]]
          BY DEF Below
        <5> HIDE DEF ds, f, below
        <5>3. l \in Nat /\ DOMAIN ds = 1 .. l
          BY <5>1, SeqIs
        <5> HIDE DEF l
        <5>4. below \in [1 .. l -> Range(below)]
          BY <5>2, <5>3 DEF Range
        <5>5. QED
          BY <5>3, <5>4, FcnIsSeq, SeqFacts
      <4> HIDE DEF below
      <4>4. ProcessValue(w, below, k, hint, emit).value.t = w.t
        BY <4>3, TypeKept
      <4>5. QED
        BY <4>2, <4>4
    <3>3. QED
      BY <3>1, <3>2
  <2>6. g[MaxDepth][v] = ProcessValue(v, r, k, hint, emit)
    BY <1>1, <1>3, <2>1
  <2> HIDE DEF r
  <2>7. \A i \in DOMAIN r : r[i].value.t = cs[i].t
    BY <2>2, <2>3, <2>4, <2>5
  <2>8. cs = v.items
    BY DEF Children
  <2>9. ASSUME NEW i \in DOMAIN v.items
        PROVE  \E x \in Range(ProcessValue(v, r, k, hint, emit).value.items) : x.t = v.items[i].t
    BY <1>3, <2>4, <2>7, StepKinds
  <2>10. QED
    BY <1>1, <2>6, <2>9 DEF Range
<1>6. QED
  BY <1>4, <1>5

\* Every type of value of an array is among what is emitted of it, for any
\* sizes and limits (smart_crusher.rs, crush_mixed_array).
THEOREM KindsKept == Spec => []KindsSurvive
<1>1. PipeInv => KindsSurvive
  <2> SUFFICES ASSUME PipeInv, NEW i \in DOMAIN out, By(i, "smart_crusher"), Json(i).t = "arr"
               PROVE  {v.t : v \in Range(Json(i).items)} \subseteq
                        {v.t : v \in Range(out[i].text.left.items)}
    BY DEF KindsSurvive
  <2>1. PICK k : /\ IsJson(Json(i))
                 /\ out[i].text.left =
                      Crush(Json(i), k, config.hint, config.reversible).value
    BY CrushedFacts
  <2>2. {x.t : x \in Range(Json(i).items)} \subseteq
          {x.t : x \in Range(Crush(Json(i), k, config.hint, config.reversible).value.items)}
    BY <2>1, CrushKinds
  <2>3. QED
    BY <2>1, <2>2
<1>2. QED
  BY <1>1, PipeAlways, PTL
-----------------------------------------------------------------------------
(* Code *)

LeftLines == [from : Nat, toks : Seq(Tokens), cut : BOOLEAN]
CodeStates == [inside : BOOLEAN, blanks : Nat, out : Seq(LeftLines)]
ScanStates == [inside : BOOLEAN, hidden : BOOLEAN, code : SUBSET Nat]
TokenStates == [inside : BOOLEAN, line : BOOLEAN, first : BOOLEAN, code : BOOLEAN,
                hidden : BOOLEAN, closed : BOOLEAN]

\* Of line n there is code left.
Has(left, n) == \E i \in DOMAIN left : left[i].from = n /\ "code" \in Range(left[i].toks)

\* What `find' answers.
LEMMA FindFacts ==
  ASSUME NEW toks \in Seq(Tokens), NEW tok
  PROVE  /\ Len(toks) \in Nat /\ Find(toks, tok) \in 0 .. Len(toks)
         /\ Find(toks, tok) = 0 => \A i \in 1 .. Len(toks) : toks[i] # tok
         /\ Find(toks, tok) # 0 => /\ toks[Find(toks, tok)] = tok
                                   /\ \A i \in 1 .. Find(toks, tok) - 1 : toks[i] # tok
<1> DEFINE I == {i \in 1 .. Len(toks) : toks[i] = tok}
           f == Find(toks, tok)
<1>1. f = IF I # {} THEN Min(I) ELSE 0
  BY DEF Find, SelectInSeq
<1>2. Len(toks) \in Nat /\ I \in SUBSET Nat
  BY LenProperties
<1>3. \A i \in 1 .. Len(toks) : i \notin I <=> toks[i] # tok
  OBVIOUS
<1>4. \A i \in I : i \in 1 .. Len(toks) /\ toks[i] = tok
  OBVIOUS
<1> HIDE DEF I, f
<1>5. CASE I = {}
  BY <1>1, <1>2, <1>3, <1>5 DEF f
<1>6. CASE I # {}
  <2>1. f \in I /\ \A i \in I : f <= i
    BY <1>1, <1>2, <1>6, MinProps
  <2>2. f \in 1 .. Len(toks) /\ toks[f] = tok
    BY <1>4, <2>1
  <2>3. ASSUME NEW i \in 1 .. f - 1 PROVE toks[i] # tok
    <3>1. i \in 1 .. Len(toks) /\ ~(f <= i)
      BY <1>2, <2>2
    <3>2. QED
      BY <1>3, <2>1, <3>1
  <2>4. QED
    BY <1>2, <2>2, <2>3 DEF f
<1>7. QED
  BY <1>5, <1>6

\* What stands in front of a token of a line.
LEMMA BeforeFacts ==
  ASSUME NEW toks \in Seq(Tokens), NEW i \in 1 .. Len(toks)
  PROVE  /\ Before(toks, i) \in Seq(Tokens)
         /\ \A j \in 1 .. i - 1 : toks[j] \in Range(Before(toks, i))
<1> DEFINE b == Before(toks, i)
<1>1. Len(toks) \in Nat
  BY LenProperties
<1>2. i - 1 \in Nat /\ 1 <= (i - 1) + 1 /\ i - 1 <= Len(toks) /\ (i - 1) + 1 - 1 = i - 1
  BY <1>1
<1>3. /\ b \in Seq(Tokens) /\ Len(b) = i - 1
      /\ \A j \in 1 .. i - 1 : b[j] = toks[1 + j - 1]
  BY <1>2, PieceFacts DEF Before
<1> HIDE DEF b
<1>4. DOMAIN b = 1 .. i - 1
  BY <1>3, LenProperties
<1>5. \A j \in 1 .. i - 1 : b[j] = toks[j]
  BY <1>3
<1>6. QED
  BY <1>3, <1>4, <1>5 DEF b, Range

\* What stands behind a token of a line.
LEMMA AfterFacts ==
  ASSUME NEW toks \in Seq(Tokens), NEW i \in 1 .. Len(toks)
  PROVE  /\ After(toks, i) \in Seq(Tokens) /\ Len(After(toks, i)) = Len(toks) - i
         /\ \A j \in 1 .. Len(toks) - i : After(toks, i)[j] = toks[i + j]
         /\ \A j \in i + 1 .. Len(toks) : toks[j] \in Range(After(toks, i))
<1> DEFINE a == After(toks, i)
           m == Len(toks) - i
<1>1. Len(toks) \in Nat
  BY LenProperties
<1>2. i + 1 \in Nat \ {0} /\ i + 1 <= Len(toks) + 1 /\ Len(toks) + 1 - (i + 1) = m
  BY <1>1
<1>3. /\ a \in Seq(Tokens) /\ Len(a) = m
      /\ \A j \in 1 .. m : a[j] = toks[(i + 1) + j - 1]
  BY <1>1, <1>2, PieceFacts DEF After
<1> HIDE DEF a
<1>4. DOMAIN a = 1 .. m
  BY <1>3, LenProperties
<1>5. \A j \in 1 .. m : a[j] = toks[i + j]
  <2>1. \A j \in 1 .. m : (i + 1) + j - 1 = i + j
    OBVIOUS
  <2>2. QED
    BY <1>3, <2>1
<1>6. ASSUME NEW j \in i + 1 .. Len(toks) PROVE toks[j] \in Range(a)
  <2>1. j - i \in 1 .. m /\ i + (j - i) = j
    BY <1>1
  <2>2. QED
    BY <1>4, <1>5, <2>1 DEF Range
<1>7. QED
  BY <1>3, <1>5, <1>6 DEF a

\* One more line that is left.
LEMMA LeftAppended ==
  ASSUME NEW left \in Seq(LeftLines), NEW x \in LeftLines
  PROVE  /\ Append(left, x) \in Seq(LeftLines)
         /\ \A m : Has(left, m) => Has(Append(left, x), m)
         /\ "code" \in Range(x.toks) => Has(Append(left, x), x.from)
<1> DEFINE a == Append(left, x)
           n == Len(left)
<1>1. n \in Nat /\ DOMAIN left = 1 .. n
  BY LenProperties
<1>2. /\ a \in Seq(LeftLines) /\ Len(a) = n + 1 /\ a[n + 1] = x
      /\ \A i \in 1 .. n : a[i] = left[i]
  BY AppendProperties
<1> HIDE DEF a, n
<1>3. DOMAIN a = 1 .. n + 1
  BY <1>2, LenProperties
<1>4. n + 1 \in 1 .. n + 1 /\ \A i \in 1 .. n : i \in 1 .. n + 1
  BY <1>1
<1>5. ASSUME NEW m, Has(left, m) PROVE Has(a, m)
  <2>1. PICK i \in 1 .. n : left[i].from = m /\ "code" \in Range(left[i].toks)
    BY <1>1, <1>5 DEF Has
  <2>2. QED
    BY <1>2, <1>3, <1>4, <2>1 DEF Has
<1>6. "code" \in Range(x.toks) => Has(a, x.from)
  BY <1>2, <1>3, <1>4 DEF Has
<1>7. QED
  BY <1>2, <1>5, <1>6 DEF a

\* A state of the compressor has three parts.
LEMMA CodeStateIs ==
  ASSUME NEW acc \in CodeStates
  PROVE  /\ acc = [inside |-> acc.inside, blanks |-> acc.blanks, out |-> acc.out]
         /\ acc.inside \in BOOLEAN /\ acc.blanks \in Nat /\ acc.out \in Seq(LeftLines)
BY DEF CodeStates

\* What is emitted stays, and its code with it.
LEMMA EmitFacts ==
  ASSUME NEW acc \in CodeStates, NEW n \in Nat, NEW toks \in Seq(Tokens)
  PROVE  LET e == Emit(acc, n, toks)
         IN  /\ e \in CodeStates /\ e.inside = acc.inside
             /\ \A m : Has(acc.out, m) => Has(e.out, m)
             /\ "code" \in Range(toks) => Has(e.out, n)
<1> DEFINE x == Left(n, toks, FALSE)
           o == Append(acc.out, x)
           y == [inside |-> acc.inside, blanks |-> acc.blanks, out |-> o]
<1>1. /\ acc = [inside |-> acc.inside, blanks |-> acc.blanks, out |-> acc.out]
      /\ acc.inside \in BOOLEAN /\ acc.blanks \in Nat /\ acc.out \in Seq(LeftLines)
  BY CodeStateIs
<1>2. x \in LeftLines /\ x.from = n /\ x.toks = toks
  BY DEF Left, LeftLines
<1> HIDE DEF x
<1>3. /\ o \in Seq(LeftLines)
      /\ \A m : Has(acc.out, m) => Has(o, m)
      /\ "code" \in Range(toks) => Has(o, n)
  BY <1>1, <1>2, LeftAppended
<1> HIDE DEF o
<1>4. CASE toks = <<>>
  <2>1. "code" \notin Range(toks)
    BY <1>4 DEF Range
  <2>2. QED
    BY <1>4, <2>1 DEF Emit
<1>5. CASE toks # <<>>
  <2>1. Emit(acc, n, toks) = [acc EXCEPT !.out = o]
    BY <1>5 DEF Emit, o, x
  <2>2. Emit(acc, n, toks) = y
    BY <1>1, <2>1
  <2>3. y \in CodeStates
    BY <1>1, <1>3 DEF CodeStates
  <2>4. QED
    BY <1>3, <2>2, <2>3
<1>6. QED
  BY <1>4, <1>5

\* What a line in a comment does: nothing, up to the comment's end.
LEMMA InCommentFacts ==
  ASSUME NEW acc \in CodeStates, NEW n \in Nat, NEW toks \in Seq(Tokens)
  PROVE  LET new == InComment(acc, n, toks)
             end == Find(toks, "close")
         IN  /\ new \in CodeStates /\ \A m : Has(acc.out, m) => Has(new.out, m)
             /\ end = 0 => new = acc
             /\ end # 0 => /\ ~new.inside
                           /\ "code" \in Range(After(toks, end)) => Has(new.out, n)
<1> DEFINE end == Find(toks, "close")
           rest == After(toks, end)
           y == [inside |-> FALSE, blanks |-> acc.blanks, out |-> acc.out]
<1>1. CASE end = 0
  BY <1>1 DEF InComment
<1>2. CASE end # 0
  <2>1. end \in 1 .. Len(toks)
    BY <1>2, FindFacts
  <2>2. rest \in Seq(Tokens)
    BY <2>1, AfterFacts
  <2>3. [acc EXCEPT !.inside = FALSE] = y /\ y \in CodeStates /\ y.out = acc.out
    <3>1. [acc EXCEPT !.inside = FALSE] = y
      BY CodeStateIs, Zenon DEF CodeStates
    <3>2. y \in CodeStates
      BY DEF CodeStates
    <3>3. y.out = acc.out
      OBVIOUS
    <3>4. QED
      BY <3>1, <3>2, <3>3
  <2>4. InComment(acc, n, toks) = Emit(y, n, rest)
    BY <1>2, <2>3 DEF InComment
  <2>5. ~y.inside
    OBVIOUS
  <2> HIDE DEF rest, end, y
  <2>6. /\ Emit(y, n, rest) \in CodeStates /\ Emit(y, n, rest).inside = y.inside
        /\ \A m : Has(y.out, m) => Has(Emit(y, n, rest).out, m)
        /\ "code" \in Range(rest) => Has(Emit(y, n, rest).out, n)
    BY <2>2, <2>3, EmitFacts
  <2>7. QED
    BY <1>2, <2>3, <2>4, <2>5, <2>6 DEF rest, end
<1>3. QED
  BY <1>1, <1>2

\* What a line with an opener does: the comment goes, what is around it stays.
LEMMA AtOpenerFacts ==
  ASSUME NEW acc \in CodeStates, NEW n \in Nat, NEW toks \in Seq(Tokens),
         ~acc.inside, Find(toks, "open") # 0
  PROVE  LET new   == AtOpener(acc, n, toks)
             start == Find(toks, "open")
             after == After(toks, start)
             end   == Find(after, "close")
         IN  /\ new \in CodeStates /\ \A m : Has(acc.out, m) => Has(new.out, m)
             /\ new.inside <=> end = 0
             /\ "code" \in Range(Before(toks, start)) => Has(new.out, n)
             /\ end # 0 /\ "code" \in Range(After(after, end)) => Has(new.out, n)
<1> DEFINE start == Find(toks, "open")
           after == After(toks, start)
           end == Find(after, "close")
           rest == After(after, end)
           front == Before(toks, start)
           before == Emit(acc, n, front)
           new == AtOpener(acc, n, toks)
<1>1. start \in 1 .. Len(toks)
  BY FindFacts
<1>2. after \in Seq(Tokens) /\ front \in Seq(Tokens)
  BY <1>1, AfterFacts, BeforeFacts
<1>3. new = IF end = 0 THEN [before EXCEPT !.inside = TRUE] ELSE Emit(before, n, rest)
  BY DEF AtOpener
<1> HIDE DEF start, front
<1>4. /\ before \in CodeStates /\ ~before.inside
      /\ \A m : Has(acc.out, m) => Has(before.out, m)
      /\ "code" \in Range(front) => Has(before.out, n)
  BY <1>2, EmitFacts
<1> HIDE DEF before, after, new
<1>5. CASE end = 0
  <2> DEFINE y == [inside |-> TRUE, blanks |-> before.blanks, out |-> before.out]
  <2>1. new = y /\ y \in CodeStates /\ y.out = before.out
    BY <1>3, <1>4, <1>5, CodeStateIs DEF CodeStates
  <2>2. y.inside
    OBVIOUS
  <2> HIDE DEF y
  <2>3. /\ new \in CodeStates /\ new.inside /\ new.out = before.out
    BY <2>1, <2>2
  <2> HIDE DEF end
  <2>4. QED
    BY <1>4, <1>5, <2>3 DEF start, after, end, front, new
<1>6. CASE end # 0
  <2>1. end \in 1 .. Len(after)
    BY <1>2, <1>6, FindFacts
  <2>2. rest \in Seq(Tokens)
    BY <1>2, <2>1, AfterFacts
  <2> HIDE DEF rest, end
  <2>3. /\ new \in CodeStates /\ new.inside = before.inside
        /\ \A m : Has(before.out, m) => Has(new.out, m)
        /\ "code" \in Range(rest) => Has(new.out, n)
    BY <1>3, <1>4, <1>6, <2>2, EmitFacts
  <2>4. QED
    BY <1>4, <1>6, <2>3 DEF start, after, end, front, new, rest
<1>7. QED
  BY <1>5, <1>6

\* The line without its line comment is made of tokens.
LEMMA CodePartFacts ==
  ASSUME NEW toks \in Seq(Tokens)
  PROVE  /\ CodePart(toks) \in Seq(Tokens)
         /\ \A j \in 1 .. Len(toks) :
              /\ toks[1] # "hash"
              /\ \A i \in 1 .. j : toks[i] # "slash"
              => toks[j] \in Range(CodePart(toks))
<1> DEFINE s == Find(toks, "slash")
           h == Find(toks, "hash")
<1>1. Len(toks) \in Nat /\ DOMAIN toks = 1 .. Len(toks)
  BY LenProperties
<1>2. /\ s \in 0 .. Len(toks)
      /\ s # 0 => toks[s] = "slash"
      /\ h # 0 => toks[h] = "hash"
  BY FindFacts
<1>3. CodePart(toks) = IF s # 0 THEN Before(toks, s) ELSE IF h = 1 THEN <<>> ELSE toks
  BY DEF CodePart
<1> HIDE DEF s, h
<1>4. CASE s # 0
  <2>1. s \in 1 .. Len(toks)
    BY <1>2, <1>4
  <2>2. /\ Before(toks, s) \in Seq(Tokens)
        /\ \A j \in 1 .. s - 1 : toks[j] \in Range(Before(toks, s))
    BY <2>1, BeforeFacts
  <2>3. ASSUME NEW j \in 1 .. Len(toks), \A i \in 1 .. j : toks[i] # "slash"
        PROVE  j \in 1 .. s - 1
    <3>1. s \notin 1 .. j
      BY <1>2, <1>4, <2>3
    <3>2. QED
      BY <1>1, <2>1, <3>1
  <2>4. QED
    BY <1>3, <1>4, <2>2, <2>3
<1>5. CASE s = 0 /\ h = 1
  BY <1>2, <1>3, <1>5
<1>6. CASE s = 0 /\ h # 1
  BY <1>1, <1>3, <1>6 DEF Range
<1>7. QED
  BY <1>4, <1>5, <1>6

\* What another line does.
LEMMA AtLineFacts ==
  ASSUME NEW acc \in CodeStates, NEW n \in Nat, NEW line, line.toks \in Seq(Tokens),
         NEW hint
  PROVE  LET new == AtLine(acc, n, line, hint)
         IN  /\ new \in CodeStates /\ \A m : Has(acc.out, m) => Has(new.out, m)
             /\ new.inside = acc.inside
             /\ "code" \in Range(CodePart(line.toks)) => Has(new.out, n)
<1> DEFINE part == CodePart(line.toks)
           cut == /\ line.long /\ ~line.structural
                  /\ ~(hint /\ line.hit)
           blank == Left(n, <<>>, FALSE)
           x == Left(n, part, cut)
           new == AtLine(acc, n, line, hint)
<1>1. part \in Seq(Tokens)
  BY CodePartFacts
<1>2. new = IF part = <<>>
            THEN [acc EXCEPT !.blanks = @ + 1,
                             !.out = IF acc.blanks = 0 THEN Append(@, blank) ELSE @]
            ELSE [acc EXCEPT !.blanks = 0, !.out = Append(@, x)]
  BY DEF AtLine
<1>3. cut \in BOOLEAN
  OBVIOUS
<1> HIDE DEF part, cut, new
<1>4. x \in LeftLines /\ x.from = n /\ x.toks = part
  BY <1>1, <1>3 DEF Left, LeftLines
<1>5. blank \in LeftLines
  BY EmptySeq DEF Left, LeftLines
<1>6. /\ acc = [inside |-> acc.inside, blanks |-> acc.blanks, out |-> acc.out]
      /\ acc.inside \in BOOLEAN /\ acc.blanks \in Nat /\ acc.out \in Seq(LeftLines)
  BY CodeStateIs
<1> HIDE DEF x, blank
<1>7. ASSUME NEW b \in Nat, NEW o \in Seq(LeftLines)
      PROVE  [inside |-> acc.inside, blanks |-> b, out |-> o] \in CodeStates
  BY <1>6 DEF CodeStates
<1>8. CASE part = <<>>
  <2> DEFINE o == IF acc.blanks = 0 THEN Append(acc.out, blank) ELSE acc.out
             b == acc.blanks + 1
             y == [inside |-> acc.inside, blanks |-> b, out |-> o]
  <2>1. o \in Seq(LeftLines) /\ \A m : Has(acc.out, m) => Has(o, m)
    BY <1>5, <1>6, LeftAppended
  <2>2. b \in Nat
    BY <1>6
  <2>3. new = [acc EXCEPT !.blanks = b, !.out = o]
    BY <1>2, <1>8
  <2> HIDE DEF o, b
  <2>4. new = y
    BY <1>6, <2>3
  <2>5. y \in CodeStates
    BY <1>7, <2>1, <2>2
  <2>6. "code" \notin Range(part)
    BY <1>8 DEF Range
  <2>7. QED
    BY <2>1, <2>4, <2>5, <2>6 DEF new, part
<1>9. CASE part # <<>>
  <2> DEFINE o == Append(acc.out, x)
             y == [inside |-> acc.inside, blanks |-> 0, out |-> o]
  <2>1. /\ o \in Seq(LeftLines) /\ \A m : Has(acc.out, m) => Has(o, m)
        /\ "code" \in Range(part) => Has(o, n)
    BY <1>4, <1>6, LeftAppended
  <2>2. new = [acc EXCEPT !.blanks = 0, !.out = o]
    BY <1>2, <1>9
  <2> HIDE DEF o
  <2>3. new = y
    BY <1>6, <2>2
  <2>4. y \in CodeStates
    BY <1>7, <2>1
  <2>5. QED
    BY <2>1, <2>3, <2>4 DEF new, part
<1>10. QED
  BY <1>8, <1>9

\* What the reference scanner makes of one token.
LEMMA TokenFacts ==
  ASSUME NEW acc \in TokenStates, NEW tok \in Tokens
  PROVE  LET t == Token(acc, tok)
         IN  /\ t \in TokenStates
             /\ acc.hidden => t.hidden
             /\ acc.closed => t.closed
             /\ t.code => acc.code \/ tok = "code"
             /\ acc.inside => /\ t.inside <=> tok # "close"
                              /\ tok = "close" => t.closed
                              /\ t.code = acc.code
             /\ ~acc.inside /\ acc.line =>
                  /\ ~t.inside /\ t.line /\ t.code = acc.code
                  /\ tok = "open" => t.hidden
             /\ ~acc.inside /\ ~acc.line /\ tok = "open" => t.inside /\ t.code = acc.code
             /\ ~acc.inside /\ ~acc.line /\ tok # "open" =>
                  /\ ~t.inside
                  /\ ~t.line => tok # "slash" /\ ~(tok = "hash" /\ acc.first)
                  /\ t.code => acc.code \/ (tok = "code" /\ ~t.line)
<1> DEFINE t == Token(acc, tok)
<1>1. acc.code \in BOOLEAN /\ acc.hidden \in BOOLEAN /\ acc.closed \in BOOLEAN
  BY DEF TokenStates
<1>2. CASE acc.inside
  <2>1. PICK open \in BOOLEAN : open = (tok # "close")
    OBVIOUS
  <2>2. PICK shut \in BOOLEAN : shut = (acc.closed \/ tok = "close")
    OBVIOUS
  <2>3. t = [acc EXCEPT !.inside = open, !.closed = shut]
    BY <1>2, <2>1, <2>2, Zenon DEF Token
  <2> HIDE DEF t
  <2>4. t \in TokenStates
    BY <2>3 DEF TokenStates
  <2>5. /\ t.inside = open /\ t.line = acc.line /\ t.code = acc.code
        /\ t.hidden = acc.hidden /\ t.closed = shut
    BY <2>3 DEF TokenStates
  <2>6. QED
    BY <1>1, <1>2, <2>1, <2>2, <2>4, <2>5 DEF t
<1>3. CASE ~acc.inside /\ acc.line
  <2>1. PICK hid \in BOOLEAN : hid = (acc.hidden \/ tok = "open")
    OBVIOUS
  <2>2. t = [acc EXCEPT !.hidden = hid]
    BY <1>3, <2>1, Zenon DEF Token
  <2> HIDE DEF t
  <2>3. t \in TokenStates
    BY <2>2 DEF TokenStates
  <2>4. /\ t.inside = acc.inside /\ t.line = acc.line /\ t.code = acc.code
        /\ t.hidden = hid /\ t.closed = acc.closed
    BY <2>2 DEF TokenStates
  <2>5. QED
    BY <1>1, <1>3, <2>1, <2>3, <2>4 DEF t
<1>4. CASE ~acc.inside /\ ~acc.line /\ tok = "open"
  <2>1. PICK yes \in BOOLEAN : yes = TRUE
    OBVIOUS
  <2>2. t = [acc EXCEPT !.inside = yes]
    BY <1>4, <2>1, Zenon DEF Token
  <2> HIDE DEF t
  <2>3. t \in TokenStates
    BY <2>2 DEF TokenStates
  <2>4. /\ t.inside = yes /\ t.line = acc.line /\ t.code = acc.code
        /\ t.hidden = acc.hidden /\ t.closed = acc.closed
    BY <2>2 DEF TokenStates
  <2>5. QED
    BY <1>1, <1>4, <2>1, <2>3, <2>4 DEF t
<1>5. CASE /\ ~acc.inside /\ ~acc.line
           /\ tok = "slash" \/ (tok = "hash" /\ acc.first)
  <2>1. PICK yes \in BOOLEAN : yes = TRUE
    OBVIOUS
  <2>2. t = [acc EXCEPT !.line = yes]
    BY <1>5, <2>1, Zenon DEF Token
  <2> HIDE DEF t
  <2>3. t \in TokenStates
    BY <2>2 DEF TokenStates
  <2>4. /\ t.inside = acc.inside /\ t.line = yes /\ t.code = acc.code
        /\ t.hidden = acc.hidden /\ t.closed = acc.closed
    BY <2>2 DEF TokenStates
  <2>5. QED
    BY <1>1, <1>5, <2>1, <2>3, <2>4 DEF t
<1>6. CASE /\ ~acc.inside /\ ~acc.line /\ tok # "open"
           /\ ~(tok = "slash" \/ (tok = "hash" /\ acc.first))
  <2>1. PICK own \in BOOLEAN : own = (acc.code \/ tok = "code")
    OBVIOUS
  <2>2. PICK no \in BOOLEAN : no = FALSE
    OBVIOUS
  <2>3. t = [acc EXCEPT !.code = own, !.first = no]
    BY <1>6, <2>1, <2>2, Zenon DEF Token
  <2> HIDE DEF t
  <2>4. t \in TokenStates
    BY <2>3 DEF TokenStates
  <2>5. /\ t.inside = acc.inside /\ t.line = acc.line /\ t.code = own
        /\ t.hidden = acc.hidden /\ t.closed = acc.closed
    BY <2>3 DEF TokenStates
  <2>6. QED
    BY <1>1, <1>6, <2>1, <2>2, <2>4, <2>5 DEF t
<1>7. QED
  BY <1>2, <1>3, <1>4, <1>5, <1>6

\* The states that the scanner goes through on a line.
Reads(r, inside, hidden, toks) ==
  /\ r \in [0 .. Len(toks) -> TokenStates]
  /\ r[0] = [inside |-> inside, line |-> FALSE, first |-> TRUE, code |-> FALSE,
             hidden |-> hidden, closed |-> FALSE]
  /\ \A i \in 1 .. Len(toks) : r[i] = Token(r[i - 1], toks[i])

\* It does go through them.
LEMMA TokenizedSteps ==
  ASSUME NEW inside \in BOOLEAN, NEW hidden \in BOOLEAN, NEW toks \in Seq(Tokens)
  PROVE  \E r : /\ Reads(r, inside, hidden, toks)
                /\ Tokenized(inside, hidden, toks) = r[Len(toks)]
<1> DEFINE N == Len(toks)
           D == TokenStates
           a == [inside |-> inside, line |-> FALSE, first |-> TRUE, code |-> FALSE,
                 hidden |-> hidden, closed |-> FALSE]
           Rec(g) == [i \in 0 .. N |-> IF i = 0 THEN a ELSE Token(g[i - 1], toks[i])]
           h == CHOOSE g : g = Rec(g)
<1>1. N \in Nat /\ \A i \in 1 .. N : toks[i] \in Tokens
  BY LenProperties, ElementOfSeq
<1>2. a \in D
  BY DEF TokenStates
<1>3. \A i \in 1 .. N : \A acc \in D : Token(acc, toks[i]) \in D
  BY <1>1, TokenFacts
<1> HIDE DEF D, N, a
<1>4. \E g \in [0 .. N -> D] : g = Rec(g)
  <2> DEFINE step == [i \in 1 .. N |-> [acc \in D |-> Token(acc, toks[i])]]
  <2>1. step \in [1 .. N -> [D -> D]]
    BY <1>3
  <2>2. \A i \in 1 .. N : \A acc \in D : step[i][acc] = Token(acc, toks[i])
    OBVIOUS
  <2> HIDE DEF step
  <2>3. \E g \in [0 .. N -> D] : Iterated(g, a, step, N)
    BY <1>1, <1>2, <2>1, Iterates
  <2>4. PICK g \in [0 .. N -> D] : g[0] = a /\ \A i \in 1 .. N : g[i] = step[i][g[i - 1]]
    BY <2>3 DEF Iterated
  <2>5. ASSUME NEW i \in 0 .. N PROVE g[i] = Rec(g)[i]
    <3>1. CASE i = 0
      BY <2>4, <3>1
    <3>2. CASE i # 0
      <4>1. i \in 1 .. N /\ i - 1 \in 0 .. N
        BY <1>1, <3>2
      <4>2. g[i - 1] \in D
        BY <4>1
      <4>3. QED
        BY <2>2, <2>4, <3>2, <4>1, <4>2
    <3>3. QED
      BY <3>1, <3>2
  <2>6. g = [i \in 0 .. N |-> g[i]] /\ Rec(g) = [i \in 0 .. N |-> Rec(g)[i]]
    OBVIOUS
  <2> HIDE DEF Rec
  <2>7. g = Rec(g)
    BY <2>5, <2>6
  <2>8. QED
    BY <2>7
<1>5. h = Rec(h)
  <2> HIDE DEF Rec
  <2>1. QED
    BY <1>4
<1>6. h[0] = a /\ \A i \in 1 .. N : h[i] = Token(h[i - 1], toks[i])
  <2> HIDE DEF h
  <2>1. 0 \in 0 .. N /\ \A i \in 1 .. N : i \in 0 .. N /\ i # 0
    BY <1>1
  <2>2. QED
    BY <1>5, <2>1
<1>7. DOMAIN h = 0 .. N /\ h = [i \in 0 .. N |-> h[i]]
  <2> HIDE DEF h
  <2>1. QED
    BY <1>5
<1>8. Tokenized(inside, hidden, toks) = h[N]
  BY DEF Tokenized, N, a
<1> HIDE DEF h, Rec
<1>9. \A i \in 0 .. N : h[i] \in D
  <2>1. \A i \in 1 .. N : h[i - 1] \in D => h[i] \in D
    BY <1>3, <1>6
  <2>2. QED
    BY <1>1, <1>2, <1>6, <2>1, IteratesIn
<1>10. Reads(h, inside, hidden, toks)
  <2>1. h \in [0 .. N -> D]
    BY <1>7, <1>9
  <2>2. QED
    BY <1>6, <2>1 DEF Reads, N, D, a
<1>11. QED
  BY <1>8, <1>10 DEF N

\* There is code among the tokens from a to b.
CodeIn(toks, a, b) == \E j \in a .. b : toks[j] = "code"

\* Inside a comment that ends at e, if it does: after i tokens.
InsideAt(toks, e, t, i) ==
  IF e = 0 \/ i < e THEN t.inside /\ ~t.code
  ELSE t.closed /\ (t.code => CodeIn(toks, e + 1, i))

\* Outside of comments, up to an opener: after i tokens.
OutsideAt(toks, t, i) ==
  /\ ~t.inside
  /\ i = 0 => ~t.line /\ t.first
  /\ ~t.line => /\ \A k \in 1 .. i : toks[k] # "slash"
                /\ i # 0 => toks[1] # "hash"
  /\ t.code => \E j \in 1 .. i : /\ toks[j] = "code" /\ toks[1] # "hash"
                                 /\ \A k \in 1 .. j : toks[k] # "slash"

\* From an opener at s on, whose comment ends at e, if it does: after i tokens.
AroundAt(toks, s, e, t, i) ==
  \/ t.hidden
  \/ IF e = 0 \/ i < e THEN t.inside /\ (t.code => CodeIn(toks, 1, s - 1))
     ELSE t.closed /\ (t.code => CodeIn(toks, 1, s - 1) \/ CodeIn(toks, e + 1, i))

\* Where the scanner starts.
LEMMA ReadsStart ==
  ASSUME NEW toks \in Seq(Tokens), NEW inside \in BOOLEAN, NEW hidden \in BOOLEAN, NEW r,
         Reads(r, inside, hidden, toks)
  PROVE  /\ Len(toks) \in Nat /\ 0 \in 0 .. Len(toks)
         /\ r[0].inside = inside /\ ~r[0].line /\ r[0].first /\ ~r[0].code
         /\ r[0].hidden = hidden
<1>1. Len(toks) \in Nat
  BY LenProperties
<1>2. QED
  BY <1>1 DEF Reads

\* How it goes on.
LEMMA ReadsStep ==
  ASSUME NEW toks \in Seq(Tokens), NEW inside, NEW hidden, NEW r,
         Reads(r, inside, hidden, toks), NEW i \in 1 .. Len(toks)
  PROVE  /\ toks[i] \in Tokens /\ i - 1 \in 0 .. Len(toks) /\ i \in 0 .. Len(toks)
         /\ r[i - 1] \in TokenStates /\ r[i] = Token(r[i - 1], toks[i])
<1>1. Len(toks) \in Nat /\ toks[i] \in Tokens
  BY LenProperties, ElementOfSeq
<1>2. i - 1 \in 0 .. Len(toks) /\ i \in 0 .. Len(toks)
  BY <1>1
<1>3. QED
  BY <1>1, <1>2 DEF Reads

\* What is hidden stays so to the end of the line.
LEMMA HiddenStays ==
  ASSUME NEW toks \in Seq(Tokens), NEW inside \in BOOLEAN, NEW hidden \in BOOLEAN, NEW r,
         Reads(r, inside, hidden, toks), hidden
  PROVE  r[Len(toks)].hidden
<1> DEFINE N == Len(toks)
           G == {i \in 0 .. N : r[i].hidden}
<1>1. N \in Nat /\ 0 \in G
  BY ReadsStart
<1>2. ASSUME NEW i \in 1 .. N, i - 1 \in G PROVE i \in G
  <2>1. /\ toks[i] \in Tokens /\ i - 1 \in 0 .. N /\ i \in 0 .. N
        /\ r[i - 1] \in TokenStates /\ r[i] = Token(r[i - 1], toks[i])
    <3> HIDE DEF G
    <3>1. i \in 1 .. Len(toks)
      OBVIOUS
    <3>2. QED
      BY <3>1, ReadsStep
  <2>2. r[i - 1].hidden
    BY <1>2
  <2>3. r[i].hidden
    BY <2>1, <2>2, TokenFacts
  <2>4. QED
    BY <2>1, <2>3
<1> HIDE DEF G, N
<1>3. \A i \in 0 .. N : i \in G
  BY <1>1, <1>2, AllAlong
<1>4. N \in G
  BY <1>1, <1>3
<1>5. QED
  BY <1>4 DEF G, N

\* Inside a comment nothing is code before its end.
LEMMA TokensInside ==
  ASSUME NEW toks \in Seq(Tokens), NEW inside \in BOOLEAN, NEW hidden \in BOOLEAN, NEW r,
         Reads(r, inside, hidden, toks), inside
  PROVE  InsideAt(toks, Find(toks, "close"), r[Len(toks)], Len(toks))
<1> DEFINE N == Len(toks)
           e == Find(toks, "close")
           G == {i \in 0 .. N : InsideAt(toks, e, r[i], i)}
<1>1. N \in Nat
  BY ReadsStart
<1>2. /\ e \in 0 .. N
      /\ e = 0 => \A i \in 1 .. N : toks[i] # "close"
      /\ e # 0 => toks[e] = "close" /\ \A i \in 1 .. e - 1 : toks[i] # "close"
  BY FindFacts
<1> HIDE DEF e
<1>3. 0 \in G
  <2>1. r[0].inside /\ ~r[0].code
    BY ReadsStart
  <2>2. e = 0 \/ 0 < e
    BY <1>2
  <2>3. InsideAt(toks, e, r[0], 0)
    BY <2>1, <2>2 DEF InsideAt
  <2>4. QED
    BY <1>1, <2>3
<1>4. ASSUME NEW i \in 1 .. N, i - 1 \in G PROVE i \in G
  <2> DEFINE t == r[i]
             p == r[i - 1]
             tok == toks[i]
  <2>1. /\ tok \in Tokens /\ i - 1 \in 0 .. N /\ i \in 0 .. N
        /\ p \in TokenStates /\ t = Token(p, tok)
    <3>1. i \in 1 .. Len(toks)
      OBVIOUS
    <3>2. /\ toks[i] \in Tokens /\ i - 1 \in 0 .. Len(toks) /\ i \in 0 .. Len(toks)
          /\ r[i - 1] \in TokenStates /\ r[i] = Token(r[i - 1], toks[i])
      <4> HIDE DEF t, p, tok, G
      <4>1. QED
        BY <3>1, ReadsStep, Zenon
    <3>3. QED
      BY <3>2
  <2>2. InsideAt(toks, e, p, i - 1)
    BY <1>4
  <2> SUFFICES InsideAt(toks, e, t, i)
    BY <2>1
  <2> HIDE DEF t, p, tok
  <2>3. /\ p.closed => t.closed
        /\ t.code => p.code \/ tok = "code"
        /\ p.inside => /\ t.inside <=> tok # "close"
                       /\ tok = "close" => t.closed
                       /\ t.code = p.code
    BY <2>1, TokenFacts
  <2>4. CASE e = 0 \/ i < e
    <3>1. e = 0 \/ i - 1 < e
      BY <1>2, <2>4
    <3>2. tok # "close"
      BY <1>2, <2>4 DEF tok
    <3>3. QED
      BY <2>2, <2>3, <2>4, <3>1, <3>2 DEF InsideAt
  <2>5. CASE e # 0 /\ i = e
    <3>1. i - 1 < e /\ ~(i < e) /\ tok = "close"
      BY <1>2, <2>5 DEF tok
    <3>2. QED
      BY <2>2, <2>3, <2>5, <3>1 DEF InsideAt
  <2>6. CASE e # 0 /\ e < i
    <3>1. ~(i - 1 < e) /\ ~(i < e) /\ i \in e + 1 .. i
          /\ \A j \in e + 1 .. i - 1 : j \in e + 1 .. i
      BY <1>2, <2>6
    <3>2. p.closed /\ (p.code => CodeIn(toks, e + 1, i - 1))
      BY <2>2, <2>6, <3>1 DEF InsideAt
    <3>3. t.code => CodeIn(toks, e + 1, i)
      BY <2>3, <3>1, <3>2 DEF CodeIn, tok
    <3>4. QED
      BY <2>3, <2>6, <3>1, <3>2, <3>3 DEF InsideAt
  <2>7. e = 0 \/ i < e \/ i = e \/ e < i
    BY <1>2
  <2>8. QED
    BY <2>4, <2>5, <2>6, <2>7
<1> HIDE DEF G, N
<1>5. \A i \in 0 .. N : i \in G
  BY <1>1, <1>3, <1>4, AllAlong
<1>6. N \in G
  BY <1>1, <1>5
<1>7. QED
  BY <1>6 DEF G, N, e

\* Outside of comments only a line comment ends the code, up to an opener.
LEMMA TokensOutside ==
  ASSUME NEW toks \in Seq(Tokens), NEW inside \in BOOLEAN, NEW hidden \in BOOLEAN, NEW r,
         Reads(r, inside, hidden, toks), ~inside,
         NEW b \in 0 .. Len(toks), \A i \in 1 .. b : toks[i] # "open"
  PROVE  OutsideAt(toks, r[b], b)
<1> DEFINE N == Len(toks)
           G == {i \in 0 .. b : OutsideAt(toks, r[i], i)}
<1>1. N \in Nat /\ b \in Nat /\ \A i \in 1 .. b : i \in 1 .. N
  BY ReadsStart
<1>2. 0 \in G
  <2>1. ~r[0].inside /\ ~r[0].line /\ r[0].first /\ ~r[0].code
    BY ReadsStart
  <2>2. OutsideAt(toks, r[0], 0)
    BY <2>1 DEF OutsideAt
  <2>3. QED
    BY <1>1, <2>2
<1>3. ASSUME NEW i \in 1 .. b, i - 1 \in G PROVE i \in G
  <2> DEFINE t == r[i]
             p == r[i - 1]
             tok == toks[i]
  <2>1. /\ tok \in Tokens /\ tok # "open"
        /\ p \in TokenStates /\ t = Token(p, tok)
    BY <1>1, ReadsStep
  <2>2. OutsideAt(toks, p, i - 1)
    BY <1>3
  <2> SUFFICES OutsideAt(toks, t, i)
    OBVIOUS
  <2> HIDE DEF t, p, tok
  <2>3. /\ p.line => /\ ~t.inside /\ t.line /\ t.code = p.code
        /\ ~p.line => /\ ~t.inside
                      /\ ~t.line => tok # "slash" /\ ~(tok = "hash" /\ p.first)
                      /\ t.code => p.code \/ (tok = "code" /\ ~t.line)
    BY <2>1, <2>2, TokenFacts DEF OutsideAt
  <2>4. \A k \in 1 .. i : k \in 1 .. i - 1 \/ k = i
    OBVIOUS
  <2>5. i \in 1 .. i /\ \A k \in 1 .. i - 1 : k \in 1 .. i
    OBVIOUS
  <2>6. ASSUME ~t.line
        PROVE  (\A k \in 1 .. i : toks[k] # "slash") /\ toks[1] # "hash"
    <3>1. ~p.line /\ tok # "slash" /\ ~(tok = "hash" /\ p.first)
      BY <2>3, <2>6
    <3>2. \A k \in 1 .. i - 1 : toks[k] # "slash"
      BY <2>2, <3>1 DEF OutsideAt
    <3>3. toks[1] # "hash"
      <4>1. CASE i = 1
        BY <2>2, <3>1, <4>1 DEF OutsideAt, tok
      <4>2. CASE i # 1
        <5>1. i - 1 # 0
          BY <4>2
        <5>2. QED
          BY <2>2, <3>1, <5>1 DEF OutsideAt
      <4>3. QED
        BY <4>1, <4>2
    <3>4. QED
      BY <2>4, <3>1, <3>2, <3>3 DEF tok
  <2>7. ASSUME t.code
        PROVE  \E j \in 1 .. i : /\ toks[j] = "code" /\ toks[1] # "hash"
                                 /\ \A k \in 1 .. j : toks[k] # "slash"
    <3>1. p.code \/ (tok = "code" /\ ~t.line)
      BY <2>3, <2>7
    <3>2. CASE p.code
      BY <2>2, <2>5, <3>2 DEF OutsideAt
    <3>3. CASE tok = "code" /\ ~t.line
      BY <2>5, <2>6, <3>3 DEF tok
    <3>4. QED
      BY <3>1, <3>2, <3>3
  <2>8. ~t.inside
    BY <2>3
  <2>9. i # 0
    OBVIOUS
  <2>10. QED
    BY <2>6, <2>7, <2>8, <2>9 DEF OutsideAt
<1> HIDE DEF G
<1>4. \A i \in 0 .. b : i \in G
  BY <1>1, <1>2, <1>3, AllAlong
<1>5. b \in G
  BY <1>1, <1>4
<1>6. QED
  BY <1>5 DEF G

\* From an opener on, unless it is hidden, nothing is code before its end.
LEMMA TokensAround ==
  ASSUME NEW toks \in Seq(Tokens), NEW inside \in BOOLEAN, NEW hidden \in BOOLEAN, NEW r,
         Reads(r, inside, hidden, toks), ~inside,
         NEW s \in 1 .. Len(toks), toks[s] = "open", \A i \in 1 .. s - 1 : toks[i] # "open",
         NEW e \in 0 .. Len(toks),
         e = 0 => \A i \in s + 1 .. Len(toks) : toks[i] # "close",
         e # 0 => s < e /\ toks[e] = "close" /\ \A i \in s + 1 .. e - 1 : toks[i] # "close"
  PROVE  AroundAt(toks, s, e, r[Len(toks)], Len(toks))
<1> DEFINE N == Len(toks)
           G == {i \in 0 .. N : i < s \/ AroundAt(toks, s, e, r[i], i)}
<1>1. N \in Nat /\ 0 \in G
  BY ReadsStart
<1>2. ASSUME NEW i \in 1 .. N, i - 1 \in G PROVE i \in G
  <2> DEFINE t == r[i]
             p == r[i - 1]
             tok == toks[i]
  <2>1. /\ tok \in Tokens /\ p \in TokenStates /\ t = Token(p, tok) /\ i \in 0 .. N
    BY ReadsStep
  <2> SUFFICES ASSUME ~(i < s) PROVE AroundAt(toks, s, e, t, i)
    BY <2>1
  <2>2. i - 1 < s \/ AroundAt(toks, s, e, p, i - 1)
    BY <1>2
  <2>3. OutsideAt(toks, r[s - 1], s - 1)
    <3>1. s - 1 \in 0 .. Len(toks)
      BY <1>1
    <3>2. QED
      BY <3>1, TokensOutside
  <2>4. i = s => r[s - 1] = p
    OBVIOUS
  <2> HIDE DEF t, p, tok
  <2>5. /\ p.hidden => t.hidden
        /\ p.closed => t.closed
        /\ t.code => p.code \/ tok = "code"
        /\ p.inside => /\ t.inside <=> tok # "close"
                       /\ tok = "close" => t.closed
                       /\ t.code = p.code
        /\ ~p.inside /\ p.line /\ tok = "open" => t.hidden
        /\ ~p.inside /\ ~p.line /\ tok = "open" => t.inside /\ t.code = p.code
    BY <2>1, TokenFacts
  <2>6. CASE i = s
    <3>1. ~p.inside /\ tok = "open" /\ (e = 0 \/ i < e)
      BY <2>3, <2>4, <2>6 DEF OutsideAt, tok
    <3>2. p.code => CodeIn(toks, 1, s - 1)
      BY <2>3, <2>4, <2>6 DEF OutsideAt, CodeIn
    <3>3. QED
      BY <2>5, <3>1, <3>2 DEF AroundAt
  <2>7. CASE s < i
    <3>1. AroundAt(toks, s, e, p, i - 1)
      BY <2>2, <2>7
    <3>2. CASE p.hidden
      BY <2>5, <3>2 DEF AroundAt
    <3>3. CASE ~p.hidden /\ (e = 0 \/ i < e)
      <4>1. tok # "close" /\ (e = 0 \/ i - 1 < e)
        BY <2>7, <3>3 DEF tok
      <4>2. QED
        BY <2>5, <3>1, <3>3, <4>1 DEF AroundAt
    <3>4. CASE ~p.hidden /\ e # 0 /\ i = e
      <4>1. tok = "close" /\ i - 1 < e /\ ~(i < e)
        BY <3>4 DEF tok
      <4>2. QED
        BY <2>5, <3>1, <3>4, <4>1 DEF AroundAt
    <3>5. CASE ~p.hidden /\ e # 0 /\ e < i
      <4>1. ~(i - 1 < e) /\ ~(i < e) /\ i \in e + 1 .. i
            /\ \A j \in e + 1 .. i - 1 : j \in e + 1 .. i
        BY <3>5
      <4>2. p.closed /\ (p.code => CodeIn(toks, 1, s - 1) \/ CodeIn(toks, e + 1, i - 1))
        BY <3>1, <3>5, <4>1 DEF AroundAt
      <4>3. t.code => CodeIn(toks, 1, s - 1) \/ CodeIn(toks, e + 1, i)
        BY <2>5, <4>1, <4>2 DEF CodeIn, tok
      <4>4. QED
        BY <2>5, <3>5, <4>1, <4>2, <4>3 DEF AroundAt
    <3>6. e = 0 \/ i < e \/ i = e \/ e < i
      OBVIOUS
    <3>7. QED
      BY <3>2, <3>3, <3>4, <3>5, <3>6
  <2>8. i = s \/ s < i
    OBVIOUS
  <2>9. QED
    BY <2>6, <2>7, <2>8
<1>3. N \in 0 .. N /\ ~(N < s)
  BY <1>1
<1> HIDE DEF G, N
<1>4. \A i \in 0 .. N : i \in G
  BY <1>1, <1>2, AllAlong
<1>5. N \in G
  BY <1>3, <1>4
<1>6. QED
  BY <1>3, <1>5 DEF G, N

\* What one more line does to the state of the compressor.
LEMMA AtNextKeeps ==
  ASSUME NEW acc \in CodeStates, NEW n \in Nat, NEW line, line.toks \in Seq(Tokens),
         NEW hint
  PROVE  LET new == AtNext(acc, n, line, hint)
         IN  new \in CodeStates /\ \A m : Has(acc.out, m) => Has(new.out, m)
<1>1. CASE acc.inside
  BY <1>1, InCommentFacts DEF AtNext
<1>2. CASE ~acc.inside /\ Find(line.toks, "open") # 0
  BY <1>2, AtOpenerFacts DEF AtNext
<1>3. CASE ~acc.inside /\ Find(line.toks, "open") = 0
  BY <1>3, AtLineFacts DEF AtNext
<1>4. QED
  BY <1>1, <1>2, <1>3

\* After a line, unless an opener is hidden, the compressor is in a comment
\* where the scanner is, and if the scanner has seen code, so has the result.
LEMMA LineAgrees ==
  ASSUME NEW acc \in CodeStates, NEW n \in Nat, NEW line, line.toks \in Seq(Tokens),
         NEW hint, NEW hidden \in BOOLEAN
  PROVE  LET t   == Tokenized(acc.inside, hidden, line.toks)
             new == AtNext(acc, n, line, hint)
         IN  /\ t \in TokenStates
             /\ hidden => t.hidden
             /\ \/ t.hidden \/ (t.closed /\ t.inside)
                \/ (t.inside <=> new.inside) /\ (t.code => Has(new.out, n))
<1> DEFINE toks == line.toks
           N    == Len(toks)
           t    == Tokenized(acc.inside, hidden, toks)
           new  == AtNext(acc, n, line, hint)
<1>1. acc.inside \in BOOLEAN /\ toks \in Seq(Tokens) /\ N \in Nat
  BY CodeStateIs, LenProperties
<1> HIDE DEF t
<1>2. PICK r : Reads(r, acc.inside, hidden, toks) /\ t = r[N]
  BY <1>1, TokenizedSteps DEF t
<1>3. t \in TokenStates
  BY <1>1, <1>2 DEF Reads
<1>4. hidden => t.hidden
  BY <1>1, <1>2, HiddenStays
<1> SUFFICES \/ t.hidden \/ (t.closed /\ t.inside)
             \/ (t.inside <=> new.inside) /\ (t.code => Has(new.out, n))
  BY <1>3, <1>4 DEF t
<1> HIDE DEF toks
<1>5. CASE acc.inside
  <2> DEFINE e == Find(toks, "close")
  <2>1. InsideAt(toks, e, t, N)
    BY <1>1, <1>2, <1>5, TokensInside
  <2>2. new = InComment(acc, n, toks)
    BY <1>5 DEF AtNext, toks
  <2> HIDE DEF new, e
  <2>3. e \in 0 .. N
    BY <1>1, FindFacts DEF e
  <2>4. CASE e = 0
    <3>1. new = acc
      BY <1>1, <2>2, <2>4, InCommentFacts DEF e
    <3>2. QED
      BY <1>5, <2>1, <2>4, <3>1 DEF InsideAt
  <2>5. CASE e # 0
    <3>1. ~new.inside /\ ("code" \in Range(After(toks, e)) => Has(new.out, n))
      BY <1>1, <2>2, <2>5, InCommentFacts DEF e
    <3>2. ~(N < e) /\ e \in 1 .. N
      BY <1>1, <2>3, <2>5
    <3>3. t.closed /\ (t.code => CodeIn(toks, e + 1, N))
      BY <2>1, <2>5, <3>2 DEF InsideAt
    <3>4. \A j \in e + 1 .. N : toks[j] \in Range(After(toks, e))
      BY <1>1, <3>2, AfterFacts
    <3>5. t.code => Has(new.out, n)
      BY <3>1, <3>3, <3>4 DEF CodeIn
    <3>6. QED
      BY <3>1, <3>3, <3>5
  <2>6. QED
    BY <2>4, <2>5
<1>6. CASE ~acc.inside /\ Find(toks, "open") = 0
  <2>1. \A i \in 1 .. N : toks[i] # "open"
    BY <1>1, <1>6, FindFacts
  <2>2. OutsideAt(toks, t, N)
    BY <1>1, <1>2, <1>6, <2>1, TokensOutside
  <2>3. new = AtLine(acc, n, line, hint)
    BY <1>6 DEF AtNext, toks
  <2> HIDE DEF new
  <2>4. ~new.inside /\ ("code" \in Range(CodePart(toks)) => Has(new.out, n))
    BY <1>1, <1>6, <2>3, AtLineFacts DEF toks
  <2>5. ~t.inside
    BY <2>2 DEF OutsideAt
  <2>6. ASSUME t.code PROVE Has(new.out, n)
    <3>1. PICK j \in 1 .. N : /\ toks[j] = "code" /\ toks[1] # "hash"
                              /\ \A k \in 1 .. j : toks[k] # "slash"
      BY <2>2, <2>6 DEF OutsideAt
    <3>2. toks[j] \in Range(CodePart(toks))
      BY <1>1, <3>1, CodePartFacts
    <3>3. QED
      BY <2>4, <3>1, <3>2
  <2>7. QED
    BY <2>4, <2>5, <2>6
<1>7. CASE ~acc.inside /\ Find(toks, "open") # 0
  <2> DEFINE s == Find(toks, "open")
             after == After(toks, s)
             f == Find(after, "close")
             e == IF f = 0 THEN 0 ELSE s + f
  <2>1. /\ s \in 1 .. N /\ toks[s] = "open"
        /\ \A i \in 1 .. s - 1 : toks[i] # "open"
    BY <1>1, <1>7, FindFacts
  <2>2. new = AtOpener(acc, n, toks)
    BY <1>7 DEF AtNext, toks
  <2> HIDE DEF new
  <2>3. /\ new.inside <=> f = 0
        /\ "code" \in Range(Before(toks, s)) => Has(new.out, n)
        /\ f # 0 /\ "code" \in Range(After(after, f)) => Has(new.out, n)
    BY <1>1, <1>7, <2>2, AtOpenerFacts
  <2> HIDE DEF s
  <2>4. /\ after \in Seq(Tokens) /\ Len(after) = N - s
        /\ \A j \in 1 .. N - s : after[j] = toks[s + j]
    BY <1>1, <2>1, AfterFacts
  <2>5. \A j \in 1 .. s - 1 : toks[j] \in Range(Before(toks, s))
    BY <1>1, <2>1, BeforeFacts
  <2> HIDE DEF after
  <2>6. /\ f \in 0 .. N - s
        /\ f = 0 => \A i \in 1 .. N - s : after[i] # "close"
        /\ f # 0 => after[f] = "close" /\ \A i \in 1 .. f - 1 : after[i] # "close"
    BY <2>4, FindFacts
  <2> HIDE DEF f
  <2>7. \A i \in s + 1 .. N : i - s \in 1 .. N - s /\ after[i - s] = toks[i]
    <3>1. ASSUME NEW i \in s + 1 .. N PROVE i - s \in 1 .. N - s /\ s + (i - s) = i
      BY <1>1, <2>1
    <3>2. QED
      BY <2>4, <3>1
  <2>8. f # 0 => /\ s + f \in s + 1 .. N /\ (s + f) - s = f
                 /\ \A i \in s + 1 .. (s + f) - 1 : i \in s + 1 .. N /\ i - s \in 1 .. f - 1
    BY <1>1, <2>1, <2>6
  <2>9. /\ e \in 0 .. N
        /\ e = 0 => \A i \in s + 1 .. N : toks[i] # "close"
        /\ e # 0 => /\ s < e /\ toks[e] = "close"
                    /\ \A i \in s + 1 .. e - 1 : toks[i] # "close"
    <3>1. CASE f = 0
      BY <1>1, <2>6, <2>7, <3>1
    <3>2. CASE f # 0
      <4>1. e = s + f /\ e \in 0 .. N /\ s < e /\ e # 0
        BY <1>1, <2>1, <2>6, <3>2
      <4>2. toks[e] = "close"
        BY <2>6, <2>7, <2>8, <3>2
      <4>3. \A i \in s + 1 .. e - 1 : toks[i] # "close"
        BY <2>6, <2>7, <2>8, <3>2
      <4>4. QED
        BY <4>1, <4>2, <4>3
    <3>3. QED
      BY <3>1, <3>2
  <2>10. f # 0 => e = s + f /\ e # 0 /\ ~(N < e)
    BY <1>1, <2>1, <2>6
  <2>11. f = 0 => e = 0
    OBVIOUS
  <2> HIDE DEF e
  <2>12. AroundAt(toks, s, e, t, N)
    BY <1>1, <1>2, <1>7, <2>1, <2>9, TokensAround
  <2>13. CodeIn(toks, 1, s - 1) => Has(new.out, n)
    BY <2>3, <2>5 DEF CodeIn
  <2>14. CASE t.hidden
    BY <2>14
  <2>15. CASE ~t.hidden /\ f = 0
    BY <2>3, <2>11, <2>12, <2>13, <2>15 DEF AroundAt
  <2>16. CASE ~t.hidden /\ f # 0
    <3>1. t.closed /\ (t.code => CodeIn(toks, 1, s - 1) \/ CodeIn(toks, e + 1, N))
      BY <2>10, <2>12, <2>16 DEF AroundAt
    <3>2. CodeIn(toks, e + 1, N) => Has(new.out, n)
      <4>1. \A j \in f + 1 .. N - s : after[j] \in Range(After(after, f))
        BY <2>4, <2>6, <2>16, AfterFacts
      <4>2. ASSUME NEW j \in e + 1 .. N
            PROVE  j - s \in f + 1 .. N - s /\ j \in s + 1 .. N
        BY <1>1, <2>1, <2>6, <2>10, <2>16
      <4>3. QED
        BY <2>3, <2>7, <2>16, <4>1, <4>2 DEF CodeIn
    <3>3. QED
      BY <2>3, <2>13, <2>16, <3>1, <3>2
  <2>17. QED
    BY <2>14, <2>15, <2>16
<1>8. QED
  BY <1>5, <1>6, <1>7

\* The lines of a source text.
TokenLines(lines) == IsSeq(lines) /\ \A n \in DOMAIN lines : lines[n].toks \in Seq(Tokens)

\* What the result keeps of the lines that are left: all up to the last that is
\* not blank.
Trimmed(left) == SubSeq(left, 1, SelectLastInSeq(left, LAMBDA x : x.toks # <<>>))

CodeStart == [inside |-> FALSE, blanks |-> 0, out |-> <<>>]
ScanStart == [inside |-> FALSE, hidden |-> FALSE, code |-> {}]

\* The states that the compressor goes through.
LEMMA CompressCodeSteps ==
  ASSUME NEW lines, TokenLines(lines), NEW hint
  PROVE  \E h : /\ \A n \in 0 .. Len(lines) : h[n] \in CodeStates
                /\ h[0] = CodeStart
                /\ \A n \in 1 .. Len(lines) : h[n] = AtNext(h[n - 1], n, lines[n], hint)
                /\ CompressCode(lines, hint) = Trimmed(h[Len(lines)].out)
<1> DEFINE N == Len(lines)
           D == CodeStates
           a == CodeStart
           Rec(g) == [n \in 0 .. N |-> IF n = 0 THEN a ELSE AtNext(g[n - 1], n, lines[n], hint)]
           h == CHOOSE g : g = Rec(g)
<1>1. N \in Nat /\ \A n \in 1 .. N : lines[n].toks \in Seq(Tokens)
  BY SeqIs DEF TokenLines
<1>2. a \in D
  BY EmptySeq DEF CodeStates, CodeStart
<1>3. \A n \in 1 .. N : \A acc \in D : AtNext(acc, n, lines[n], hint) \in D
  <2>1. \A n \in 1 .. N : n \in Nat
    BY <1>1
  <2>2. QED
    BY <1>1, <2>1, AtNextKeeps
<1> HIDE DEF D, N, a
<1>4. \E g \in [0 .. N -> D] : g = Rec(g)
  <2> DEFINE step == [n \in 1 .. N |-> [acc \in D |-> AtNext(acc, n, lines[n], hint)]]
  <2>1. step \in [1 .. N -> [D -> D]]
    BY <1>3
  <2>2. \A n \in 1 .. N : \A acc \in D : step[n][acc] = AtNext(acc, n, lines[n], hint)
    OBVIOUS
  <2> HIDE DEF step
  <2>3. \E g \in [0 .. N -> D] : Iterated(g, a, step, N)
    BY <1>1, <1>2, <2>1, Iterates
  <2>4. PICK g \in [0 .. N -> D] : g[0] = a /\ \A n \in 1 .. N : g[n] = step[n][g[n - 1]]
    BY <2>3 DEF Iterated
  <2>5. ASSUME NEW n \in 0 .. N PROVE g[n] = Rec(g)[n]
    <3>1. CASE n = 0
      BY <2>4, <3>1
    <3>2. CASE n # 0
      <4>1. n \in 1 .. N /\ n - 1 \in 0 .. N
        BY <1>1, <3>2
      <4>2. g[n - 1] \in D
        BY <4>1
      <4>3. QED
        BY <2>2, <2>4, <3>2, <4>1, <4>2
    <3>3. QED
      BY <3>1, <3>2
  <2>6. g = [n \in 0 .. N |-> g[n]] /\ Rec(g) = [n \in 0 .. N |-> Rec(g)[n]]
    OBVIOUS
  <2> HIDE DEF Rec
  <2>7. g = Rec(g)
    BY <2>5, <2>6
  <2>8. QED
    BY <2>7
<1>5. h = Rec(h)
  <2> HIDE DEF Rec
  <2>1. QED
    BY <1>4
<1>6. h[0] = a /\ \A n \in 1 .. N : h[n] = AtNext(h[n - 1], n, lines[n], hint)
  <2> HIDE DEF h
  <2>1. 0 \in 0 .. N /\ \A n \in 1 .. N : n \in 0 .. N /\ n # 0
    BY <1>1
  <2>2. QED
    BY <1>5, <2>1
<1>7. CompressCode(lines, hint) = Trimmed(h[N].out)
  BY DEF CompressCode, Trimmed, N, a, CodeStart
<1> HIDE DEF h, Rec
<1>8. \A n \in 0 .. N : h[n] \in D
  <2>1. \A n \in 1 .. N : h[n - 1] \in D => h[n] \in D
    BY <1>3, <1>6
  <2>2. QED
    BY <1>1, <1>2, <1>6, <2>1, IteratesIn
<1>9. QED
  BY <1>6, <1>7, <1>8 DEF N, D, a

\* One more line that is scanned.
LEMMA ScanLineFacts ==
  ASSUME NEW acc \in ScanStates, NEW n \in Nat, NEW toks \in Seq(Tokens)
  PROVE  LET t   == Tokenized(acc.inside, acc.hidden, toks)
             new == ScanLine(acc, n, toks)
         IN  /\ new \in ScanStates
             /\ new.inside = t.inside
             /\ new.hidden <=> t.hidden \/ (t.closed /\ t.inside)
             /\ \A m \in new.code : m \in acc.code \/ (m = n /\ t.code)
<1> DEFINE t == Tokenized(acc.inside, acc.hidden, toks)
<1>1. acc.inside \in BOOLEAN /\ acc.hidden \in BOOLEAN /\ acc.code \in SUBSET Nat
  BY DEF ScanStates
<1> HIDE DEF t
<1>2. t \in TokenStates
  <2>1. PICK r : Reads(r, acc.inside, acc.hidden, toks) /\ t = r[Len(toks)]
    BY <1>1, TokenizedSteps DEF t
  <2>2. Len(toks) \in Nat
    BY LenProperties
  <2>3. QED
    BY <2>1, <2>2 DEF Reads
<1>3. t.inside \in BOOLEAN /\ t.hidden \in BOOLEAN /\ t.closed \in BOOLEAN /\ t.code \in BOOLEAN
  BY <1>2 DEF TokenStates
<1>4. PICK hid \in BOOLEAN : hid = (t.hidden \/ (t.closed /\ t.inside))
  OBVIOUS
<1>5. PICK code \in SUBSET Nat : code = IF t.code THEN acc.code \cup {n} ELSE acc.code
  BY <1>1
<1>6. ScanLine(acc, n, toks) = [inside |-> t.inside, hidden |-> hid, code |-> code]
  BY <1>4, <1>5, Zenon DEF ScanLine, t
<1>7. /\ ScanLine(acc, n, toks) \in ScanStates
      /\ ScanLine(acc, n, toks).inside = t.inside
      /\ ScanLine(acc, n, toks).hidden = hid
      /\ ScanLine(acc, n, toks).code = code
  BY <1>3, <1>6 DEF ScanStates
<1>8. QED
  BY <1>1, <1>4, <1>5, <1>7 DEF t

\* The states that the scanner goes through, line by line.
LEMMA ScanSteps ==
  ASSUME NEW lines, TokenLines(lines)
  PROVE  \E h : /\ \A n \in 0 .. Len(lines) : h[n] \in ScanStates
                /\ h[0] = ScanStart
                /\ \A n \in 1 .. Len(lines) : h[n] = ScanLine(h[n - 1], n, lines[n].toks)
                /\ Scan(lines) = h[Len(lines)]
<1> DEFINE N == Len(lines)
           D == ScanStates
           a == ScanStart
           Rec(g) == [n \in 0 .. N |-> IF n = 0 THEN a ELSE ScanLine(g[n - 1], n, lines[n].toks)]
           h == CHOOSE g : g = Rec(g)
<1>1. N \in Nat /\ \A n \in 1 .. N : lines[n].toks \in Seq(Tokens)
  BY SeqIs DEF TokenLines
<1>2. a \in D
  BY DEF ScanStates, ScanStart
<1>3. \A n \in 1 .. N : \A acc \in D : ScanLine(acc, n, lines[n].toks) \in D
  <2>1. \A n \in 1 .. N : n \in Nat
    BY <1>1
  <2>2. QED
    BY <1>1, <2>1, ScanLineFacts
<1> HIDE DEF D, N, a
<1>4. \E g \in [0 .. N -> D] : g = Rec(g)
  <2> DEFINE step == [n \in 1 .. N |-> [acc \in D |-> ScanLine(acc, n, lines[n].toks)]]
  <2>1. step \in [1 .. N -> [D -> D]]
    BY <1>3
  <2>2. \A n \in 1 .. N : \A acc \in D : step[n][acc] = ScanLine(acc, n, lines[n].toks)
    OBVIOUS
  <2> HIDE DEF step
  <2>3. \E g \in [0 .. N -> D] : Iterated(g, a, step, N)
    BY <1>1, <1>2, <2>1, Iterates
  <2>4. PICK g \in [0 .. N -> D] : g[0] = a /\ \A n \in 1 .. N : g[n] = step[n][g[n - 1]]
    BY <2>3 DEF Iterated
  <2>5. ASSUME NEW n \in 0 .. N PROVE g[n] = Rec(g)[n]
    <3>1. CASE n = 0
      BY <2>4, <3>1
    <3>2. CASE n # 0
      <4>1. n \in 1 .. N /\ n - 1 \in 0 .. N
        BY <1>1, <3>2
      <4>2. g[n - 1] \in D
        BY <4>1
      <4>3. QED
        BY <2>2, <2>4, <3>2, <4>1, <4>2
    <3>3. QED
      BY <3>1, <3>2
  <2>6. g = [n \in 0 .. N |-> g[n]] /\ Rec(g) = [n \in 0 .. N |-> Rec(g)[n]]
    OBVIOUS
  <2> HIDE DEF Rec
  <2>7. g = Rec(g)
    BY <2>5, <2>6
  <2>8. QED
    BY <2>7
<1>5. h = Rec(h)
  <2> HIDE DEF Rec
  <2>1. QED
    BY <1>4
<1>6. h[0] = a /\ \A n \in 1 .. N : h[n] = ScanLine(h[n - 1], n, lines[n].toks)
  <2> HIDE DEF h
  <2>1. 0 \in 0 .. N /\ \A n \in 1 .. N : n \in 0 .. N /\ n # 0
    BY <1>1
  <2>2. QED
    BY <1>5, <2>1
<1>7. Scan(lines) = h[N]
  BY DEF Scan, N, a, ScanStart
<1> HIDE DEF h, Rec
<1>8. \A n \in 0 .. N : h[n] \in D
  <2>1. \A n \in 1 .. N : h[n - 1] \in D => h[n] \in D
    BY <1>3, <1>6
  <2>2. QED
    BY <1>1, <1>2, <1>6, <2>1, IteratesIn
<1>9. QED
  BY <1>6, <1>7, <1>8 DEF N, D, a

\* Trimming costs no line that has code.
LEMMA TrimmedKeeps ==
  ASSUME NEW left \in Seq(LeftLines), NEW m, Has(left, m)
  PROVE  \E x \in Range(Trimmed(left)) : x.from = m /\ "code" \in Range(x.toks)
<1> DEFINE N == Len(left)
           I == {i \in 1 .. N : left[i].toks # <<>>}
           last == SelectLastInSeq(left, LAMBDA x : x.toks # <<>>)
<1>1. N \in Nat /\ DOMAIN left = 1 .. N
  BY LenProperties
<1>2. PICK i \in 1 .. N : left[i].from = m /\ "code" \in Range(left[i].toks)
  BY <1>1 DEF Has
<1>3. left[i].toks # <<>>
  BY <1>2 DEF Range
<1>4. i \in I /\ I \in SUBSET (0 .. N)
  BY <1>2, <1>3
<1>5. last = Max(I)
  BY <1>4 DEF SelectLastInSeq
<1>6. \A j \in I : j \in 0 .. N
  OBVIOUS
<1> HIDE DEF I, last
<1>7. last \in 0 .. N /\ i <= last
  BY <1>1, <1>4, <1>5, <1>6, MaxProps
<1>8. last \in Nat /\ last <= N /\ 1 <= last + 1 /\ i \in 1 .. last
      /\ last + 1 - 1 = last /\ 1 + i - 1 = i
  BY <1>1, <1>7
<1> HIDE DEF N
<1>9. /\ SubSeq(left, 1, last) \in Seq(LeftLines)
      /\ Len(SubSeq(left, 1, last)) = last
      /\ SubSeq(left, 1, last)[i] = left[i]
  <2>1. /\ SubSeq(left, 1, last) \in Seq(LeftLines)
        /\ Len(SubSeq(left, 1, last)) = last + 1 - 1
        /\ \A j \in 1 .. last + 1 - 1 : SubSeq(left, 1, last)[j] = left[1 + j - 1]
    BY <1>8, PieceFacts DEF N
  <2>2. QED
    BY <1>8, <2>1
<1>10. left[i] \in Range(SubSeq(left, 1, last))
  <2>1. DOMAIN SubSeq(left, 1, last) = 1 .. last
    BY <1>9, LenProperties
  <2>2. QED
    BY <1>8, <1>9, <2>1 DEF Range
<1>11. Trimmed(left) = SubSeq(left, 1, last)
  BY DEF Trimmed, last
<1>12. QED
  BY <1>2, <1>10, <1>11

\* Unless an opener is hidden, of every line that holds code outside of
\* comments there is code in the result.
LEMMA CompressCodeKeeps ==
  ASSUME NEW lines, TokenLines(lines), NEW hint, ~Scan(lines).hidden,
         NEW m \in Scan(lines).code
  PROVE  \E x \in Range(CompressCode(lines, hint)) : x.from = m /\ "code" \in Range(x.toks)
<1> DEFINE N == Len(lines)
<1>1. N \in Nat /\ \A n \in 1 .. N : lines[n].toks \in Seq(Tokens)
  BY SeqIs DEF TokenLines
<1>2. PICK c : /\ \A n \in 0 .. N : c[n] \in CodeStates
               /\ c[0] = CodeStart
               /\ \A n \in 1 .. N : c[n] = AtNext(c[n - 1], n, lines[n], hint)
               /\ CompressCode(lines, hint) = Trimmed(c[N].out)
  BY CompressCodeSteps
<1>3. PICK s : /\ \A n \in 0 .. N : s[n] \in ScanStates
               /\ s[0] = ScanStart
               /\ \A n \in 1 .. N : s[n] = ScanLine(s[n - 1], n, lines[n].toks)
               /\ Scan(lines) = s[N]
  BY ScanSteps
<1> DEFINE Agree(n) == \/ s[n].hidden
                       \/ /\ c[n].inside = s[n].inside
                          /\ \A k \in s[n].code : Has(c[n].out, k)
           G == {n \in 0 .. N : Agree(n)}
<1>4. 0 \in G
  <2>1. c[0].inside = FALSE /\ s[0].inside = FALSE /\ s[0].code = {}
    BY <1>2, <1>3 DEF CodeStart, ScanStart
  <2>2. Agree(0)
    BY <2>1
  <2>3. QED
    BY <1>1, <2>2
<1>5. ASSUME NEW n \in 1 .. N, n - 1 \in G PROVE n \in G
  <2> DEFINE p == s[n - 1]
             q == c[n - 1]
             toks == lines[n].toks
             t == Tokenized(p.inside, p.hidden, toks)
  <2>1. n \in Nat /\ n - 1 \in 0 .. N /\ n \in 0 .. N
    BY <1>1
  <2>2. p \in ScanStates /\ q \in CodeStates /\ toks \in Seq(Tokens)
    BY <1>1, <1>2, <1>3, <2>1
  <2>3. s[n] = ScanLine(p, n, toks) /\ c[n] = AtNext(q, n, lines[n], hint)
    BY <1>2, <1>3
  <2>4. Agree(n - 1)
    BY <1>5
  <2>5. s[n] \in ScanStates /\ c[n] \in CodeStates
    BY <1>2, <1>3, <2>1
  <2> SUFFICES Agree(n)
    BY <2>1
  <2>6. p.hidden \in BOOLEAN
    BY <2>2 DEF ScanStates
  <2> HIDE DEF p, q, toks, t, Agree
  <2>7. /\ s[n].inside = t.inside
        /\ s[n].hidden <=> t.hidden \/ (t.closed /\ t.inside)
        /\ \A k \in s[n].code : k \in p.code \/ (k = n /\ t.code)
    BY <2>1, <2>2, <2>3, ScanLineFacts DEF t
  <2>8. \A k : Has(q.out, k) => Has(c[n].out, k)
    BY <2>1, <2>2, <2>3, AtNextKeeps DEF toks
  <2>9. CASE p.hidden
    <3>1. p.inside \in BOOLEAN
      BY <2>2 DEF ScanStates
    <3>2. PICK r : Reads(r, p.inside, p.hidden, toks) /\ t = r[Len(toks)]
      BY <2>2, <2>6, <3>1, TokenizedSteps DEF t
    <3>3. t.hidden
      BY <2>2, <2>6, <2>9, <3>1, <3>2, HiddenStays
    <3>4. QED
      BY <2>7, <3>3 DEF Agree
  <2>10. CASE ~p.hidden
    <3>1. q.inside = p.inside /\ \A k \in p.code : Has(q.out, k)
      BY <2>4, <2>10 DEF Agree, p, q
    <3>2. t = Tokenized(q.inside, p.hidden, toks)
      BY <3>1 DEF t
    <3>3. \/ t.hidden \/ (t.closed /\ t.inside)
          \/ (t.inside <=> c[n].inside) /\ (t.code => Has(c[n].out, n))
      BY <2>1, <2>2, <2>3, <2>6, <3>2, LineAgrees DEF toks
    <3>4. CASE s[n].hidden
      BY <3>4 DEF Agree
    <3>5. CASE ~s[n].hidden
      <4>1. (t.inside <=> c[n].inside) /\ (t.code => Has(c[n].out, n))
        BY <2>7, <3>3, <3>5
      <4>2. \A k \in s[n].code : Has(c[n].out, k)
        BY <2>7, <2>8, <3>1, <4>1
      <4>3. c[n].inside \in BOOLEAN /\ s[n].inside \in BOOLEAN
        BY <2>5 DEF CodeStates, ScanStates
      <4>4. c[n].inside = s[n].inside
        BY <2>7, <4>1, <4>3
      <4>5. QED
        BY <4>2, <4>4 DEF Agree
    <3>6. QED
      BY <3>4, <3>5
  <2>11. QED
    BY <2>9, <2>10
<1> HIDE DEF G
<1>6. \A n \in 0 .. N : n \in G
  BY <1>1, <1>4, <1>5, AllAlong
<1>7. N \in 0 .. N
  BY <1>1
<1>8. Agree(N)
  BY <1>6, <1>7 DEF G
<1>9. Has(c[N].out, m)
  BY <1>3, <1>8
<1>10. c[N].out \in Seq(LeftLines)
  BY <1>2, <1>7, CodeStateIs
<1>11. QED
  BY <1>2, <1>9, <1>10, TrimmedKeeps

\* The lines that a well-formed content of code is read as.
LEMMA AsLinesFacts ==
  ASSUME NEW c, WellFormed(c), Compressor(c) = "ast_code"
  PROVE  TokenLines(AsLines(c))
<1> DEFINE x == [toks |-> <<"code">>, structural |-> FALSE, hit |-> FALSE, long |-> FALSE]
           lines == AsLines(c)
<1>1. /\ IsSeq(c.body) /\ Len(c.body) \in Nat /\ DOMAIN c.body = 1 .. Len(c.body)
      /\ \A n \in DOMAIN c.body : lines[n].toks \in Seq(Tokens)
  BY SeqIs DEF WellFormed
<1>2. lines = IF c.kind = "code" THEN c.body ELSE [i \in DOMAIN c.body |-> x]
  BY DEF AsLines
<1> HIDE DEF x, lines
<1>3. IsSeq(lines) /\ DOMAIN lines = DOMAIN c.body
  <2>1. CASE c.kind = "code"
    BY <1>1, <1>2, <2>1
  <2>2. CASE c.kind # "code"
    <3>1. lines \in [1 .. Len(c.body) -> {x}]
      BY <1>1, <1>2, <2>2
    <3>2. lines \in Seq({x}) /\ DOMAIN lines = 1 .. Len(c.body)
      BY <1>1, <3>1, FcnIsSeq
    <3>3. QED
      BY <1>1, <3>2, SeqFacts
  <2>3. QED
    BY <2>1, <2>2
<1>4. QED
  BY <1>1, <1>3 DEF TokenLines, lines

\* In every source text that is emitted, of every line that holds code outside
\* of comments there is code, unless an opener was hidden from the compressor,
\* in a line comment or behind the end of another comment (ast_code.rs).
THEOREM CodeKept == Spec => []CodeSurvives
<1>1. PipeInv => CodeSurvives
  <2> SUFFICES ASSUME PipeInv, NEW i \in DOMAIN out, By(i, "ast_code"),
                      ~Scan(AsLines(out[i].text.of)).hidden,
                      NEW n \in Scan(AsLines(out[i].text.of)).code
               PROVE  \E left \in Range(Result(i)) : left.from = n /\ "code" \in Range(left.toks)
    BY DEF CodeSurvives
  <2> DEFINE c == Aligned(prompt[i])
             lines == AsLines(c)
  <2>1. out[i].text.by = "ast_code"
    BY DEF By
  <2>2. PICK k \in Sizes(c) :
          /\ WellFormed(c) /\ out[i].text = Compressed(config, c, k)
          /\ out[i].text.by = Compressor(c) /\ out[i].text.of = c
          /\ Compressed(config, c, k) # Original(c)
    BY <2>1, EmittedBy
  <2> HIDE DEF c
  <2>3. Compressor(c) = "ast_code"
    BY <2>1, <2>2
  <2>4. Result(i) = CompressCode(lines, config.hint)
    <3>1. \/ Compressed(config, c, k) = Original(c)
          \/ Compressed(config, c, k) = Written("ast_code", c, CompressCode(AsLines(c), config.hint))
      BY <2>3 DEF Compressed
    <3>2. QED
      BY <2>2, <3>1 DEF Result, Written
  <2>5. TokenLines(lines)
    BY <2>2, <2>3, AsLinesFacts
  <2>6. ~Scan(lines).hidden /\ n \in Scan(lines).code
    BY <2>2
  <2> HIDE DEF lines
  <2>7. QED
    BY <2>4, <2>5, <2>6, CompressCodeKeeps
<1>2. QED
  BY <1>1, PipeAlways, PTL
=============================================================================
