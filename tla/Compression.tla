---------------------------- MODULE Compression ----------------------------
(***************************************************************************)
(* DefaultCompressionPipeline::run: every message is aligned if the cache  *)
(* wants it, detected, routed to a compressor and, when the pipeline is    *)
(* reversible, saved before its compressed text is emitted.                *)
(*                                                                         *)
(* A content is [kind, body, canon, marks]: the one value of a "json", the *)
(* lines of a "log" or of "code" or the paragraphs of a "text"; whether it *)
(* is JSON as serde_json writes it; and what Detect looks at.  The id of a *)
(* saved text is the text.                                                 *)
(***************************************************************************)
EXTENDS Detect, LogStripper, SmartCrusher, AstCode, Semantic

CONSTANTS
  PipelineConfigs,  \* the pipelines that may run
  Prompts,          \* the sequences of contents it may run on
  LogK,             \* compute_optimal_k of a log
  MaxFaults,        \* bound: saves that fail
  None              \* no id

ASSUME CompressionAssumption ==
  /\ PipelineConfigs \subseteq
       [reversible : BOOLEAN, align : BOOLEAN, hint : BOOLEAN,
        registered : SUBSET {"smart_crusher", "log_stripper", "ast_code", "semantic"}]
  /\ LogK \subseteq Nat \ {0}
  /\ MaxFaults \in Nat

VARIABLES
  config,    \* of the pipeline; reversible also means that it has a store
  prompt,    \* the contents of the messages
  phase,     \* "route", or "save" while the saves of a message are under way
  pending,   \* texts still to save
  result,    \* what is emitted once they are
  store,     \* texts that the CCR store holds
  out,       \* messages emitted so far: [text, ccr]
  faults     \* saves that failed

vars == <<config, prompt, phase, pending, result, store, out, faults>>
-----------------------------------------------------------------------------
(* Contents *)

\* align_text: JSON gets its keys sorted and is written anew, anything else
\* becomes one line, on which each kind of mark can show once.
Align(c) ==
  LET once(n) == Min({n, 1})
      m == c.marks
      one == [norm |-> c.body, long |-> FALSE, hit |-> FALSE]
  IN  IF c.kind = "json" THEN [c EXCEPT !.canon = TRUE]
      ELSE [c EXCEPT !.body =
              CASE c.kind = "code" ->
                     <<[Head(@) EXCEPT !.toks = FlattenSeq([i \in DOMAIN c.body |-> c.body[i].toks]),
                                       !.long = TRUE]>>
                [] c.kind = "log"  -> <<Head(@)>>
                [] c.kind = "text" -> <<one>>,
            !.marks = [m EXCEPT !.lines = once(@), !.headers = once(@),
                         !.changes = once(@), !.search = once(@), !.log = once(@),
                         !.errors = once(@), !.code = once(@)]]

Aligned(c) == IF config.align THEN Align(c) ELSE c

\* The other compressors' views of a content that is routed to them.
AsLines(c) == IF c.kind = "code" THEN c.body
              ELSE [i \in DOMAIN c.body |-> [toks |-> <<"code">>, structural |-> FALSE,
                                             hit |-> FALSE, long |-> FALSE]]
AsParas(c) == IF c.kind = "text" THEN c.body
              ELSE <<[norm |-> "lines", long |-> FALSE, hit |-> FALSE]>>

\* The compressor that compress_one looks for.
Route(type) ==
  CASE type = "JsonArray"                   -> "smart_crusher"
    [] type = "BuildOutput"                 -> "log_stripper"
    [] type \in {"SourceCode", "GitDiff"}   -> "ast_code"
    [] type \in {"SearchResults", "Html", "PlainText"} -> "semantic"

Compressor(c) == Route(DetectContentType(c.marks))

\* A content whose marks are those of its kind: what is crushed is JSON that
\* serde_json parses, what is stripped are lines of a log, what is read as code
\* are lines of tokens.
IsJson(v) ==
  \A w \in Within(v) :
    /\ w.t \in {"str", "num", "bool", "null", "arr", "obj"}
    /\ IsSeq(Children(w)) /\ Range(Children(w)) \subseteq Within(v)
    /\ w.t = "str" => w.len \in Nat /\ w.err \in BOOLEAN /\ w.hit \in BOOLEAN
    /\ w.t = "arr" => {"t", "items"} \subseteq DOMAIN w
    /\ w.t = "obj" => {"t", "fields"} \subseteq DOMAIN w

WellFormed(c) ==
  /\ {"kind", "body", "canon", "marks"} \subseteq DOMAIN c /\ IsSeq(c.body)
  /\ Compressor(c) = "smart_crusher" => c.kind = "json" /\ Len(c.body) = 1 /\ IsJson(c.body[1])
  /\ Compressor(c) = "log_stripper" =>
       c.kind = "log" /\ \A n \in DOMAIN c.body : c.body[n].level \in DOMAIN LevelScore
  /\ Compressor(c) = "ast_code" =>
       \A n \in DOMAIN c.body : AsLines(c)[n].toks \in Seq(Tokens)

ASSUME PromptsAssumption ==
  \A p \in Prompts : /\ IsSeq(p)
                     /\ \A i \in DOMAIN p : WellFormed(p[i]) /\ WellFormed(Align(p[i]))

\* What a compressor makes of a content; how many items it may keep.
Sizes(c) == CASE Compressor(c) = "smart_crusher" -> OptimalK(Passthrough + 1)
              [] Compressor(c) = "log_stripper"  -> LogK
              [] OTHER -> {1}

Crushed(cfg, c, k) == Crush(c.body[1], k, cfg.hint, cfg.reversible)

\* A text that a compressor has written, from content `of'.
Written(by, of, left) == [by |-> by, of |-> of, left |-> left]
Original(c) == Written("none", c, None)

\* The emitted text; the original one when nothing has changed.
Compressed(cfg, c, k) ==
  LET lines == AsLines(c)
      paras == AsParas(c)
      log   == CompressLog(c.body, k, cfg.hint)
      code  == CompressCode(lines, cfg.hint)
      text  == CompressText(paras, cfg.hint)
  IN  CASE Compressor(c) = "smart_crusher" ->
             IF Crushed(cfg, c, k).value = c.body[1] /\ c.canon THEN Original(c)
             ELSE Written("smart_crusher", c, Crushed(cfg, c, k).value)
        [] Compressor(c) = "log_stripper" ->
             IF log.kept = DOMAIN c.body THEN Original(c)
             ELSE Written("log_stripper", c, log)
        [] Compressor(c) = "ast_code" ->
             IF code = [n \in DOMAIN lines |-> Left(n, lines[n].toks, FALSE)]
             THEN Original(c) ELSE Written("ast_code", c, code)
        [] Compressor(c) = "semantic" ->
             IF text = [n \in DOMAIN paras |-> Shown(n, FALSE)]
             THEN Original(c) ELSE Written("semantic", c, text)

\* Mutant: the arrays behind the markers are not saved.
SavesOf_TextOnly(cfg, c, k) == IF cfg.reversible THEN <<[text |-> c]>> ELSE <<>>

\* The sampled arrays first, then the whole text, changed or not.
SavesOf(cfg, c, k) ==
  LET arrays == IF Compressor(c) = "smart_crusher" THEN Crushed(cfg, c, k).saves ELSE <<>>
  IN  IF ~cfg.reversible THEN <<>>
      ELSE Append([i \in DOMAIN arrays |-> [array |-> arrays[i]]], [text |-> c])
-----------------------------------------------------------------------------
(* CompressionPipeline::run *)

Init ==
  /\ config \in PipelineConfigs
  /\ prompt \in Prompts
  /\ phase = "route"
  /\ pending = <<>>
  /\ result = <<>>
  /\ store = {}
  /\ out = <<>>
  /\ faults = 0

Current == Aligned(prompt[Len(out) + 1])

\* A message whose compressor is not registered passes through.
PassThrough ==
  /\ phase = "route" /\ Len(out) < Len(prompt)
  /\ Compressor(Current) \notin config.registered
  /\ out' = Append(out, [text |-> Original(Current), ccr |-> None])
  /\ UNCHANGED <<config, prompt, phase, pending, result, store, faults>>

\* The compressor does its work and turns to its saves.
Compress(k) ==
  /\ phase = "route" /\ Len(out) < Len(prompt)
  /\ Compressor(Current) \in config.registered
  /\ result' = Compressed(config, Current, k)
  /\ pending' = SavesOf(config, Current, k)
  /\ phase' = "save"
  /\ UNCHANGED <<config, prompt, store, out, faults>>

Save ==
  /\ phase = "save" /\ pending # <<>>
  /\ store' = store \cup {Head(pending)}
  /\ pending' = Tail(pending)
  /\ UNCHANGED <<config, prompt, phase, result, out, faults>>

\* Mutant: the message is emitted all the same.
SaveFails_Open ==
  /\ phase = "save" /\ pending # <<>>
  /\ faults < MaxFaults
  /\ faults' = faults + 1
  /\ pending' = Tail(pending)
  /\ UNCHANGED <<config, prompt, phase, result, store, out>>

\* A failing save is a failing compressor: the text stays as it is, saves that
\* came before are not undone.
SaveFails ==
  /\ phase = "save" /\ pending # <<>>
  /\ faults < MaxFaults
  /\ faults' = faults + 1
  /\ phase' = "route"
  /\ pending' = <<>> /\ result' = <<>>
  /\ out' = Append(out, [text |-> Original(Current), ccr |-> None])
  /\ UNCHANGED <<config, prompt, store>>

\* CCR_ID is set on a text that has changed.
Finish ==
  /\ phase = "save" /\ pending = <<>>
  /\ out' = Append(out, [text |-> result,
                         ccr |-> IF config.reversible /\ result # Original(Current)
                                 THEN [text |-> Current] ELSE None])
  /\ phase' = "route" /\ result' = <<>>
  /\ UNCHANGED <<config, prompt, pending, store, faults>>

Next ==
  \/ PassThrough
  \/ Len(out) < Len(prompt) /\ \E k \in Sizes(Current) : Compress(k)
  \/ Save \/ SaveFails \/ Finish

Spec == Init /\ [][Next]_vars
-----------------------------------------------------------------------------
(* Recovery *)

\* The arrays of a JSON value, at any depth; of those, the sampled ones.
Arrays(v) == {w.items : w \in {u \in Within(v) : u.t = "arr"}}

Marked(v) == {items \in Arrays(v) : items # <<>> /\ items[Len(items)].t = "dropped"}

By(i, compressor) == out[i].text.by = compressor
Json(i) == prompt[i].body[1]

\* A reversible pipeline emits no text that differs from what it was given
\* unless the store holds that text under the message's CCR id, whichever of
\* the message's saves failed (pipeline.rs: "If any compressor returns an
\* error the pipeline keeps the original message content unchanged").
Recoverable ==
  config.reversible =>
    \A i \in DOMAIN out :
      IF out[i].text.by = "none" THEN out[i].text.of = Aligned(prompt[i])
      ELSE out[i].ccr = [text |-> Aligned(prompt[i])] /\ out[i].ccr \in store

\* A marker that is emitted, at whatever depth, leads to a stored array: one
\* that stood in the input and that holds the records in front of the marker,
\* in the same order, which are no more than the configured maximum.
MarkersHonest ==
  \A i \in DOMAIN out : By(i, "smart_crusher") =>
    \A items \in Marked(out[i].text.left) :
      LET whole == items[Len(items)].items
          shown == Front(items)
      IN  /\ [array |-> whole] \in store
          /\ whole \in Arrays(Json(i))
          /\ Len(shown) <= MaxItems
          /\ \E kept \in SUBSET DOMAIN whole : Sub(whole, kept) = shown
-----------------------------------------------------------------------------
(* JSON *)

\* The error texts of a value; those that no array of records may drop.
ErrorTexts(v) == {w.str : w \in {u \in Within(v) : u.t = "str" /\ u.err}}

Exposed(v) == {w.str : w \in {u \in Spread(v, FALSE) : u.t = "str" /\ u.err}}

\* Strings that tell of an error survive every sampling on their way up (of
\* strings, of mixed arrays, of the fields of an object), whatever is sampled
\* around them, unless they belong to a record of an array.
ErrorTextsSurvive ==
  \A i \in DOMAIN out : By(i, "smart_crusher") =>
    Exposed(Json(i)) \subseteq ErrorTexts(out[i].text.left)

\* No type of value vanishes from a mixed array.
KindsSurvive ==
  \A i \in DOMAIN out : By(i, "smart_crusher") /\ Json(i).t = "arr" =>
    {v.t : v \in Range(Json(i).items)} \subseteq
      {v.t : v \in Range(out[i].text.left.items)}
-----------------------------------------------------------------------------
(* Logs, code and prose *)

Result(i)  == out[i].text.left
Lines(i) == out[i].text.of.body

\* A line that is kept only because it matches the focus hint never costs a
\* diagnostic its place (log_stripper.rs, FOCUS_LINE_SCORE: "can never evict a
\* diagnostic").
FocusSparesDiagnostics ==
  \A i \in DOMAIN out : By(i, "log_stripper") =>
    Diagnostics(Lines(i)) \subseteq Result(i).kept
      \/ \A n \in Result(i).kept : Scores(Lines(i))[n] >= 32

\* A log that still has room for a line that is no error shows its first and its
\* last error, and its first and its last failure, however many there are.
ErrorEndsKept ==
  \A i \in DOMAIN out : By(i, "log_stripper") =>
    LET log == Lines(i)
    IN  (\E n \in Result(i).kept : Scores(log)[n] < 100) =>
          \A level \in {"Error", "Fail"} : AtLevel(log, level) # {} =>
            {Min(AtLevel(log, level)), Max(AtLevel(log, level))} \subseteq Result(i).kept

\* "[see paragraph N]" points, in the text that is emitted, at a paragraph that
\* is there and says what the reference stands for.
ReferencesResolve ==
  \A i \in DOMAIN out : By(i, "semantic") =>
    LET paras == AsParas(out[i].text.of)
    IN  \A n \in DOMAIN Result(i) : Result(i)[n].see # 0 =>
          LET seen == Result(i)[Result(i)[n].see]
          IN  seen.see = 0 /\ paras[seen.para].norm = paras[Result(i)[n].para].norm

\* Unless an opener is hidden, every line that holds code outside of comments
\* has code in the result.
CodeSurvives ==
  \A i \in DOMAIN out : By(i, "ast_code") =>
    LET scan == Scan(AsLines(out[i].text.of))
    IN  ~scan.hidden =>
          \A n \in scan.code : \E left \in Range(Result(i)) :
            left.from = n /\ "code" \in Range(left.toks)
=============================================================================
