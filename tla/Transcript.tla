----------------------------- MODULE Transcript -----------------------------
(***************************************************************************)
(* Messages as Ogham sees them: a role, a text, and the metadata keys that *)
(* the compaction code reads or writes.                                    *)
(*                                                                         *)
(* A text is never spelled out.  It is where it comes from (a text the     *)
(* host pushed, or a summary) and the rewrites it has been through, which  *)
(* is enough to tell two texts apart.  A CCR id is a collision-resistant   *)
(* hash of the text saved under it (ccr::compute_key), so in the model the *)
(* id of a text IS the text, and retrieving an id yields the id itself.    *)
(***************************************************************************)
EXTENDS Naturals, Sequences, FiniteSets, FiniteSetsExt

CONSTANTS
  Raw,            \* the texts that hosts push
  Passes,         \* [Raw -> Nat]: how many pipeline passes change the text
  RawTokens,      \* [Raw -> Nat]: token count of the text, overhead included
  CompTokens,     \* [Raw -> Nat]: token count once a pass has changed it
  Quote,          \* [Raw -> Key or None]: the id of a CCR marker it quotes
  StubTokens,     \* token count of a "[tool:NAME] result cleared ..." stub
  SummaryTokens,  \* token count of an "[Earlier conversation context]" message
  SummaryCap,     \* turns whose sentences fit under the summary's byte cap
  None            \* absent metadata, budget or replacement

Roles  == {"system", "user", "assistant", "tool"}

\* "comp": the pipeline changed the text.  "stub": the text was cleared.
Layers == {"comp", "stub"}

\* A text that goes back to one the host pushed.
Key == [src : Raw, quotes : {{}}, first : {None}, layers : Seq(Layers)]

\* An extractive summary.  It quotes the markers that stood in the turns it
\* replaced, `first' before the others; "capped" means that its text met the
\* byte cap.
SummaryText == {t \in [src : {"summary", "capped"}, quotes : SUBSET Key,
                       first : Key \cup {None}, layers : Seq({"comp"})] :
                  t.first \in t.quotes \cup {None}}

Text == Key \cup SummaryText

ASSUME TextAssumption ==
  /\ {"summary", "capped"} \cap Raw = {}
  /\ Passes     \in [Raw -> Nat]
  /\ RawTokens  \in [Raw -> Nat]
  /\ CompTokens \in [Raw -> Nat]
  /\ Quote      \in [Raw -> Key \cup {None}]
  /\ StubTokens \in Nat
  /\ SummaryTokens \in Nat
  /\ SummaryCap \in Nat
  /\ None \notin Text
-----------------------------------------------------------------------------
RawText(r) == [src |-> r, quotes |-> {}, first |-> None, layers |-> <<>>]

IsStub(t) == t.layers # <<>> /\ t.layers[Len(t.layers)] = "stub"

Stub(t) == [t EXCEPT !.layers = Append(@, "stub")]

Unlayered(t) == [t EXCEPT !.layers = SubSeq(@, 1, Len(@) - 1)]

\* The ids of the <<ccr:ID>> markers that stand in a text.
Markers(t) ==
  IF IsStub(t)          THEN {Unlayered(t)}
  ELSE IF t.src \in Raw THEN {Quote[t.src]} \ {None}
  ELSE t.quotes

\* compact::extract_ccr_marker: the first of them.
FirstMarker(t) ==
  IF IsStub(t)          THEN Unlayered(t)
  ELSE IF t.src \in Raw THEN Quote[t.src]
  ELSE t.first

\* How many passes of the pipeline still change this text.  A stub is one
\* short line of plain text: no compressor changes it.  A summary that met its
\* byte cap is one paragraph over the semantic compressor's limit.
PassesLeft(t) ==
  LET done == Cardinality({i \in DOMAIN t.layers : t.layers[i] = "comp"})
      all  == IF t.src \in Raw THEN Passes[t.src]
              ELSE IF t.src = "capped" THEN 1 ELSE 0
  IN  IF "stub" \in {t.layers[i] : i \in DOMAIN t.layers} \/ done >= all
      THEN 0 ELSE all - done

Piped(t) == IF PassesLeft(t) = 0 THEN t
            ELSE [t EXCEPT !.layers = Append(@, "comp")]

Tokens(t) ==
  IF IsStub(t)             THEN StubTokens
  ELSE IF t.src \notin Raw THEN SummaryTokens
  ELSE IF t.layers = <<>>  THEN RawTokens[t.src]
  ELSE CompTokens[t.src]
-----------------------------------------------------------------------------
(***************************************************************************)
(* ogham_core::Message.  `err' stands for what makes agent::classify call  *)
(* a tool result an error; `ccr', `pinned' and `fin' for the CCR_ID,       *)
(* PINNED and SESSION_FINALIZED metadata; `idx' for the internal           *)
(* ORIGINAL_INDEX_KEY tag, 0 when absent.                                  *)
(***************************************************************************)
Message == {m \in [role : Roles, err : BOOLEAN, text : Text,
                   ccr : Text \cup {None}, pinned : BOOLEAN,
                   fin : BOOLEAN, idx : Nat] :
              m.role = "tool" => m.text \in Key}

Pushed(role, r) == [role |-> role, err |-> FALSE, text |-> RawText(r),
                    ccr |-> None, pinned |-> FALSE, fin |-> FALSE, idx |-> 0]

\* A fold tag: the error flag, or what a pushed text is found by, be it the name
\* of its tool, an error pattern or a path in it.
Tag == Raw \cup {"tool_error"}

\* collect_error_classes: what `err' stands for, as one class.
ErrorTags(ms) == {"tool_error" : m \in {x \in ms : x.err}}

\* extract_fold_tags of a set of messages.  The tool's name is metadata and
\* outlives the text; what a rewritten text still mentions is left out.
FoldTags(ms) ==
  {m.text.src : m \in {x \in ms : /\ x.text \in Key
                                  /\ x.role = "tool" \/ x.text.layers = <<>>}}
    \cup ErrorTags(ms)

Classify(m) ==
  CASE m.role = "system"           -> "SystemInstruction"
    [] m.role = "tool" /\ m.err    -> "ToolResultError"
    [] m.role = "tool" /\ ~m.err   -> "ToolResultSuccess"
    [] m.role = "user"             -> "UserQuery"
    [] m.role = "assistant"        -> "AssistantReply"

\* ccr::referenced_ccr_ids, of one message and of a list.
Refs(m) == ({m.ccr} \ {None}) \cup Markers(m.text)

ReferencedIds(ms) == UNION {Refs(ms[i]) : i \in DOMAIN ms}

\* TokenCounter::count_messages of the messages from position i on.
TokensFrom(ms, i) == MapThenSumSet(LAMBDA j : Tokens(ms[j].text), i .. Len(ms))

CountTokens(ms) == TokensFrom(ms, 1)
=============================================================================
