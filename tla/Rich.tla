-------------------------------- MODULE Rich --------------------------------
(***************************************************************************)
(* compact_rich: a prompt whose messages hold content blocks.  The cascade *)
(* runs on the flat projection; what it leaves alone gets its blocks back  *)
(* and is then compressed block by block, each rewritten message saved as  *)
(* a whole; last, the cache plan and the budget are taken again from what  *)
(* is really emitted.                                                      *)
(*                                                                         *)
(* The saves that fail in the cascade are the subject of Session.  Tool    *)
(* results come in tool messages.  The id "rich-HASH" of a saved message   *)
(* is its position in `archive'.                                           *)
(***************************************************************************)
EXTENDS Cascade, CachePlan, AnthropicRender

CONSTANTS
  Contents,     \* the block contents that hosts push
  BlocksOf,     \* [Contents -> Seq(blocks)], their texts in Raw
  FlatOf,       \* [Contents -> Raw]: the text they flatten to
  TrueTokens,   \* [Contents -> Nat]: their size, opaque payloads included
  SavedTokens,  \* [Contents -> Nat]: what the first block compression saves
  RichConfigs,  \* the configurations compact_rich may be called with
  RichBatches,  \* the messages a host may push between two compactions
  MaxPushes,    \* bound: batches pushed
  MaxRuns       \* bound: compactions

\* RichCompressionPolicy
RichPolicy == [text : BOOLEAN, results : BOOLEAN, thinking : BOOLEAN,
               reversible : BOOLEAN]

\* RichContent: text, or pushed blocks that so many passes have compressed.
RichBody == [kind : {"text"}, text : Text]
              \cup [kind : {"blocks"}, of : Contents, passes : Nat]

\* RichMessage.  Its CCR id is that of a text or of a saved message.
RichMessage == {m \in [role : Roles, body : RichBody,
                       ccr : Text \cup {None} \cup [rich : Nat],
                       pinned : BOOLEAN, cache : BOOLEAN] :
                  m.role = "tool" /\ m.body.kind = "text" => m.body.text \in Key}

\* Hosts push what has not been compressed yet; only a result can be an error.
ASSUME RichAssumption ==
  /\ FlatOf \in [Contents -> Raw]
  /\ TrueTokens \in [Contents -> Nat] /\ SavedTokens \in [Contents -> Nat]
  /\ RichConfigs \subseteq [cascade : Config, rich : RichPolicy, cache : Policies,
                            suffix : Nat, minimum : Nat]
  /\ RichBatches \subseteq
       Seq({m \in RichMessage : m.body.kind = "blocks" => m.body.passes = 0})
  /\ \A c \in Contents : \A i \in DOMAIN BlocksOf[c] :
       BlocksOf[c][i].err => BlocksOf[c][i].kind = "result"
  /\ MaxPushes \in Nat /\ MaxRuns \in Nat

VARIABLES
  config,    \* CompactRichConfig
  prompt,    \* the host's messages, the input of a compaction
  store,     \* texts the CCR store holds
  archive,   \* rich messages it holds, under ids 1, 2, ...
  pc,        \* where compact_rich is
  working,   \* the flat projection after the cascade
  dropped,   \* BudgetReport::dropped
  todo,      \* positions block compression has still to visit
  out,       \* the emitted messages
  plan,      \* the cache plan of the last compaction
  pushes,    \* batches pushed
  runs,      \* compactions begun
  found      \* history: the tags of all folds that were handed to the host

vars == <<config, prompt, store, archive, pc, working, dropped, todo, out, plan,
          pushes, runs, found>>

\* Content is text, or blocks that so many passes have compressed.
Plain(t)     == [kind |-> "text", text |-> t]
Blocks(c, n) == [kind |-> "blocks", of |-> c, passes |-> n]
-----------------------------------------------------------------------------
(* Blocks *)

\* The text of pushed text r after n passes.
PipedText(r, n) ==
  [RawText(r) EXCEPT !.layers =
     [i \in 1 .. Min({n, Passes[r]}) |-> "comp"]]

\* Mutant: the text in a failed tool result is compressed like any other.
CompressBlock_Errors(b, n, policy) ==
  LET may(x)   == \/ x.kind = "text" /\ policy.text
                  \/ x.kind = "thinking" /\ policy.thinking
      piped(x) == IF may(x) THEN [x EXCEPT !.text = PipedText(@, n)]
                  ELSE [x EXCEPT !.text = RawText(@)]
  IN  IF b.kind = "result"
      THEN [b EXCEPT !.text = RawText(@),
                     !.inner = [i \in DOMAIN b.inner |->
                       IF policy.results THEN piped(b.inner[i])
                       ELSE [b.inner[i] EXCEPT !.text = RawText(@)]]]
      ELSE piped(b)

\* compress_block, n times.  A result that is an error is left alone; the text
\* nested in another result is subject to both switches.
CompressBlock(b, n, policy) ==
  LET may(x)   == \/ x.kind = "text" /\ policy.text
                  \/ x.kind = "thinking" /\ policy.thinking
      piped(x) == IF may(x) THEN [x EXCEPT !.text = PipedText(@, n)]
                  ELSE [x EXCEPT !.text = RawText(@)]
  IN  IF b.kind = "result"
      THEN [b EXCEPT !.text = RawText(@),
                     !.inner = [i \in DOMAIN b.inner |->
                       IF ~b.err /\ policy.results THEN piped(b.inner[i])
                       ELSE [b.inner[i] EXCEPT !.text = RawText(@)]]]
      ELSE piped(b)

BlocksAt(c, n, policy) ==
  [i \in DOMAIN BlocksOf[c] |-> CompressBlock(BlocksOf[c][i], n, policy)]

\* compress_content
CompressContent(body, policy) ==
  IF body.kind = "text"
  THEN IF policy.text THEN Plain(Piped(body.text)) ELSE body
  ELSE IF BlocksAt(body.of, body.passes + 1, policy)
            # BlocksAt(body.of, body.passes, policy)
       THEN Blocks(body.of, body.passes + 1) ELSE body

HasErrorResult(body) ==
  /\ body.kind = "blocks"
  /\ \E i \in DOMAIN BlocksOf[body.of] : /\ BlocksOf[body.of][i].kind = "result"
                                         /\ BlocksOf[body.of][i].err

\* to_flat_lossy: one text for all the blocks; compressed blocks flatten to
\* another text than the pushed ones.
FlatText(body) ==
  IF body.kind = "text" THEN body.text
  ELSE [RawText(FlatOf[body.of]) EXCEPT !.layers =
          [i \in 1 .. body.passes |-> "comp"]]

\* rich_to_agent_flat_lossy
ToFlat(m) == [role |-> m.role, err |-> HasErrorResult(m.body),
              text |-> FlatText(m.body), ccr |-> m.ccr, pinned |-> m.pinned,
              fin |-> FALSE, idx |-> 0]

Flats(ms) == [i \in DOMAIN ms |-> ToFlat(ms[i])]

\* rich_message_tokens: opaque payloads at their real size.
RichTokens(m) ==
  IF m.body.kind = "text" THEN Tokens(m.body.text)
  ELSE TrueTokens[m.body.of] -
         (IF m.body.passes > 0 THEN SavedTokens[m.body.of] ELSE 0)

RichCount(ms) == MapThenSumSet(LAMBDA i : RichTokens(ms[i]), DOMAIN ms)
-----------------------------------------------------------------------------
(* The flat projection and back *)

TaggedFlats(ms) == [i \in DOMAIN ms |-> [ToFlat(ms[i]) EXCEPT !.idx = i]]

\* kept_by_cascade
KeptPositions(w) ==
  {j \in DOMAIN w : w[j].idx # 0 /\ w[j].text = FlatText(prompt[w[j].idx].body)}

\* Mutant: protected indices are compared with positions of the new list.
CompressPositions_ByPosition(w) ==
  KeptPositions(w) \ ProtectedTail(Flats(prompt), config.cascade)

\* Kept messages outside the protected tail.  Pinned ones are among them.
CompressPositions(w) ==
  {j \in KeptPositions(w) :
     w[j].idx \notin ProtectedTail(Flats(prompt), config.cascade)}

\* reconstruct: a kept message has its blocks back, the others are flat text.
Reconstructed(w) ==
  [j \in DOMAIN w |->
     IF j \in KeptPositions(w) THEN prompt[w[j].idx]
     ELSE [role |-> w[j].role, body |-> Plain(w[j].text), ccr |-> w[j].ccr,
           pinned |-> w[j].pinned, cache |-> FALSE]]
-----------------------------------------------------------------------------
(* compact_rich *)

Init ==
  /\ config \in RichConfigs
  /\ prompt = <<>>
  /\ store = {}
  /\ archive = <<>>
  /\ pc = "idle"
  /\ working = <<>>
  /\ dropped = <<>>
  /\ todo = {}
  /\ out = <<>>
  /\ plan = PlanOf(<<>>, "none", 0, 0, <<>>, 0)
  /\ pushes = 0
  /\ runs = 0
  /\ found = {}

Push(batch) ==
  /\ pc = "idle"
  /\ pushes < MaxPushes
  /\ prompt' = prompt \o batch
  /\ pushes' = pushes + 1
  /\ UNCHANGED <<config, store, archive, pc, working, dropped, todo, out, plan, runs,
                 found>>

\* The cascade starts from the flat projection.
Compact ==
  /\ pc = "idle" /\ prompt # <<>>
  /\ runs < MaxRuns
  /\ runs' = runs + 1
  /\ working' = TaggedFlats(prompt)
  /\ pc' = IF /\ config.cascade.limit # None
              /\ Fits(working', config.cascade) THEN "rebuild" ELSE "rules"
  /\ UNCHANGED <<config, prompt, store, archive, dropped, todo, out, plan, pushes,
                 found>>

CascadeStep(phase, next, list, saves) ==
  /\ pc = phase
  /\ working' = list
  /\ store' = store \cup saves
  /\ pc' = IF Fits(working', config.cascade) THEN "rebuild" ELSE next
  /\ UNCHANGED <<config, prompt, archive, dropped, todo, out, plan, pushes, runs,
                 found>>

Rules ==
  CascadeStep("rules", "middle", AgentRules(working, config.cascade, {}),
              AgentSaves(working, config.cascade, {}))

Compress(phase, next, middle, summarize) ==
  LET preserve == PreserveRecent(working, config.cascade)
      w == AfterOldBand(working, preserve, middle, summarize)
  IN  CascadeStep(phase, next, PipeBand(w, config.cascade, preserve, {}),
                  PipeSaves(w, config.cascade, preserve, {}))

Middle    == Compress("middle", "summarize", Len(working), FALSE)
Summarize == Compress("summarize", "drop", MiddleBand, TRUE)

Drop ==
  /\ pc = "drop"
  /\ CanDrop(working, config.cascade)
  /\ LET r == DropRange(working, config.cascade)
     IN  /\ working' = SubSeq(working, 1, r[1] - 1) \o
                       SubSeq(working, r[2] + 1, Len(working))
         /\ dropped' = dropped \o SubSeq(working, r[1], r[2])
  /\ UNCHANGED <<config, prompt, store, archive, pc, todo, out, plan, pushes, runs,
                 found>>

\* The flat text fits: kept messages get their blocks back.
Rebuild ==
  /\ \/ pc = "rebuild"
     \/ pc = "drop" /\ Fits(working, config.cascade)
  /\ pc' = "blocks"
  /\ todo' = CompressPositions(working)
  /\ out' = Reconstructed(working)
  /\ UNCHANGED <<config, prompt, store, archive, working, dropped, plan, pushes, runs,
                 found>>

\* The id under which a message is saved: the same message, the same id.
ArchiveId(m) ==
  IF \E n \in DOMAIN archive : archive[n] = m
  THEN CHOOSE n \in DOMAIN archive : archive[n] = m
  ELSE Len(archive) + 1

Archived(m) ==
  IF ArchiveId(m) \in DOMAIN archive THEN archive ELSE Append(archive, m)

Rewritten(m) == [m EXCEPT !.body = CompressContent(@, config.rich)]

\* Mutant: a failed save costs the id only.
CompressNext_Open ==
  /\ pc = "blocks" /\ todo # {}
  /\ LET j == Min(todo)
         m == out[j]
         saved == config.rich.reversible /\ config.cascade.hasStore
     IN  /\ todo' = todo \ {j}
         /\ \/ /\ Rewritten(m) # m /\ saved
               /\ archive' = Archived(m)
               /\ out' = [out EXCEPT ![j] = [Rewritten(m) EXCEPT
                                               !.ccr = [rich |-> ArchiveId(m)]]]
            \/ /\ Rewritten(m) = m \/ config.rich.reversible
               /\ out' = [out EXCEPT ![j] = Rewritten(m)]
               /\ UNCHANGED archive
            \/ /\ Rewritten(m) # m /\ ~config.rich.reversible
               /\ out' = [out EXCEPT ![j] = Rewritten(m)]
               /\ UNCHANGED archive
  /\ UNCHANGED <<config, prompt, store, pc, working, dropped, plan, pushes, runs,
                 found>>

\* compress_rich_messages, one message: saved and rewritten; or left alone when
\* nothing changes, the save fails or there is no store to save to; or
\* rewritten for good when the policy is not reversible.
CompressNext ==
  /\ pc = "blocks" /\ todo # {}
  /\ LET j == Min(todo)
         m == out[j]
         saved == config.rich.reversible /\ config.cascade.hasStore
     IN  /\ todo' = todo \ {j}
         /\ \/ /\ Rewritten(m) # m /\ saved
               /\ archive' = Archived(m)
               /\ out' = [out EXCEPT ![j] = [Rewritten(m) EXCEPT
                                               !.ccr = [rich |-> ArchiveId(m)]]]
            \/ /\ Rewritten(m) = m \/ config.rich.reversible
               /\ UNCHANGED <<out, archive>>
            \/ /\ Rewritten(m) # m /\ ~config.rich.reversible
               /\ out' = [out EXCEPT ![j] = Rewritten(m)]
               /\ UNCHANGED archive
  /\ UNCHANGED <<config, prompt, store, pc, working, dropped, plan, pushes, runs,
                 found>>

\* canonical_prefix: roles and blocks, without the metadata and without the
\* wording in which a rendering would hide a payload.
CanonicalBlock(b) ==
  [kind |-> b.kind, id |-> b.id, err |-> b.err, text |-> b.text, inner |-> b.inner]

\* Mutant: the key of the flat projection, as the flat pass computes it.
CanonicalPrefix_Flat(ms) ==
  [i \in DOMAIN ms |-> [role |-> ms[i].role, of |-> "blocks",
     blocks |-> <<RawText(IF ms[i].body.kind = "text" THEN ms[i].body.text.src
                          ELSE FlatOf[ms[i].body.of])>>]]

CanonicalPrefix(ms) ==
  [i \in DOMAIN ms |->
     IF ms[i].body.kind = "text"
     THEN [role |-> ms[i].role, of |-> "text", blocks |-> <<ms[i].body.text>>]
     ELSE LET bs == BlocksAt(ms[i].body.of, ms[i].body.passes, config.rich)
          IN  [role |-> ms[i].role, of |-> "blocks",
               blocks |-> [k \in DOMAIN bs |-> CanonicalBlock(bs[k])]]]

\* Annotations, and the plan recounted on what is emitted.
Emitted == ApplyCacheStrategy(out, config.cache, config.suffix)

EmittedPlan ==
  LET prefix == SubSeq(out, 1, StablePrefixLen(out, config.suffix))
  IN  PlanOf(Emitted, config.cache, config.suffix, RichCount(prefix),
             CanonicalPrefix(prefix), config.minimum)

\* Mutant: the flat projection is what is held against the budget.
WithinBudget_Flat(ms) ==
  config.cascade.limit # None => CountTokens(Flats(ms)) <= config.cascade.limit

\* The guard counts what is emitted at its true size.
WithinBudget(ms) ==
  config.cascade.limit # None => RichCount(ms) <= config.cascade.limit

-----------------------------------------------------------------------------
(* Folds *)

\* The cascade's folds, and one for every message whose blocks are rewritten.
RichFolds ==
  BuildFolds(Flats(prompt), working, dropped) \cup
  {FoldRecord("Compressed", Flats(prompt), working[j].idx, working[j].idx, j,
              out[j].ccr) :
     j \in {k \in KeptPositions(working) : out[k].body # prompt[working[k].idx].body}}

\* collect_block_tags: the calls' tools, each told by its input here, and the
\* failed results.  A result holds no calls.
BlockTags(body) ==
  IF body.kind = "text" THEN {}
  ELSE LET blocks == Range(BlocksOf[body.of])
       IN  {b.text : b \in {x \in blocks : x.kind = "use"}} \cup
           {"tool_error" : b \in {x \in blocks : x.kind = "result" /\ x.err}}

\* extract_fold_tags_rich
RichTags(m) == FoldTags({ToFlat(m)}) \cup BlockTags(m.body)

\* Mutant: the tags are those of the flat projection.
TagsOf_Flat(f) == FoldTags({ToFlat(prompt[i]) : i \in f.first .. f.last})

\* The fold's tags, those of the rich messages in its range merged in.
TagsOf(f) == UNION {RichTags(prompt[i]) : i \in f.first .. f.last}
-----------------------------------------------------------------------------
Reset ==
  /\ working' = <<>> /\ dropped' = <<>> /\ out' = <<>>

\* The result replaces the host's messages.
Finish ==
  /\ pc = "blocks" /\ todo = {}
  /\ WithinBudget(out)
  /\ prompt' = Emitted
  /\ plan' = EmittedPlan
  /\ found' = found \cup UNION {TagsOf(f) : f \in RichFolds}
  /\ pc' = "idle"
  /\ Reset
  /\ UNCHANGED <<config, store, archive, todo, pushes, runs>>

\* Err(BudgetExceeded), from the cascade or from the guard: the host still has
\* its messages.
Exceeded ==
  /\ \/ /\ pc = "blocks" /\ todo = {}
        /\ ~WithinBudget(out)
     \/ /\ pc = "drop"
        /\ ~Fits(working, config.cascade)
        /\ ~CanDrop(working, config.cascade)
  /\ pc' = "idle"
  /\ Reset
  /\ UNCHANGED <<config, prompt, store, archive, todo, plan, pushes, runs, found>>

\* The host is through: nothing is under way.
Rest ==
  /\ pc = "idle" /\ runs = MaxRuns
  /\ UNCHANGED vars

Next ==
  \/ \E batch \in RichBatches : Push(batch)
  \/ Rest \/ Compact \/ Rules \/ Middle \/ Summarize \/ Drop \/ Rebuild
  \/ CompressNext \/ Finish \/ Exceeded

Spec == Init /\ [][Next]_vars
-----------------------------------------------------------------------------
(* Properties.  Done: block compression is over, nothing is emitted yet. *)

Done == pc = "blocks" /\ todo = {}

RichId == [rich : 1 .. Len(archive)]

\* Where a store backs the compaction, whatever it rewrote can be had again: a
\* message rewritten block by block comes back exactly as it was, metadata
\* included (restore_rich_message), one that the cascade made flat text has a
\* stored text.  A failed save leaves the message as it was.
RewritesRestore ==
  Done /\ config.cascade.hasStore /\ config.rich.reversible =>
    \A j \in DOMAIN out :
      LET i == working[j].idx
      IN  i # 0 /\ out[j].body # prompt[i].body =>
            IF j \in KeptPositions(working)
            THEN out[j].ccr \in RichId /\ archive[out[j].ccr.rich] = prompt[i]
            ELSE out[j].ccr \in store

\* Over several compactions, blocks that were compressed more than once still
\* lead back, one restore after the other, to the blocks the host pushed.
BlocksLeadBack ==
  config.rich.reversible =>
    \A m \in {prompt[i] : i \in DOMAIN prompt} \cup {archive[n] : n \in DOMAIN archive} :
      m.body.kind = "blocks" /\ m.body.passes > 0 =>
        /\ m.ccr \in RichId
        /\ archive[m.ccr.rich].body = Blocks(m.body.of, m.body.passes - 1)

\* The tail the host protects keeps its blocks: positions of the new list and of
\* the old one are not the same once the cascade has folded something.
TailBlocksVerbatim ==
  pc = "blocks" =>
    \A i \in ProtectedTail(Flats(prompt), config.cascade) :
      \E j \in DOMAIN out : working[j].idx = i /\ out[j] = prompt[i]

\* Without a budget to press for it, a failed tool result is neither cleared nor
\* compressed, be it nested in blocks (rich.rs: "error tool results are always
\* preserved").
ErrorsSpared ==
  Done /\ config.cascade.limit = None =>
    \A i \in DOMAIN prompt : HasErrorResult(prompt[i].body) =>
      \E j \in DOMAIN out :
        /\ working[j].idx = i
        /\ out[j].body = prompt[i].body \/ out[j].body.kind = "blocks"
        /\ \A k \in DOMAIN BlocksOf[prompt[i].body.of] :
             BlocksOf[prompt[i].body.of][k].err =>
               BlocksAt(prompt[i].body.of, out[j].body.passes, config.rich)[k] =
               BlocksAt(prompt[i].body.of, 0, config.rich)[k]

\* Every message that the result changed or lost is accounted for by exactly one
\* fold, the cascade's or block compression's, every other one by none.  A fold
\* that names a replacement names the message that stands there for it; of one
\* that kept its blocks only the metadata counts, not a marker in its text.
RichFoldsPartition ==
  Done =>
    /\ \A i \in DOMAIN prompt :
         Cardinality({f \in RichFolds : f.first <= i /\ i <= f.last}) =
           IF \E j \in DOMAIN out : working[j].idx = i /\ out[j].body = prompt[i].body
           THEN 0 ELSE 1
    /\ \A f \in RichFolds : f.at # 0 /\ f.kind # "Summarized" =>
         /\ working[f.at].idx = f.first
         /\ f.ccr = IF f.at \in KeptPositions(working) THEN out[f.at].ccr
                    ELSE CcrIdOf([ccr |-> out[f.at].ccr, text |-> working[f.at].text])

\* What a compaction hands back fits the budget at its true size, images and tool
\* inputs included, which the cascade cannot see in the flat text.
EmittedFits ==
  [][config.cascade.limit # None /\ pushes' = pushes /\ prompt' # prompt =>
       RichCount(prompt') <= config.cascade.limit]_vars

\* What a provider is shown of a message.
Shown(m) ==
  [role |-> m.role,
   blocks |-> IF m.body.kind = "text" THEN <<Rendered("text", "-", <<Part("text", m.body.text)>>)>>
              ELSE LET bs == BlocksAt(m.body.of, m.body.passes, config.rich)
                   IN  [k \in DOMAIN bs |-> RenderBlock(bs[k])]]

ShownPrefix(ms, n) == [i \in 1 .. n |-> Shown(ms[i])]

\* Two compactions in a row that report the same content key emit prefixes that
\* are the same to the provider, opaque payloads included: a cache found under
\* the key is never stale (rich.rs: the key "could collide or go stale").
KeyTracksPrefix ==
  [][plan'.key = plan.key /\ plan.key # <<>> =>
       ShownPrefix(prompt', plan'.prefix) = ShownPrefix(prompt, plan.prefix)]_vars

NativeTags == found \cup UNION {BlockTags(prompt[i].body) : i \in DOMAIN prompt}

\* A tool that was called, and the fact that one failed, never get lost: either
\* the prompt still shows the blocks, or the host holds a fold that is found by
\* them, though the flat text that the folds are built from shows neither
\* (rich.rs: "a cascade-folded tool call stays findable by tool/error").
NativeTagsKept == [][NativeTags \subseteq NativeTags']_vars
-----------------------------------------------------------------------------
\* ogham-core/src/lib.rs, meta_keys::PINNED: a pinned "message must never be
\* compressed, cleared, or summarized".
PinnedBlocksVerbatim ==
  Done =>
    \A i \in DOMAIN prompt : prompt[i].pinned =>
      \E j \in DOMAIN out : working[j].idx = i /\ out[j].body = prompt[i].body
=============================================================================
