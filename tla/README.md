# Ogham in TLA+

Ogham shrinks the prompt of an LLM agent. It clears old tool results, compresses
and summarizes old turns, drops what still does not fit, and keeps the originals
in a *CCR store* so that a marker left in the prompt (`<<ccr:ID>>`) or the recall
tool can bring them back. This directory models what carries that promise:
`ContextSession` and the budget cascade under it, the recall index, the CCR stores,
the compression pipeline with its compressors, the API for messages of content
blocks, and the cache plan and rendering of what is sent to a provider. TLC checks
the models on small instances. TLAPS proves the theorems for every value of the
constants.

Paths below are relative to `crates/ogham/src/` unless they say otherwise.

## 1. The system

| part | state it keeps | operations | how it interacts |
|---|---|---|---|
| context session (`session.rs`) | `messages`, `folds` (ledger), recall index | `extend`, `compact`, `recall`, `view` | runs the cascade on a copy, then folds, retention and the assignment |
| budget cascade (`budget.rs`) | none; a report with what it dropped | `enforce_budget`: four steps, each followed by a token count | calls agent rules, conversation bands, the counter |
| agent rules (`agent.rs`) | none | `classify`, protection masks, `apply_agent_compression` | saves each cleared result in the store, one await per save |
| conversation bands (`conversation.rs`) | none | `compress_conversation_history` | runs the pipeline on the middle band, one await |
| fold records (`compact.rs`) | none | tag positions, `build_fold_records`, cache policy | compares the list before and after the cascade |
| CCR references (`ccr/mod.rs`) | none | ids, markers, `referenced_ccr_ids` | retention asks them what the prompt still refers to |
| CCR stores (`ccr/in_memory.rs`, `sqlite.rs`, `fjall.rs`) | entries with an expiry | save, retrieve, delete, purge | shared by sessions, pipeline, compressors, server |
| recall index (`recall.rs`, `fold_tags.rs`) | id -> text, kind and tags | index, remove, search, find by tag | filled after the folds, pruned after retention |
| pipeline (`pipeline.rs`, `detect.rs`) | registered compressors | `run`, `compress_one` | detects the content, picks a compressor, fails closed |
| compressors (`compressors/*`) | none | `compress` | each saves the original before it answers |
| rich messages (`rich.rs`) | none; the host keeps the prompt | `compact_rich`, `restore_rich_message` | the cascade on the flat text, then block compression, folds, cache plan |
| provider rendering (`providers/*`) | none | messages to a request, cache breakpoints | uses the annotations of a compaction |
| cache strategy and aligner | none | where the stable prefix ends; canonical wording | used by `compact.rs`, `rich.rs` and the pipeline |
| token counting (`token_counter.rs`, core `token.rs`) | none | `count`, `count_messages` | the cascade's only measure |
| memory, tools, statistics | none or counters | summaries of a host, the retrieval tool, metrics | no decision of the session reads them |
| HTTP server (`crates/ogham-server`) | a pipeline and a store | compress, retrieve | a thin layer |

What is hard here:

* **Awaits.** `compact` awaits every save, the pipeline and every delete. A save
  may fail; the host may drop the future at any await; several sessions may share
  one store. The messages are assigned at the very end, the store and the recall
  index are changed on the way.
* **Measures taken again.** The protected tail, the recent replies, the latest
  query and the token counts are recomputed by each step from a list that the
  steps before it have rewritten.
* **Long lives.** What one compaction produces (stubs, summaries, pinned
  replacements, fold ids) is the input of the next. Retention evicts old stubs and
  deletes originals that younger messages may still refer to.
* **Boundaries.** Bands and groups are ranges over a list in which tool results
  must stay with their call and pinned messages must stay put.
* **Two views of one prompt.** `compact_rich` decides on a flat text that does not
  show what is there, and has to lead positions, budgets, keys and tags back to the
  blocks. A request to a provider is yet another list: turns that are merged, in
  which calls and results must pair up and breakpoints must stay where they were.
* **What a selection drops.** The compressors keep a sample under several budgets
  at once. What one rule keeps another may cut.

What makes each part correct is stated as properties in section 4; the hazards
are listed with their lines in `PROJECT.json`.

## 2. The modules

| module | what it models |
|---|---|
| `Positions` | what stands at some positions of a sequence, in order |
| `Transcript` | messages, texts, CCR ids and markers, classes, token counts |
| `Cascade` (extends it) | the four steps, group and band arithmetic, fold records: operators on a list and a configuration |
| `Session` (extends it) | `ContextSession::compact` as a state machine: one action per stretch between awaits that touch the store, for any number of sessions on one store |
| `CcrPayload` | what is saved in a store, and the payload envelope |
| `CcrStore` | the promise of a store, the abstract specification |
| `StoreState` | rows, clock, disk and histories common to the stores |
| `InMemoryStore`, `SqliteStore`, `FjallStore` (extend it) | the three backends, one action per call or per part of a call that another thread can see |
| `Stores` | the backend a host has opened, and its refinement of `CcrStore` |
| `CachePlan` | breakpoints, stable prefix and cache plan of a prompt |
| `AnthropicRender` | both Anthropic renderers, as operators on a prompt |
| `RenderedPrompt` (extends both) | a host that grows a prompt, annotates and renders it turn by turn |
| `Rich` (extends `Cascade` and both) | `compact_rich` as a state machine, called again on its own output |
| `Detect` | which content type a content is taken for |
| `SmartCrusher`, `LogStripper`, `AstCode`, `Semantic` | what each compressor leaves of its input, as operators |
| `Compression` (extends the five) | the pipeline, one action per message and per save |
| `MCCompact`, `MCSession`, `MCClaims`, `MCStores`, `MCRender`, `MCRich`, `MCCompression` | the instances TLC checks |
| `Basics_proofs` | facts on sets of naturals, finite sets, sequences and recursive functions, used by all but `Stores_proofs` |
| `Cascade_proofs` | lemmas about the cascade's operators, and about the lists of a cascade, a session's or `compact_rich`'s: origins, token sums, the end of a list, which fold covers what |
| `Session_proofs` (extends it) | types; that what a prompt refers to is stored; where a session's messages come from: pinned messages, drops, pairs |
| `Ledger_proofs` (extends it) | fold records and their numbering, what a commit leaves of pinned and finalized messages, the recall index; token counts, the budget, the protected tail, the recent replies |
| `Stores_proofs` | the three stores and their refinement of `CcrStore` |
| `Rich_proofs` (extends `Rich` and `Cascade_proofs`) | what rich messages lead back to, failed results, the budget guard, content keys, folds and their tags, the protected tail |
| `Render_proofs` | the runs of one side that a prompt falls into, and what calls and results become of them: requests are valid, answered calls stay native, a cached prefix is asked for again |
| `Compression_proofs` | that what the pipeline emits can be had again, and what the compressors may not leave out |

### State

| variable | code |
|---|---|
| `store` | what the `CcrStore` can return |
| `messages`, `folds`, `recall` | the fields of `ContextSession`; a document of `recall` is an id, a kind, the texts indexed and the tags |
| `config` | `SessionConfig` with its policy, fixed by `Init` |
| `pc`, `working`, `dropped`, `delta`, `gc`, `evicted` | locals of a `compact` under way: where it is, the copy it works on, `BudgetReport::dropped`, `new_folds`, the ids retention has still to delete and has deleted |
| `turns`, `settled` | history: batches pushed (bounded), and whether the session was compacted with nothing pushed and no save failed since |

### Actions

| action | code |
|---|---|
| `Extend` | `extend`: a batch from the host |
| `StartCompact` | finalized messages are pinned, positions tagged, the early return of a prompt that fits |
| `Rules` | step 1, with the saves that fail |
| `Middle`, `Summarize` | steps 2 and 3 with all saves of the pipeline |
| `Drop` | one round of step 4's loop |
| `EndDrop`, `GiveUp` | the recount after the loop: success, or `BudgetExceeded` |
| `BuildAndRetain` | everything between the cascade's result and the first delete: folds, numbering, recall, finalizing, what retention evicts and may delete |
| `Delete` | one delete of retention, which may fail |
| `Commit` | what was `evicted` leaves the recall index, `messages` and `folds` are assigned |
| `Cancel` | the host drops the future in one of the phases of `MayCancel`; any part of the stage's saves is done |

### The stores

`rows` is what a store holds, `disk` what a power loss would leave of it, `now` a
clock, `saving` the fjall saves that are inserted and not yet persisted, `answer`
the last read. `saved`, `acked` and `boot` are history. A row has the data as it is
stored (a text, an envelope, or a native payload), and as history in `was` the
original, so that decoding is compared with what was saved, and in `since` the tick of
the save, so that its age is that of the row which is there: a power loss brings an
older row back with its own age.

* **In memory**: a call holds the mutex, so it is one step. At capacity one of the
  oldest entries goes, any of them when several fall on the same instant; expired
  entries count until they are read.
* **SQLite**: a call is one statement or two under the connection's mutex. The
  clock is read in whole seconds (`TicksPerSecond`), the time to live is cast from
  u64 to i64 (`AsSigned`, scaled by `WordLimit`). A failing save changes nothing
  and is no step; a failing purge or delete is ignored by the code. A power loss
  takes back what no checkpoint has written; a process that ends changes nothing.
* **fjall**: a save is `FjInsert` and `FjPersist` (or `FjPersistFails`) with other
  threads in between. A delete is not persisted. A crash keeps a prefix of what was
  written: the disk catches up at any time, and at the latest with a persist.

`CcrStore` says what all this amounts to. Its `contents` is mapped to the originals
of the rows that have not expired. Its `promise` says that a store with a capacity
or a time to live may forget, and that fjall is durable. `Session.store` is this
`contents` for a store that does not forget.

Left out: schema migration, a corrupted row, two processes on one database, a wall
clock that is set back, and a database opened again with another time to live.

### The recall index

`Indexed` is the loop over `RecallIndex::index` at the end of a compaction: the last
fold with an id decides about kind and texts, the tags of all folds with that id are
merged (`TagsUnder`). `Search` yields the documents that share a term with a query
and `FindByTag` those with a tag; how they are ranked is left out. A tag stands for
what a pushed text is found by: its tool (which is metadata and outlives the text),
an error pattern or a path.

A hit on a *summarized* fold carries the id of the first marker that its summary
quotes, so it retrieves one of several messages, and a hit on a *dropped* message
without metadata carries the id that its text quotes. `HitRestores` is about the
other two kinds; `recall.rs:29` makes no difference between them.

### Rich messages

`prompt` is the host's list, `archive` the rich messages that the store holds under
`rich-HASH` ids, `working` the flat projection in the cascade, `out` what is emitted.
A content is pushed text, or blocks `of` a pushed content that so many `passes` have
compressed.

| action of `Rich` | code |
|---|---|
| `Push` | the host appends messages |
| `Compact`, `Rules`, `Middle`, `Summarize`, `Drop` | `rich_to_agent_flat_lossy`, then the cascade of `Cascade` on the flat texts |
| `Rebuild` | `kept_by_cascade` and `reconstruct_and_compress` up to the first save |
| `CompressNext` | `compress_rich_messages`, one message: saved and rewritten, or left alone when nothing changes, the save fails or there is nowhere to save |
| `Finish` | folds with their tags, annotations, the recounted cache plan, the budget guard; the result replaces the prompt |
| `Exceeded` | `BudgetExceeded`, by the cascade or by the guard |

The variable `found` is history: the tags of the folds handed out so far.

### Rendering

`Render` in `RenderedPrompt` is `apply_cache_strategy` with the renderers on blocks
and on flat text. A block's payload is a name, the wording around it is left out.
`Segments`, the pairing of calls and results, linearization and coalescing follow the
passes of `render_cache_control_rich`. `Push` and `Replace` are the host: it appends,
or it changes the last message, which is what `stable_suffix_messages` allows for.

### The pipeline and its compressors

A content is a JSON value, lines of a log, lines of code or paragraphs, with `marks`,
the counts that `detect.rs` goes by. `Align` is what `cache_aligner.rs` makes of it
*before* detection: JSON is written anew, and any other text is brought on one line,
whitespace being collapsed. `Compress(k)` picks the compressor and computes its
result with `k` items to keep, `Save` and `SaveFails` are its saves in their order
(sampled arrays, then the text), `Finish` emits. `k` is `compute_optimal_k`, taken as
any size in the range it may answer (`OptimalK`, `LogK`); one compression uses one
`k` for all its arrays. What a pattern would find in a text (a level, a trace
flavour, an error word, a term of the hint) is an attribute of the line or value.

### What is abstracted, and how

* **Texts** are their origin (a text the host pushed, a summary) plus the rewrites
  they have been through. How many passes of the pipeline still change a text,
  what it counts and which marker it quotes are constants (`Passes`, `RawTokens`,
  `CompTokens`, `Quote`). This stands for detection and for the compressors in the
  modules above `Cascade`; `Compression` is about them.
* **CCR ids** are the text itself: `compute_key` is a 128-bit BLAKE3 prefix, taken to be free of
  collisions. Retrieving an id yields that text.
* **Tokens.** The code has a heuristic counter for the protected tail and the
  host's counter for the budget; the model has one. The limit is the effective
  limit, after the safety margin.
* **Saves** of a stage and the change of the list are one action. No other part of
  the same session runs in between, other sessions only add to the store there or
  delete (`Delete` interleaves with every phase of the others), and a `Cancel`
  covers a stage of which only some saves were done.
* **Errors**: `err` is a tool result that `classify` calls an error, by status or
  by its text.
* **Markers** are taken to stand in the first sentence of a turn, so a summary
  quotes those of the turns that fit under its byte cap (`SummaryCap` turns).
* **Hosts** quote a marker only if their prompt holds it (a guard of `Extend`).
* **The ledger** is a set. The code's order is that of compactions, and in one of
  them that of the ranges; `Numbered` uses the ranges where the order matters.
* **No store** is `hasStore = FALSE`.
* **Rich contents**: tool results come in tool messages, a result holds no calls,
  and a call's tool is told by its input. `MCRich` gives two pictures one flat text.
* Left out: the per-tool keep flags of the tool registry, metadata other than
  `CCR_ID`, `PINNED`, `SESSION_FINALIZED`, `CACHE_CONTROL` and the position tag,
  observers, metrics and logs; the caps on tags.

## 3. The runs

| run | instance | properties |
|---|---|---|
| `compact_once` | every well-formed transcript of five messages over six kinds (query, reply, pinned reply, large result, error, system), four configurations | `TypeOK`, `TailVerbatim`, `PinnedVerbatim`, `RecentRepliesRaw`, `DropSparesProtected`, `PairsWhole`, `BudgetRespected`, `FoldsResolve`, `FoldsPartition` |
| `session_turns` | three turns from three batches (call and result, a pinned result, a reply that quotes a marker), four configurations with and without a retention cap, one failing save per stage, failing deletes, futures dropped in the cascade; under `FairSpec` | `LiveRefsStored`, `RecallResolves`, `HitRestores`, `TagsStayFindable`, `LedgerAppendOnly`, `FrozenPrefix`, `RecompactQuiet`, `CompactionEnds` |
| `store_promise` | each backend with two or three ids that are saved through both interfaces, three ticks, two threads | `TypeOK`, `KeepsPromise`, `NoSilentLoss` |
| `render_turns` | prompts of up to five messages over ten kinds: calls answered in full, in part, late, twice, by nobody; one or two volatile messages | `RequestValid`, `AnsweredCallsNative`, `CachedPrefixReused` |
| `rich_turns` | three batches of calls, results, failed results and pictures, four compactions, four configurations with and without a budget, a tail and a store; saves of blocks that fail | `RewritesRestore`, `BlocksLeadBack`, `TailBlocksVerbatim`, `ErrorsSpared`, `RichFoldsPartition`, `EmittedFits`, `KeyTracksPrefix`, `NativeTagsKept` |
| `compressors` | one message of every small array, object, log, source and prose, and a prompt of three messages, through a pipeline that is reversible with a hint, aligned without the semantic compressor, or not reversible; one failing save | `Recoverable`, `MarkersHonest`, `ErrorTextsSurvive`, `KindsSurvive`, `FocusSparesDiagnostics`, `ErrorEndsKept`, `ReferencesResolve`, `CodeSurvives` |
| `claim_*` | one transcript each, with the code's own floors | what a document says, refuted (section 6) |

**Bounds.** `MaxLen` is the length of a transcript, `MaxTurns` the batches pushed,
`MaxFaults` the saves that fail in one stage. `compact_once` scales the cascade's
floors from 4, 4, 4 to 2, 1, 2: five messages then fall into an old band, a middle
band and a recent one, groups of up to three results reach the floor of the drop
loop from both sides, and all four steps and `BudgetExceeded` happen. Three turns
are what it takes to clear a result, to finalize and pin its stub in the next
turn, and to evict it, with its original, in the third, while a reply quotes its
marker. In `store_promise` the second tick is what it takes to see an entry
expire that is saved on the second half of a second, and to save it again; a
capacity of two with three ids lets an expired entry stand beside a live one.
`Writes` bounds what is saved. The `claim_*` runs keep 4, 4, 4, so what they show does not come from the
scaling.

`MaxPrompt` is the length of a rendered prompt: five messages are a call with two
ids, its answers in two messages, and a turn before and after. `MaxPushes` and
`MaxRuns` bound `rich_turns`: a message that is compressed in one compaction and again
in the next has two archived forms, and a third compaction folds it as text.
`MaxFaults` in `compressors` is the saves that fail in one run. Its limits are scaled
down (`Passthrough` 8 to 3, `MaxErrors` 10 to 2, and so on, in `compressors.cfg`), so
that arrays of five or six items, logs of five lines and sources of four exceed them; inputs of this
length hold every rule's item inside and outside the sample, at both ends. This run
is the only one without a check for deadlock: a pipeline that has emitted its last
message stops.

There is no symmetry: texts differ in their constants. `compact_once`
also checks that no state deadlocks: a compaction that is under way can always
take a step.

**Fairness.** `FairSpec` adds one assumption for each session: a `compact` that
is not over is polled again, as an executor does with a future that is not
dropped and whose store answers. It is weak fairness of `Compacting(s)`, written
out as *infinitely often idle, or infinitely often a step of it*, because that
action is enabled whenever the session is not idle (`compact_once`, which checks for
deadlock with no `Cancel` to escape by, is the evidence). Written so, TLC need not
evaluate `ENABLED` of a whole cascade in every state. Nothing is assumed of
`Extend`, `StartCompact` or `Cancel`. The other runs have safety properties only and
need no fairness.

## 4. What the runs show

* **Spared by every step.** The tail a host protects (`TailVerbatim`), pinned and
  finalized messages (`PinnedVerbatim`) and the newest replies
  (`RecentRepliesRaw`) come through, although each step measures them again on
  another list. What step 4 drops was not a system instruction, an error or the
  latest query *before the cascade* (`DropSparesProtected`).
* **Pairs.** With nothing pinned, a call and its results stay or go together
  through summary and drops (`PairsWhole`).
* **Budget.** What is committed fits (`BudgetRespected`), retention included.
* **Audit.** The folds of a compaction cover what changed exactly once
  (`FoldsPartition`); a Cleared or Compressed fold leads to the text the prompt
  held, and the store has it (`FoldsResolve`). The ledger only grows and its ids
  are unique (`LedgerAppendOnly`).
* **References.** Every id a prompt refers to is in the store (`LiveRefsStored`),
  and so is every id the recall index can return (`RecallResolves`), with failing
  saves, failing deletes and futures dropped in the cascade.
* **Recall.** A hit on a cleared or compressed message retrieves the text that was
  indexed (`HitRestores`), and whatever was once found by a tag is found by it until
  its original is collected, however often the id is indexed again
  (`TagsStayFindable`).
* **Stability.** Pinned messages stay for good and finalized ones until retention
  evicts them (`FrozenPrefix`); compacting a settled session yields no fold
  (`RecompactQuiet`).
* **Progress.** A compaction that is polled ends (`CompactionEnds`).
* **Stores.** Each backend implements `CcrStore` (`KeepsPromise`): a read yields the
  original that was last saved, in its form, whichever interface saved it before;
  nothing is lost outside a crash by a store that does not forget; and an original
  that fjall has acknowledged survives a crash, whatever other threads do between
  its insert and its persist. A store that forgets loses an entry only when it is
  older than its time to live (by SQLite's clock, up to a second less), or when the
  capacity is full of live entries that are no older (`NoSilentLoss`).
* **Blocks.** Whatever `compact_rich` rewrites can be had again, exactly, also when a
  save fails (`RewritesRestore`) and over several compactions, one restore after the
  other (`BlocksLeadBack`). The tail keeps its blocks (`TailBlocksVerbatim`); without
  a budget a failed result is spared (`ErrorsSpared`). The cascade's folds and those of
  block compression together account for every change once (`RichFoldsPartition`).
  What is emitted fits at its true size (`EmittedFits`). The same content key means
  the same prefix (`KeyTracksPrefix`). A tool that was called, or that failed, is
  found by its tag once its blocks are gone (`NativeTagsKept`).
* **Requests.** Every request has alternating turns and paired calls and results
  (`RequestValid`), an answered call stays native (`AnsweredCallsNative`), and what a
  breakpoint caches is asked for again by the next request (`CachedPrefixReused`). The
  exceptions in that property are real: a system message among the volatile ones is
  hoisted in front of everything, and a stable prefix that ends in a call changes
  when the answer comes.
* **Compression.** A text that was changed is stored under its CCR id, whichever of
  its saves failed (`Recoverable`); every marker leads to an array of the input that
  holds what stands in front of it (`MarkersHonest`). Error strings and types survive
  sampling (`ErrorTextsSurvive`, `KindsSurvive`). A line kept for the focus hint costs
  no diagnostic its place (`FocusSparesDiagnostics`), and the first and last error and
  failure are shown if the log has room for anything else (`ErrorEndsKept`); when as
  many lines as fit are errors, the last one may be cut. References point at what they
  stand for (`ReferencesResolve`), and code outside of comments is kept
  (`CodeSurvives`).

Every property has a mutant in `PROJECT.json`: a plausible slip in the code's
place under which TLC finds the property violated.

## 5. What is proved

TLAPS proves the following from the assumptions on the constants alone: for every
number of sessions and messages, all texts, token counts, markers, configurations,
batches and floors of the cascade, any number of failing saves and deletes
(`TextAssumption`, `CascadeAssumption`, `SessionAssumption`); for every setup of
each store (`PayloadAssumption`, `StoreAssumption`, `SqliteAssumption`,
`FjallAssumption`); for all block contents, sizes, configurations and batches of
rich messages (`RichAssumption`: what a host pushes has not been compressed by Ogham
before, and only a tool result carries the error flag, as the type `ContentBlock` has
it); for all messages a host may push to a rendered prompt (`RenderedPromptAssumption`: not
annotated, with a list of blocks); and for all prompts of well-formed contents, limits of the compressors, sizes of a
sample and configurations of the pipeline (`CrusherAssumption`, `LogAssumption`,
`CompressionAssumption`, `PromptsAssumption`: what is routed to `smart_crusher` is a JSON
value, and so on for the others).

| theorem | says | inductive invariant |
|---|---|---|
| `TypeCorrect` | `Spec => []TypeOK` | `TypeInv` |
| `LiveRefsCorrect` | `Spec => []LiveRefsStored`, assuming `OneSession \/ KeepsOriginals` | `LiveInv` |
| `PinnedKept` | `Spec => []PinnedVerbatim` | `TraceInv` |
| `DropsFree` | `Spec => []DropSparesProtected` | `TraceInv` |
| `PairsKept` | `Spec => []PairsWhole` | `PairsInv` |
| `FoldsAccount` | `Spec => []FoldsPartition` | `TraceInv` |
| `LedgerKept` | `Spec => LedgerAppendOnly` | `LedgerInv` |
| `FrozenKept` | `Spec => FrozenPrefix` | `FrozenInv` |
| `BudgetKept` | `Spec => []BudgetRespected` | `BudgetInv` |
| `TailSafe` | `Spec => []TailVerbatim` | `TailInv` |
| `RepliesSafe` | `Spec => []RecentRepliesRaw` | `TailInv` |
| `RecallCorrect` | `Spec => []RecallResolves`, assuming `OneSession \/ KeepsOriginals` | `RecallInv` |
| `TagsKeptFindable` | `Spec => TagsStayFindable` | `TypeInv` |
| `LeadBack`, `RewritesKept` | `Spec => []BlocksLeadBack`, `Spec => []RewritesRestore`, in `Rich` | `Typed`, `Rebuilt`, `Led` |
| `ErrorsKept` | `Spec => []ErrorsSpared` | the same, and `Unpressed` |
| `EmittedKept` | `Spec => EmittedFits` | `Typed`, `Rebuilt` |
| `KeysTrack` | `Spec => KeyTracksPrefix` | the same, and `KeyInv` |
| `RichFoldsAccount`, `NativeTagsSafe` | `Spec => []RichFoldsPartition`, `Spec => NativeTagsKept` | `Typed`, `Rebuilt`, `RichTrace` |
| `TailBlocksKept` | `Spec => []TailBlocksVerbatim` | the same, and `TailServed` |
| `OriginalsKept` | `Spec => []Recoverable`, in `Compression` | `PipeInv` |
| `MarkersSaved`, `ErrorTextsKept`, `KindsKept` | `Spec => []MarkersHonest`, `Spec => []ErrorTextsSurvive`, `Spec => []KindsSurvive` | `PipeInv` |
| `DiagnosticsSpared`, `ErrorEndsSpared` | `Spec => []FocusSparesDiagnostics`, `Spec => []ErrorEndsKept` | `PipeInv` |
| `ReferencesKept`, `CodeKept` | `Spec => []ReferencesResolve`, `Spec => []CodeSurvives` | `PipeInv` |
| `RequestsValid`, `AnswersStayNative` | `Spec => []RequestValid`, `Spec => []AnsweredCallsNative`, in `RenderedPrompt` | `RenderedInv` |
| `CachedPrefixStays` | `Spec => CachedPrefixReused` | `ReusedInv` |
| `StoresTyped`, `StoresKeepPromise`, `NoLoss` | `Spec => []TypeOK`, `Spec => KeepsPromise`, `Spec => NoSilentLoss`, in `Stores` | `StoreInv` |

`OneSession` says that there is one session and that its future is not dropped
while retention deletes (`"gc" \notin MayCancel`). `KeepsOriginals` says that no
configuration with a store evicts originals; then there may be any number of
sessions and the future may be dropped anywhere. Both limits are needed. `claim_gc`
is the counterexample to the first. Without the second, one session's retention
deletes an original that another session's prompt refers to, since
`still_referenced` looks at one session only. The other theorems have no hypothesis.

An invariant about sessions is a conjunction over them. A step of one session touches
none of the variables of another (`OthersSame`), so each proof is about the session
that moves; what sessions share is the store, and only `LiveInv` and `RecallInv`
speak of it. There is one lemma per operator of the cascade, one per step, and `PTL`
at the end.

**References.** A list of messages is *sound* for a store when each message is well
typed, its position tag is within the original list, and every id it refers to is in
the store (`Sound(n, st)` in `Cascade_proofs`). Soundness is preserved by a growing
store (`SoundMonotonic`), and each step leaves a list that is sound for the old store
plus what the step saves: a stub refers to the text that was saved for it
(`RulesFacts`), a summary quotes only markers of what it replaced (`SummaryFacts`), a
compressed message has the id of its saved original or keeps the one it had
(`CompressFacts`), a drop leaves a part of the list (`DropFacts`). `TypeOK` alone is
not inductive: the folds of `BuildAndRetain` need the tags of the working list to be
positions of `messages`, and numbering them takes cardinalities, so ledger and delta
must be finite. `LiveInv` adds, for the real store, that messages and working list are
sound for it, except that during the deletes only the working list is, and that the
ids still to delete are not among those the working list refers to. `Delete` needs
this last part; `Commit` needs the soundness of the working list; `Cancel` needs that
of `messages`, which is why it is excluded during the deletes.

**Where messages come from.** What is pinned cannot be said of the working copy alone,
since each step decides from what it finds there. `TraceInv` says that every message
of the copy without a summary's tag 0 has the role, the error flag and the pin of the
original at its tag, and its text if that is pinned; that the tags stand in order; and
that every pinned original is there. The order is what makes the latest query of the
copy the latest of the prompt (`DropFree`), and what lets a fold's range be told from
its neighbours (`FoldsAccount`). Dropped messages are each `Free`.

**Pairs.** `PairsInv` says, while nothing is pinned, that summaries stand in front and
that of two originals of which the second continues the results of the first's call
the copy holds both or neither. Then what is a group in the prompt stands in the copy
without a gap (`NextTo`, `RunThere`), so a group of the copy that step 4 drops cuts none
of the prompt's (`GroupUncut`), and the old band ends where it was aligned, before a message
that is no result (`BandAligned`). That last lemma is the one a pinned message breaks,
as `claim_pairs` shows.

**Ledger and retention.** A new fold's number is above the count of the ledger's folds
of the same origin and range. It is new only if no number given before exceeds that
count, so this is part of `LedgerInv` (`Numbers`), for the ledger and for ledger and
delta together. `FrozenInv` says of a compaction that waits for its commit that its
result already has every pinned message, and the younger finalized ones that the cap
asks for; it also says that no message of a prompt has a tag (`Fresh`).

**Tokens.** A list's count is a sum over its positions. That the order in which such a
sum is taken does not matter is proved first (`SumsExist` and what follows), then that a part
of a list counts no more than the whole and the same texts the same. `BudgetInv` says
that a list which reaches the result fits. `TailInv` is the subtle one: each step
measures the tail anew, in a list where the messages before it have other counts and
may be gone. Since the tail is measured from the end, and its messages are unchanged,
the new tail holds the old one (`TailThere`); and since a step spares the tail it
measures, it spares the old one. The protected replies are found by role from the end
in the same way (`ReplyRecent`); step 4 may drop them, so the invariant lets a reply be
among the dropped, with its text.

**Recall.** `RecallInv` says that the ids of the index's documents are in the store,
but for those the same compaction's retention has deleted, and that the dropped
messages of a cascade refer to stored texts, since their ids become documents.

**Stores.** `StoreInv` says that each row, in memory and on disk, decodes to the
original it was saved from, which was saved under its id and no later than now, and
that what fjall has acknowledged is in its rows and on its disk. `StoresKeepPromise`
maps a state to `CcrStore` (`Contents`, `Forgetful`) and shows that each step of each
backend is one of `CcrStore` or a stutter. The proof of `NoLoss` showed that the age of
an entry has to be that of the row: with one history per id, a row that a power loss
brings back has the age of the save that was lost, which no small instance reached.

**Rich messages.** The cascade works on flat text, so what matters of its list is
little (`Flat`): a message that still has its index has the flat text of the message
at that index or, where there is a store, an id that is found there. Every operator
of the cascade keeps a list of such messages (`FlatRules` to `FlatCompress`), and the
rest speaks of rich messages only. `Rebuilt` says of block compression that each
position that was kept holds the original, or the original rewritten once and, under
a reversible policy, an id under which the archive holds it (`Served`). `Led` is the
chain through several compactions: whatever has been through n > 0 passes, in the
prompt or in the archive, has an id whose saved message has been through n - 1. It has
to speak of the archive too, since a saved message may itself have been compressed,
and it survives the archive's growth because a saved message keeps its number
(`ArchiveFacts`). `Unpressed` follows the list of a compaction without a limit: it ends
in step 1, so it is the flat projection or what the rules make of it, and the rules do
not clear a message that is classed as an error. `KeyInv` says that the reported key is
the canonical form of as many of the prompt's first messages as the plan says; a host
that appends changes none of them. `SameShown` then shows that the canonical form tells
apart whatever the provider is shown.

The cascade of a session and that of `compact_rich` run the same operators, so what
they do to a list is proved once (`Cascade_proofs`), for messages whose ids may be those
of texts or of saved rich messages (`Listed`). `RichTrace` says of the flat list what
`TraceInv` and `TailInv` say of a session's: it comes from the prompt, with its tags in
order, and the prompt's protected tail ends it. The code takes a message for untouched
when its text is the one it started with (`kept_by_cascade`), and looks at nothing else.
That this is right is the last part of `Flat`, `Deeper`: a message that has been rewritten
has more layers than it started with, so equal texts mean equal messages (`KeptAsWas`).
Then the folds of the cascade and those of block compression cover different messages,
and between them each changed or lost one exactly once (`RichCover`). `NativeTagsSafe`
follows: what no fold covers keeps its blocks, and the others' tags are in the fold.
`TailServed` says that block compression, which goes by positions of the list, visits
none that stands for the tail.

**The pipeline.** `PipeInv` says that each message emitted is the original, or what its
compressor makes of it for some size of sample, with all its saves in the store; while
saves are under way, each is done or still to do. The rest is about the compressors'
results. They are recursive functions: over the nesting of a JSON value, over the lines of
a log or of a source, over the rounds of a selection. That such a function exists is shown
once, by building it up to the bound (`IteratesIn` in `Basics_proofs`; `Nesting`, the
depth at which a parser gives up, bounds a JSON value), and `AllAlong` carries an
invariant along it. What a `CHOOSE` picks by rank is well defined because the order is
strict and finite (`StrictOrder`, `OrderFacts`).

* JSON: `AllSound` says of every value below a result that its markers stand for arrays of
  the input that were saved, and hold what stands in front of them. `Tells` says that an
  error string is within a value, and a crushed value tells what the values told that it
  was made of. Sampling takes error strings and an item of each type before the budget is
  filled, and the fill takes none of them away.
* Logs: the lines kept are those of highest score, so a kept line with a lower score than a
  diagnostic's contradicts the order, unless the diagnostic's class had its own limit.
* Prose: a reference leads to a paragraph that is there and says the same (`Resolves`).
* Code: the compressor's state and the token scanner's agree after every line, as long as
  no opener has been hidden (`InsideAt`, `OutsideAt` and `AroundAt` are the three kinds
  of line), and what both take for code is in the output.

**Requests.** `RenderedInv` says that the request is the rendering of the prompt as it
stands; the rest is about that rendering. `SideRuns` is used twice, on messages and on
rendered segments, and `RunsCut` says of both that a sequence is cut where the side
changes and nowhere else. So neighbouring segments have different sides, and the native
calls of a segment are those whose answers are in the next (`Meets`), which are that
one's native results: both of them have a block left, so both are in the request, and
nothing comes between them (`FullMeets`). When emptied segments let others of one side
meet, a segment with native calls is the last of its turn and one with native results
the first, since its partner has the other side (`TurnsMeet`). That is why the results
of a merged turn still stand in front, each id once. `AnswersMeet` is the way from
messages to segments: between a call and its answer the side changes once.

`ReusedInv` adds where the breakpoints are: on a system message, or at the end of the
stable prefix. The next prompt `Continues` this one there, and the side of the message
behind the prefix stays what it is. So the segment that the prefix ends with ends in
both prompts (`CutsAgree`), and it and those before it render alike (`RenderedAgree`);
for its calls that needs the property's condition, since an answer behind the prefix
may come or go (`NoCalls`). Segments that render to nothing are left out of both
requests alike (`FullAgree`). Turns may merge differently further on, so the streams
are compared block by block: `FlattenLaid` and `StreamLaid` say which place of the
stream each block of a segment has, and a mark is on the last block of a segment with
a breakpoint, so that all up to it is the same (`RichReused`, `FlatReused`). System
messages stand in front and are the same ones (`SystemRich`, `SystemFlat`).

**Only model-checked**, and why:

* `FoldsResolve` and `HitRestores` hold on the instances of their runs and not in
  general: `claim_original` is a counterexample, so there is no theorem to prove
  without a hypothesis on the texts.
* `CompactionEnds` is liveness, and the guard of `FairSpec` speaks of every later
  step; `RecompactQuiet` is about a whole second cascade, and rests on what the first
  one computed from the counts of every message.

## 6. Where the code and its documents differ

Each is a run that TLC refutes, and a finding in `PROJECT.json`.

* `claim_protected`: compressing and summarizing do not look at a message's class,
  so a long system prompt, an error or the latest query older than the preserved
  messages is rewritten. README.md:167-168 says they survive every pass verbatim.
* `claim_pairs`: clamping the band before a pinned message undoes its alignment,
  so a summary takes a call and leaves its cleared, pinned result.
* `claim_audit`: a result cleared and then dropped behind the summarized turns is
  counted as summarized; no fold names its original.
* `claim_original`: two steps of one cascade rewrite a reply, and its CCR id ends
  up naming the text in between.
* `claim_gc`: a future dropped between a delete and the assignment leaves a prompt
  that refers to a deleted original.
* `claim_rich_pinned`: what the cascade leaves alone because it is pinned counts as
  kept, and block compression rewrites it. `meta_keys::PINNED` says it never is.

Met on the way, without a run of their own:

* `ast_code.rs:51` looks for a block comment's start before line comments and strings,
  so `// see /* here` swallows the code up to the next `*/`. It looks for one
  opener in a line, so a comment opened behind another's end (`/* a */ /* b`) does not
  count as open, and of a next line `// */ foo();` nothing is left. `CodeSurvives` has both as its condition (`~scan.hidden`). docs/compression.md:86
  speaks of comments only.
* An aligned log, diff or source is one line. A diff or log is then hardly told from
  prose, and of an aligned source a line comment takes all that follows.
  `cache_aligner.rs` says that it never changes semantic tokens. The original is saved
  in its aligned form only.
* A pipeline that is not reversible still has `log_stripper` (`log_stripper.rs:402`)
  write "Retrieve more: hash=" under a stripped log, with nothing saved under the hash.
  `crush_mixed_array` has `crush_dict_array` save arrays that no marker names.
* `StructuredSummary::merge` (`memory/summary.rs:69`) adds `turns_covered` only if the
  newer summary brought something new; its comment says "add turns_covered".

## 7. The plan

Done: the session with its cascade and recall index, the stores and their promise,
the cache plan and the Anthropic request, `compact_rich`, the pipeline and the
compressors it routes to; and theorems for the properties of the session, of the
stores, of rich messages, of the pipeline and of the requests (section 5).

Next: where `FoldsResolve` and `HitRestores` hold for every instance, for a session
whose cascade rewrites no message twice.

**Not modelled**, and why:

* `compress_conversation_history_with_summarizer` (`conversation.rs:118-212`) and
  `memory/*`: a host's summarizer in place of the extractive summary, not reached from
  a session. Called directly on the host's list, either variant drains the middle band
  before it awaits the pipeline; the documents promise nothing about a dropped future
  there.
* The HTTP server (`crates/ogham-server`): each handler is one call of the pipeline or
  of the store, which `Compression` and `Stores` model, and a counter under a mutex.
* `dedup_ref` and `toon`: no content type is routed to them.
* `tools.rs`: a read of the store, answered with text.
* OpenAI's and Gemini's request layout, the context-editing fragment, the table of
  minimum prefixes: data that is passed on.
* Token heuristics, BM25 scores, knee detection, simhash, compression ratios, metrics:
  numbers and strings, whose results are constants, or any value in their range.
* Schema migration of the SQLite store and a corrupted row.
