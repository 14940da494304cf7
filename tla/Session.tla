------------------------------ MODULE Session ------------------------------
(***************************************************************************)
(* ContextSession::compact, one action per stretch of code between two     *)
(* awaits that touch the CCR store.  Several sessions may share one store. *)
(*                                                                         *)
(* A session works on a copy of its messages and assigns it only at the    *)
(* end (Commit), so an error, or the caller dropping the future at an      *)
(* await (Cancel), leaves `messages' and `folds' alone.  The store and the *)
(* recall index are changed in place.                                      *)
(***************************************************************************)
EXTENDS Positions, Cascade

CONSTANTS
  Sessions,      \* sessions that share the store
  Configs,       \* the configurations a session may have
  Batches,       \* the message lists a host may push between two compactions
  MaxTurns,      \* bound: batches pushed to one session
  MaxFaults,     \* bound: saves that fail in one stage of the cascade
  MayCancel,     \* the phases in which the host may drop the future
  MayFailDelete  \* whether the store's delete may return an error

Phases == {"idle", "rules", "middle", "summarize", "drop", "fold", "gc"}

ASSUME SessionAssumption ==
  /\ Configs \subseteq Config
  /\ Batches \subseteq Seq({m \in Message : m.idx = 0 /\ ~m.fin})
  /\ MaxTurns \in Nat
  /\ MaxFaults \in Nat
  /\ MayCancel \subseteq {"rules", "middle", "summarize", "gc"}
  /\ MayFailDelete \in BOOLEAN

\* A document of the recall index: the texts of the fold it was made from, to be
\* retrieved under `id'.
Doc == [id : Text, kind : FoldKinds, of : SUBSET Text, tags : SUBSET Tag]

VARIABLES
  store,     \* the CCR store: the texts it can return
  config,    \* [Sessions -> Configs], fixed
  messages,  \* ContextSession::messages
  folds,     \* ContextSession::folds, the ledger, as a set
  recall,    \* the documents of the recall index
  pc,        \* where compact() is
  working,   \* the list compact() works on
  dropped,   \* BudgetReport::dropped
  delta,     \* new_folds
  gc,        \* ids apply_retention has still to delete
  evicted,   \* ids it has deleted
  turns,     \* batches pushed so far
  settled    \* history: "settled" when nothing was pushed and no save failed
             \* since a compaction that committed, else "new" or "faulty"

vars == <<store, config, messages, folds, recall, pc, working, dropped,
          delta, gc, evicted, turns, settled>>
flight == <<working, dropped, delta, gc, evicted>>

TypeOK ==
  /\ store \subseteq Text
  /\ config \in [Sessions -> Configs]
  /\ messages \in [Sessions -> Seq(Message)]
  /\ folds \in [Sessions -> SUBSET Fold]
  /\ recall \in [Sessions -> SUBSET Doc]
  /\ pc \in [Sessions -> Phases]
  /\ working \in [Sessions -> Seq(Message)]
  /\ dropped \in [Sessions -> Seq(Message)]
  /\ delta \in [Sessions -> SUBSET Fold]
  /\ gc \in [Sessions -> SUBSET Text]
  /\ evicted \in [Sessions -> SUBSET Text]
  /\ turns \in [Sessions -> Nat]
  /\ settled \in [Sessions -> {"new", "faulty", "settled"}]

Init ==
  /\ store = {}
  /\ config \in [Sessions -> Configs]
  /\ messages = [s \in Sessions |-> <<>>]
  /\ folds = [s \in Sessions |-> {}]
  /\ recall = [s \in Sessions |-> {}]
  /\ pc = [s \in Sessions |-> "idle"]
  /\ working = [s \in Sessions |-> <<>>]
  /\ dropped = [s \in Sessions |-> <<>>]
  /\ delta = [s \in Sessions |-> {}]
  /\ gc = [s \in Sessions |-> {}]
  /\ evicted = [s \in Sessions |-> {}]
  /\ turns = [s \in Sessions |-> 0]
  /\ settled = [s \in Sessions |-> "new"]
-----------------------------------------------------------------------------
\* extend(): a host quotes no marker that the prompt does not hold.
Extend(s, batch) ==
  /\ pc[s] = "idle"
  /\ turns[s] < MaxTurns
  /\ ReferencedIds(batch) \subseteq ReferencedIds(messages[s])
  /\ messages' = [messages EXCEPT ![s] = @ \o batch]
  /\ turns' = [turns EXCEPT ![s] = @ + 1]
  /\ settled' = [settled EXCEPT ![s] = "new"]
  /\ UNCHANGED <<store, config, folds, recall, pc, flight>>

\* compact(): what was finalized is pinned.
Pinned(ms) == [i \in DOMAIN ms |-> [ms[i] EXCEPT !.pinned = @ \/ ms[i].fin]]

\* tag_original_indices
Tagged(ms) == [i \in DOMAIN ms |-> [ms[i] EXCEPT !.idx = i]]

Untag(ms) == [i \in DOMAIN ms |-> Untagged(ms[i])]

StartCompact(s) ==
  /\ pc[s] = "idle"
  /\ working' = [working EXCEPT ![s] = Tagged(Pinned(messages[s]))]
  /\ pc' = [pc EXCEPT ![s] = IF /\ config[s].limit # None
                                /\ Fits(messages[s], config[s])
                             THEN "fold" ELSE "rules"]
  /\ settled' = [settled EXCEPT ![s] = IF @ = "faulty" THEN "new" ELSE @]
  /\ UNCHANGED <<store, config, messages, folds, recall, dropped, delta, gc,
                 evicted, turns>>
-----------------------------------------------------------------------------
\* The saves of a stage that fail.
Faults(s, positions) ==
  IF ~config[s].hasStore THEN {{}}
  ELSE {F \in SUBSET positions : Cardinality(F) <= MaxFaults}

\* A stage of the cascade ends with list w, having saved some texts.
EndStage(s, phase, next, w, saves, failed) ==
  /\ pc[s] = phase
  /\ working' = [working EXCEPT ![s] = w]
  /\ store' = store \cup saves
  /\ pc' = [pc EXCEPT ![s] = IF Fits(working'[s], config[s]) THEN "fold"
                             ELSE next]
  /\ settled' = [settled EXCEPT ![s] =
                   IF @ = "new" /\ failed # {} THEN "faulty" ELSE @]
  /\ UNCHANGED <<config, messages, folds, recall, dropped, delta, gc, evicted,
                 turns>>

\* Step 1, and all there is without a budget.
Rules(s) ==
  \E F \in Faults(s, ClearSet(working[s], config[s])) :
    EndStage(s, "rules", "middle",
             AgentRules(working[s], config[s], F),
             AgentSaves(working[s], config[s], F), F)

Compress(s, phase, next, middle, summarize) ==
  LET preserve == PreserveRecent(working[s], config[s])
      w == AfterOldBand(working[s], preserve, middle, summarize)
  IN  \E F \in Faults(s, PipedBand(w, preserve)) :
        EndStage(s, phase, next, PipeBand(w, config[s], preserve, F),
                 PipeSaves(w, config[s], preserve, F), F)

\* Mutant: step 3 hands over to step 2 again.
Summarize_Loop(s) == Compress(s, "summarize", "middle", MiddleBand, TRUE)

\* Step 2 pipes all but the recent messages.  Step 3 summarizes what is older
\* than the middle band, and pipes again.
Middle(s)    == Compress(s, "middle", "summarize", Len(working[s]), FALSE)
Summarize(s) == Compress(s, "summarize", "drop", MiddleBand, TRUE)

\* Step 4, one turn of its loop.
Drop(s) ==
  /\ pc[s] = "drop"
  /\ CanDrop(working[s], config[s])
  /\ LET w == working[s]
         r == DropRange(w, config[s])
     IN  /\ working' = [working EXCEPT ![s] =
                          SubSeq(w, 1, r[1] - 1) \o SubSeq(w, r[2] + 1, Len(w))]
         /\ dropped' = [dropped EXCEPT ![s] = @ \o SubSeq(w, r[1], r[2])]
  /\ UNCHANGED <<store, config, messages, folds, recall, pc, delta, gc, evicted,
                 turns, settled>>

\* Mutant: the loop's end is taken for success.
EndDrop_Unchecked(s) ==
  /\ pc[s] = "drop"
  /\ ~CanDrop(working[s], config[s])
  /\ pc' = [pc EXCEPT ![s] = "fold"]
  /\ UNCHANGED <<store, config, messages, folds, recall, flight, turns, settled>>

EndDrop(s) ==
  /\ pc[s] = "drop"
  /\ Fits(working[s], config[s])
  /\ pc' = [pc EXCEPT ![s] = "fold"]
  /\ UNCHANGED <<store, config, messages, folds, recall, flight, turns, settled>>

\* compact() returns to its caller without a result.
Return(s) ==
  /\ pc' = [pc EXCEPT ![s] = "idle"]
  /\ working' = [working EXCEPT ![s] = <<>>]
  /\ dropped' = [dropped EXCEPT ![s] = <<>>]
  /\ delta' = [delta EXCEPT ![s] = {}]
  /\ gc' = [gc EXCEPT ![s] = {}]
  /\ evicted' = [evicted EXCEPT ![s] = {}]

\* Err(BudgetExceeded)
GiveUp(s) ==
  /\ pc[s] = "drop"
  /\ ~Fits(working[s], config[s])
  /\ ~CanDrop(working[s], config[s])
  /\ Return(s)
  /\ UNCHANGED <<store, config, messages, folds, recall, turns, settled>>
-----------------------------------------------------------------------------
\* Mutant: the ids of earlier compactions are not looked at.
Numbered_DeltaOnly(ledger, new) ==
  {[f EXCEPT !.id.n = Cardinality({g \in new : /\ g.id = f.id
                                               /\ g.first <= f.first})] :
     f \in new}

\* uniquify_fold_ids: the folds are taken in the order of their ranges.
Numbered(ledger, new) ==
  {[f EXCEPT !.id.n = Cardinality(
      {g \in ledger : g.id.of = f.id.of /\ g.id.span = f.id.span}) +
      Cardinality({g \in new : /\ g.id = f.id
                               /\ g.first <= f.first})] : f \in new}

\* mark_finalized on the replacements
Finalized(ms, new) ==
  [j \in DOMAIN ms |-> IF \E f \in new : f.at = j
                       THEN [ms[j] EXCEPT !.fin = TRUE, !.pinned = TRUE]
                       ELSE ms[j]]

FinPositions(ms) == {i \in DOMAIN ms : ms[i].fin}

\* apply_retention: the oldest finalized messages beyond the cap.
Evictable(ms, cfg) ==
  IF cfg.maxFin = None THEN {}
  ELSE {i \in FinPositions(ms) :
          Cardinality({j \in FinPositions(ms) : j > i}) >= cfg.maxFin}

\* Mutant: an evicted stub takes its original with it.
Collectable_All(ms, cfg) ==
  IF cfg.evictOriginals /\ cfg.hasStore
  THEN UNION {Refs(ms[i]) : i \in Evictable(ms, cfg)} ELSE {}

Collectable(ms, cfg) ==
  IF cfg.evictOriginals /\ cfg.hasStore
  THEN (UNION {Refs(ms[i]) : i \in Evictable(ms, cfg)})
         \ (UNION {Refs(ms[i]) : i \in DOMAIN ms \ Evictable(ms, cfg)})
  ELSE {}

\* Mutant: the range is taken to include its end.
Originals_Wide(ms, f) == {ms[i] : i \in DOMAIN ms \cap (f.first .. f.last + 1)}

\* The messages a fold stands for.
Originals(ms, f) == {ms[i] : i \in DOMAIN ms \cap (f.first .. f.last)}

IdsOf(docs) == {d.id : d \in docs}

\* Mutant: re-indexing an id replaces its tags.
TagsUnder_New(docs, ms, new, id) ==
  UNION {FoldTags(Originals(ms, f)) : f \in {x \in new : x.ccr = id}}

TagsUnder(docs, ms, new, id) ==
  UNION ({d.tags : d \in {x \in docs : x.id = id}} \cup
         {FoldTags(Originals(ms, f)) : f \in {x \in new : x.ccr = id}})

\* RecallIndex::index of one fold after the other: the last one with an id
\* gives the document its kind and texts, its tags are those of all.
Indexed(docs, ms, new) ==
  {d \in docs : \A f \in new : f.ccr # d.id} \cup
  {[id |-> f.ccr, kind |-> f.kind, of |-> {m.text : m \in Originals(ms, f)},
    tags |-> TagsUnder(docs, ms, new, f.ccr)] :
     f \in {g \in new : /\ g.ccr # None
                       /\ \A h \in new : h.ccr = g.ccr => h.first <= g.first}}

\* RecallIndex::remove
Forgotten(docs, ids) == {d \in docs : d.id \notin ids}

\* RecallIndex::find_by_tag
FindByTag(docs, tag) == {d \in docs : tag \in d.tags}

\* RecallIndex::search: the documents that share a term with the query, each
\* pushed text having one of its own.  Which of them comes first is left out.
Search(docs, query) ==
  {d \in docs : \E t \in d.of, q \in query : t \in Key /\ t.src = q.src}

\* Everything from build_fold_records to the first delete.
BuildAndRetain(s) ==
  /\ pc[s] = "fold"
  /\ delta' = [delta EXCEPT ![s] =
       Numbered(folds[s],
                BuildFolds(Pinned(messages[s]), working[s], dropped[s]))]
  /\ recall' = [recall EXCEPT ![s] = Indexed(@, messages[s], delta'[s])]
  /\ LET final == Finalized(Untag(working[s]), delta'[s])
     IN  /\ working' = [working EXCEPT ![s] =
              Sub(final, DOMAIN final \ Evictable(final, config[s]))]
         /\ gc' = [gc EXCEPT ![s] = Collectable(final, config[s])]
  /\ pc' = [pc EXCEPT ![s] = "gc"]
  /\ UNCHANGED <<store, config, messages, folds, dropped, evicted, turns,
                 settled>>

Delete(s, id) ==
  /\ pc[s] = "gc"
  /\ id \in gc[s]
  /\ gc' = [gc EXCEPT ![s] = @ \ {id}]
  /\ \/ /\ store' = store \ {id}
        /\ evicted' = [evicted EXCEPT ![s] = @ \cup {id}]
     \/ MayFailDelete /\ UNCHANGED <<store, evicted>>
  /\ UNCHANGED <<config, messages, folds, recall, pc, working, dropped, delta,
                 turns, settled>>

\* Mutant: the recall index keeps what was deleted.
Commit_KeepRecall(s) ==
  /\ pc[s] = "gc"
  /\ gc[s] = {}
  /\ messages' = [messages EXCEPT ![s] = working[s]]
  /\ folds' = [folds EXCEPT ![s] = @ \cup delta[s]]
  /\ settled' = [settled EXCEPT ![s] = IF @ = "new" THEN "settled" ELSE @]
  /\ Return(s)
  /\ UNCHANGED <<store, config, recall, turns>>

Commit(s) ==
  /\ pc[s] = "gc"
  /\ gc[s] = {}
  /\ messages' = [messages EXCEPT ![s] = working[s]]
  /\ folds' = [folds EXCEPT ![s] = @ \cup delta[s]]
  /\ recall' = [recall EXCEPT ![s] = Forgotten(@, evicted[s])]
  /\ settled' = [settled EXCEPT ![s] = IF @ = "new" THEN "settled" ELSE @]
  /\ Return(s)
  /\ UNCHANGED <<store, config, turns>>

\* The texts a stage has under way when its future is dropped.
Pending(s) ==
  LET w == working[s]
      preserve == PreserveRecent(w, config[s])
      old == AfterOldBand(w, preserve, MiddleBand, TRUE)
  IN  CASE pc[s] = "rules"     -> AgentSaves(w, config[s], {})
        [] pc[s] = "middle"    -> PipeSaves(w, config[s], preserve, {})
        [] pc[s] = "summarize" -> PipeSaves(old, config[s], preserve, {})
        [] OTHER               -> {}

\* The caller drops the future at an await: some of the stage's saves, or of
\* the deletes, are done.
Cancel(s) ==
  /\ pc[s] \in MayCancel
  /\ pc[s] = "gc" => gc[s] \cup evicted[s] # {}
  /\ \E saves \in SUBSET Pending(s) : store' = store \cup saves
  /\ Return(s)
  /\ UNCHANGED <<config, messages, folds, recall, turns, settled>>

Compacting(s) ==
  \/ Rules(s) \/ Middle(s) \/ Summarize(s) \/ Drop(s) \/ EndDrop(s)
  \/ GiveUp(s) \/ BuildAndRetain(s) \/ Commit(s)
  \/ \E id \in gc[s] : Delete(s, id)

Next ==
  \E s \in Sessions :
    \/ \E batch \in Batches : Extend(s, batch)
    \/ StartCompact(s)
    \/ Compacting(s)
    \/ Cancel(s)

Spec == Init /\ [][Next]_vars

\* An executor polls a future to its end.  This is WF_vars(Compacting(s)),
\* written out: Compacting(s) is enabled whenever the session is not idle.
FairSpec ==
  /\ Spec
  /\ \A s \in Sessions :
       []<>(pc[s] = "idle") \/ []<><<Compacting(s)>>_vars
-----------------------------------------------------------------------------
(* Safety.  `fold' is the phase in which a cascade has reached its result. *)

Cascading(s) == pc[s] \in {"rules", "middle", "summarize", "drop", "fold"}

\* The message of the working list that came from position i, if it is there.
Kept(s, i) == \E j \in DOMAIN working[s] : working[s][j].idx = i

Verbatim(s, i) ==
  \E j \in DOMAIN working[s] : /\ working[s][j].idx = i
                               /\ working[s][j].text = messages[s][i].text
                               /\ working[s][j].ccr = messages[s][i].ccr

\* Whatever the earlier steps did to the token counts each step measures anew,
\* the tail the host asked to protect is what it gets: no step clears, pipes,
\* summarizes or drops a message of it (agent::protected_tail_mask).
TailVerbatim ==
  \A s \in Sessions : Cascading(s) =>
    \A i \in ProtectedTail(messages[s], config[s]) : Verbatim(s, i)

\* A message the host pinned, or an earlier compaction finalized, goes through
\* every step untouched and is in the result (meta_keys::PINNED).
PinnedVerbatim ==
  \A s \in Sessions : Cascading(s) =>
    \A i \in DOMAIN messages[s] :
      messages[s][i].pinned \/ messages[s][i].fin => Verbatim(s, i)

\* The newest keep_recent_assistant replies may be dropped but are never
\* compressed or summarized (AgentPolicy::keep_recent_assistant).
RecentRepliesRaw ==
  \A s \in Sessions : Cascading(s) =>
    \A i \in RecentAssistants(messages[s], config[s].keepAssistant) :
      \/ Verbatim(s, i)
      \/ \E j \in DOMAIN dropped[s] : /\ dropped[s][j].idx = i
                                      /\ dropped[s][j].text = messages[s][i].text

\* The drop step spares system instructions, tool errors and the latest user
\* query, as they were before any step ran (budget::enforce_budget).
DropSparesProtected ==
  \A s \in Sessions : \A j \in DOMAIN dropped[s] :
    LET i == dropped[s][j].idx
    IN  i # 0 => /\ Classify(messages[s][i])
                      \notin {"SystemInstruction", "ToolResultError"}
                 /\ ~IsLatestUser(messages[s], i)

\* An assistant's tool calls and their results stay or go together, through
\* the summary and the drops (docs/agent-context.md:136-141).
PairsStayTogether(s) ==
  pc[s] = "fold" =>
    \A h \in Heads(messages[s]) :
      LET kept == {i \in Group(messages[s], h) : Kept(s, i)}
      IN  kept = {} \/ kept = Group(messages[s], h)

\* That holds of a prompt in which nothing is pinned.
PairsWhole ==
  \A s \in Sessions :
    (\A i \in DOMAIN messages[s] : ~(messages[s][i].pinned \/ messages[s][i].fin))
      => PairsStayTogether(s)

\* A compaction that is about to commit fits the budget, retention included.
BudgetRespected ==
  \A s \in Sessions : pc[s] = "gc" => Fits(working[s], config[s])

\* The fold of a cleared or compressed message leads back to the text the
\* prompt held before this compaction, and the store still has it.
FoldsResolve ==
  \A s \in Sessions : \A f \in delta[s] :
    f.kind \in {"Cleared", "Compressed"} /\ config[s].hasStore =>
      /\ f.ccr = messages[s][f.first].text
      /\ pc[s] = "gc" /\ f.ccr \notin evicted[s] => f.ccr \in store

\* Every original message that the result changed or lost is accounted for by
\* exactly one fold of the delta, every other one by none, and the folds'
\* ranges do not overlap.
FoldsPartition ==
  \A s \in Sessions : pc[s] = "fold" =>
    LET orig == Pinned(messages[s])
        new  == BuildFolds(orig, working[s], dropped[s])
    IN  \A i \in DOMAIN orig :
          Cardinality({f \in new : f.first <= i /\ i <= f.last}) =
            IF \E j \in DOMAIN working[s] :
                 Untagged(working[s][j]) = orig[i] /\ working[s][j].idx = i
            THEN 0 ELSE 1
-----------------------------------------------------------------------------
(* What a session promises over its life *)

\* Every CCR id the prompt refers to, in a marker or in metadata, can be
\* retrieved (session.rs:53-54: "a referenced original is never deleted").
LiveRefsStored ==
  \A s \in Sessions :
    ReferencedIds(IF pc[s] = "gc" THEN working[s] ELSE messages[s])
      \subseteq store

\* Every id the recall index may return can be retrieved.
RecallResolves ==
  \A s \in Sessions : IdsOf(recall[s]) \ evicted[s] \subseteq store

\* Whoever searches for what a cleared or compressed message said retrieves
\* that message by the hit (RecallHit::ccr_id: "CCR id to retrieve the original
\* content"), however often its id was indexed and whatever was folded under it
\* in between.
HitRestores ==
  \A s \in Sessions : \A r \in Raw :
    \A d \in Search(recall[s], {RawText(r)}) :
      d.kind \in {"Cleared", "Compressed"} => d.of = {d.id}

\* What was once found by a tag is found by it until its original is collected
\* (RecallIndex::index: repeated content "stays findable by every fold-level tag
\* observed for that CCR id"), and a new fold's tags are there at once.
TagsStayFindable ==
  [][\A s \in Sessions :
       /\ \A d \in recall[s] : \A tag \in d.tags :
            d.id \in IdsOf(FindByTag(recall'[s], tag)) \cup evicted[s]
       /\ pc[s] = "fold" /\ pc'[s] = "gc" =>
            \A f \in delta'[s] : f.ccr # None =>
              \A tag \in FoldTags(Originals(messages[s], f)) :
                f.ccr \in IdsOf(FindByTag(recall'[s], tag))]_vars

\* The ledger only grows, and no two of its folds have the same id.
LedgerAppendOnly ==
  [][\A s \in Sessions :
       /\ folds[s] \subseteq folds'[s]
       /\ \A f, g \in folds'[s] : f.id = g.id => f = g]_vars

\* A pinned message that is not a fold's replacement stays in the prompt for
\* good; a finalized one leaves it only when retention has a cap, and then the
\* cap's number of younger ones stays.
FrozenPrefix ==
  [][\A s \in Sessions : \A i \in DOMAIN messages[s] :
       LET m    == messages[s][i]
           next == messages'[s]
           here(x) == \E j \in DOMAIN next : next[j] = x
       IN  /\ m.pinned /\ ~m.fin => here(m)
           /\ m.fin => \/ here(m)
                       \/ /\ config[s].maxFin # None
                          /\ Cardinality(FinPositions(next)) = config[s].maxFin]_vars

\* Compacting again with nothing pushed since, and no save failed, yields no
\* fold (ContextSession::compact: "Idempotent").
RecompactQuiet ==
  [][\A s \in Sessions : settled[s] = "settled" => delta'[s] = {}]_vars

\* A compaction that is polled comes to an end.
CompactionEnds == \A s \in Sessions : pc[s] # "idle" ~> pc[s] = "idle"
-----------------------------------------------------------------------------
(* What the repository's documents say, and the code does not do *)

\* README.md:167-168: "Tool errors, system instructions, and the latest user
\* query survive every pass verbatim".
ProtectedVerbatim ==
  \A s \in Sessions : pc[s] = "fold" =>
    \A i \in DOMAIN messages[s] :
      \/ Classify(messages[s][i]) \in {"SystemInstruction", "ToolResultError"}
      \/ IsLatestUser(messages[s], i)
      => Verbatim(s, i)

\* docs/agent-context.md:136-141: an assistant message and the tool results
\* after it are "removed atomically, never split", and "the summarize band
\* boundary is aligned the same way", whatever is pinned.
PairsNeverSplit == \A s \in Sessions : PairsStayTogether(s)

\* compact.rs, build_fold_records: "If the dropped message was cleared first,
\* recover its CCR id [...] so the audit record still points at the stored
\* original".
ClearedDropsAudited ==
  \A s \in Sessions : pc[s] = "gc" =>
    \A j \in DOMAIN dropped[s] :
      dropped[s][j].ccr # None => \E f \in delta[s] : f.ccr = dropped[s][j].ccr
=============================================================================
