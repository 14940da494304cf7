------------------------------ MODULE Cascade ------------------------------
(***************************************************************************)
(* The budget cascade as operators on a message list `w' and a session     *)
(* configuration `cfg': agent rules, middle compression, summary of the    *)
(* old turns, pair-safe drops, and the fold records of the outcome.        *)
(*                                                                         *)
(* The code counts positions from 0 and a band start is an index; here     *)
(* positions count from 1 and a band start is the number of messages       *)
(* before the band, which is the same number.                              *)
(***************************************************************************)
EXTENDS Transcript

CONSTANTS
  PreserveFloor,  \* fewest recent messages steps 2 and 3 preserve (code: 4)
  MiddleBand,     \* compress_middle of step 3 (code: 4)
  DropFloor       \* step 4 never shrinks the list below this (code: 4)

ASSUME CascadeAssumption ==
  /\ PreserveFloor \in Nat
  /\ MiddleBand \in Nat
  /\ DropFloor \in Nat

\* What a session is configured with.  `limit' is the budget's effective
\* limit; `tail' is protected_tail_tokens (0: none); `maxFin' is the
\* max_finalized of EvictFinalized (None: KeepAll).
Config == [limit : Nat \cup {None}, keepTools : Nat, clearOld : BOOLEAN,
           keepAssistant : Nat, tail : Nat, hasStore : BOOLEAN,
           maxFin : Nat \cup {None}, evictOriginals : BOOLEAN]

Fits(w, cfg) == cfg.limit = None \/ CountTokens(w) <= cfg.limit
-----------------------------------------------------------------------------
(* Protection (agent.rs) *)

\* The newest messages that reach into the last `tail' tokens, whole.
ProtectedTail(w, cfg) == {i \in DOMAIN w : TokensFrom(w, i + 1) < cfg.tail}

\* The `keep' newest assistant replies.
RecentAssistants(w, keep) ==
  {i \in DOMAIN w : /\ Classify(w[i]) = "AssistantReply"
                    /\ Cardinality({j \in i + 1 .. Len(w) :
                          Classify(w[j]) = "AssistantReply"}) < keep}

RecentAssistantPreserve(w, keep) ==
  IF RecentAssistants(w, keep) = {} THEN 0
  ELSE Len(w) + 1 - Min(RecentAssistants(w, keep))

\* Mutants: the protected tail, or the recent replies, are left out.
PreserveRecent_NoTail(w, cfg) ==
  Max({PreserveFloor, RecentAssistantPreserve(w, cfg.keepAssistant)})

PreserveRecent_NoReplies(w, cfg) ==
  Max({PreserveFloor, Cardinality(ProtectedTail(w, cfg))})

PreserveRecent(w, cfg) ==
  Max({PreserveFloor, Cardinality(ProtectedTail(w, cfg)),
       RecentAssistantPreserve(w, cfg.keepAssistant)})
-----------------------------------------------------------------------------
(* Step 1: agent rules.  `failed' holds the positions whose save fails. *)

\* Mutant: pinned results are cleared again.
Clearable_Pinned(w, i) == Classify(w[i]) = "ToolResultSuccess"

\* A pinned result is skipped before it is counted as a kept one.
Clearable(w, i) == Classify(w[i]) = "ToolResultSuccess" /\ ~w[i].pinned

ClearSet(w, cfg) ==
  {i \in DOMAIN w :
     /\ cfg.clearOld /\ cfg.hasStore
     /\ Clearable(w, i)
     /\ i \notin ProtectedTail(w, cfg)
     /\ Cardinality({j \in i + 1 .. Len(w) : Clearable(w, j)})
          >= cfg.keepTools}

ClearedMessage(m) == [m EXCEPT !.text = Stub(m.text), !.ccr = m.text]

AgentRules(w, cfg, failed) ==
  [i \in DOMAIN w |-> IF i \in ClearSet(w, cfg) \ failed
                      THEN ClearedMessage(w[i]) ELSE w[i]]

AgentSaves(w, cfg, failed) == {w[i].text : i \in ClearSet(w, cfg) \ failed}
-----------------------------------------------------------------------------
(* Steps 2 and 3: compress_conversation_history *)

\* Mutant: the band starts where it falls.
AlignBandStart_Off(w, b) == b

\* Back off a band start that lands on a tool result.
AlignBandStart(w, b) ==
  IF b >= Len(w) THEN b
  ELSE Max({c \in 0 .. b : c = 0 \/ w[c + 1].role # "tool"})

\* End the old band before the first pinned message in it.
ClampBeforePinned(w, b) == Min({c \in 0 .. b - 1 : w[c + 1].pinned} \cup {b})

BandStart(w, preserve, middle) ==
  LET recent == Len(w) - preserve
  IN  ClampBeforePinned(w, AlignBandStart(w,
        IF recent > middle THEN recent - middle ELSE 0))

\* summarise_turns: the first sentence of each turn, cut at the byte cap.
SummaryOf(old) ==
  LET shown  == IF Len(old) > SummaryCap THEN 1 .. SummaryCap ELSE DOMAIN old
      quoted == {i \in shown : Markers(old[i].text) # {}}
  IN  [src    |-> IF Len(old) > SummaryCap THEN "capped" ELSE "summary",
       quotes |-> UNION {Markers(old[i].text) : i \in quoted},
       first  |-> IF quoted = {} THEN None
                  ELSE FirstMarker(old[Min(quoted)].text),
       layers |-> <<>>]

\* Mutant: the summary takes the role of a tool result.
SummaryMessage_Tool(old) ==
  [role |-> "tool", err |-> FALSE, text |-> SummaryOf(old), ccr |-> None,
   pinned |-> FALSE, fin |-> FALSE, idx |-> 0]

SummaryMessage(old) ==
  [role |-> "system", err |-> FALSE, text |-> SummaryOf(old), ccr |-> None,
   pinned |-> FALSE, fin |-> FALSE, idx |-> 0]

\* Band 1: the first b messages become one summary, or go.
FoldOldBand(w, b, summarize) ==
  IF b = 0 THEN w
  ELSE (IF summarize THEN <<SummaryMessage(SubSeq(w, 1, b))>> ELSE <<>>)
         \o SubSeq(w, b + 1, Len(w))

\* Mutants: pinned messages are not put back; the id is that of the new text.
PipedMessage_Pinned(m, cfg, failed) ==
  IF failed \/ Piped(m.text) = m.text THEN m
  ELSE [m EXCEPT !.text = Piped(m.text),
                 !.ccr  = IF cfg.hasStore THEN m.text ELSE m.ccr]

PipedMessage_NewId(m, cfg, failed) ==
  IF m.pinned \/ failed \/ Piped(m.text) = m.text THEN m
  ELSE [m EXCEPT !.text = Piped(m.text),
                 !.ccr  = IF cfg.hasStore THEN Piped(m.text) ELSE m.ccr]

\* One message through the pipeline.  A failed save keeps the original; the
\* caller puts a pinned message back.
PipedMessage(m, cfg, failed) ==
  IF m.pinned \/ failed \/ Piped(m.text) = m.text THEN m
  ELSE [m EXCEPT !.text = Piped(m.text),
                 !.ccr  = IF cfg.hasStore THEN m.text ELSE m.ccr]

\* Band 2: everything but the newest `preserve' messages, summary included.
PipedBand(w, preserve) == {i \in DOMAIN w : i + preserve <= Len(w)}

PipeBand(w, cfg, preserve, failed) ==
  [i \in DOMAIN w |-> IF i \in PipedBand(w, preserve)
                      THEN PipedMessage(w[i], cfg, i \in failed) ELSE w[i]]

\* The compressors save every text they are given, changed, pinned or not.
PipeSaves(w, cfg, preserve, failed) ==
  IF cfg.hasStore THEN {w[i].text : i \in PipedBand(w, preserve) \ failed}
  ELSE {}

\* compress_conversation_history without its pipeline: the list band 2 runs on.
AfterOldBand(w, preserve, middle, summarize) ==
  IF Len(w) <= preserve THEN w
  ELSE FoldOldBand(w, BandStart(w, preserve, middle), summarize)
-----------------------------------------------------------------------------
(* Step 4: drop pair-safe groups (budget.rs) *)

\* Position i continues a run of tool results right after the assistant h.
FollowsCall(w, h, i) ==
  /\ h < i /\ w[h].role = "assistant"
  /\ \A j \in h + 1 .. i : w[j].role = "tool"

Heads(w) == {i \in DOMAIN w : \A h \in DOMAIN w : ~FollowsCall(w, h, i)}

Group(w, h) == {h} \cup {i \in DOMAIN w : FollowsCall(w, h, i)}

IsLatestUser(w, i) ==
  /\ Classify(w[i]) = "UserQuery"
  /\ \A j \in i + 1 .. Len(w) : Classify(w[j]) # "UserQuery"

\* Mutants: tool errors, or pinned messages, may be dropped.
MemberDroppable_Errors(w, cfg, i) ==
  /\ i \notin ProtectedTail(w, cfg)
  /\ Classify(w[i]) # "SystemInstruction"
  /\ ~IsLatestUser(w, i)
  /\ ~w[i].pinned

MemberDroppable_Pinned(w, cfg, i) ==
  /\ i \notin ProtectedTail(w, cfg)
  /\ Classify(w[i]) \notin {"SystemInstruction", "ToolResultError"}
  /\ ~IsLatestUser(w, i)

MemberDroppable(w, cfg, i) ==
  /\ i \notin ProtectedTail(w, cfg)
  /\ Classify(w[i]) \notin {"SystemInstruction", "ToolResultError"}
  /\ ~IsLatestUser(w, i)
  /\ ~w[i].pinned

DroppableHeads(w, cfg) ==
  {h \in Heads(w) : /\ \A i \in Group(w, h) : MemberDroppable(w, cfg, i)
                    /\ Len(w) >= DropFloor + Cardinality(Group(w, h))}

\* The loop goes on: over the limit, above the floor, a group to drop.
CanDrop(w, cfg) ==
  ~Fits(w, cfg) /\ Len(w) > DropFloor /\ DroppableHeads(w, cfg) # {}

\* The oldest droppable group, as the first and last of its positions.
DropRange(w, cfg) ==
  LET h == Min(DroppableHeads(w, cfg)) IN <<h, Max(Group(w, h))>>
-----------------------------------------------------------------------------
(* Fold records (compact.rs).  A fold id is `of', the CCR id, or without one
   the hash of the span `span'; `n' is the "#n" that makes it unique.  A fold
   covers the original positions first .. last; `at' is its replacement's
   position, 0 when there is none. *)

FoldKinds == {"Cleared", "Compressed", "Summarized", "Dropped"}

FoldId == [of : Text \cup {None}, span : Seq([role : Roles, text : Text]),
           n : Nat]

Fold == [id : FoldId, kind : FoldKinds, first : Nat, last : Nat, at : Nat,
         ccr : Text \cup {None}]

\* The CCR_ID metadata, or else the first marker in the text.
CcrIdOf(m) == IF m.ccr # None THEN m.ccr ELSE FirstMarker(m.text)

FoldRecord(kind, orig, first, last, at, ccr) ==
  LET span == [i \in 1 .. last + 1 - first |->
                 [role |-> orig[first + i - 1].role,
                  text |-> orig[first + i - 1].text]]
  IN  [id |-> [of |-> ccr, span |-> IF ccr = None THEN span ELSE <<>>,
               n |-> 1],
       kind |-> kind, first |-> first, last |-> last, at |-> at, ccr |-> ccr]

ClassifyReplacement(m) ==
  IF m.ccr # None /\ IsStub(m.text)             THEN "Cleared"
  ELSE IF m.text.src \in {"summary", "capped"} THEN "Summarized"
  ELSE "Compressed"

Untagged(m) == [m EXCEPT !.idx = 0]

ReplacementFolds(orig, final) ==
  {FoldRecord(ClassifyReplacement(final[j]), orig, final[j].idx, final[j].idx,
              j, CcrIdOf(final[j])) :
     j \in {k \in DOMAIN final : /\ final[k].idx # 0
                                 /\ Untagged(final[k]) # orig[final[k].idx]}}

Missing(orig, final) ==
  DOMAIN orig \ {final[j].idx : j \in DOMAIN final}

SummaryPositions(final) == {j \in DOMAIN final : final[j].idx = 0}

\* The first summary is taken to stand for the first run of missing messages.
SummarizedSpan(orig, final) ==
  LET missing == Missing(orig, final)
  IN  IF SummaryPositions(final) = {} THEN {}
      ELSE {i \in missing : Min(missing) .. i \subseteq missing}

SummaryFolds(orig, final) ==
  LET span == SummarizedSpan(orig, final)
      at   == Min(SummaryPositions(final))
  IN  IF span = {} THEN {}
      ELSE {FoldRecord("Summarized", orig, Min(span), Max(span), at,
                       CcrIdOf(final[at]))}

\* A dropped message's fold takes the CCR id its dropped form carried.
DroppedFolds(orig, final, dropped) ==
  {FoldRecord("Dropped", orig, i, i, 0,
     IF \E j \in DOMAIN dropped : dropped[j].idx = i
     THEN CcrIdOf(dropped[CHOOSE j \in DOMAIN dropped : dropped[j].idx = i])
     ELSE None) :
   i \in Missing(orig, final) \ SummarizedSpan(orig, final)}

\* Mutant: what the summary stands for is folded a second time, as dropped.
BuildFolds_Twice(orig, final, dropped) ==
  ReplacementFolds(orig, final) \cup SummaryFolds(orig, final) \cup
    {FoldRecord("Dropped", orig, i, i, 0, None) : i \in Missing(orig, final)}

BuildFolds(orig, final, dropped) ==
  ReplacementFolds(orig, final) \cup SummaryFolds(orig, final)
    \cup DroppedFolds(orig, final, dropped)
=============================================================================
