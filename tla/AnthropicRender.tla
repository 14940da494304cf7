-------------------------- MODULE AnthropicRender --------------------------
(***************************************************************************)
(* The Anthropic request that is rendered from a list of rich messages.    *)
(*                                                                         *)
(* A message is [role, blocks, cache]: text content is one text block, and *)
(* `cache' the CACHE_CONTROL annotation.  A block is [kind, id, err, text, *)
(* inner]: `text' is its payload, `id' the id of a call or of the call a   *)
(* result answers, `inner' the blocks nested in a result.                  *)
(*                                                                         *)
(* A rendered block is [type, id, body, cache].  What a block shows is the *)
(* sequence `body' of the nested payloads; the wording around them, such   *)
(* as "[tool_use NAME (ID)]", is left out.                                 *)
(***************************************************************************)
EXTENDS Positions, Naturals, Sequences, FiniteSets, SequencesExt

Sides == {"assistant", "user"}

\* System messages go to a field of their own; a tool message is a user turn.
SideOf(m) == IF m.role = "assistant" THEN "assistant" ELSE "user"

\* The messages that are not system messages, with their sides.
Turn(ms) ==
  LET turn == Sub(ms, {i \in DOMAIN ms : ms[i].role # "system"})
  IN  [i \in DOMAIN turn |-> [side   |-> SideOf(turn[i]),
                              blocks |-> turn[i].blocks,
                              cache  |-> turn[i].cache]]

\* Consecutive records of one side, as a sequence of sequences.
SideRuns(s) ==
  LET starts == InOrder({i \in DOMAIN s : i = 1 \/ s[i].side # s[i - 1].side})
  IN  [k \in DOMAIN starts |->
         SubSeq(s, starts[k],
                IF k = Len(starts) THEN Len(s) ELSE starts[k + 1] - 1)]

\* Mutant: any annotated message of a segment puts the breakpoint at its end.
Segments_AnyCache(ms) ==
  LET runs == SideRuns(Turn(ms))
  IN  [k \in DOMAIN runs |->
         [side   |-> runs[k][1].side,
          blocks |-> FlattenSeq([i \in DOMAIN runs[k] |-> runs[k][i].blocks]),
          cache  |-> \E i \in DOMAIN runs[k] : runs[k][i].cache]]

\* Pass 1: a segment is annotated if its last message is.
Segments(ms) ==
  LET runs == SideRuns(Turn(ms))
  IN  [k \in DOMAIN runs |->
         [side   |-> runs[k][1].side,
          blocks |-> FlattenSeq([i \in DOMAIN runs[k] |-> runs[k][i].blocks]),
          cache  |-> Last(runs[k]).cache]]

IdsOf(blocks, kind) ==
  {blocks[i].id : i \in {j \in DOMAIN blocks : blocks[j].kind = kind}}

\* The calls that segment k of segs may answer, the answers it may count on.
CallsBefore(segs, k) ==
  IF k > 1 THEN IdsOf(segs[k - 1].blocks, "use") ELSE {}

\* Mutant: only the first block of the next turn is looked at.
AnswersAfter_First(segs, k) ==
  IF k < Len(segs) /\ segs[k + 1].blocks # <<>>
  THEN IdsOf(<<segs[k + 1].blocks[1]>>, "result") ELSE {}

AnswersAfter(segs, k) ==
  IF k < Len(segs) THEN IdsOf(segs[k + 1].blocks, "result") ELSE {}
-----------------------------------------------------------------------------
(* Blocks *)

Part(type, text) == [type |-> type, text |-> text]

\* A result may nest text and images only.
RenderToolResultBlock(b) ==
  Part(IF b.kind = "image" THEN "image" ELSE "text", b.text)

Rendered(type, id, body) ==
  [type |-> type, id |-> id, body |-> body, cache |-> FALSE]

RenderBlock(b) ==
  CASE b.kind = "use"    -> Rendered("use", b.id, <<Part("input", b.text)>>)
    [] b.kind = "result" -> Rendered("result", b.id,
         [i \in DOMAIN b.inner |-> RenderToolResultBlock(b.inner[i])])
    [] b.kind = "image"  -> Rendered("image", b.id, <<Part("image", b.text)>>)
    [] OTHER             -> Rendered("text", b.id, <<Part("text", b.text)>>)

\* A call, or a result whose content is left out, as a line of text.
Linearized(b) == Rendered("text", b.id, <<>>)

\* A result as a line of text that shows the text nested in it.
ToolResultText(b) ==
  LET texts == Sub(b.inner, {i \in DOMAIN b.inner : b.inner[i].kind # "image"})
  IN  Rendered("text", b.id,
               [i \in DOMAIN texts |-> Part("text", texts[i].text)])

RenderSystemBlock(b) ==
  IF b.kind \in {"use", "result", "image"} THEN Linearized(b) ELSE RenderBlock(b)

\* A call is native only if the next turn answers it.
RenderAssistantSegment(blocks, answered) ==
  [i \in DOMAIN blocks |->
     IF \/ blocks[i].kind = "result"
        \/ blocks[i].kind = "use" /\ blocks[i].id \notin answered
     THEN Linearized(blocks[i]) ELSE RenderBlock(blocks[i])]

\* Mutant: the id stays pending when a result has answered it.
NativeResults_Twice(blocks, pending) ==
  {i \in DOMAIN blocks : blocks[i].kind = "result" /\ blocks[i].id \in pending}

\* The first answer to each pending call.
NativeResults(blocks, pending) ==
  {i \in DOMAIN blocks :
     /\ blocks[i].kind = "result" /\ blocks[i].id \in pending
     /\ \A j \in 1 .. i - 1 : ~(/\ blocks[j].kind = "result"
                                /\ blocks[j].id = blocks[i].id)}

\* Native results come first; what else there is follows, in order.
RenderUserSegment(blocks, pending) ==
  LET native == NativeResults(blocks, pending)
      results == Sub(blocks, native)
      others  == Sub(blocks, DOMAIN blocks \ native)
      other(b) == CASE b.kind = "result" -> ToolResultText(b)
                    [] b.kind = "use"    -> Linearized(b)
                    [] OTHER             -> RenderBlock(b)
  IN  [i \in DOMAIN results |-> RenderBlock(results[i])]
        \o [i \in DOMAIN others |-> other(others[i])]
-----------------------------------------------------------------------------
(* Requests *)

\* A breakpoint goes on the last block.
CacheLast(blocks, cache) ==
  IF cache THEN [blocks EXCEPT ![Len(blocks)].cache = TRUE] ELSE blocks

RenderSegment(segs, k) ==
  [side   |-> segs[k].side,
   blocks |-> IF segs[k].side = "assistant"
              THEN RenderAssistantSegment(segs[k].blocks, AnswersAfter(segs, k))
              ELSE RenderUserSegment(segs[k].blocks, CallsBefore(segs, k)),
   cache  |-> segs[k].cache]

\* Pass 2: segments that render to nothing are skipped, and push_turn merges
\* the turns of one side that then meet.
Turns(ms) ==
  LET segs == Segments(ms)
      all  == [k \in DOMAIN segs |-> RenderSegment(segs, k)]
      runs == SideRuns(Sub(all, {k \in DOMAIN all : all[k].blocks # <<>>}))
  IN  [k \in DOMAIN runs |->
         [side    |-> runs[k][1].side,
          content |-> FlattenSeq([i \in DOMAIN runs[k] |->
                        CacheLast(runs[k][i].blocks, runs[k][i].cache)])]]

System(ms) ==
  LET msgs == Sub(ms, {i \in DOMAIN ms : ms[i].role = "system" /\ ms[i].blocks # <<>>})
  IN  FlattenSeq([k \in DOMAIN msgs |->
        CacheLast([i \in DOMAIN msgs[k].blocks |->
                     RenderSystemBlock(msgs[k].blocks[i])], msgs[k].cache)])

\* render_cache_control_rich
RenderRich(ms) == [system |-> System(ms), messages |-> Turns(ms)]

\* render_cache_control: every message a turn of its own, with one text block,
\* the flattening of its blocks.
RenderFlat(ms) ==
  LET block(m) == [type |-> "text", id |-> "-", cache |-> m.cache,
                   body |-> [i \in DOMAIN m.blocks |-> Part("text", m.blocks[i])]]
      system   == Sub(ms, {i \in DOMAIN ms : ms[i].role = "system"})
      turns    == Sub(ms, {i \in DOMAIN ms : ms[i].role # "system"})
  IN  [system   |-> [i \in DOMAIN system |-> block(system[i])],
       messages |-> [i \in DOMAIN turns |->
                       [side |-> SideOf(turns[i]), content |-> <<block(turns[i])>>]]]
-----------------------------------------------------------------------------
(* What the Messages API asks of a request *)

Alternates(req) ==
  /\ \A k \in DOMAIN req.messages : req.messages[k].content # <<>>
  /\ \A k \in 2 .. Len(req.messages) :
       req.messages[k].side # req.messages[k - 1].side

\* The ids of a turn's native calls, or results.
Native(turn, type) ==
  {turn.content[i].id : i \in {j \in DOMAIN turn.content : turn.content[j].type = type}}

\* Native calls and results stand on their sides and answer one another, turn
\* by turn; a call is answered once; answers come before anything else.
Paired(req) ==
  \A k \in DOMAIN req.messages :
    LET turn    == req.messages[k]
        results == {i \in DOMAIN turn.content : turn.content[i].type = "result"}
    IN  /\ Native(turn, "use") \subseteq
             IF turn.side = "assistant" /\ k < Len(req.messages)
             THEN Native(req.messages[k + 1], "result") ELSE {}
        /\ Native(turn, "result") \subseteq
             IF turn.side = "user" /\ k > 1
             THEN Native(req.messages[k - 1], "use") ELSE {}
        /\ Cardinality(Native(turn, "result")) = Cardinality(results)
        /\ results = 1 .. Cardinality(results)

\* The blocks the provider reads, in order, without the annotations.
Stream(req) ==
  LET bare(b, side) == [side |-> side, type |-> b.type, id |-> b.id, body |-> b.body]
  IN  [i \in DOMAIN req.system |-> bare(req.system[i], "system")] \o
      FlattenSeq([k \in DOMAIN req.messages |->
        [i \in DOMAIN req.messages[k].content |->
           bare(req.messages[k].content[i], req.messages[k].side)]])

\* The part of the stream that ends with the last breakpoint.
CachedStream(req) ==
  LET marks  == [i \in DOMAIN req.system |-> req.system[i].cache] \o
                FlattenSeq([k \in DOMAIN req.messages |->
                  [i \in DOMAIN req.messages[k].content |->
                     req.messages[k].content[i].cache]])
      marked == {i \in DOMAIN marks : marks[i]}
  IN  IF marked = {} THEN <<>> ELSE SubSeq(Stream(req), 1, Max(marked))
=============================================================================
