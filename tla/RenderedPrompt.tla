--------------------------- MODULE RenderedPrompt ---------------------------
(***************************************************************************)
(* A host that keeps a prompt of rich messages from turn to turn, has its  *)
(* breakpoints set and renders it for Anthropic.  Nothing is compacted     *)
(* here: what changes is what the host appends, and the trailing messages  *)
(* that it said change on every turn.                                      *)
(***************************************************************************)
EXTENDS AnthropicRender, CachePlan

CONSTANTS
  Alphabet,        \* the messages a host may push
  StableSuffixes,  \* the stable_suffix_messages it may configure
  MaxPrompt        \* bound: messages in the prompt

BlockKinds == {"text", "thinking", "image", "ref", "use", "result"}

ASSUME RenderedPromptAssumption ==
  /\ \A m \in Alphabet :
       /\ m = [role |-> m.role, blocks |-> m.blocks, cache |-> FALSE]
       /\ m.role \in {"system", "user", "assistant", "tool"}
       /\ IsSeq(m.blocks)
       /\ \A b \in Range(m.blocks) : b.kind \in BlockKinds
  /\ StableSuffixes \subseteq Nat \ {0}
  /\ MaxPrompt \in Nat

VARIABLES
  prompt,   \* the messages, annotated
  suffix,   \* stable_suffix_messages
  request,  \* what the prompt renders to
  flat      \* what its flattening renders to

vars == <<prompt, suffix, request, flat>>

Init ==
  /\ prompt = <<>>
  /\ suffix \in StableSuffixes
  /\ request = RenderRich(<<>>)
  /\ flat = RenderFlat(<<>>)

Issued(ms) ==
  UNION {IdsOf(ms[i].blocks, "use") : i \in DOMAIN ms}

Render(ms) ==
  /\ prompt' = ApplyCacheStrategy(ms, "anthropic", suffix)
  /\ request' = RenderRich(prompt')
  /\ flat' = RenderFlat(prompt')
  /\ UNCHANGED suffix

\* Providers never issue the id of a tool call twice.
Push(m) ==
  /\ Len(prompt) < MaxPrompt
  /\ Issued(prompt) \cap Issued(<<m>>) = {}
  /\ Render(Append(prompt, m))

\* The last message is one that changes on every turn.
Replace(m) ==
  /\ prompt # <<>>
  /\ m.role = Last(prompt).role
  /\ Issued(Front(prompt)) \cap Issued(<<m>>) = {}
  /\ Render(Append(Front(prompt), m))

Next == \E m \in Alphabet : Push(m) \/ Replace(m)

Spec == Init /\ [][Next]_vars
-----------------------------------------------------------------------------
\* Whatever a host pushes - dangling calls, late, repeated or orphan results,
\* messages without blocks - the request is one the Messages API accepts: turns
\* alternate, and native calls and results pair up (render_cache_control_rich).
RequestValid == Alternates(request) /\ Paired(request)

\* Message j answers a call of message i in the turn right after it.
AnswersNextTurn(i, j) ==
  LET between == {k \in i .. j : prompt[k].role # "system"}
  IN  /\ prompt[i].role = "assistant"
      /\ prompt[j].role \notin {"system", "assistant"}
      /\ \E s \in i .. j - 1 : \A k \in between :
           SideOf(prompt[k]) = "assistant" <=> k <= s

\* A call that the following turn answers stays native, wherever in that turn
\* its answer is: parallel results may come as messages of their own.
AnsweredCallsNative ==
  \A i, j \in DOMAIN prompt :
    i < j /\ AnswersNextTurn(i, j) =>
      IdsOf(prompt[i].blocks, "use") \cap IdsOf(prompt[j].blocks, "result")
        \subseteq UNION {Native(request.messages[k], "use") :
                          k \in DOMAIN request.messages}

\* The stable prefix ends in a turn with calls that only the volatile suffix
\* may answer.
AwaitsAnswers(ms) ==
  LET n == StablePrefixLen(ms, suffix)
  IN  \E i \in 1 .. n : /\ prompt[i].role = "assistant"
                        /\ IdsOf(prompt[i].blocks, "use") # {}
                        /\ \A j \in i .. n : prompt[j].role \in {"system", "assistant"}

SystemBehind(ms) ==
  \E i \in DOMAIN ms : i > StablePrefixLen(ms, suffix) /\ ms[i].role = "system"

\* What the breakpoints of a request cache is a prefix of the next request as
\* well, when the host appends messages or changes the volatile ones: a
\* breakpoint never comes to stand behind a volatile message.  System messages
\* among those are hoisted and change the prefix, and so may an answer to a
\* call that the stable prefix ends with.
CachedPrefixReused ==
  [][\/ AwaitsAnswers(prompt)
     \/ SystemBehind(prompt) \/ SystemBehind(prompt')
     \/ \E i \in DOMAIN prompt' : i > Len(prompt) /\ prompt'[i].role = "system"
     \/ /\ IsPrefix(CachedStream(request), Stream(request'))
        /\ IsPrefix(CachedStream(flat), Stream(flat'))]_vars
=============================================================================
