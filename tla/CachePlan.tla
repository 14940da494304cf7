----------------------------- MODULE CachePlan -----------------------------
(***************************************************************************)
(* Where a prompt's cache breakpoints go and what the cache plan says of   *)
(* its stable prefix.  A prompt is a sequence of records that have at      *)
(* least a `role' and a `cache' field; `suffix' is the number of trailing  *)
(* messages the host expects to change on every turn.                      *)
(***************************************************************************)
EXTENDS Naturals, Sequences, FiniteSets, FiniteSetsExt

Policies == {"none", "generic", "anthropic", "openai", "gemini"}

\* The policies whose provider identifies a prefix by its content.
ContentKeyed == {"generic", "openai", "gemini"}

StablePrefixLen(ms, suffix) == IF Len(ms) > suffix THEN Len(ms) - suffix ELSE 0

\* apply_cache_strategy, Anthropic: the last system message, and the last
\* message of the stable prefix when it comes after that one.
Breakpoints(ms, suffix) ==
  LET system   == {i \in DOMAIN ms : ms[i].role = "system"}
      first    == IF system = {} THEN {} ELSE {Max(system)}
      boundary == {i \in DOMAIN ms : /\ suffix > 0
                                     /\ i = StablePrefixLen(ms, suffix)
                                     /\ \A j \in first : i > j}
  IN  first \cup boundary

\* Annotations of an earlier compaction are removed before the new ones are
\* set, by every policy.
ApplyCacheStrategy(ms, policy, suffix) ==
  [i \in DOMAIN ms |->
     [ms[i] EXCEPT !.cache = policy = "anthropic" /\ i \in Breakpoints(ms, suffix)]]

\* What apply_cache_policy and recount_rich_cache_plan report of the stable
\* prefix: `tokens' is its size, `key' its content identity.
PlanOf(ms, policy, suffix, tokens, key, minimum) ==
  IF policy = "none"
  THEN [policy |-> policy, suffix |-> 0, annotated |-> {}, prefix |-> 0,
        tokens |-> 0, cacheable |-> FALSE, key |-> <<>>, short |-> FALSE]
  ELSE LET n == StablePrefixLen(ms, suffix)
       IN  [policy    |-> policy,
            suffix    |-> suffix,
            annotated |-> {i \in DOMAIN ms : ms[i].cache},
            prefix    |-> n,
            tokens    |-> tokens,
            cacheable |-> tokens >= minimum,
            key       |-> IF policy \in ContentKeyed /\ n > 0 THEN key ELSE <<>>,
            short     |-> suffix > 0 /\ n > 0 /\ tokens < minimum]
=============================================================================
