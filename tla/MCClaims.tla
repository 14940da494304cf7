------------------------------ MODULE MCClaims ------------------------------
(***************************************************************************)
(* Transcripts that an agent could produce, under the cascade's own floors *)
(* (4, 4, 4), on which the code departs from what its documents say.       *)
(***************************************************************************)
EXTENDS Session

MCRaw == {"ask", "plan", "wordy", "big", "big2", "boom", "sys"}

\* "wordy" repeats a paragraph three times: the first pass leaves two equal
\* "[see paragraph 1]" lines, and the second pass folds those.
MCPasses     == [r \in MCRaw |-> CASE r \in {"ask", "plan"} -> 0
                                   [] r = "wordy" -> 2
                                   [] OTHER       -> 1]
MCRawTokens  == [r \in MCRaw |-> CASE r = "ask" -> 2
                                   [] r = "big" -> 30
                                   [] r \in {"sys", "wordy"} -> 9
                                   [] OTHER     -> 3]
MCCompTokens == [r \in MCRaw |-> IF r = "big" THEN 20 ELSE 2]
MCQuote      == [r \in MCRaw |-> None]

Ask    == Pushed("user", "ask")
Plan   == Pushed("assistant", "plan")
Wordy  == Pushed("assistant", "wordy")
Result == Pushed("tool", "big")
System == Pushed("system", "sys")
Boom   == [Pushed("tool", "boom") EXCEPT !.err = TRUE]

\* The agent policy's defaults, but for the number of tool results kept.
Cfg(limit, keepTools, maxFin) ==
  [limit |-> limit, keepTools |-> keepTools, clearOld |-> TRUE,
   keepAssistant |-> 2, tail |-> 0, hasStore |-> TRUE, maxFin |-> maxFin,
   evictOriginals |-> maxFin # None]

\* A long system prompt, older than the four newest messages.
ProtectedBatches == {<<System, Ask, Plan, Boom, Plan, Ask>>}
ProtectedConfigs == {Cfg(15, 3, None)}

\* A result cleared in one turn, its call summarized in the next.
SplitBatches == {<<Ask, Plan, Result>>,
                 <<Ask, Plan, Ask, Plan, Ask, Plan, Ask, Plan>>}
SplitConfigs == {Cfg(24, 0, None)}

\* A result cleared, then dropped, right behind the turns just summarized.
AuditBatches == {<<Ask, Plan, Plan, Result, Ask, Plan, Ask, Plan, Ask, Plan>>}
AuditConfigs == {Cfg(17, 0, None)}

\* A reply that two steps of the same cascade rewrite.
TwiceBatches == {<<Ask, Wordy, Ask, Plan, Ask, Plan>>}
TwiceConfigs == {Cfg(12, 3, None)}

\* Two results: clearing the second one evicts the stub of the first.
GcBatches == {<<Ask, Plan, Result>>, <<Plan, Pushed("tool", "big2")>>}
GcConfigs == {Cfg(None, 0, 1)}
=============================================================================
