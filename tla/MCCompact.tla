----------------------------- MODULE MCCompact -----------------------------
(***************************************************************************)
(* One compaction of every short transcript: the floors of the cascade are *)
(* scaled down (2, 1, 2 for 4, 4, 4) so that five messages reach every     *)
(* step.                                                                   *)
(***************************************************************************)
EXTENDS Session

CONSTANT MaxLen  \* bound: messages in a transcript

MCRaw == {"ask", "plan", "big", "boom", "sys"}

\* A long reply, tool output, error or system prompt shrinks in the pipeline.
MCPasses     == [r \in MCRaw |-> IF r = "ask" THEN 0 ELSE 1]
MCRawTokens  == [r \in MCRaw |-> IF r = "big" THEN 5
                                 ELSE IF r \in {"plan", "boom"} THEN 3 ELSE 2]
MCCompTokens == [r \in MCRaw |-> IF r = "big" THEN 3 ELSE 2]
MCQuote      == [r \in MCRaw |-> None]

Alphabet ==
  {Pushed("user", "ask"),
   [Pushed("assistant", "plan") EXCEPT !.pinned = TRUE],
   Pushed("assistant", "plan"), Pushed("tool", "big"),
   [Pushed("tool", "boom") EXCEPT !.err = TRUE], Pushed("system", "sys")}

\* A tool result comes right after a call or another result.
WellFormed(t) ==
  \A i \in DOMAIN t : t[i].role = "tool" =>
    i > 1 /\ t[i - 1].role \in {"assistant", "tool"}

MCBatches ==
  {t \in [1 .. MaxLen -> Alphabet] : WellFormed(t)}

Cfg(limit, keepTools, keepAssistant, tail) ==
  [limit |-> limit, keepTools |-> keepTools, clearOld |-> TRUE,
   keepAssistant |-> keepAssistant, tail |-> tail, hasStore |-> TRUE,
   maxFin |-> None, evictOriginals |-> FALSE]

MCConfigs == {Cfg(None, 1, 0, 4), Cfg(9, 1, 1, 0), Cfg(9, 0, 0, 5),
              [Cfg(8, 0, 2, 0) EXCEPT !.hasStore = FALSE]}
=============================================================================
