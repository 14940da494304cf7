----------------------------- MODULE MCSession -----------------------------
(***************************************************************************)
(* A session over several turns: finalized stubs, retention, failing saves *)
(* and deletes, futures dropped in the middle of the cascade.              *)
(***************************************************************************)
EXTENDS Session

MCRaw == {"ask", "plan", "echo", "big", "note"}

\* "echo" is a reply that repeats the marker of a cleared "big".
MCPasses     == [r \in MCRaw |-> IF r \in {"plan", "big"} THEN 1 ELSE 0]
MCRawTokens  == [r \in MCRaw |-> IF r = "big" THEN 5 ELSE 3]
MCCompTokens == [r \in MCRaw |-> 2]
MCQuote      == [r \in MCRaw |-> IF r = "echo" THEN RawText("big") ELSE None]

User   == Pushed("user", "ask")
Call   == Pushed("assistant", "plan")
Echo   == Pushed("assistant", "echo")
Result == Pushed("tool", "big")
Note   == [Pushed("tool", "note") EXCEPT !.pinned = TRUE]

MCBatches == {<<User, Call, Result>>, <<Call, Note, Result>>, <<Echo, User>>}

Cfg(limit, keepTools, maxFin, evict) ==
  [limit |-> limit, keepTools |-> keepTools, clearOld |-> TRUE,
   keepAssistant |-> 0, tail |-> 0, hasStore |-> TRUE, maxFin |-> maxFin,
   evictOriginals |-> evict]

MCConfigs == {Cfg(None, 1, 1, TRUE), Cfg(None, 0, 0, TRUE),
              Cfg(13, 1, 1, TRUE), Cfg(13, 0, None, FALSE)}
=============================================================================
