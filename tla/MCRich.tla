------------------------------- MODULE MCRich -------------------------------
(***************************************************************************)
(* A prompt of calls, results, failed results and images that is compacted *)
(* again and again, by saves that may fail.                                *)
(***************************************************************************)
EXTENDS Rich

MCRaw == {"ask", "note", "say", "log", "trace", "call", "report", "fail", "pic"}

\* "log" is table output that two passes still shrink.
MCPasses     == [r \in MCRaw |-> CASE r = "log" -> 2
                                   [] r \in {"note", "trace", "report"} -> 1
                                   [] OTHER -> 0]
MCRawTokens  == [r \in MCRaw |-> IF r \in {"report", "log"} THEN 5 ELSE 2]
MCCompTokens == [r \in MCRaw |-> IF r \in {"report", "log"} THEN 3 ELSE 1]
MCQuote      == [r \in MCRaw |-> None]

PushedRich(role, body) ==
  [role |-> role, body |-> body, ccr |-> None, pinned |-> FALSE, cache |-> FALSE]

Block(kind, id, text, inner, err) ==
  [kind |-> kind, id |-> id, text |-> text, inner |-> inner, err |-> err]
Words(t)   == Block("text", "-", t, <<>>, FALSE)
Picture(t) == Block("image", "-", t, <<>>, FALSE)
Result(id, t, err) == Block("result", id, "-", <<Words(t)>>, err)

\* Two images flatten to the same "[image: png]".
MCContents == {"call", "report", "fail", "pic1", "pic2"}
MCBlocksOf == [c \in MCContents |->
  CASE c = "call"   -> <<Words("say"), Block("use", "a", "input", <<>>, FALSE)>>
    [] c = "report" -> <<Result("a", "log", FALSE)>>
    [] c = "fail"   -> <<Words("note"), Result("a", "trace", TRUE)>>
    [] c = "pic1"   -> <<Picture("png1")>>
    [] c = "pic2"   -> <<Picture("png2")>>]
MCFlatOf == [c \in MCContents |-> IF c \in {"pic1", "pic2"} THEN "pic" ELSE c]
MCTrueTokens  == [c \in MCContents |-> IF c \in {"report", "pic1"} THEN 5 ELSE 2]
MCSavedTokens == [c \in MCContents |-> IF c = "report" THEN 2 ELSE 0]

User   == PushedRich("user", Plain(RawText("ask")))
Note   == PushedRich("user", Plain(RawText("note")))
Call   == PushedRich("assistant", Blocks("call", 0))
Report == PushedRich("tool", Blocks("report", 0))
Fail   == PushedRich("tool", Blocks("fail", 0))
Pic(c) == PushedRich("user", Blocks(c, 0))

MCBatches == {<<User, Call, Report>>, <<Call, Fail>>, <<Pic("pic1")>>,
              <<Pic("pic2"), Note>>, <<Call, Report>>}

Cascading(limit, keepTools, tail, hasStore) ==
  [limit |-> limit, keepTools |-> keepTools, clearOld |-> TRUE,
   keepAssistant |-> 1, tail |-> tail, hasStore |-> hasStore, maxFin |-> None,
   evictOriginals |-> FALSE]

Rewriting(reversible) ==
  [text |-> TRUE, results |-> TRUE, thinking |-> FALSE, reversible |-> reversible]

RichCfg(cascade, rich, cache) ==
  [cascade |-> cascade, rich |-> rich, cache |-> cache, suffix |-> 1, minimum |-> 4]

MCConfigs ==
  {RichCfg(Cascading(None, 1, 0, TRUE), Rewriting(TRUE), "openai"),
   RichCfg(Cascading(12, 1, 0, TRUE), Rewriting(TRUE), "openai"),
   RichCfg(Cascading(14, 0, 3, TRUE), Rewriting(TRUE), "anthropic"),
   RichCfg(Cascading(None, 1, 0, FALSE), Rewriting(FALSE), "none")}

PinnedBatches == {<<[Note EXCEPT !.pinned = TRUE], User>>}
PinnedConfigs == {RichCfg(Cascading(None, 3, 0, TRUE), Rewriting(TRUE), "none")}
=============================================================================
