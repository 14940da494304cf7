--------------------------- MODULE MCCompression ---------------------------
(***************************************************************************)
(* Small JSON values, logs, sources and texts, with the limits of the      *)
(* compressors scaled down so that every one of them is exceeded.          *)
(***************************************************************************)
EXTENDS Compression

NoMarks == [blank |-> FALSE, json |-> FALSE, lines |-> 9, headers |-> 0,
            changes |-> 0, doctype |-> FALSE, html |-> FALSE, head |-> FALSE,
            body |-> FALSE, structural |-> 0, search |-> 0, log |-> 0,
            errors |-> 0, code |-> 0]

Content(kind, body, canon, marks) ==
  [kind |-> kind, body |-> body, canon |-> canon, marks |-> marks]

Sequences(S, n) == [1 .. n -> S]
-----------------------------------------------------------------------------
Str(s, len, err, hit) == [t |-> "str", str |-> s, len |-> len, err |-> err, hit |-> hit]
Num(n)      == [t |-> "num", num |-> n]
Arr(items)  == [t |-> "arr", items |-> items]
Obj(fields) == [t |-> "obj", fields |-> fields]
Null        == [t |-> "null"]

Words  == {Str("a", 1, FALSE, FALSE), Str("b", 1, FALSE, FALSE),
           Str("long", 4, FALSE, FALSE), Str("failed", 2, TRUE, FALSE)}
Failed == Str("timeout", 1, TRUE, FALSE)
Record(s) == Obj(<<s>>)
Records == {Record(Str("a", 1, FALSE, FALSE)), Record(Failed),
            Record(Str("needle", 1, FALSE, TRUE))}
Sampled == Arr([i \in 1 .. 5 |-> Record(Str("a", i, FALSE, FALSE))])

Mixed == {Str("a", 1, FALSE, FALSE), Str("failed", 2, TRUE, FALSE), Num(0),
          Record(Failed), Arr(<<Failed>>)}

JsonBodies ==
  {Arr(s) : s \in Sequences(Words, 5)}
    \cup {Arr(s) : s \in Sequences({Num(0), Num(9)}, 6)}
    \cup {Arr(s) : s \in Sequences(Records, 5)}
    \cup {Arr(s) : s \in Sequences(Mixed, 5)}
    \cup {Arr(<<Obj(s)>>) :
            s \in Sequences({Sampled, Failed, Str("long", 4, FALSE, FALSE), Arr(<<Failed, Null>>)}, 5)}

JsonContents ==
  {Content("json", <<v>>, TRUE, [NoMarks EXCEPT !.json = TRUE]) : v \in JsonBodies}
-----------------------------------------------------------------------------
Line(level, starts, ends, summary, hit, like) ==
  [level |-> level, starts |-> starts, ends |-> ends, summary |-> summary,
   hit |-> hit, like |-> like]

LogLines == {Line("Error", "none", {"py"}, FALSE, FALSE, "e"),
             Line("Warn", "none", {"py"}, FALSE, FALSE, "w"),
             Line("Info", "none", {"py"}, FALSE, TRUE, "h"),
             Line("Unknown", "none", {}, FALSE, FALSE, "u"),
             Line("Unknown", "py", {}, FALSE, FALSE, "t"),
             Line("Unknown", "none", {"py"}, TRUE, FALSE, "s")}

Failure == Line("Fail", "none", {"py"}, FALSE, FALSE, "f")

LogContents ==
  {Content("log", s, FALSE, [NoMarks EXCEPT !.log = 9, !.errors = 1]) :
     s \in Sequences(LogLines, 5)
             \cup {<<Failure>> \o s \o <<Failure, Failure>> : s \in Sequences(LogLines, 3)}}
-----------------------------------------------------------------------------
Source(toks) == [toks |-> toks, structural |-> FALSE, hit |-> FALSE, long |-> TRUE]

SourceLines == {Source(<<"code">>), Source(<<>>), Source(<<"code", "open">>),
                Source(<<"open", "close", "code", "slash">>),
                Source(<<"close", "code">>), Source(<<"hash">>),
                Source(<<"code", "slash", "open">>),
                Source(<<"open", "close", "open">>),
                Source(<<"slash", "close", "code">>)}

CodeContents ==
  {Content("code", s, FALSE, [NoMarks EXCEPT !.headers = 1, !.changes = 2]) :
     s \in Sequences(SourceLines, 4)}
-----------------------------------------------------------------------------
Para(norm, long, hit) == [norm |-> norm, long |-> long, hit |-> hit]

Paras == {Para("x", FALSE, FALSE), Para("y", TRUE, FALSE), Para("z", FALSE, TRUE),
          Para("", FALSE, FALSE)}

TextContents ==
  {Content("text", s, FALSE, NoMarks) :
     s \in Sequences(Paras, 5)
             \cup {[i \in 1 .. 8 |-> Para("x", FALSE, FALSE)]}}
-----------------------------------------------------------------------------
\* A run over several messages, of which any save may fail.
Conversation ==
  <<Content("json", <<Arr(<<Obj(<<Sampled, Failed>>), Sampled>>)>>, FALSE,
            [NoMarks EXCEPT !.json = TRUE]),
    Content("text", [i \in 1 .. 8 |-> Para("x", FALSE, FALSE)], FALSE, NoMarks),
    Content("json", <<Sampled>>, TRUE, [NoMarks EXCEPT !.json = TRUE])>>

MCPrompts ==
  {<<c>> : c \in JsonContents \cup LogContents \cup CodeContents \cup TextContents}
    \cup {Conversation}

All == {"smart_crusher", "log_stripper", "ast_code", "semantic"}

MCConfigs ==
  {[reversible |-> TRUE, align |-> FALSE, hint |-> TRUE, registered |-> All],
   [reversible |-> TRUE, align |-> TRUE, hint |-> FALSE,
    registered |-> All \ {"semantic"}],
   [reversible |-> FALSE, align |-> FALSE, hint |-> FALSE, registered |-> All]}
=============================================================================
