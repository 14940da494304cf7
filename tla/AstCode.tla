------------------------------ MODULE AstCode ------------------------------
(***************************************************************************)
(* What AstCodeCompressor leaves of source code.  A line is                *)
(* [toks, structural, hit, long]: its tokens in order ("code" for a        *)
(* stretch of code, "open" and "close" for the ends of a block comment,    *)
(* "slash" for // and "hash" for #; the text of a comment is no token),    *)
(* and what is_structural_line, the focus hint and the 120 bytes that an   *)
(* implementation line may have say of it.                                 *)
(***************************************************************************)
EXTENDS Naturals, Sequences, SequencesExt

Tokens == {"code", "open", "close", "slash", "hash"}

Find(toks, tok) == SelectInSeq(toks, LAMBDA x : x = tok)
Before(toks, i) == SubSeq(toks, 1, i - 1)
After(toks, i)  == SubSeq(toks, i + 1, Len(toks))

\* What is left of a line: `from' is its number, `cut' that it was truncated.
Left(n, toks, cut) == [from |-> n, toks |-> toks, cut |-> cut]

Emit(acc, n, toks) ==
  IF toks = <<>> THEN acc ELSE [acc EXCEPT !.out = Append(@, Left(n, toks, FALSE))]

\* Mutant: what follows the end of a block comment goes with it.
InComment_Rest(acc, n, toks) ==
  IF Find(toks, "close") = 0 THEN acc ELSE [acc EXCEPT !.inside = FALSE]

\* Inside a block comment everything goes, up to its end.
InComment(acc, n, toks) ==
  LET end == Find(toks, "close")
  IN  IF end = 0 THEN acc
      ELSE Emit([acc EXCEPT !.inside = FALSE], n, After(toks, end))

\* A line with a comment opener, wherever it stands.
AtOpener(acc, n, toks) ==
  LET start  == Find(toks, "open")
      after  == After(toks, start)
      end    == Find(after, "close")
      before == Emit(acc, n, Before(toks, start))
  IN  IF end = 0 THEN [before EXCEPT !.inside = TRUE]
      ELSE Emit(before, n, After(after, end))

\* The line without its line comment; # begins one only at the start.
CodePart(toks) ==
  IF Find(toks, "slash") # 0 THEN Before(toks, Find(toks, "slash"))
  ELSE IF Find(toks, "hash") = 1 THEN <<>> ELSE toks

AtLine(acc, n, line, hint) ==
  LET part == CodePart(line.toks)
  IN  IF part = <<>>
      THEN [acc EXCEPT !.blanks = @ + 1,
                       !.out = IF acc.blanks = 0 THEN Append(@, Left(n, <<>>, FALSE)) ELSE @]
      ELSE [acc EXCEPT !.blanks = 0,
                       !.out = Append(@, Left(n, part, /\ line.long /\ ~line.structural
                                                       /\ ~(hint /\ line.hit)))]

\* One more line.
AtNext(acc, n, line, hint) ==
  IF acc.inside THEN InComment(acc, n, line.toks)
  ELSE IF Find(line.toks, "open") # 0 THEN AtOpener(acc, n, line.toks)
  ELSE AtLine(acc, n, line, hint)

\* compress_code_focused
CompressCode(lines, hint) ==
  LET read[n \in 0 .. Len(lines)] ==
        IF n = 0 THEN [inside |-> FALSE, blanks |-> 0, out |-> <<>>]
        ELSE AtNext(read[n - 1], n, lines[n], hint)
      out  == read[Len(lines)].out
      last == SelectLastInSeq(out, LAMBDA left : left.toks # <<>>)
  IN  SubSeq(out, 1, last)
-----------------------------------------------------------------------------
(* The reference: a scanner that reads comments token by token. *)

Token(acc, tok) ==
  IF acc.inside THEN [acc EXCEPT !.inside = tok # "close", !.closed = @ \/ tok = "close"]
  ELSE IF acc.line THEN [acc EXCEPT !.hidden = @ \/ tok = "open"]
  ELSE IF tok = "open" THEN [acc EXCEPT !.inside = TRUE]
  ELSE IF tok = "slash" \/ (tok = "hash" /\ acc.first) THEN [acc EXCEPT !.line = TRUE]
  ELSE [acc EXCEPT !.code = @ \/ tok = "code", !.first = FALSE]

Tokenized(inside, hidden, toks) ==
  LET read[i \in 0 .. Len(toks)] ==
        IF i = 0 THEN [inside |-> inside, line |-> FALSE, first |-> TRUE, code |-> FALSE,
                       hidden |-> hidden, closed |-> FALSE]
        ELSE Token(read[i - 1], toks[i])
  IN  read[Len(toks)]

ScanLine(acc, n, toks) ==
  LET line == Tokenized(acc.inside, acc.hidden, toks)
  IN  [inside |-> line.inside, hidden |-> line.hidden \/ (line.closed /\ line.inside),
       code |-> IF line.code THEN acc.code \cup {n} ELSE acc.code]

\* The lines that hold code outside of comments; whether a comment is open after
\* the last; whether an opener was hidden: in a line comment, or behind the end
\* of another comment on its line.
Scan(lines) ==
  LET read[n \in 0 .. Len(lines)] ==
        IF n = 0 THEN [inside |-> FALSE, hidden |-> FALSE, code |-> {}]
        ELSE ScanLine(read[n - 1], n, lines[n].toks)
  IN  read[Len(lines)]
=============================================================================
