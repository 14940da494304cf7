------------------------------ MODULE Semantic ------------------------------
(***************************************************************************)
(* What SemanticCompressor leaves of prose.  A paragraph is                *)
(* [norm, long, hit]: its text with whitespace collapsed ("" when blank),  *)
(* whether it is over 800 bytes, whether it matches the focus hint.        *)
(***************************************************************************)
EXTENDS Naturals, Sequences, FiniteSets, SequencesExt

\* What is left of paragraph `para': its text, cut or not, or, when `see' is
\* not 0, "[see paragraph SEE]".
Shown(para, cut)   == [para |-> para, see |-> 0, cut |-> cut]
Seen(para, see)    == [para |-> para, see |-> see, cut |-> FALSE]

\* Mutant: the reference counts the paragraphs of the text that came in.
FirstShown_Input(out, paras, i) ==
  SelectInSeq(SubSeq(paras, 1, i - 1), LAMBDA p : p.norm = paras[i].norm)

\* Where a paragraph was first shown.
FirstShown(out, paras, i) ==
  SelectInSeq(out, LAMBDA left : left.see = 0 /\ paras[left.para].norm = paras[i].norm)

\* compress_text_focused: repetitions become references, three at most; more
\* than five are counted in a last line (para 0).
CompressText(paras, hint) ==
  LET Step(acc, i) ==
        LET focus == hint /\ paras[i].hit
            first == FirstShown(acc.out, paras, i)
        IN  IF paras[i].norm = "" THEN acc
            ELSE IF ~focus /\ first # 0
            THEN [dups |-> acc.dups + 1,
                  out  |-> IF acc.dups < 3 THEN Append(acc.out, Seen(i, first)) ELSE acc.out]
            ELSE [acc EXCEPT !.out = Append(@, Shown(i, paras[i].long /\ ~focus))]
      text[n \in 0 .. Len(paras)] ==
        IF n = 0 THEN [dups |-> 0, out |-> <<>>] ELSE Step(text[n - 1], n)
      done == text[Len(paras)]
  IN  IF done.dups > 5 THEN Append(done.out, Shown(0, FALSE)) ELSE done.out
=============================================================================
