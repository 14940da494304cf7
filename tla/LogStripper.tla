---------------------------- MODULE LogStripper ----------------------------
(***************************************************************************)
(* Which lines of a log LogCompressor keeps.  A log is a sequence of lines *)
(* [level, starts, ends, summary, hit, like]: its level, the flavour of    *)
(* stack trace it would begin (or "none"), the flavours it would end,      *)
(* whether it is a summary line, whether it matches the focus hint, and    *)
(* what dedupe_similar compares warnings by.  Lines are told by their      *)
(* positions; scores are in hundredths.                                    *)
(***************************************************************************)
EXTENDS Naturals, Sequences, FiniteSets, FiniteSetsExt, Folds

CONSTANTS
  MinLines,      \* min_lines_for_ccr: shorter logs are left alone
  MaxErrors,     \* max_errors: errors kept, and fails kept
  MaxWarnings,   \* max_warnings
  MaxTraces,     \* max_stack_traces
  TraceLines,    \* stack_trace_max_lines
  ContextLines   \* error_context_lines

ASSUME LogAssumption ==
  /\ {MinLines, MaxWarnings, MaxTraces, TraceLines, ContextLines} \subseteq Nat
  /\ MaxErrors \in Nat \ {0, 1}

\* parse_lines: which lines belong to a stack trace.  A trace goes on until a
\* line ends it or it is full; that line may begin the next one.
StackLines(log) ==
  LET Step(n, acc) ==
        LET line  == log[n]
            going == /\ acc.flavor # "none"
                     /\ acc.count < TraceLines
                     /\ acc.flavor \notin line.ends
        IN  IF going
            THEN [acc EXCEPT !.count = @ + 1, !.lines = @ \cup {n}]
            ELSE IF line.starts # "none"
            THEN [flavor |-> line.starts, count |-> 1, lines |-> acc.lines \cup {n}]
            ELSE [acc EXCEPT !.flavor = "none", !.count = 0]
      parsed[n \in 0 .. Len(log)] ==
        IF n = 0 THEN [flavor |-> "none", count |-> 0, lines |-> {}]
        ELSE Step(n, parsed[n - 1])
  IN  parsed[Len(log)].lines

LevelScore == [Error |-> 100, Fail |-> 100, Warn |-> 50, Info |-> 10,
               Unknown |-> 10, Debug |-> 5, Trace |-> 2]

\* score_log_line
Scores(log) ==
  LET stack == StackLines(log)
  IN  [n \in DOMAIN log |->
         Min({100, LevelScore[log[n].level] + (IF n \in stack THEN 30 ELSE 0)
                     + (IF log[n].summary THEN 40 ELSE 0)})]

AtLevel(log, level) == {n \in DOMAIN log : log[n].level = level}

\* The `count' best of some lines, the earlier of two that score the same.
Best(lines, score, count) ==
  {n \in lines :
     Cardinality({m \in lines : \/ score[m] > score[n]
                                \/ score[m] = score[n] /\ m < n}) < count}

Earliest(lines, count) ==
  {n \in lines : Cardinality({m \in lines : m < n}) < count}

\* Mutant: the last one is not set aside.
SelectWithFirstLast_Head(lines, score) == Best(lines, score, MaxErrors)

\* select_with_first_last
SelectWithFirstLast(lines, score) ==
  IF Cardinality(lines) <= MaxErrors THEN lines
  ELSE LET ends == {Min(lines), Max(lines)}
       IN  ends \cup Best(lines \ ends, score, MaxErrors - 2)

\* dedupe_similar
DedupeSimilar(log, lines) ==
  {n \in lines : \A m \in lines : m < n => log[m].like # log[n].like}

\* The first lines of the first traces, a trace being an unbroken run.
KeptStacks(stack) ==
  LET begins == {n \in stack : n - 1 \notin stack}
      kept(b) == {n \in stack : /\ n >= b /\ n < b + TraceLines
                                /\ \A m \in begins : m > b => n < m}
  IN  UNION {kept(b) : b \in Earliest(begins, MaxTraces)}

Diagnostics(log) ==
  LET score == Scores(log)
  IN  SelectWithFirstLast(AtLevel(log, "Error"), score)
        \cup SelectWithFirstLast(AtLevel(log, "Fail"), score)
        \cup Earliest(DedupeSimilar(log, AtLevel(log, "Warn")), MaxWarnings)
        \cup KeptStacks(StackLines(log))
        \cup {n \in DOMAIN log : log[n].summary}

\* FOCUS_LINE_SCORE
FocusLineScore == 30

\* Mutant: a match outranks warnings.
FocusScores_High(log, hint) ==
  [n \in DOMAIN log |-> IF hint /\ log[n].hit THEN Max({Scores(log)[n], 60})
                        ELSE Scores(log)[n]]

\* The scores that the truncation goes by.
FocusScores(log, hint) ==
  [n \in DOMAIN log |-> IF hint /\ log[n].hit THEN Max({Scores(log)[n], FocusLineScore})
                        ELSE Scores(log)[n]]

Around(log, lines) ==
  {m \in DOMAIN log : \E n \in lines : m <= n + ContextLines /\ n <= m + ContextLines}

\* Diagnostics, focus matches, and the lines around them.
Candidates(log, hint) ==
  Around(log, Diagnostics(log) \cup {n \in DOMAIN log : hint /\ log[n].hit})

\* select_lines, for an adaptive maximum of k lines.
SelectLines(log, k, hint) ==
  LET lines == Candidates(log, hint)
  IN  IF Cardinality(lines) <= k THEN lines
      ELSE Best(lines, FocusScores(log, hint), k)

\* LogCompressor::compress_focused.  `omitted' is the note on what is missing;
\* with lines of one length, less than half of the text is less than half of
\* the lines.
CompressLog(log, k, hint) ==
  IF Len(log) < MinLines THEN [kept |-> DOMAIN log, omitted |-> 0, marker |-> FALSE]
  ELSE LET kept == SelectLines(log, k, hint)
       IN  [kept    |-> kept,
            omitted |-> IF \E n \in DOMAIN log :
                             log[n].level \in {"Error", "Fail", "Warn", "Info"}
                        THEN Len(log) - Cardinality(kept) ELSE 0,
            marker  |-> 2 * Cardinality(kept) < Len(log)]
=============================================================================
