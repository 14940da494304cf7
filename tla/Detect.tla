------------------------------- MODULE Detect -------------------------------
(***************************************************************************)
(* detect_content_type.  Of a content only `marks' matters here: whether   *)
(* it is blank, whether it parses as a JSON array, how many of its sampled *)
(* lines are not blank (lines), and how many of them match the patterns of *)
(* each detector.  Confidences are percentages.                            *)
(***************************************************************************)
EXTENDS Naturals, FiniteSets, FiniteSetsExt

LOCAL Cap(n, top) == IF n > top THEN top ELSE n

LooksJson(m) == m.json

DiffConfidence(m) ==
  IF m.headers = 0 THEN 0 ELSE Cap(50 + 20 * m.headers + 5 * m.changes, 100)

\* A document type, an <html> tag or three structural tags make it HTML at all.
HtmlConfidence(m) ==
  LET one(seen, worth) == IF seen THEN worth ELSE 0
      sum == one(m.doctype, 50) + one(m.html, 30) + one(m.head, 10) +
             one(m.body, 10) + Cap(3 * m.structural, 30)
  IN  IF ~m.doctype /\ ~m.html /\ m.structural < 3 THEN 0 ELSE Cap(sum, 100)

SearchConfidence(m) ==
  IF m.search = 0 \/ 10 * m.search < 3 * m.lines THEN 0
  ELSE Cap(40 + (60 * m.search) \div m.lines, 100)

LogConfidence(m) ==
  IF m.log = 0 \/ 10 * m.log < m.lines THEN 0
  ELSE Cap(30 + (50 * m.log) \div m.lines + 5 * m.errors, 100)

\* `code' is the score of the best language.
CodeConfidence(m) ==
  IF m.code < 3 THEN 0
  ELSE Cap(40 + (40 * m.code) \div Max({m.lines, 1}) + 2 * m.code, 100)

\* The first detector, in this order, that is sure enough.
DetectContentType(m) ==
  CASE m.blank -> "PlainText"
    [] ~m.blank /\ LooksJson(m) -> "JsonArray"
    [] OTHER ->
       IF DiffConfidence(m) >= 70        THEN "GitDiff"
       ELSE IF HtmlConfidence(m) >= 70   THEN "Html"
       ELSE IF SearchConfidence(m) >= 60 THEN "SearchResults"
       ELSE IF LogConfidence(m) >= 50    THEN "BuildOutput"
       ELSE IF CodeConfidence(m) >= 50   THEN "SourceCode"
       ELSE "PlainText"
=============================================================================
