---------------------------- MODULE SmartCrusher ----------------------------
(***************************************************************************)
(* What SmartCrusher leaves of a JSON value.  A value is                   *)
(*   [t |-> "str", str |-> name, len |-> n, err |-> b, hit |-> b],         *)
(*   [t |-> "num", num |-> n], [t |-> "bool"], [t |-> "null"],             *)
(*   [t |-> "arr", items |-> values], [t |-> "obj", fields |-> values]     *)
(* where err and hit tell that the text holds an error keyword, or a term  *)
(* of the focus hint.  A field stands for its value: keys are distinct.    *)
(* The marker record in which a sampled array ends is                      *)
(*   [t |-> "dropped", items |-> values], its id being what it stands for. *)
(* `k' is what compute_optimal_k answers for an array that it sizes.       *)
(***************************************************************************)
EXTENDS Positions, Integers, Sequences, FiniteSets, FiniteSetsExt, SequencesExt

CONSTANTS
  Passthrough,     \* the 8 items up to which an array is left alone
  MinItems,        \* min_items_to_analyze
  MinKept,         \* the 3 items that are always kept
  MaxItems,        \* max_items_after_crush
  FirstPercent,    \* first_fraction
  LastPercent,     \* last_fraction
  Variance,        \* variance_threshold
  Window,          \* the 5 items compared on both sides of a change point
  MinObject,       \* min_tokens_to_crush
  SmallField,      \* tokens of a field that is always kept
  MaxDepth,        \* MAX_DEPTH
  Nesting          \* the depth at which serde_json gives up parsing

ASSUME CrusherAssumption ==
  /\ {Passthrough, MinItems, MinKept, MaxItems, FirstPercent, LastPercent,
      Variance, Window, MinObject, SmallField, MaxDepth, Nesting} \subseteq Nat
  /\ 1 <= MinKept /\ MinKept <= MaxItems
  /\ FirstPercent + LastPercent <= 100

\* compute_optimal_k of n items, whatever their content.  (The knee of the
\* bigram curve, simhash and zlib only decide between these.)
OptimalK(n) == IF n <= Passthrough THEN {n} ELSE MinKept .. MaxItems

\* The one of them that an array of these items gets.
SizeOf(items, k) == IF k \in OptimalK(Len(items)) THEN k ELSE Len(items)
-----------------------------------------------------------------------------
\* A marker quotes an id and nothing of what it stands for.
Children(v) == IF v.t = "arr" THEN v.items ELSE IF v.t = "obj" THEN v.fields ELSE <<>>

\* The values directly in a value, less the records of an array unless all are
\* asked for.
Parts(v, all) == {c \in Range(Children(v)) : all \/ v.t # "arr" \/ c.t # "obj"}

\* A value and all that is in it, or that is in it through such parts.
Spread(v, all) ==
  LET reached[n \in 0 .. Nesting] ==
        IF n = 0 THEN {v}
        ELSE LET above == reached[n - 1]
             IN  above \cup UNION {Parts(w, all) : w \in above}
  IN  reached[Nesting]

Within(v) == Spread(v, TRUE)

Total(xs) ==
  LET total[n \in 0 .. Len(xs)] == IF n = 0 THEN 0 ELSE total[n - 1] + xs[n]
  IN  total[Len(xs)]

\* The serialized value holds an error keyword; matches the hint; its length.
HasError(v) == \E w \in Within(v) : w.t = "str" /\ w.err
Hits(v)     == \E w \in Within(v) : w.t = "str" /\ w.hit
Length(v) ==
  LET Own(w) == IF w.t = "str" THEN w.len ELSE 1
      read[n \in 0 .. Nesting] ==
        IF n = 0 THEN [level |-> <<v>>, length |-> Own(v)]
        ELSE LET above == read[n - 1]
                 level == FlattenSeq([i \in DOMAIN above.level |-> Children(above.level[i])])
             IN  [level  |-> level,
                  length |-> above.length + Total([i \in DOMAIN level |-> Own(level[i])])]
  IN  read[Nesting].length

\* round_ties_even of a percentage of k, at least 1.
Share(k, percent) ==
  LET down == (k * percent) \div 100
      rest == (k * percent) % 100
  IN  Max({1, IF rest > 50 \/ (rest = 50 /\ down % 2 = 1) THEN down + 1 ELSE down})

\* compute_k_split, as positions: how many items are kept at either end.
Ends(n, k) ==
  LET first == Min({Share(k, FirstPercent), k})
      last  == Min({Share(k, LastPercent), k - first})
  IN  {i \in 1 .. n : i <= first \/ i > n - last}

\* The positions at which the fill loop looks.
Strided(n, budget) ==
  LET stride == Max({1, (n - 1) \div (budget + 1)})
  IN  {i \in 1 .. n : (i - 1) % stride = 0}

\* Positions are added in order until `top' are kept, one for each value.
Fill(kept, n, k, top, value) ==
  LET budget == k - Cardinality(kept)
      tried  == Strided(n, budget)
      filled[i \in 0 .. n] ==
        IF i = 0 THEN kept
        ELSE LET acc == filled[i - 1]
             IN  IF \/ i \notin tried
                    \/ Cardinality(acc) >= top
                    \/ \E j \in acc : value[j] = value[i]
                 THEN acc ELSE acc \cup {i}
  IN  IF budget <= 0 THEN kept ELSE filled[n]

\* Positions more than Variance sample deviations off the mean.
Outliers(xs) ==
  LET n == Len(xs)
      Off(i) == n * xs[i] - Total(xs)
      spread == MapThenSumSet(LAMBDA i : Off(i) * Off(i), 1 .. n)
  IN  {i \in 1 .. n : Off(i) * Off(i) * (n - 1) > Variance * Variance * spread}

\* Positions where the mean of a window on either side differs that much.
ChangePoints(xs) ==
  LET n == Len(xs)
      Off(i) == n * xs[i] - Total(xs)
      spread == MapThenSumSet(LAMBDA i : Off(i) * Off(i), 1 .. n)
      Sum(a, b) == MapThenSumSet(LAMBDA i : xs[i], a .. b)
      Step(i) == n * (Sum(i, i + Window - 1) - Sum(i - Window, i - 1))
  IN  IF n <= 2 * Window \/ spread = 0 THEN {}
      ELSE {i \in (Window + 1) .. (n - Window) :
              Step(i) * Step(i) * (n - 1) > Variance * Variance * Window * Window * spread}
-----------------------------------------------------------------------------
(* Crushers: the positions they keep *)

\* Mutant: errors are looked for among the items that would be kept anyway.
CrushStrings_Late(items, k) ==
  IF Len(items) <= Passthrough THEN DOMAIN items
  ELSE Fill(Ends(Len(items), k), Len(items), k, k, [i \in DOMAIN items |-> i])

\* crush_string_array: errors, odd lengths, both ends, then new texts.
CrushStrings(items, k) ==
  LET n == Len(items)
      errors == {i \in 1 .. n : items[i].err}
      odd    == Outliers([i \in 1 .. n |-> items[i].len])
  IN  IF n <= Passthrough THEN 1 .. n
      ELSE Fill(errors \cup odd \cup Ends(n, k), n, k,
                k + Cardinality(errors) + Cardinality(odd),
                [i \in 1 .. n |-> items[i].str])

\* crush_number_array: outliers, change points, both ends, then a stride.
CrushNumbers(items, k) ==
  LET n == Len(items)
      xs == [i \in 1 .. n |-> items[i].num]
  IN  IF n <= Passthrough THEN 1 .. n
      ELSE Fill(Outliers(xs) \cup ChangePoints(xs) \cup Ends(n, k), n, k,
                k + Cardinality(Outliers(xs)), [i \in 1 .. n |-> i])

\* crush_object: fields that tell of an error, small ones, both ends, a stride.
CrushFields(fields, k) ==
  LET n == Len(fields)
      errors == {i \in 1 .. n : HasError(fields[i])}
      small  == {i \in 1 .. n : Length(fields[i]) <= SmallField}
      ends   == {i \in 1 .. n : \/ i <= Share(k, FirstPercent)
                                \/ i > n - Share(k, LastPercent)}
  IN  IF \/ n <= Passthrough
         \/ MapThenSumSet(LAMBDA i : Length(fields[i]), 1 .. n) < MinObject
         \/ k >= n
      THEN 1 .. n
      ELSE Fill(errors \cup small \cup ends, n, k, k + Cardinality(errors),
                [i \in 1 .. n |-> i])

\* Records by focus, then by length, then by position.
Better(a, b) ==
  \/ a.hits > b.hits
  \/ a.hits = b.hits /\ a.length > b.length
  \/ a.hits = b.hits /\ a.length = b.length /\ a.at < b.at

\* crush_dict_array: both ends and the best, which may be at the ends.
CrushRecords(items, k, hint) ==
  LET n == Len(items)
      first   == (k * FirstPercent) \div 100
      last    == (k * LastPercent) \div 100
      middle  == k - (first + last)
      records == {[at |-> i, length |-> Length(items[i]),
                   hits |-> IF hint /\ Hits(items[i]) THEN 1 ELSE 0] : i \in 1 .. n}
      best == {a \in records : Cardinality({b \in records : Better(b, a)}) < middle}
  IN  IF n <= k THEN 1 .. n
      ELSE {i \in 1 .. n : i <= first \/ i > n - last} \cup {a.at : a \in best}

OfType(items, t) == {i \in DOMAIN items : items[i].t = t}

\* Mutant: outliers alone are kept.
MixedNumbers_Outliers(items, k) == Outliers([i \in DOMAIN items |-> items[i].num])

\* The numbers of a mixed array: both ends and outliers.
MixedNumbers(items, k) ==
  LET n == Len(items)
  IN  Ends(n, k) \cup Outliers([i \in 1 .. n |-> items[i].num])

\* crush_mixed_array: every type by its own rule.  What is kept of a group is
\* found again by its value, so that equal values are kept together; numbers go
\* by position, and small groups and the other types stay whole.
CrushMixed(items, k, hint) ==
  LET Group(t) ==
        LET at    == InOrder(OfType(items, t))
            group == [i \in DOMAIN at |-> items[at[i]]]
            size  == SizeOf(group, k)
            kept  == CASE t = "obj" -> CrushRecords(group, size, hint)
                       [] t = "str" -> CrushStrings(group, size)
                       [] t = "num" -> MixedNumbers(group, size)
                       [] OTHER     -> DOMAIN group
        IN  {at[i] : i \in IF Len(group) < MinItems THEN DOMAIN group
                           ELSE IF t = "num" THEN kept
                           ELSE {j \in DOMAIN group : \E m \in kept : group[m] = group[j]}}
  IN  IF Len(items) <= Passthrough THEN DOMAIN items
      ELSE UNION {Group(t) : t \in {items[i].t : i \in DOMAIN items}}
-----------------------------------------------------------------------------
(* process_value: the value that is left, and the arrays to save *)

ArrayType(items) ==
  LET types == {items[i].t : i \in DOMAIN items}
  IN  IF Cardinality(types) = 1 THEN CHOOSE t \in types : TRUE
      ELSE IF types = {} THEN "empty" ELSE "mixed"

Values(results) == [i \in DOMAIN results |-> results[i].value]
Saves(results)  == FlattenSeq([i \in DOMAIN results |-> results[i].saves])

\* A sampled array of records ends in the marker of the whole array, if
\* markers are wanted; the array is to be saved under it.
ProcessRecords(v, k, hint, emit) ==
  LET size == SizeOf(v.items, k)
      kept == CrushRecords(v.items, size, hint)
  IN  IF kept = DOMAIN v.items \/ ~emit
      THEN [value |-> [v EXCEPT !.items = Sub(@, kept)], saves |-> <<>>]
      ELSE [value |-> [v EXCEPT !.items =
                         Append(Sub(@, kept), [t |-> "dropped", items |-> v.items])],
            saves |-> <<v.items>>]

\* The records of a mixed array are saved when they are sampled, but the
\* array gets no marker.
ProcessMixed(v, k, hint, emit) ==
  LET records == Sub(v.items, OfType(v.items, "obj"))
      size    == SizeOf(records, k)
      sampled == /\ emit /\ Len(v.items) > Passthrough /\ Len(records) >= MinItems
                 /\ CrushRecords(records, size, hint) # DOMAIN records
  IN  [value |-> [v EXCEPT !.items = Sub(@, CrushMixed(@, k, hint))],
       saves |-> IF sampled THEN <<records>> ELSE <<>>]

\* A value by its type; `results' are what its items or fields have become.
ProcessValue(v, results, k, hint, emit) ==
  LET plain   == [value |-> v, saves |-> <<>>]
      type    == ArrayType(v.items)
      sampled(kept) == [plain EXCEPT !.value.items = Sub(v.items, kept)]
      size    == SizeOf(v.items, k)
  IN  IF v.t = "arr" /\ Len(v.items) >= MinItems /\ type = "obj"
      THEN ProcessRecords(v, k, hint, emit)
      ELSE IF v.t = "arr" /\ Len(v.items) >= MinItems /\ type = "str"
      THEN sampled(CrushStrings(v.items, size))
      ELSE IF v.t = "arr" /\ Len(v.items) >= MinItems /\ type = "num"
      THEN sampled(CrushNumbers(v.items, size))
      ELSE IF v.t = "arr" /\ Len(v.items) >= MinItems /\ type = "mixed"
      THEN ProcessMixed(v, k, hint, emit)
      ELSE IF v.t = "arr"
      THEN [value |-> [v EXCEPT !.items = Values(results)], saves |-> Saves(results)]
      ELSE IF v.t = "obj"
      THEN LET fields == Values(results)
           IN  [value |-> [v EXCEPT !.fields =
                             IF Len(fields) < MinItems THEN fields
                             ELSE Sub(fields, CrushFields(fields, SizeOf(fields, k)))],
                saves |-> Saves(results)]
      ELSE plain

\* crush_with_options: process_value from the root, `left' levels deep.
Crush(v, k, hint, emit) ==
  LET processed[left \in 0 .. MaxDepth] ==
        [w \in Within(v) |->
           IF left = 0 THEN [value |-> w, saves |-> <<>>]
           ELSE ProcessValue(w, [i \in DOMAIN Children(w) |->
                                   processed[left - 1][Children(w)[i]]], k, hint, emit)]
  IN  processed[MaxDepth][v]
=============================================================================
