----------------------------- MODULE Positions -----------------------------
(* Sequences of anything, and what stands in them at a set of positions. *)
EXTENDS Naturals, Sequences, FiniteSets, Functions

IsSeq(s) == s \in Seq(Range(s))

\* The positions in their order.
InOrder(kept) ==
  [n \in 1 .. Cardinality(kept) |->
     CHOOSE i \in kept : Cardinality({j \in kept : j < i}) = n - 1]

\* The items at them.
Sub(items, kept) ==
  LET order == InOrder(kept)
  IN  [n \in DOMAIN order |-> items[order[n]]]
=============================================================================
