------------------------------ MODULE Orderings ------------------------------
(***************************************************************************)
(* Sorting and selecting, defined by counting instead of recursion, so     *)
(* that what they return can be proved for every input.                    *)
(***************************************************************************)
EXTENDS Integers, Sequences, FiniteSets

\* The elements of a finite set in a strict total order, a set of pairs: an
\* element's place is the number of elements before it, plus one.
Sorted(S, before) ==
  [n \in 1..Cardinality(S) |->
     CHOOSE x \in S : Cardinality({y \in S : <<y, x>> \in before}) = n - 1]

\* The numbers of a finite set, from the least to the greatest.
Increasing(S) == Sorted(S, {p \in S \X S : p[1] < p[2]})

\* The items of a sequence at some of its places, in their order.
Selected(s, places) ==
  LET kept == Increasing(places)
  IN [n \in 1..Cardinality(places) |-> s[kept[n]]]
=============================================================================
