------------------------------- MODULE Orders -------------------------------
(* What the sort calls of the tools and of the rules make of a set. Names    *)
(* and store paths are numbers, so that < is the order of their strings.    *)
EXTENDS Naturals, FiniteSets

\* The elements of a finite set of numbers, least first: the k-th has k - 1
\* below it.
InOrder(S) ==
  [k \in 1 .. Cardinality(S) |-> CHOOSE x \in S : Cardinality({y \in S : y < x}) = k - 1]
=============================================================================
