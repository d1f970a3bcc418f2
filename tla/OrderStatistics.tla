----------------------------- MODULE OrderStatistics -----------------------------
(***************************************************************************)
(* What the backend and the SDK read from values that they sorted: the one *)
(* at an index.  sorted() itself is not modelled.                          *)
(***************************************************************************)
EXTENDS Integers, Sequences, FiniteSets

\* The value at an index, counted from 0, of the values sorted in ascending order.
AtIndex(values, i) ==
  CHOOSE x \in {values[j] : j \in DOMAIN values} :
    /\ Cardinality({j \in DOMAIN values : values[j] < x}) <= i
    /\ Cardinality({j \in DOMAIN values : values[j] <= x}) > i

=============================================================================
