------------------------------- MODULE Samples -------------------------------
(***************************************************************************)
(* What the analysis package asks of pandas and numpy: elements chosen by  *)
(* their positions, groups in the order of their keys, medians.  A median  *)
(* is doubled, so that it stays an integer.                                *)
(***************************************************************************)
EXTENDS Integers, Sequences, FiniteSetsExt

Column(rows, col) == [k \in 1..Len(rows) |-> rows[k][col]]

\* The n-th of the numbers in a finite set, counted from below.
Nth(S, n) == CHOOSE x \in S : Cardinality({y \in S : y <= x}) = n

\* The numbers in a finite set, in order.
Ascending(S) == [n \in 1..Cardinality(S) |-> Nth(S, n)]

\* The samples of s at these positions, in order.
Where(s, at) == [n \in 1..Cardinality(at) |-> s[Nth(at, n)]]

\* The n-th of some values, counted from below and each as often as it occurs.
Ranked(values, n) ==
  CHOOSE v \in Range(values) :
    /\ Cardinality({k \in DOMAIN values : values[k] < v}) < n
    /\ n <= Cardinality({k \in DOMAIN values : values[k] <= v})

\* The value in the middle and itself, or the two values there.
Median2(values) ==
  LET n == Cardinality(DOMAIN values)
  IN Ranked(values, (n + 1) \div 2) + Ranked(values, n \div 2 + 1)

=============================================================================
