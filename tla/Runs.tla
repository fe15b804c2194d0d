-------------------------------- MODULE Runs --------------------------------
(***************************************************************************)
(* The maximal TRUE runs of a sequence of Booleans: what                   *)
(* frosty_analysis.signatures._runs promises to return.                    *)
(***************************************************************************)
EXTENDS Integers, Sequences

\* The samples a..b of s are TRUE, and the run is cut off by a FALSE sample
\* or by the end of s on either side.
IsRun(s, a, b) ==
  /\ a \in 1..Len(s) /\ b \in a..Len(s)
  /\ \A k \in a..b : s[k]
  /\ a > 1 => ~s[a - 1]
  /\ b < Len(s) => ~s[b + 1]

Runs(s) == {r \in (1..Len(s)) \X (1..Len(s)) : IsRun(s, r[1], r[2])}

=============================================================================
