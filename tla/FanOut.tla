------------------------------- MODULE FanOut -------------------------------
(***************************************************************************)
(* The multi-sink tee that the storage writer promises (connectivity.md):  *)
(* records are given out in the order they were taken in, one at a time,   *)
(* each to every sink, in the order of the sinks.                          *)
(***************************************************************************)
EXTENDS Naturals, Sequences

CONSTANT Sinks   \* numbered in their order

VARIABLES log,   \* the records taken in
          seen   \* the records each sink was given

Init == log = <<>> /\ seen = [s \in Sinks |-> <<>>]

\* One more record, after all the others.
Log ==
  /\ Len(log') = Len(log) + 1 /\ \A k \in 1..Len(log) : log'[k] = log[k]
  /\ UNCHANGED seen

\* The sinks before s have one record more, those after it do not.
TurnOf(s) ==
  \A t \in Sinks : Len(seen[t]) = IF t < s THEN Len(seen[s]) + 1 ELSE Len(seen[s])

Give(s) ==
  /\ TurnOf(s) /\ Len(seen[s]) < Len(log)
  /\ seen' = [seen EXCEPT ![s] = Append(@, log[Len(@) + 1])]
  /\ UNCHANGED log

Next == Log \/ \E s \in Sinks : Give(s)

Spec == Init /\ [][Next]_<<log, seen>>
=============================================================================
