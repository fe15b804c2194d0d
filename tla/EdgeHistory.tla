---------------------------- MODULE EdgeHistory ----------------------------
(***************************************************************************)
(* What the windowed monitors promise to keep (digital_input.h and         *)
(* leak_sensors.h: "history depth"): the times of the latest Depth edges,  *)
(* oldest first; a further edge pushes the oldest one out.                 *)
(***************************************************************************)
EXTENDS Naturals, Sequences

CONSTANTS Depth,   \* kMaxEdgesTracked, kMaxDropsTracked
          Times    \* what millis() can say

VARIABLE edges

Init == edges = <<>>

Remember(t) ==
  edges' = IF Len(edges) < Depth THEN Append(edges, t) ELSE Append(Tail(edges), t)

Next == \E t \in Times : Remember(t)

Spec == Init /\ [][Next]_edges
=============================================================================
