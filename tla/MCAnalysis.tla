----------------------------- MODULE MCAnalysis -----------------------------
(* Analysis for TLC.                                                        *)
EXTENDS Analysis

LogBounds == [compressor |-> 5, freezing |-> 5, condenser |-> 6,
              beater |-> 5, drip |-> 7, bursts |-> 3]
SegmentRows == [s \in HourSources |-> IF s = "knocking" THEN 36 ELSE 24]
LoggedSources == DOMAIN LogBounds

\* What is drawn each time: one end of a range, both in turn, or (of what the
\* knocking detector goes by) levels that are alike, far apart and uneven.
Ends == {<<0>>, <<100>>}
Turns == {<<0, 100>>, <<100, 0>>}
Levels == {<<0>>, <<0, 90, 90>>, <<0, 100>>, <<0, 0, 90>>, <<100, 0, 100>>}

SegmentDraws ==
  [s \in Sources |->
     CASE s = "healthy" -> {[Typical EXCEPT !.delta = <<100, 0>>, !.rms = r] : r \in Levels}
       [] s = "short_cycling" ->
            {[Typical EXCEPT !.delta = <<100, 0>>, !.rms = r] : r \in {<<0>>, <<0, 100>>}}
       [] s = "tcc_never_satisfied" ->
            {[Typical EXCEPT !.amps = a, !.rms = r] : a \in Ends, r \in Levels}
       [] s = "condenser_airflow" ->
            {[Typical EXCEPT !.delta = d, !.end = e] :
               d \in {<<0>>, <<20, 40>>} \union Turns, e \in Ends}
       [] s = "knocking" ->
            {[Typical EXCEPT !.rms = r, !.mult = m] :
               r \in {<<0>>, <<30, 70>>, <<0, 100, 100, 100, 100>>}, m \in {<<0>>, <<0, 100>>}}
       [] s = "belt_slip" ->
            {[Typical EXCEPT !.amps = <<0, 100>>, !.rms = r, !.mult = m] :
               r \in {<<0>>, <<0, 100>>, <<100, 50>>}, m \in Ends \union {<<0, 100>>}}
       [] s = "motor_degradation" ->
            {[Typical EXCEPT !.amps = a, !.end = e] :
               a \in {<<100>>, <<60, 20>>} \union Turns, e \in Ends}
       [] s = "seal_failure" ->
            {[Typical EXCEPT !.amps = a, !.end = e, !.blip = b] :
               a \in {<<50>>, <<0, 100>>}, e \in Ends, b \in {<<100>>, <<0, 100>>}}]
=============================================================================
