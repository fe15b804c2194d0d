----------------------------- MODULE FaultProofs -----------------------------
(***************************************************************************)
(* The theorem about the fault generators: each of the eight raises its    *)
(* own signature, unless what it draws masks it, and no other but those    *)
(* tolerated, whatever it draws for each window and each reading.  The     *)
(* windows of a segment are followed from the schedule to the rows, from   *)
(* the rows to the runs, days and trends the detectors see, and from those *)
(* to the verdicts.                                                        *)
(***************************************************************************)
EXTENDS AnalysisProofs

-----------------------------------------------------------------------------
(* The rows of a synthetic segment.                                        *)

\* What a window of a segment is.
LEMMA WindowsAre ==
  ASSUME source \in Sources, Tiling, NEW c \in 1..Len(windows)
  PROVE  /\ windows[c].run \in Nat /\ windows[c].rest \in Nat /\ windows[c].next \in Nat
         /\ windows[c].run < windows[c].rest /\ windows[c].rest <= windows[c].next
         /\ windows[c].next <= Total /\ Total \in Nat \ {0} /\ Len(windows) \in Nat
  <1>1. windows \in Seq(Windows)
    BY DEF Tiling
  <1>2. windows[c] \in Windows
    BY <1>1, ElementOfSeq
  <1> QED BY <1>2, TotalPositive, TiledIs DEF Windows, Tiling

\* What delta-T has fallen to when the segment of a blocked condenser ends.
Late == Uniform(15, 35, draw.end, 0)

\* What is drawn is in its range, whatever it is drawn for.
LEMMA DrawsAre ==
  ASSUME source \in Sources, draw \in Draws[source]
  PROVE  /\ \A c \in Nat : WindowDelta(c) \in Int /\ 80 <= WindowDelta(c) /\ WindowDelta(c) <= 120
         /\ \A c \in Nat : WindowAmps(c) \in Int /\ 80 <= WindowAmps(c) /\ WindowAmps(c) <= 520
         /\ \A c \in Nat : IF source = "belt_slip" THEN WindowAmps(c) <= 130
                           ELSE 250 <= WindowAmps(c)
         /\ \A t \in Nat : HealthyDrip(t) \in Int /\ 0 <= HealthyDrip(t) /\ HealthyDrip(t) <= 25
         /\ \A t \in Nat : t % 4 # 0 => HealthyDrip(t) = 0
         /\ Late \in Int /\ 15 <= Late /\ Late <= 35
  <1>1. Percents(draw.delta)
    BY DrawIs
  <1>6. Percents(draw.amps)
    BY DrawIs
  <1>7. Percents(draw.blip)
    BY DrawIs
  <1>8. Percents(draw.end)
    BY DrawIs
  <1>2. ASSUME NEW c \in Nat
        PROVE  WindowDelta(c) \in Int /\ 80 <= WindowDelta(c) /\ WindowDelta(c) <= 120
    <2> DEFINE x == Uniform(80, 120, draw.delta, c)
    <2>1. x \in Int /\ 80 <= x /\ x <= 120
      BY <1>1, UniformIn, SMTT(60)
    <2> QED BY <2>1 DEF WindowDelta
  <1>3. ASSUME NEW c \in Nat
        PROVE  /\ WindowAmps(c) \in Int /\ 80 <= WindowAmps(c) /\ WindowAmps(c) <= 520
               /\ IF source = "belt_slip" THEN WindowAmps(c) <= 130 ELSE 250 <= WindowAmps(c)
    <2> DEFINE x == Uniform(400, 520, draw.amps, c)
               y == Uniform(80, 130, draw.amps, c)
               z == Uniform(250, 350, draw.amps, c)
    <2>1. x \in Int /\ 400 <= x /\ x <= 520
      BY <1>6, UniformIn
    <2>2. y \in Int /\ 80 <= y /\ y <= 130
      BY <1>6, UniformIn
    <2>3. z \in Int /\ 250 <= z /\ z <= 350
      BY <1>6, UniformIn
    <2>4. WindowAmps(c) = IF source = "tcc_never_satisfied" THEN x
                          ELSE IF source = "belt_slip" THEN y ELSE z
      BY DEF WindowAmps
    <2> HIDE DEF x, y, z
    <2> QED BY <2>1, <2>2, <2>3, <2>4
  <1>4. ASSUME NEW t \in Nat
        PROVE  /\ HealthyDrip(t) \in Int /\ 0 <= HealthyDrip(t) /\ HealthyDrip(t) <= 25
               /\ t % 4 # 0 => HealthyDrip(t) = 0
    <2> DEFINE q == t \div 4
               x == Uniform(5, 25, draw.blip, q)
    <2>1. q \in Nat
      BY QuotientNatural
    <2>2. HealthyDrip(t) = IF t % 4 = 0 THEN x ELSE 0
      BY DEF HealthyDrip
    <2> HIDE DEF q
    <2>3. x \in Int /\ 5 <= x /\ x <= 25
      BY <1>7, <2>1, UniformIn
    <2> HIDE DEF x
    <2> QED BY <2>2, <2>3
  <1>5. Late \in Int /\ 15 <= Late /\ Late <= 35
    BY <1>8, UniformIn DEF Late
  <1> QED BY <1>2, <1>3, <1>4, <1>5

\* What row t of a segment holds.
RowIs(row, t) ==
  /\ row.ts = t * RowTime
  /\ row.cmd = (IF InRun(t) THEN 1 ELSE 0) /\ row.beater = row.cmd
  /\ row.tcc = IF InRun(t) /\ source \notin {"short_cycling", "tcc_never_satisfied"}
                  /\ TccPulse(t) THEN 1 ELSE 0
  /\ row.delta = IF ~InRun(t) THEN 0
                 ELSE IF source = "condenser_airflow"
                      THEN (WindowDelta(Cycle(t)) * (Total - (t + 1)) + Late * t) \div (Total - 1)
                      ELSE WindowDelta(Cycle(t))
  /\ row.amps = IF ~InRun(t) THEN 0
                ELSE IF source = "motor_degradation"
                     THEN WindowAmps(Cycle(t)) + DayOf(t) * PerDay
                     ELSE WindowAmps(Cycle(t))
  /\ row.drip = IF source = "seal_failure" THEN HealthyDrip(t) + DayOf(t) * PerDay
                ELSE HealthyDrip(t)

\* The rows before a fault is laid over them.
PlainRow(t, pulse) ==
  [ts |-> t * RowTime, cmd |-> IF InRun(t) THEN 1 ELSE 0, beater |-> IF InRun(t) THEN 1 ELSE 0,
   tcc |-> IF InRun(t) /\ pulse /\ TccPulse(t) THEN 1 ELSE 0,
   delta |-> IF InRun(t) THEN WindowDelta(Cycle(t)) ELSE 0,
   amps |-> IF InRun(t) THEN WindowAmps(Cycle(t)) ELSE 0,
   drip |-> HealthyDrip(t)]

LEMMA FilledIs ==
  ASSUME source \in Sources, Tiling, Tiled = Total, NEW pulse \in BOOLEAN
  PROVE  /\ Len(Filled(pulse)) = Total /\ Total \in Nat \ {0}
         /\ \A k \in 1..Total : Filled(pulse)[k] = PlainRow(k - 1, pulse)
  <1>1. Total \in Nat \ {0}
    BY TotalPositive
  <1>2. ASSUME NEW k \in 1..Total PROVE Filled(pulse)[k] = PlainRow(k - 1, pulse)
    <2> DEFINE t == k - 1
    <2>1. t \in Nat /\ t < Total
      BY <1>1
    <2>2. Filled(pulse)[k] = FillCycle(t, pulse)
      BY DEF Filled
    <2> HIDE DEF t
    <2>3. Running(t) <=> InRun(t)
      BY <2>1, CycleIs
    <2>4. CASE InRun(t)
      BY <2>2, <2>3, <2>4 DEF FillCycle, BaseRow, PlainRow, t
    <2>5. CASE ~InRun(t)
      BY <2>2, <2>3, <2>5 DEF FillCycle, BaseRow, PlainRow, t
    <2> QED BY <2>4, <2>5
  <1> QED BY <1>1, <1>2 DEF Filled

LEMMA MadeRows ==
  ASSUME source \in Sources, Tiling, Tiled = Total
  PROVE  /\ Len(Make.channels) = Total /\ Total \in Nat \ {0}
         /\ \A k \in 1..Total : RowIs(Make.channels[k], k - 1)
  <1> DEFINE T == Total
             F == Filled(TRUE)
             G == Filled(FALSE)
             M == Make.channels
  <1>1. /\ T \in Nat \ {0} /\ Len(F) = T /\ Len(G) = T
        /\ \A k \in 1..T : F[k] = PlainRow(k - 1, TRUE) /\ G[k] = PlainRow(k - 1, FALSE)
    BY FilledIs
  <1>2. source \in {"healthy", "knocking", "belt_slip"} => M = F
    BY DEF Make, MakeHealthy, MakeKnocking, MakeBeltSlip, Segment
  <1>3. source \in {"short_cycling", "tcc_never_satisfied"} => M = G
    BY DEF Make, MakeShortCycling, MakeTccNeverSatisfied, Segment
  <1>4. source = "condenser_airflow" =>
          M = [k \in 1..T |-> [F[k] EXCEPT !.delta =
                 IF F[k].cmd = 1 THEN (F[k].delta * (T - k) + Late * (k - 1)) \div (T - 1)
                 ELSE @]]
    BY DEF Make, MakeCondenserAirflow, Segment, Late
  <1>5. source = "motor_degradation" =>
          M = [k \in 1..T |-> [F[k] EXCEPT !.amps =
                 IF F[k].beater = 1 THEN @ + DayOf(k - 1) * PerDay ELSE @]]
    BY DEF Make, MakeMotorDegradation, Segment
  <1>6. source = "seal_failure" =>
          M = [k \in 1..T |-> [F[k] EXCEPT !.drip = @ + DayOf(k - 1) * PerDay]]
    BY DEF Make, MakeSealFailure, Segment
  <1> HIDE DEF T, F, G, M
  <1>7. CASE source \in {"healthy", "knocking", "belt_slip"}
    <2>1. \A k \in 1..T : RowIs(PlainRow(k - 1, TRUE), k - 1)
      BY <1>7 DEF PlainRow, RowIs
    <2> QED BY <1>1, <1>2, <1>7, <2>1 DEF M, T
  <1>8. CASE source \in {"short_cycling", "tcc_never_satisfied"}
    <2>1. \A k \in 1..T : RowIs(PlainRow(k - 1, FALSE), k - 1)
      BY <1>8 DEF PlainRow, RowIs
    <2> QED BY <1>1, <1>3, <1>8, <2>1 DEF M, T
  <1>9. CASE source = "condenser_airflow"
    <2>1. Len(M) = T
      BY <1>1, <1>4, <1>9
    <2>2. ASSUME NEW k \in 1..T PROVE RowIs(M[k], k - 1)
      <3> DEFINE w == (WindowDelta(Cycle(k - 1)) * (T - k) + Late * (k - 1)) \div (T - 1)
      <3>1. w = (WindowDelta(Cycle(k - 1)) * (Total - ((k - 1) + 1)) + Late * (k - 1))
                  \div (Total - 1)
        <4>1. T - k = Total - ((k - 1) + 1)
          BY <1>1 DEF T
        <4> QED BY <4>1 DEF T
      <3> HIDE DEF w
      <3>2. CASE InRun(k - 1)
        <4>1. F[k].cmd = 1 /\ F[k].delta = WindowDelta(Cycle(k - 1))
          BY <1>1, <3>2 DEF PlainRow
        <4>2. M[k] = [F[k] EXCEPT !.delta = w]
          BY <1>4, <1>9, <4>1 DEF w
        <4>3. M[k] = [PlainRow(k - 1, TRUE) EXCEPT !.delta = w]
          BY <1>1, <4>2
        <4> QED BY <1>9, <3>1, <3>2, <4>3 DEF RowIs, PlainRow
      <3>3. CASE ~InRun(k - 1)
        <4>1. F[k].cmd = 0
          BY <1>1, <3>3 DEF PlainRow
        <4>2. M[k] = [F[k] EXCEPT !.delta = @]
          BY <1>4, <1>9, <4>1
        <4>3. M[k] = PlainRow(k - 1, TRUE)
          BY <1>1, <4>2 DEF PlainRow
        <4> QED BY <1>9, <3>3, <4>3 DEF RowIs, PlainRow
      <3> QED BY <3>2, <3>3
    <2> QED BY <1>1, <2>1, <2>2 DEF M, T
  <1>10. CASE source = "motor_degradation"
    <2>1. Len(M) = T
      BY <1>1, <1>5, <1>10
    <2>2. ASSUME NEW k \in 1..T PROVE RowIs(M[k], k - 1)
      <3> DEFINE more == DayOf(k - 1) * PerDay
      <3>1. M[k] = [F[k] EXCEPT !.amps = IF F[k].beater = 1 THEN @ + more ELSE @]
        BY <1>5, <1>10
      <3> HIDE DEF more
      <3>2. CASE InRun(k - 1)
        <4>1. M[k] = [PlainRow(k - 1, TRUE) EXCEPT !.amps = WindowAmps(Cycle(k - 1)) + more]
          BY <1>1, <3>1, <3>2 DEF PlainRow
        <4> QED BY <1>10, <3>2, <4>1 DEF RowIs, PlainRow, more
      <3>3. CASE ~InRun(k - 1)
        <4>1. M[k] = PlainRow(k - 1, TRUE)
          BY <1>1, <3>1, <3>3 DEF PlainRow
        <4> QED BY <1>10, <3>3, <4>1 DEF RowIs, PlainRow
      <3> QED BY <3>2, <3>3
    <2> QED BY <1>1, <2>1, <2>2 DEF M, T
  <1>11. CASE source = "seal_failure"
    <2>1. Len(M) = T
      BY <1>1, <1>6, <1>11
    <2>2. ASSUME NEW k \in 1..T PROVE RowIs(M[k], k - 1)
      <3> DEFINE more == DayOf(k - 1) * PerDay
      <3>1. M[k] = [F[k] EXCEPT !.drip = @ + more]
        BY <1>6, <1>11
      <3> HIDE DEF more
      <3>2. M[k] = [PlainRow(k - 1, TRUE) EXCEPT !.drip = HealthyDrip(k - 1) + more]
        BY <1>1, <3>1 DEF PlainRow
      <3> QED BY <1>11, <3>2 DEF RowIs, PlainRow, more
    <2> QED BY <1>1, <2>1, <2>2 DEF M, T
  <1> QED BY <1>7, <1>8, <1>9, <1>10, <1>11 DEF Sources, HourSources, WeekSources

\* The rows of a segment are evenly spaced.
LEMMA MadeTimes ==
  ASSUME source \in Sources, Tiling, Tiled = Total
  PROVE  /\ RowTime \in {1, 2, 10} /\ Total >= 2
         /\ \A k \in 1..Total : Make.channels[k].ts = (k - 1) * RowTime
         /\ Period2(Make.channels) = 2 * RowTime
         /\ \A a, b \in 1..Total :
              Duration2(Make.channels, <<a, b>>) = 2 * RowTime * (b - a + 1)
  <1> DEFINE rows == Make.channels
             n == Total
             D == 1..(n - 1)
             f == [k \in D |-> rows[k + 1].ts - rows[k].ts]
             rt == RowTime
  <1>1. Len(rows) = n /\ n \in Nat \ {0} /\ \A k \in 1..n : rows[k].ts = (k - 1) * rt
    BY MadeRows DEF RowIs
  <1>2. rt \in {1, 2, 10}
    BY DEF RowTime
  <1>3. n >= 2
    <2>1. CASE source \in WeekSources
      <3> DEFINE q == Day \div 10
      <3>1. q \in Nat \ {0} /\ NDays \in Nat \ {0, 1} /\ Day % 10 = 0
        BY SegmentAssumption, DayAssumption
      <3>2. n = NDays * q
        BY <2>1 DEF Total
      <3> HIDE DEF q
      <3> QED BY <3>1, <3>2
    <2>2. CASE source \notin WeekSources
      BY <2>2, SegmentAssumption DEF Total, Sources
    <2> QED BY <2>1, <2>2
  <1> HIDE DEF rows, n, rt
  <1>4. IsFiniteSet(D) /\ D # {}
    <2> DEFINE m == n - 1
    <2>1. m \in Nat /\ 1 \in 1..m
      BY <1>1, <1>3
    <2> HIDE DEF m
    <2>2. IsFiniteSet(1..m) /\ 1..m # {}
      BY <2>1, PlacesFinite
    <2> QED BY <2>2 DEF m
  <1>5. \A k \in D : rows[k + 1].ts - rows[k].ts = rt
    <2> SUFFICES ASSUME NEW k \in D PROVE rows[k + 1].ts - rows[k].ts = rt
      OBVIOUS
    <2>1. k \in 1..n /\ k + 1 \in 1..n
      BY <1>1
    <2>2. rows[k].ts = (k - 1) * rt /\ rows[k + 1].ts = k * rt
      <3>1. rows[k + 1].ts = ((k + 1) - 1) * rt
        BY <1>1, <2>1
      <3>2. (k + 1) - 1 = k
        BY <2>1
      <3> QED BY <1>1, <2>1, <3>1, <3>2
    <2>3. k \in Int /\ k * rt - (k - 1) * rt = rt
      BY <1>2, <2>1
    <2> QED BY <2>2, <2>3
  <1>6. f = [k \in D |-> rt]
    BY <1>5
  <1>7. Period2(rows) = Median2(f)
    <2>1. Len(rows) = n /\ ~(n < 2)
      BY <1>1, <1>3
    <2> QED BY <2>1, Zenon DEF Period2
  <1> HIDE DEF f, D
  <1>8. f \in [D -> Int] /\ rt \in Int /\ \A k \in D : rt <= f[k] /\ f[k] <= rt
    <2>1. rt \in Int /\ rt <= rt
      BY <1>2
    <2>2. \A k \in D : f[k] = rt
      BY <1>6
    <2> QED BY <1>6, <2>1, <2>2
  <1>9. Median2(f) \in Int /\ 2 * rt <= Median2(f) /\ Median2(f) <= 2 * rt
    BY <1>4, <1>8, MedianBetween
  <1>10. Period2(rows) = 2 * rt
    BY <1>2, <1>7, <1>9
  <1>11. ASSUME NEW a \in 1..n, NEW b \in 1..n
         PROVE  Duration2(rows, <<a, b>>) = 2 * rt * (b - a + 1)
    <2>1. Duration2(rows, <<a, b>>) = 2 * (rows[b].ts - rows[a].ts) + 2 * rt
      BY <1>10 DEF Duration2
    <2>2. rows[b].ts = (b - 1) * rt /\ rows[a].ts = (a - 1) * rt
      BY <1>1
    <2>3. a \in Int /\ b \in Int
      BY <1>1
    <2>4. 2 * ((b - 1) * rt - (a - 1) * rt) + 2 * rt = 2 * rt * (b - a + 1)
      <3>1. CASE rt = 1
        BY <2>3, <3>1
      <3>2. CASE rt = 2
        BY <2>3, <3>2
      <3>3. CASE rt = 10
        BY <2>3, <3>3
      <3> QED BY <1>2, <3>1, <3>2, <3>3
    <2> QED BY <2>1, <2>2, <2>4
  <1> QED BY <1>1, <1>2, <1>3, <1>10, <1>11 DEF rows, n, rt

\* A run of the compressor column begins with a window and holds its run.
LEMMA MadeRun ==
  ASSUME source \in Sources, Tiling, Tiled = Total,
         NEW r \in Runs(BoolCol(Make.channels, "cmd"))
  PROVE  \E a \in 1..Total, b \in 1..Total :
           /\ r = <<a, b>> /\ a <= b
           /\ \A t \in (a - 1)..(b - 1) : InRun(t)
           /\ a > 1 => ~InRun(a - 2)
           /\ b < Total => ~InRun(b)
           /\ \E c \in 1..Len(windows) : windows[c].run = a - 1 /\ windows[c].rest <= b
  <1> DEFINE n == Total
             m == BoolCol(Make.channels, "cmd")
  <1>1. n \in Nat \ {0} /\ Len(m) = n /\ \A k \in 1..n : m[k] <=> InRun(k - 1)
    <2>1. /\ Len(Make.channels) = n /\ n \in Nat \ {0}
          /\ \A k \in 1..n : Make.channels[k].cmd = (IF InRun(k - 1) THEN 1 ELSE 0)
      BY MadeRows DEF RowIs
    <2>2. m = [k \in 1..n |-> Make.channels[k].cmd = 1]
      BY <2>1 DEF BoolCol
    <2> HIDE DEF n
    <2>3. Len(m) = n /\ \A k \in 1..n : m[k] <=> Make.channels[k].cmd = 1
      <3> HIDE DEF m
      <3>1. Len(m) = n
        BY <2>1, <2>2
      <3>2. \A k \in 1..n : m[k] = (Make.channels[k].cmd = 1)
        BY <2>2, Zenon
      <3> QED BY <3>1, <3>2, Zenon
    <2>4. \A k \in 1..n : Make.channels[k].cmd = 1 <=> InRun(k - 1)
      BY <2>1
    <2> HIDE DEF m, n
    <2> QED BY <2>1, <2>3, <2>4
  <1> HIDE DEF n, m
  <1>2. r \in Runs(m)
    BY DEF m
  <1>3. PICK a \in 1..n, b \in 1..n : r = <<a, b>> /\ IsRun(m, a, b)
    BY <1>1, <1>2 DEF Runs
  <1>4. /\ a <= b /\ \A k \in a..b : m[k]
        /\ a > 1 => ~m[a - 1]
        /\ b < n => ~m[b + 1]
    BY <1>1, <1>3 DEF IsRun
  <1>5. \A t \in (a - 1)..(b - 1) : InRun(t)
    <2> SUFFICES ASSUME NEW t \in (a - 1)..(b - 1) PROVE InRun(t)
      OBVIOUS
    <2> DEFINE k == t + 1
    <2>1. k \in a..b /\ k \in 1..n /\ k - 1 = t
      BY <1>1, <1>3
    <2> HIDE DEF k
    <2>2. m[k]
      BY <1>4, <2>1
    <2> QED BY <1>1, <2>1, <2>2
  <1>6. a > 1 => ~InRun(a - 2)
    <2> SUFFICES ASSUME a > 1 PROVE ~InRun(a - 2)
      OBVIOUS
    <2>1. a - 1 \in 1..n /\ (a - 1) - 1 = a - 2
      BY <1>1
    <2> QED BY <1>1, <1>4, <2>1
  <1>7. b < n => ~InRun(b)
    <2> SUFFICES ASSUME b < n PROVE ~InRun(b)
      OBVIOUS
    <2>1. b + 1 \in 1..n /\ (b + 1) - 1 = b
      BY <1>1
    <2> QED BY <1>1, <1>4, <2>1
  <1>8. PICK c \in 1..Len(windows) : windows[c].run <= a - 1 /\ a - 1 < windows[c].rest
    <2>1. a - 1 \in (a - 1)..(b - 1)
      BY <1>1, <1>4
    <2> QED BY <1>5, <2>1 DEF InRun
  <1>9. /\ windows[c].run \in Nat /\ windows[c].rest \in Nat /\ windows[c].next \in Nat
        /\ windows[c].rest <= windows[c].next /\ windows[c].next <= n
    BY WindowsAre DEF n
  <1>10. windows[c].run = a - 1
    <2> SUFFICES ASSUME windows[c].run < a - 1 PROVE FALSE
      BY <1>1, <1>8, <1>9, SMTT(60)
    <2>1. windows[c].run <= a - 2 /\ a - 2 < windows[c].rest /\ a > 1
      BY <1>1, <1>8, <1>9
    <2> QED BY <1>6, <2>1 DEF InRun
  <1>11. windows[c].rest <= b
    <2> SUFFICES ASSUME b < windows[c].rest PROVE FALSE
      BY <1>1, <1>9
    <2>1. windows[c].run <= b /\ b < n
      BY <1>1, <1>4, <1>9, <1>10
    <2> QED BY <1>7, <2>1 DEF InRun
  <1> QED BY <1>3, <1>4, <1>5, <1>6, <1>7, <1>10, <1>11 DEF n

\* A cluster is no smaller than the things at different instants of a span.
LEMMA ClusterOf ==
  ASSUME NEW D, IsFiniteSet(D), NEW times \in [D -> Int], NEW S, S = {times[u] : u \in D},
         NEW span \in Int, NEW c \in Nat, NEW t \in Int,
         NEW f, \A d \in 1..c : f[d] \in S /\ t <= f[d] /\ f[d] < t + span,
         \A d, e \in 1..c : d < e => f[d] # f[e]
  PROVE  c <= MaxCluster(times, span)
  <1> DEFINE In == {u \in D : t <= times[u] /\ times[u] < t + span}
             g == [d \in 1..c |-> CHOOSE u \in D : times[u] = f[d]]
             F == [d \in 1..c |-> {g[d]}]
             one == 1
  <1>1. IsFiniteSet(In) /\ Cardinality(In) \in Nat
    <2>1. In \subseteq D
      OBVIOUS
    <2> HIDE DEF In
    <2> QED BY <2>1, FS_Subset, FS_CardinalityType
  <1>2. ASSUME NEW d \in 1..c PROVE g[d] \in D /\ times[g[d]] = f[d]
    <2>1. \E u \in D : times[u] = f[d]
      OBVIOUS
    <2> QED BY <2>1
  <1>3. ASSUME NEW d \in 1..c PROVE F[d] \subseteq In /\ one <= Cardinality(F[d])
    <2>1. F[d] = {g[d]}
      OBVIOUS
    <2> HIDE DEF F, g
    <2>2. g[d] \in In
      BY <1>2
    <2>3. Cardinality({g[d]}) = 1
      BY FS_Singleton
    <2> QED BY <2>1, <2>2, <2>3
  <1>4. ASSUME NEW d \in 1..c, NEW e \in 1..c, d < e PROVE F[d] \intersect F[e] = {}
    <2>1. F[d] = {g[d]} /\ F[e] = {g[e]}
      OBVIOUS
    <2> HIDE DEF F, g
    <2>2. g[d] # g[e]
      BY <1>2, <1>4
    <2> QED BY <2>1, <2>2
  <1>5. MaxCluster(times, span) \in Int /\ Cardinality(In) <= MaxCluster(times, span)
    BY WindowMoves
  <1>6. one \in Nat
    OBVIOUS
  <1> HIDE DEF one, F, g, In
  <1>7. c * one <= Cardinality(In)
    BY <1>1, <1>3, <1>4, <1>6, PackedIn
  <1> QED BY <1>1, <1>5, <1>7 DEF one

\* The short runs of a segment and the instants at which they start.
LEMMA MadeShort ==
  ASSUME source \in Sources, Tiling, Tiled = Total
  PROVE  LET T == ShortRuns(Make.channels)
             times == [r \in T |-> Make.channels[r[1]].ts]
         IN /\ IsFiniteSet(T) /\ times \in [T -> Int]
            /\ ShortCluster(Make.channels) = MaxCluster(times, ShortCycleWindow)
            /\ \A r \in T : \E a, b \in 1..Total :
                 /\ <<a, b>> \in Runs(BoolCol(Make.channels, "cmd"))
                 /\ r = <<a, b>> /\ RowTime * (b - a + 1) < ShortCycleMaxRun
            /\ \A a, b \in 1..Total :
                 /\ <<a, b>> \in Runs(BoolCol(Make.channels, "cmd"))
                 /\ RowTime * (b - a + 1) < ShortCycleMaxRun
                 => (a - 1) * RowTime \in {times[r] : r \in T}
  <1> DEFINE rows == Make.channels
             n == Total
             rt == RowTime
             R == Runs(BoolCol(rows, "cmd"))
             T == ShortRuns(rows)
             f == [r \in T |-> rows[r[1]].ts]
             S == {f[r] : r \in T}
  <1>1. /\ n \in Nat \ {0} /\ rt \in {1, 2, 10}
        /\ \A k \in 1..n : rows[k].ts = (k - 1) * rt
        /\ \A a, b \in 1..n : Duration2(rows, <<a, b>>) = 2 * rt * (b - a + 1)
    BY MadeTimes, TotalPositive
  <1>2. ASSUME NEW r \in R PROVE \E a, b \in 1..n : r = <<a, b>>
    BY MadeRun
  <1>3. T = {r \in R : Duration2(rows, r) < 2 * ShortCycleMaxRun}
    BY DEF ShortRuns
  <1>5. ShortCluster(rows) = MaxCluster(f, ShortCycleWindow)
    BY DEF ShortCluster
  <1>6. ASSUME NEW a \in 1..n, NEW b \in 1..n
        PROVE  Duration2(rows, <<a, b>>) < 2 * ShortCycleMaxRun <=> rt * (b - a + 1) < ShortCycleMaxRun
    <2> HIDE DEF rows, n, rt
    <2>1. Duration2(rows, <<a, b>>) = 2 * rt * (b - a + 1)
      BY <1>1
    <2>2. a \in Int /\ b \in Int /\ ShortCycleMaxRun \in Int
      BY <1>1, ShortCycleAssumption
    <2>3. CASE rt = 1
      BY <2>1, <2>2, <2>3
    <2>4. CASE rt = 2
      BY <2>1, <2>2, <2>4
    <2>5. CASE rt = 10
      BY <2>1, <2>2, <2>5
    <2> QED BY <1>1, <2>3, <2>4, <2>5
  <1>7. T \subseteq (1..n) \X (1..n)
    BY <1>2, <1>3
  <1>8. IsFiniteSet(T)
    <2> DEFINE P == 1..n
               Q == P \X P
    <2>1. IsFiniteSet(P)
      <3> HIDE DEF n
      <3> QED BY <1>1, PlacesFinite
    <2> HIDE DEF P
    <2>2. IsFiniteSet(Q)
      BY <2>1, FS_Product
    <2> HIDE DEF Q, T
    <2> QED BY <1>7, <2>2, FS_Subset DEF P, Q
  <1>10. ASSUME NEW r \in T
         PROVE  \E a, b \in 1..n : <<a, b>> \in R /\ r = <<a, b>> /\ rt * (b - a + 1) < ShortCycleMaxRun
    <2>1. r \in R /\ Duration2(rows, r) < 2 * ShortCycleMaxRun
      BY <1>3
    <2> HIDE DEF R, T, rows, n, rt
    <2>2. PICK a \in 1..n, b \in 1..n : r = <<a, b>>
      BY <1>2, <2>1
    <2>3. rt * (b - a + 1) < ShortCycleMaxRun
      BY <1>6, <2>1, <2>2
    <2> QED BY <2>1, <2>2, <2>3
  <1>11. ASSUME NEW a \in 1..n, NEW b \in 1..n, <<a, b>> \in R, rt * (b - a + 1) < ShortCycleMaxRun
         PROVE  (a - 1) * rt \in S
    <2>1. <<a, b>> \in T
      BY <1>3, <1>6, <1>11
    <2>2. f[<<a, b>>] \in S /\ f[<<a, b>>] = rows[a].ts
      BY <2>1
    <2> QED BY <1>1, <2>2
  <1>12. f \in [T -> Int]
    <2>1. ASSUME NEW r \in T PROVE rows[r[1]].ts \in Int
      <3>1. PICK a \in 1..n, b \in 1..n : r = <<a, b>>
        BY <1>10
      <3>2. r[1] = a /\ rows[a].ts = (a - 1) * rt
        BY <1>1, <3>1
      <3> HIDE DEF n, rt, rows
      <3> QED BY <1>1, <3>2
    <2> QED BY <2>1
  <1> HIDE DEF S
  <1> QED BY <1>5, <1>8, <1>10, <1>11, <1>12 DEF rows, n, rt, R, S, T, f

\* A run that the end of the segment does not cut has the length drawn.
LEMMA MadeLong ==
  ASSUME source \in Sources, Tiling, Tiled = Total, NEW a \in 1..Total, NEW b \in 1..Total,
         <<a, b>> \in Runs(BoolCol(Make.channels, "cmd")), b < Total
  PROVE  \E run \in RunRange : run \in Nat /\ run <= b - a + 1 /\ 1 <= b - a + 1
  <1>1. PICK c \in 1..Len(windows) : windows[c].run = a - 1 /\ windows[c].rest <= b
    BY MadeRun
  <1>2. windows[c].rest \in Nat /\ Total \in Nat /\ windows[c].rest < Total
    BY <1>1, WindowsAre
  <1>3. PICK run \in RunRange : windows[c].rest = windows[c].run + Max({1, run})
    BY <1>2 DEF Tiling
  <1> DEFINE long == Max({1, run})
             one == 1
  <1>4. run \in Nat /\ run \in Int /\ one \in Int /\ one = 1
    BY RangesAre
  <1>5. long = IF one <= run THEN run ELSE one
    <2> HIDE DEF one
    <2>1. Max({one, run}) = IF one <= run THEN run ELSE one
      BY <1>4, OfTwo
    <2> QED BY <2>1 DEF one
  <1>6. long \in Nat /\ run <= long /\ 1 <= long
    BY <1>4, <1>5
  <1>7. windows[c].rest = (a - 1) + long
    BY <1>1, <1>3
  <1> HIDE DEF long
  <1>8. long <= b - a + 1
    <2> DEFINE rest == windows[c].rest
    <2>1. rest = (a - 1) + long /\ rest <= b /\ rest \in Nat
      BY <1>1, <1>2, <1>7
    <2> HIDE DEF rest
    <2> QED BY <1>2, <1>6, <2>1
  <1>9. b - a + 1 \in Int
    BY <1>2
  <1> QED BY <1>4, <1>6, <1>8, <1>9

\* Two runs that reach the end are the same.
LEMMA LastRun ==
  ASSUME source \in Sources, Tiling, Tiled = Total, NEW a \in 1..Total, NEW b \in 1..Total,
         <<a, Total>> \in Runs(BoolCol(Make.channels, "cmd")),
         <<b, Total>> \in Runs(BoolCol(Make.channels, "cmd"))
  PROVE  a = b
  <1>1. Total \in Nat \ {0}
    BY TotalPositive
  <1>2. ASSUME NEW c \in 1..Total, NEW d \in 1..Total, c < d,
               <<c, Total>> \in Runs(BoolCol(Make.channels, "cmd")),
               <<d, Total>> \in Runs(BoolCol(Make.channels, "cmd"))
        PROVE  FALSE
    <2>1. \A t \in (c - 1)..(Total - 1) : InRun(t)
      BY <1>2, MadeRun
    <2>2. d > 1 => ~InRun(d - 2)
      BY <1>2, MadeRun
    <2>3. d > 1 /\ d - 2 \in (c - 1)..(Total - 1)
      BY <1>1, <1>2
    <2> QED BY <2>1, <2>2, <2>3
  <1>3. ~(a < b) /\ ~(b < a)
    BY <1>2
  <1> QED BY <1>1, <1>3

\* Runs are long enough but in the segments of the short cycling.
LEMMA MadeNoShort ==
  ASSUME source \in Sources \ {"short_cycling"}, Tiling, Tiled = Total
  PROVE  DetectShortCycling(Make) = "none"
  <1> DEFINE rows == Make.channels
             n == Total
             rt == RowTime
             R == Runs(BoolCol(rows, "cmd"))
             S == ShortRuns(rows)
             times == [r \in S |-> rows[r[1]].ts]
             most == ShortCluster(rows)
  <1>1. n \in Nat \ {0} /\ rt \in {2, 10} /\ ShortCycleMaxRun \in Int
    BY TotalPositive, ShortCycleAssumption DEF RowTime
  <1>2. /\ IsFiniteSet(S) /\ times \in [S -> Int] /\ most = MaxCluster(times, ShortCycleWindow)
        /\ \A x \in S : \E a, b \in 1..n :
             <<a, b>> \in R /\ x = <<a, b>> /\ rt * (b - a + 1) < ShortCycleMaxRun
    BY MadeShort
  <1>3. ASSUME NEW a \in 1..n, NEW b \in 1..n, <<a, b>> \in R, rt * (b - a + 1) < ShortCycleMaxRun
        PROVE  b = n
    <2> SUFFICES ASSUME b < n PROVE FALSE
      BY <1>1
    <2>1. PICK run \in RunRange : run \in Nat /\ run <= b - a + 1 /\ 1 <= b - a + 1
      BY <1>3, MadeLong
    <2>2. a \in Int /\ b \in Int
      BY <1>1
    <2>3. CASE source \in WeekSources
      <3>1. rt = 10 /\ ShortCycleMaxRun <= 10
        BY <2>3, CyclesAssumption DEF RowTime
      <3> HIDE DEF rt, R
      <3> QED BY <1>1, <1>3, <2>1, <2>2, <3>1
    <2>4. CASE source \notin WeekSources
      <3>1. rt = 2 /\ RunRange = RunHealthy
        BY <2>4 DEF RowTime, RunRange
      <3>2. ShortCycleMaxRun <= 2 * run
        BY <3>1, CyclesAssumption
      <3> HIDE DEF rt, R
      <3> QED BY <1>1, <1>3, <2>1, <2>2, <3>1, <3>2
    <2> QED BY <2>3, <2>4
  <1>4. \A x, y \in S : x = y
    <2> SUFFICES ASSUME NEW x \in S, NEW y \in S PROVE x = y
      OBVIOUS
    <2>1. PICK a \in 1..n, b \in 1..n :
             <<a, b>> \in R /\ x = <<a, b>> /\ rt * (b - a + 1) < ShortCycleMaxRun
      BY <1>2
    <2>2. PICK c \in 1..n, d \in 1..n :
             <<c, d>> \in R /\ y = <<c, d>> /\ rt * (d - c + 1) < ShortCycleMaxRun
      BY <1>2
    <2>3. b = n /\ d = n
      BY <1>3, <2>1, <2>2
    <2>4. a = c
      BY <2>1, <2>2, <2>3, LastRun
    <2> QED BY <2>1, <2>2, <2>3, <2>4
  <1>5. ShortCycleWindow \in Int /\ ShortCycleMinCount \in Nat /\ ShortCycleMinCount >= 2
    BY ShortCycleAssumption, StoryAssumption
  <1>6. DetectShortCycling(Make) = Result(most >= ShortCycleMinCount, most >= 2 * ShortCycleMinCount)
    BY DEF DetectShortCycling
  <1> HIDE DEF S, times, most
  <1>7. most \in Int /\ most <= 1
    BY <1>2, <1>4, <1>5, WindowMoves
  <1>8. ~(most >= ShortCycleMinCount)
    BY <1>5, <1>7
  <1> QED BY <1>6, <1>8 DEF Result

\* Every window is as long as what was drawn for it, that of the one long run
\* as long as the segment.
Drawn ==
  source \in Sources =>
    IF source = "tcc_never_satisfied" THEN windows = <<Window(0, Total, 0)>>
    ELSE \A k \in 1..Len(windows) : \E run \in RunRange, hold \in HoldRange :
           windows[k] = Window(windows[k].run, run, hold)

\* The ends of a window from what was drawn for it.
LEMMA DrawnWindow ==
  ASSUME source \in Sources \ {"tcc_never_satisfied"}, Tiling, Drawn, NEW k \in 1..Len(windows)
  PROVE  \E run \in RunRange, hold \in HoldRange, long \in Nat \ {0} :
           /\ run \in Nat /\ hold \in Nat
           /\ long = Max({1, run}) /\ long = IF 1 <= run THEN run ELSE 1
           /\ windows[k].rest = IF windows[k].run + long <= Total THEN windows[k].run + long
                                ELSE Total
           /\ windows[k].next = IF windows[k].rest + hold <= Total THEN windows[k].rest + hold
                                ELSE Total
  <1>1. PICK run \in RunRange, hold \in HoldRange : windows[k] = Window(windows[k].run, run, hold)
    BY DEF Drawn
  <1> DEFINE T == Total
             t == windows[k].run
             one == 1
             long == Max({1, run})
             x == t + long
             rest == Min({x, T})
             y == rest + hold
             next == Min({y, T})
  <1>2. /\ run \in Nat /\ run \in Int /\ hold \in Nat /\ T \in Int /\ t \in Nat
        /\ one \in Int /\ one = 1
    BY RangesAre, WindowsAre
  <1>3. windows[k] = [run |-> t, rest |-> rest, next |-> next]
    BY <1>1 DEF Window
  <1>4. windows[k].rest = rest /\ windows[k].next = next
    <2> HIDE DEF t, rest, next
    <2> QED BY <1>3
  <1> HIDE DEF T, t
  <1>5. long = IF 1 <= run THEN run ELSE 1
    <2> HIDE DEF one
    <2>1. Max({one, run}) = IF one <= run THEN run ELSE one
      BY <1>2, OfTwo
    <2> QED BY <2>1 DEF one
  <1>6. long \in Nat \ {0} /\ x \in Int
    BY <1>2, <1>5
  <1> HIDE DEF x
  <1>7. rest = IF x <= T THEN x ELSE T
    BY <1>2, <1>6, OfTwo
  <1>8. y \in Int
    BY <1>2, <1>6, <1>7
  <1> HIDE DEF rest, y
  <1>9. next = IF y <= T THEN y ELSE T
    BY <1>2, <1>8, OfTwo
  <1> HIDE DEF next, long
  <1> QED BY <1>2, <1>4, <1>5, <1>6, <1>7, <1>9 DEF x, y, T, t, long

\* The first window begins with the segment.
LEMMA FirstWindow ==
  ASSUME source \in Sources, Tiling, Tiled = Total
  PROVE  1 \in 1..Len(windows) /\ windows[1].run = 0
  <1>1. 1 \in 1..Len(windows)
    BY TiledIs, TotalPositive
  <1> QED BY <1>1 DEF Tiling

\* Behind a window that ends before the segment comes the next one.
LEMMA NextWindow ==
  ASSUME source \in Sources, Tiling, Tiled = Total, NEW k \in 1..Len(windows),
         windows[k].next < Total
  PROVE  k + 1 \in 1..Len(windows) /\ windows[k + 1].run = windows[k].next
  <1>1. /\ Len(windows) \in Nat /\ Total \in Nat
        /\ Total = IF Len(windows) = 0 THEN 0 ELSE windows[Len(windows)].next
    BY TiledIs, TotalPositive
  <1>2. k # Len(windows) /\ windows[k].next \in Nat
    BY <1>1, WindowsAre
  <1>3. k + 1 \in 1..Len(windows) /\ (k + 1) - 1 = k /\ k + 1 # 1
    BY <1>1, <1>2
  <1>4. windows[k + 1].run = windows[(k + 1) - 1].next
    BY <1>3 DEF Tiling
  <1> QED BY <1>3, <1>4

\* Where the windows after the first begin at the latest.
LEMMA WindowsReach ==
  ASSUME source \in Sources \ {"tcc_never_satisfied"}, Tiling, Drawn, Tiled = Total,
         NEW long \in Nat, \A run \in RunRange, hold \in HoldRange : Max({1, run}) + hold <= long,
         NEW c \in Nat, c * long < Total
  PROVE  \A j \in 0..c : j + 1 \in 1..Len(windows) /\ windows[j + 1].run <= j * long
  <1> DEFINE Reached(j) == j + 1 \in 1..Len(windows) /\ windows[j + 1].run <= j * long
             T == {j \in Nat : j <= c => Reached(j)}
  <1>1. 0 \in T
    BY FirstWindow
  <1>2. ASSUME NEW j \in Nat, j \in T PROVE j + 1 \in T
    <2> SUFFICES ASSUME j + 1 <= c PROVE Reached(j + 1)
      OBVIOUS
    <2> DEFINE k == j + 1
    <2>1. k \in 1..Len(windows) /\ windows[k].run <= j * long /\ k \in Nat
      BY <1>2
    <2> HIDE DEF k
    <2>2. PICK run \in RunRange, hold \in HoldRange, l \in Nat \ {0} :
             /\ run \in Nat /\ hold \in Nat /\ l = Max({1, run})
             /\ windows[k].rest = IF windows[k].run + l <= Total THEN windows[k].run + l ELSE Total
             /\ windows[k].next = IF windows[k].rest + hold <= Total THEN windows[k].rest + hold
                                  ELSE Total
      BY <2>1, DrawnWindow
    <2>3. l + hold <= long
      BY <2>2
    <2>4. windows[k].run \in Nat /\ Total \in Nat
      BY <2>1, WindowsAre
    <2>5. windows[k].next <= windows[k].run + l + hold
      <3> DEFINE u == windows[k].run
                 v == windows[k].rest
                 w == windows[k].next
      <3>1. /\ u \in Nat /\ v = IF u + l <= Total THEN u + l ELSE Total
            /\ w = IF v + hold <= Total THEN v + hold ELSE Total
        BY <2>2, <2>4
      <3> HIDE DEF u, v, w
      <3>2. w <= u + l + hold
        BY <2>2, <2>4, <3>1
      <3> QED BY <3>2 DEF u, w
    <2>6. windows[k].next <= (j + 1) * long /\ (j + 1) * long <= c * long
      <3> DEFINE u == windows[k].run
                 w == windows[k].next
                 p == j * long
                 m == j + 1
      <3>1. /\ u <= p /\ u \in Nat /\ w <= u + l + hold /\ p \in Nat
            /\ (j + 1) * long = p + long /\ w \in Nat
        BY <2>1, <2>4, <2>5, WindowsAre
      <3>2. (j + 1) * long <= c * long
        <4>1. long * m <= long * c
          <5>1. m \in Int /\ c \in Int /\ m <= c
            OBVIOUS
          <5> HIDE DEF m
          <5> QED BY <5>1, ProductGrows
        <4>2. long * m = (j + 1) * long /\ long * c = c * long
          OBVIOUS
        <4> QED BY <4>1, <4>2
      <3> HIDE DEF u, w, p
      <3>3. w <= p + long
        BY <2>2, <2>3, <3>1
      <3> QED BY <3>1, <3>2, <3>3 DEF w
    <2>7. windows[k].next < Total
      <3> DEFINE w == windows[k].next
                 p == (j + 1) * long
                 q == c * long
      <3>1. w \in Nat /\ p \in Nat /\ q \in Nat /\ w <= p /\ p <= q /\ q < Total
        BY <2>1, <2>6, WindowsAre
      <3> HIDE DEF w, p, q
      <3>2. w < Total
        BY <2>4, <3>1
      <3> QED BY <3>2 DEF w
    <2>8. k + 1 \in 1..Len(windows) /\ windows[k + 1].run = windows[k].next
      BY <2>1, <2>7, NextWindow
    <2> QED BY <2>6, <2>8 DEF k
  <1> HIDE DEF T
  <1>3. Nat \subseteq T
    BY <1>1, <1>2, SetInduction
  <1>4. ASSUME NEW j \in 0..c PROVE Reached(j)
    <2>1. j \in Nat /\ j <= c
      OBVIOUS
    <2> QED BY <1>3, <2>1 DEF T
  <1> QED BY <1>4

\* A window that others do not touch is a run of the compressor column.
LEMMA WindowRun ==
  ASSUME source \in Sources, Tiling, Tiled = Total, NEW k \in 1..Len(windows),
         k > 1 => windows[k - 1].rest < windows[k - 1].next,
         windows[k].rest < Total => windows[k].rest < windows[k].next
  PROVE  /\ windows[k].run + 1 \in 1..Total /\ windows[k].rest \in 1..Total
         /\ <<windows[k].run + 1, windows[k].rest>> \in Runs(BoolCol(Make.channels, "cmd"))
  <1> DEFINE n == Total
             m == BoolCol(Make.channels, "cmd")
             u == windows[k].run
             v == windows[k].rest
             w == windows[k].next
             a == u + 1
  <1>1. n \in Nat \ {0} /\ Len(m) = n /\ \A l \in 1..n : m[l] <=> InRun(l - 1)
    <2>1. /\ Len(Make.channels) = n /\ n \in Nat \ {0}
          /\ \A l \in 1..n : Make.channels[l].cmd = (IF InRun(l - 1) THEN 1 ELSE 0)
      BY MadeRows DEF RowIs
    <2>2. m = [l \in 1..n |-> Make.channels[l].cmd = 1]
      BY <2>1 DEF BoolCol
    <2> HIDE DEF n
    <2>3. Len(m) = n /\ \A l \in 1..n : m[l] <=> Make.channels[l].cmd = 1
      <3> HIDE DEF m
      <3>1. Len(m) = n
        BY <2>1, <2>2
      <3>2. \A l \in 1..n : m[l] = (Make.channels[l].cmd = 1)
        BY <2>2, Zenon
      <3> QED BY <3>1, <3>2, Zenon
    <2>4. \A l \in 1..n : Make.channels[l].cmd = 1 <=> InRun(l - 1)
      BY <2>1
    <2> HIDE DEF m
    <2> QED BY <2>1, <2>3, <2>4
  <1>2. u \in Nat /\ v \in Nat /\ w \in Nat /\ u < v /\ v <= w /\ w <= n /\ (v < n => v < w)
    BY WindowsAre
  \* Whatever run a row is in, its window is this one or does not overlap it.
  <1>3. ASSUME NEW t \in Int, InRun(t)
        PROVE  \E c \in 1..Len(windows), p \in Nat, q \in Nat, r \in Nat :
                 /\ p = windows[c].run /\ q = windows[c].rest /\ r = windows[c].next
                 /\ p <= t /\ t < q /\ q <= r
                 /\ c = k \/ (c < k /\ r <= u) \/ (k < c /\ w <= p)
    <2>1. PICK c \in 1..Len(windows) : windows[c].run <= t /\ t < windows[c].rest
      BY <1>3 DEF InRun
    <2>2. c = k \/ (c < k /\ windows[c].next <= u) \/ (k < c /\ w <= windows[c].run)
      <3>1. c < k \/ c = k \/ k < c
        BY WindowsAre
      <3> QED BY <3>1, InTurn
    <2> QED BY <2>1, <2>2, WindowsAre
  <1>4. ASSUME NEW l \in a..v PROVE m[l]
    <2>1. l \in 1..n /\ l - 1 \in Int /\ u <= l - 1 /\ l - 1 < v
      <3> HIDE DEF u, v, w, n
      <3> QED BY <1>1, <1>2
    <2>2. InRun(l - 1)
      BY <2>1 DEF InRun
    <2> HIDE DEF m
    <2> QED BY <1>1, <2>1, <2>2
  <1>5. a > 1 => ~m[a - 1]
    <2> SUFFICES ASSUME a > 1, InRun(a - 2) PROVE FALSE
      <3> HIDE DEF m, u, v, w, n
      <3>1. a > 1 => a - 1 \in 1..n /\ (a - 1) - 1 = a - 2
        BY <1>1, <1>2
      <3> QED BY <1>1, <3>1
    <2>1. u > 0 /\ u - 1 \in Int /\ a - 2 = u - 1
      <3> HIDE DEF u
      <3> QED BY <1>2
    <2>2. PICK c \in 1..Len(windows), p \in Nat, q \in Nat, r \in Nat :
             /\ p = windows[c].run /\ q = windows[c].rest /\ r = windows[c].next
             /\ p <= u - 1 /\ u - 1 < q /\ q <= r
             /\ c = k \/ (c < k /\ r <= u) \/ (k < c /\ w <= p)
      <3> HIDE DEF u, w
      <3> QED BY <1>3, <2>1
    <2>3. c < k /\ r = u /\ q = u
      <3>1. c # k
        BY <2>1, <2>2
      <3> HIDE DEF u, v, w, n
      <3> QED BY <1>2, <2>1, <2>2, <3>1, SMTT(60)
    <2>4. k > 1 /\ k - 1 \in 1..Len(windows) /\ c <= k - 1
      <3>1. Len(windows) \in Nat
        BY WindowsAre
      <3> QED BY <2>3, <3>1, SMTT(60)
    <2>5. windows[k - 1].next = u
      BY <2>4 DEF Tiling
    <2>6. CASE c = k - 1
      <3>1. windows[c].rest < windows[c].next
        BY <2>4, <2>6
      <3>2. q < r
        BY <2>2, <3>1
      <3> HIDE DEF u, w
      <3> QED BY <2>3, <3>2
    <2>7. CASE c < k - 1
      <3> DEFINE d == k - 1
                 x == windows[d].run
                 y == windows[d].rest
                 z == windows[d].next
      <3>1. /\ d \in 1..Len(windows) /\ c < d
            /\ x \in Nat /\ y \in Nat /\ z \in Nat /\ x < y /\ y <= z /\ z = u
        BY <2>4, <2>5, <2>7, WindowsAre
      <3>2. windows[c].next <= x
        <4> HIDE DEF d
        <4> QED BY <3>1, InTurn
      <3> HIDE DEF u, x, y, z
      <3> QED BY <1>2, <2>2, <2>3, <3>1, <3>2
    <2> QED BY <2>4, <2>6, <2>7
  <1>6. v < n => ~m[v + 1]
    <2> SUFFICES ASSUME v < n, InRun(v) PROVE FALSE
      <3> HIDE DEF m, u, v, w, n
      <3>1. v < n => v + 1 \in 1..n /\ (v + 1) - 1 = v
        BY <1>1, <1>2
      <3> QED BY <1>1, <3>1
    <2>1. PICK c \in 1..Len(windows), p \in Nat, q \in Nat, r \in Nat :
             /\ p = windows[c].run /\ q = windows[c].rest /\ r = windows[c].next
             /\ p <= v /\ v < q /\ q <= r
             /\ c = k \/ (c < k /\ r <= u) \/ (k < c /\ w <= p)
      <3>1. v \in Int
        BY <1>2
      <3> HIDE DEF u, v, w
      <3> QED BY <1>3, <3>1
    <2>2. c # k
      <3> SUFFICES ASSUME c = k PROVE FALSE
        OBVIOUS
      <3>1. q = v
        BY <2>1
      <3> HIDE DEF v
      <3> QED BY <1>2, <2>1, <3>1
    <2> HIDE DEF u, v, w, n
    <2> QED BY <1>2, <2>1, <2>2
  <1> HIDE DEF m, u, v, w, n
  <1>7. a \in 1..n /\ v \in 1..n /\ v \in a..n
    BY <1>1, <1>2
  <1>8. IsRun(m, a, v)
    BY <1>1, <1>4, <1>5, <1>6, <1>7 DEF IsRun
  <1>9. <<a, v>> \in Runs(m)
    BY <1>1, <1>7, <1>8 DEF Runs
  <1> QED BY <1>7, <1>9 DEF u, v, m, n

\* In the segments of the short cycling every window is a run, and short.
LEMMA ShortWindow ==
  ASSUME source = "short_cycling", Tiling, Drawn, Tiled = Total, NEW k \in 1..Len(windows)
  PROVE  LET u == windows[k].run
             v == windows[k].rest
         IN /\ u \in Nat /\ v \in Nat /\ v - u < ShortCycleMaxRun
            /\ u + 1 \in 1..Total /\ v \in 1..Total
            /\ <<u + 1, v>> \in Runs(BoolCol(Make.channels, "cmd"))
  <1> DEFINE n == Total
  <1>1. /\ source \in Sources /\ source \in Sources \ {"tcc_never_satisfied"}
        /\ RunRange = RunShort /\ HoldRange = HoldShort
        /\ n \in Nat \ {0} /\ ShortCycleMaxRun \in Int /\ ShortCycleMaxRun >= 2
    BY TotalPositive, ShortCycleAssumption, StoryAssumption
       DEF Sources, HourSources, WeekSources, RunRange, HoldRange
  \* The rest of every window, and its length.
  <1>2. ASSUME NEW l \in 1..Len(windows)
        PROVE  /\ windows[l].rest < n => windows[l].rest < windows[l].next
               /\ windows[l].rest - windows[l].run < ShortCycleMaxRun
               /\ windows[l].run \in Nat /\ windows[l].rest \in Nat /\ windows[l].next \in Nat
    <2> DEFINE u == windows[l].run
               v == windows[l].rest
               w == windows[l].next
    <2>1. PICK run \in RunShort, hold \in HoldShort, m \in Nat \ {0} :
             /\ run \in Nat /\ hold \in Nat /\ m = IF 1 <= run THEN run ELSE 1
             /\ v = IF u + m <= n THEN u + m ELSE n
             /\ w = IF v + hold <= n THEN v + hold ELSE n
      BY <1>1, DrawnWindow
    <2>2. hold # 0 /\ run < ShortCycleMaxRun
      BY <2>1, CyclesAssumption
    <2>3. u \in Nat /\ v \in Nat /\ w \in Nat /\ u < v
      BY <1>1, WindowsAre
    <2> HIDE DEF u, v, w, n
    <2>4. n \in Nat /\ ShortCycleMaxRun \in Int /\ ShortCycleMaxRun >= 2
      BY <1>1
    <2>5. m \in Nat /\ m < ShortCycleMaxRun
      BY <2>1, <2>2, <2>4
    <2>6. v <= u + m
      BY <2>1, <2>3, <2>4, <2>5
    <2>7. v - u < ShortCycleMaxRun
      BY <2>3, <2>4, <2>5, <2>6
    <2>8. hold \in Nat /\ hold # 0 /\ w = IF v + hold <= n THEN v + hold ELSE n
      BY <2>1, <2>2
    <2>9. v < n => v < w
      BY <2>3, <2>4, <2>8
    <2> QED BY <2>3, <2>7, <2>9 DEF u, v, w
  <1>3. k > 1 => windows[k - 1].rest < windows[k - 1].next
    <2> SUFFICES ASSUME k > 1 PROVE windows[k - 1].rest < windows[k - 1].next
      OBVIOUS
    <2> DEFINE d == k - 1
               y == windows[d].rest
               z == windows[d].next
               u == windows[k].run
               v == windows[k].rest
    <2>1. u \in Nat /\ v \in Nat /\ u < v /\ v <= n
      BY <1>1, WindowsAre
    <2>2. d \in 1..Len(windows) /\ k \in 1..Len(windows) /\ k # 1
      BY <1>1, WindowsAre
    <2>3. z = u
      BY <1>1, <2>2 DEF Tiling
    <2>4. y \in Nat /\ y <= z /\ (y < n => y < z)
      <3> HIDE DEF d
      <3> QED BY <1>1, <1>2, <2>2, WindowsAre
    <2> HIDE DEF u, v, y, z, n
    <2>5. y < z
      BY <1>1, <2>1, <2>3, <2>4
    <2> QED BY <2>5 DEF y, z
  <1>4. /\ windows[k].run + 1 \in 1..n /\ windows[k].rest \in 1..n
        /\ <<windows[k].run + 1, windows[k].rest>> \in Runs(BoolCol(Make.channels, "cmd"))
    BY <1>1, <1>2, <1>3, WindowRun
  <1> QED BY <1>2, <1>4

\* As many short runs as the detector wants, one after the other.
LEMMA MadeShortCycling ==
  ASSUME source = "short_cycling", Tiling, Drawn, Tiled = Total
  PROVE  DetectShortCycling(Make) # "none"
  <1> DEFINE n == Total
             c == ShortCycleMinCount
             span == ShortCycleWindow
             T == ShortRuns(Make.channels)
             times == [r \in T |-> Make.channels[r[1]].ts]
             S == {times[r] : r \in T}
             most == ShortCluster(Make.channels)
             f == [d \in 1..c |-> windows[d].run]
  <1>1. /\ source \in Sources /\ source \in Sources \ {"tcc_never_satisfied"}
        /\ RunRange = RunShort /\ HoldRange = HoldShort /\ RowTime = 1
        /\ n = NRows["short_cycling"]
    BY DEF Sources, HourSources, WeekSources, RunRange, HoldRange, RowTime, Total
  <1>2. PICK long \in 1..span :
          /\ \A run \in RunShort, hold \in HoldShort : Max({1, run}) + hold <= long
          /\ (c - 1) * long < span /\ (c - 1) * long < n
    BY <1>1, CyclesAssumption
  <1>3. /\ n \in Nat \ {0} /\ span \in Int /\ c \in Nat /\ c >= 2 /\ long \in Nat
        /\ ShortCycleMaxRun \in Int /\ ShortCycleMaxRun >= 2
    BY <1>1, TotalPositive, ShortCycleAssumption, StoryAssumption
  <1>4. /\ IsFiniteSet(T) /\ times \in [T -> Int] /\ most = MaxCluster(times, span)
        /\ \A a, b \in 1..n :
             /\ <<a, b>> \in Runs(BoolCol(Make.channels, "cmd"))
             /\ RowTime * (b - a + 1) < ShortCycleMaxRun
             => (a - 1) * RowTime \in S
    BY <1>1, MadeShort
  <1> DEFINE e == c - 1
  <1>5. \A j \in 0..e : j + 1 \in 1..Len(windows) /\ windows[j + 1].run <= j * long
    <2>1. e \in Nat /\ e * long < Total
      BY <1>2, <1>3
    <2>2. \A run \in RunRange, hold \in HoldRange : Max({1, run}) + hold <= long
      BY <1>1, <1>2
    <2> HIDE DEF e
    <2> QED BY <1>1, <1>3, <2>1, <2>2, WindowsReach
  <1>6. ASSUME NEW k \in 1..Len(windows) PROVE windows[k].run \in S /\ windows[k].run \in Nat
    <2> DEFINE u == windows[k].run
               v == windows[k].rest
    <2>1. /\ u \in Nat /\ v \in Nat /\ v - u < ShortCycleMaxRun
          /\ u + 1 \in 1..n /\ v \in 1..n /\ <<u + 1, v>> \in Runs(BoolCol(Make.channels, "cmd"))
      BY ShortWindow
    <2> HIDE DEF u, v, n, S
    <2> DEFINE a == u + 1
    <2>2. a \in 1..n /\ RowTime * (v - a + 1) < ShortCycleMaxRun /\ (a - 1) * RowTime = u
      BY <1>1, <2>1
    <2> HIDE DEF a
    <2>3. (a - 1) * RowTime \in S
      BY <1>4, <2>1, <2>2 DEF a
    <2> QED BY <2>1, <2>2, <2>3 DEF u
  <1>7. ASSUME NEW d \in 1..c PROVE f[d] \in S /\ 0 <= f[d] /\ f[d] < 0 + span
    <2> DEFINE j == d - 1
               p == j * long
               q == e * long
    <2>1. j \in 0..e /\ j + 1 = d /\ j <= e /\ j \in Int /\ e \in Int
      BY <1>3
    <2>2. d \in 1..Len(windows) /\ windows[d].run <= p
      BY <1>5, <2>1
    <2>3. long * j <= long * e /\ p = long * j /\ q = long * e /\ p \in Int /\ q \in Int
      <3> HIDE DEF j, e
      <3> QED BY <1>3, <2>1, ProductGrows
    <2>4. q < span
      BY <1>2
    <2> DEFINE u == windows[d].run
    <2>5. u \in Nat /\ u \in S /\ f[d] = u
      BY <1>6, <2>2
    <2> HIDE DEF f, u, S, p, q
    <2>6. u <= p
      BY <2>2 DEF u
    <2>7. 0 <= u /\ u < 0 + span
      BY <1>3, <2>3, <2>4, <2>5, <2>6
    <2> QED BY <2>5, <2>7
  <1>8. ASSUME NEW a \in 1..c, NEW b \in 1..c, a < b PROVE f[a] # f[b]
    <2>1. a - 1 \in 0..e /\ b - 1 \in 0..e /\ (a - 1) + 1 = a /\ (b - 1) + 1 = b
      BY <1>3
    <2>2. a \in 1..Len(windows) /\ b \in 1..Len(windows)
      <3>1. (a - 1) + 1 \in 1..Len(windows) /\ (b - 1) + 1 \in 1..Len(windows)
        BY <1>5, <2>1
      <3> QED BY <2>1, <3>1
    <2>3. windows[a].next <= windows[b].run
      BY <1>1, <1>8, <2>2, InTurn
    <2>4. windows[a].run < windows[b].run
      <3> DEFINE u == windows[a].run
                 v == windows[a].rest
                 w == windows[a].next
                 x == windows[b].run
      <3>1. u \in Nat /\ v \in Nat /\ w \in Nat /\ x \in Nat /\ u < v /\ v <= w /\ w <= x
        BY <1>1, <2>2, <2>3, WindowsAre
      <3> HIDE DEF u, v, w, x
      <3>2. u < x
        BY <3>1
      <3> QED BY <3>2 DEF u, x
    <2>5. f[a] = windows[a].run /\ f[b] = windows[b].run /\ windows[a].run \in Nat
      BY <1>1, <2>2, WindowsAre
    <2> QED BY <2>4, <2>5
  <1> DEFINE t == 0
  <1>9. DetectShortCycling(Make) = Result(most >= c, most >= 2 * c)
    BY DEF DetectShortCycling
  <1>10. t \in Int /\ \A d \in 1..c : f[d] \in S /\ t <= f[d] /\ f[d] < t + span
    BY <1>7
  <1>14. S = {times[r] : r \in T}
    OBVIOUS
  <1> HIDE DEF S, T, times, most, f, c, t, span
  <1>11. c <= MaxCluster(times, span)
    BY <1>3, <1>4, <1>8, <1>10, <1>14, ClusterOf
  <1>12. MaxCluster(times, span) \in Int
    BY <1>3, <1>4, WindowMoves
  <1>13. most >= c
    BY <1>3, <1>4, <1>11, <1>12
  <1> QED BY <1>9, <1>13 DEF Result

\* The detector of the TCC on the runs of a segment, of compressor and beater
\* alike.
LEMMA MadeTrips ==
  ASSUME source \in Sources, Tiling, Tiled = Total
  PROVE  LET rows == Make.channels
             R == Runs(BoolCol(rows, "cmd"))
         IN /\ (\A a, b \in 1..Total : <<a, b>> \in R =>
                  \/ \E k \in a..b : rows[k].tcc = 1
                  \/ 2 * RowTime * (b - a + 1) < 2 * TccMinRun)
               => DetectTccNeverSatisfied(Make) = "none"
            /\ (\E a, b \in 1..Total :
                  /\ <<a, b>> \in R /\ \A k \in a..b : rows[k].tcc # 1
                  /\ 2 * RowTime * (b - a + 1) >= 2 * TccMinRun)
               => DetectTccNeverSatisfied(Make) # "none"
  <1> DEFINE rows == Make.channels
             n == Total
             rt == RowTime
             m == BoolCol(rows, "cmd")
             R == Runs(m)
             U == Unsatisfied(rows)
             f == [r \in U |-> Duration2(rows, r)]
             S == {f[r] : r \in U}
             worst2 == Max({0} \union S)
  <1>1. /\ n \in Nat \ {0} /\ rt \in {1, 2, 10} /\ TccMinRun \in Nat /\ TccMinRun >= 2
        /\ \A a, b \in 1..n : Duration2(rows, <<a, b>>) = 2 * rt * (b - a + 1)
    BY MadeTimes, TotalPositive, TccAssumption, StoryAssumption
  <1>2. BothOn(rows) = m
    <2>1. /\ Len(rows) = n
          /\ \A k \in 1..n : rows[k].beater = rows[k].cmd
      BY MadeRows DEF RowIs
    <2> HIDE DEF rows, n
    <2> QED BY <2>1 DEF BothOn, BoolCol
  <1>3. U \subseteq R
    BY <1>2 DEF Unsatisfied
  <1>4. ASSUME NEW r \in R PROVE \E a, b \in 1..n : r = <<a, b>>
    BY MadeRun
  <1>13. ASSUME NEW a \in 1..n, NEW b \in 1..n, <<a, b>> \in R
         PROVE  <<a, b>> \in U <=> \A k \in a..b : rows[k].tcc # 1
    <2>1. Len(rows) = n /\ \A k \in 1..n : rows[k].ts = (k - 1) * rt
      BY MadeRows, MadeTimes
    <2>2. IsRun(BothOn(rows), a, b)
      BY <1>2, <1>13 DEF Runs
    <2> HIDE DEF rows, n, rt, U, R, m
    <2>3. \A k \in 1..n : rows[k].ts \in Nat
      <3> SUFFICES ASSUME NEW k \in 1..n PROVE rows[k].ts \in Nat
        OBVIOUS
      <3>1. k - 1 \in Nat
        BY <1>1
      <3> QED BY <1>1, <2>1, <3>1
    <2>4. \A c \in 1..n : \A d \in (c + 1)..n : rows[c].ts < rows[d].ts
      <3> SUFFICES ASSUME NEW c \in 1..n, NEW d \in (c + 1)..n PROVE rows[c].ts < rows[d].ts
        OBVIOUS
      <3>1. d \in 1..n /\ c \in Int /\ d \in Int /\ c < d
        BY <1>1
      <3>2. rows[c].ts = (c - 1) * rt /\ rows[d].ts = (d - 1) * rt
        BY <2>1, <3>1
      <3>3. (c - 1) * rt < (d - 1) * rt
        BY <1>1, <3>1
      <3> QED BY <3>2, <3>3
    <2>5. n \in Nat
      BY <1>1
    <2>6. <<a, b>> \in Unsatisfied(rows) <=> \A k \in a..b : rows[k].tcc # 1
      BY <2>1, <2>2, <2>3, <2>4, <2>5, BetweenEnds
    <2> QED BY <2>6 DEF U
  <1>5. IsFiniteSet(S)
    <2> DEFINE P == 1..n
               Q == P \X P
    <2>1. IsFiniteSet(P)
      <3> HIDE DEF n
      <3> QED BY <1>1, PlacesFinite
    <2> HIDE DEF P
    <2>2. IsFiniteSet(Q)
      BY <2>1, FS_Product
    <2>3. U \subseteq Q
      BY <1>3, <1>4 DEF P
    <2> HIDE DEF Q, U, f
    <2>4. IsFiniteSet(U)
      BY <2>2, <2>3, FS_Subset
    <2> QED BY <2>4, FiniteImage
  <1>6. ASSUME NEW x \in S
        PROVE  \E a, b \in 1..n : /\ <<a, b>> \in R /\ \A k \in a..b : rows[k].tcc # 1
                                  /\ x = 2 * rt * (b - a + 1)
    <2>1. PICK r \in U : x = Duration2(rows, r)
      OBVIOUS
    <2>2. r \in R /\ r \in U
      BY <1>3, <2>1
    <2> HIDE DEF R, U, S, rows, n, rt
    <2>3. PICK a \in 1..n, b \in 1..n : r = <<a, b>>
      BY <1>4, <2>2
    <2>4. \A k \in a..b : rows[k].tcc # 1
      BY <1>13, <2>2, <2>3
    <2>5. x = 2 * rt * (b - a + 1)
      BY <1>1, <2>1, <2>3
    <2> QED BY <2>2, <2>3, <2>4, <2>5
  <1>7. ASSUME NEW a \in 1..n, NEW b \in 1..n, <<a, b>> \in R, \A k \in a..b : rows[k].tcc # 1
        PROVE  2 * rt * (b - a + 1) \in S
    <2>1. <<a, b>> \in U
      BY <1>7, <1>13
    <2>2. Duration2(rows, <<a, b>>) \in S
      BY <2>1
    <2> QED BY <1>1, <2>2
  <1>8. S \in SUBSET Int
    <2> HIDE DEF S, n, rt
    <2>1. ASSUME NEW x \in S PROVE x \in Int
      <3>1. PICK a \in 1..n, b \in 1..n : x = 2 * rt * (b - a + 1)
        BY <1>6
      <3>2. a \in Int /\ b \in Int
        BY <1>1
      <3> QED BY <1>1, <3>1, <3>2
    <2> QED BY <2>1
  <1>9. DetectTccNeverSatisfied(Make) = Result(worst2 >= 2 * TccMinRun, worst2 >= 4 * TccMinRun)
    <2>1. S = {Duration2(rows, r) : r \in U}
      OBVIOUS
    <2> QED BY <2>1 DEF DetectTccNeverSatisfied
  <1> HIDE DEF S
  <1>10. /\ worst2 \in Int /\ 0 <= worst2 /\ \A y \in S : y <= worst2
         /\ worst2 # 0 => worst2 \in S
    BY <1>5, <1>8, MaxOrZero
  <1> HIDE DEF worst2, rows, n, rt, m, R
  <1>11. ASSUME \A a, b \in 1..n : <<a, b>> \in R =>
                  \/ \E k \in a..b : rows[k].tcc = 1
                  \/ 2 * rt * (b - a + 1) < 2 * TccMinRun
         PROVE  DetectTccNeverSatisfied(Make) = "none"
    <2>1. worst2 < 2 * TccMinRun
      <3>1. CASE worst2 = 0
        BY <1>1, <3>1
      <3>2. CASE worst2 # 0
        <4>1. PICK a \in 1..n, b \in 1..n : /\ <<a, b>> \in R /\ \A k \in a..b : rows[k].tcc # 1
                                            /\ worst2 = 2 * rt * (b - a + 1)
          BY <1>6, <1>10, <3>2
        <4> QED BY <1>11, <4>1
      <3> QED BY <3>1, <3>2
    <2>2. ~(worst2 >= 2 * TccMinRun)
      BY <1>1, <1>10, <2>1
    <2> QED BY <1>9, <2>2 DEF Result
  <1>12. ASSUME NEW a \in 1..n, NEW b \in 1..n, <<a, b>> \in R, \A k \in a..b : rows[k].tcc # 1,
                2 * rt * (b - a + 1) >= 2 * TccMinRun
         PROVE  DetectTccNeverSatisfied(Make) # "none"
    <2> DEFINE x == 2 * rt * (b - a + 1)
    <2>1. x \in S /\ x >= 2 * TccMinRun
      BY <1>7, <1>12
    <2> HIDE DEF x
    <2>2. worst2 >= 2 * TccMinRun
      BY <1>1, <1>8, <1>10, <2>1
    <2> QED BY <1>9, <2>2 DEF Result
  <1> QED BY <1>11, <1>12 DEF rows, n, rt, m, R

\* In the segments with TCC pulses every run has one.
LEMMA MadeTripped ==
  ASSUME source \in {"healthy", "condenser_airflow", "knocking", "belt_slip"},
         Tiling, Tiled = Total
  PROVE  DetectTccNeverSatisfied(Make) = "none"
  <1>1. source \in Sources /\ source \notin WeekSources
        /\ source \notin {"short_cycling", "tcc_never_satisfied"}
    BY DEF Sources, HourSources, WeekSources
  <1>2. ASSUME NEW a \in 1..Total, NEW b \in 1..Total,
               <<a, b>> \in Runs(BoolCol(Make.channels, "cmd"))
        PROVE  \E k \in a..b : Make.channels[k].tcc = 1
    <2>1. PICK c \in 1..Len(windows) : windows[c].run = a - 1 /\ windows[c].rest <= b
      BY <1>1, <1>2, MadeRun
    <2> DEFINE u == windows[c].run
               v == windows[c].rest
               w == windows[c].next
               t == v - 1
    <2>2. u \in Nat /\ v \in Nat /\ w \in Nat /\ u < v /\ v <= w /\ w <= Total /\ Total \in Nat
      BY <1>1, WindowsAre
    <2>3. t \in Nat /\ t < Total /\ u <= t /\ t < v /\ t < w /\ v \in 1..Total /\ v - 1 = t
      <3> HIDE DEF u, v, w
      <3> QED BY <2>2
    <2>4. InRun(t)
      BY <2>3 DEF InRun
    <2>5. Cycle(t) = c
      <3> DEFINE d == Cycle(t)
      <3>1. d \in 1..Len(windows) /\ windows[d].run <= t /\ t < windows[d].next
        <4> HIDE DEF t
        <4> QED BY <1>1, <2>3, CycleIs
      <3> HIDE DEF d
      <3> DEFINE x == windows[d].run
                 y == windows[d].next
      <3>2. x \in Nat /\ y \in Nat /\ x <= t /\ t < y
        BY <1>1, <3>1, WindowsAre
      <3>3. ~(c < d)
        <4> SUFFICES ASSUME c < d PROVE FALSE
          OBVIOUS
        <4>1. w <= x
          BY <1>1, <3>1, InTurn
        <4> HIDE DEF w, x, t
        <4> QED BY <2>2, <2>3, <3>2, <4>1
      <3>4. ~(d < c)
        <4> SUFFICES ASSUME d < c PROVE FALSE
          OBVIOUS
        <4>1. y <= u
          BY <1>1, <3>1, InTurn
        <4> HIDE DEF u, y, t
        <4> QED BY <2>2, <2>3, <3>2, <4>1
      <3>5. c \in Int /\ d \in Int
        BY <1>1, <3>1, WindowsAre
      <3> QED BY <3>3, <3>4, <3>5 DEF d
    <2>6. TccPulse(t)
      <3> HIDE DEF u, v, t
      <3>1. 60 * (v - u) > 10
        BY <2>2
      <3> QED BY <1>1, <2>5, <3>1 DEF TccPulse, u, v, t
    <2>7. RowIs(Make.channels[v], t)
      BY <1>1, <2>3, MadeRows
    <2>8. Make.channels[v].tcc = 1
      <3> HIDE DEF t
      <3> QED BY <1>1, <2>4, <2>6, <2>7 DEF RowIs
    <2>9. v \in a..b
      <3>1. u = a - 1 /\ v <= b
        BY <2>1
      <3> HIDE DEF u, v
      <3> QED BY <2>2, <3>1
    <2> QED BY <2>8, <2>9
  <1> QED BY <1>1, <1>2, MadeTrips

\* Runs of the short cycling are too short for the detector of the TCC.
LEMMA MadeShortTrips ==
  ASSUME source = "short_cycling", Tiling, Drawn, Tiled = Total
  PROVE  DetectTccNeverSatisfied(Make) = "none"
  <1>1. /\ source \in Sources /\ RowTime = 1 /\ Total \in Nat
        /\ ShortCycleMaxRun <= TccMinRun /\ ShortCycleMaxRun \in Int /\ TccMinRun \in Int
    BY TotalPositive, CyclesAssumption, ShortCycleAssumption, TccAssumption
       DEF Sources, HourSources, WeekSources, RowTime
  <1>2. ASSUME NEW a \in 1..Total, NEW b \in 1..Total,
               <<a, b>> \in Runs(BoolCol(Make.channels, "cmd"))
        PROVE  2 * RowTime * (b - a + 1) < 2 * TccMinRun
    <2>1. PICK c \in 1..Len(windows) : windows[c].run = a - 1 /\ windows[c].rest <= b
      BY <1>1, <1>2, MadeRun
    <2> DEFINE u == windows[c].run
               v == windows[c].rest
    <2>2. /\ u \in Nat /\ v \in Nat /\ v - u < ShortCycleMaxRun
          /\ u + 1 \in 1..Total /\ v \in 1..Total
          /\ <<u + 1, v>> \in Runs(BoolCol(Make.channels, "cmd"))
      BY ShortWindow
    <2>3. u + 1 = a
      <3>1. u = a - 1
        BY <2>1
      <3> HIDE DEF u
      <3> QED BY <1>1, <3>1
    <2>4. <<a, v>> \in Runs(BoolCol(Make.channels, "cmd"))
      BY <2>2, <2>3
    <2>5. b = v
      <3> SUFFICES ASSUME b # v PROVE FALSE
        OBVIOUS
      <3>1. v < b
        <4>1. v <= b
          BY <2>1
        <4> HIDE DEF v
        <4> QED BY <1>1, <2>2, <4>1
      <3>2. v < Total /\ v \in (a - 1)..(b - 1)
        <4>1. u < v
          BY <1>1, WindowsAre
        <4> HIDE DEF v, u
        <4> QED BY <1>1, <2>2, <2>3, <3>1, <4>1
      <3>3. ~InRun(v)
        BY <1>1, <2>2, <2>4, <3>2, MadeRun
      <3>4. InRun(v)
        BY <1>1, <1>2, <3>2, MadeRun
      <3> QED BY <3>3, <3>4
    <2> HIDE DEF u, v
    <2> QED BY <1>1, <2>2, <2>3, <2>5
  <1> QED BY <1>1, <1>2, MadeTrips

\* The one long run never trips the TCC.
LEMMA MadeTccNever ==
  ASSUME source = "tcc_never_satisfied", Tiling, Drawn, Tiled = Total
  PROVE  DetectTccNeverSatisfied(Make) # "none"
  <1> DEFINE n == Total
             zero == 0
  <1>1. /\ source \in Sources /\ RowTime = 2 /\ n \in Nat \ {0} /\ n = NRows["tcc_never_satisfied"]
        /\ TccMinRun <= 2 * n /\ TccMinRun \in Int /\ zero \in Nat /\ zero < n
    BY TotalPositive, CyclesAssumption, TccAssumption
       DEF Sources, HourSources, WeekSources, RowTime, Total
  <1>2. windows = <<Window(0, n, 0)>>
    BY <1>1 DEF Drawn
  <1>3. 1 \in 1..Len(windows) /\ windows[1] = Window(zero, n, zero)
    BY <1>2
  <1>4. windows[1].run = 0 /\ windows[1].rest = n
    <2> DEFINE one == 1
               long == Max({1, n})
               x == zero + long
               rest == Min({x, n})
    <2>1. windows[1].run = 0 /\ windows[1].rest = rest
      BY <1>3 DEF Window
    <2>2. one \in Int /\ one <= n /\ n \in Int
      BY <1>1
    <2>3. long = n
      <3> HIDE DEF one, n
      <3>1. Max({one, n}) = IF one <= n THEN n ELSE one
        BY <2>2, OfTwo
      <3> QED BY <2>2, <3>1 DEF one
    <2>4. x = n
      BY <1>1, <2>3
    <2> HIDE DEF x
    <2>5. rest = n
      <3> HIDE DEF n
      <3>1. x \in Int /\ n \in Int
        BY <1>1, <2>4
      <3>2. Min({x, n}) = IF x <= n THEN x ELSE n
        BY <3>1, OfTwo
      <3> QED BY <2>4, <3>2
    <2> QED BY <2>1, <2>5
  <1> DEFINE one == 1
  <1>5. one \in 1..Len(windows) /\ one = 1 /\ ~(one > 1)
    BY <1>3
  <1>6. <<1, n>> \in Runs(BoolCol(Make.channels, "cmd"))
    <2>1. windows[one].rest < Total => windows[one].rest < windows[one].next
      BY <1>1, <1>4
    <2>2. one > 1 => windows[one - 1].rest < windows[one - 1].next
      OBVIOUS
    <2> HIDE DEF one
    <2>3. <<windows[one].run + 1, windows[one].rest>> \in Runs(BoolCol(Make.channels, "cmd"))
      BY <1>1, <1>5, <2>1, <2>2, WindowRun
    <2> QED BY <1>4, <2>3 DEF one
  <1>7. \A k \in 1..n : Make.channels[k].tcc # 1
    BY <1>1, MadeRows DEF RowIs
  <1>8. 1 \in 1..n /\ n \in 1..n /\ 2 * RowTime * (n - 1 + 1) >= 2 * TccMinRun
    BY <1>1
  <1> QED BY <1>1, <1>6, <1>7, <1>8, MadeTrips

-----------------------------------------------------------------------------
(* Currents.                                                               *)

\* What the beater draws in row t while it runs.
Amps(t) ==
  WindowAmps(Cycle(t)) + IF source = "motor_degradation" THEN DayOf(t) * PerDay ELSE 0

\* What a fault adds a day.
LEMMA PerDayIs ==
  ASSUME source \in Sources, draw \in Draws[source]
  PROVE  /\ source \in WeekSources => PerDay \in Nat
         /\ source = "motor_degradation" => MotorSlope <= PerDay
         /\ source = "seal_failure" => SealSlope10 <= 10 * PerDay
  <1> DEFINE D == NDays - 1
  <1>1. D \in Nat \ {0}
    BY SegmentAssumption
  <1>2. ASSUME NEW a \in Nat, NEW e \in Nat, a <= e
        PROVE  a \div D \in Nat /\ e \div D \in Nat /\ a \div D <= e \div D
    <2> HIDE DEF D
    <2> DEFINE q == a \div D
    <2>1. q \in Nat /\ e \div D \in Nat /\ D * q <= a
      BY <1>1, QuotientNatural, Quotient
    <2> HIDE DEF q
    <2>2. D * q <= e /\ q \in Int
      <3>1. D * q \in Int
        BY <1>1, <2>1
      <3> QED BY <1>2, <2>1, <3>1
    <2>3. q <= e \div D
      BY <1>1, <2>2, QuotientAbove
    <2> QED BY <2>1, <2>3 DEF q
  <1> DEFINE e == IF source = "motor_degradation" THEN Uniform(180, 240, draw.end, 0)
                  ELSE Uniform(100, 160, draw.end, 0)
             p == e \div D
  <1>3. PerDay = p
    BY DEF PerDay
  <1>6. Percents(draw.end)
    BY DrawIs
  <1>4. ASSUME source = "motor_degradation" PROVE p \in Nat /\ MotorSlope <= p
    <2> DEFINE a == 180
               q == a \div D
    <2>1. e \in Nat /\ a \in Nat /\ a <= e
      <3> DEFINE x == Uniform(180, 240, draw.end, 0)
      <3>1. x \in Int /\ 180 <= x /\ x <= 240
        BY <1>6, UniformIn
      <3>2. e = x
        BY <1>4
      <3> HIDE DEF x, e
      <3> QED BY <3>1, <3>2
    <2>2. MotorSlope <= q /\ MotorSlope \in Int
      BY TrendsAssumption DEF MotorSlope
    <2>3. e \in Nat
      BY <2>1
    <2> HIDE DEF e, D, a
    <2>4. q \in Nat /\ p \in Nat /\ q <= p
      BY <1>2, <2>1, <2>3
    <2> HIDE DEF q, p
    <2> QED BY <2>2, <2>4
  <1>5. ASSUME source = "seal_failure" PROVE p \in Nat /\ SealSlope10 <= 10 * p
    <2> DEFINE a == 100
               q == a \div D
    <2>1. e \in Nat /\ a \in Nat /\ a <= e
      <3> DEFINE x == Uniform(100, 160, draw.end, 0)
      <3>1. x \in Int /\ 100 <= x /\ x <= 160
        BY <1>6, UniformIn
      <3>2. e = x
        BY <1>5
      <3> HIDE DEF x, e
      <3> QED BY <3>1, <3>2
    <2>2. SealSlope10 <= 10 * q /\ SealSlope10 \in Int
      BY TrendsAssumption DEF SealSlope10
    <2>3. e \in Nat
      BY <2>1
    <2> HIDE DEF e, D, a
    <2>4. q \in Nat /\ p \in Nat /\ q <= p
      BY <1>2, <2>1, <2>3
    <2> HIDE DEF q, p
    <2> QED BY <2>2, <2>4
  <1> HIDE DEF p
  <1> QED BY <1>3, <1>4, <1>5 DEF WeekSources

LEMMA AmpsAre ==
  ASSUME source \in Sources, Tiling, Tiled = Total, NEW t \in 0..(Total - 1)
  PROVE  /\ t \in Nat /\ t * RowTime \in Nat
         /\ Cycle(t) \in 1..Len(windows) /\ Cycle(t) \in Nat
         /\ Amps(t) \in Int
         /\ IF source = "belt_slip" THEN Amps(t) <= 130 ELSE 250 <= Amps(t)
  <1>1. Total \in Nat \ {0} /\ draw \in Draws[source] /\ RowTime \in {1, 2, 10}
    BY TotalPositive DEF Tiling, RowTime
  <1>2. t \in Nat /\ t < Total /\ t * RowTime \in Nat
    BY <1>1
  <1>3. Cycle(t) \in 1..Len(windows)
    BY <1>2, CycleIs
  <1>4. Cycle(t) \in Nat
    BY <1>3, TiledIs
  <1> DEFINE x == WindowAmps(Cycle(t))
             y == IF source = "motor_degradation" THEN DayOf(t) * PerDay ELSE 0
  <1>5. x \in Int /\ IF source = "belt_slip" THEN x <= 130 ELSE 250 <= x
    BY <1>1, <1>4, DrawsAre
  <1>6. y \in Nat /\ (source = "belt_slip" => y = 0)
    <2>1. CASE source = "motor_degradation"
      <3>1. PerDay \in Nat /\ DayOf(t) \in Nat
        BY <1>1, <1>2, <2>1, PerDayIs, QuotientNatural, DayAssumption DEF DayOf, WeekSources
      <3> QED BY <2>1, <3>1
    <2> QED BY <2>1
  <1>7. Amps(t) = x + y
    BY DEF Amps
  <1> HIDE DEF x, y
  <1> QED BY <1>2, <1>3, <1>4, <1>5, <1>6, <1>7

\* The samples under load: the rows of runs.
LEMMA MadeLoaded ==
  ASSUME source \in Sources, Tiling, Tiled = Total
  PROVE  LET loaded == Loaded(Make.channels)
             at == {k \in 1..Total : InRun(k - 1)}
         IN /\ IsFiniteSet(at) /\ Len(loaded) = Cardinality(at) /\ Len(loaded) \in Nat
            /\ \A t \in 0..(Total - 1) : Amps(t) \in Int /\ t * RowTime \in Nat
            /\ \A k \in 1..Len(loaded) : \E t \in 0..(Total - 1) :
                 InRun(t) /\ loaded[k] = <<t * RowTime, Amps(t)>>
            /\ \A t \in 0..(Total - 1) : InRun(t) =>
                 \E k \in 1..Len(loaded) : loaded[k] = <<t * RowTime, Amps(t)>>
  <1> DEFINE rows == Make.channels
             n == Total
             all == [k \in 1..n |-> <<rows[k].ts, rows[k].amps>>]
             at == {k \in 1..n : InRun(k - 1)}
             loaded == Loaded(rows)
             c == Cardinality(at)
  <1>1. /\ n \in Nat \ {0} /\ Len(rows) = n /\ RowTime \in {1, 2, 10}
        /\ \A k \in 1..n : RowIs(rows[k], k - 1)
    BY MadeRows, MadeTimes DEF Tiling
  <1>2. \A t \in 0..(n - 1) : Amps(t) \in Int /\ t * RowTime \in Nat
    BY AmpsAre
  <1>3. ASSUME NEW k \in 1..n
        PROVE  /\ rows[k].beater = 1 <=> InRun(k - 1)
               /\ rows[k].ts = (k - 1) * RowTime
               /\ InRun(k - 1) => rows[k].amps = Amps(k - 1) /\ rows[k].amps # NaN
    <2> DEFINE t == k - 1
               x == WindowAmps(Cycle(t))
    <2>1. RowIs(rows[k], t)
      BY <1>1
    <2>2. t \in 0..(n - 1)
      BY <1>1
    <2>3. Amps(t) # NaN
      BY <1>2, <2>2, NaNAssumption
    <2>4. x \in Int
      <3>1. Cycle(t) \in Nat
        BY <2>2, AmpsAre
      <3> QED BY <3>1, DrawsAre DEF Tiling
    <2> HIDE DEF rows, t
    <2>5. /\ rows[k].beater = (IF InRun(t) THEN 1 ELSE 0) /\ rows[k].ts = t * RowTime
          /\ InRun(t) => rows[k].amps = IF source = "motor_degradation" THEN x + DayOf(t) * PerDay
                                        ELSE x
      BY <2>1 DEF RowIs
    <2>6. Amps(t) = x + IF source = "motor_degradation" THEN DayOf(t) * PerDay ELSE 0
      BY DEF Amps
    <2> HIDE DEF x
    <2>7. InRun(t) => rows[k].amps = Amps(t)
      BY <2>4, <2>5, <2>6
    <2> QED BY <2>3, <2>5, <2>7 DEF t
  <1>4. {k \in 1..n : rows[k].beater = 1 /\ rows[k].amps # NaN} = at
    BY <1>3
  <1>5. loaded = Where(all, at)
    BY <1>1, <1>4 DEF Loaded
  <1>6. at \in SUBSET (1..n)
    OBVIOUS
  <1>7. ASSUME NEW k \in at PROVE k - 1 \in 0..(n - 1) /\ InRun(k - 1)
                                  /\ all[k] = <<(k - 1) * RowTime, Amps(k - 1)>>
    BY <1>1, <1>3
  <1>8. ASSUME NEW t \in 0..(n - 1), InRun(t)
        PROVE  t + 1 \in at /\ (t + 1) - 1 = t
    <2>1. t + 1 \in 1..n /\ (t + 1) - 1 = t
      BY <1>1
    <2> QED BY <1>8, <2>1
  <1> HIDE DEF at, all, n, loaded, rows
  <1>9. /\ c \in 0..n /\ Len(Where(all, at)) = c /\ IsFiniteSet(at)
        /\ \A k \in 1..c : Nth(at, k) \in at /\ Where(all, at)[k] = all[Nth(at, k)]
        /\ \A x \in at : \E k \in 1..c : Nth(at, k) = x
    BY <1>1, <1>6, WhereIs
  <1>10. Len(loaded) = c /\ c \in Nat
    BY <1>1, <1>5, <1>9
  <1>11. ASSUME NEW k \in 1..c
         PROVE  \E t \in 0..(n - 1) : InRun(t) /\ loaded[k] = <<t * RowTime, Amps(t)>>
    <2> DEFINE x == Nth(at, k)
    <2>1. x \in at /\ loaded[k] = all[x]
      BY <1>5, <1>9
    <2> HIDE DEF x
    <2> QED BY <1>7, <2>1
  <1>12. ASSUME NEW t \in 0..(n - 1), InRun(t)
         PROVE  \E k \in 1..c : loaded[k] = <<t * RowTime, Amps(t)>>
    <2> DEFINE x == t + 1
    <2>1. x \in at /\ x - 1 = t
      BY <1>8, <1>12
    <2> HIDE DEF x
    <2>2. PICK k \in 1..c : Nth(at, k) = x
      BY <1>9, <2>1
    <2>3. loaded[k] = all[x]
      BY <1>5, <1>9, <2>2
    <2>4. all[x] = <<t * RowTime, Amps(t)>>
      BY <1>7, <2>1
    <2> QED BY <2>3, <2>4
  <1> QED BY <1>2, <1>9, <1>10, <1>11, <1>12 DEF n, at, loaded, rows, c

\* The belt of every other segment draws its current.
LEMMA MadeNoBelt ==
  ASSUME source \in Sources \ {"belt_slip"}, Tiling, Tiled = Total
  PROVE  DetectBeltSlip(Make) = "none"
  <1> DEFINE loaded == Loaded(Make.channels)
             n == Len(loaded)
             slack == {k \in 1..n : loaded[k][2] < BeltFloor}
             unloaded == Cardinality(slack)
  <1>2. ASSUME NEW t \in 0..(Total - 1) PROVE Amps(t) >= 250
    BY AmpsAre
  <1>3. n \in Nat /\ \A k \in 1..n : \E t \in 0..(Total - 1) : loaded[k] = <<t * RowTime, Amps(t)>>
    BY MadeLoaded
  <1>4. \A t \in 0..(Total - 1) : Amps(t) \in Int
    BY MadeLoaded
  <1>5. slack = {}
    <2> SUFFICES ASSUME NEW k \in 1..n PROVE ~(loaded[k][2] < BeltFloor)
      OBVIOUS
    <2>1. PICK t \in 0..(Total - 1) : loaded[k] = <<t * RowTime, Amps(t)>>
      BY <1>3
    <2>2. loaded[k][2] = Amps(t) /\ Amps(t) >= 250 /\ Amps(t) \in Int
      BY <1>2, <1>4, <2>1
    <2> QED BY <2>2 DEF BeltFloor
  <1>6. unloaded = 0
    BY <1>5, FS_EmptySet
  <1>7. DetectBeltSlip(Make) =
          IF n < BeltMinSamples THEN "none"
          ELSE Result(100 * unloaded >= BeltFraction * n, 100 * unloaded >= 85 * n)
    BY DEF DetectBeltSlip
  <1>8. BeltMinSamples \in Nat \ {0}
    BY StoryAssumption
  <1> HIDE DEF n, unloaded
  <1>9. CASE n >= BeltMinSamples
    <2>1. ~(100 * unloaded >= BeltFraction * n)
      BY <1>3, <1>6, <1>8, <1>9 DEF BeltFraction
    <2> QED BY <1>3, <1>7, <1>8, <1>9, <2>1 DEF Result
  <1>10. CASE n < BeltMinSamples
    BY <1>7, <1>10
  <1> QED BY <1>3, <1>8, <1>9, <1>10

\* The first run alone has the samples that the slipping belt needs.
LEMMA MadeBelt ==
  ASSUME source = "belt_slip", Tiling, Drawn, Tiled = Total
  PROVE  DetectBeltSlip(Make) # "none"
  <1> DEFINE loaded == Loaded(Make.channels)
             n == Len(loaded)
             slack == {k \in 1..n : loaded[k][2] < BeltFloor}
             unloaded == Cardinality(slack)
             at == {k \in 1..Total : InRun(k - 1)}
             b == BeltMinSamples
             one == 1
  <1>1. /\ source \in Sources /\ source \in Sources \ {"tcc_never_satisfied"}
        /\ b \in Nat \ {0} /\ Total \in Nat \ {0} /\ b <= Total
        /\ RunRange = RunHealthy
    BY TotalPositive, StoryAssumption, TrendsAssumption
       DEF Tiling, Sources, HourSources, WeekSources, Total, RunRange
  <1>2. \A t \in 0..(Total - 1) : Amps(t) \in Int /\ Amps(t) <= 130
    BY <1>1, AmpsAre
  <1>3. /\ n \in Nat /\ IsFiniteSet(at) /\ n = Cardinality(at)
        /\ \A k \in 1..n : \E t \in 0..(Total - 1) : loaded[k] = <<t * RowTime, Amps(t)>>
    BY <1>1, MadeLoaded
  <1>4. slack = 1..n
    <2> SUFFICES ASSUME NEW k \in 1..n PROVE loaded[k][2] < BeltFloor
      OBVIOUS
    <2>1. PICK t \in 0..(Total - 1) : loaded[k] = <<t * RowTime, Amps(t)>>
      BY <1>3
    <2>2. loaded[k][2] = Amps(t) /\ Amps(t) \in Int /\ Amps(t) <= 130
      BY <1>2, <2>1
    <2> QED BY <2>2 DEF BeltFloor
  <1>5. unloaded = n
    <2>1. slack = 1..n
      BY <1>4
    <2> HIDE DEF slack, n
    <2> QED BY <1>3, <2>1, PlacesFinite
  <1>6. b <= n
    <2>1. one \in 1..Len(windows) /\ windows[one].run = 0
      BY <1>1, FirstWindow
    <2> DEFINE v == windows[one].rest
    <2>2. PICK run \in RunHealthy, l \in Nat \ {0} :
            /\ run \in Nat /\ l = IF 1 <= run THEN run ELSE 1
            /\ v = IF windows[one].run + l <= Total THEN windows[one].run + l ELSE Total
      <3> HIDE DEF one
      <3> QED BY <1>1, <2>1, DrawnWindow
    <2>3. b <= run
      BY TrendsAssumption
    <2>4. b <= v /\ v \in Nat
      <3> HIDE DEF v, b, one
      <3> QED BY <1>1, <2>1, <2>2, <2>3
    <2>5. 1..b \subseteq at
      <3> SUFFICES ASSUME NEW k \in 1..b PROVE k \in 1..Total /\ InRun(k - 1)
        OBVIOUS
      <3>1. k \in 1..Total /\ 0 <= k - 1 /\ k - 1 < v
        <4> HIDE DEF v, b
        <4> QED BY <1>1, <2>4
      <3>2. windows[one].run <= k - 1 /\ k - 1 < windows[one].rest
        BY <2>1, <3>1
      <3> HIDE DEF one
      <3> QED BY <2>1, <3>1, <3>2 DEF InRun
    <2> DEFINE P == 1..b
    <2>6. Cardinality(P) = b
      <3> HIDE DEF b
      <3> QED BY <1>1, PlacesFinite
    <2>7. P \subseteq at
      BY <2>5
    <2> HIDE DEF P, at
    <2>8. Cardinality(P) <= Cardinality(at)
      BY <1>3, <2>7, FS_Subset
    <2> QED BY <1>3, <2>6, <2>8
  <1>7. DetectBeltSlip(Make) =
          IF n < b THEN "none"
          ELSE Result(100 * unloaded >= BeltFraction * n, 100 * unloaded >= 85 * n)
    BY DEF DetectBeltSlip
  <1> HIDE DEF n, unloaded, b, at
  <1>8. ~(n < b) /\ 100 * unloaded >= BeltFraction * n
    BY <1>1, <1>3, <1>5, <1>6 DEF BeltFraction
  <1> QED BY <1>7, <1>8 DEF Result

-----------------------------------------------------------------------------
(* Days and trends.                                                        *)

\* Where most values are the least one, so is the median.
LEMMA MostlyLeast ==
  ASSUME NEW D, IsFiniteSet(D), D # {}, NEW v \in Int, NEW f \in [D -> Int],
         \A k \in D : v <= f[k], Cardinality(D) \div 2 + 1 <= Cardinality({k \in D : f[k] = v})
  PROVE  Median2(f) = 2 * v
  <1> DEFINE c == Cardinality(D)
             E == {k \in D : f[k] = v}
             m == c \div 2 + 1
             l == (c + 1) \div 2
  <1>1. c \in Nat /\ l \in 1..c /\ m \in 1..c /\ l <= m /\ m \in Int /\ DOMAIN f = D
    <2>1. c \in Nat /\ l \in 1..c /\ m \in 1..c
      BY Middle, FS_CardinalityType
    <2>2. l <= m
      <3> HIDE DEF c
      <3> QED BY <2>1
    <2> QED BY <2>1, <2>2
  <1>2. ASSUME NEW n \in 1..c, n <= m PROVE Ranked(f, n) = v
    <2> DEFINE r == Ranked(f, n)
               B == {k \in D : f[k] < r}
    <2>1. r \in Range(f) /\ Below(f, r) < n
      BY <1>1, RankedExists
    <2> HIDE DEF r
    <2>2. PICK k \in D : r = f[k]
      BY <2>1 DEF Range
    <2>3. r \in Int /\ v <= r
      BY <2>2
    <2>4. ~(v < r)
      <3> SUFFICES ASSUME v < r PROVE FALSE
        OBVIOUS
      <3>1. E \subseteq B /\ B \subseteq D
        BY <2>3
      <3>2. Below(f, r) = Cardinality(B)
        BY <1>1 DEF Below
      <3> HIDE DEF E, B
      <3>3. IsFiniteSet(B) /\ Cardinality(E) <= Cardinality(B)
        BY <3>1, FS_Subset
      <3>4. IsFiniteSet(E) /\ Cardinality(E) \in Nat /\ Cardinality(B) \in Nat
        BY <3>1, <3>3, FS_Subset, FS_CardinalityType
      <3>5. m <= Cardinality(E)
        BY DEF E
      <3> HIDE DEF m, c
      <3> QED BY <1>1, <1>2, <2>1, <3>2, <3>3, <3>4, <3>5
    <2> QED BY <2>3, <2>4 DEF r
  <1>3. Ranked(f, l) = v /\ Ranked(f, m) = v
    <2> HIDE DEF l, m, c
    <2> QED BY <1>1, <1>2
  <1>4. Median2(f) = Ranked(f, l) + Ranked(f, m)
    BY <1>1 DEF Median2
  <1> QED BY <1>3, <1>4

\* Samples that on day d are mostly base + d * more, and never less, have
\* those medians, and that slope.
LEMMA DailyLine ==
  ASSUME NEW samples, Len(samples) \in Nat, NEW N \in Nat, NEW base \in Int, NEW more \in Int,
         \A k \in 1..Len(samples) : samples[k][1] \in Nat /\ samples[k][2] \in Int,
         {samples[k][1] \div Day : k \in 1..Len(samples)} = 0..(N - 1),
         \A d \in 0..(N - 1) :
           LET K == {k \in 1..Len(samples) : samples[k][1] \div Day = d}
           IN /\ \A k \in K : base + d * more <= samples[k][2]
              /\ Cardinality(K) \div 2 + 1 <= Cardinality({k \in K : samples[k][2] = base + d * more})
  PROVE  /\ Len(DailyMedian2(samples)) = N /\ DailyMedian2(samples) \in [1..N -> Int]
         /\ \A n \in 1..N : DailyMedian2(samples)[n] = 2 * (base + (n - 1) * more)
  <1> DEFINE m == Len(samples)
             days == {samples[k][1] \div Day : k \in 1..m}
             Of(d) == {k \in 1..m : samples[k][1] \div Day = d}
             group(d) == [k \in Of(d) |-> samples[k][2]]
  <1>1. /\ Cardinality(days) = N /\ IsFiniteSet(days)
        /\ \A n \in 1..N : Nth(days, n) = n - 1
    BY NthOfInterval
  <1>2. Ascending(days) = [n \in 1..N |-> Nth(days, n)]
    BY <1>1 DEF Ascending
  <1>3. Len(Ascending(days)) = N /\ \A n \in 1..N : Ascending(days)[n] = n - 1
    <2> HIDE DEF days
    <2> QED BY <1>1, <1>2
  <1>4. DailyMedian2(samples) = [n \in 1..N |-> Median2(group(Ascending(days)[n]))]
    BY <1>3 DEF DailyMedian2
  <1>5. ASSUME NEW d \in 0..(N - 1) PROVE Median2(group(d)) = 2 * (base + d * more)
    <2> DEFINE K == Of(d)
               f == group(d)
               v == base + d * more
               E == {k \in K : f[k] = v}
    <2>1. IsFiniteSet(K)
      <3>1. IsFiniteSet(1..m) /\ K \subseteq 1..m
        BY PlacesFinite
      <3> HIDE DEF K
      <3> QED BY <3>1, FS_Subset
    <2>2. f \in [K -> Int] /\ \A k \in K : f[k] = samples[k][2]
      OBVIOUS
    <2>3. E = {k \in K : samples[k][2] = v}
      BY <2>2
    <2>4. (\A k \in K : v <= f[k]) /\ Cardinality(K) \div 2 + 1 <= Cardinality(E)
      BY <2>2, <2>3
    <2>5. v \in Int
      OBVIOUS
    <2>6. K # {}
      <3>1. d \in days
        OBVIOUS
      <3> QED BY <3>1
    <2> HIDE DEF K, f, v
    <2>7. Median2(f) = 2 * v
      BY <2>1, <2>2, <2>4, <2>5, <2>6, MostlyLeast
    <2> QED BY <2>7 DEF f, v
  <1>6. ASSUME NEW n \in 1..N
        PROVE  /\ Median2(group(Ascending(days)[n])) = 2 * (base + (n - 1) * more)
               /\ 2 * (base + (n - 1) * more) \in Int
    <2> DEFINE d == n - 1
    <2>1. d \in 0..(N - 1) /\ Ascending(days)[n] = d /\ d \in Int
      BY <1>3
    <2> HIDE DEF d, days, group
    <2>2. Median2(group(d)) = 2 * (base + d * more)
      BY <1>5, <2>1
    <2>3. 2 * (base + d * more) \in Int
      BY <2>1
    <2> QED BY <2>1, <2>2, <2>3 DEF d
  <1> HIDE DEF days, group
  <1>7. /\ Len(DailyMedian2(samples)) = N /\ DailyMedian2(samples) \in [1..N -> Int]
    BY <1>4, <1>6
  <1>8. \A n \in 1..N : DailyMedian2(samples)[n] = 2 * (base + (n - 1) * more)
    BY <1>4, <1>6
  <1> QED BY <1>7, <1>8

\* The slope of values on a line is that of the line.
LEMMA SlopeOfLine ==
  ASSUME NEW N \in Nat, N >= 2, NEW values \in [1..N -> Int], Len(values) = N,
         NEW base \in Int, NEW more \in Int,
         \A n \in 1..N : values[n] = 2 * (base + (n - 1) * more)
  PROVE  Slope(values) = Unit * more
  <1> DEFINE P == PairsOf(N)
             v == 1680 * more
             f == [p \in P |-> ((values[p[2]] - values[p[1]]) * 840) \div Lag(p[1], p[2])]
  <1>1. /\ IsFiniteSet(P) /\ P # {}
        /\ \A p \in P : p[1] \in 1..N /\ p[2] \in 1..N /\ p[1] < p[2]
    BY PairsAre
  <1>2. ASSUME NEW p \in P PROVE f[p] = v
    <2> DEFINE a == p[1]
               b == p[2]
    <2>1. a \in 1..N /\ b \in 1..N /\ a < b /\ a \in Int /\ b \in Int
      BY <1>1
    <2>2. f[p] = ((values[b] - values[a]) * 840) \div Lag(a, b)
      OBVIOUS
    <2> HIDE DEF a, b
    <2> DEFINE lag == b - a
               x == (values[b] - values[a]) * 840
    <2>3. lag \in Nat \ {0} /\ Lag(a, b) = lag
      BY <2>1 DEF Lag
    <2>4. x = lag * v
      <3>1. values[b] = 2 * (base + (b - 1) * more) /\ values[a] = 2 * (base + (a - 1) * more)
        BY <2>1
      <3> DEFINE y == (b - 1) * more
                 z == (a - 1) * more
                 w == lag * more
      <3>2. y \in Int /\ z \in Int /\ w \in Int /\ y - z = w
        BY <2>1
      <3>3. values[b] = 2 * (base + y) /\ values[a] = 2 * (base + z)
        BY <3>1
      <3>4. x = (2 * (base + y) - 2 * (base + z)) * 840
        BY <3>3
      <3>5. lag * v = 1680 * w
        BY <2>1
      <3> HIDE DEF y, z, w, x, lag, v
      <3> QED BY <3>2, <3>4, <3>5
    <2>5. x \div lag = v
      <3> HIDE DEF lag, x
      <3> DEFINE c == v + 1
      <3>1. x \in Int /\ v \in Int /\ c \in Int
        BY <2>3, <2>4
      <3> HIDE DEF v
      <3>2. v <= x \div lag
        <4>1. lag * v <= x
          BY <2>4, <3>1
        <4> QED BY <2>3, <3>1, <4>1, QuotientAbove
      <3>3. x \div lag < c
        <4>1. x < lag * c
          <5>1. lag * c = lag * v + lag /\ lag * v \in Int
            BY <2>3, <3>1
          <5> HIDE DEF c
          <5> QED BY <2>3, <2>4, <3>1, <5>1
        <4> HIDE DEF c
        <4> QED BY <2>3, <3>1, <4>1, QuotientBelow
      <3>4. x \div lag \in Int
        BY <2>3, <3>1
      <3> QED BY <3>1, <3>2, <3>3, <3>4
    <2> QED BY <2>2, <2>3, <2>5
  <1>3. v \in Int /\ f = [p \in P |-> v]
    BY <1>2
  <1>4. Slope(values) = Median2(f)
    BY DEF Slope
  <1> HIDE DEF P, f, v
  <1>5. f \in [P -> Int] /\ \A p \in P : v <= f[p] /\ f[p] <= v
    <2>1. \A p \in P : f[p] = v
      BY <1>3
    <2>2. v <= v
      BY <1>3
    <2> QED BY <1>3, <2>1, <2>2
  <1>6. Median2(f) \in Int /\ 2 * v <= Median2(f) /\ Median2(f) <= 2 * v
    BY <1>1, <1>3, <1>5, MedianBetween
  <1>7. Median2(f) = 2 * v
    BY <1>3, <1>6
  <1> QED BY <1>4, <1>7 DEF Unit, v

\* The rows of a segment that lasts weeks, by days.
LEMMA WeekIs ==
  ASSUME source \in WeekSources
  PROVE  LET q == Day \div 10
         IN /\ q \in Nat /\ 3 <= q /\ RowTime = 10 /\ Total = NDays * q /\ NDays \in Nat /\ NDays >= 2
            /\ source \in Sources
            /\ \A t \in Nat : DayOf(t) = t \div q /\ (t * RowTime) \div Day = t \div q
            /\ \A t \in 0..(Total - 1) : t \div q \in 0..(NDays - 1)
            /\ \A d \in 0..(NDays - 1) : \A t \in Int :
                 q * d <= t /\ t < q * d + q => t \in 0..(Total - 1) /\ t \div q = d
  <1> DEFINE q == Day \div 10
  <1>1. /\ q \in Nat /\ 3 <= q /\ Day = 10 * q /\ NDays \in Nat /\ NDays >= 2
    BY SegmentAssumption, DayAssumption, TrendsAssumption
  <1>2. RowTime = 10 /\ Total = NDays * q /\ source \in Sources
    BY DEF RowTime, Total, Sources
  <1> HIDE DEF q
  <1>3. ASSUME NEW t \in Nat PROVE (t * 10) \div Day = t \div q
    <2> DEFINE d == t \div q
               x == q * d
               e == d + 1
               y == 10 * t
    <2>1. d \in Int /\ x <= t /\ t < x + q /\ x \in Int
      <3>1. d \in Int /\ q * d <= t /\ t < q * d + q
        BY <1>1, Quotient
      <3> HIDE DEF d
      <3>2. q * d \in Int
        BY <1>1, <3>1
      <3> QED BY <3>1, <3>2
    <2> HIDE DEF d
    <2>2. Day * d = 10 * x /\ Day * e = 10 * x + 10 * q /\ Day \in Nat \ {0}
      BY <1>1, <2>1
    <2> HIDE DEF x
    <2>3. y \in Int /\ Day * d <= y /\ y < Day * e /\ e \in Int /\ t * 10 = y
      BY <1>1, <2>1, <2>2
    <2> HIDE DEF y
    <2>4. d <= y \div Day
      BY <2>1, <2>2, <2>3, QuotientAbove
    <2>5. y \div Day < e
      <3> HIDE DEF e
      <3> QED BY <2>2, <2>3, QuotientBelow
    <2>6. y \div Day \in Int
      BY <2>2, <2>3
    <2>7. y \div Day = d
      BY <2>1, <2>4, <2>5, <2>6
    <2> QED BY <2>3, <2>7 DEF d
  <1>4. ASSUME NEW t \in 0..(Total - 1) PROVE t \div q \in 0..(NDays - 1)
    <2>1. t \in Nat /\ t < q * NDays
      <3> DEFINE x == NDays * q
      <3>1. x \in Nat /\ q * NDays = x /\ Total = x
        BY <1>1, <1>2
      <3> HIDE DEF x
      <3> QED BY <3>1
    <2>2. t \div q < NDays /\ t \div q \in Nat
      BY <1>1, <2>1, QuotientBelow, QuotientNatural
    <2> QED BY <1>1, <2>2
  <1>5. ASSUME NEW d \in 0..(NDays - 1), NEW t \in Int, q * d <= t, t < q * d + q
        PROVE  t \in 0..(Total - 1) /\ t \div q = d
    <2> DEFINE e == d + 1
               x == q * d
    <2>1. d \in Int /\ e \in Int /\ x \in Nat /\ q * e = x + q /\ e <= NDays
      BY <1>1
    <2>2. d <= t \div q
      BY <1>1, <1>5, <2>1, QuotientAbove
    <2>3. t \div q < e
      <3>1. t < q * e
        BY <1>5, <2>1
      <3> HIDE DEF e
      <3> QED BY <1>1, <2>1, <3>1, QuotientBelow
    <2>4. t \div q \in Int
      BY <1>1
    <2>5. q * e <= Total
      <3>1. q * e <= q * NDays
        <4> HIDE DEF e
        <4> QED BY <1>1, <2>1, ProductGrows
      <3>2. q * NDays = Total
        BY <1>1, <1>2
      <3> QED BY <3>1, <3>2
    <2> HIDE DEF x
    <2>6. t \in 0..(Total - 1)
      <3>1. Total \in Nat
        BY <1>1, <1>2
      <3> QED BY <1>1, <1>5, <2>1, <2>5, <3>1 DEF x
    <2> QED BY <2>1, <2>2, <2>3, <2>4, <2>6
  <1>6. \A t \in Nat : DayOf(t) = (t * 10) \div Day
    BY <1>2 DEF DayOf
  <1> QED BY <1>1, <1>2, <1>3, <1>4, <1>5, <1>6 DEF q

\* Instants before the end of a day fall on that many days at most.
LEMMA FewDays ==
  ASSUME NEW n \in Nat, NEW m \in Nat, NEW S, NEW f,
         \A k \in 1..n : f[k] \in Nat /\ f[k] < Day * m,
         S = {f[k] \div Day : k \in 1..n}
  PROVE  Cardinality(S) \in Nat /\ Cardinality(S) <= m
  <1>1. S \subseteq 0..(m - 1)
    <2> SUFFICES ASSUME NEW k \in 1..n PROVE f[k] \div Day \in 0..(m - 1)
      OBVIOUS
    <2>1. f[k] \in Nat /\ f[k] < Day * m /\ Day \in Nat \ {0}
      BY DayAssumption
    <2>2. f[k] \div Day < m
      BY <2>1, QuotientBelow
    <2>3. f[k] \div Day \in Nat
      BY <2>1, QuotientNatural
    <2> QED BY <2>2, <2>3
  <1> DEFINE T == 0..(m - 1)
  <1>2. IsFiniteSet(T) /\ Cardinality(T) = m /\ S \subseteq T
    BY <1>1, NthOfInterval
  <1> HIDE DEF T
  <1> QED BY <1>2, FS_Subset, FS_CardinalityType

\* Hours do not make the days of a trend.
LEMMA HoursShort ==
  ASSUME source \in HourSources, NEW t \in 0..(Total - 1)
  PROVE  /\ t * RowTime \in Nat
         /\ t * RowTime < Day * (MotorMinDays - 1) /\ t * RowTime < Day * (SealMinDays - 1)
         /\ MotorMinDays - 1 \in Nat /\ SealMinDays - 1 \in Nat
  <1> DEFINE n == Total
             p == Day * (MotorMinDays - 1)
             q == Day * (SealMinDays - 1)
  <1>1. /\ n = NRows[source] /\ 2 * n <= p /\ 2 * n <= q /\ RowTime \in {1, 2} /\ n \in Nat \ {0}
    BY TotalPositive, TrendsAssumption DEF Total, RowTime, HourSources, WeekSources, Sources
  <1>2. MotorMinDays - 1 \in Nat /\ SealMinDays - 1 \in Nat /\ Day \in Nat
    BY TrendAssumption, DayAssumption
  <1>3. p \in Nat /\ q \in Nat
    BY <1>2
  <1> HIDE DEF n, p, q
  <1>4. t \in Nat /\ t < n
    BY <1>1 DEF n
  <1>5. t * RowTime \in Nat /\ t * RowTime < 2 * n
    BY <1>1, <1>4
  <1> QED BY <1>1, <1>2, <1>3, <1>5 DEF p, q

\* A segment of hours has too few days for the motor's trend.
LEMMA MadeNoMotorHours ==
  ASSUME source \in HourSources, Tiling, Tiled = Total
  PROVE  DetectMotorDegradation(Make) = "none"
  <1> DEFINE loaded == Loaded(Make.channels)
             n == Len(loaded)
             days == {loaded[k][1] \div Day : k \in 1..n}
             f == [k \in 1..n |-> loaded[k][1]]
             m == MotorMinDays - 1
             slope == MotorTrend(Make.channels)
  <1>1. /\ source \in Sources /\ n \in Nat
        /\ \A k \in 1..n : \E t \in 0..(Total - 1) : loaded[k] = <<t * RowTime, Amps(t)>>
    BY MadeLoaded DEF Sources
  <1>2. m \in Nat /\ m < MotorMinDays
    BY TrendAssumption
  <1>3. \A k \in 1..n : f[k] \in Nat /\ f[k] < Day * m
    <2> SUFFICES ASSUME NEW k \in 1..n PROVE loaded[k][1] \in Nat /\ loaded[k][1] < Day * m
      OBVIOUS
    <2>1. PICK t \in 0..(Total - 1) : loaded[k] = <<t * RowTime, Amps(t)>>
      BY <1>1
    <2>2. loaded[k][1] = t * RowTime
      BY <2>1
    <2> QED BY <2>2, HoursShort
  <1>4. days = {f[k] \div Day : k \in 1..n}
    OBVIOUS
  <1>5. DetectMotorDegradation(Make) =
          IF Cardinality(days) < MotorMinDays THEN "none"
          ELSE Result(slope >= MotorSlope * Unit, slope >= 3 * MotorSlope * Unit)
    BY DEF DetectMotorDegradation
  <1> HIDE DEF days, f, m, n, slope
  <1>6. Cardinality(days) \in Nat /\ Cardinality(days) <= m
    BY <1>1, <1>2, <1>3, <1>4, FewDays
  <1>7. Cardinality(days) < MotorMinDays
    BY <1>2, <1>6, TrendAssumption
  <1> QED BY <1>5, <1>7

\* Every row of a segment has a drip reading.
LEMMA MadeDrips ==
  ASSUME source \in Sources, Tiling, Tiled = Total
  PROVE  LET drips == Drips(Make.channels)
         IN /\ Len(drips) = Total /\ Total \in Nat \ {0}
            /\ \A k \in 1..Total : /\ drips[k].ts = (k - 1) * RowTime /\ drips[k].ts \in Nat
                                   /\ drips[k].drip = Make.channels[k].drip
                                   /\ drips[k].drip \in Int
            /\ source # "seal_failure" => \A k \in 1..Total : drips[k].drip \in 0..25
  <1> DEFINE rows == Make.channels
             n == Total
             all == [k \in 1..n |-> [ts |-> rows[k].ts, drip |-> rows[k].drip]]
             at == {k \in 1..n : rows[k].drip # NaN}
             drips == Drips(rows)
  <1>1. /\ n \in Nat \ {0} /\ Len(rows) = n /\ RowTime \in {1, 2, 10}
        /\ draw \in Draws[source]
        /\ \A k \in 1..n : RowIs(rows[k], k - 1)
    BY MadeRows, MadeTimes DEF Tiling
  <1>2. ASSUME NEW t \in Nat PROVE HealthyDrip(t) \in 0..25
    <2>1. HealthyDrip(t) \in Int /\ 0 <= HealthyDrip(t) /\ HealthyDrip(t) <= 25
      BY <1>1, DrawsAre
    <2> QED BY <2>1
  <1>3. ASSUME NEW k \in 1..n
        PROVE  /\ rows[k].drip \in Int /\ rows[k].ts = (k - 1) * RowTime
               /\ rows[k].ts \in Nat
               /\ source # "seal_failure" => rows[k].drip \in 0..25
    <2> DEFINE t == k - 1
    <2>1. t \in Nat /\ RowIs(rows[k], t)
      BY <1>1
    <2> HIDE DEF t, rows
    <2>2. HealthyDrip(t) \in 0..25
      BY <1>2, <2>1
    <2>3. rows[k].ts = t * RowTime /\ t * RowTime \in Nat
      BY <1>1, <2>1 DEF RowIs
    <2>4. CASE source = "seal_failure"
      <3>1. PerDay \in Nat
        BY <1>1, <2>4, PerDayIs DEF WeekSources
      <3>2. DayOf(t) \in Nat
        BY <2>3, QuotientNatural, DayAssumption DEF DayOf
      <3>3. DayOf(t) * PerDay \in Int
        BY <3>1, <3>2
      <3>4. rows[k].drip = HealthyDrip(t) + DayOf(t) * PerDay
        BY <2>1, <2>4 DEF RowIs
      <3> QED BY <2>2, <2>3, <2>4, <3>3, <3>4 DEF t
    <2>5. CASE source # "seal_failure"
      <3>1. rows[k].drip = HealthyDrip(t)
        BY <2>1, <2>5 DEF RowIs
      <3> QED BY <2>2, <2>3, <3>1 DEF t
    <2> QED BY <2>4, <2>5
  <1>4. at = 1..n
    BY <1>3, NaNAssumption
  <1>5. drips = Where(all, 1..n)
    BY <1>1, <1>4 DEF Drips
  <1> HIDE DEF at, drips, rows
  <1>6. Len(drips) = n /\ \A k \in 1..n : drips[k] = all[k]
    <2> HIDE DEF n, all
    <2>1. n \in Nat
      BY <1>1
    <2>2. Cardinality(1..n) = n /\ \A k \in 1..n : Nth(1..n, k) = k
      BY <2>1, NthOfInterval
    <2>3. drips = [k \in 1..n |-> all[Nth(1..n, k)]]
      BY <1>5, <2>2 DEF Where
    <2> QED BY <2>1, <2>2, <2>3
  <1>7. \A k \in 1..n : drips[k].ts = rows[k].ts /\ drips[k].drip = rows[k].drip
    BY <1>6
  <1> QED BY <1>1, <1>3, <1>6, <1>7 DEF drips, rows

\* Of the rows of a day, fewer than half have a blip.
LEMMA FewBlips ==
  ASSUME NEW a \in Nat, NEW q \in Nat, 3 <= q
  PROVE  LET K == (a + 1)..(a + q)
         IN /\ IsFiniteSet(K) /\ Cardinality(K) = q
            /\ q \div 2 + 1 <= Cardinality({k \in K : (k - 1) % 4 # 0})
  <1> DEFINE b == a + q
             K == (a + 1)..b
             B == {k \in K : (k - 1) % 4 = 0}
             E == {k \in K : (k - 1) % 4 # 0}
             lo == (a + 3) \div 4
             hi == (b - 1) \div 4 + 1
             J == lo..(hi - 1)
             f == [j \in J |-> 4 * j + 1]
             h == q \div 2
  <1>1. IsFiniteSet(K) /\ Cardinality(K) = q /\ b \in Nat
    <2> DEFINE c == a + 1
    <2>1. c \in Int /\ b \in Int /\ ~(c > b) /\ b - c + 1 = q
      OBVIOUS
    <2> HIDE DEF c, b
    <2>2. IsFiniteSet(c..b) /\ Cardinality(c..b) = IF c > b THEN 0 ELSE b - c + 1
      BY <2>1, FS_Interval
    <2> QED BY <2>1, <2>2 DEF c, b
  <1>2. /\ lo \in Nat /\ hi \in Nat /\ a <= 4 * lo /\ 4 * lo <= a + 3
        /\ b <= 4 * hi /\ 4 * hi <= b + 3 /\ lo <= hi
    <2> HIDE DEF b
    <2>1. b \in Nat /\ b = a + q
      BY <1>1 DEF b
    <2>2. lo \in Nat /\ hi \in Nat /\ a <= 4 * lo /\ 4 * lo <= a + 3
      BY <2>1
    <2>3. b <= 4 * hi /\ 4 * hi <= b + 3
      BY <2>1
    <2> HIDE DEF lo, hi
    <2> QED BY <2>1, <2>2, <2>3
  <1>3. B \subseteq {f[j] : j \in J}
    <2> SUFFICES ASSUME NEW k \in K, (k - 1) % 4 = 0 PROVE \E j \in J : f[j] = k
      OBVIOUS
    <2> DEFINE j == (k - 1) \div 4
    <2>1. k \in Int /\ a + 1 <= k /\ k <= b /\ j \in Int /\ 4 * j = k - 1
      BY <1>1
    <2> HIDE DEF j, b, lo, hi
    <2>2. j \in J /\ 4 * j + 1 = k
      BY <1>1, <1>2, <2>1
    <2> HIDE DEF J
    <2>3. f[j] = k
      BY <2>2
    <2> QED BY <2>2, <2>3
  <1>4. IsFiniteSet(J) /\ Cardinality(J) = hi - lo
    <2> HIDE DEF lo, hi
    <2> QED BY <1>2, SpanOf
  <1>5. IsFiniteSet(B) /\ Cardinality(B) \in Nat /\ Cardinality(B) <= hi - lo
    <2> DEFINE G == {f[j] : j \in J}
    <2> HIDE DEF f, J, B, hi, lo
    <2>1. IsFiniteSet(G) /\ Cardinality(G) <= hi - lo
      BY <1>4, FiniteImage
    <2>2. B \subseteq G
      BY <1>3
    <2> HIDE DEF G
    <2>3. IsFiniteSet(B) /\ Cardinality(B) <= Cardinality(G)
      BY <2>1, <2>2, FS_Subset
    <2>4. Cardinality(B) \in Nat /\ Cardinality(G) \in Nat
      BY <2>1, <2>3, FS_CardinalityType
    <2> QED BY <1>2, <2>1, <2>3, <2>4
  <1>6. Cardinality(E) = q - Cardinality(B)
    <2>1. E = K \ B /\ K \cap B = B
      OBVIOUS
    <2> HIDE DEF E, K, B
    <2>2. Cardinality(K \ B) = Cardinality(K) - Cardinality(K \cap B)
      BY <1>1, FS_Difference
    <2> QED BY <1>1, <2>1, <2>2
  <1>7. h + 1 <= q - Cardinality(B)
    <2>1. h \in Nat /\ (q = 2 * h \/ q = 2 * h + 1) /\ b = a + q
      OBVIOUS
    <2> DEFINE x == Cardinality(B)
    <2>2. x \in Nat /\ x <= hi - lo
      BY <1>5
    <2> HIDE DEF h, b, x, lo, hi
    <2>3. 4 * x <= q + 3
      BY <1>2, <2>1, <2>2
    <2> QED BY <2>1, <2>2, <2>3 DEF x
  <1> QED BY <1>1, <1>6, <1>7

\* The drip trend of weeks is what the fault adds a day, if anything.
LEMMA WeekDrips ==
  ASSUME source \in WeekSources, Tiling, Tiled = Total
  PROVE  LET drips == Drips(Make.channels)
             days == {drips[k].ts \div Day : k \in 1..Len(drips)}
             more == IF source = "seal_failure" THEN PerDay ELSE 0
         IN Cardinality(days) = NDays /\ SealTrend(drips) = Unit * more
  <1> DEFINE q == Day \div 10
             N == NDays
             T == Total
             drips == Drips(Make.channels)
             days == {drips[k].ts \div Day : k \in 1..Len(drips)}
             more == IF source = "seal_failure" THEN PerDay ELSE 0
             samples == [k \in 1..Len(drips) |-> <<drips[k].ts, drips[k].drip>>]
             base == 0
  <1>1. /\ q \in Nat /\ 3 <= q /\ T = N * q /\ N \in Nat /\ N >= 2 /\ source \in Sources
        /\ \A t \in Nat : DayOf(t) = t \div q /\ (t * RowTime) \div Day = t \div q
        /\ \A t \in 0..(T - 1) : t \div q \in 0..(N - 1)
        /\ \A d \in 0..(N - 1) : \A t \in Int :
             q * d <= t /\ t < q * d + q => t \in 0..(T - 1) /\ t \div q = d
    BY WeekIs
  <1>2. /\ Len(drips) = T /\ T \in Nat \ {0}
        /\ \A k \in 1..T : /\ drips[k].ts = (k - 1) * RowTime /\ drips[k].ts \in Nat
                           /\ drips[k].drip = Make.channels[k].drip /\ drips[k].drip \in Int
    BY <1>1, MadeDrips
  <1>3. draw \in Draws[source] /\ \A k \in 1..T : RowIs(Make.channels[k], k - 1)
    BY <1>1, MadeRows DEF Tiling
  <1>4. PerDay \in Nat /\ more \in Int
    BY <1>1, <1>3, PerDayIs
  <1> HIDE DEF q, N, T, drips, more
  <1>5. ASSUME NEW k \in 1..T
        PROVE  /\ k - 1 \in 0..(T - 1) /\ k - 1 \in Nat
               /\ drips[k].ts \div Day = (k - 1) \div q
               /\ (k - 1) \div q \in 0..(N - 1)
               /\ drips[k].drip = HealthyDrip(k - 1) + ((k - 1) \div q) * more
               /\ HealthyDrip(k - 1) \in Nat /\ ((k - 1) % 4 # 0 => HealthyDrip(k - 1) = 0)
    <2> DEFINE t == k - 1
    <2>1. t \in 0..(T - 1) /\ t \in Nat
      BY <1>2
    <2>2. RowIs(Make.channels[k], t)
      BY <1>3
    <2> HIDE DEF t
    <2>3. drips[k].ts \div Day = t \div q /\ t \div q \in 0..(N - 1) /\ DayOf(t) = t \div q
      BY <1>1, <1>2, <2>1 DEF t
    <2>4. HealthyDrip(t) \in Nat /\ (t % 4 # 0 => HealthyDrip(t) = 0)
      <3>1. HealthyDrip(t) \in Int /\ 0 <= HealthyDrip(t)
        BY <1>1, <1>3, <2>1, DrawsAre
      <3>2. t % 4 # 0 => HealthyDrip(t) = 0
        BY <1>1, <1>3, <2>1, DrawsAre
      <3> QED BY <3>1, <3>2
    <2>5. drips[k].drip = HealthyDrip(t) + (t \div q) * more
      <3>1. drips[k].drip = Make.channels[k].drip
        BY <1>2
      <3>2. CASE source = "seal_failure"
        BY <2>2, <2>3, <3>1, <3>2 DEF RowIs, more
      <3>3. CASE source # "seal_failure"
        <4>1. more = 0 /\ drips[k].drip = HealthyDrip(t)
          BY <2>2, <3>1, <3>3 DEF RowIs, more
        <4>2. (t \div q) * more = 0
          BY <2>3, <4>1
        <4> QED BY <2>4, <4>1, <4>2
      <3> QED BY <3>2, <3>3
    <2> QED BY <2>1, <2>3, <2>4, <2>5 DEF t
  <1>6. ASSUME NEW d \in 0..(N - 1)
        PROVE  {k \in 1..T : (k - 1) \div q = d} = (q * d + 1)..(q * d + q)
    <2> DEFINE x == q * d
    <2>1. x \in Nat
      BY <1>1
    <2>2. ASSUME NEW k \in 1..T, (k - 1) \div q = d PROVE k \in (x + 1)..(x + q)
      <3>1. k - 1 \in Int /\ q \in Nat \ {0}
        BY <1>1, <1>2
      <3>2. q * ((k - 1) \div q) <= k - 1 /\ k - 1 < q * ((k - 1) \div q) + q
        BY <3>1, Quotient
      <3>3. x <= k - 1 /\ k - 1 < x + q
        BY <2>2, <3>2
      <3> HIDE DEF x
      <3> QED BY <1>1, <1>2, <2>1, <3>3
    <2>3. ASSUME NEW k \in (x + 1)..(x + q) PROVE k \in 1..T /\ (k - 1) \div q = d
      <3> DEFINE t == k - 1
      <3>1. t \in Int /\ q * d <= t /\ t < q * d + q
        <4>1. x <= t /\ t < x + q /\ t \in Int
          <5> HIDE DEF x
          <5> QED BY <1>1, <2>1
        <4> QED BY <4>1
      <3> HIDE DEF t
      <3>2. t \in 0..(T - 1) /\ t \div q = d
        BY <1>1, <3>1
      <3>3. k \in 1..T
        <4>1. k = t + 1
          BY <2>1, <1>1 DEF t
        <4> QED BY <1>2, <3>2, <4>1
      <3> QED BY <3>2, <3>3 DEF t
    <2> HIDE DEF x
    <2>4. \A k : k \in 1..T /\ (k - 1) \div q = d <=> k \in (x + 1)..(x + q)
      BY <2>2, <2>3
    <2>5. {k \in 1..T : (k - 1) \div q = d} = (x + 1)..(x + q)
      BY <2>4
    <2> QED BY <2>5 DEF x
  <1>7. Len(samples) = T /\ \A k \in 1..T : samples[k] = <<drips[k].ts, drips[k].drip>>
    BY <1>2
  <1>8. ASSUME NEW d \in 0..(N - 1)
        PROVE  LET K == {k \in 1..Len(samples) : samples[k][1] \div Day = d}
               IN /\ \A k \in K : base + d * more <= samples[k][2]
                  /\ Cardinality(K) \div 2 + 1
                       <= Cardinality({k \in K : samples[k][2] = base + d * more})
    <2> DEFINE x == q * d
               K == {k \in 1..Len(samples) : samples[k][1] \div Day = d}
               I == (x + 1)..(x + q)
               v == d * more
               E == {k \in K : samples[k][2] = base + v}
               F == {k \in I : (k - 1) % 4 # 0}
    <2>1. x \in Nat /\ v \in Int /\ base + v = v
      BY <1>1, <1>4
    <2>2. K = I
      <3>1. K = {k \in 1..T : (k - 1) \div q = d}
        BY <1>5, <1>7
      <3> QED BY <1>6, <3>1
    <2>3. I \subseteq 1..T /\ \A k \in I : (k - 1) \div q = d
      BY <1>6
    <2>4. \A k \in I : samples[k][2] = HealthyDrip(k - 1) + v
      BY <1>5, <1>7, <2>3
    <2>5. IsFiniteSet(I) /\ Cardinality(I) = q /\ q \div 2 + 1 <= Cardinality(F)
      <3> HIDE DEF x
      <3> QED BY <1>1, <2>1, FewBlips
    <2> HIDE DEF x, v, samples, I
    <2>6. \A k \in K : base + v <= samples[k][2]
      <3> SUFFICES ASSUME NEW k \in K PROVE base + v <= samples[k][2]
        OBVIOUS
      <3>1. k \in I
        BY <2>2
      <3>2. samples[k][2] = HealthyDrip(k - 1) + v /\ HealthyDrip(k - 1) \in Nat
        BY <1>5, <2>3, <2>4, <3>1
      <3> QED BY <2>1, <3>2
    <2>7. F \subseteq E
      <3> SUFFICES ASSUME NEW k \in I, (k - 1) % 4 # 0 PROVE k \in K /\ samples[k][2] = base + v
        OBVIOUS
      <3>1. samples[k][2] = HealthyDrip(k - 1) + v /\ HealthyDrip(k - 1) = 0
        BY <1>5, <2>3, <2>4
      <3>2. k \in K
        BY <2>2
      <3> HIDE DEF K
      <3> QED BY <2>1, <3>1, <3>2
    <2>8. Cardinality(K) = q /\ E \subseteq K /\ IsFiniteSet(K)
      BY <2>2, <2>5
    <2> HIDE DEF K, E, F
    <2>9. Cardinality(F) <= Cardinality(E)
      BY <2>7, <2>8, FS_Subset
    <2>10. Cardinality(F) \in Nat /\ Cardinality(E) \in Nat
      <3>1. IsFiniteSet(E)
        BY <2>8, FS_Subset
      <3>2. IsFiniteSet(F)
        BY <2>7, <3>1, FS_Subset
      <3> QED BY <3>1, <3>2, FS_CardinalityType
    <2>11. q \div 2 + 1 \in Nat
      BY <1>1
    <2>12. Cardinality(K) \div 2 + 1 <= Cardinality(E)
      BY <2>5, <2>8, <2>9, <2>10, <2>11
    <2> QED BY <2>6, <2>12 DEF E, K, v
  <1>9. days = 0..(N - 1)
    <2>1. days \subseteq 0..(N - 1)
      BY <1>2, <1>5
    <2>2. ASSUME NEW d \in 0..(N - 1) PROVE d \in days
      <3> DEFINE k == q * d + 1
      <3>1. k \in (q * d + 1)..(q * d + q)
        <4>1. q * d \in Int
          BY <1>1
        <4> QED BY <1>1, <4>1
      <3> HIDE DEF k
      <3>2. k \in 1..T /\ (k - 1) \div q = d
        BY <1>6, <3>1
      <3> QED BY <1>2, <1>5, <3>2
    <2> QED BY <2>1, <2>2
  <1>10. {samples[k][1] \div Day : k \in 1..Len(samples)} = 0..(N - 1)
    <2>1. {samples[k][1] \div Day : k \in 1..Len(samples)} = days
      BY <1>2, <1>7
    <2> QED BY <1>9, <2>1
  <1>11. \A k \in 1..Len(samples) : samples[k][1] \in Nat /\ samples[k][2] \in Int
    BY <1>2, <1>7
  <1> DEFINE m == DailyMedian2(samples)
  <1>12. /\ Len(m) = N /\ m \in [1..N -> Int]
         /\ \A n \in 1..N : m[n] = 2 * (base + (n - 1) * more)
    <2>1. Len(samples) \in Nat /\ base \in Int /\ N \in Nat /\ more \in Int
      BY <1>1, <1>2, <1>4, <1>7
    <2> HIDE DEF samples, base
    <2> QED BY <1>8, <1>10, <1>11, <2>1, DailyLine, ZenonT(60)
  <1>13. Slope(m) = Unit * more
    <2>1. base \in Int
      OBVIOUS
    <2> HIDE DEF m, base
    <2> QED BY <1>1, <1>4, <1>12, <2>1, SlopeOfLine
  <1>14. Cardinality(days) = N
    BY <1>1, <1>9, NthOfInterval
  <1> QED BY <1>13, <1>14 DEF SealTrend, N, drips, more

\* Blips are no sustained drip.
LEMMA QuietFractions ==
  ASSUME NEW drips, NEW n \in Nat, Len(drips) = n, SealSamples(drips) \in Nat \ {0},
         \A k \in 1..n : drips[k].drip \in 0..25
  PROVE  Max({0} \union SustainedFractions(drips)) = 0
  <1> DEFINE w == SealSamples(drips)
             At(k) == Min({k, w})
             High(k) == {j \in (k - At(k) + 1)..k : drips[j].drip >= SealFloor}
             S == SustainedFractions(drips)
  <1>1. ASSUME NEW k \in 1..n PROVE (100 * Cardinality(High(k))) \div At(k) = 0
    <2>1. k \in Int /\ w \in Int /\ k >= 1 /\ w >= 1
      OBVIOUS
    <2> HIDE DEF w
    <2>2. At(k) = (IF k <= w THEN k ELSE w)
      BY <2>1, OfTwo, Zenon
    <2>3. At(k) \in 1..k
      <3> HIDE DEF At
      <3> QED BY <2>1, <2>2
    <2>4. (k - At(k) + 1)..k \subseteq 1..n
      <3> HIDE DEF At
      <3> QED BY <2>1, <2>3
    <2>5. High(k) = {}
      <3> SUFFICES ASSUME NEW j \in (k - At(k) + 1)..k PROVE ~(drips[j].drip >= SealFloor)
        OBVIOUS
      <3> HIDE DEF At
      <3>1. drips[j].drip \in 0..25
        BY <2>4
      <3> DEFINE x == drips[j].drip
      <3>2. x \in 0..25
        BY <3>1
      <3> HIDE DEF x
      <3>3. ~(x >= SealFloor)
        BY <3>2 DEF SealFloor
      <3> QED BY <3>3 DEF x
    <2>6. Cardinality(High(k)) = 0
      BY <2>5, FS_EmptySet
    <2> HIDE DEF High, At
    <2> QED BY <2>3, <2>6
  <1>2. S \subseteq {0}
    BY <1>1 DEF SustainedFractions
  <1>3. S \in SUBSET Int /\ IsFiniteSet(S)
    <2> DEFINE Z == {0}
    <2>1. IsFiniteSet(Z)
      BY FS_Singleton
    <2>2. S \subseteq Z /\ S \in SUBSET Int
      BY <1>2
    <2> HIDE DEF S, Z
    <2> QED BY <2>1, <2>2, FS_Subset
  <1> HIDE DEF S
  <1>4. Max({0} \union S) # 0 => Max({0} \union S) \in S
    BY <1>3, MaxOrZero
  <1> QED BY <1>2, <1>4 DEF S

\* A drip a row.
LEMMA MadePeriod ==
  ASSUME source \in Sources, Tiling, Tiled = Total
  PROVE  SealSamples(Drips(Make.channels)) \in Nat \ {0}
  <1> DEFINE drips == Drips(Make.channels)
             rows == Make.channels
             n == Total
             p == 2 * RowTime
             q == (2 * SealWindow) \div p
             samples == SealSamples(drips)
  <1>1. /\ Len(drips) = n /\ Len(rows) = n /\ n \in Nat \ {0}
        /\ \A k \in 1..n : drips[k].ts = rows[k].ts
        /\ RowTime \in {1, 2, 10} /\ Period2(rows) = p
    BY MadeDrips, MadeRows, MadeTimes
  <1> HIDE DEF drips, rows, n
  <1>2. Period2(drips) = Period2(rows)
    <2>1. \A k \in 1..(n - 1) : k \in 1..n /\ k + 1 \in 1..n
      BY <1>1
    <2>2. [k \in 1..(n - 1) |-> drips[k + 1].ts - drips[k].ts]
            = [k \in 1..(n - 1) |-> rows[k + 1].ts - rows[k].ts]
      BY <1>1, <2>1
    <2> QED BY <1>1, <2>2 DEF Period2
  <1>3. q \in Int
    BY <1>1, SealAssumption, Quotient
  <1>4. samples = Max({1, q})
    <2>1. p # 0
      BY <1>1
    <2>2. ~(Len(drips) < 2)
      BY <1>1, <1>2, <2>1 DEF Period2
    <2> HIDE DEF p
    <2>3. Period2(drips) = p
      BY <1>1, <1>2
    <2> QED BY <2>2, <2>3 DEF SealSamples
  <1> HIDE DEF q, samples
  <1>5. Max({1, q}) = IF 1 <= q THEN q ELSE 1
    <2>1. 1 \in Int
      OBVIOUS
    <2> QED BY <1>3, <2>1, OfTwo, Zenon
  <1> QED BY <1>3, <1>4, <1>5 DEF drips, samples

\* Blips alone neither sustain a drip nor make it grow.
LEMMA MadeNoSeal ==
  ASSUME source \in Sources \ {"seal_failure"}, Tiling, Tiled = Total
  PROVE  DetectSealFailure(Make) = "none"
  <1> DEFINE drips == Drips(Make.channels)
             n == Total
             days == {drips[k].ts \div Day : k \in 1..Len(drips)}
             most == Max({0} \union SustainedFractions(drips))
             trend == Cardinality(days) >= SealMinDays
                        /\ 10 * SealTrend(drips) >= SealSlope10 * Unit
  <1>1. /\ Len(drips) = n /\ n \in Nat \ {0}
        /\ \A k \in 1..n : drips[k].ts = (k - 1) * RowTime /\ drips[k].drip \in 0..25
    BY MadeDrips
  <1>2. most = 0
    <2>1. SealSamples(drips) \in Nat \ {0}
      BY MadePeriod
    <2> HIDE DEF drips, n
    <2> QED BY <1>1, <2>1, QuietFractions
  <1>3. ~trend
    <2>1. CASE source \in HourSources
      <3> DEFINE m == SealMinDays - 1
                 f == [k \in 1..n |-> drips[k].ts]
      <3>1. m \in Nat /\ m < SealMinDays
        BY TrendAssumption
      <3>2. \A k \in 1..n : f[k] \in Nat /\ f[k] < Day * m
        <4> SUFFICES ASSUME NEW k \in 1..n PROVE drips[k].ts \in Nat /\ drips[k].ts < Day * m
          OBVIOUS
        <4> DEFINE t == k - 1
        <4>1. t \in 0..(Total - 1) /\ drips[k].ts = t * RowTime
          BY <1>1
        <4> HIDE DEF t, drips
        <4> QED BY <2>1, <4>1, HoursShort
      <3>3. days = {f[k] \div Day : k \in 1..n}
        BY <1>1
      <3> HIDE DEF days, f, m, n, drips
      <3>4. Cardinality(days) \in Nat /\ Cardinality(days) <= m
        BY <1>1, <3>1, <3>2, <3>3, FewDays
      <3>5. ~(Cardinality(days) >= SealMinDays)
        BY <3>1, <3>4, TrendAssumption
      <3> QED BY <3>5 DEF days, drips
    <2>2. CASE source \in WeekSources
      <3>1. SealTrend(drips) = Unit * 0
        BY <2>2, WeekDrips
      <3>2. ~(10 * SealTrend(drips) >= SealSlope10 * Unit)
        BY <3>1 DEF Unit, SealSlope10
      <3> QED BY <3>2
    <2> QED BY <2>1, <2>2 DEF Sources
  <1>4. drips # <<>>
    BY <1>1
  <1>5. DetectSealFailure(Make) =
          Result(most >= SealFraction \/ trend, (most >= SealFraction /\ trend) \/ most >= 84)
    BY <1>4 DEF DetectSealFailure
  <1> HIDE DEF most, trend
  <1>6. ~(most >= SealFraction)
    BY <1>2 DEF SealFraction
  <1> QED BY <1>3, <1>5, <1>6 DEF Result

\* A leak that grows day by day is found.
LEMMA MadeSeal ==
  ASSUME source = "seal_failure", Tiling, Tiled = Total
  PROVE  DetectSealFailure(Make) # "none"
  <1> DEFINE drips == Drips(Make.channels)
             days == {drips[k].ts \div Day : k \in 1..Len(drips)}
             most == Max({0} \union SustainedFractions(drips))
             trend == Cardinality(days) >= SealMinDays
                        /\ 10 * SealTrend(drips) >= SealSlope10 * Unit
  <1>1. /\ source \in WeekSources /\ source \in Sources /\ draw \in Draws[source]
    BY DEF WeekSources, Sources, Tiling
  <1>2. Cardinality(days) = NDays /\ SealTrend(drips) = Unit * PerDay
    BY <1>1, WeekDrips
  <1>3. PerDay \in Nat /\ SealSlope10 <= 10 * PerDay
    BY <1>1, PerDayIs
  <1>4. trend
    <2> HIDE DEF days, drips
    <2>1. NDays >= SealMinDays /\ NDays \in Int /\ SealMinDays \in Int
      BY TrendsAssumption, TrendAssumption, SegmentAssumption
    <2>2. 10 * SealTrend(drips) >= SealSlope10 * Unit
      BY <1>2, <1>3 DEF Unit, SealSlope10
    <2> QED BY <1>2, <2>1, <2>2
  <1>5. drips # <<>>
    BY <1>1, MadeDrips
  <1>6. DetectSealFailure(Make) =
          Result(most >= SealFraction \/ trend, (most >= SealFraction /\ trend) \/ most >= 84)
    BY <1>5 DEF DetectSealFailure
  <1> HIDE DEF most, trend
  <1> QED BY <1>4, <1>6 DEF Result

\* A hold is shorter than a day: there is a run on every day.
LEMMA EveryDayRuns ==
  ASSUME source \in WeekSources, Tiling, Drawn, Tiled = Total, NEW d \in 0..(NDays - 1)
  PROVE  \E t \in 0..(Total - 1) : InRun(t) /\ t \div (Day \div 10) = d
  <1> DEFINE q == Day \div 10
             x == q * d
  <1>1. /\ q \in Nat /\ 3 <= q /\ source \in Sources /\ source \in Sources \ {"tcc_never_satisfied"}
        /\ Total \in Nat \ {0} /\ HoldRange = HoldCoarse
        /\ \A t \in Int : q * d <= t /\ t < q * d + q => t \in 0..(Total - 1) /\ t \div q = d
    BY WeekIs, TotalPositive DEF HoldRange, WeekSources
  <1>2. \A hold \in HoldCoarse : hold < q
    BY TrendsAssumption
  <1>3. x \in Nat
    BY <1>1
  <1> HIDE DEF q
  <1>4. \A t \in Int : x <= t /\ t < x + q => t \in 0..(Total - 1) /\ t \div q = d
    BY <1>1
  <1> HIDE DEF x
  <1> DEFINE c == Cycle(x)
             u == windows[c].run
             v == windows[c].rest
             e == windows[c].next
  <1>5. x < Total
    BY <1>1, <1>3, <1>4
  <1>6. c \in 1..Len(windows) /\ u <= x /\ x < e
    BY <1>1, <1>3, <1>5, CycleIs
  <1>7. /\ u \in Nat /\ v \in Nat /\ e \in Nat /\ u < v /\ v <= e /\ e <= Total
        /\ Len(windows) \in Nat
    BY <1>1, <1>6, WindowsAre
  <1> HIDE DEF c
  <1>8. CASE x < v
    <2>1. InRun(x)
      BY <1>6, <1>8 DEF InRun
    <2>2. x \in 0..(Total - 1) /\ x \div q = d
      BY <1>1, <1>3, <1>4
    <2> QED BY <2>1, <2>2 DEF q
  <1>9. CASE ~(x < v)
    <2>1. PICK hold \in HoldCoarse : hold \in Nat /\ e = IF v + hold <= Total THEN v + hold ELSE Total
      BY <1>1, <1>6, DrawnWindow
    <2>2. e < x + q
      <3>1. hold < q
        BY <1>2
      <3> HIDE DEF u, v, e
      <3> QED BY <1>1, <1>3, <1>7, <1>9, <2>1, <3>1
    <2>3. e \in 0..(Total - 1) /\ e \div q = d
      <3> HIDE DEF u, v, e
      <3>1. x <= e /\ e \in Int
        BY <1>6, <1>7, <1>3
      <3> QED BY <1>4, <2>2, <3>1
    <2>4. c + 1 \in 1..Len(windows) /\ windows[c + 1].run = e
      <3>1. windows[c].next < Total
        BY <1>1, <2>3
      <3> QED BY <1>1, <1>6, <3>1, NextWindow
    <2> DEFINE f == c + 1
    <2> HIDE DEF f
    <2>5. windows[f].run = e /\ e < windows[f].rest
      <3>1. f \in 1..Len(windows) /\ windows[f].run = e
        BY <2>4 DEF f
      <3>2. windows[f].run < windows[f].rest
        BY <1>1, <3>1, WindowsAre
      <3> QED BY <3>1, <3>2
    <2>6. InRun(e)
      <3>1. f \in 1..Len(windows)
        BY <2>4 DEF f
      <3>2. windows[f].run <= e
        BY <1>7, <2>5
      <3> HIDE DEF e
      <3> QED BY <2>5, <3>1, <3>2 DEF InRun
    <2> QED BY <2>3, <2>6 DEF q
  <1> QED BY <1>8, <1>9

\* A median is between two of the values.
LEMMA MedianWithin ==
  ASSUME NEW D, IsFiniteSet(D), D # {}, NEW f \in [D -> Int]
  PROVE  /\ Median2(f) \in Int
         /\ \E x \in D : 2 * f[x] <= Median2(f)
         /\ \E y \in D : Median2(f) <= 2 * f[y]
  <1> DEFINE S == {f[k] : k \in D}
             lo == Min(S)
             hi == Max(S)
  <1>1. S \in SUBSET Int /\ S # {}
    OBVIOUS
  <1>2. IsFiniteSet(S)
    BY FiniteImage
  <1>3. lo \in S /\ hi \in S /\ \A k \in D : f[k] \in S
    <2>1. \A k \in D : f[k] \in S
      OBVIOUS
    <2> HIDE DEF S
    <2> QED BY <1>1, <1>2, <2>1, MaxOfFinite, MinOfFinite
  <1>4. \A k \in D : lo <= f[k] /\ f[k] <= hi
    <2> HIDE DEF S
    <2> QED BY <1>1, <1>2, <1>3, MaxOfFinite, MinOfFinite
  <1>5. PICK x \in D : f[x] = lo
    BY <1>3
  <1>6. PICK y \in D : f[y] = hi
    BY <1>3
  <1>7. lo \in Int /\ hi \in Int
    BY <1>1, <1>3
  <1> HIDE DEF lo, hi, S
  <1>8. Median2(f) \in Int /\ 2 * lo <= Median2(f) /\ Median2(f) <= 2 * hi
    BY <1>4, <1>7, MedianBetween
  <1> QED BY <1>5, <1>6, <1>8

\* The median of a day is between two samples of that day.
LEMMA DaysWithin ==
  ASSUME NEW samples, Len(samples) \in Nat, NEW N \in Nat,
         \A k \in 1..Len(samples) : samples[k][1] \in Nat /\ samples[k][2] \in Int,
         {samples[k][1] \div Day : k \in 1..Len(samples)} = 0..(N - 1)
  PROVE  LET m == DailyMedian2(samples)
         IN /\ Len(m) = N /\ m \in [1..N -> Int]
            /\ \A n \in 1..N : \E x \in 1..Len(samples) :
                 samples[x][1] \div Day = n - 1 /\ 2 * samples[x][2] <= m[n]
            /\ \A n \in 1..N : \E y \in 1..Len(samples) :
                 samples[y][1] \div Day = n - 1 /\ m[n] <= 2 * samples[y][2]
  <1> DEFINE c == Len(samples)
             days == {samples[k][1] \div Day : k \in 1..c}
             Of(d) == {k \in 1..c : samples[k][1] \div Day = d}
             group(d) == [k \in Of(d) |-> samples[k][2]]
             m == DailyMedian2(samples)
  <1>1. /\ Cardinality(days) = N /\ IsFiniteSet(days)
        /\ \A n \in 1..N : Nth(days, n) = n - 1
    BY NthOfInterval
  <1>2. Ascending(days) = [n \in 1..N |-> Nth(days, n)]
    BY <1>1 DEF Ascending
  <1>3. Len(Ascending(days)) = N /\ \A n \in 1..N : Ascending(days)[n] = n - 1
    <2> HIDE DEF days
    <2> QED BY <1>1, <1>2
  <1>4. m = [n \in 1..N |-> Median2(group(Ascending(days)[n]))]
    BY <1>3 DEF DailyMedian2
  <1>5. ASSUME NEW d \in 0..(N - 1)
        PROVE  /\ Median2(group(d)) \in Int
               /\ \E x \in 1..c : samples[x][1] \div Day = d /\ 2 * samples[x][2] <= Median2(group(d))
               /\ \E y \in 1..c : samples[y][1] \div Day = d /\ Median2(group(d)) <= 2 * samples[y][2]
    <2> DEFINE K == Of(d)
               f == group(d)
    <2>1. IsFiniteSet(K)
      <3>1. IsFiniteSet(1..c) /\ K \subseteq 1..c
        BY PlacesFinite
      <3> HIDE DEF K
      <3> QED BY <3>1, FS_Subset
    <2>2. f \in [K -> Int] /\ \A k \in K : f[k] = samples[k][2]
      OBVIOUS
    <2>3. K # {}
      <3>1. d \in days
        OBVIOUS
      <3> QED BY <3>1
    <2>4. \A k \in K : k \in 1..c /\ samples[k][1] \div Day = d
      OBVIOUS
    <2> HIDE DEF K, f
    <2>5. Median2(f) \in Int
      BY <2>1, <2>2, <2>3, MedianWithin
    <2>6. PICK x \in K : 2 * f[x] <= Median2(f)
      BY <2>1, <2>2, <2>3, MedianWithin
    <2>7. PICK y \in K : Median2(f) <= 2 * f[y]
      BY <2>1, <2>2, <2>3, MedianWithin
    <2>8. x \in 1..c /\ samples[x][1] \div Day = d /\ 2 * samples[x][2] <= Median2(f)
      BY <2>2, <2>4, <2>6
    <2>9. y \in 1..c /\ samples[y][1] \div Day = d /\ Median2(f) <= 2 * samples[y][2]
      BY <2>2, <2>4, <2>7
    <2> QED BY <2>5, <2>8, <2>9 DEF f
  <1> HIDE DEF days, group
  <1>6. ASSUME NEW n \in 1..N
        PROVE  /\ n - 1 \in 0..(N - 1) /\ m[n] = Median2(group(n - 1)) /\ m[n] \in Int
               /\ \E x \in 1..c : samples[x][1] \div Day = n - 1 /\ 2 * samples[x][2] <= m[n]
               /\ \E y \in 1..c : samples[y][1] \div Day = n - 1 /\ m[n] <= 2 * samples[y][2]
    <2> DEFINE d == n - 1
    <2>1. d \in 0..(N - 1)
      OBVIOUS
    <2>2. m[n] = Median2(group(d))
      BY <1>3, <1>4
    <2> HIDE DEF d, m
    <2>3. /\ Median2(group(d)) \in Int
          /\ \E x \in 1..c : samples[x][1] \div Day = d /\ 2 * samples[x][2] <= Median2(group(d))
          /\ \E y \in 1..c : samples[y][1] \div Day = d /\ Median2(group(d)) <= 2 * samples[y][2]
      BY <1>5, <2>1
    <2> QED BY <2>1, <2>2, <2>3 DEF d
  <1>7. Len(m) = N /\ m \in [1..N -> Int]
    <2>1. Len(m) = N /\ DOMAIN m = 1..N
      BY <1>4
    <2>2. m = [n \in 1..N |-> m[n]]
      BY <1>4
    <2> HIDE DEF m
    <2> QED BY <1>6, <2>1, <2>2
  <1> QED BY <1>6, <1>7

\* A quotient does not exceed what the dividend does not.
LEMMA QuotientUpTo ==
  ASSUME NEW a \in Int, NEW b \in Nat \ {0}, NEW v \in Int, a <= b * v
  PROVE  a \div b <= v
  <1> DEFINE c == v + 1
             w == b * v
  <1>1. c \in Int /\ w \in Int /\ b * c = w + b /\ b \in Nat \ {0}
    OBVIOUS
  <1>2. a < b * c
    <2>1. a <= w
      OBVIOUS
    <2> HIDE DEF w, c
    <2> QED BY <1>1, <2>1
  <1> HIDE DEF c
  <1>3. a \div b < c
    BY <1>1, <1>2, QuotientBelow
  <1>4. a \div b \in Int
    BY Quotient
  <1> QED BY <1>3, <1>4 DEF c

\* Values that rise at least, or at most, so much from each to each later
\* one have that slope at least, or at most.
LEMMA SlopeBounds ==
  ASSUME NEW N \in Nat, N >= 2, NEW values \in [1..N -> Int], Len(values) = N, NEW more \in Int
  PROVE  /\ Slope(values) \in Int
         /\ (\A a, b \in 1..N : a < b => 2 * ((b - a) * more) <= values[b] - values[a]) =>
              Unit * more <= Slope(values)
         /\ (\A a, b \in 1..N : a < b => values[b] - values[a] <= 2 * ((b - a) * more)) =>
              Slope(values) <= Unit * more
  <1> DEFINE P == PairsOf(N)
             v == 1680 * more
             f == [p \in P |-> ((values[p[2]] - values[p[1]]) * 840) \div Lag(p[1], p[2])]
  <1>1. /\ IsFiniteSet(P) /\ P # {}
        /\ \A p \in P : p[1] \in 1..N /\ p[2] \in 1..N /\ p[1] < p[2]
    BY PairsAre
  <1>2. ASSUME NEW p \in P
        PROVE  /\ f[p] \in Int
               /\ 2 * ((p[2] - p[1]) * more) <= values[p[2]] - values[p[1]] => v <= f[p]
               /\ values[p[2]] - values[p[1]] <= 2 * ((p[2] - p[1]) * more) => f[p] <= v
    <2> DEFINE a == p[1]
               b == p[2]
               lag == b - a
               rise == values[b] - values[a]
               x == rise * 840
               w == lag * more
               c == v + 1
    <2>1. a \in 1..N /\ b \in 1..N /\ a < b /\ a \in Int /\ b \in Int
      BY <1>1
    <2>2. f[p] = x \div Lag(a, b)
      OBVIOUS
    <2> HIDE DEF a, b
    <2>3. lag \in Nat \ {0} /\ Lag(a, b) = lag
      BY <2>1 DEF Lag
    <2>4. rise \in Int
      BY <2>1
    <2> HIDE DEF lag, rise
    <2>5. w \in Int /\ v \in Int /\ c \in Int /\ lag * v = 1680 * w /\ lag * c = 1680 * w + lag
      BY <2>3
    <2>6. x \in Int
      BY <2>4
    <2>7. x \div lag \in Int
      BY <2>3, <2>6
    <2> HIDE DEF w, v
    <2>8. ASSUME 2 * w <= rise PROVE v <= x \div lag
      <3>1. lag * v <= x
        BY <2>4, <2>5, <2>8
      <3> HIDE DEF x
      <3> QED BY <2>3, <2>5, <2>6, <3>1, QuotientAbove
    <2>9. ASSUME rise <= 2 * w PROVE x \div lag <= v
      <3>1. x <= lag * v
        BY <2>4, <2>5, <2>9
      <3> HIDE DEF x, c
      <3> QED BY <2>3, <2>5, <2>6, <3>1, QuotientUpTo
    <2> HIDE DEF x
    <2>10. f[p] = x \div lag
      BY <2>2, <2>3
    <2> HIDE DEF f
    <2> QED BY <2>7, <2>8, <2>9, <2>10 DEF w, lag, rise, a, b
  <1>3. Slope(values) = Median2(f)
    BY DEF Slope
  <1>4. v \in Int /\ 2 * v = Unit * more
    BY DEF Unit
  <1>5. f \in [P -> Int]
    BY <1>2
  <1> HIDE DEF P, f, v
  <1>6. PICK x \in P : 2 * f[x] <= Median2(f)
    BY <1>1, <1>5, MedianWithin
  <1>7. PICK y \in P : Median2(f) <= 2 * f[y]
    BY <1>1, <1>5, MedianWithin
  <1>8. Median2(f) \in Int
    BY <1>1, <1>5, MedianWithin
  <1>9. ASSUME \A a, b \in 1..N : a < b => 2 * ((b - a) * more) <= values[b] - values[a]
        PROVE  Unit * more <= Median2(f)
    <2>1. v <= f[x]
      BY <1>1, <1>2, <1>9
    <2>2. f[x] \in Int
      BY <1>5
    <2> QED BY <1>4, <1>6, <1>8, <2>1, <2>2
  <1>10. ASSUME \A a, b \in 1..N : a < b => values[b] - values[a] <= 2 * ((b - a) * more)
         PROVE  Median2(f) <= Unit * more
    <2>1. f[y] <= v
      BY <1>1, <1>2, <1>10
    <2>2. f[y] \in Int
      BY <1>5
    <2> QED BY <1>4, <1>7, <1>8, <2>1, <2>2
  <1> QED BY <1>3, <1>8, <1>9, <1>10

\* Samples that rise at least, or at most, so much from each day to each
\* later one have that trend at least, or at most.
LEMMA TrendBounds ==
  ASSUME NEW samples, Len(samples) \in Nat, NEW N \in Nat, N >= 2, NEW more \in Int,
         \A k \in 1..Len(samples) : samples[k][1] \in Nat /\ samples[k][2] \in Int,
         {samples[k][1] \div Day : k \in 1..Len(samples)} = 0..(N - 1)
  PROVE  LET rise(j, k) == samples[k][2] - samples[j][2]
             lag(j, k) == samples[k][1] \div Day - samples[j][1] \div Day
             slope == Slope(DailyMedian2(samples))
         IN /\ slope \in Int
            /\ (\A j, k \in 1..Len(samples) : lag(j, k) > 0 => lag(j, k) * more <= rise(j, k)) =>
                 Unit * more <= slope
            /\ (\A j, k \in 1..Len(samples) : lag(j, k) > 0 => rise(j, k) <= lag(j, k) * more) =>
                 slope <= Unit * more
  <1> DEFINE c == Len(samples)
             at(k) == samples[k][1] \div Day
             m == DailyMedian2(samples)
             rise(j, k) == samples[k][2] - samples[j][2]
             lag(j, k) == at(k) - at(j)
  <1>1. Len(m) = N /\ m \in [1..N -> Int]
    BY DaysWithin
  <1>2. \A n \in 1..N : \E x \in 1..c : at(x) = n - 1 /\ 2 * samples[x][2] <= m[n]
    BY DaysWithin
  <1>3. \A n \in 1..N : \E y \in 1..c : at(y) = n - 1 /\ m[n] <= 2 * samples[y][2]
    BY DaysWithin
  <1> HIDE DEF m, at
  <1>4. Slope(m) \in Int
    BY <1>1, SlopeBounds
  <1>5. ASSUME \A j, k \in 1..c : lag(j, k) > 0 => lag(j, k) * more <= rise(j, k)
        PROVE  Unit * more <= Slope(m)
    <2>1. ASSUME NEW a \in 1..N, NEW b \in 1..N, a < b
          PROVE  2 * ((b - a) * more) <= m[b] - m[a]
      <3>1. PICK x \in 1..c : at(x) = b - 1 /\ 2 * samples[x][2] <= m[b]
        BY <1>2
      <3>2. PICK y \in 1..c : at(y) = a - 1 /\ m[a] <= 2 * samples[y][2]
        BY <1>3
      <3>3. lag(y, x) = b - a
        BY <3>1, <3>2
      <3> DEFINE w == (b - a) * more
      <3>4. w <= samples[x][2] - samples[y][2]
        BY <1>5, <2>1, <3>3, SMTT(60)
      <3>5. w \in Int /\ m[a] \in Int /\ m[b] \in Int
        BY <1>1
      <3> DEFINE lo == samples[x][2]
                 hi == samples[y][2]
                 late == m[b]
                 early == m[a]
      <3>6. lo \in Int /\ hi \in Int /\ late \in Int /\ early \in Int
        BY <3>5
      <3>8. 2 * lo <= late /\ early <= 2 * hi /\ w <= lo - hi
        BY <3>1, <3>2, <3>4
      <3> HIDE DEF w, lo, hi, late, early
      <3>9. 2 * w <= late - early
        BY <3>5, <3>6, <3>8
      <3>7. 2 * w <= m[b] - m[a]
        BY <3>9 DEF late, early
      <3> QED BY <3>7 DEF w
    <2> QED BY <1>1, <2>1, SlopeBounds
  <1>6. ASSUME \A j, k \in 1..c : lag(j, k) > 0 => rise(j, k) <= lag(j, k) * more
        PROVE  Slope(m) <= Unit * more
    <2>1. ASSUME NEW a \in 1..N, NEW b \in 1..N, a < b
          PROVE  m[b] - m[a] <= 2 * ((b - a) * more)
      <3>1. PICK x \in 1..c : at(x) = a - 1 /\ 2 * samples[x][2] <= m[a]
        BY <1>2
      <3>2. PICK y \in 1..c : at(y) = b - 1 /\ m[b] <= 2 * samples[y][2]
        BY <1>3
      <3>3. lag(x, y) = b - a
        BY <3>1, <3>2
      <3> DEFINE w == (b - a) * more
      <3>4. samples[y][2] - samples[x][2] <= w
        BY <1>6, <2>1, <3>3
      <3>5. w \in Int /\ m[a] \in Int /\ m[b] \in Int
        BY <1>1
      <3> DEFINE lo == samples[x][2]
                 hi == samples[y][2]
                 late == m[b]
                 early == m[a]
      <3>6. lo \in Int /\ hi \in Int /\ late \in Int /\ early \in Int
        BY <3>5
      <3>8. 2 * lo <= early /\ late <= 2 * hi /\ hi - lo <= w
        BY <3>1, <3>2, <3>4
      <3> HIDE DEF w, lo, hi, late, early
      <3>9. late - early <= 2 * w
        BY <3>5, <3>6, <3>8
      <3>7. m[b] - m[a] <= 2 * w
        BY <3>9 DEF late, early
      <3> QED BY <3>7 DEF w
    <2> QED BY <1>1, <2>1, SlopeBounds
  <1> QED BY <1>4, <1>5, <1>6 DEF m, at

\* Later rows are in later windows.
LEMMA CyclesRise ==
  ASSUME source \in Sources, Tiling, Tiled = Total,
         NEW t \in 0..(Total - 1), NEW u \in 0..(Total - 1), t < u
  PROVE  /\ Cycle(t) \in 1..Len(windows) /\ Cycle(u) \in 1..Len(windows)
         /\ Cycle(t) <= Cycle(u)
  <1> DEFINE c == Cycle(t)
             d == Cycle(u)
  <1>1. c \in 1..Len(windows) /\ windows[c].run <= t /\ t < windows[c].next
    <2>1. t \in Nat /\ t < Total
      BY TotalPositive
    <2> QED BY <2>1, CycleIs
  <1>2. d \in 1..Len(windows) /\ windows[d].run <= u /\ u < windows[d].next
    <2>1. u \in Nat /\ u < Total
      BY TotalPositive
    <2> QED BY <2>1, CycleIs
  <1> HIDE DEF c, d
  <1>3. ~(d < c)
    <2> SUFFICES ASSUME d < c PROVE FALSE
      OBVIOUS
    <2>1. windows[d].next <= windows[c].run
      BY <1>1, <1>2, InTurn
    <2>2. windows[d].next \in Nat
      BY <1>2, WindowsAre
    <2>3. windows[c].run \in Nat
      BY <1>1, WindowsAre
    <2>4. t \in Nat /\ u \in Nat
      BY TotalPositive
    <2> QED BY <1>1, <1>2, <2>1, <2>2, <2>3, <2>4
  <1>4. Len(windows) \in Nat
    BY TiledIs
  <1> QED BY <1>1, <1>2, <1>3, <1>4 DEF c, d

\* How the current changes from a row of one day to a row of a later day.
LEMMA AmpsRise ==
  ASSUME source \in WeekSources, Tiling, Tiled = Total,
         NEW t \in 0..(Total - 1), NEW u \in 0..(Total - 1),
         t \div (Day \div 10) < u \div (Day \div 10)
  PROVE  LET c == Cycle(t)
             d == Cycle(u)
             lag == u \div (Day \div 10) - t \div (Day \div 10)
             more == IF source = "motor_degradation" THEN PerDay ELSE 0
         IN /\ c \in 1..Len(windows) /\ d \in 1..Len(windows) /\ c <= d
            /\ lag \in Nat \ {0} /\ WindowAmps(c) \in Int /\ WindowAmps(d) \in Int
            /\ Amps(t) \in Int /\ Amps(u) \in Int
            /\ Amps(u) - Amps(t) = WindowAmps(d) - WindowAmps(c) + lag * more
  <1> DEFINE q == Day \div 10
             c == Cycle(t)
             d == Cycle(u)
             x == t \div q
             y == u \div q
             lag == y - x
             more == IF source = "motor_degradation" THEN PerDay ELSE 0
  <1>1. /\ q \in Nat \ {0} /\ source \in Sources /\ t \in Nat /\ u \in Nat
        /\ DayOf(t) = x /\ DayOf(u) = y /\ draw \in Draws[source]
    <2>1. source \in Sources /\ Total \in Nat
      BY TotalPositive DEF Sources
    <2>2. q \in Nat /\ 3 <= q /\ \A v \in Nat : DayOf(v) = v \div q
      BY WeekIs
    <2>3. t \in Nat /\ u \in Nat
      BY <2>1
    <2> QED BY <2>1, <2>2, <2>3 DEF Tiling
  <1> HIDE DEF q
  <1>2. x \in Nat /\ y \in Nat /\ x < y
    BY <1>1, QuotientNatural DEF q
  <1>3. t < u
    <2>1. q * y <= u
      BY <1>1, Quotient
    <2> HIDE DEF y
    <2>2. ASSUME u <= t PROVE y <= x
      <3>1. q * y \in Int
        BY <1>1, <1>2
      <3> DEFINE w == q * y
      <3>2. w <= t
        <4>1. w \in Int /\ w <= u
          BY <2>1, <3>1
        <4> HIDE DEF w
        <4> QED BY <1>1, <2>2, <4>1
      <3> QED BY <1>1, <1>2, <3>2, QuotientAbove, SMTT(60)
    <2> QED BY <1>1, <1>2, <2>2
  <1>4. c \in 1..Len(windows) /\ d \in 1..Len(windows) /\ c <= d
    BY <1>1, <1>3, CyclesRise
  <1>5. Amps(t) \in Int /\ c \in Nat
    BY <1>1, AmpsAre
  <1>6. Amps(u) \in Int /\ d \in Nat
    BY <1>1, AmpsAre
  <1>7. WindowAmps(c) \in Int
    BY <1>1, <1>5, DrawsAre
  <1>8. WindowAmps(d) \in Int
    BY <1>1, <1>6, DrawsAre
  <1>9. more \in Int
    <2>1. PerDay \in Nat
      BY <1>1, PerDayIs
    <2> QED BY <2>1
  <1>10. Amps(t) = WindowAmps(c) + x * more /\ Amps(u) = WindowAmps(d) + y * more
    <2>1. CASE source = "motor_degradation"
      BY <1>1, <2>1 DEF Amps
    <2>2. CASE source # "motor_degradation"
      <3>1. more = 0
        BY <2>2
      <3> HIDE DEF x, y, more
      <3>2. x * more = 0 /\ y * more = 0
        BY <1>2, <3>1
      <3>3. Amps(t) = WindowAmps(c) + 0 /\ Amps(u) = WindowAmps(d) + 0
        BY <2>2 DEF Amps
      <3> QED BY <3>2, <3>3
    <2> QED BY <2>1, <2>2
  <1> DEFINE e == WindowAmps(c)
             f == WindowAmps(d)
             g == x * more
             h == y * more
  <1>11. lag \in Nat \ {0} /\ lag * more = h - g /\ g \in Int /\ h \in Int
    <2> HIDE DEF x, y, more
    <2> QED BY <1>2, <1>9
  <1> HIDE DEF x, y, more, lag, c, d
  <1>12. Amps(u) - Amps(t) = f - e + lag * more
    <2>1. e \in Int /\ f \in Int /\ Amps(t) = e + g /\ Amps(u) = f + h
      BY <1>7, <1>8, <1>10
    <2> HIDE DEF e, f, g, h
    <2> QED BY <1>11, <2>1
  <1> QED BY <1>4, <1>5, <1>6, <1>7, <1>8, <1>11, <1>12 DEF lag, x, y, q, c, d, more

\* The currents of weeks, by days.
LEMMA WeekAmps ==
  ASSUME source \in WeekSources, Tiling, Drawn, Tiled = Total
  PROVE  LET loaded == Loaded(Make.channels)
             q == Day \div 10
         IN /\ Len(loaded) \in Nat
            /\ {loaded[k][1] \div Day : k \in 1..Len(loaded)} = 0..(NDays - 1)
            /\ \A k \in 1..Len(loaded) : /\ loaded[k][1] \in Nat /\ loaded[k][2] \in Int
                                         /\ \E t \in 0..(Total - 1) :
                                              /\ loaded[k][2] = Amps(t)
                                              /\ loaded[k][1] \div Day = t \div q
  <1> DEFINE q == Day \div 10
             N == NDays
             T == Total
             loaded == Loaded(Make.channels)
             n == Len(loaded)
             days == {loaded[k][1] \div Day : k \in 1..n}
  <1>1. /\ q \in Nat /\ 3 <= q /\ N \in Nat /\ N >= 2 /\ source \in Sources /\ T \in Nat
        /\ \A t \in Nat : DayOf(t) = t \div q /\ (t * RowTime) \div Day = t \div q
        /\ \A t \in 0..(T - 1) : t \div q \in 0..(N - 1)
    BY WeekIs, TotalPositive
  <1>2. \A t \in 0..(T - 1) : t \in Nat /\ Amps(t) \in Int /\ t * RowTime \in Nat
    BY <1>1, AmpsAre
  <1>3. /\ n \in Nat
        /\ \A k \in 1..n : \E t \in 0..(T - 1) : loaded[k] = <<t * RowTime, Amps(t)>>
        /\ \A t \in 0..(T - 1) : InRun(t) =>
             \E k \in 1..n : loaded[k] = <<t * RowTime, Amps(t)>>
    BY <1>1, MadeLoaded
  <1> HIDE DEF q, N, T, loaded, n
  <1>4. ASSUME NEW k \in 1..n
        PROVE  /\ loaded[k][1] \in Nat /\ loaded[k][2] \in Int
               /\ loaded[k][1] \div Day \in 0..(N - 1)
               /\ \E t \in 0..(T - 1) : loaded[k][2] = Amps(t) /\ loaded[k][1] \div Day = t \div q
    <2>1. PICK t \in 0..(T - 1) : loaded[k] = <<t * RowTime, Amps(t)>>
      BY <1>3
    <2>2. loaded[k][1] = t * RowTime /\ loaded[k][2] = Amps(t)
      BY <2>1
    <2>3. t \in Nat /\ (t * RowTime) \div Day = t \div q /\ t \div q \in 0..(N - 1)
      BY <1>1, <1>2
    <2> QED BY <1>2, <2>2, <2>3
  <1>5. ASSUME NEW d \in 0..(N - 1) PROVE \E k \in 1..n : loaded[k][1] \div Day = d
    <2>1. PICK t \in 0..(T - 1) : InRun(t) /\ t \div q = d
      BY EveryDayRuns DEF N, T, q
    <2>2. PICK k \in 1..n : loaded[k] = <<t * RowTime, Amps(t)>>
      BY <1>3, <2>1
    <2>3. t \in Nat /\ (t * RowTime) \div Day = t \div q
      BY <1>1, <1>2
    <2> QED BY <2>1, <2>2, <2>3
  <1>6. days = 0..(N - 1)
    <2>1. days \subseteq 0..(N - 1)
      BY <1>4
    <2>2. 0..(N - 1) \subseteq days
      BY <1>5
    <2> QED BY <2>1, <2>2
  <1> QED BY <1>3, <1>4, <1>6 DEF loaded, n, N, T, q

\* Where the current does not grow the motor is not suspected, nor where the
\* seal alone fails and no later window draws more.
LEMMA MadeNoMotor ==
  ASSUME source \in Sources \ {"motor_degradation"}, Tiling, Drawn, Tiled = Total,
         source = "seal_failure" =>
           \A c, d \in 1..Len(windows) : c < d => ~(WindowAmps(c) < WindowAmps(d))
  PROVE  DetectMotorDegradation(Make) = "none"
  <1>1. CASE source \in WeekSources
    <2> DEFINE loaded == Loaded(Make.channels)
               n == Len(loaded)
               days == {loaded[k][1] \div Day : k \in 1..n}
               slope == MotorTrend(Make.channels)
               q == Day \div 10
               at(k) == loaded[k][1] \div Day
               N == NDays
    <2>1. /\ n \in Nat /\ days = 0..(N - 1) /\ source = "seal_failure"
          /\ \A k \in 1..n : loaded[k][1] \in Nat /\ loaded[k][2] \in Int
          /\ \A k \in 1..n : \E t \in 0..(Total - 1) :
               loaded[k][2] = Amps(t) /\ loaded[k][1] \div Day = t \div q
      BY <1>1, WeekAmps DEF WeekSources
    <2>2. N \in Nat /\ N >= 2 /\ source \in Sources
      BY <1>1, WeekIs
    <2> HIDE DEF loaded, N
    <2>3. ASSUME NEW j \in 1..n, NEW k \in 1..n, at(k) - at(j) > 0
          PROVE  loaded[k][2] - loaded[j][2] <= (at(k) - at(j)) * 0
      <3>1. PICK t \in 0..(Total - 1) : loaded[j][2] = Amps(t) /\ at(j) = t \div q
        BY <2>1
      <3>2. PICK u \in 0..(Total - 1) : loaded[k][2] = Amps(u) /\ at(k) = u \div q
        BY <2>1
      <3>3. at(k) \in Int /\ at(j) \in Int
        BY <2>1, DayAssumption, QuotientNatural
      <3> HIDE DEF at
      <3>4. t \div q < u \div q
        BY <2>3, <3>1, <3>2, <3>3
      <3> DEFINE c == Cycle(t)
                 d == Cycle(u)
                 lag == u \div q - t \div q
                 e == WindowAmps(c)
                 f == WindowAmps(d)
      <3>5. /\ c \in 1..Len(windows) /\ d \in 1..Len(windows) /\ c <= d
            /\ lag \in Nat \ {0} /\ e \in Int /\ f \in Int
            /\ Amps(t) \in Int /\ Amps(u) \in Int
            /\ Amps(u) - Amps(t) = f - e + lag * 0
        BY <1>1, <2>1, <3>4, AmpsRise
      <3> HIDE DEF lag
      <3>6. f <= e
        <4>1. CASE c = d
          BY <3>5, <4>1
        <4>2. CASE c # d
          <5>1. c \in Int /\ d \in Int
            BY <2>2, <3>5, TiledIs
          <5> HIDE DEF c, d
          <5>2. c < d
            BY <3>5, <4>2, <5>1
          <5>3. ~(e < f)
            BY <2>1, <3>5, <5>2
          <5> HIDE DEF e, f
          <5> QED BY <3>5, <5>3
        <4> QED BY <4>1, <4>2
      <3> HIDE DEF e, f, c, d
      <3>7. Amps(u) - Amps(t) <= 0
        BY <3>5, <3>6
      <3>8. (at(k) - at(j)) * 0 = 0
        BY <3>3
      <3> QED BY <3>1, <3>2, <3>7, <3>8
    <2>4. slope <= Unit * 0
      <3>1. Len(loaded) \in Nat /\ 0 \in Int
        BY <2>1
      <3>2. Slope(DailyMedian2(loaded)) <= Unit * 0
        BY <2>1, <2>2, <2>3, <3>1, TrendBounds
      <3> QED BY <3>2 DEF MotorTrend, loaded
    <2>5. slope \in Int
      <3>1. Len(loaded) \in Nat /\ 0 \in Int
        BY <2>1
      <3>2. Slope(DailyMedian2(loaded)) \in Int
        BY <2>1, <2>2, <3>1, TrendBounds
      <3> QED BY <3>2 DEF MotorTrend, loaded
    <2>6. DetectMotorDegradation(Make) =
            IF Cardinality(days) < MotorMinDays THEN "none"
            ELSE Result(slope >= MotorSlope * Unit, slope >= 3 * MotorSlope * Unit)
      BY DEF DetectMotorDegradation, loaded
    <2> HIDE DEF days, slope
    <2>7. ~(slope >= MotorSlope * Unit)
      BY <2>4, <2>5 DEF Unit, MotorSlope
    <2> QED BY <2>6, <2>7 DEF Result
  <1>2. CASE source \in HourSources
    BY <1>2, MadeNoMotorHours
  <1> QED BY <1>1, <1>2 DEF Sources

\* A current that grows day by day is found, unless an early window draws so
\* much more than a later one that it does not.
LEMMA MadeMotor ==
  ASSUME source = "motor_degradation", Tiling, Drawn, Tiled = Total, ~Masked
  PROVE  DetectMotorDegradation(Make) # "none"
  <1> DEFINE loaded == Loaded(Make.channels)
             n == Len(loaded)
             days == {loaded[k][1] \div Day : k \in 1..n}
             slope == MotorTrend(Make.channels)
             p == PerDay
             q == Day \div 10
             at(k) == loaded[k][1] \div Day
             N == NDays
  <1>1. source \in WeekSources /\ source \in Sources /\ draw \in Draws[source]
    BY DEF WeekSources, Sources, Tiling
  <1>2. p \in Nat /\ MotorSlope <= p /\ MotorSlope \in Nat
    BY <1>1, PerDayIs DEF MotorSlope
  <1>3. /\ n \in Nat /\ days = 0..(N - 1)
        /\ \A k \in 1..n : loaded[k][1] \in Nat /\ loaded[k][2] \in Int
        /\ \A k \in 1..n : \E t \in 0..(Total - 1) :
             loaded[k][2] = Amps(t) /\ loaded[k][1] \div Day = t \div q
    BY <1>1, WeekAmps
  <1>4. N \in Nat /\ N >= 2
    BY <1>1, WeekIs
  <1> HIDE DEF loaded, N, p
  <1>5. \A c, d \in 1..Len(windows) :
          c < d => ~(WindowAmps(c) > WindowAmps(d) + p - MotorSlope)
    BY DEF Masked, p
  <1>6. ASSUME NEW j \in 1..n, NEW k \in 1..n, at(k) - at(j) > 0
        PROVE  (at(k) - at(j)) * MotorSlope <= loaded[k][2] - loaded[j][2]
    <2>1. PICK t \in 0..(Total - 1) : loaded[j][2] = Amps(t) /\ at(j) = t \div q
      BY <1>3
    <2>2. PICK u \in 0..(Total - 1) : loaded[k][2] = Amps(u) /\ at(k) = u \div q
      BY <1>3
    <2>3. at(k) \in Int /\ at(j) \in Int
      BY <1>3, DayAssumption, QuotientNatural
    <2> HIDE DEF at
    <2>4. t \div q < u \div q
      BY <1>6, <2>1, <2>2, <2>3
    <2> DEFINE c == Cycle(t)
               d == Cycle(u)
               lag == u \div q - t \div q
               e == WindowAmps(c)
               f == WindowAmps(d)
    <2>5. /\ c \in 1..Len(windows) /\ d \in 1..Len(windows) /\ c <= d
          /\ lag \in Nat \ {0} /\ e \in Int /\ f \in Int
          /\ Amps(t) \in Int /\ Amps(u) \in Int
          /\ Amps(u) - Amps(t) = f - e + lag * p
      BY <1>1, <2>4, AmpsRise DEF p
    <2>6. at(k) - at(j) = lag
      BY <2>1, <2>2
    <2> HIDE DEF lag
    <2>7. e <= f + p - MotorSlope
      <3>1. CASE c = d
        <4>1. e = f
          BY <3>1
        <4> HIDE DEF e, f
        <4> QED BY <1>2, <2>5, <4>1
      <3>2. CASE c # d
        <4>1. c \in Int /\ d \in Int
          BY <1>1, <2>5, TiledIs
        <4> HIDE DEF c, d
        <4>2. c < d
          BY <2>5, <3>2, <4>1
        <4>3. ~(e > f + p - MotorSlope)
          BY <1>5, <2>5, <4>2
        <4> HIDE DEF e, f
        <4> QED BY <1>2, <2>5, <4>3
      <3> QED BY <3>1, <3>2
    <2> HIDE DEF e, f, c, d
    <2> DEFINE b == p - MotorSlope
               x == b * lag
               y == lag * MotorSlope
    <2>8. b \in Nat /\ x \in Int /\ y \in Int /\ lag * p = x + y
      BY <1>2, <2>5
    <2>9. b <= x
      <3>1. b * 1 <= b * lag
        <4>1. 1 \in Int /\ lag \in Int /\ 1 <= lag
          BY <2>5
        <4> HIDE DEF b
        <4> QED BY <2>8, <4>1, ProductGrows
      <3>2. b * 1 = b
        BY <2>8
      <3> QED BY <3>1, <3>2
    <2>10. e <= f + b
      BY <1>2, <2>5, <2>7
    <2> HIDE DEF b, x, y
    <2>11. y <= Amps(u) - Amps(t)
      BY <2>5, <2>8, <2>9, <2>10
    <2> QED BY <2>1, <2>2, <2>6, <2>11 DEF y
  <1>7. Unit * MotorSlope <= slope /\ slope \in Int
    <2>1. Len(loaded) \in Nat /\ MotorSlope \in Int
      BY <1>2, <1>3
    <2>2. Unit * MotorSlope <= Slope(DailyMedian2(loaded))
      BY <1>3, <1>4, <1>6, <2>1, TrendBounds
    <2>3. Slope(DailyMedian2(loaded)) \in Int
      BY <1>3, <1>4, <2>1, TrendBounds
    <2> QED BY <2>2, <2>3 DEF MotorTrend, loaded
  <1>8. DetectMotorDegradation(Make) =
          IF Cardinality(days) < MotorMinDays THEN "none"
          ELSE Result(slope >= MotorSlope * Unit, slope >= 3 * MotorSlope * Unit)
    BY DEF DetectMotorDegradation, loaded
  <1>9. Cardinality(days) = N
    BY <1>3, <1>4, NthOfInterval
  <1> HIDE DEF days, slope
  <1>10. ~(Cardinality(days) < MotorMinDays)
    BY <1>9, TrendsAssumption, TrendAssumption, SegmentAssumption DEF N
  <1>11. slope >= MotorSlope * Unit
    BY <1>7 DEF Unit, MotorSlope
  <1> QED BY <1>8, <1>10, <1>11 DEF Result

-----------------------------------------------------------------------------
(* Delta-T of a segment.                                                   *)

\* delta-T of row t in a run, in the segments that do and that do not change it
Worsened(d, e, t) == (d * (Total - (t + 1)) + e * t) \div (Total - 1)

Delta(t) == IF source = "condenser_airflow" THEN Worsened(WindowDelta(Cycle(t)), Late, t)
            ELSE WindowDelta(Cycle(t))

\* Division by a positive number keeps the order.
LEMMA QuotientGrows ==
  ASSUME NEW a \in Int, NEW b \in Int, NEW w \in Nat \ {0}, a <= b
  PROVE  a \div w <= b \div w
  <1> DEFINE c == a \div w
  <1>1. c \in Int /\ w * c <= a /\ w * c \in Int
    <2>1. c \in Int /\ w * c <= a
      BY Quotient
    <2> HIDE DEF c
    <2> QED BY <2>1
  <1> HIDE DEF c
  <1>2. w * c <= b
    BY <1>1
  <1>3. c <= b \div w
    BY <1>1, <1>2, QuotientAbove
  <1> QED BY <1>3 DEF c

\* It goes down all the way, not below the target, and the lower the lower
\* it started.
LEMMA Worsening ==
  ASSUME source \in Sources, Tiling, Tiled = Total, NEW d \in 80..120, NEW e \in 15..35,
         NEW c \in 80..d, NEW s \in 0..(Total - 1), NEW t \in s..(Total - 1)
  PROVE  /\ Worsened(d, e, s) \in Int /\ 15 <= Worsened(d, e, s)
         /\ Worsened(d, e, t) <= Worsened(d, e, s)
         /\ Worsened(c, e, s) \in Int /\ Worsened(c, e, s) <= Worsened(d, e, s)
  <1> DEFINE w == Total - 1
             x == Total - (s + 1)
             y == Total - (t + 1)
             a == d * x + e * s
             b == d * y + e * t
             f == c * x + e * s
             z == 15
  <1>1. /\ w \in Nat \ {0} /\ s \in Nat /\ t \in Nat /\ s <= t
        /\ x \in Nat /\ y \in Nat /\ x + s = w /\ y + t = w
    <2>1. Total \in Nat /\ Total >= 2
      BY MadeTimes, TotalPositive
    <2> DEFINE T == Total
    <2>2. /\ T \in Nat /\ T >= 2 /\ s \in 0..(T - 1) /\ t \in s..(T - 1)
          /\ w = T - 1 /\ x = T - (s + 1) /\ y = T - (t + 1)
      BY <2>1
    <2> HIDE DEF T, w, x, y
    <2> QED BY <2>2
  <1>2. d \in Nat /\ e \in Nat /\ c \in Nat /\ c <= d /\ e <= d /\ z <= e /\ z <= d
    OBVIOUS
  <1>3. Worsened(d, e, s) = a \div w /\ Worsened(d, e, t) = b \div w /\ Worsened(c, e, s) = f \div w
    BY DEF Worsened
  <1> HIDE DEF w, x, y
  <1>4. a \in Int /\ b \in Int /\ f \in Int
    BY <1>1, <1>2
  <1>5. f <= a
    <2>1. x * c <= x * d
      BY <1>1, <1>2, ProductGrows
    <2>2. x * c = c * x /\ x * d = d * x /\ c * x \in Int /\ d * x \in Int /\ e * s \in Int
      BY <1>1, <1>2
    <2> DEFINE j == c * x
               k == d * x
               l == e * s
    <2>3. j <= k /\ j \in Int /\ k \in Int /\ l \in Int
      BY <2>1, <2>2
    <2> HIDE DEF j, k, l
    <2>4. j + l <= k + l
      BY <2>3
    <2> QED BY <2>4 DEF j, k, l
  <1>6. b <= a
    <2> DEFINE u == t - s
               g == d - e
    <2>1. u \in Nat /\ g \in Nat /\ t = s + u /\ x = y + u /\ d = e + g
      BY <1>1, <1>2
    <2>2. d * x = d * y + d * u /\ e * t = e * s + e * u
      <3> HIDE DEF u
      <3> QED BY <1>1, <1>2, <2>1
    <2>3. d * u = e * u + g * u /\ g * u \in Nat
      <3> HIDE DEF u, g
      <3> QED BY <1>1, <1>2, <2>1
    <2> DEFINE j == d * x
               k == d * y
               l == e * s
               m == e * t
               n == e * u
               o == g * u
    <2>4. /\ j = k + (n + o) /\ m = l + n /\ o \in Nat
          /\ k \in Int /\ n \in Int /\ l \in Int
      BY <1>1, <1>2, <2>1, <2>2, <2>3
    <2> HIDE DEF j, k, l, m, n, o
    <2>5. k + m <= j + l
      BY <2>4
    <2> QED BY <2>5 DEF j, k, l, m
  <1>7. w * z <= a
    <2>1. x * z <= x * d /\ x * d = d * x
      BY <1>1, <1>2, ProductGrows
    <2>2. s * z <= s * e /\ s * e = e * s
      BY <1>1, <1>2, ProductGrows
    <2>3. w * z = x * z + s * z
      BY <1>1
    <2> DEFINE j == x * z
               k == s * z
               l == d * x
               m == e * s
    <2>4. j <= l /\ k <= m /\ w * z = j + k /\ j \in Int /\ k \in Int /\ l \in Int /\ m \in Int
      BY <1>1, <1>2, <2>1, <2>2, <2>3
    <2> HIDE DEF j, k, l, m, z
    <2>5. w * z <= l + m
      BY <2>4
    <2> QED BY <2>5 DEF l, m
  <1> HIDE DEF a, b, f
  <1>8. b \div w <= a \div w
    BY <1>1, <1>4, <1>6, QuotientGrows
  <1>9. f \div w <= a \div w
    BY <1>1, <1>4, <1>5, QuotientGrows
  <1>10. a \div w \in Int /\ f \div w \in Int
    BY <1>1, <1>4, Quotient
  <1>11. z <= a \div w
    <2>1. z \in Int
      OBVIOUS
    <2> HIDE DEF z
    <2> QED BY <1>1, <1>4, <1>7, <2>1, QuotientAbove
  <1> QED BY <1>3, <1>8, <1>9, <1>10, <1>11

\* The readings of delta-T are those of the rows of runs.
LEMMA MadeDelta ==
  ASSUME source \in Sources, Tiling, Tiled = Total
  PROVE  LET delta == RunningDelta(Make.channels)
             at == {k \in 1..Total : InRun(k - 1)}
         IN /\ at \in SUBSET Int /\ IsFiniteSet(at) /\ Len(delta) = Cardinality(at)
            /\ Len(delta) \in 1..Total /\ delta \in Seq(Int)
            /\ \A k \in 1..Len(delta) : Nth(at, k) \in at /\ delta[k] = Delta(Nth(at, k) - 1)
            /\ source # "condenser_airflow" => \A k \in 1..Len(delta) : delta[k] \in 80..120
  <1> DEFINE rows == Make.channels
             n == Total
             all == Column(rows, "delta")
             at == {k \in 1..n : InRun(k - 1)}
             delta == RunningDelta(rows)
             c == Cardinality(at)
  <1>1. /\ n \in Nat \ {0} /\ Len(rows) = n /\ draw \in Draws[source]
        /\ \A k \in 1..n : RowIs(rows[k], k - 1)
    BY MadeRows DEF Tiling
  <1>2. ASSUME NEW t \in 0..(n - 1) PROVE WindowDelta(Cycle(t)) \in 80..120
    <2>1. Cycle(t) \in Nat
      BY AmpsAre
    <2>2. WindowDelta(Cycle(t)) \in Int /\ 80 <= WindowDelta(Cycle(t)) /\ WindowDelta(Cycle(t)) <= 120
      BY <1>1, <2>1, DrawsAre
    <2> QED BY <2>2
  <1>3. \A t \in 0..(n - 1) : /\ Delta(t) \in Int
                              /\ source # "condenser_airflow" => Delta(t) \in 80..120
    <2> SUFFICES ASSUME NEW t \in 0..(n - 1)
                 PROVE  /\ Delta(t) \in Int
                        /\ source # "condenser_airflow" => Delta(t) \in 80..120
      OBVIOUS
    <2>1. CASE source = "condenser_airflow"
      <3> DEFINE d == WindowDelta(Cycle(t))
                 e == Late
      <3>1. d \in 80..120 /\ e \in 15..35
        <4>1. e \in Int /\ 15 <= e /\ e <= 35
          BY <1>1, DrawsAre
        <4> HIDE DEF e
        <4> QED BY <1>2, <4>1
      <3> HIDE DEF d, e
      <3>2. t \in t..(Total - 1) /\ d \in 80..d
        <4>1. t \in Int /\ t <= n - 1 /\ n \in Int
          BY <1>1, SMTT(60)
        <4> QED BY <3>1, <4>1
      <3>3. Worsened(d, e, t) \in Int
        BY <3>1, <3>2, Worsening, ZenonT(60)
      <3> QED BY <2>1, <3>3 DEF Delta, d, e
    <2>2. CASE source # "condenser_airflow"
      BY <1>2, <2>2 DEF Delta
    <2> QED BY <2>1, <2>2
  <1>4. ASSUME NEW k \in 1..n
        PROVE  /\ rows[k].cmd = 1 <=> InRun(k - 1)
               /\ InRun(k - 1) => rows[k].delta = Delta(k - 1) /\ rows[k].delta # NaN
    <2>1. RowIs(rows[k], k - 1)
      BY <1>1
    <2>2. k - 1 \in 0..(n - 1)
      BY <1>1
    <2>3. Delta(k - 1) # NaN
      BY <1>3, <2>2, NaNAssumption
    <2> HIDE DEF rows
    <2> QED BY <2>1, <2>3 DEF RowIs, Delta, Worsened
  <1>5. {k \in 1..n : rows[k].cmd = 1 /\ rows[k].delta # NaN} = at
    BY <1>4
  <1>6. delta = Where(all, at)
    BY <1>1, <1>5 DEF RunningDelta
  <1>7. at \in SUBSET (1..n)
    OBVIOUS
  <1>15. at \in SUBSET Int
    OBVIOUS
  <1>8. ASSUME NEW k \in at PROVE k - 1 \in 0..(n - 1) /\ all[k] = Delta(k - 1)
    BY <1>1, <1>4 DEF Column
  <1>9. at # {}
    <2>1. 1 \in 1..Len(windows) /\ windows[1].run = 0
      BY FirstWindow
    <2> DEFINE one == 1
    <2>2. one \in 1..Len(windows) /\ windows[one].run = 0
      BY <2>1
    <2> HIDE DEF one
    <2>3. windows[one].run <= 0 /\ 0 < windows[one].rest
      BY <2>2, WindowsAre
    <2>4. InRun(0)
      BY <2>2, <2>3 DEF InRun
    <2>5. 1 \in 1..n /\ 1 - 1 = 0
      BY <1>1
    <2> QED BY <2>4, <2>5
  <1> HIDE DEF at, all, n, delta, rows
  <1>10. /\ c \in 0..n /\ Len(Where(all, at)) = c /\ IsFiniteSet(at)
         /\ \A k \in 1..c : Nth(at, k) \in at /\ Where(all, at)[k] = all[Nth(at, k)]
         /\ \A x \in at : \E k \in 1..c : Nth(at, k) = x
    <2>1. n \in Nat
      BY <1>1
    <2> QED BY <1>7, <2>1, WhereIs, ZenonT(60)
  <1>11. Len(delta) = c /\ c \in 1..n
    <2>1. c # 0
      BY <1>9, <1>10, FS_EmptySet
    <2> HIDE DEF c
    <2> QED BY <1>1, <1>6, <1>10, <2>1
  <1>12. ASSUME NEW k \in 1..c
         PROVE  Nth(at, k) \in at /\ delta[k] = Delta(Nth(at, k) - 1) /\ Nth(at, k) - 1 \in 0..(n - 1)
    BY <1>6, <1>8, <1>10
  <1>13. delta \in Seq(Int)
    <2>1. delta = [k \in 1..c |-> all[Nth(at, k)]]
      BY <1>6 DEF Where
    <2>2. \A k \in 1..c : delta[k] \in Int
      BY <1>3, <1>12
    <2> HIDE DEF c
    <2>3. delta \in [1..c -> Int]
      BY <2>1, <2>2
    <2> QED BY <1>11, <2>3
  <1>14. source # "condenser_airflow" => \A k \in 1..c : delta[k] \in 80..120
    BY <1>3, <1>12
  <1> QED BY <1>15, <1>10, <1>11, <1>12, <1>13, <1>14 DEF n, at, delta, rows, c

\* A delta-T that stays as it was drawn is not suspected.
LEMMA MadeNoCondenser ==
  ASSUME source \in Sources \ {"condenser_airflow"}, Tiling, Tiled = Total
  PROVE  DetectCondenserAirflow(Make) = "none"
  <1> DEFINE delta == RunningDelta(Make.channels)
             lo == 80
             hi == 120
  <1>1. /\ Len(delta) \in Nat \ {0} /\ delta \in Seq(Int)
        /\ \A k \in 1..Len(delta) : delta[k] \in 80..120
    <2>1. Len(delta) \in 1..Total /\ Total \in Nat
      BY MadeDelta, TotalPositive
    <2>2. delta \in Seq(Int) /\ \A k \in 1..Len(delta) : delta[k] \in 80..120
      BY MadeDelta
    <2> HIDE DEF delta
    <2> QED BY <2>1, <2>2
  <1>2. lo \in Int /\ hi \in Int /\ \A k \in 1..Len(delta) : lo <= delta[k] /\ delta[k] <= hi
    <2> SUFFICES ASSUME NEW k \in 1..Len(delta) PROVE lo <= delta[k] /\ delta[k] <= hi
      OBVIOUS
    <2> DEFINE x == delta[k]
    <2>1. x \in 80..120
      BY <1>1
    <2> HIDE DEF x
    <2>2. lo <= x /\ x <= hi
      BY <2>1
    <2> QED BY <2>2 DEF x
  <1>3. lo = 80 /\ hi = 120
    OBVIOUS
  <1> HIDE DEF lo, hi
  <1>4. lo = 80 /\ hi = 120 => DetectCondenserAirflow(Make) = "none"
    <2> DEFINE d == Make
    <2>1. RunningDelta(d.channels) = delta
      OBVIOUS
    <2> HIDE DEF d, delta
    <2>2. /\ Len(RunningDelta(d.channels)) \in Nat \ {0} /\ RunningDelta(d.channels) \in Seq(Int)
          /\ \A k \in 1..Len(RunningDelta(d.channels)) :
               lo <= RunningDelta(d.channels)[k] /\ RunningDelta(d.channels)[k] <= hi
      BY <1>1, <1>2, <2>1
    <2>3. lo = 80 /\ hi = 120 => DetectCondenserAirflow(d) = "none"
      BY <1>2, <2>2, CondenserRange
    <2> QED BY <2>3 DEF d
  <1> QED BY <1>3, <1>4

\* A median is at least what fewer than half of the values are below.
LEMMA MedianAtLeast ==
  ASSUME NEW D, IsFiniteSet(D), D # {}, NEW f \in [D -> Int], NEW v \in Int,
         Cardinality({k \in D : f[k] < v}) < (Cardinality(D) + 1) \div 2
  PROVE  Median2(f) \in Int /\ 2 * v <= Median2(f)
  <1> DEFINE c == Cardinality(D)
             E == {k \in D : f[k] < v}
             m == c \div 2 + 1
             l == (c + 1) \div 2
  <1>1. c \in Nat /\ l \in 1..c /\ m \in 1..c /\ l <= m /\ l \in Int /\ DOMAIN f = D
    <2>1. c \in Nat /\ l \in 1..c /\ m \in 1..c
      BY Middle, FS_CardinalityType
    <2>2. l <= m
      <3> HIDE DEF c
      <3> QED BY <2>1
    <2> QED BY <2>1, <2>2
  <1>2. ASSUME NEW n \in 1..c, l <= n PROVE Ranked(f, n) \in Int /\ v <= Ranked(f, n)
    <2> DEFINE r == Ranked(f, n)
               B == {k \in D : f[k] <= r}
    <2>1. r \in Range(f) /\ n <= UpTo(f, r)
      BY <1>1, RankedExists
    <2> HIDE DEF r
    <2>2. PICK k \in D : r = f[k]
      BY <1>1, <2>1 DEF Range
    <2>3. r \in Int
      BY <2>2
    <2>4. ~(r < v)
      <3> SUFFICES ASSUME r < v PROVE FALSE
        OBVIOUS
      <3>1. B \subseteq E /\ E \subseteq D
        BY <2>3
      <3>2. UpTo(f, r) = Cardinality(B)
        BY <1>1 DEF UpTo
      <3>3. Cardinality(E) < l
        OBVIOUS
      <3> HIDE DEF E, B, l, c
      <3>4. IsFiniteSet(E)
        BY <3>1, FS_Subset
      <3>5. IsFiniteSet(B) /\ Cardinality(B) <= Cardinality(E)
        BY <3>1, <3>4, FS_Subset
      <3>6. Cardinality(E) \in Nat /\ Cardinality(B) \in Nat
        BY <3>4, <3>5, FS_CardinalityType
      <3> QED BY <1>1, <1>2, <2>1, <3>2, <3>3, <3>5, <3>6
    <2> QED BY <2>3, <2>4 DEF r
  <1>3. /\ Ranked(f, l) \in Int /\ v <= Ranked(f, l)
        /\ Ranked(f, m) \in Int /\ v <= Ranked(f, m)
    <2>1. l <= l
      BY <1>1
    <2> HIDE DEF l, m, c
    <2> QED BY <1>1, <1>2, <2>1
  <1>4. Median2(f) = Ranked(f, l) + Ranked(f, m)
    BY <1>1 DEF Median2
  <1> HIDE DEF l, m
  <1> QED BY <1>3, <1>4

\* A median is at most what more than half of the values do not exceed.
LEMMA MedianAtMost ==
  ASSUME NEW D, IsFiniteSet(D), D # {}, NEW f \in [D -> Int], NEW v \in Int,
         Cardinality(D) \div 2 + 1 <= Cardinality({k \in D : f[k] <= v})
  PROVE  Median2(f) \in Int /\ Median2(f) <= 2 * v
  <1> DEFINE c == Cardinality(D)
             E == {k \in D : f[k] <= v}
             m == c \div 2 + 1
             l == (c + 1) \div 2
  <1>1. c \in Nat /\ l \in 1..c /\ m \in 1..c /\ l <= m /\ m \in Int /\ DOMAIN f = D
    <2>1. c \in Nat /\ l \in 1..c /\ m \in 1..c
      BY Middle, FS_CardinalityType
    <2>2. l <= m
      <3> HIDE DEF c
      <3> QED BY <2>1
    <2> QED BY <2>1, <2>2
  <1>2. ASSUME NEW n \in 1..c, n <= m PROVE Ranked(f, n) \in Int /\ Ranked(f, n) <= v
    <2> DEFINE r == Ranked(f, n)
               B == {k \in D : f[k] < r}
    <2>1. r \in Range(f) /\ Below(f, r) < n
      BY <1>1, RankedExists
    <2> HIDE DEF r
    <2>2. PICK k \in D : r = f[k]
      BY <1>1, <2>1 DEF Range
    <2>3. r \in Int
      BY <2>2
    <2>4. ~(v < r)
      <3> SUFFICES ASSUME v < r PROVE FALSE
        OBVIOUS
      <3>1. E \subseteq B /\ B \subseteq D
        BY <2>3
      <3>2. Below(f, r) = Cardinality(B)
        BY <1>1 DEF Below
      <3>3. m <= Cardinality(E)
        OBVIOUS
      <3> HIDE DEF E, B, m, c
      <3>4. IsFiniteSet(B)
        BY <3>1, FS_Subset
      <3>5. IsFiniteSet(E) /\ Cardinality(E) <= Cardinality(B)
        BY <3>1, <3>4, FS_Subset
      <3>6. Cardinality(E) \in Nat /\ Cardinality(B) \in Nat
        BY <3>4, <3>5, FS_CardinalityType
      <3> QED BY <1>1, <1>2, <2>1, <3>2, <3>3, <3>5, <3>6
    <2> QED BY <2>3, <2>4 DEF r
  <1>3. /\ Ranked(f, l) \in Int /\ Ranked(f, l) <= v
        /\ Ranked(f, m) \in Int /\ Ranked(f, m) <= v
    <2>1. m <= m
      BY <1>1
    <2> HIDE DEF l, m, c
    <2> QED BY <1>1, <1>2, <2>1
  <1>4. Median2(f) = Ranked(f, l) + Ranked(f, m)
    BY <1>1 DEF Median2
  <1> HIDE DEF l, m
  <1> QED BY <1>3, <1>4

\* The medians of the first and of the last w of values that never rise, by
\* the values in the middle of each.
LEMMA FallingMedians ==
  ASSUME NEW s \in Seq(Int), NEW n \in Nat, Len(s) = n, NEW w \in 1..n,
         \A j, k \in 1..n : j <= k => s[k] <= s[j]
  PROVE  LET m == w \div 2
             early2 == Median2(SubSeq(s, 1, w))
             late2 == Median2(SubSeq(s, n - w + 1, n))
         IN /\ m \in Nat /\ m + 1 \in 1..n /\ n - m \in 1..n
            /\ early2 \in Int /\ 2 * s[m + 1] <= early2
            /\ late2 \in Int /\ late2 <= 2 * s[n - m]
  <1> DEFINE m == w \div 2
             D == 1..w
             z == n - w
             f == SubSeq(s, 1, w)
             g == SubSeq(s, z + 1, n)
  <1>1. /\ m \in Nat /\ (w = 2 * m \/ w = 2 * m + 1) /\ w \in Nat /\ w >= 1 /\ w <= n
        /\ (w + 1) \div 2 = IF w = 2 * m THEN m ELSE m + 1
    OBVIOUS
  <1> HIDE DEF m
  <1>2. m + 1 \in 1..n /\ n - m \in 1..n /\ z \in Nat
    BY <1>1
  <1>3. IsFiniteSet(D) /\ Cardinality(D) = w /\ D # {}
    <2>1. IsFiniteSet(1..w) /\ Cardinality(1..w) = w /\ 1 \in 1..w
      BY <1>1, PlacesFinite
    <2> QED BY <2>1
  <1>4. f \in [D -> Int] /\ \A j \in D : f[j] = s[j]
    <2> DEFINE a == 1
    <2>1. a \in Int /\ w \in Int /\ \A j \in a..w : s[j] \in Int
      BY <1>1
    <2>2. a <= w /\ w - a + 1 = w /\ \A j \in D : a + j - 1 = j
      BY <1>1
    <2> HIDE DEF a
    <2>3. /\ SubSeq(s, a, w) \in Seq(Int)
          /\ Len(SubSeq(s, a, w)) = IF a <= w THEN w - a + 1 ELSE 0
          /\ \A j \in 1..(w - a + 1) : SubSeq(s, a, w)[j] = s[a + j - 1]
      BY <2>1, SubSeqProperties
    <2>4. f = SubSeq(s, a, w)
      BY DEF a
    <2> HIDE DEF f
    <2>5. f \in Seq(Int) /\ Len(f) = w /\ \A j \in D : f[j] = s[j]
      BY <2>2, <2>3, <2>4
    <2>6. f \in [D -> Int]
      BY <2>5, LenProperties
    <2> QED BY <2>5, <2>6
  <1>5. g \in [D -> Int] /\ \A j \in D : g[j] = s[z + j]
    <2>1. \A j \in (z + 1)..n : s[j] \in Int
      BY <1>2
    <2> HIDE DEF g
    <2>2. /\ Len(g) = IF z + 1 <= n THEN n - (z + 1) + 1 ELSE 0
          /\ g \in Seq(Int) /\ \A j \in 1..(n - (z + 1) + 1) : g[j] = s[(z + 1) + j - 1]
      <3> DEFINE a == z + 1
      <3>1. a \in Int /\ n \in Int /\ \A j \in a..n : s[j] \in Int
        BY <1>2, <2>1
      <3> HIDE DEF a
      <3>2. /\ SubSeq(s, a, n) \in Seq(Int)
            /\ Len(SubSeq(s, a, n)) = IF a <= n THEN n - a + 1 ELSE 0
            /\ \A j \in 1..(n - a + 1) : SubSeq(s, a, n)[j] = s[a + j - 1]
        BY <3>1, SubSeqProperties
      <3> QED BY <3>2 DEF a, g
    <2>3. z + 1 <= n /\ n - (z + 1) + 1 = w
      BY <1>1
    <2>4. Len(g) = w
      BY <2>2, <2>3
    <2>5. \A j \in D : (z + 1) + j - 1 = z + j
      BY <1>1, <1>2
    <2>6. \A j \in D : g[j] = s[z + j]
      <3> HIDE DEF z
      <3> QED BY <2>2, <2>3, <2>5
    <2>7. g \in [D -> Int]
      BY <2>2, <2>4, LenProperties
    <2> QED BY <2>6, <2>7
  <1> HIDE DEF f, g, z
  <1>6. Median2(f) \in Int /\ 2 * s[m + 1] <= Median2(f)
    <2> DEFINE v == s[m + 1]
               L == {k \in D : f[k] < v}
               T == (m + 2)..w
    <2>1. v \in Int
      BY <1>2
    <2>2. L \subseteq T
      <3> SUFFICES ASSUME NEW k \in D, f[k] < v PROVE k \in (m + 2)..w
        OBVIOUS
      <3>1. k \in 1..n /\ f[k] = s[k] /\ s[k] \in Int
        BY <1>1, <1>4
      <3>2. ~(k <= m + 1)
        <4> SUFFICES ASSUME k <= m + 1 PROVE FALSE
          OBVIOUS
        <4>1. v <= s[k]
          BY <1>2, <3>1
        <4> HIDE DEF v
        <4> QED BY <2>1, <3>1, <4>1
      <3> QED BY <1>1, <3>1, <3>2
    <2>3. IsFiniteSet(T) /\ Cardinality(T) < (w + 1) \div 2
      <3> DEFINE a == m + 2
      <3>1. a \in Int /\ w \in Int
        BY <1>1
      <3> HIDE DEF a
      <3>2. IsFiniteSet(a..w) /\ Cardinality(a..w) = IF a > w THEN 0 ELSE w - a + 1
        BY <3>1, FS_Interval
      <3>3. (IF a > w THEN 0 ELSE w - a + 1) < (w + 1) \div 2
        BY <1>1 DEF a
      <3> QED BY <3>2, <3>3 DEF a
    <2> HIDE DEF T, L
    <2>4. IsFiniteSet(L) /\ Cardinality(L) <= Cardinality(T)
      BY <2>2, <2>3, FS_Subset
    <2>5. Cardinality(L) \in Nat /\ Cardinality(T) \in Nat
      BY <2>3, <2>4, FS_CardinalityType
    <2>6. Cardinality(L) < (Cardinality(D) + 1) \div 2
      <3>1. Cardinality(L) < (w + 1) \div 2
        BY <1>1, <2>3, <2>4, <2>5
      <3> QED BY <1>3, <3>1
    <2>7. Median2(f) \in Int /\ 2 * v <= Median2(f)
      <3> HIDE DEF D, v
      <3> QED BY <1>3, <1>4, <2>1, <2>6, MedianAtLeast DEF L
    <2> QED BY <2>7
  <1>7. Median2(g) \in Int /\ Median2(g) <= 2 * s[n - m]
    <2> DEFINE v == s[n - m]
               L == {k \in D : g[k] <= v}
               T == (w - m)..w
    <2>1. v \in Int
      BY <1>2
    <2>2. T \subseteq L
      <3> SUFFICES ASSUME NEW k \in T PROVE k \in D /\ g[k] <= v
        OBVIOUS
      <3>1. k \in D /\ z + k \in 1..n /\ n - m <= z + k
        BY <1>1, <1>2 DEF z
      <3>2. g[k] = s[z + k]
        BY <1>5, <3>1
      <3> QED BY <1>2, <3>1, <3>2
    <2>3. IsFiniteSet(T) /\ Cardinality(T) = m + 1
      <3> DEFINE a == w - m
      <3>1. a \in Int /\ w \in Int /\ ~(a > w) /\ w - a + 1 = m + 1
        BY <1>1
      <3> HIDE DEF a
      <3>2. IsFiniteSet(a..w) /\ Cardinality(a..w) = IF a > w THEN 0 ELSE w - a + 1
        BY <3>1, FS_Interval
      <3> QED BY <3>1, <3>2 DEF a
    <2> HIDE DEF T
    <2>4. IsFiniteSet(L)
      <3>1. L \subseteq D
        OBVIOUS
      <3> HIDE DEF L, D
      <3> QED BY <1>3, <3>1, FS_Subset
    <2> HIDE DEF L
    <2>5. Cardinality(T) <= Cardinality(L)
      BY <2>2, <2>4, FS_Subset
    <2>6. Cardinality(D) \div 2 + 1 <= Cardinality(L)
      BY <1>3, <2>3, <2>5 DEF m
    <2>7. Median2(g) \in Int /\ Median2(g) <= 2 * v
      <3> HIDE DEF D, v
      <3> QED BY <1>3, <1>5, <2>1, <2>6, MedianAtMost DEF L
    <2> QED BY <2>7
  <1>8. SubSeq(s, n - w + 1, n) = g
    BY DEF g, z
  <1> QED BY <1>1, <1>2, <1>6, <1>7, <1>8 DEF m, f

\* What the longest hold and the shortest run of normal cycling are.
LEMMA CyclingRanges ==
  \E r, h \in Nat : /\ r \in RunHealthy /\ h \in HoldHealthy
                    /\ \A run \in RunHealthy : run \in Nat /\ r <= run
                    /\ \A hold \in HoldHealthy : hold \in Nat /\ hold <= h
                    /\ h <= r
  <1>1. /\ RunHealthy \subseteq Nat /\ RunHealthy # {}
        /\ HoldHealthy \subseteq Nat /\ HoldHealthy # {}
    BY RangeAssumption
  <1>2. PICK r \in RunHealthy : \A run \in RunHealthy : r <= run
    BY <1>1, LeastNatural
  <1>3. \A hold \in HoldHealthy : hold <= r
    BY KnocksAssumption
  <1> DEFINE H == HoldHealthy
             T == 0..r
  <1>4. H \in SUBSET Int /\ H # {} /\ IsFiniteSet(H)
    <2>1. H \subseteq T /\ T \subseteq Int /\ r \in Int
      BY <1>1, <1>2, <1>3
    <2> DEFINE z == 0
    <2>2. z \in Int /\ T = z..r
      OBVIOUS
    <2> HIDE DEF T, z
    <2>3. IsFiniteSet(T)
      BY <2>1, <2>2, FS_Interval
    <2> QED BY <1>1, <2>1, <2>3, FS_Subset
  <1> DEFINE h == Max(H)
  <1>5. h \in H /\ \A y \in H : y <= h
    <2> HIDE DEF H
    <2> QED BY <1>4, MaxOfFinite
  <1> HIDE DEF h
  <1>6. r \in Nat /\ h \in Nat /\ h <= r
    BY <1>1, <1>2, <1>3, <1>5
  <1> QED BY <1>1, <1>2, <1>5, <1>6

\* The holds of windows one after the other.
LEMMA HoldsAmong ==
  ASSUME source \in Sources, Tiling, NEW h \in Nat, \A hold \in HoldRange : hold <= h,
         NEW p \in Nat, NEW k \in Nat, p + k <= Len(windows), NEW X,
         \A x \in X : \E c \in 1..k : windows[p + c].rest < x /\ x <= windows[p + c].next /\ x \in Int
  PROVE  IsFiniteSet(X) /\ Cardinality(X) <= k * h /\ Cardinality(X) \in Nat
  <1> DEFINE F == [c \in 1..k |-> (windows[p + c].rest + 1)..windows[p + c].next]
             G == UNION {F[c] : c \in 1..k}
  <1>1. ASSUME NEW c \in 1..k PROVE IsFiniteSet(F[c]) /\ Cardinality(F[c]) <= h
    <2> DEFINE u == windows[p + c].rest
               v == windows[p + c].next
               a == u + 1
    <2>1. p + c \in 1..Len(windows)
      <3>1. Len(windows) \in Nat
        BY TiledIs
      <3> QED BY <3>1
    <2>2. u \in Nat /\ v \in Nat /\ u <= v
      <3> DEFINE j == p + c
      <3> HIDE DEF j
      <3>1. windows[j].rest \in Nat /\ windows[j].next \in Nat /\ windows[j].rest <= windows[j].next
        BY <2>1, WindowsAre DEF j
      <3> QED BY <3>1 DEF j
    <2>3. v <= u + h
      <3>1. PICK hold \in HoldRange : v <= u + hold
        BY <2>1 DEF Tiling
      <3>2. hold \in Nat /\ hold <= h
        BY <3>1, RangesAre
      <3> HIDE DEF u, v
      <3> QED BY <2>2, <3>1, <3>2
    <2>4. F[c] = a..v
      OBVIOUS
    <2> HIDE DEF u, v, F
    <2>5. a \in Int /\ v \in Int
      BY <2>2
    <2>6. (IF a > v THEN 0 ELSE v - a + 1) <= h
      BY <2>2, <2>3
    <2> HIDE DEF a
    <2>7. IsFiniteSet(a..v) /\ Cardinality(a..v) = IF a > v THEN 0 ELSE v - a + 1
      BY <2>5, FS_Interval
    <2> QED BY <2>4, <2>6, <2>7
  <1>2. X \subseteq G
    <2> SUFFICES ASSUME NEW x \in X PROVE \E c \in 1..k : x \in F[c]
      OBVIOUS
    <2>1. PICK c \in 1..k : windows[p + c].rest < x /\ x <= windows[p + c].next /\ x \in Int
      OBVIOUS
    <2> DEFINE u == windows[p + c].rest
               v == windows[p + c].next
               j == p + c
    <2>2. u \in Nat /\ v \in Nat
      <3>1. j \in 1..Len(windows)
        <4>1. Len(windows) \in Nat
          BY TiledIs
        <4> QED BY <4>1
      <3> HIDE DEF j
      <3>2. windows[j].rest \in Nat /\ windows[j].next \in Nat
        BY <3>1, WindowsAre
      <3> QED BY <3>2 DEF j
    <2>3. u < x /\ x <= v /\ x \in Int
      BY <2>1
    <2>4. F[c] = (u + 1)..v
      OBVIOUS
    <2> HIDE DEF u, v, F
    <2>5. x \in (u + 1)..v
      BY <2>2, <2>3
    <2> QED BY <2>4, <2>5
  <1> HIDE DEF F
  <1>3. IsFiniteSet(G) /\ Cardinality(G) <= k * h
    BY <1>1, CoveredBy
  <1> HIDE DEF G
  <1>4. IsFiniteSet(X) /\ Cardinality(X) <= Cardinality(G)
    BY <1>2, <1>3, FS_Subset
  <1>5. Cardinality(X) \in Nat /\ Cardinality(G) \in Nat
    BY <1>3, <1>4, FS_CardinalityType
  <1> DEFINE q == k * h
  <1>6. q \in Int
    OBVIOUS
  <1>7. Cardinality(G) <= q
    BY <1>3
  <1> HIDE DEF q
  <1>8. Cardinality(X) <= q
    BY <1>4, <1>5, <1>6, <1>7
  <1> QED BY <1>4, <1>5, <1>8 DEF q

\* The runs of windows one after the other, none cut.
LEMMA RunsAmong ==
  ASSUME source \in Sources, Tiling, NEW r \in Nat, \A run \in RunRange : r <= run,
         NEW p \in Nat, NEW k \in Nat, p + k <= Len(windows),
         \A c \in 1..k : windows[p + c].rest < Total,
         NEW Y, IsFiniteSet(Y),
         \A c \in 1..k : \A x \in Int :
           windows[p + c].run < x /\ x <= windows[p + c].rest => x \in Y
  PROVE  k * r <= Cardinality(Y)
  <1> DEFINE F == [c \in 1..k |-> (windows[p + c].run + 1)..windows[p + c].rest]
             n == Len(windows)
  <1>1. n \in Nat
    BY TiledIs
  <1>2. ASSUME NEW c \in 1..k
        PROVE  /\ p + c \in 1..n /\ windows[p + c].run \in Nat /\ windows[p + c].rest \in Nat
               /\ windows[p + c].next \in Nat /\ windows[p + c].rest <= windows[p + c].next
    <2> DEFINE j == p + c
    <2>1. j \in 1..n
      BY <1>1
    <2> HIDE DEF j
    <2> QED BY <2>1, WindowsAre DEF j
  <1>3. ASSUME NEW c \in 1..k PROVE F[c] \subseteq Y /\ r <= Cardinality(F[c])
    <2> DEFINE u == windows[p + c].run
               v == windows[p + c].rest
               a == u + 1
    <2>1. p + c \in 1..n /\ u \in Nat /\ v \in Nat /\ v < Total
      BY <1>2
    <2>2. r <= v - u
      <3> DEFINE one == 1
      <3>1. PICK run \in RunRange : v = u + Max({one, run})
        BY <2>1 DEF Tiling
      <3>2. run \in Nat /\ r <= run /\ run \in Int /\ one \in Int
        BY <3>1, RangesAre
      <3> DEFINE m == Max({one, run})
      <3>3. m = IF one <= run THEN run ELSE one
        <4> HIDE DEF one
        <4> QED BY <3>2, OfTwo
      <3> HIDE DEF m, u, v
      <3> QED BY <2>1, <3>1, <3>2, <3>3 DEF m
    <2>3. F[c] = a..v
      OBVIOUS
    <2>4. F[c] \subseteq Y
      <3> SUFFICES ASSUME NEW x \in a..v PROVE x \in Y
        BY <2>3
      <3>1. x \in Int /\ u < x /\ x <= v
        <4> HIDE DEF u, v
        <4> QED BY <2>1
      <3> QED BY <3>1
    <2> HIDE DEF u, v, F
    <2>5. a \in Int /\ v \in Int /\ r <= IF a > v THEN 0 ELSE v - a + 1
      BY <2>1, <2>2
    <2> HIDE DEF a
    <2>6. Cardinality(a..v) = IF a > v THEN 0 ELSE v - a + 1
      BY <2>5, FS_Interval
    <2> QED BY <2>3, <2>4, <2>5, <2>6
  <1>4. ASSUME NEW c \in 1..k, NEW d \in 1..k, c < d PROVE F[c] \intersect F[d] = {}
    <2> DEFINE l == p + c
               m == p + d
    <2>1. l \in 1..n /\ m \in 1..n /\ l < m
      BY <1>2, <1>4
    <2> HIDE DEF l, m
    <2>2. windows[l].next <= windows[m].run
      BY <2>1, InTurn
    <2>3. windows[p + c].next <= windows[p + d].run
      BY <2>2 DEF l, m
    <2> DEFINE u == windows[p + c].run
               v == windows[p + c].rest
               e == windows[p + c].next
               w == windows[p + d].run
               z == windows[p + d].rest
    <2>4. u \in Nat /\ v \in Nat /\ e \in Nat /\ v <= e /\ w \in Nat /\ z \in Nat /\ e <= w
      BY <1>2, <2>3
    <2>5. F[c] = (u + 1)..v /\ F[d] = (w + 1)..z
      OBVIOUS
    <2> HIDE DEF u, v, e, w, z, F
    <2> QED BY <2>4, <2>5
  <1> HIDE DEF F
  <1> QED BY <1>3, <1>4, PackedIn

\* The rows (from 1) the compressor runs in.
RunRows == {k \in 1..Total : InRun(k - 1)}

\* The rows before the j-th row of the runs: those of the runs are one fewer,
\* and a hold lies between as many runs as fit in them.
LEMMA RowsBefore ==
  ASSUME source \in Sources, Tiling, Tiled = Total, NEW r \in Nat \ {0}, NEW h \in Nat,
         \A run \in RunRange : r <= run, \A hold \in HoldRange : hold <= h,
         NEW j \in 1..Cardinality(RunRows)
  PROVE  \E a \in 0..(h * ((j - 1) \div r)) : Nth(RunRows, j) = j + a
  <1> DEFINE at == RunRows
  <1>0. at = {k \in 1..Total : InRun(k - 1)} /\ j \in 1..Cardinality(at)
    BY DEF RunRows
  <1> HIDE DEF at
  <1> USE <1>0
  <1> DEFINE n == Total
             x == Nth(at, j)
             m == j - 1
             Y == {y \in at : y < x}
             B == {y \in at : y <= x}
             I == 1..(x - 1)
             X == I \ at
             W == Len(windows)
  <1>1. n \in Nat \ {0} /\ W \in Nat /\ at \in SUBSET Int /\ at \subseteq 1..n
    BY TotalPositive, TiledIs
  <1>2. IsFiniteSet(at)
    <2>1. IsFiniteSet(1..n)
      BY <1>1, PlacesFinite
    <2> HIDE DEF n
    <2> QED BY <1>1, <2>1, FS_Subset
  <1>3. x \in at /\ Place(at, x) = j /\ Cardinality(at) \in Nat
    BY <1>1, <1>2, NthPlace
  <1> HIDE DEF x
  <1>4. x \in 1..n /\ InRun(x - 1) /\ j \in Nat \ {0} /\ m \in Nat
    BY <1>1, <1>3
  <1>5. IsFiniteSet(Y) /\ Cardinality(Y) = m
    <2>1. B = Y \union {x} /\ x \notin Y
      BY <1>1, <1>3, <1>4
    <2>2. Cardinality(B) = j /\ Y \subseteq at
      BY <1>3 DEF Place
    <2> HIDE DEF Y, B
    <2>3. IsFiniteSet(Y)
      BY <1>2, <2>2, FS_Subset
    <2>4. Cardinality(Y \union {x}) = Cardinality(Y) + 1
      BY <2>1, <2>3, FS_AddElement
    <2>5. Cardinality(Y) \in Nat
      BY <2>3, FS_CardinalityType
    <2> QED BY <1>4, <2>1, <2>2, <2>3, <2>4, <2>5
  <1>6. Cardinality(X) = x - 1 - m
    <2> DEFINE z == x - 1
    <2>1. z \in Nat
      BY <1>4
    <2> HIDE DEF z
    <2>2. IsFiniteSet(1..z) /\ Cardinality(1..z) = z
      BY <2>1, PlacesFinite
    <2>3. IsFiniteSet(I) /\ Cardinality(I) = x - 1
      BY <2>2 DEF z
    <2>4. I \cap at = Y
      BY <1>1, <1>4
    <2> HIDE DEF I, Y
    <2>5. Cardinality(I \ at) = Cardinality(I) - Cardinality(I \cap at)
      BY <2>3, FS_Difference
    <2> QED BY <1>5, <2>3, <2>4, <2>5
  <1>7. PICK c \in 1..W : windows[c].run <= x - 1 /\ x - 1 < windows[c].rest
    BY <1>4 DEF InRun
  <1>8. /\ windows[c].run \in Nat /\ windows[c].rest \in Nat /\ windows[c].next \in Nat
        /\ windows[c].rest <= windows[c].next /\ windows[c].next <= n
    BY WindowsAre
  <1> DEFINE p == 0
             k == c - 1
  <1>9. p \in Nat /\ k \in Nat /\ p + k <= W /\ \A d \in 1..k : p + d = d /\ d \in 1..W /\ d < c
    BY <1>1
  <1>10. ASSUME NEW d \in 1..k
         PROVE  /\ windows[d].next <= windows[c].run /\ windows[d].next \in Nat
                /\ windows[d].run \in Nat /\ windows[d].rest \in Nat
                /\ windows[d].rest <= windows[d].next
    <2>1. d \in 1..W /\ d < c
      BY <1>9
    <2> QED BY <2>1, InTurn, WindowsAre
  <1>11. \A y \in X : \E d \in 1..k : windows[d].rest < y /\ y <= windows[d].next /\ y \in Int
    <2> SUFFICES ASSUME NEW y \in X
                 PROVE  \E d \in 1..k : windows[d].rest < y /\ y <= windows[d].next /\ y \in Int
      OBVIOUS
    <2> DEFINE t == y - 1
               d == Cycle(t)
               u == windows[d].run
               v == windows[d].rest
               e == windows[d].next
    <2>1. y \in Int /\ 1 <= y /\ y <= x - 1 /\ t \in Nat /\ t < n /\ y \in 1..n /\ y \notin at
      BY <1>1, <1>4
    <2> HIDE DEF t
    <2>2. ~InRun(t)
      BY <2>1 DEF t
    <2>3. d \in 1..W /\ u <= t /\ t < e
      BY <2>1, CycleIs
    <2> HIDE DEF d
    <2>4. u \in Nat /\ v \in Nat /\ e \in Nat
      BY <2>3, WindowsAre
    <2>5. ~(t < v)
      BY <2>2, <2>3 DEF InRun
    <2>6. d < c
      <3>1. d # c
        <4>1. t < windows[c].rest
          <5> DEFINE q == windows[c].rest
          <5>1. q \in Nat /\ x - 1 < q
            BY <1>7, <1>8
          <5> HIDE DEF q
          <5>2. t < q
            BY <1>4, <2>1, <5>1 DEF t
          <5> QED BY <5>2 DEF q
        <4> QED BY <2>5, <4>1
      <3>2. ~(c < d)
        <4> SUFFICES ASSUME c < d PROVE FALSE
          OBVIOUS
        <4>1. windows[c].next <= u
          BY <2>3, InTurn
        <4> DEFINE q == windows[c].rest
                   w == windows[c].next
        <4>2. q \in Nat /\ w \in Nat /\ q <= w /\ x - 1 < q /\ w <= u
          BY <1>7, <1>8, <4>1
        <4> HIDE DEF q, w, u
        <4> QED BY <1>4, <2>1, <2>3, <2>4, <4>2 DEF t
      <3> QED BY <1>1, <2>3, <3>1, <3>2
    <2>7. d \in 1..k
      BY <1>1, <2>3, <2>6
    <2>8. v < y /\ y <= e
      <3> HIDE DEF u, v, e
      <3> QED BY <2>1, <2>3, <2>4, <2>5 DEF t
    <2> QED BY <2>1, <2>7, <2>8
  <1>12. \A d \in 1..k : windows[d].rest < Total
    <2> SUFFICES ASSUME NEW d \in 1..k PROVE windows[d].rest < n
      OBVIOUS
    <2> DEFINE v == windows[d].rest
               e == windows[d].next
               u == windows[c].run
    <2>1. v \in Nat /\ e \in Nat /\ u \in Nat /\ v <= e /\ e <= u /\ u <= x - 1
      BY <1>7, <1>8, <1>10
    <2> HIDE DEF v, e, u
    <2>2. v < n
      BY <1>1, <1>4, <2>1
    <2> QED BY <2>2 DEF v
  <1>13. \A d \in 1..k : \A y \in Int : windows[d].run < y /\ y <= windows[d].rest => y \in Y
    <2> SUFFICES ASSUME NEW d \in 1..k, NEW y \in Int, windows[d].run < y, y <= windows[d].rest
                 PROVE  y \in Y
      OBVIOUS
    <2> DEFINE w == windows[d].run
               v == windows[d].rest
               e == windows[d].next
               u == windows[c].run
               t == y - 1
    <2>1. /\ v \in Nat /\ e \in Nat /\ u \in Nat /\ v <= e /\ e <= u /\ u <= x - 1 /\ w \in Nat
          /\ w < y /\ y <= v /\ d \in 1..W
      BY <1>7, <1>8, <1>9, <1>10
    <2> HIDE DEF v, e, u, w
    <2>2. y \in 1..n /\ y < x /\ w <= t /\ t < v
      BY <1>1, <1>4, <2>1, SMTT(60)
    <2>3. InRun(t)
      BY <2>1, <2>2 DEF InRun, w, v
    <2> QED BY <2>2, <2>3
  <1> HIDE DEF X, Y, n, m, k, p
  <1>14. IsFiniteSet(X) /\ Cardinality(X) <= k * h /\ Cardinality(X) \in Nat
    <2>1. \A y \in X : \E d \in 1..k : windows[p + d].rest < y /\ y <= windows[p + d].next /\ y \in Int
      BY <1>9, <1>11
    <2>2. p + k <= Len(windows)
      BY <1>9
    <2> QED BY <1>9, <2>1, <2>2, HoldsAmong
  <1>15. k * r <= Cardinality(Y)
    <2>1. \A d \in 1..k : windows[p + d].rest < Total
      BY <1>9, <1>12
    <2>2. \A d \in 1..k : \A y \in Int :
            windows[p + d].run < y /\ y <= windows[p + d].rest => y \in Y
      BY <1>9, <1>13
    <2>3. p + k <= Len(windows) /\ r \in Nat
      BY <1>9
    <2> QED BY <1>5, <1>9, <2>1, <2>2, <2>3, RunsAmong
  <1>16. k <= m \div r /\ m \div r \in Int
    <2>1. k \in Int /\ m \in Int /\ r * k <= m
      <3>1. k * r = r * k /\ k \in Int
        BY <1>9
      <3> QED BY <1>4, <1>5, <1>15, <3>1
    <2> QED BY <2>1, QuotientAbove, Quotient
  <1> DEFINE q == m \div r
             a == x - 1 - m
  <1>17. h * k <= h * q /\ k * h = h * k /\ h * k \in Int /\ h * q \in Int
    <2>1. q \in Int /\ k \in Int /\ k <= q
      BY <1>9, <1>16
    <2> HIDE DEF q
    <2> QED BY <2>1, ProductGrows
  <1>18. a \in 0..(h * q)
    <2>1. a \in Nat /\ a <= k * h
      BY <1>6, <1>14
    <2> HIDE DEF a, q
    <2> QED BY <1>17, <2>1
  <1>19. x = j + a
    BY <1>4 DEF m
  <1> HIDE DEF a
  <1> QED BY <1>18, <1>19 DEF m, x, at

\* The rows behind the j-th row of the runs: those of the runs, and the holds
\* between and around as many runs as fit in them.
LEMMA RowsAfter ==
  ASSUME source \in Sources, Tiling, Tiled = Total, NEW r \in Nat \ {0}, NEW h \in Nat,
         \A run \in RunRange : r <= run, \A hold \in HoldRange : hold <= h,
         NEW j \in 1..Cardinality(RunRows), NEW m \in Nat, m = Cardinality(RunRows) - j
  PROVE  \E b \in 0..(h * (1 + m \div r)) : Nth(RunRows, j) = Total - m - b
  <1> DEFINE at == RunRows
  <1>0. /\ at = {k \in 1..Total : InRun(k - 1)} /\ j \in 1..Cardinality(at)
        /\ m = Cardinality(at) - j
    BY DEF RunRows
  <1> HIDE DEF at
  <1> USE <1>0
  <1> DEFINE n == Total
             x == Nth(at, j)
             Y == {y \in at : x < y}
             B == {y \in at : y <= x}
             z == x + 1
             I == z..n
             X == I \ at
             W == Len(windows)
  <1>1. n \in Nat \ {0} /\ W \in Nat /\ at \in SUBSET Int /\ at \subseteq 1..n
    BY TotalPositive, TiledIs
  <1>2. IsFiniteSet(at)
    <2>1. IsFiniteSet(1..n)
      BY <1>1, PlacesFinite
    <2> HIDE DEF n
    <2> QED BY <1>1, <2>1, FS_Subset
  <1>3. x \in at /\ Place(at, x) = j /\ Cardinality(at) \in Nat
    BY <1>1, <1>2, NthPlace
  <1> HIDE DEF x
  <1>4. x \in 1..n /\ InRun(x - 1) /\ j \in Nat \ {0}
    BY <1>1, <1>3
  <1>5. IsFiniteSet(Y) /\ Cardinality(Y) = m
    <2>1. Y = at \ B /\ at \cap B = B /\ Y \subseteq at
      BY <1>1, <1>4
    <2>2. Cardinality(B) = j
      BY <1>3 DEF Place
    <2> HIDE DEF Y, B
    <2>3. IsFiniteSet(Y)
      BY <1>2, <2>1, FS_Subset
    <2>4. Cardinality(at \ B) = Cardinality(at) - Cardinality(at \cap B)
      BY <1>2, FS_Difference
    <2> QED BY <2>1, <2>2, <2>3, <2>4
  <1>6. Cardinality(X) = n - x - m
    <2>1. z \in Int /\ n \in Int /\ (IF z > n THEN 0 ELSE n - z + 1) = n - x
      BY <1>1, <1>4
    <2>2. I \cap at = Y
      BY <1>1, <1>4
    <2>3. IsFiniteSet(I) /\ Cardinality(I) = n - x
      <3> HIDE DEF z, n
      <3>1. IsFiniteSet(z..n) /\ Cardinality(z..n) = IF z > n THEN 0 ELSE n - z + 1
        BY <2>1, FS_Interval
      <3> QED BY <2>1, <3>1
    <2> HIDE DEF I, Y
    <2>4. Cardinality(I \ at) = Cardinality(I) - Cardinality(I \cap at)
      BY <2>3, FS_Difference
    <2> QED BY <1>5, <2>2, <2>3, <2>4
  <1>7. PICK c \in 1..W : windows[c].run <= x - 1 /\ x - 1 < windows[c].rest
    BY <1>4 DEF InRun
  <1> DEFINE K == IF windows[W].rest < n THEN W - c + 1 ELSE W - c
             k == IF K = 0 THEN 0 ELSE K - 1
             p == c - 1
  <1>8. /\ K \in Nat /\ k \in Nat /\ p \in Nat /\ c \in Nat
        /\ K <= k + 1 /\ p + K <= W /\ c + k <= W
    BY <1>1, <1>7
  <1>9. ASSUME NEW d \in 1..W, d < W PROVE windows[d].rest < n
    <2> DEFINE v == windows[d].rest
               e == windows[d].next
               u == windows[W].run
               w == windows[W].rest
               f == windows[W].next
    <2>1. W \in 1..W
      BY <1>1, <1>7
    <2>2. v \in Nat /\ e \in Nat /\ v <= e /\ u \in Nat /\ w \in Nat /\ f \in Nat /\ u < w
          /\ w <= f /\ f <= n
      BY <2>1, WindowsAre
    <2>3. e <= u
      BY <1>9, <2>1, InTurn
    <2> HIDE DEF v, e, u, w, f
    <2>4. v < n
      BY <1>1, <2>2, <2>3
    <2> QED BY <2>4 DEF v
  <1>10. ASSUME NEW d \in 1..W
         PROVE  /\ windows[d].run \in Nat /\ windows[d].rest \in Nat /\ windows[d].next \in Nat
                /\ windows[d].run < windows[d].rest /\ windows[d].rest <= windows[d].next
                /\ windows[d].next <= n
    BY WindowsAre
  <1>11. \A y \in X : \E d \in 1..K : windows[p + d].rest < y /\ y <= windows[p + d].next /\ y \in Int
    <2> SUFFICES ASSUME NEW y \in X
                 PROVE  \E d \in 1..K : windows[p + d].rest < y /\ y <= windows[p + d].next /\ y \in Int
      OBVIOUS
    <2> DEFINE t == y - 1
               d == Cycle(t)
               u == windows[d].run
               v == windows[d].rest
               e == windows[d].next
    <2>1. y \in Int /\ x < y /\ t \in Nat /\ t < n /\ y \in 1..n /\ y \notin at
      BY <1>1, <1>4
    <2> HIDE DEF t
    <2>2. ~InRun(t)
      BY <2>1 DEF t
    <2>3. d \in 1..W /\ u <= t /\ t < e
      BY <2>1, CycleIs
    <2> HIDE DEF d
    <2>4. u \in Nat /\ v \in Nat /\ e \in Nat /\ e <= n
      BY <1>10, <2>3
    <2>5. ~(t < v)
      BY <2>2, <2>3 DEF InRun
    <2>6. ~(d < c)
      <3> SUFFICES ASSUME d < c PROVE FALSE
        OBVIOUS
      <3> DEFINE w == windows[c].run
      <3>1. e <= w /\ w \in Nat /\ w <= x - 1
        BY <1>7, <1>10, <2>3, InTurn
      <3> HIDE DEF w, e
      <3> QED BY <1>4, <2>1, <2>3, <2>4, <3>1 DEF t
    <2>7. d = W => windows[W].rest < n
      <3>1. v < n
        <4> HIDE DEF v, n
        <4> QED BY <1>1, <2>1, <2>4, <2>5
      <3> QED BY <3>1
    <2>8. d - p \in 1..K /\ p + (d - p) = d
      BY <1>1, <1>7, <2>3, <2>6, <2>7
    <2>9. v < y /\ y <= e
      <3> HIDE DEF u, v, e
      <3> QED BY <2>1, <2>3, <2>4, <2>5 DEF t
    <2> DEFINE g == d - p
    <2>10. p + g = d /\ g \in 1..K
      BY <2>8
    <2> HIDE DEF g, p, K
    <2>11. windows[p + g].rest < y /\ y <= windows[p + g].next
      BY <2>9, <2>10
    <2> QED BY <2>1, <2>10, <2>11
  <1>12. \A d \in 1..k : c + d \in 1..W /\ windows[c + d].rest < n
    <2> SUFFICES ASSUME NEW d \in 1..k PROVE c + d \in 1..W /\ windows[c + d].rest < n
      OBVIOUS
    <2> DEFINE g == c + d
    <2>1. g \in 1..W /\ (g = W => windows[W].rest < n)
      BY <1>1, <1>7
    <2> HIDE DEF g
    <2>2. windows[g].rest < n
      <3>1. CASE g = W
        BY <2>1, <3>1
      <3>2. CASE g # W
        <4>1. g < W
          BY <1>1, <2>1, <3>2
        <4> QED BY <1>9, <2>1, <4>1
      <3> QED BY <3>1, <3>2
    <2> QED BY <2>1, <2>2 DEF g
  <1>13. \A d \in 1..k : \A y \in Int :
            windows[c + d].run < y /\ y <= windows[c + d].rest => y \in Y
    <2> SUFFICES ASSUME NEW d \in 1..k, NEW y \in Int,
                        windows[c + d].run < y, y <= windows[c + d].rest
                 PROVE  y \in Y
      OBVIOUS
    <2> DEFINE g == c + d
    <2>1. g \in 1..W /\ c < g
      BY <1>8, <1>12
    <2> HIDE DEF g
    <2> DEFINE w == windows[g].run
               v == windows[g].rest
               e == windows[g].next
               q == windows[c].rest
               s == windows[c].next
               t == y - 1
    <2>2. w < y /\ y <= v
      BY DEF g
    <2>3. /\ v \in Nat /\ e \in Nat /\ w \in Nat /\ v <= e /\ e <= n
          /\ q \in Nat /\ s \in Nat /\ q <= s /\ x - 1 < q
      BY <1>7, <1>10, <2>1
    <2>4. s <= w
      BY <2>1, InTurn
    <2> HIDE DEF v, e, w, q, s
    <2>5. y \in 1..n /\ x < y /\ w <= t /\ t < v
      BY <1>1, <1>4, <2>2, <2>3, <2>4
    <2>6. InRun(t)
      BY <2>1, <2>5 DEF InRun, w, v
    <2> QED BY <2>5, <2>6
  <1> HIDE DEF X, Y, n, K, k, p
  <1>14. IsFiniteSet(X) /\ Cardinality(X) <= K * h /\ Cardinality(X) \in Nat
    <2>1. p + K <= Len(windows)
      BY <1>8
    <2> QED BY <1>8, <1>11, <2>1, HoldsAmong
  <1>15. k * r <= Cardinality(Y)
    <2>1. \A d \in 1..k : windows[c + d].rest < Total
      BY <1>12 DEF n
    <2>2. c + k <= Len(windows) /\ r \in Nat
      BY <1>8
    <2> QED BY <1>5, <1>8, <1>13, <2>1, <2>2, RunsAmong
  <1>16. k <= m \div r /\ m \div r \in Int
    <2>1. k \in Int /\ m \in Int /\ r * k <= m
      <3>1. k * r = r * k /\ k \in Int
        BY <1>8
      <3> QED BY <1>5, <1>15, <3>1
    <2> QED BY <2>1, QuotientAbove, Quotient
  <1> DEFINE q == 1 + m \div r
             b == n - x - m
  <1>17. h * K <= h * q /\ K * h = h * K /\ h * K \in Int /\ h * q \in Int
    <2>1. q \in Int /\ K \in Int /\ K <= q
      BY <1>8, <1>16
    <2> HIDE DEF q
    <2> QED BY <2>1, ProductGrows
  <1>18. b \in 0..(h * q)
    <2>1. b \in Nat /\ b <= K * h
      BY <1>6, <1>14
    <2> HIDE DEF b, q
    <2> QED BY <1>17, <2>1
  <1>19. x = n - m - b
    BY <1>1, <1>4
  <1> HIDE DEF b
  <1> QED BY <1>18, <1>19 DEF x, n, at

\* The median of a part is no greater where no value is.
LEMMA MedianOver ==
  ASSUME NEW n \in Nat, NEW x \in Seq(Int), Len(x) = n, NEW y \in Seq(Int), Len(y) = n,
         NEW p \in 1..n, NEW q \in p..n, \A k \in p..q : x[k] <= y[k]
  PROVE  /\ Median2(SubSeq(x, p, q)) \in Int /\ Median2(SubSeq(y, p, q)) \in Int
         /\ Median2(SubSeq(x, p, q)) <= Median2(SubSeq(y, p, q))
  <1> DEFINE c == q - p + 1
             K == 1..c
             f == SubSeq(x, p, q)
             g == SubSeq(y, p, q)
  <1>1. /\ p \in Nat /\ q \in Nat /\ p <= q /\ q <= n /\ c \in Nat \ {0}
        /\ \A k \in K : p + k - 1 \in p..q /\ p + k - 1 \in 1..n
    OBVIOUS
  <1>2. IsFiniteSet(K) /\ K # {}
    <2>1. 1 \in K /\ c \in Nat
      BY <1>1
    <2> HIDE DEF c
    <2> QED BY <2>1, PlacesFinite
  <1>3. f \in [K -> Int] /\ \A k \in K : f[k] = x[p + k - 1]
    <2>1. \A j \in p..q : x[j] \in Int
      BY <1>1
    <2>2. /\ SubSeq(x, p, q) \in Seq(Int)
          /\ Len(SubSeq(x, p, q)) = IF p <= q THEN q - p + 1 ELSE 0
          /\ \A j \in 1..(q - p + 1) : SubSeq(x, p, q)[j] = x[p + j - 1]
      BY <1>1, <2>1, SubSeqProperties
    <2>3. f \in Seq(Int) /\ Len(f) = c /\ \A k \in K : f[k] = x[p + k - 1]
      BY <1>1, <2>2
    <2> HIDE DEF f, c
    <2> QED BY <2>3, LenProperties
  <1>4. g \in [K -> Int] /\ \A k \in K : g[k] = y[p + k - 1]
    <2>1. \A j \in p..q : y[j] \in Int
      BY <1>1
    <2>2. /\ SubSeq(y, p, q) \in Seq(Int)
          /\ Len(SubSeq(y, p, q)) = IF p <= q THEN q - p + 1 ELSE 0
          /\ \A j \in 1..(q - p + 1) : SubSeq(y, p, q)[j] = y[p + j - 1]
      BY <1>1, <2>1, SubSeqProperties
    <2>3. g \in Seq(Int) /\ Len(g) = c /\ \A k \in K : g[k] = y[p + k - 1]
      BY <1>1, <2>2
    <2> HIDE DEF g, c
    <2> QED BY <2>3, LenProperties
  <1>5. \A k \in K : f[k] <= g[k]
    BY <1>1, <1>3, <1>4
  <1> HIDE DEF K, f, g
  <1>6. Median2(f) <= Median2(g) /\ Median2(f) \in Int /\ Median2(g) \in Int
    BY <1>2, <1>3, <1>4, <1>5, MedianMonotone, MedianType
  <1> QED BY <1>6 DEF f, g

\* The blocked condenser is found: delta-T falls to its floor, or far enough,
\* unless a later window is drawn much higher.
LEMMA MadeCondenser ==
  ASSUME source = "condenser_airflow", Tiling, Tiled = Total, ~Masked
  PROVE  DetectCondenserAirflow(Make) # "none"
  <1> DEFINE delta == RunningDelta(Make.channels)
             at == RunRows
             n == Cardinality(at)
             N == Total
             E == Late
             C(k) == WindowDelta(Cycle(Nth(at, k) - 1))
  <1>1. source \in Sources /\ N \in Nat /\ N >= 2
    <2>1. source \in Sources
      BY DEF Sources, HourSources
    <2> QED BY <2>1, MadeTimes, TotalPositive
  <1>2. E \in 15..35 /\ draw \in Draws[source]
    <2>1. draw \in Draws[source]
      BY <1>1 DEF Tiling
    <2>2. E \in Int /\ 15 <= E /\ E <= 35
      BY <1>1, <2>1, DrawsAre
    <2> HIDE DEF E
    <2> QED BY <2>1, <2>2
  <1>3. /\ at \in SUBSET Int /\ IsFiniteSet(at) /\ Len(delta) = n
        /\ n \in 1..N /\ delta \in Seq(Int) /\ n \in Nat
    <2>1. /\ at \in SUBSET Int /\ IsFiniteSet(at) /\ Len(delta) = n
          /\ Len(delta) \in 1..N /\ delta \in Seq(Int)
      BY <1>1, MadeDelta DEF RunRows
    <2> HIDE DEF at, delta, N
    <2> QED BY <1>1, <2>1
  <1>4. \A k \in 1..n : /\ Nth(at, k) \in 1..N /\ Nth(at, k) \in Nat
                        /\ delta[k] = Worsened(C(k), E, Nth(at, k) - 1)
    <2>1. \A k \in 1..Len(delta) : Nth(at, k) \in at /\ delta[k] = Delta(Nth(at, k) - 1)
      BY <1>1, MadeDelta DEF RunRows
    <2>2. \A x \in at : x \in 1..N /\ x \in Nat
      BY <1>1 DEF RunRows
    <2> HIDE DEF at, delta
    <2> QED BY <1>3, <2>1, <2>2 DEF Delta
  <1>21. \A k \in 1..n : Nth(at, k) - 1 \in 0..(N - 1) /\ C(k) \in 80..120
    <2> SUFFICES ASSUME NEW k \in 1..n PROVE Nth(at, k) - 1 \in 0..(N - 1) /\ C(k) \in 80..120
      OBVIOUS
    <2> DEFINE x == Nth(at, k)
               t == x - 1
               d == Cycle(t)
    <2>1. x \in 1..N
      BY <1>4
    <2> HIDE DEF x
    <2>2. t \in 0..(N - 1)
      BY <1>1, <2>1
    <2> HIDE DEF t
    <2>3. d \in Nat
      BY <1>1, <2>2, AmpsAre
    <2> HIDE DEF d
    <2> DEFINE y == WindowDelta(d)
    <2>4. y \in Int /\ 80 <= y /\ y <= 120
      BY <1>1, <1>2, <2>3, DrawsAre
    <2> HIDE DEF y
    <2>5. y \in 80..120
      BY <2>4
    <2> QED BY <2>2, <2>5 DEF y, d, t, x
  <1>5. PICK r, h \in Nat : /\ r \in RunHealthy /\ h \in HoldHealthy
                            /\ \A run \in RunHealthy : run \in Nat /\ r <= run
                            /\ \A hold \in HoldHealthy : hold \in Nat /\ hold <= h
                            /\ h <= r
    BY CyclingRanges, SMTT(60)
  <1>6. /\ RunRange = RunHealthy /\ HoldRange = HoldHealthy /\ N = NRows["condenser_airflow"]
        /\ r \in Nat \ {0}
    BY <1>5, BlockageAssumption, ZenonT(60) DEF RunRange, HoldRange, Total, WeekSources
  <1> DEFINE w == Max({n \div 3, 1})
             m == w \div 2
             first == m + 1
             last == n - m
  <1> HIDE DEF N, E, C, delta
  <1>7. w \in 1..n /\ 2 * m <= w /\ w <= n \div 3 + 1 /\ 3 * (n \div 3) <= n /\ n \div 3 \in Nat
    <2> HIDE DEF at
    <2> DEFINE q == n \div 3
               one == 1
    <2>1. q \in Int /\ 3 * q <= n /\ q \in Nat /\ one \in Int /\ one = 1
      <3> HIDE DEF n
      <3> QED BY <1>3, Quotient, QuotientNatural
    <2>2. w = IF q <= one THEN one ELSE q
      <3> HIDE DEF q, one
      <3>1. Max({q, one}) = IF q <= one THEN one ELSE q
        BY <2>1, OfTwo
      <3> QED BY <3>1 DEF q, one
    <2>3. w \in 1..n /\ w <= q + 1
      <3> HIDE DEF w, n, q, one
      <3> QED BY <1>3, <2>1, <2>2
    <2>4. 2 * m <= w
      <3> HIDE DEF w
      <3> QED BY <2>3
    <2> HIDE DEF w, m
    <2> QED BY <2>1, <2>3, <2>4
  <1>8. /\ m \in Nat /\ first \in 1..n /\ last \in 1..n /\ first <= last
    <2> HIDE DEF at
    <2> DEFINE q == n \div 3
    <2>1. w \in 1..n /\ w <= q + 1 /\ 3 * q <= n /\ q \in Nat
      BY <1>7
    <2> HIDE DEF w, n, q
    <2>2. m \in Nat /\ 2 * m <= w
      BY <2>1, <1>3
    <2> HIDE DEF m
    <2> QED BY <1>3, <2>1, <2>2
  <1> HIDE DEF at, n, w
  <1>9. PICK a \in 0..(h * (m \div r)) : Nth(at, first) = first + a
    <2> DEFINE q == h * ((first - 1) \div r)
    <2>1. \E a \in 0..q : Nth(at, first) = first + a
      <3>1. \A run \in RunRange : r <= run
        BY <1>5, <1>6
      <3>2. \A hold \in HoldRange : hold <= h
        BY <1>5, <1>6
      <3>4. first \in 1..Cardinality(at)
        BY <1>8 DEF n
      <3>5. source \in Sources /\ Tiling /\ Tiled = Total /\ r \in Nat \ {0} /\ h \in Nat
        BY <1>1, <1>5, <1>6
      <3> DEFINE j == first
      <3> HIDE DEF j, at
      <3>6. \E a \in 0..(h * ((j - 1) \div r)) : Nth(RunRows, j) = j + a
        <4>1. j \in 1..Cardinality(RunRows)
          BY <3>4 DEF j, at
        <4> HIDE DEF j
        <4> QED BY <3>1, <3>2, <3>5, <4>1, RowsBefore
      <3> QED BY <3>6 DEF j, at
    <2>2. first - 1 = m
      BY <1>8
    <2> QED BY <2>1, <2>2
  <1>10. PICK b \in 0..(h * (1 + m \div r)) : Nth(at, last) = N - m - b
    <2>1. \A run \in RunRange : r <= run
      BY <1>5, <1>6
    <2>2. \A hold \in HoldRange : hold <= h
      BY <1>5, <1>6
    <2>4. last \in 1..Cardinality(RunRows)
      BY <1>8 DEF n, at
    <2>5. m \in Nat /\ m = Cardinality(RunRows) - last
      BY <1>3, <1>8 DEF n, at
    <2> HIDE DEF last, m
    <2>6. \E b \in 0..(h * (1 + m \div r)) : Nth(RunRows, last) = Total - m - b
      <3>1. source \in Sources /\ Tiling /\ Tiled = Total /\ r \in Nat \ {0} /\ h \in Nat
        BY <1>1, <1>5, <1>6
      <3>2. m \in Nat
        BY <2>5
      <3>3. m = Cardinality(RunRows) - last
        BY <2>5
      <3>4. source \in Sources
        BY <3>1
      <3>5. Tiled = Total
        BY <3>1
      <3>6. r \in Nat \ {0}
        BY <3>1
      <3>7. h \in Nat
        BY <3>1
      <3>8. \A j \in 1..Cardinality(RunRows) : \A q \in Nat : q = Cardinality(RunRows) - j =>
              \E b \in 0..(h * (1 + q \div r)) : Nth(RunRows, j) = Total - q - b
        BY <2>1, <2>2, <3>4, <3>5, <3>6, <3>7, RowsAfter
      <3> QED BY <2>4, <3>2, <3>3, <3>8
    <2> QED BY <2>6 DEF N, at
  <1>11. a \in Nat /\ b \in Nat
    <2>1. m \div r \in Nat
      BY <1>6, <1>8, QuotientNatural
    <2> DEFINE q == m \div r
               u == h * q
               v == h * (1 + q)
    <2>2. q \in Nat
      BY <2>1
    <2> HIDE DEF q
    <2>3. u \in Nat /\ v \in Nat
      BY <1>5, <2>2
    <2>4. a \in 0..u /\ b \in 0..v
      BY <1>9, <1>10 DEF q
    <2> HIDE DEF u, v
    <2> QED BY <2>3, <2>4
  <1>12. a + b <= N - n
    <2>1. first \in 1..Cardinality(at) /\ last \in first..Cardinality(at)
      BY <1>3, <1>8 DEF n
    <2>2. last - first <= Nth(at, last) - Nth(at, first)
      <3> HIDE DEF first, last
      <3> QED BY <1>3, <2>1, NthApart
    <2> DEFINE x == Nth(at, first)
               y == Nth(at, last)
    <2>3. last - first <= y - x /\ x = first + a /\ y = N - m - b
      BY <1>9, <1>10, <2>2
    <2> HIDE DEF x, y, m
    <2> QED BY <1>1, <1>3, <1>8, <1>11, <2>3
  <1>22. \A j, k \in 1..n : j <= k => Nth(at, j) <= Nth(at, k)
    <2> SUFFICES ASSUME NEW j \in 1..n, NEW k \in 1..n, j <= k PROVE Nth(at, j) <= Nth(at, k)
      OBVIOUS
    <2> DEFINE x == Nth(at, j)
               y == Nth(at, k)
    <2>1. x \in 1..N /\ y \in 1..N
      BY <1>4
    <2>2. j \in 1..Cardinality(at) /\ k \in j..Cardinality(at)
      BY <1>3 DEF n
    <2>3. k - j <= Nth(at, k) - Nth(at, j)
      BY <1>3, <2>2, NthApart
    <2>4. k - j <= y - x /\ j \in Int /\ k \in Int
      BY <1>3, <2>3
    <2> HIDE DEF x, y
    <2>5. x <= y
      BY <2>1, <2>4
    <2> QED BY <2>5 DEF x, y
  <1>23. PICK low \in 1..w : \A k \in 1..w : C(low) <= C(k)
    <2> DEFINE X == {C(k) : k \in 1..w}
    <2>1. w \in Nat /\ 1 \in 1..w /\ 1..w \subseteq 1..n
      BY <1>3, <1>7
    <2>2. X \subseteq Nat
      <3> SUFFICES ASSUME NEW k \in 1..w PROVE C(k) \in Nat
        OBVIOUS
      <3>1. C(k) \in 80..120
        BY <1>21, <2>1
      <3> QED BY <3>1
    <2>3. X # {}
      BY <2>1
    <2>4. \A k \in 1..w : C(k) \in X
      OBVIOUS
    <2>5. \E x \in X : \A y \in X : x <= y
      <3> HIDE DEF X
      <3> QED BY <2>2, <2>3, LeastNatural
    <2> QED BY <2>4, <2>5
  <1> DEFINE lo == C(low)
             top == 120
             hi == Min({lo + DeltaSpread, top})
  <1>24. low \in 1..n /\ lo \in 80..120
    BY <1>3, <1>7, <1>21
  <1> HIDE DEF lo
  <1>25. /\ hi \in 80..120 /\ hi = (IF lo + DeltaSpread <= top THEN lo + DeltaSpread ELSE top)
         /\ lo \in Int /\ DeltaSpread \in Nat
    <2> DEFINE x == lo + DeltaSpread
    <2>4. DeltaSpread \in Nat
      BY BlockageAssumption, Zenon
    <2>1. x \in Int /\ top \in Int /\ 80 <= x /\ lo \in Int /\ DeltaSpread \in Nat
      BY <1>24, <2>4
    <2> HIDE DEF x
    <2>2. Min({x, top}) = IF x <= top THEN x ELSE top
      <3> HIDE DEF top
      <3> QED BY <2>1, OfTwo
    <2>3. hi = IF x <= top THEN x ELSE top
      BY <2>2 DEF x
    <2> HIDE DEF hi
    <2> QED BY <2>1, <2>3 DEF x
  <1> HIDE DEF hi
  \* No window of the last third is drawn higher than that.
  <1>26. \A k \in (n - w + 1)..n : k \in 1..n /\ C(k) <= hi
    <2> SUFFICES ASSUME NEW k \in (n - w + 1)..n PROVE k \in 1..n /\ C(k) <= hi
      OBVIOUS
    <2>1. k \in 1..n /\ low <= k
      <3>1. 2 * w <= n + 1
        <4> DEFINE q == n \div 3
                   one == 1
        <4>1. q \in Nat /\ 3 * q <= n /\ one = 1 /\ one \in Int /\ q \in Int
          BY <1>7
        <4> HIDE DEF q, one
        <4>2. w = IF q <= one THEN one ELSE q
          <5>1. Max({q, one}) = IF q <= one THEN one ELSE q
            BY <4>1, OfTwo
          <5> QED BY <5>1 DEF w, q, one
        <4> QED BY <1>3, <4>1, <4>2
      <3>2. w \in Int /\ 1 <= w /\ w <= n /\ low \in Int /\ low <= w
        BY <1>7, <1>23
      <3> QED BY <1>3, <3>1, <3>2
    <2> DEFINE x == Nth(at, low) - 1
               y == Nth(at, k) - 1
               c == Cycle(x)
               d == Cycle(y)
    <2>2. x \in 0..(N - 1) /\ y \in 0..(N - 1)
      BY <1>21, <1>24, <2>1
    <2>3. x <= y
      <3>1. Nth(at, low) <= Nth(at, k) /\ Nth(at, low) \in Nat /\ Nth(at, k) \in Nat
        BY <1>4, <1>22, <1>24, <2>1
      <3> DEFINE u == Nth(at, low)
                 v == Nth(at, k)
      <3> HIDE DEF u, v
      <3>2. u - 1 <= v - 1
        BY <3>1 DEF u, v
      <3> QED BY <3>2 DEF u, v
    <2>4. C(k) = WindowDelta(d) /\ lo = WindowDelta(c)
      BY DEF C, lo
    <2> HIDE DEF x, y
    <2>5. C(k) \in 80..120 /\ lo \in 80..120
      BY <1>21, <1>24, <2>1
    <2>6. C(k) <= lo + DeltaSpread
      <3>1. CASE c = d
        <4>1. C(k) = lo
          BY <2>4, <3>1
        <4> QED BY <1>25, <2>5, <4>1
      <3>2. CASE c # d
        <4>1. x < y
          <5>1. x # y
            BY <3>2
          <5>2. N \in Int
            BY <1>1
          <5> QED BY <2>2, <2>3, <5>1, <5>2
        <4>2. c \in 1..Len(windows) /\ d \in 1..Len(windows) /\ c <= d /\ Len(windows) \in Nat
          BY <1>1, <2>2, <4>1, CyclesRise, TiledIs DEF N
        <4> HIDE DEF c, d
        <4>3. c < d
          BY <3>2, <4>2
        <4>4. ~(WindowDelta(d) > WindowDelta(c) + DeltaSpread)
          BY <4>2, <4>3 DEF Masked
        <4> QED BY <1>25, <2>4, <2>5, <4>4
      <3> QED BY <3>1, <3>2
    <2>7. C(k) <= hi
      BY <1>25, <2>5, <2>6
    <2> QED BY <2>1, <2>7
  <1> DEFINE s == Nth(at, first) - 1
             t == Nth(at, last) - 1
             S == Worsened(lo, E, s)
             T == Worsened(hi, E, t)
             f == [k \in 1..n |-> Worsened(lo, E, Nth(at, k) - 1)]
             g == [k \in 1..n |-> Worsened(hi, E, Nth(at, k) - 1)]
  <1>13. s = m + a /\ t = N - 1 - m - b /\ s \in 0..(N - 1) /\ t \in 0..(N - 1)
    <2> DEFINE x == Nth(at, first)
               y == Nth(at, last)
    <2>1. x = first + a /\ y = N - m - b /\ x \in 1..N /\ y \in 1..N
      BY <1>4, <1>8, <1>9, <1>10
    <2> HIDE DEF x, y, m
    <2>3. x - 1 = m + a /\ y - 1 = N - 1 - m - b
      BY <1>1, <1>8, <1>11, <2>1
    <2>4. x - 1 \in 0..(N - 1) /\ y - 1 \in 0..(N - 1)
      BY <1>1, <2>1
    <2> QED BY <2>3, <2>4 DEF x, y
  <1>14. T < CondenserFloor \/ 100 * (S - T) >= CondenserDrop * S
    <2> DEFINE At(x, u) == (x * (N - 1 - u) + E * u) \div (N - 1)
    <2>1. At(lo, m + a) = S /\ At(hi, N - 1 - m - b) = T
      <3>1. \A u \in 0..(N - 1) : N - (u + 1) = N - 1 - u
        BY <1>1
      <3>2. \A u \in 0..(N - 1) : Worsened(lo, E, u) = At(lo, u) /\ Worsened(hi, E, u) = At(hi, u)
        BY <3>1 DEF Worsened, N
      <3> HIDE DEF At, s, t
      <3> QED BY <1>13, <3>2
    <2>2. n \in 1..N /\ a + b <= N - n
      BY <1>3, <1>12
    <2>3. a \in 0..(h * (m \div r)) /\ b \in 0..(h * (1 + m \div r))
      BY <1>9, <1>10
    <2>4. At(hi, N - 1 - m - b) < CondenserFloor
            \/ 100 * (At(lo, m + a) - At(hi, N - 1 - m - b)) >= CondenserDrop * At(lo, m + a)
      <3> DEFINE rows == NRows["condenser_airflow"]
                 V(x, u) == (x * (rows - 1 - u) + E * u) \div (rows - 1)
      <3>1. \A j \in 1..rows :
              \A c \in 0..(h * ((Max({j \div 3, 1}) \div 2) \div r)),
                 d \in 0..(h * (1 + (Max({j \div 3, 1}) \div 2) \div r)) :
                c + d <= rows - j => \A x \in 80..120, e \in 15..35 :
                  \/ (Min({x + DeltaSpread, 120})
                         * (rows - 1 - (rows - 1 - (Max({j \div 3, 1}) \div 2) - d))
                       + e * (rows - 1 - (Max({j \div 3, 1}) \div 2) - d)) \div (rows - 1)
                        < CondenserFloor
                  \/ 100 * ((x * (rows - 1 - ((Max({j \div 3, 1}) \div 2) + c))
                             + e * ((Max({j \div 3, 1}) \div 2) + c)) \div (rows - 1)
                            - (Min({x + DeltaSpread, 120})
                                 * (rows - 1 - (rows - 1 - (Max({j \div 3, 1}) \div 2) - d))
                               + e * (rows - 1 - (Max({j \div 3, 1}) \div 2) - d))
                              \div (rows - 1))
                       >= CondenserDrop * ((x * (rows - 1 - ((Max({j \div 3, 1}) \div 2) + c))
                                            + e * ((Max({j \div 3, 1}) \div 2) + c))
                                           \div (rows - 1))
        BY <1>5, BlockageAssumption, ZenonT(60)
      <3>2. n \in 1..rows /\ N = rows
        BY <1>6, <2>2
      <3>3. \A c \in 0..(h * (m \div r)), d \in 0..(h * (1 + m \div r)) :
              c + d <= rows - n => \A x \in 80..120, e \in 15..35 :
                \/ (Min({x + DeltaSpread, 120}) * (rows - 1 - (rows - 1 - m - d))
                     + e * (rows - 1 - m - d)) \div (rows - 1) < CondenserFloor
                \/ 100 * ((x * (rows - 1 - (m + c)) + e * (m + c)) \div (rows - 1)
                          - (Min({x + DeltaSpread, 120}) * (rows - 1 - (rows - 1 - m - d))
                             + e * (rows - 1 - m - d)) \div (rows - 1))
                     >= CondenserDrop * ((x * (rows - 1 - (m + c)) + e * (m + c)) \div (rows - 1))
        BY <3>1, <3>2, Zenon DEF w, m
      <3>4. a + b <= rows - n
        BY <2>2, <3>2
      <3>5. \A x \in 80..120, e \in 15..35 :
                \/ (Min({x + DeltaSpread, 120}) * (rows - 1 - (rows - 1 - m - b))
                     + e * (rows - 1 - m - b)) \div (rows - 1) < CondenserFloor
                \/ 100 * ((x * (rows - 1 - (m + a)) + e * (m + a)) \div (rows - 1)
                          - (Min({x + DeltaSpread, 120}) * (rows - 1 - (rows - 1 - m - b))
                             + e * (rows - 1 - m - b)) \div (rows - 1))
                     >= CondenserDrop * ((x * (rows - 1 - (m + a)) + e * (m + a)) \div (rows - 1))
        <4> HIDE DEF m
        <4> QED BY <2>3, <3>3, <3>4, Zenon
      <3>6. V(hi, rows - 1 - m - b) < CondenserFloor
              \/ 100 * (V(lo, m + a) - V(hi, rows - 1 - m - b)) >= CondenserDrop * V(lo, m + a)
        <4> HIDE DEF m, E
        <4> QED BY <1>2, <1>24, <3>5, Zenon DEF hi
      <3> QED BY <3>2, <3>6, Zenon
    <2> HIDE DEF At, S, T
    <2> QED BY <2>1, <2>4
  <1>27. /\ \A k \in 1..n : f[k] = Worsened(lo, E, Nth(at, k) - 1) /\ f[k] \in Int /\ 15 <= f[k]
         /\ \A k \in 1..n : g[k] = Worsened(hi, E, Nth(at, k) - 1) /\ g[k] \in Int
         /\ \A j, k \in 1..n : j <= k => f[k] <= f[j] /\ g[k] <= g[j]
    <2>1. ASSUME NEW j \in 1..n, NEW k \in 1..n, j <= k
          PROVE  /\ Worsened(lo, E, Nth(at, k) - 1) <= Worsened(lo, E, Nth(at, j) - 1)
                 /\ Worsened(hi, E, Nth(at, k) - 1) <= Worsened(hi, E, Nth(at, j) - 1)
                 /\ Worsened(lo, E, Nth(at, j) - 1) \in Int /\ Worsened(hi, E, Nth(at, j) - 1) \in Int
                 /\ 15 <= Worsened(lo, E, Nth(at, j) - 1)
      <3> DEFINE x == Nth(at, j)
                 y == Nth(at, k)
                 p == x - 1
                 q == y - 1
      <3>1. x \in 1..N /\ y \in 1..N /\ x <= y
        BY <1>4, <1>22, <2>1
      <3> HIDE DEF x, y
      <3>2. p \in 0..(N - 1) /\ q \in p..(N - 1)
        BY <1>1, <3>1
      <3> HIDE DEF p, q
      <3>3. lo \in 80..lo /\ hi \in 80..hi
        BY <1>24, <1>25, SMTT(60)
      <3> HIDE DEF hi
      <3>4. /\ Worsened(lo, E, q) <= Worsened(lo, E, p) /\ Worsened(lo, E, p) \in Int
            /\ 15 <= Worsened(lo, E, p)
        BY <1>1, <1>2, <1>24, <3>2, <3>3, Worsening, ZenonT(60) DEF N
      <3>5. Worsened(hi, E, q) <= Worsened(hi, E, p) /\ Worsened(hi, E, p) \in Int
        BY <1>1, <1>2, <1>25, <3>2, <3>3, Worsening, ZenonT(60) DEF N
      <3> QED BY <3>4, <3>5 DEF p, q, x, y
    <2>2. \A k \in 1..n : k <= k
      BY <1>3
    <2>3. \A k \in 1..n : /\ f[k] = Worsened(lo, E, Nth(at, k) - 1)
                          /\ g[k] = Worsened(hi, E, Nth(at, k) - 1)
      OBVIOUS
    <2> HIDE DEF f, g
    <2> QED BY <2>1, <2>2, <2>3
  <1>28. f \in Seq(Int) /\ Len(f) = n /\ g \in Seq(Int) /\ Len(g) = n
    BY <1>3, <1>27
  <1>29. S = f[m + 1] /\ T = g[n - m] /\ first = m + 1 /\ last = n - m
    BY <1>8, <1>27
  <1>15. S \in Int /\ T \in Int /\ 15 <= S
    BY <1>8, <1>27, <1>29
  <1> HIDE DEF f, g, S, T, s, t
  \* Reading by reading, and so in the medians, delta-T is not below the one
  \* early on, nor above the other late.
  <1>30. \A k \in 1..w : k \in 1..n /\ f[k] <= delta[k]
    <2> SUFFICES ASSUME NEW k \in 1..w PROVE k \in 1..n /\ f[k] <= delta[k]
      OBVIOUS
    <2>1. k \in 1..n
      BY <1>3, <1>7
    <2> DEFINE p == Nth(at, k) - 1
               d == C(k)
    <2>2. p \in 0..(N - 1) /\ d \in 80..120 /\ lo <= d
      BY <1>21, <1>23, <2>1 DEF lo
    <2>3. f[k] = Worsened(lo, E, p) /\ delta[k] = Worsened(d, E, p)
      BY <1>4, <1>27, <2>1
    <2> HIDE DEF p, d
    <2>4. lo \in 80..d /\ p \in p..(N - 1)
      BY <1>1, <1>24, <2>2
    <2>5. Worsened(lo, E, p) <= Worsened(d, E, p)
      BY <1>1, <1>2, <2>2, <2>4, Worsening, ZenonT(60) DEF N
    <2> QED BY <2>1, <2>3, <2>5
  <1>31. \A k \in (n - w + 1)..n : k \in 1..n /\ delta[k] <= g[k]
    <2> SUFFICES ASSUME NEW k \in (n - w + 1)..n PROVE k \in 1..n /\ delta[k] <= g[k]
      OBVIOUS
    <2>1. k \in 1..n
      BY <1>26
    <2> DEFINE p == Nth(at, k) - 1
               d == C(k)
    <2>2. p \in 0..(N - 1) /\ d \in 80..120 /\ d <= hi
      BY <1>21, <1>26, <2>1
    <2>3. g[k] = Worsened(hi, E, p) /\ delta[k] = Worsened(d, E, p)
      BY <1>4, <1>27, <2>1
    <2> HIDE DEF p, d, hi
    <2>4. d \in 80..hi /\ p \in p..(N - 1)
      BY <1>1, <1>25, <2>2
    <2>5. Worsened(d, E, p) <= Worsened(hi, E, p)
      BY <1>1, <1>2, <1>25, <2>2, <2>4, Worsening, ZenonT(60) DEF N
    <2> QED BY <2>1, <2>3, <2>5
  <1> HIDE DEF hi
  <1> DEFINE early2 == Median2(SubSeq(delta, 1, w))
             late2 == Median2(SubSeq(delta, n - w + 1, n))
  <1>17. /\ early2 \in Int /\ 2 * S <= early2 /\ late2 \in Int /\ late2 <= 2 * T
    <2>1. Median2(SubSeq(f, 1, w)) \in Int /\ 2 * f[m + 1] <= Median2(SubSeq(f, 1, w))
      BY <1>3, <1>7, <1>27, <1>28, FallingMedians
    <2>2. Median2(SubSeq(g, n - w + 1, n)) \in Int /\ Median2(SubSeq(g, n - w + 1, n)) <= 2 * g[n - m]
      BY <1>3, <1>7, <1>27, <1>28, FallingMedians
    <2> HIDE DEF w, m, first, last
    <2>3. early2 \in Int /\ Median2(SubSeq(f, 1, w)) <= early2
      <3> DEFINE one == 1
      <3>1. one \in 1..n /\ w \in one..n /\ \A k \in one..w : f[k] <= delta[k]
        BY <1>7, <1>30
      <3> HIDE DEF one
      <3>2. /\ Median2(SubSeq(delta, one, w)) \in Int
            /\ Median2(SubSeq(f, one, w)) <= Median2(SubSeq(delta, one, w))
        BY <1>3, <1>28, <3>1, MedianOver
      <3> QED BY <3>2 DEF one
    <2>4. late2 \in Int /\ late2 <= Median2(SubSeq(g, n - w + 1, n))
      <3> DEFINE z == n - w + 1
      <3>1. z \in 1..n /\ n \in z..n /\ \A k \in z..n : delta[k] <= g[k]
        BY <1>3, <1>7, <1>31
      <3> HIDE DEF z
      <3>2. /\ Median2(SubSeq(delta, z, n)) \in Int
            /\ Median2(SubSeq(delta, z, n)) <= Median2(SubSeq(g, z, n))
        BY <1>3, <1>28, <3>1, MedianOver
      <3> QED BY <3>2 DEF z
    <2> DEFINE x == Median2(SubSeq(f, 1, w))
               y == Median2(SubSeq(g, n - w + 1, n))
    <2>5. x \in Int /\ 2 * S <= x /\ y \in Int /\ y <= 2 * T /\ x <= early2 /\ late2 <= y
      BY <1>29, <2>1, <2>2, <2>3, <2>4
    <2>6. early2 \in Int /\ late2 \in Int
      BY <2>3, <2>4
    <2> HIDE DEF x, y, early2, late2
    <2> QED BY <1>15, <2>5, <2>6
  <1> HIDE DEF early2, late2, m
  <1>18. late2 < 2 * CondenserFloor
           \/ (early2 > 0 /\ 100 * (early2 - late2) >= CondenserDrop * early2)
    <2>1. CondenserFloor = 50 /\ CondenserDrop = 35
      BY DEF CondenserFloor, CondenserDrop
    <2>2. CASE T < 50
      BY <1>15, <1>17, <2>1, <2>2
    <2>3. CASE 100 * (S - T) >= 35 * S
      BY <1>15, <1>17, <2>1, <2>3
    <2> QED BY <1>14, <2>1, <2>2, <2>3
  <1>19. Len(RunningDelta(Make.channels)) # 0
    BY <1>3 DEF delta
  <1>20. LET d == RunningDelta(Make.channels)
             third == Max({Len(d) \div 3, 1})
         IN /\ Median2(SubSeq(d, 1, third)) = early2
            /\ Median2(SubSeq(d, Len(d) - third + 1, Len(d))) = late2
    <2>1. Len(delta) = n
      BY <1>3
    <2> QED BY <2>1 DEF delta, early2, late2, w
  <1> QED BY <1>18, <1>19, <1>20 DEF DetectCondenserAirflow, Result

\* The readings on either side of the middle one of the rolling window, and
\* the ends of the window around reading k of T.
Half == KnockRollingWindow \div 2
WindowFrom(k) == IF 1 <= k - Half THEN k - Half ELSE 1
WindowUntil(k, T) == IF T <= k + Half THEN T ELSE k + Half

\* Half of the rolling window is a number.
LEMMA HalfIs == Half \in Nat
  BY KnockAssumption DEF Half

\* A reading is within the rolling window around it.
LEMMA WindowEnds ==
  ASSUME NEW T \in Nat, NEW k \in 1..T
  PROVE  WindowFrom(k) \in 1..k /\ WindowUntil(k, T) \in k..T
  BY HalfIs DEF WindowFrom, WindowUntil

\* The rolling median around reading k, by the readings it is taken of.
LEMMA BaselineOf ==
  ASSUME NEW T \in Nat, NEW vib \in [1..T -> [ts : Nat, rms : Int]], NEW k \in 1..T,
         NEW n \in Nat, n = WindowUntil(k, T) - WindowFrom(k) + 1,
         NEW f \in [1..n -> Int], \A j \in 1..n : f[j] = vib[WindowFrom(k) + j - 1].rms
  PROVE  Baseline2(vib, k) = IF n < 3 THEN 0 ELSE Median2(f)
  <1> DEFINE Sample == [ts : Nat, rms : Int]
             a == WindowFrom(k)
             b == WindowUntil(k, T)
             w == SubSeq(vib, a, b)
  <1>0. vib \in [1..T -> Sample]
    OBVIOUS
  <1>1. a \in 1..k /\ b \in k..T /\ a \in Int /\ b \in Int /\ a <= b
    <2>1. a \in 1..k /\ b \in k..T
      BY WindowEnds
    <2> HIDE DEF a, b
    <2> QED BY <2>1
  <1>2. vib \in Seq(Sample) /\ Len(vib) = T
    <2> HIDE DEF Sample
    <2> QED BY <1>0, IsASeq, LenProperties
  <1>3. SubSeq(vib, Max({1, k - Half}), Min({Len(vib), k + Half})) = w
    <2> DEFINE one == 1
               x == k - Half
               y == k + Half
    <2>1. one \in Int /\ x \in Int /\ y \in Int /\ T \in Int /\ one = 1
      BY HalfIs
    <2>2. a = (IF one <= x THEN x ELSE one) /\ b = IF T <= y THEN T ELSE y
      BY DEF WindowFrom, WindowUntil
    <2> HIDE DEF one, x, y, a, b
    <2>3. Max({one, x}) = a
      BY <2>1, <2>2, OfTwo
    <2>4. Min({T, y}) = b
      BY <2>1, <2>2, OfTwo
    <2> QED BY <1>2, <2>3, <2>4 DEF one, x, y
  <1>4. w \in Seq(Sample) /\ Len(w) = n /\ \A j \in 1..n : w[j] = vib[a + j - 1]
    <2>1. \A j \in a..b : vib[j] \in Sample
      <3> SUFFICES ASSUME NEW j \in a..b PROVE vib[j] \in Sample
        OBVIOUS
      <3>1. j \in 1..T
        <4> HIDE DEF a, b
        <4> QED BY <1>1
      <3> HIDE DEF Sample
      <3> QED BY <1>0, <3>1
    <2>2. n = b - a + 1
      OBVIOUS
    <2> HIDE DEF Sample, w, a, b
    <2>3. /\ SubSeq(vib, a, b) \in Seq(Sample)
          /\ Len(SubSeq(vib, a, b)) = IF a <= b THEN b - a + 1 ELSE 0
          /\ \A j \in 1..(b - a + 1) : SubSeq(vib, a, b)[j] = vib[a + j - 1]
      BY <1>1, <2>1, SubSeqProperties
    <2> QED BY <1>1, <2>2, <2>3 DEF w
  <1> HIDE DEF w
  <1>5. Column(w, "rms") = f
    <2>1. Column(w, "rms") = [j \in 1..n |-> w[j]["rms"]]
      BY <1>4 DEF Column
    <2>2. \A j \in 1..n : w[j]["rms"] = f[j]
      BY <1>4
    <2> QED BY <2>1, <2>2
  <1> QED BY <1>3, <1>4, <1>5 DEF Baseline2, KnockMinPeriods, Half

\* A reading that is not three times some value, which fewer than half of the
\* readings around it are below, is no spike.
LEMMA QuietReading ==
  ASSUME NEW T \in Nat, NEW vib \in [1..T -> [ts : Nat, rms : Int]], NEW k \in 1..T,
         NEW v \in Int, vib[k].rms < 3 * v,
         NEW X, IsFiniteSet(X),
         \A x \in WindowFrom(k)..WindowUntil(k, T) : vib[x].rms < v => x \in X,
         2 * Cardinality(X) < WindowUntil(k, T) - WindowFrom(k) + 1
  PROVE  k \notin Spikes(vib)
  <1> DEFINE a == WindowFrom(k)
             b == WindowUntil(k, T)
             n == b - a + 1
             rms == [j \in 1..T |-> vib[j].rms]
             f == [j \in 1..n |-> rms[a + j - 1]]
             D == 1..n
             L == {j \in D : f[j] < v}
             base == Baseline2(vib, k)
             r == rms[k]
  <1>1. a \in 1..k /\ b \in k..T /\ n \in Nat \ {0} /\ a \in Int /\ b \in Int
    <2>1. a \in 1..k /\ b \in k..T
      BY WindowEnds
    <2> HIDE DEF a, b
    <2> QED BY <2>1
  <1>0. rms \in [1..T -> Int] /\ \A j \in 1..T : vib[j].rms = rms[j]
    OBVIOUS
  <1>13. \A x \in a..b : rms[x] < v => x \in X
    <2>1. \A x \in a..b : x \in 1..T
      <3> HIDE DEF a, b
      <3> QED BY <1>1
    <2>2. \A x \in a..b : vib[x].rms < v => x \in X
      OBVIOUS
    <2> HIDE DEF rms, a, b
    <2> QED BY <1>0, <2>1, <2>2
  <1>14. vib[k].rms < 3 * v
    OBVIOUS
  <1> HIDE DEF rms
  <1>2. \A j \in D : a + j - 1 \in a..b /\ a + j - 1 \in 1..T /\ j \in Int
    <2> HIDE DEF a, b
    <2> QED BY <1>1
  <1>3. f \in [D -> Int] /\ \A j \in D : f[j] = rms[a + j - 1]
    <2>1. D = 1..n /\ f = [j \in 1..n |-> rms[a + j - 1]]
      OBVIOUS
    <2>2. ASSUME NEW j \in 1..n PROVE rms[a + j - 1] \in Int
      <3> DEFINE x == a + j - 1
      <3>1. x \in 1..T
        BY <1>2
      <3> HIDE DEF x
      <3>2. rms[x] \in Int
        BY <1>0, <3>1
      <3> QED BY <3>2 DEF x
    <2>3. \A j \in 1..n : f[j] = rms[a + j - 1]
      OBVIOUS
    <2> HIDE DEF D, n, a, f
    <2>4. f \in [1..n -> Int]
      BY <2>1, <2>2
    <2> QED BY <2>1, <2>3, <2>4
  <1>4. base = IF n < 3 THEN 0 ELSE Median2(f)
    <2>1. \A j \in 1..n : f[j] = vib[WindowFrom(k) + j - 1].rms
      <3> SUFFICES ASSUME NEW j \in 1..n PROVE f[j] = vib[a + j - 1].rms
        OBVIOUS
      <3>1. a + j - 1 \in 1..T /\ f[j] = rms[a + j - 1]
        BY <1>2, <1>3
      <3> QED BY <1>0, <3>1
    <2>2. n = WindowUntil(k, T) - WindowFrom(k) + 1 /\ n \in Nat
      BY <1>1
    <2> HIDE DEF n, f, a, b
    <2> QED BY <1>3, <2>1, <2>2, BaselineOf, ZenonT(60)
  <1>5. IsFiniteSet(D) /\ Cardinality(D) = n /\ D # {}
    <2>1. 1 \in D
      BY <1>1
    <2> HIDE DEF n
    <2> QED BY <1>1, <2>1, PlacesFinite
  <1>6. Cardinality(L) < (Cardinality(D) + 1) \div 2
    <2> DEFINE g == [x \in X |-> x - a + 1]
               G == {g[x] : x \in X}
    <2>1. ASSUME NEW j \in L PROVE j \in G
      <3> DEFINE x == a + j - 1
      <3>1. x \in a..b /\ rms[x] < v /\ j \in Int
        <4>1. j \in D /\ f[j] < v
          OBVIOUS
        <4> HIDE DEF f, D
        <4> QED BY <1>2, <1>3, <4>1
      <3>2. x - a + 1 = j
        <4>1. j \in Int /\ a \in Int
          BY <1>1, <3>1
        <4> HIDE DEF a
        <4> QED BY <4>1
      <3> HIDE DEF x
      <3>3. x \in X
        BY <1>13, <3>1
      <3> HIDE DEF a
      <3> QED BY <3>2, <3>3
    <2> HIDE DEF g, L
    <2>2. IsFiniteSet(G) /\ Cardinality(G) <= Cardinality(X)
      BY FiniteImage
    <2>3. L \subseteq G
      BY <2>1
    <2> HIDE DEF G
    <2>4. Cardinality(L) <= Cardinality(G) /\ IsFiniteSet(L)
      BY <2>2, <2>3, FS_Subset
    <2>5. Cardinality(L) \in Nat /\ Cardinality(G) \in Nat /\ Cardinality(X) \in Nat
      BY <2>2, <2>4, FS_CardinalityType
    <2> HIDE DEF D
    <2>6. 2 * Cardinality(X) < n
      OBVIOUS
    <2> HIDE DEF n
    <2> QED BY <1>1, <1>5, <2>2, <2>4, <2>5, <2>6
  <1> HIDE DEF D, f, n, a, b
  <1>7. Median2(f) \in Int /\ 2 * v <= Median2(f)
    <2>2. Cardinality({j \in D : f[j] < v}) < (Cardinality(D) + 1) \div 2
      BY <1>6
    <2> HIDE DEF L
    <2> QED BY <1>3, <1>5, <2>2, MedianAtLeast
  <1>8. r \in Int /\ r < 3 * v /\ vib[k].rms = r
    BY <1>0, <1>14
  <1>9. base = 0 \/ (base \in Int /\ 2 * v <= base)
    BY <1>4, <1>7
  <1> HIDE DEF r, base
  <1>10. ~(base > 0 /\ 2 * r >= 3 * base)
    BY <1>8, <1>9
  <1>12. ~(base > 0 /\ 2 * vib[k].rms >= KnockFactor * base)
    BY <1>8, <1>10 DEF KnockFactor
  <1> QED BY <1>12 DEF Spikes, base

\* How much of a finite set is left without a part of it.
LEMMA LeftOver ==
  ASSUME NEW S, IsFiniteSet(S), NEW T \in SUBSET S, NEW n, Cardinality(S) = n
  PROVE  IsFiniteSet(S \ T) /\ Cardinality(S \ T) = n - Cardinality(T)
  <1>1. S \cap T = T
    OBVIOUS
  <1> QED BY <1>1, FS_Difference

\* The readings of any segment without knocks.
LEMMA QuietReadings ==
  ASSUME source \in Sources \ {"knocking"}, Tiling, Tiled = Total
  PROVE  NReadings \in Nat /\ Make.vib \in [1..NReadings -> [ts : Nat, rms : Int]]
  <1> DEFINE N == NReadings
             D == 0..(N - 1)
             base == VibBaseline
             slips == [n \in D |->
                         IF Running(n * Every)
                         THEN (base[n] * Uniform(25, 45, draw.mult, n)) \div 100 ELSE base[n]]
             rms == IF source = "belt_slip" THEN slips ELSE base
             apart == IF source \in WeekSources THEN 10 ELSE 2
  <1>1. Percents(draw.rms) /\ Percents(draw.mult)
    BY DrawIs DEF Tiling
  <1>2. N \in Nat
    <2> DEFINE T == Total
               e == Every
    <2>1. T \in Nat \ {0}
      BY TotalPositive
    <2>2. e \in Nat \ {0}
      <3>1. CASE source \in WeekSources
        BY <3>1, IntervalAssumption DEF Every
      <3>2. CASE source \notin WeekSources
        BY <3>2 DEF Every, RowTime
      <3> QED BY <3>1, <3>2
    <2>3. N = (T + e - 1) \div e
      BY DEF NReadings
    <2> HIDE DEF T, e, N
    <2>4. T + e - 1 \in Nat
      BY <2>1, <2>2
    <2> QED BY <2>2, <2>3, <2>4, QuotientNatural
  <1>3. Make.vib = VibSummary(rms)
    <2> USE DEF Segment
    <2>1. CASE source = "healthy"
      BY <2>1 DEF Make, MakeHealthy
    <2>2. CASE source = "short_cycling"
      BY <2>2 DEF Make, MakeShortCycling
    <2>3. CASE source = "tcc_never_satisfied"
      BY <2>3 DEF Make, MakeTccNeverSatisfied
    <2>4. CASE source = "condenser_airflow"
      BY <2>4 DEF Make, MakeCondenserAirflow
    <2>5. CASE source = "belt_slip"
      BY <2>5 DEF Make, MakeBeltSlip
    <2>6. CASE source = "motor_degradation"
      BY <2>6 DEF Make, MakeMotorDegradation
    <2>7. CASE source = "seal_failure"
      BY <2>7 DEF Make, MakeSealFailure
    <2> QED BY <2>1, <2>2, <2>3, <2>4, <2>5, <2>6, <2>7 DEF Sources, HourSources, WeekSources
  <1>4. \A n \in D : base[n] \in Int
    <2> SUFFICES ASSUME NEW n \in D PROVE base[n] \in Int
      OBVIOUS
    <2> DEFINE x == Uniform(34, 103, draw.rms, n)
               y == Uniform(4, 23, draw.rms, n)
    <2>1. n \in Nat /\ Percents(draw.rms)
      BY <1>1, <1>2
    <2>2. x \in Int
      BY <2>1, UniformIn
    <2>3. y \in Int
      BY <2>1, UniformIn
    <2>4. base[n] = IF Running(n * Every) THEN x ELSE y
      BY DEF VibBaseline
    <2> HIDE DEF x, y, base
    <2> QED BY <2>2, <2>3, <2>4
  <1> HIDE DEF base
  <1>5. \A n \in D : rms[n] \in Int
    <2> SUFFICES ASSUME NEW n \in D PROVE slips[n] \in Int
      BY <1>4
    <2> DEFINE u == Uniform(25, 45, draw.mult, n)
               v == base[n]
    <2>1. n \in Nat /\ Percents(draw.mult)
      BY <1>1, <1>2
    <2>2. u \in Int
      BY <2>1, UniformIn
    <2>3. v \in Int
      BY <1>4
    <2>4. slips[n] = IF Running(n * Every) THEN (v * u) \div 100 ELSE v
      OBVIOUS
    <2> HIDE DEF u, v, slips
    <2>5. v * u \in Int
      BY <2>2, <2>3
    <2>6. (v * u) \div 100 \in Int
      BY <2>5, Quotient
    <2> QED BY <2>3, <2>4, <2>6
  <1> HIDE DEF rms
  <1>6. Make.vib = [k \in 1..N |-> [ts |-> (k - 1) * apart, rms |-> rms[k - 1]]]
    BY <1>3 DEF VibSummary
  <1>7. apart \in Nat
    OBVIOUS
  <1> HIDE DEF N, apart
  <1>8. ASSUME NEW k \in 1..N PROVE rms[k - 1] \in Int /\ (k - 1) * apart \in Nat
    <2>1. k - 1 \in D /\ k - 1 \in Nat
      BY <1>2
    <2>2. (k - 1) * apart \in Nat
      <3> DEFINE i1 == k - 1
      <3>1. i1 \in Nat
        BY <2>1
      <3> HIDE DEF i1
      <3>2. i1 * apart \in Nat
        BY <1>7, <3>1
      <3> QED BY <3>2 DEF i1
    <2> QED BY <1>5, <2>1, <2>2
  <1>9. Make.vib \in [1..N -> [ts : Nat, rms : Int]]
    BY <1>6, <1>8
  <1> QED BY <1>2, <1>9 DEF N

\* Without knocking no reading is a spike, where the readings differ by less
\* than the factor of a knock and runs prevail in every window.
LEMMA NoSpikes ==
  ASSUME source \in Sources \ {"knocking"}, Tiling, Tiled = Total, dep = Make, Alike, ~HoldsPrevail,
         NEW k \in Spikes(Make.vib)
  PROVE  FALSE
  <1> DEFINE T == NReadings
             vib == Make.vib
             from == WindowFrom(k)
             until == WindowUntil(k, T)
             I == from..until
             X == I \ Busy
             B == I \cap Busy
             r == vib[k].rms
  <1>1. source \in Sources /\ T \in Nat
    BY QuietReadings
  <1>2. vib \in [1..T -> [ts : Nat, rms : Int]]
    BY QuietReadings
  <1>3. dep.vib = vib /\ Len(vib) = T
    <2>1. dep.vib = vib
      OBVIOUS
    <2> HIDE DEF vib, T
    <2> QED BY <1>1, <1>2, <2>1, LenProperties
  <1>4. k \in 1..T /\ k \in Int
    <2>1. k \in 1..Len(vib)
      BY DEF Spikes
    <2> HIDE DEF vib, T
    <2> QED BY <1>1, <1>3, <2>1
  <1> HIDE DEF vib, T
  <1>5. from \in 1..k /\ until \in k..T /\ from \in Int /\ until \in Int
    <2>1. from \in 1..k /\ until \in k..T
      BY <1>1, <1>4, WindowEnds
    <2> HIDE DEF from, until
    <2> QED BY <1>1, <1>4, <2>1
  <1>6. IsFiniteSet(I) /\ Cardinality(I) = until - from + 1
    <2> HIDE DEF from, until
    <2>1. (IF from > until THEN 0 ELSE until - from + 1) = until - from + 1
      BY <1>1, <1>4, <1>5
    <2> QED BY <1>5, <2>1, FS_Interval
  <1>7. Max({1, k - Half})..Min({Len(dep.vib), k + Half}) = I
    <2> DEFINE one == 1
               x == k - Half
               y == k + Half
    <2>1. one \in Int /\ x \in Int /\ y \in Int /\ T \in Int /\ one = 1
      BY <1>1, <1>4, HalfIs
    <2>2. from = (IF one <= x THEN x ELSE one) /\ until = IF T <= y THEN T ELSE y
      BY DEF WindowFrom, WindowUntil
    <2> HIDE DEF one, x, y, from, until
    <2>3. Max({one, x}) = from
      BY <2>1, <2>2, OfTwo
    <2>4. Min({T, y}) = until
      BY <2>1, <2>2, OfTwo
    <2>5. Len(dep.vib) = T
      BY <1>3
    <2> QED BY <2>3, <2>4, <2>5 DEF one, x, y
  <1>8. ~(2 * Cardinality(X) >= Cardinality(I))
    <2> HIDE DEF I
    <2>1. k \in 1..Len(dep.vib)
      BY <1>3, <1>4
    <2>2. \A j \in 1..Len(dep.vib) :
            ~(2 * Cardinality((Max({1, j - Half})..Min({Len(dep.vib), j + Half})) \ Busy)
                >= Cardinality(Max({1, j - Half})..Min({Len(dep.vib), j + Half})))
      BY Zenon DEF HoldsPrevail, Half
    <2> QED BY <1>7, <2>1, <2>2
  <1>9. IsFiniteSet(X) /\ 2 * Cardinality(X) < until - from + 1 /\ B # {} /\ IsFiniteSet(B)
    <2> HIDE DEF I
    <2>1. IsFiniteSet(X) /\ IsFiniteSet(B)
      BY <1>6, FS_Subset
    <2>2. Cardinality(X) \in Nat
      BY <2>1, FS_CardinalityType
    <2>3. B = {} => X = I
      OBVIOUS
    <2> HIDE DEF X, B, from, until
    <2> DEFINE n == until - from + 1
    <2>4. n \in Int /\ n >= 1 /\ Cardinality(I) = n
      BY <1>1, <1>4, <1>5, <1>6
    <2> HIDE DEF n
    <2>5. 2 * Cardinality(X) < n
      BY <1>8, <2>2, <2>4
    <2>6. B # {}
      BY <2>2, <2>3, <2>4, <2>5
    <2> QED BY <2>1, <2>5, <2>6 DEF n
  <1>10. \A x \in I : x \in 1..T /\ vib[x].rms \in Int
    <2> SUFFICES ASSUME NEW x \in I PROVE x \in 1..T /\ vib[x].rms \in Int
      OBVIOUS
    <2>1. x \in 1..T
      <3> HIDE DEF from, until
      <3> QED BY <1>1, <1>4, <1>5
    <2>2. vib[x] \in [ts : Nat, rms : Int]
      BY <1>2, <2>1
    <2> QED BY <2>1, <2>2
  <1>11. PICK b \in B : \A x \in B : vib[b].rms <= vib[x].rms
    <2> DEFINE S == {vib[x].rms : x \in B}
    <2>1. S \in SUBSET Int /\ S # {} /\ IsFiniteSet(S)
      <3> DEFINE g == [x \in B |-> vib[x].rms]
      <3>1. S = {g[x] : x \in B}
        OBVIOUS
      <3>2. S \in SUBSET Int
        BY <1>10
      <3>3. S # {}
        BY <1>9
      <3> HIDE DEF g, S, B
      <3>4. IsFiniteSet(S)
        BY <1>9, <3>1, FiniteImage
      <3> QED BY <3>2, <3>3, <3>4
    <2>2. \A x \in B : vib[x].rms \in S
      OBVIOUS
    <2>3. \A y \in S : \E x \in B : y = vib[x].rms
      OBVIOUS
    <2> HIDE DEF S, B
    <2>4. Min(S) \in S /\ \A y \in S : Min(S) <= y
      BY <2>1, MinOfFinite
    <2> QED BY <2>2, <2>3, <2>4
  <1> DEFINE v == vib[b].rms
  <1>12. v \in Int /\ r < 3 * v
    <2>1. v \in Int /\ b \in Busy
      BY <1>10, <1>11
    <2>2. k \in 1..Len(dep.vib)
      BY <1>3, <1>4
    <2>3. dep.vib[k].rms < KnockFactor * dep.vib[b].rms
      BY <2>1, <2>2 DEF Alike
    <2> QED BY <1>3, <2>1, <2>3 DEF KnockFactor
  <1>13. \A x \in I : vib[x].rms < v => x \in X
    <2> SUFFICES ASSUME NEW x \in I, vib[x].rms < v, x \in Busy PROVE FALSE
      OBVIOUS
    <2> DEFINE y == vib[x].rms
    <2>1. y \in Int /\ v \in Int /\ v <= y /\ y < v
      BY <1>10, <1>11, <1>12
    <2> HIDE DEF y, v
    <2> QED BY <2>1
  <1> HIDE DEF v, X
  <1>14. \A x \in WindowFrom(k)..WindowUntil(k, T) : vib[x].rms < v => x \in X
    BY <1>13
  <1>15. 2 * Cardinality(X) < WindowUntil(k, T) - WindowFrom(k) + 1
    BY <1>9
  <1> HIDE DEF I, from, until
  <1>16. k \notin Spikes(vib)
    BY <1>1, <1>2, <1>4, <1>9, <1>12, <1>14, <1>15, QuietReading
  <1> QED BY <1>16 DEF vib

\* Without knocking none is found.
LEMMA MadeNoKnocking ==
  ASSUME source \in Sources \ {"knocking"}, Tiling, Tiled = Total, dep = Make, Alike, ~HoldsPrevail
  PROVE  DetectKnocking(Make) = "none"
  <1> DEFINE D == Spikes(Make.vib)
             times == [k \in D |-> Make.vib[k].ts]
             n == MaxCluster(times, KnockClusterSpan)
  <1>1. D = {}
    <2>1. \A k \in D : FALSE
      BY NoSpikes
    <2> QED BY <2>1
  <1>2. IsFiniteSet(D) /\ times \in [D -> Int] /\ \A x, y \in D : x = y
    <2> HIDE DEF D
    <2> QED BY <1>1, FS_EmptySet
  <1> HIDE DEF D, times
  <1>3. n \in Int /\ n <= 1
    <2>1. KnockClusterSpan \in Int
      BY KnockSpanAssumption
    <2> QED BY <1>2, <2>1, WindowMoves
  <1> HIDE DEF n
  <1>4. ~(n >= KnockMinCluster)
    BY <1>3 DEF KnockMinCluster
  <1> QED BY <1>4 DEF DetectKnocking, Result, n, D, times

\* A reading at least three times what most of the window around it stay
\* below is a spike.
LEMMA LoudReading ==
  ASSUME NEW T \in Nat, NEW vib \in [1..T -> [ts : Nat, rms : Int]], NEW k \in 1..T,
         NEW lo \in Nat, 0 < lo, \A j \in 1..T : vib[j].rms \in Nat /\ lo <= vib[j].rms,
         NEW v \in Nat, 3 * v <= vib[k].rms,
         3 <= WindowUntil(k, T) - WindowFrom(k) + 1,
         NEW X, IsFiniteSet(X), 2 * Cardinality(X) < WindowUntil(k, T) - WindowFrom(k) + 1,
         \A x \in WindowFrom(k)..WindowUntil(k, T) : v < vib[x].rms => x \in X
  PROVE  k \in Spikes(vib)
  <1> DEFINE a == WindowFrom(k)
             b == WindowUntil(k, T)
             n == b - a + 1
             rms == [j \in 1..T |-> vib[j].rms]
             f == [j \in 1..n |-> rms[a + j - 1]]
             D == 1..n
             L == {j \in D : v < f[j]}
             M == {j \in D : f[j] <= v}
             base == Baseline2(vib, k)
             r == rms[k]
  <1>1. a \in 1..k /\ b \in k..T /\ a \in Int /\ b \in Int /\ n = b - a + 1 /\ n \in Nat /\ 3 <= n
    <2>1. a \in 1..k /\ b \in k..T /\ n = b - a + 1 /\ 3 <= n
      BY WindowEnds
    <2> HIDE DEF a, b
    <2> QED BY <2>1
  <1>2. /\ rms \in [1..T -> Nat] /\ \A j \in 1..T : vib[j].rms = rms[j] /\ lo <= rms[j]
        /\ 3 * v <= rms[k] /\ \A x \in a..b : v < rms[x] => x \in X
    <2>1. \A x \in a..b : x \in 1..T
      <3> HIDE DEF a, b
      <3> QED BY <1>1
    <2>2. rms \in [1..T -> Nat] /\ \A j \in 1..T : vib[j].rms = rms[j] /\ lo <= rms[j]
      OBVIOUS
    <2>3. \A x \in a..b : v < vib[x].rms => x \in X
      OBVIOUS
    <2> HIDE DEF rms, a, b
    <2> QED BY <2>1, <2>2, <2>3
  <1> HIDE DEF rms
  <1>3. \A j \in D : a + j - 1 \in a..b /\ a + j - 1 \in 1..T /\ j \in Int
    <2> HIDE DEF a, b, f, L, M, base, r
    <2> SUFFICES ASSUME NEW j \in 1..n
                 PROVE  a + j - 1 \in a..b /\ a + j - 1 \in 1..T /\ j \in Int
      OBVIOUS
    <2>1. j \in Int /\ 1 <= j /\ j <= b - a + 1 /\ 1 <= a /\ b <= T /\ a \in Int /\ b \in Int
      BY <1>1
    <2> QED BY <2>1
  <1>4. f \in [D -> Int] /\ \A j \in D : lo <= f[j] /\ f[j] = rms[a + j - 1]
    <2>1. D = 1..n /\ f = [j \in 1..n |-> rms[a + j - 1]]
      OBVIOUS
    <2>2. ASSUME NEW j \in 1..n PROVE rms[a + j - 1] \in Nat /\ lo <= rms[a + j - 1]
      <3> DEFINE x == a + j - 1
      <3>1. x \in 1..T
        BY <1>3
      <3> HIDE DEF x
      <3>2. rms[x] \in Nat /\ lo <= rms[x]
        BY <1>2, <3>1
      <3> QED BY <3>2 DEF x
    <2>3. \A j \in 1..n : f[j] = rms[a + j - 1]
      OBVIOUS
    <2> HIDE DEF D, a, f
    <2>4. f \in [1..n -> Int]
      BY <2>1, <2>2
    <2>5. \A j \in 1..n : lo <= f[j]
      BY <2>2, <2>3
    <2> QED BY <2>1, <2>3, <2>4, <2>5
  <1>5. base = Median2(f)
    <2>1. \A j \in 1..n : f[j] = vib[WindowFrom(k) + j - 1].rms
      <3> SUFFICES ASSUME NEW j \in 1..n PROVE f[j] = vib[a + j - 1].rms
        OBVIOUS
      <3>1. a + j - 1 \in 1..T /\ f[j] = rms[a + j - 1]
        BY <1>3, <1>4
      <3> QED BY <1>2, <3>1
    <2>2. n = WindowUntil(k, T) - WindowFrom(k) + 1 /\ n \in Nat /\ 3 <= n
      BY <1>1
    <2> HIDE DEF f, a, b
    <2>3. base = IF n < 3 THEN 0 ELSE Median2(f)
      BY <1>4, <2>1, <2>2, BaselineOf
    <2> HIDE DEF n, base
    <2> QED BY <2>2, <2>3
  <1>6. IsFiniteSet(D) /\ Cardinality(D) = n /\ D # {}
    <2> HIDE DEF n
    <2>1. 1 \in D
      BY <1>1
    <2> QED BY <1>1, <2>1, PlacesFinite
  <1>7. IsFiniteSet(L) /\ Cardinality(L) \in Nat /\ Cardinality(L) <= Cardinality(X)
        /\ Cardinality(X) \in Nat
    <2> DEFINE g == [x \in X |-> x - a + 1]
               G == {g[x] : x \in X}
    <2>1. ASSUME NEW j \in L PROVE j \in G
      <3> DEFINE x == a + j - 1
      <3>1. x \in a..b /\ v < rms[x] /\ j \in Int
        <4>1. j \in D /\ v < f[j]
          OBVIOUS
        <4> HIDE DEF f, D
        <4> QED BY <1>3, <1>4, <4>1
      <3>2. x - a + 1 = j
        <4>1. j \in Int /\ a \in Int
          BY <1>1, <3>1
        <4> HIDE DEF a
        <4> QED BY <4>1
      <3> HIDE DEF x
      <3>3. x \in X
        BY <1>2, <3>1
      <3> HIDE DEF a
      <3> QED BY <3>2, <3>3
    <2> HIDE DEF g, L
    <2>2. IsFiniteSet(G) /\ Cardinality(G) <= Cardinality(X)
      BY FiniteImage
    <2>3. L \subseteq G
      BY <2>1
    <2> HIDE DEF G
    <2>4. Cardinality(L) <= Cardinality(G) /\ IsFiniteSet(L)
      BY <2>2, <2>3, FS_Subset
    <2>5. Cardinality(L) \in Nat /\ Cardinality(G) \in Nat /\ Cardinality(X) \in Nat
      BY <2>2, <2>4, FS_CardinalityType
    <2> QED BY <2>2, <2>4, <2>5
  <1>8. Cardinality(M) = n - Cardinality(L)
    <2>1. L \in SUBSET D
      OBVIOUS
    <2>2. M = D \ L
      <3> HIDE DEF f, D
      <3> QED BY <1>4
    <2> HIDE DEF L, M, D
    <2> QED BY <1>6, <2>1, <2>2, LeftOver
  <1> HIDE DEF L, M
  <1>9. Cardinality(D) \div 2 + 1 <= Cardinality(M)
    <2>1. 2 * Cardinality(X) < n /\ n \in Nat
      BY <1>1
    <2> HIDE DEF D, n
    <2> QED BY <1>6, <1>7, <1>8, <2>1
  <1> HIDE DEF D, f, a, b
  <1>10. Median2(f) \in Int /\ Median2(f) <= 2 * v
    <2>1. Cardinality(D) \div 2 + 1 <= Cardinality({j \in D : f[j] <= v}) /\ v \in Int
      BY <1>9 DEF M
    <2> QED BY <1>4, <1>6, <2>1, MedianAtMost
  <1>11. 2 * lo <= Median2(f)
    <2>1. lo \in Int /\ 0 <= lo
      OBVIOUS
    <2>2. Cardinality({j \in D : f[j] < lo}) < (Cardinality(D) + 1) \div 2
      <3>1. {j \in D : f[j] < lo} = {}
        BY <1>4, <2>1
      <3>2. Cardinality({j \in D : f[j] < lo}) = 0
        BY <3>1, FS_EmptySet
      <3> HIDE DEF n, D
      <3> QED BY <1>1, <1>6, <3>2
    <2> QED BY <1>4, <1>6, <2>1, <2>2, MedianAtLeast
  <1>12. r \in Int /\ 3 * v <= r /\ vib[k].rms = r
    BY <1>2
  <1>13. k \in 1..Len(vib)
    BY LenProperties
  <1> HIDE DEF r, base
  <1>14. base > 0 /\ 2 * r >= 3 * base
    BY <1>5, <1>10, <1>11, <1>12
  <1>15. base > 0 /\ 2 * vib[k].rms >= KnockFactor * base
    BY <1>12, <1>14 DEF KnockFactor
  <1> QED BY <1>13, <1>15 DEF Spikes, base

\* A row knocks where a run numbered 1, 4, 7... is in its first third.
LEMMA KnocksIn ==
  ASSUME source \in Sources, Tiling, Tiled = Total, NEW t \in Nat, t < Total, Knocks(t)
  PROVE  \E d \in 1..Len(windows) :
           /\ d % 3 = 1 /\ windows[d].run <= t /\ t < windows[d].rest
           /\ t < windows[d].run + Max({1, (windows[d].rest - windows[d].run) \div 3})
  <1> DEFINE d == Cycle(t)
             u == windows[d].run
             v == windows[d].rest
             third == (v - u) \div 3
  <1>1. d \in 1..Len(windows) /\ u <= t
    BY CycleIs
  <1>2. u \in Nat /\ v \in Nat /\ u < v
    BY <1>1, WindowsAre
  <1>3. d % 3 = 1 /\ t < u + Max({1, third})
    BY DEF Knocks
  <1>4. t < v
    <2> HIDE DEF u, v
    <2>1. third \in Int /\ 1 \in Int
      BY <1>2
    <2>2. third <= v - u
      BY <1>2
    <2> HIDE DEF third
    <2>3. Max({1, third}) = IF 1 <= third THEN third ELSE 1
      BY <2>1, OfTwo
    <2> QED BY <1>2, <1>3, <2>1, <2>2, <2>3
  <1> HIDE DEF d
  <1> QED BY <1>1, <1>3, <1>4

\* The readings of the segment that knocks: one a row, none of them silent.
LEMMA KnockReadings ==
  ASSUME source = "knocking", Tiling, Tiled = Total
  PROVE  /\ Make.vib \in [1..Total -> [ts : Nat, rms : Int]]
         /\ \A k \in 1..Total : /\ Make.vib[k].ts = (k - 1) * 2
                                /\ Make.vib[k].rms \in Nat /\ 4 <= Make.vib[k].rms
  <1> DEFINE base == VibBaseline
             T == Total
             rms == [n \in 0..(NReadings - 1) |->
                       IF Knocks(n * Every)
                       THEN (base[n] * Uniform(500, 800, draw.mult, n)) \div 100 ELSE base[n]]
  <1>1. source \in Sources /\ source \in Minutely /\ T \in Nat
    BY TotalPositive DEF Sources, Minutely, HourSources
  <1>2. Make.vib = VibSummary(rms)
    BY DEF Make, MakeKnocking, Segment
  <1>3. \A t \in 0..(T - 1) : base[t] \in Nat /\ 4 <= base[t]
    <2> SUFFICES ASSUME NEW t \in 0..(T - 1) PROVE base[t] \in Nat /\ 4 <= base[t]
      OBVIOUS
    <2> DEFINE b == base[t]
    <2>1. b \in Nat /\ IF InRun(t) THEN 34 <= b /\ b <= 103 ELSE 4 <= b /\ b <= 23
      BY <1>1, BaselineIs
    <2> HIDE DEF b
    <2>2. b \in Nat /\ 4 <= b
      BY <2>1
    <2> QED BY <2>2 DEF b
  <1>4. ASSUME NEW t \in 0..(T - 1) PROVE rms[t] \in Nat /\ 4 <= rms[t]
    <2> DEFINE b == base[t]
               u == Uniform(500, 800, draw.mult, t)
               p == b * u
    <2>1. b \in Nat /\ 4 <= b
      BY <1>3
    <2>2. u \in Int /\ 500 <= u
      <3>1. Percents(draw.mult) /\ t \in Nat
        BY <1>1, DrawIs DEF Tiling
      <3> QED BY <3>1, UniformIn
    <2>3. rms[t] = IF Knocks(t * Every) THEN p \div 100 ELSE b
      <3>1. t \in 0..(NReadings - 1)
        BY <1>1, EveryRow
      <3> QED BY <3>1
    <2> HIDE DEF b, u, rms
    <2>4. p \in Nat /\ 400 <= p
      <3> DEFINE c == 500
      <3>1. c \in Nat /\ c <= u /\ u \in Int /\ c \in Int /\ c = 500
        BY <2>2
      <3> HIDE DEF c
      <3>2. b * c <= b * u
        BY <2>1, <3>1, ProductGrows
      <3>3. b * u \in Int
        BY <2>1, <2>2
      <3> HIDE DEF p
      <3>4. p \in Int /\ b * 500 <= p
        BY <3>1, <3>2, <3>3 DEF p
      <3> QED BY <2>1, <3>4
    <2> HIDE DEF p
    <2>5. p \div 100 \in Nat /\ 4 <= p \div 100
      BY <2>4
    <2> QED BY <2>1, <2>3, <2>5
  <1> HIDE DEF rms, base
  <1>5. Make.vib = [k \in 1..T |-> [ts |-> (k - 1) * 2, rms |-> rms[k - 1]]]
    BY <1>1, <1>2, ReadingsOf
  <1> HIDE DEF T
  <1>6. ASSUME NEW k \in 1..T
        PROVE  (k - 1) * 2 \in Nat /\ rms[k - 1] \in Nat /\ 4 <= rms[k - 1]
    <2> DEFINE t == k - 1
    <2>1. t \in 0..(T - 1) /\ t * 2 \in Nat
      BY <1>1
    <2> HIDE DEF t
    <2> QED BY <1>4, <2>1 DEF t
  <1>7. Make.vib \in [1..T -> [ts : Nat, rms : Int]]
    BY <1>5, <1>6
  <1>8. \A k \in 1..T : Make.vib[k].ts = (k - 1) * 2 /\ Make.vib[k].rms = rms[k - 1]
    BY <1>5
  <1> QED BY <1>6, <1>7, <1>8 DEF T

\* A level that only knocks are above, and those by the factor of a knock.
Reached(v) ==
  \A k \in 1..Total : /\ v < Make.vib[k].rms => Knocks(k - 1)
                      /\ Knocks(k - 1) => 3 * v <= Make.vib[k].rms

\* There is one, unless what is drawn hides the knocks.
LEMMA LevelReached ==
  ASSUME source = "knocking", Tiling, Tiled = Total, dep = Make, ~Masked
  PROVE  \E v \in Nat : Reached(v)
  <1> DEFINE T == Total
             vib == Make.vib
             Q == {j \in 1..T : ~Knocks(j - 1)}
             V == {vib[j].rms : j \in Q}
  <1>1. T \in Nat /\ source \in Minutely
    BY TotalPositive DEF Sources, Minutely, HourSources
  <1>2. vib \in [1..T -> [ts : Nat, rms : Int]] /\ \A k \in 1..T : vib[k].rms \in Nat
    BY KnockReadings
  <1>3. Len(dep.vib) = T /\ dep.vib = vib
    <2>1. dep.vib = vib
      OBVIOUS
    <2> HIDE DEF vib, T
    <2> QED BY <1>1, <1>2, <2>1, LenProperties
  <1>4. \A k \in 1..T : k \in Loud <=> Knocks(k - 1)
    <2> SUFFICES ASSUME NEW k \in 1..T PROVE k \in Loud <=> Knocks(k - 1)
      OBVIOUS
    <2>1. (k - 1) * Every = k - 1
      <3>1. Every = 1 /\ k - 1 \in Int
        BY <1>1, EveryRow
      <3> QED BY <3>1
    <2> HIDE DEF T, vib
    <2> QED BY <1>3, <2>1 DEF Loud
  <1>5. ASSUME NEW k \in 1..T, NEW j \in Q, Knocks(k - 1)
        PROVE  3 * vib[j].rms <= vib[k].rms
    <2>1. k \in Loud /\ j \in (1..Len(dep.vib)) \ Loud
      BY <1>3, <1>4, <1>5
    <2>2. ~(dep.vib[k].rms < KnockFactor * dep.vib[j].rms)
      BY <2>1 DEF Masked
    <2>3. vib[j].rms \in Int /\ vib[k].rms \in Int
      BY <1>2
    <2> DEFINE x == vib[j].rms
               y == vib[k].rms
    <2>4. x \in Int /\ y \in Int /\ ~(y < 3 * x)
      BY <1>3, <2>2, <2>3 DEF KnockFactor
    <2> HIDE DEF x, y
    <2>5. 3 * x <= y
      BY <2>4
    <2> QED BY <2>5 DEF x, y
  <1>6. \A k \in 1..T : k \notin Q => Knocks(k - 1)
    OBVIOUS
  <1>7. CASE Q = {}
    <2>1. \A k \in 1..T : /\ 0 < vib[k].rms => Knocks(k - 1)
                          /\ Knocks(k - 1) => 3 * 0 <= vib[k].rms
      BY <1>2, <1>6, <1>7
    <2> QED BY <2>1 DEF Reached
  <1>8. CASE Q # {}
    <2>1. V \in SUBSET Int /\ V # {} /\ IsFiniteSet(V)
      <3> DEFINE g == [j \in Q |-> vib[j].rms]
      <3>1. V = {g[j] : j \in Q}
        OBVIOUS
      <3>2. V \in SUBSET Int
        BY <1>2
      <3>3. V # {}
        BY <1>8
      <3>4. IsFiniteSet(Q)
        <4>1. IsFiniteSet(1..T)
          BY <1>1, PlacesFinite
        <4>2. Q \subseteq 1..T
          OBVIOUS
        <4> HIDE DEF Q
        <4> QED BY <4>1, <4>2, FS_Subset
      <3> HIDE DEF g, V, Q
      <3>5. IsFiniteSet(V)
        BY <3>1, <3>4, FiniteImage
      <3> QED BY <3>2, <3>3, <3>5
    <2> DEFINE v == Max(V)
    <2>2. \A j \in Q : vib[j].rms \in V
      OBVIOUS
    <2>3. \A y \in V : \E j \in Q : y = vib[j].rms
      OBVIOUS
    <2>4. \A j \in Q : j \in 1..T
      OBVIOUS
    <2> HIDE DEF V, Q, T, vib
    <2>5. v \in V /\ \A y \in V : y <= v
      BY <2>1, MaxOfFinite
    <2>6. PICK j \in Q : v = vib[j].rms
      BY <2>3, <2>5
    <2>7. v \in Nat
      BY <1>2, <2>4, <2>6
    <2> HIDE DEF v
    <2>8. ASSUME NEW k \in 1..T
          PROVE  /\ v < vib[k].rms => Knocks(k - 1)
                 /\ Knocks(k - 1) => 3 * v <= vib[k].rms
      <3>1. Knocks(k - 1) => 3 * v <= vib[k].rms
        BY <1>5, <2>6
      <3>2. k \in Q => ~(v < vib[k].rms)
        <4>1. k \in Q => vib[k].rms <= v
          BY <2>2, <2>5
        <4> DEFINE x == vib[k].rms
        <4>2. x \in Int
          BY <1>2
        <4> HIDE DEF x
        <4>3. x <= v => ~(v < x)
          BY <2>7, <4>2
        <4> QED BY <4>1, <4>3 DEF x
      <3> QED BY <1>6, <3>1, <3>2
    <2> QED BY <2>7, <2>8 DEF Reached, T, vib
  <1> QED BY <1>7, <1>8

\* The cycle a row is in, found from its window.
LEMMA CycleOf ==
  ASSUME source \in Sources, Tiling, Tiled = Total, NEW c \in 1..Len(windows), NEW t \in Nat,
         windows[c].run <= t, t < windows[c].next
  PROVE  Cycle(t) = c
  <1> DEFINE d == Cycle(t)
  <1>1. /\ windows[c].next \in Nat /\ windows[c].next <= Total /\ Total \in Nat
        /\ Len(windows) \in Nat /\ windows[c].run \in Nat
    BY WindowsAre
  <1>2. t < Total
    BY <1>1
  <1>3. d \in 1..Len(windows) /\ windows[d].run <= t /\ t < windows[d].next
    BY <1>2, CycleIs
  <1> HIDE DEF d
  <1>4. windows[d].run \in Nat /\ windows[d].next \in Nat
    BY <1>3, WindowsAre
  <1>5. ~(c < d)
    <2> SUFFICES ASSUME c < d PROVE FALSE
      OBVIOUS
    <2>1. windows[c].next <= windows[d].run
      BY <1>3, InTurn
    <2> QED BY <1>1, <1>3, <1>4, <2>1
  <1>6. ~(d < c)
    <2> SUFFICES ASSUME d < c PROVE FALSE
      OBVIOUS
    <2>1. windows[d].next <= windows[c].run
      BY <1>3, InTurn
    <2> QED BY <1>1, <1>3, <1>4, <2>1
  <1> QED BY <1>1, <1>3, <1>5, <1>6 DEF d

\* A run with another one behind it is whole.
LEMMA RunBefore ==
  ASSUME source \in Sources, Tiling, NEW r \in Nat, \A run \in RunRange : r <= run,
         NEW c \in 1..Len(windows), NEW d \in 1..Len(windows), c < d
  PROVE  windows[c].run + r <= windows[d].run /\ windows[c].rest <= windows[d].run
  <1> DEFINE u == windows[c].run
             v == windows[c].rest
             w == windows[c].next
             x == windows[d].run
  <1>1. u \in Nat /\ v \in Nat /\ w \in Nat /\ v <= w /\ Total \in Nat /\ x \in Nat
    BY WindowsAre
  <1>2. w <= x /\ x < Total
    <2> DEFINE y == windows[d].rest
               z == windows[d].next
    <2>1. y \in Nat /\ z \in Nat /\ x < y /\ y <= z /\ z <= Total
      BY WindowsAre
    <2>2. w <= x
      BY InTurn
    <2> HIDE DEF x, y, z, w
    <2> QED BY <1>1, <2>1, <2>2
  <1>3. v < Total
    <2> HIDE DEF v, w, x
    <2> QED BY <1>1, <1>2
  <1>4. PICK run \in RunRange : v = u + Max({1, run})
    BY <1>3 DEF Tiling
  <1>5. run \in Nat /\ r <= run
    BY <1>4, RangesAre
  <1>6. run \in Int /\ 1 \in Int
    BY <1>5
  <1>7. Max({1, run}) = IF 1 <= run THEN run ELSE 1
    BY <1>6, OfTwo
  <1> HIDE DEF u, v, w, x
  <1>8. u + r <= x /\ v <= x
    BY <1>1, <1>2, <1>4, <1>5, <1>7
  <1> QED BY <1>8 DEF u, v, x

\* From one run that knocks to the next are two whole runs.
LEMMA KnocksApart ==
  ASSUME source \in Sources, Tiling, NEW r \in Nat, \A run \in RunRange : r <= run,
         NEW c \in 1..Len(windows), NEW d \in 1..Len(windows), c + 3 <= d
  PROVE  windows[c].rest + 2 * r <= windows[d].run
  <1> DEFINE e == c + 1
             f == c + 2
  <1>1. /\ e \in 1..Len(windows) /\ f \in 1..Len(windows) /\ c < e /\ e < f /\ f < d
    <2>1. Len(windows) \in Nat
      BY WindowsAre
    <2> QED BY <2>1
  <1> HIDE DEF e, f
  <1>2. windows[c].rest <= windows[e].run
    BY <1>1, RunBefore
  <1>3. windows[e].run + r <= windows[f].run
    BY <1>1, RunBefore
  <1>4. windows[f].run + r <= windows[d].run
    BY <1>1, RunBefore
  <1> DEFINE u == windows[c].rest
             v == windows[e].run
             w == windows[f].run
             x == windows[d].run
  <1>5. u \in Nat /\ v \in Nat /\ w \in Nat /\ x \in Nat
    BY <1>1, WindowsAre
  <1>6. u <= v /\ v + r <= w /\ w + r <= x
    BY <1>2, <1>3, <1>4
  <1> HIDE DEF u, v, w, x
  <1>7. u + 2 * r <= x
    BY <1>5, <1>6
  <1> QED BY <1>7 DEF u, x

\* How long the runs and holds of the segment that knocks are.
LEMMA KnocksFit ==
  /\ Half \in Nat /\ 2 <= Half /\ NRows["knocking"] \in Nat /\ KnockClusterSpan \in Nat
  /\ \A run \in RunHealthy : run \in Nat /\ 1 <= run /\ 2 * Max({1, run \div 3}) <= Half
  /\ \A run \in RunHealthy, hold \in HoldHealthy :
       /\ 3 * (run + hold) < NRows["knocking"] /\ 6 * (run + hold) < KnockClusterSpan
  /\ \E r \in Nat : (\A run \in RunHealthy : r <= run) /\ Half < 2 * r /\ 2 * r < NRows["knocking"]
  <1>1. /\ 2 <= Half
        /\ \A run \in RunHealthy, hold \in HoldHealthy :
             /\ Half < 2 * run /\ 2 * Max({1, run \div 3}) <= Half
             /\ 3 * (run + hold) < NRows["knocking"] /\ 6 * (run + hold) < KnockClusterSpan
    BY KnocksAssumption DEF Half
  <1>2. Half \in Nat /\ NRows["knocking"] \in Nat /\ KnockClusterSpan \in Nat
    BY HalfIs, SegmentAssumption, KnockSpanAssumption DEF HourSources
  <1>3. PICK r, h \in Nat : /\ r \in RunHealthy /\ h \in HoldHealthy
                            /\ \A run \in RunHealthy : run \in Nat /\ r <= run
    BY CyclingRanges
  <1>4. Half < 2 * r /\ 3 * (r + h) < NRows["knocking"]
    BY <1>1, <1>3
  <1>5. 2 * r < NRows["knocking"]
    <2> DEFINE T == NRows["knocking"]
    <2>1. T \in Nat /\ 3 * (r + h) < T
      BY <1>2, <1>4
    <2> HIDE DEF T
    <2>2. 2 * r < T
      BY <2>1
    <2> QED BY <2>2 DEF T
  <1>6. \A run \in RunHealthy : run \in Nat /\ 1 <= run
    <2> SUFFICES ASSUME NEW run \in RunHealthy PROVE run \in Nat /\ 1 <= run
      OBVIOUS
    <2>1. run \in Nat /\ Half < 2 * run
      BY <1>1, <1>3
    <2> QED BY <1>2, <2>1
  <1> QED BY <1>1, <1>2, <1>3, <1>4, <1>5, <1>6

\* The first reading of the first and of the fourth run is a spike: of the
\* window around it only the beginning of that run knocks.
LEMMA KnockFound ==
  ASSUME source = "knocking", Tiling, Drawn, Tiled = Total,
         NEW busy \in Nat, Reached(busy),
         NEW c \in {1, 4}, c \in 1..Len(windows)
  PROVE  windows[c].run + 1 \in Spikes(Make.vib)
  <1> DEFINE T == Total
             u == windows[c].run
             v == windows[c].rest
             k == u + 1
             vib == Make.vib
             idle == 4
             rms == [j \in 1..T |-> vib[j].rms]
             from == WindowFrom(k)
             until == WindowUntil(k, T)
             n == until - from + 1
             third == (v - u) \div 3
             long == Max({1, third})
             X == {x \in from..until : Knocks(x - 1)}
  <1>1. /\ source \in Sources /\ source \in Sources \ {"tcc_never_satisfied"}
        /\ RunRange = RunHealthy /\ T = NRows["knocking"] /\ c % 3 = 1 /\ c \in Int
    BY DEF Sources, HourSources, WeekSources, RunRange, Total
  <1>2. /\ u \in Nat /\ v \in Nat /\ u < v /\ v <= T /\ T \in Nat
        /\ windows[c].next \in Nat /\ v <= windows[c].next
    <2> DEFINE w == windows[c].next
    <2>1. u \in Nat /\ v \in Nat /\ w \in Nat /\ u < v /\ v <= w /\ w <= T /\ T \in Nat
      BY <1>1, WindowsAre
    <2> HIDE DEF u, v, w, T
    <2>2. v <= T
      BY <2>1
    <2> QED BY <2>1, <2>2 DEF w
  <1>3. k \in 1..T /\ k \in Nat
    <2> HIDE DEF u, v, T
    <2> QED BY <1>2
  <1>4. /\ idle \in Nat \ {0} /\ busy \in Nat /\ vib \in [1..T -> [ts : Nat, rms : Int]]
        /\ \A j \in 1..T : /\ vib[j].rms \in Nat /\ idle <= vib[j].rms
                           /\ busy < vib[j].rms => Knocks(j - 1)
                           /\ Knocks(j - 1) => 3 * busy <= vib[j].rms
    BY KnockReadings DEF Reached
  <1>5. PICK r \in Nat : /\ \A run \in RunHealthy : r <= run
                         /\ Half < 2 * r /\ 2 * r < T
    BY <1>1, KnocksFit
  <1>6. Half \in Nat /\ 2 <= Half
    BY KnocksFit
  <1> HIDE DEF vib, T, idle
  <1>7. rms \in [1..T -> Nat] /\ \A j \in 1..T : vib[j].rms = rms[j] /\ idle <= rms[j]
    BY <1>4
  <1>8. long \in Nat /\ 1 <= long /\ 2 * long <= Half
    <2>1. PICK run \in RunRange, hold \in HoldRange, full \in Nat \ {0} :
            /\ run \in Nat /\ full = IF 1 <= run THEN run ELSE 1
            /\ v = IF u + full <= Total THEN u + full ELSE Total
      BY <1>1, DrawnWindow
    <2>2. 1 <= run /\ 2 * Max({1, run \div 3}) <= Half
      BY <1>1, <2>1, KnocksFit
    <2> DEFINE s == run \div 3
    <2>3. s \in Int /\ 1 \in Int
      BY <2>1
    <2>4. v - u <= run
      <3> HIDE DEF u, v
      <3> QED BY <1>1, <1>2, <2>1, <2>2 DEF T
    <2>5. third \in Int
      <3> HIDE DEF u, v
      <3> QED BY <1>2
    <2>6. third <= s
      <3> HIDE DEF u, v
      <3> QED BY <1>2, <2>1, <2>4
    <2> HIDE DEF s, third
    <2>7. Max({1, s}) = IF 1 <= s THEN s ELSE 1
      BY <2>3, OfTwo
    <2>8. Max({1, third}) = IF 1 <= third THEN third ELSE 1
      BY <2>3, <2>5, OfTwo
    <2>9. 2 * Max({1, s}) <= Half
      BY <2>2 DEF s
    <2> QED BY <1>6, <2>3, <2>5, <2>6, <2>7, <2>8, <2>9
  <1>9. Knocks(u)
    <2>1. Cycle(u) = c
      <3>1. u < windows[c].next
        <4> DEFINE w == windows[c].next
        <4> HIDE DEF u, v, w
        <4>1. u < w
          BY <1>2 DEF w
        <4> QED BY <4>1 DEF w
      <3> QED BY <1>1, <1>2, <3>1, CycleOf
    <2> HIDE DEF long
    <2>2. u < u + long
      <3> HIDE DEF u
      <3> QED BY <1>2, <1>8
    <2> QED BY <1>1, <1>2, <2>1, <2>2 DEF Knocks, long
  <1>10. 3 * busy <= rms[k]
    <2> DEFINE j == k
    <2>1. j \in 1..T /\ j - 1 = u
      <3> HIDE DEF u
      <3> QED BY <1>2, <1>3
    <2> HIDE DEF j
    <2>2. 3 * busy <= vib[j].rms
      BY <1>4, <1>9, <2>1
    <2> QED BY <1>7, <2>1, <2>2 DEF j
  <1>11. c = 4 => Half < u
    <2> SUFFICES ASSUME c = 4 PROVE Half < u
      OBVIOUS
    <2>1. 1 \in 1..Len(windows) /\ 1 + 3 <= c
      BY <1>1, FirstWindow
    <2>2. windows[1].rest + 2 * r <= windows[c].run
      BY <1>1, <1>5, <2>1, KnocksApart
    <2> DEFINE w == windows[1].rest
    <2>3. w \in Nat
      BY <1>1, <2>1, WindowsAre
    <2>4. w + 2 * r <= u
      BY <2>2
    <2> HIDE DEF u, w
    <2> QED BY <1>2, <1>5, <1>6, <2>3, <2>4
  <1>12. c = 1 => u = 0
    BY <1>1, FirstWindow
  <1>13. /\ from \in Int /\ until \in Int /\ 1 <= from /\ until <= T /\ n \in Nat /\ Half < n
         /\ k - Half <= from /\ until <= k + Half
    <2>1. from \in 1..k /\ until \in k..T
      BY <1>2, <1>3, WindowEnds
    <2>2. from = IF 1 <= k - Half THEN k - Half ELSE 1
      BY DEF WindowFrom
    <2>3. until = IF T <= k + Half THEN T ELSE k + Half
      BY DEF WindowUntil
    <2> HIDE DEF from, until
    <2>4. from \in Int /\ until \in Int /\ 1 <= from /\ from <= k /\ k <= until /\ until <= T
      BY <1>2, <1>3, <2>1
    <2> HIDE DEF u
    <2>5. Half < n
      BY <1>2, <1>3, <1>5, <1>6, <1>11, <1>12, <2>2, <2>3, <2>4
    <2> QED BY <1>2, <1>3, <1>6, <2>2, <2>3, <2>4, <2>5
  <1>14. ASSUME NEW x \in X PROVE x \in Int /\ u + 1 <= x /\ x <= u + long
    <2> DEFINE t == x - 1
    <2>1. /\ x \in Int /\ from <= x /\ x <= until /\ Knocks(t)
      <3> HIDE DEF from, until
      <3> QED BY <1>13
    <2>2. t \in Nat /\ t < Total /\ t + 1 = x /\ x <= k + Half /\ k - Half <= x
      <3> HIDE DEF from, until, k
      <3> QED BY <1>2, <1>3, <1>6, <1>13, <2>1 DEF T
    <2> HIDE DEF t
    <2>3. PICK d \in 1..Len(windows) :
            /\ d % 3 = 1 /\ windows[d].run <= t /\ t < windows[d].rest
            /\ t < windows[d].run + Max({1, (windows[d].rest - windows[d].run) \div 3})
      BY <1>1, <2>1, <2>2, KnocksIn
    <2>4. windows[d].run \in Nat /\ windows[d].rest \in Nat /\ d \in Int
      BY <1>1, <2>3, WindowsAre
    <2>5. ~(c + 3 <= d)
      <3> SUFFICES ASSUME c + 3 <= d PROVE FALSE
        OBVIOUS
      <3>1. windows[c].rest + 2 * r <= windows[d].run
        BY <1>1, <1>5, KnocksApart
      <3> DEFINE w == windows[d].run
      <3>2. v + 2 * r <= w /\ w <= t /\ w \in Nat
        BY <2>3, <2>4, <3>1
      <3> HIDE DEF u, v, w
      <3> QED BY <1>2, <1>5, <1>6, <2>2, <3>2
    <2>6. ~(d + 3 <= c)
      <3> SUFFICES ASSUME d + 3 <= c PROVE FALSE
        OBVIOUS
      <3>1. windows[d].rest + 2 * r <= windows[c].run
        BY <1>1, <1>5, KnocksApart
      <3> DEFINE w == windows[d].rest
      <3>2. w + 2 * r <= u /\ t < w /\ w \in Nat
        BY <2>3, <2>4, <3>1
      <3> HIDE DEF u, w
      <3> QED BY <1>2, <1>5, <1>6, <2>2, <3>2, SMTT(60)
    <2>7. d = c
      BY <1>1, <2>3, <2>4, <2>5, <2>6, SMTT(60)
    <2>8. u <= t /\ t < u + long
      BY <2>3, <2>7
    <2> HIDE DEF u, long
    <2> QED BY <1>2, <1>8, <2>1, <2>2, <2>8
  <1> HIDE DEF long
  <1>15. IsFiniteSet(X) /\ 2 * Cardinality(X) < n
    <2> DEFINE a == u + 1
               b == u + long
               I == a..b
    <2>1. a \in Int /\ b \in Int /\ (IF a > b THEN 0 ELSE b - a + 1) = long
      <3> HIDE DEF u
      <3> QED BY <1>2, <1>8
    <2> HIDE DEF a, b
    <2>2. IsFiniteSet(I) /\ Cardinality(I) = long
      BY <2>1, FS_Interval
    <2>3. X \subseteq I
      <3> SUFFICES ASSUME NEW x \in X PROVE x \in a..b
        OBVIOUS
      <3>1. x \in Int /\ a <= x /\ x <= b
        BY <1>14 DEF a, b
      <3> QED BY <2>1, <3>1
    <2> HIDE DEF I, X
    <2>4. IsFiniteSet(X) /\ Cardinality(X) <= Cardinality(I)
      BY <2>2, <2>3, FS_Subset
    <2>5. Cardinality(X) \in Nat
      BY <2>4, FS_CardinalityType
    <2> HIDE DEF n
    <2> QED BY <1>6, <1>8, <1>13, <2>2, <2>4, <2>5
  <1>16. \A x \in from..until : busy < rms[x] => x \in X
    <2> SUFFICES ASSUME NEW x \in from..until, busy < rms[x] PROVE x \in X
      OBVIOUS
    <2>1. x \in 1..T
      <3> HIDE DEF from, until
      <3> QED BY <1>2, <1>13
    <2>2. Knocks(x - 1)
      BY <1>4, <1>7, <2>1
    <2> HIDE DEF from, until
    <2> QED BY <2>2
  <1>17. 3 <= n
    <2> HIDE DEF n
    <2> QED BY <1>6, <1>13
  <1>18. /\ 3 <= WindowUntil(k, T) - WindowFrom(k) + 1
         /\ 2 * Cardinality(X) < WindowUntil(k, T) - WindowFrom(k) + 1
         /\ \A x \in WindowFrom(k)..WindowUntil(k, T) : busy < rms[x] => x \in X
    BY <1>15, <1>16, <1>17
  <1> HIDE DEF X, k, u, from, until
  <1>19. k \in Spikes(vib)
    <2>1. (\A j \in 1..T : vib[j].rms \in Nat /\ idle <= vib[j].rms) /\ 3 * busy <= vib[k].rms
      BY <1>3, <1>4, <1>7, <1>10
    <2>2. \A x \in WindowFrom(k)..WindowUntil(k, T) : busy < vib[x].rms => x \in X
      <3>1. \A x \in WindowFrom(k)..WindowUntil(k, T) : x \in 1..T
        <4> HIDE DEF from, until
        <4> QED BY <1>2, <1>13 DEF from, until
      <3> QED BY <1>7, <1>18, <3>1
    <2>3. idle \in Nat /\ 0 < idle /\ busy \in Nat
      BY <1>4
    <2> HIDE DEF n, rms
    <2> QED BY <1>2, <1>3, <1>4, <1>15, <1>18, <2>1, <2>2, <2>3, LoudReading
  <1> QED BY <1>19 DEF k, u, vib

\* The spikes of the first and of the fourth run are the cluster that the
\* detector asks for.
LEMMA MadeKnocking ==
  ASSUME source = "knocking", Tiling, Drawn, Tiled = Total, dep = Make, ~Masked
  PROVE  DetectKnocking(Make) # "none"
  <1> DEFINE vib == Make.vib
             T == Total
             P == Spikes(vib)
             times == [k \in P |-> vib[k].ts]
             S == {times[k] : k \in P}
             span == KnockClusterSpan
             u == windows[4].run
             f == [d \in 1..2 |-> IF d = 1 THEN 0 ELSE 2 * u]
             n == MaxCluster(times, span)
  <1>1. /\ source \in Sources /\ source \in Sources \ {"tcc_never_satisfied"}
        /\ RunRange = RunHealthy /\ HoldRange = HoldHealthy /\ T = NRows["knocking"]
    BY DEF Sources, HourSources, WeekSources, RunRange, HoldRange, Total
  <1>2. T \in Nat /\ span \in Nat /\ span \in Int
    BY <1>1, KnocksFit
  <1>3. PICK r, h \in Nat : r \in RunHealthy /\ h \in HoldHealthy
    BY CyclingRanges
  <1>4. 3 * (r + h) < T /\ 6 * (r + h) < span
    BY <1>1, <1>3, KnocksFit
  <1>5. PICK long \in Nat : /\ 3 * long < T /\ 6 * long < span
                            /\ \A run \in RunHealthy, hold \in HoldHealthy : run + hold <= long
    <2> DEFINE a == (T - 1) \div 3
               b == (span - 1) \div 6
               long == IF a <= b THEN a ELSE b
    <2>1. long \in Nat /\ 3 * long < T /\ 6 * long < span
      <3> HIDE DEF T, span
      <3> QED BY <1>2, <1>4
    <2>2. ASSUME NEW run \in RunHealthy, NEW hold \in HoldHealthy
          PROVE  run + hold <= long
      <3>1. run \in Nat /\ hold \in Nat
        BY RangeAssumption
      <3>2. 3 * (run + hold) < T /\ 6 * (run + hold) < span
        BY <1>1, KnocksFit
      <3> HIDE DEF T, span
      <3> QED BY <1>2, <3>1, <3>2
    <2> HIDE DEF long
    <2> QED BY <2>1, <2>2
  <1>6. 1 \in 1..Len(windows) /\ 4 \in 1..Len(windows) /\ windows[4].run <= 3 * long
    <2> DEFINE c == 3
    <2>1. \A run \in RunRange, hold \in HoldRange : Max({1, run}) + hold <= long
      <3> SUFFICES ASSUME NEW run \in RunHealthy, NEW hold \in HoldHealthy
                   PROVE  Max({1, run}) + hold <= long
        BY <1>1
      <3>1. run \in Nat /\ 1 <= run /\ hold \in Nat
        BY KnocksFit, RangeAssumption
      <3>2. run \in Int /\ 1 \in Int
        BY <3>1
      <3>3. Max({1, run}) = IF 1 <= run THEN run ELSE 1
        BY <3>2, OfTwo
      <3>4. run + hold <= long
        BY <1>5
      <3> QED BY <3>1, <3>3, <3>4
    <2>2. c \in Nat /\ c * long < Total
      BY <1>5
    <2> HIDE DEF c
    <2>3. \A j \in 0..c : j + 1 \in 1..Len(windows) /\ windows[j + 1].run <= j * long
      BY <1>1, <2>1, <2>2, WindowsReach
    <2>4. 0 \in 0..c /\ 3 \in 0..c /\ 0 + 1 = 1 /\ 3 + 1 = 4
      BY DEF c
    <2>5. (0 + 1) \in 1..Len(windows) /\ (3 + 1) \in 1..Len(windows) /\ windows[3 + 1].run <= 3 * long
      BY <2>3, <2>4
    <2> QED BY <2>4, <2>5
  <1>7. u \in Nat /\ 0 < u /\ windows[1].run = 0
    <2>1. windows[1].run = 0
      BY <1>1, FirstWindow
    <2> DEFINE v == windows[1].rest
    <2>2. windows[1].next <= u
      BY <1>1, <1>6, InTurn
    <2> DEFINE w == windows[1].next
    <2>3. v \in Nat /\ w \in Nat /\ 0 < v /\ v <= w /\ u \in Nat
      BY <1>1, <1>6, <2>1, WindowsAre
    <2> HIDE DEF u, v, w
    <2>4. 0 < u
      BY <2>2, <2>3 DEF w
    <2> QED BY <2>1, <2>3, <2>4
  <1>8. 1 \in P /\ u + 1 \in P
    <2>3. PICK busy \in Nat : Reached(busy)
      BY LevelReached
    <2>1. windows[1].run + 1 \in P
      BY <1>6, <2>3, KnockFound
    <2>2. windows[4].run + 1 \in P
      BY <1>6, <2>3, KnockFound
    <2> QED BY <1>7, <2>1, <2>2
  <1>9. vib \in [1..T -> [ts : Nat, rms : Int]] /\ \A k \in 1..T : vib[k].ts = (k - 1) * 2
    BY KnockReadings
  <1> HIDE DEF vib, T, u
  <1>10. P \subseteq 1..T
    <2>1. Len(vib) = T
      BY <1>2, <1>9, LenProperties
    <2> QED BY <2>1 DEF Spikes
  <1>18. \A k \in P : times[k] = vib[k].ts
    OBVIOUS
  <1>19. times \in [P -> Int]
    <2>1. \A k \in P : vib[k].ts \in Int
      BY <1>9, <1>10
    <2> QED BY <2>1
  <1> HIDE DEF P, times
  <1>11. 0 \in S /\ 2 * u \in S
    <2>1. vib[1].ts = 0
      <3>1. 1 \in 1..T /\ (1 - 1) * 2 = 0
        BY <1>8, <1>10
      <3> QED BY <1>9, <3>1
    <2>2. vib[u + 1].ts = 2 * u
      <3> DEFINE k == u + 1
      <3>1. k \in 1..T /\ (k - 1) * 2 = 2 * u
        BY <1>7, <1>8, <1>10
      <3> HIDE DEF k
      <3>2. vib[k].ts = 2 * u
        BY <1>9, <3>1
      <3> QED BY <3>2 DEF k
    <2>3. times[1] \in S /\ times[u + 1] \in S
      BY <1>8
    <2> QED BY <1>8, <1>18, <2>1, <2>2, <2>3
  <1>12. IsFiniteSet(P)
    <2>1. IsFiniteSet(1..T)
      BY <1>2, PlacesFinite
    <2> QED BY <1>10, <2>1, FS_Subset
  <1>20. S = {times[k] : k \in P}
    OBVIOUS
  <1> HIDE DEF S
  <1>13. u <= 3 * long
    BY <1>6 DEF u
  <1> DEFINE c == 2
             t == 0
  <1>14. c \in Nat /\ t \in Int /\ \A d \in 1..c : f[d] \in S /\ t <= f[d] /\ f[d] < t + span
    <2>1. \A d \in 1..c : f[d] = 0 \/ f[d] = 2 * u
      OBVIOUS
    <2>2. 0 <= 2 * u /\ 2 * u < span /\ 0 < span
      <3> HIDE DEF span
      <3> QED BY <1>2, <1>5, <1>7, <1>13
    <2> HIDE DEF f, span
    <2>3. \A d \in 1..c : f[d] \in S /\ t <= f[d] /\ f[d] < t + span
      BY <1>2, <1>7, <1>11, <2>1, <2>2
    <2> QED BY <2>3
  <1>15. \A d, e \in 1..c : d < e => f[d] # f[e]
    BY <1>7
  <1> HIDE DEF f, c, t, span
  <1>16. c <= n
    BY <1>2, <1>12, <1>14, <1>15, <1>19, <1>20, ClusterOf
  <1>17. n \in Int
    BY <1>2, <1>12, <1>19, WindowMoves
  <1> HIDE DEF n
  <1>21. n >= KnockMinCluster
    BY <1>16, <1>17, SMTT(60) DEF c, KnockMinCluster
  <1> QED BY <1>21 DEF DetectKnocking, Result, n, times, P, vib, span

-----------------------------------------------------------------------------
(* What a generator makes of what was drawn is right.                      *)

\* The deployment of a segment stays what its generator made of it.
Kept == source \in Sources /\ dep # NoData => dep = Make

FaultInv == SegmentInv /\ Drawn /\ Kept

\* A generator makes the same of the same.
LEMMA MakeSame ==
  ASSUME UNCHANGED <<source, draw, windows>>
  PROVE  Make' = Make
  BY DEF Make, MakeHealthy, MakeShortCycling, MakeTccNeverSatisfied, MakeCondenserAirflow,
         MakeKnocking, MakeBeltSlip, MakeMotorDegradation, MakeSealFailure, Segment, Filled,
         FillCycle, BaseRow, VibSummary, VibBaseline, NReadings, Every, Total, Running, Cycle,
         DayOf, PerDay, RowTime, HealthyDrip, Knocks, WindowDelta, WindowAmps, TccPulse

\* Nothing is drawn at first but the one long run.
LEMMA DrawnInit == Init => Drawn
  <1> SUFFICES ASSUME Init, source \in Sources PROVE Drawn
    BY DEF Drawn
  <1>1. SyntheticInit
    BY DEF Init
  <1>2. CASE source = "tcc_never_satisfied"
    BY <1>1, <1>2 DEF Drawn, SyntheticInit
  <1>3. CASE source # "tcc_never_satisfied"
    <2>1. windows = <<>>
      BY <1>1, <1>3 DEF SyntheticInit
    <2>2. 1..Len(windows) = {}
      BY <2>1, EmptySeq
    <2> QED BY <1>3, <2>2 DEF Drawn
  <1> QED BY <1>2, <1>3

\* The segment without a TCC trip is tiled from the start.
LEMMA NeverTiled ==
  ASSUME source = "tcc_never_satisfied", Tiling, Drawn
  PROVE  Tiled = Total
  <1> DEFINE T == Total
             full == T
             w == Window(0, full, 0)
  <1>1. source \in Sources /\ T \in Nat \ {0} /\ Total = T
    BY TotalPositive DEF Sources, HourSources
  <1>2. windows = <<w>>
    BY <1>1 DEF Drawn
  <1> HIDE DEF T, full
  <1>3. full \in Nat /\ full = T /\ 0 < T /\ 0 \in Nat
    BY <1>1 DEF full
  <1>4. /\ w.rest <= w.next /\ w.next <= T /\ w \in Windows
        /\ w.rest < T => w.rest = 0 + Max({1, full})
    BY <1>1, <1>3, WindowIs
  <1>5. full \in Int /\ 1 \in Int
    BY <1>3
  <1>6. Max({1, full}) = IF 1 <= full THEN full ELSE 1
    BY <1>5, OfTwo
  <1> HIDE DEF w
  <1> DEFINE v == w.rest
             x == w.next
  <1>7. v \in Nat /\ x \in Nat
    BY <1>4 DEF Windows
  <1>8. v <= x /\ x <= T /\ (v < T => v = 0 + Max({1, full}))
    BY <1>4
  <1> HIDE DEF v, x
  <1>9. x = T
    BY <1>1, <1>3, <1>6, <1>7, <1>8
  <1>10. Len(windows) = 1 /\ windows[1] = w
    BY <1>2
  <1>11. Tiled = windows[1].next
    <2>1. Tiled = IF Len(windows) = 0 THEN 0 ELSE windows[Len(windows)].next
      BY <1>1, TiledIs
    <2> QED BY <1>10, <2>1
  <1> QED BY <1>9, <1>10, <1>11 DEF x, T

\* Another window is what was drawn for it.
LEMMA DrawnTile ==
  ASSUME Tiling, Drawn, Tile
  PROVE  Drawn'
  <1>1. source \in Sources /\ UNCHANGED <<source, draw, dep>> /\ Tiled < Total
    BY DEF Tile, CycleWindow
  <1>2. PICK run \in RunRange, hold \in HoldRange :
           windows' = Append(windows, Window(Tiled, run, hold))
    BY DEF Tile, CycleWindow
  <1> DEFINE n == Len(windows)
             t == Tiled
             w == Window(t, run, hold)
             T == Total
  <1>3. t \in Nat /\ T \in Nat \ {0} /\ n \in Nat
    BY <1>1, TiledIs, TotalPositive
  <1>4. source # "tcc_never_satisfied"
    <2> SUFFICES ASSUME source = "tcc_never_satisfied" PROVE FALSE
      OBVIOUS
    <2>1. t = T
      BY NeverTiled
    <2> HIDE DEF t, T
    <2>2. t < T
      BY <1>1 DEF t, T
    <2> QED BY <1>3, <2>1, <2>2
  <1>5. run \in Nat /\ hold \in Nat
    BY <1>2, RangesAre
  <1>6. w.run = t /\ w \in Windows
    <2>1. t < T /\ Total = T
      BY <1>1
    <2> HIDE DEF t, T
    <2>2. LET v == Window(t, run, hold)
          IN /\ v \in Windows /\ v.run = t /\ t < v.rest /\ v.rest <= v.next /\ v.next <= T
             /\ v.rest < T => v.rest = t + Max({1, run})
             /\ v.next <= v.rest + hold
      BY <1>3, <1>5, <2>1, WindowIs
    <2> QED BY <2>2
  <1>7. RunRange' = RunRange /\ HoldRange' = HoldRange /\ Total' = Total
    BY <1>1 DEF RunRange, HoldRange, Total
  <1>8. windows \in Seq(Windows)
    BY <1>1 DEF Tiling
  <1>9. windows' = Append(windows, w)
    BY <1>2
  <1> HIDE DEF w
  <1>10. /\ Len(windows') = n + 1 /\ windows'[n + 1] = w
         /\ \A k \in 1..n : windows'[k] = windows[k]
    BY <1>6, <1>8, <1>9, AppendProperties
  <1>11. ASSUME NEW k \in 1..Len(windows')
         PROVE  \E p \in RunRange, q \in HoldRange : windows'[k] = Window(windows'[k].run, p, q)
    <2>1. k \in 1..n \/ k = n + 1
      BY <1>3, <1>10
    <2>2. CASE k \in 1..n
      BY <1>1, <1>4, <1>10, <2>2 DEF Drawn
    <2>3. CASE k = n + 1
      <3>1. windows'[k] = Window(windows'[k].run, run, hold)
        BY <1>6, <1>10, <2>3 DEF w
      <3> QED BY <1>2, <3>1
    <2> QED BY <2>1, <2>2, <2>3
  <1>12. source' # "tcc_never_satisfied"
    BY <1>1, <1>4
  <1> QED BY <1>7, <1>11, <1>12 DEF Drawn, Window

\* The signatures raised are those of the detectors that answer.
LEMMA RaisedAre ==
  ASSUME NEW d, NEW s \in Triggered(d)
  PROVE  \/ s = "short_cycling" /\ DetectShortCycling(d) # "none"
         \/ s = "tcc_never_satisfied" /\ DetectTccNeverSatisfied(d) # "none"
         \/ s = "condenser_airflow" /\ DetectCondenserAirflow(d) # "none"
         \/ s = "knocking" /\ DetectKnocking(d) # "none"
         \/ s = "belt_slip" /\ DetectBeltSlip(d) # "none"
         \/ s = "motor_degradation" /\ DetectMotorDegradation(d) # "none"
         \/ s = "seal_failure" /\ DetectSealFailure(d) # "none"
  BY DEF Triggered, Verdicts

\* A detector that answers raises its signature.
LEMMA AnswersRaise ==
  ASSUME NEW d
  PROVE  /\ DetectShortCycling(d) # "none" => "short_cycling" \in Triggered(d)
         /\ DetectTccNeverSatisfied(d) # "none" => "tcc_never_satisfied" \in Triggered(d)
         /\ DetectCondenserAirflow(d) # "none" => "condenser_airflow" \in Triggered(d)
         /\ DetectKnocking(d) # "none" => "knocking" \in Triggered(d)
         /\ DetectBeltSlip(d) # "none" => "belt_slip" \in Triggered(d)
         /\ DetectMotorDegradation(d) # "none" => "motor_degradation" \in Triggered(d)
         /\ DetectSealFailure(d) # "none" => "seal_failure" \in Triggered(d)
  BY DEF Triggered, Verdicts

\* What is made is right: each fault is found, and each detector of another
\* one is silent or tolerated.
LEMMA MadeRight ==
  ASSUME source \in Sources, Tiling, Drawn, Tiled = Total, dep = Make
  PROVE  /\ source \in Faults /\ ~Masked => source \in Triggered(dep)
         /\ Triggered(dep) \ {source} \subseteq Tolerated
  <1>1. ASSUME source \in Faults, ~Masked PROVE source \in Triggered(Make)
    <2>1. CASE source = "short_cycling"
      BY <2>1, MadeShortCycling, AnswersRaise
    <2>2. CASE source = "tcc_never_satisfied"
      BY <2>2, MadeTccNever, AnswersRaise
    <2>3. CASE source = "condenser_airflow"
      <3>1. DetectCondenserAirflow(Make) # "none"
        BY <1>1, <2>3, MadeCondenser
      <3> QED BY <2>3, <3>1, AnswersRaise
    <2>4. CASE source = "knocking"
      <3>1. DetectKnocking(Make) # "none"
        BY <1>1, <2>4, MadeKnocking
      <3> QED BY <2>4, <3>1, AnswersRaise
    <2>5. CASE source = "belt_slip"
      BY <2>5, MadeBelt, AnswersRaise
    <2>6. CASE source = "motor_degradation"
      <3>1. DetectMotorDegradation(Make) # "none"
        BY <1>1, <2>6, MadeMotor
      <3> QED BY <2>6, <3>1, AnswersRaise
    <2>7. CASE source = "seal_failure"
      BY <2>7, MadeSeal, AnswersRaise
    <2> QED BY <1>1, <2>1, <2>2, <2>3, <2>4, <2>5, <2>6, <2>7
            DEF Faults, Sources, HourSources, WeekSources
  <1>2. ASSUME NEW s \in Triggered(Make), s # source
        PROVE  s \in Tolerated
    <2>1. s # "short_cycling"
      <3> SUFFICES ASSUME s = "short_cycling" PROVE FALSE
        OBVIOUS
      <3>1. DetectShortCycling(Make) # "none"
        BY RaisedAre
      <3> QED BY <1>2, <3>1, MadeNoShort
    <2>2. s # "condenser_airflow"
      <3> SUFFICES ASSUME s = "condenser_airflow" PROVE FALSE
        OBVIOUS
      <3>1. DetectCondenserAirflow(Make) # "none"
        BY RaisedAre
      <3> QED BY <1>2, <3>1, MadeNoCondenser
    <2>3. s # "belt_slip"
      <3> SUFFICES ASSUME s = "belt_slip" PROVE FALSE
        OBVIOUS
      <3>1. DetectBeltSlip(Make) # "none"
        BY RaisedAre
      <3> QED BY <1>2, <3>1, MadeNoBelt
    <2>4. s # "seal_failure"
      <3> SUFFICES ASSUME s = "seal_failure" PROVE FALSE
        OBVIOUS
      <3>1. DetectSealFailure(Make) # "none"
        BY RaisedAre
      <3> QED BY <1>2, <3>1, MadeNoSeal
    <2>5. ASSUME s = "motor_degradation" PROVE s \in Tolerated
      <3>1. DetectMotorDegradation(Make) # "none"
        BY <2>5, RaisedAre
      <3>2. /\ source = "seal_failure"
            /\ \E c, d \in 1..Len(windows) : c < d /\ WindowAmps(c) < WindowAmps(d)
        BY <1>2, <2>5, <3>1, MadeNoMotor
      <3> QED BY <2>5, <3>2 DEF Tolerated
    <2>6. ASSUME s = "tcc_never_satisfied" PROVE s \in Tolerated
      <3>1. DetectTccNeverSatisfied(Make) # "none"
        BY <2>6, RaisedAre
      <3>2. \/ source \in WeekSources
            \/ source = "short_cycling"
            \/ source \in {"healthy", "condenser_airflow", "knocking", "belt_slip"}
        BY <1>2, <2>6 DEF Sources, HourSources, WeekSources
      <3>3. source \in WeekSources
        BY <3>1, <3>2, MadeTripped, MadeShortTrips
      <3> QED BY <2>6, <3>3 DEF Tolerated
    <2>7. ASSUME s = "knocking" PROVE s \in Tolerated
      <3>1. SUFFICES ASSUME Alike, ~HoldsPrevail PROVE FALSE
        BY <2>7 DEF Tolerated
      <3>2. DetectKnocking(Make) # "none"
        BY <2>7, RaisedAre
      <3>3. source \in Sources \ {"knocking"}
        BY <1>2, <2>7
      <3> QED BY <3>1, <3>2, <3>3, MadeNoKnocking
    <2> QED BY <2>1, <2>2, <2>3, <2>4, <2>5, <2>6, <2>7, RaisedAre
  <1> QED BY <1>1, <1>2

\* Each action keeps segments what was made of what was drawn.
LEMMA FaultStep ==
  ASSUME IInv, FaultInv, [Next]_vars
  PROVE  FaultInv'
  <1>1. SegmentInv'
    BY SegmentStep DEF FaultInv
  <1>2. CASE Tile
    <2>1. dep' = NoData /\ NoData' = NoData
      BY <1>2 DEF Tile, NoData, Segment
    <2>2. Drawn'
      BY <1>2, DrawnTile DEF FaultInv, SegmentInv
    <2> QED BY <1>1, <2>1, <2>2 DEF FaultInv, Kept
  <1>3. CASE LogRow \/ LogBurst
    <2>1. source' = source /\ source \in Logged
      BY <1>3 DEF LogRow, LogBurst, IInv, SourceOK, Sources, HourSources, WeekSources
    <2>2. source' \notin Sources
      BY <2>1, Apart
    <2> QED BY <1>1, <2>2 DEF FaultInv, Drawn, Kept, Sources
  <1>4. CASE MakeSegment \/ FindRuns \/ Schedule \/ UNCHANGED vars
    <2>1. UNCHANGED <<source, draw, windows>>
      BY <1>4 DEF MakeSegment, FindRuns, Schedule, vars
    <2>2. Drawn'
      BY <2>1, ZenonT(60) DEF FaultInv, Drawn, Total, RunRange, HoldRange, Window
    <2>3. Make' = Make
      BY <2>1, MakeSame
    <2>4. source \in Sources => dep' = dep \/ dep' = Make
      BY <1>4 DEF MakeSegment, FindRuns, Schedule, vars, Sources, HourSources, WeekSources
    <2>5. Kept'
      BY <2>1, <2>3, <2>4 DEF FaultInv, Kept, Sources, NoData
    <2> QED BY <1>1, <2>2, <2>5 DEF FaultInv
  <1> QED BY <1>2, <1>3, <1>4 DEF Next

\* The windows of a synthetic segment are as long as what was drawn for them,
\* and its deployment is what the generator makes of all that was drawn.
THEOREM FaultInductive == Spec => []FaultInv
  <1>1. Init => FaultInv
    <2> SUFFICES ASSUME Init PROVE FaultInv
      OBVIOUS
    <2>1. dep = NoData
      BY DEF Init
    <2> QED BY <2>1, SegmentInit, DrawnInit DEF FaultInv, Kept
  <1>2. IInv /\ FaultInv /\ [Next]_vars => FaultInv'
    BY FaultStep
  <1> QED BY <1>1, <1>2, Inductive, PTL DEF Spec

\* Every generator raises its own signature, unless what it draws masks it,
\* and, but for those tolerated, no other, whatever it draws window by window
\* and reading by reading and however long its runs and holds turn out.
THEOREM OwnFault == Spec => []OwnFaultOnly
  <1>1. FaultInv => OwnFaultOnly
    <2> SUFFICES ASSUME FaultInv, Made PROVE OwnFaultOnly
      BY DEF OwnFaultOnly
    <2>1. /\ source \in Sources /\ dep = Make /\ Tiled = Total
          /\ Tiling /\ Drawn
      BY DEF FaultInv, SegmentInv, Kept, Made, Whole
    <2> QED BY <2>1, MadeRight DEF OwnFaultOnly
  <1> QED BY <1>1, FaultInductive, PTL

=============================================================================
