----------------------------- MODULE Signatures -----------------------------
(***************************************************************************)
(* The detectors of frosty_analysis.signatures: what each one answers for  *)
(* a deployment.                                                           *)
(*                                                                         *)
(* A deployment is a record of its channel rows, in time order, of the RMS *)
(* readings of the beater pod and of its burst files.  Time is counted in  *)
(* half minutes, temperatures and drip rates in tenths, currents in        *)
(* hundredths of an ampere.  A missing value is NaN.  Thresholds on        *)
(* magnitudes are the program's; those on time and on counts are           *)
(* constants.  Quotients are kept exact by scaling: Slope is Unit times    *)
(* the slope.                                                              *)
(***************************************************************************)
EXTENDS Runs, Samples, SequencesExt

CONSTANTS
  NaN,                \* a missing value
  Day,                \* half minutes in a UTC day
  ShortCycleMaxRun,   \* SHORT_CYCLE_MAX_RUN_S
  ShortCycleMinCount, \* SHORT_CYCLE_MIN_COUNT
  ShortCycleWindow,   \* SHORT_CYCLE_WINDOW
  TccMinRun,          \* TCC_NEVER_SATISFIED_MIN_HOURS
  KnockRollingWindow, \* KNOCK_ROLLING_WINDOW, an odd number of readings
  KnockClusterSpan,   \* KNOCK_CLUSTER_SPAN
  BeltMinSamples,     \* BELT_SLIP_MIN_SAMPLES
  MotorMinDays,       \* MOTOR_DEGRADATION_MIN_DAYS
  SealWindow,         \* SEAL_DRIP_SUSTAINED_WINDOW
  SealMinDays         \* SEAL_DRIP_TREND_MIN_DAYS

ASSUME NaNAssumption == NaN \notin Int
ASSUME ShortCycleAssumption ==
  ShortCycleMaxRun \in Nat /\ ShortCycleWindow \in Nat /\ ShortCycleMinCount \in Nat \ {0}
ASSUME TccAssumption == TccMinRun \in Nat
ASSUME DayAssumption == Day \in Nat \ {0}
ASSUME KnockAssumption == KnockRollingWindow \in Nat /\ KnockRollingWindow % 2 = 1
ASSUME KnockSpanAssumption == KnockClusterSpan \in Nat
ASSUME TrendAssumption == MotorMinDays \in Nat \ {0} /\ SealMinDays \in Nat \ {0}
ASSUME SealAssumption == SealWindow \in Nat

CondenserFloor == 50      \* CONDENSER_DELTA_T_FLOOR_C
CondenserDrop == 35       \* CONDENSER_DELTA_T_RELATIVE_DROP, percent
KnockFactor == 3          \* KNOCK_RMS_FACTOR
KnockMinPeriods == 3      \* rolling(..., min_periods=3)
KnockMinCluster == 2      \* KNOCK_MIN_CLUSTER_COUNT
BeltFloor == 180          \* BELT_SLIP_CURRENT_FLOOR_A
BeltFraction == 50        \* BELT_SLIP_MIN_FRACTION, percent
MotorSlope == 3           \* MOTOR_DEGRADATION_SLOPE_A_PER_DAY
SealFloor == 30           \* SEAL_DRIP_SUSTAINED_FLOOR_CPM
SealFraction == 60        \* SEAL_DRIP_SUSTAINED_FRACTION, percent
SealSlope10 == 15         \* ten times SEAL_DRIP_TREND_SLOPE_CPM_PER_DAY

-----------------------------------------------------------------------------
(* What the detectors are built from.                                      *)

\* severity; a detector has triggered when it is not "none"
Result(triggered, critical) ==
  IF ~triggered THEN "none" ELSE IF critical THEN "critical" ELSE "warning"

\* A missing column value counts as 0.
BoolCol(rows, col) == [k \in 1..Len(rows) |-> rows[k][col] = 1]

\* Twice the median sample period; that of one row alone, a second, is less
\* than a tick.
Period2(rows) ==
  IF Len(rows) < 2 THEN 0
  ELSE Median2([k \in 1..(Len(rows) - 1) |-> rows[k + 1].ts - rows[k].ts])

\* Twice the duration of the run r of rows.
Duration2(rows, r) == 2 * (rows[r[2]].ts - rows[r[1]].ts) + Period2(rows)

\* Mutant of MaxCluster: what happens at the instant itself is not counted.
MaxClusterAfter(times, span) ==
  Max({0} \union {Cardinality({u \in DOMAIN times : times[t] < times[u] /\ times[u] < times[t] + span}) :
                    t \in DOMAIN times})

\* The most of the things that happened at these times that fall within span
\* of one of them, those of one instant each counted.
MaxCluster(times, span) ==
  Max({0} \union {Cardinality({u \in DOMAIN times : times[t] <= times[u] /\ times[u] < times[t] + span}) :
                    t \in DOMAIN times})

\* The median per day that has samples, in order; samples are <<ts, value>>.
DailyMedian2(samples) ==
  LET days == Ascending({samples[k][1] \div Day : k \in 1..Len(samples)})
      Of(d) == {k \in 1..Len(samples) : samples[k][1] \div Day = d}
  IN [n \in 1..Len(days) |-> Median2([k \in Of(days[n]) |-> samples[k][2]])]

Unit == 2 * 2 * 840   \* both medians double; 840 is divisible by 1..8 days

\* Mutant of Lag: the distance counts both days.
LagInclusive(a, b) == b - a + 1

\* day_numbers = arange(n_days): the distance of two days in the list of
\* days that have data.
Lag(a, b) == b - a

\* the pairs j < k of 1..n
PairsOf(n) == {p \in (1..n) \X (1..n) : p[1] < p[2]}

\* Unit times the Theil-Sen slope of values that are doubled already.
Slope(values) ==
  IF Len(values) < 2 THEN 0
  ELSE Median2([p \in PairsOf(Len(values)) |->
         ((values[p[2]] - values[p[1]]) * 840) \div Lag(p[1], p[2])])

-----------------------------------------------------------------------------
(* The seven detectors.                                                    *)

ShortRuns(rows) ==
  {r \in Runs(BoolCol(rows, "cmd")) : Duration2(rows, r) < 2 * ShortCycleMaxRun}

\* The largest number of short runs that start within a window.
ShortCluster(rows) == MaxCluster([r \in ShortRuns(rows) |-> rows[r[1]].ts], ShortCycleWindow)

DetectShortCycling(dep) ==
  LET n == ShortCluster(dep.channels)
  IN Result(n >= ShortCycleMinCount, n >= 2 * ShortCycleMinCount)

BothOn(rows) == [k \in 1..Len(rows) |-> rows[k].cmd = 1 /\ rows[k].beater = 1]

\* Mutant of Unsatisfied: only the run still going on is looked at.
UnsatisfiedNow(rows) ==
  {r \in Runs(BothOn(rows)) : r[2] = Len(rows) /\ \A k \in r[1]..r[2] : rows[k].tcc # 1}

\* The runs of compressor and beater in which the TCC was never seen; tcc.loc
\* slices by time, so rows of the same instant as an end of the run count.
Unsatisfied(rows) ==
  {r \in Runs(BothOn(rows)) : \A k \in 1..Len(rows) :
     rows[r[1]].ts <= rows[k].ts /\ rows[k].ts <= rows[r[2]].ts => rows[k].tcc # 1}

DetectTccNeverSatisfied(dep) ==
  LET worst2 == Max({0} \union {Duration2(dep.channels, r) : r \in Unsatisfied(dep.channels)})
  IN Result(worst2 >= 2 * TccMinRun, worst2 >= 4 * TccMinRun)

\* Mutant of RunningDelta: idle rows count as well.
RunningDeltaAlways(rows) ==
  Where(Column(rows, "delta"), {k \in 1..Len(rows) : rows[k].delta # NaN})

\* condenser air delta-T, out minus in, while the compressor runs
RunningDelta(rows) ==
  Where(Column(rows, "delta"), {k \in 1..Len(rows) : rows[k].cmd = 1 /\ rows[k].delta # NaN})

DetectCondenserAirflow(dep) ==
  LET delta == RunningDelta(dep.channels)
      n == Len(delta)
      third == Max({n \div 3, 1})
      early2 == Median2(SubSeq(delta, 1, third))
      late2 == Median2(SubSeq(delta, n - third + 1, n))
      below == late2 < 2 * CondenserFloor
      collapsing == early2 > 0 /\ 100 * (early2 - late2) >= CondenserDrop * early2
  IN IF n = 0 THEN "none" ELSE Result(below \/ collapsing, below)

\* Mutant of Baseline2: rolling minimum.
Baseline2Lowest(vib, k) ==
  LET half == KnockRollingWindow \div 2
      w == SubSeq(vib, Max({1, k - half}), Min({Len(vib), k + half}))
  IN IF Len(w) < KnockMinPeriods THEN 0 ELSE 2 * Min(ToSet(Column(w, "rms")))

\* The rolling median around reading k, cut at both ends of the recording;
\* 0 where there are too few readings.
Baseline2(vib, k) ==
  LET half == KnockRollingWindow \div 2
      w == SubSeq(vib, Max({1, k - half}), Min({Len(vib), k + half}))
  IN IF Len(w) < KnockMinPeriods THEN 0 ELSE Median2(Column(w, "rms"))

Spikes(vib) ==
  {k \in 1..Len(vib) : Baseline2(vib, k) > 0 /\ 2 * vib[k].rms >= KnockFactor * Baseline2(vib, k)}

DetectKnocking(dep) ==
  LET n == MaxCluster([k \in Spikes(dep.vib) |-> dep.vib[k].ts], KnockClusterSpan)
  IN Result(n >= KnockMinCluster, n >= 3 * KnockMinCluster)

\* The beater current while the beater is on, with its instant.
Loaded(rows) ==
  Where([k \in 1..Len(rows) |-> <<rows[k].ts, rows[k].amps>>],
        {k \in 1..Len(rows) : rows[k].beater = 1 /\ rows[k].amps # NaN})

DetectBeltSlip(dep) ==
  LET loaded == Loaded(dep.channels)
      n == Len(loaded)
      unloaded == Cardinality({k \in 1..n : loaded[k][2] < BeltFloor})
  IN IF n < BeltMinSamples THEN "none"
     ELSE Result(100 * unloaded >= BeltFraction * n, 100 * unloaded >= 85 * n)

MotorTrend(rows) == Slope(DailyMedian2(Loaded(rows)))

DetectMotorDegradation(dep) ==
  LET loaded == Loaded(dep.channels)
      days == {loaded[k][1] \div Day : k \in 1..Len(loaded)}
      slope == MotorTrend(dep.channels)
  IN IF Cardinality(days) < MotorMinDays THEN "none"
     ELSE Result(slope >= MotorSlope * Unit, slope >= 3 * MotorSlope * Unit)

\* The drip readings there are, with their instants.
Drips(rows) ==
  Where([k \in 1..Len(rows) |-> [ts |-> rows[k].ts, drip |-> rows[k].drip]],
        {k \in 1..Len(rows) : rows[k].drip # NaN})

\* The samples in a window; one sample alone has the period of a second.
SealSamples(drips) ==
  Max({1, IF Len(drips) < 2 THEN 30 * SealWindow ELSE (2 * SealWindow) \div Period2(drips)})

\* Mutant of MinPeriods: a window counts from its first sample on.
MinPeriodsOne(samples) == 1

\* rolling(..., min_periods=max(1, window_samples // 2))
MinPeriods(samples) == Max({1, samples \div 2})

\* The percentages of samples at or above the floor in the trailing windows
\* that have enough samples.
SustainedFractions(drips) ==
  LET w == SealSamples(drips)
      At(k) == Min({k, w})
      Above(k) == Cardinality({j \in (k - At(k) + 1)..k : drips[j].drip >= SealFloor})
  IN {(100 * Above(k)) \div At(k) : k \in {k \in 1..Len(drips) : At(k) >= MinPeriods(w)}}

SealTrend(drips) ==
  Slope(DailyMedian2([k \in 1..Len(drips) |-> <<drips[k].ts, drips[k].drip>>]))

DetectSealFailure(dep) ==
  LET drips == Drips(dep.channels)
      days == {drips[k].ts \div Day : k \in 1..Len(drips)}
      most == Max({0} \union SustainedFractions(drips))
      sustained == most >= SealFraction
      trend == Cardinality(days) >= SealMinDays
                 /\ 10 * SealTrend(drips) >= SealSlope10 * Unit
  IN IF drips = <<>> THEN "none"
     ELSE Result(sustained \/ trend, (sustained /\ trend) \/ most >= 84)

Verdicts(dep) ==
  [short_cycling |-> DetectShortCycling(dep),
   tcc_never_satisfied |-> DetectTccNeverSatisfied(dep),
   condenser_airflow |-> DetectCondenserAirflow(dep),
   knocking |-> DetectKnocking(dep),
   belt_slip |-> DetectBeltSlip(dep),
   motor_degradation |-> DetectMotorDegradation(dep),
   seal_failure |-> DetectSealFailure(dep)]

Triggered(dep) == LET verdict == Verdicts(dep) IN {s \in DOMAIN verdict : verdict[s] # "none"}

=============================================================================
