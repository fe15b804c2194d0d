------------------------------ MODULE Analysis ------------------------------
(***************************************************************************)
(* The analysis package at work on recordings as they grow: a synthetic    *)
(* segment is tiled and made (Synthetic), so is a day of the demo          *)
(* deployment (Demo), or a real recording is logged row by row with        *)
(* whatever its source varies; at any moment the card may be read and the  *)
(* detectors (Signatures) and the report (Report) look at what there is.   *)
(* Where the compressor signal varies, the loop of _runs (RunScan) then    *)
(* goes over it step by step.                                              *)
(***************************************************************************)
EXTENDS Demo, Report, RunScan

CONSTANTS
  Logged,      \* the real recordings: what varies in each
  MaxLogged,   \* bound on the rows of each
  DeltaSpread  \* rise of delta-T between two windows that hides no blockage

Recordings == {"compressor", "freezing", "condenser", "beater", "drip", "bursts"}

ASSUME LoggedAssumption == Logged \subseteq Recordings /\ MaxLogged \in [Logged -> Nat]
\* Normal cycling against the rolling window: as many holds as it takes to
\* fill more than half of it have whole runs between them that do so too.
ASSUME CyclingAssumption ==
  LET half == KnockRollingWindow \div 2
  IN \A run \in RunHealthy, hold \in HoldHealthy \ {0} : run * (half \div hold) > half

\* The demo against the detectors.  A healthy run is not short; a beater run
\* of one row never counts for the TCC; a day of it has fewer days than a
\* trend needs; as many of the worst cycles as the detector wants, of three
\* rows at most, fit in its window and, behind a healthy segment that reaches
\* into them, in the warm hours.
ASSUME StoryAssumption ==
  /\ OnHealthy \union OffHealthy \subseteq Nat \ {0}
  /\ \A n \in OnHealthy : ShortCycleMaxRun <= n
  /\ ShortCycleMaxRun >= 2 /\ ShortCycleMinCount >= 2 /\ TccMinRun >= 2
  /\ BeltMinSamples \in Nat \ {0} /\ DemoRows <= Day * (MotorMinDays - 1)
  /\ 3 * (ShortCycleMinCount - 1) < ShortCycleWindow
  /\ \A n \in OnHealthy \union OffHealthy :
       WarmFrom + n + 3 * ShortCycleMinCount < WarmUntil

\* The generators against the detectors.  A run is not short unless it is
\* meant to be, and as many of those as the detector wants fit in its window
\* and in the segment; the segment without a TCC trip is long enough.
ASSUME CyclesAssumption ==
  /\ \A run \in RunHealthy : ShortCycleMaxRun <= 2 * run
  /\ ShortCycleMaxRun <= 10 /\ ShortCycleMaxRun <= TccMinRun
  /\ TccMinRun <= 2 * NRows["tcc_never_satisfied"]
  /\ 0 \notin HoldShort /\ \A run \in RunShort : run < ShortCycleMaxRun
  /\ \E long \in 1..ShortCycleWindow :
       /\ \A run \in RunShort, hold \in HoldShort : Max({1, run}) + hold <= long
       /\ (ShortCycleMinCount - 1) * long < ShortCycleWindow
       /\ (ShortCycleMinCount - 1) * long < NRows["short_cycling"]
\* The blocked condenser: of n running rows, m lie outside the medians of the
\* first and of the last third, and so do a and b rows of holds; delta-T has
\* fallen far enough from the one median to the other wherever they are, if
\* the windows of the last third were not drawn much higher.
ASSUME BlockageAssumption ==
  DeltaSpread \in Nat /\
  LET rows == NRows["condenser_airflow"]
  IN 0 \notin RunHealthy /\ \A run \in RunHealthy, hold \in HoldHealthy, n \in 1..rows :
       LET m == Max({n \div 3, 1}) \div 2
       IN \A a \in 0..(hold * (m \div run)), b \in 0..(hold * (1 + m \div run)) :
            a + b <= rows - n => \A d \in 80..120, e \in 15..35 :
              LET At(x, t) == (x * (rows - 1 - t) + e * t) \div (rows - 1)
                  early == At(d, m + a)
                  late == At(Min({d + DeltaSpread, 120}), rows - 1 - m - b)
              IN late < CondenserFloor \/ 100 * (early - late) >= CondenserDrop * early
\* Knocking: holds are no longer than runs, two of which are longer than half
\* a window; the third of a run that knocks is the smaller part of half of a
\* window; the first and the fourth run are in one segment and one cluster.
ASSUME KnocksAssumption ==
  LET half == KnockRollingWindow \div 2
  IN 2 <= half /\ \A run \in RunHealthy, hold \in HoldHealthy :
       /\ hold <= run /\ half < 2 * run
       /\ 2 * Max({1, run \div 3}) <= half
       /\ 3 * (run + hold) < NRows["knocking"] /\ 6 * (run + hold) < KnockClusterSpan
\* Currents and drips: a run has the samples the belt needs, hours do not make
\* the days of a trend, weeks do, with a run on each of them, and what a fault
\* adds a day is more than the thresholds.
ASSUME TrendsAssumption ==
  /\ BeltMinSamples <= NRows["belt_slip"] /\ \A run \in RunHealthy : BeltMinSamples <= run
  /\ \A s \in HourSources :
       2 * NRows[s] <= Day * (MotorMinDays - 1) /\ 2 * NRows[s] <= Day * (SealMinDays - 1)
  /\ 3 <= Day \div 10 /\ \A hold \in HoldCoarse : hold < Day \div 10
  /\ MotorMinDays <= NDays /\ SealMinDays <= NDays
  /\ MotorSlope <= 180 \div (NDays - 1) /\ SealSlope10 <= 10 * (100 \div (NDays - 1))

VARIABLE dep   \* the deployment read so far

demo == <<day, segments>>
vars == <<source, draw, windows, demo, dep, scanVars>>

NoData == Segment(<<>>, <<>>)

QuietRow == [ts |-> 0, cmd |-> 0, beater |-> 0, tcc |-> 0, delta |-> 0, amps |-> 0, drip |-> 0]

\* What a new row of the source may hold, and how long after the last one
\* it may come: late after an outage, at once after the clock was set.
NewRows(s) ==
  CASE s = "compressor" -> {[QuietRow EXCEPT !.cmd = c] : c \in {0, 1}}
    [] s = "freezing" -> {[QuietRow EXCEPT !.cmd = c[1], !.beater = c[2], !.tcc = c[3]] :
                            c \in {c \in {0, 1} \X {0, 1} \X {0, 1} : c[1] + c[2] > 0}}
    [] s = "condenser" -> {QuietRow} \union
                          {[QuietRow EXCEPT !.cmd = 1, !.delta = d] : d \in {20, 80, 120, NaN}}
    [] s = "beater" -> {[QuietRow EXCEPT !.beater = 1, !.amps = a] : a \in {250, 300, 400}}
    [] s = "drip" -> {[QuietRow EXCEPT !.drip = d] : d \in {0, 50, NaN}}

Gaps(s) == CASE s = "compressor" -> {0, 1, 12}
             [] s = "freezing" -> {6}
             [] s = "condenser" -> {1}
             [] s = "beater" -> {Day, 2 * Day}
             [] s = "drip" -> {10}

Burst(pod, peak) ==
  [pod |-> pod, peak |-> peak, header |-> TRUE, magic |-> TRUE, version |-> 1,
   samples |-> 2, payload |-> 2]

\* Burst files: sound ones, and louder ones that were cut in the header or
\* in the payload, are foreign, of a later format, or without samples.
NewBursts ==
  LET Loud == {Burst(pod, 3) : pod \in {1, 2}}
  IN {Burst(c[1], c[2]) : c \in {1, 2} \X {1, 2}}
       \union {[b EXCEPT !.header = FALSE] : b \in Loud}
       \union {[b EXCEPT !.payload = 1] : b \in Loud}
       \union {[b EXCEPT !.magic = FALSE] : b \in Loud}
       \union {[b EXCEPT !.version = 2] : b \in Loud}
       \union {[b EXCEPT !.samples = 0] : b \in Loud}

Init ==
  /\ source \in Sources \union {"demo"} \union Logged
  /\ IF source \in Sources THEN SyntheticInit ELSE draw = Typical /\ windows = <<>>
  /\ IF source = "demo" THEN DemoInit ELSE day = 0 /\ segments = <<>>
  /\ dep = NoData
  /\ ScanInit

\* The row at this time, behind the others.
Later(rows, row, gap) ==
  Append(rows, [row EXCEPT !.ts = IF rows = <<>> THEN 0 ELSE Last(rows).ts + gap])

LogRow ==
  /\ pc = "logging" /\ source \in Logged \ {"bursts"}
  /\ Len(dep.channels) < MaxLogged[source]
  /\ \E row \in NewRows(source), gap \in Gaps(source) :
       /\ dep' = [dep EXCEPT !.channels = Later(@, row, gap)]
       /\ LogSample(row.cmd = 1)
  /\ UNCHANGED <<source, draw, windows, demo>>

LogBurst ==
  /\ source = "bursts" /\ Len(dep.bursts) < MaxLogged[source]
  /\ \E burst \in NewBursts : dep' = [dep EXCEPT !.bursts = Append(@, burst)]
  /\ UNCHANGED <<source, draw, windows, demo, scanVars>>

Tile ==
  /\ source \in Sources /\ dep = NoData
  /\ CycleWindow
  /\ UNCHANGED <<demo, dep, scanVars>>

Schedule ==
  /\ source = "demo" /\ dep = NoData
  /\ CompressorSegment
  /\ UNCHANGED <<source, draw, windows, dep, scanVars>>

MakeSegment ==
  /\ dep = NoData
  /\ \/ source \in Sources /\ Tiled = Total /\ dep' = Make
     \/ source = "demo" /\ Scheduled = DemoRows /\ dep' = MakeDemoDay
  /\ mask' = BoolCol(dep'.channels, "cmd")
  /\ UNCHANGED <<source, draw, windows, demo, pc, i, start, found>>

\* detect_short_cycling calls _runs on the compressor column.
FindRuns ==
  /\ source \in {"compressor", "short_cycling"} /\ dep # NoData
  /\ Scan
  /\ UNCHANGED <<source, draw, windows, demo, dep>>

Next == LogRow \/ LogBurst \/ Tile \/ Schedule \/ MakeSegment \/ FindRuns

Spec == Init /\ [][Next]_vars

-----------------------------------------------------------------------------
(* Properties.                                                             *)

Rows == dep.channels
Made == source \in Sources /\ dep # NoData /\ pc = "logging"
LoggedOn(s) == source = s /\ Rows # <<>> /\ pc = "logging"

\* The report and the detector cut the compressor signal into the same
\* cycles, by edges paired by number and by the loop of _runs, however the
\* recording begins and ends.
CyclesAreRuns == pc = "done" => CompressorCycles(Rows) = found

\* detect_short_cycling only counts from the starts of short runs; no other
\* placement of the window would hold more of them.
ClusterIsLargest ==
  LoggedOn("compressor") =>
    \A t \in (0 - ShortCycleWindow)..Latest(Rows) :
      Cardinality({r \in ShortRuns(Rows) : t <= Rows[r[1]].ts /\ Rows[r[1]].ts < t + ShortCycleWindow})
        <= ShortCluster(Rows)

\* As a steadily sampled recording goes on, a "won't freeze" verdict is only
\* ever withdrawn by a TCC trip in the run still going on.
WithdrawnOnlyByTrip ==
  [][source = "freezing" /\ DetectTccNeverSatisfied(dep) # "none"
       /\ DetectTccNeverSatisfied(dep)' = "none"
     => LET row == Last(Rows') IN row.cmd = 1 /\ row.beater = 1 /\ row.tcc = 1]_dep

\* Whatever is missing or was logged with the compressor off: readings all
\* in the healthy 8-12 C never raise the condenser signature, readings all
\* below the floor always do.
HealthyDeltaIsQuiet ==
  LoggedOn("condenser") =>
    LET delta == {Rows[k].delta : k \in {k \in 1..Len(Rows) : Rows[k].cmd = 1}} \ {NaN}
    IN /\ (\A d \in delta : d >= 80) => DetectCondenserAirflow(dep) = "none"
       /\ delta # {} /\ (\A d \in delta : d < CondenserFloor) =>
            DetectCondenserAirflow(dep) = "critical"

\* The slope by the calendar: what the detectors would compute if a day
\* without data still counted as one.
CalendarSlope(rows) ==
  LET at == Ascending({rows[k].ts \div Day : k \in 1..Len(rows)})
      values == DailyMedian2(Loaded(rows))
  IN IF Len(at) < 2 THEN 0
     ELSE Median2([p \in PairsOf(Len(at)) |->
            ((values[p[2]] - values[p[1]]) * 840) \div (at[p[2]] - at[p[1]])])

\* Closed days are skipped, not counted: a current that never falls from day
\* to day is measured as rising at least as fast as it does, and exactly as
\* fast when no day is missing.
ClosedDaysOnlySteepen ==
  LoggedOn("beater") =>
    LET values == DailyMedian2(Loaded(Rows))
        n == Len(values)
    IN /\ (\A k \in 1..(n - 1) : values[k] <= values[k + 1]) =>
            MotorTrend(Rows) >= CalendarSlope(Rows)
       /\ Latest(Rows) \div Day = n - 1 => MotorTrend(Rows) = CalendarSlope(Rows)

\* A cleaning burst shorter than the fraction of half a window never counts
\* as a sustained drip, not even when the recording has just begun; a drip
\* that fills the last window always does.
BurstsRideOut ==
  LoggedOn("drip") =>
    LET drips == Drips(Rows)
        w == SealSamples(drips)
        Above(s) == Cardinality({k \in s : drips[k].drip >= SealFloor})
        most == Max({0} \union SustainedFractions(drips))
    IN /\ 100 * Above(1..Len(drips)) < SealFraction * (w \div 2) => most < SealFraction
       /\ Len(drips) >= w /\ Above((Len(drips) - w + 1)..Len(drips)) = w =>
            DetectSealFailure(dep) # "none"

\* The report shows the loudest readable burst of each pod, and none only if
\* the pod has none.
LoudestShown ==
  source = "bursts" =>
    \A pod \in {1, 2} :
      LET peaks == {dep.bursts[k].peak : k \in {k \in 1..Len(dep.bursts) :
                      dep.bursts[k].pod = pod /\ Readable(dep.bursts[k])}}
      IN RepresentativeBursts(dep.bursts)[pod] = Max({0} \union peaks)

\* The readings while the compressor runs, and those that knock.
Busy == {k \in 1..Len(dep.vib) : Running((k - 1) * Every)}
Loud == {k \in 1..Len(dep.vib) : source = "knocking" /\ Knocks((k - 1) * Every)}

\* No reading is KNOCK_RMS_FACTOR times one taken while running.
Alike ==
  \A j \in 1..Len(dep.vib), k \in Busy : dep.vib[j].rms < KnockFactor * dep.vib[k].rms

\* What may be drawn hides the fault: a later window has a much higher
\* delta-T or a much lower current than an earlier one, or some knock is not
\* KNOCK_RMS_FACTOR times what some other reading is.
Masked ==
  CASE source = "condenser_airflow" ->
         \E c, d \in 1..Len(windows) : c < d /\ WindowDelta(d) > WindowDelta(c) + DeltaSpread
    [] source = "motor_degradation" ->
         \E c, d \in 1..Len(windows) : c < d /\ WindowAmps(c) > WindowAmps(d) + PerDay - MotorSlope
    [] source = "knocking" ->
         \E k \in Loud, j \in (1..Len(dep.vib)) \ Loud :
           dep.vib[k].rms < KnockFactor * dep.vib[j].rms
    [] OTHER -> FALSE

\* Half or more of the rolling window around some reading, as far as there are
\* readings, is taken in holds.
HoldsPrevail ==
  LET h == KnockRollingWindow \div 2
      Around(k) == Max({1, k - h})..Min({Len(dep.vib), k + h})
  IN \E k \in 1..Len(dep.vib) : 2 * Cardinality(Around(k) \ Busy) >= Cardinality(Around(k))

\* Signatures that a source may raise besides its own: the knocking detector
\* takes the idle level for the normal one where holds prevail (at an end of
\* a segment, among short runs, or readings a day apart), and is fooled by
\* readings that differ much; no run of the five-minute sources trips the TCC;
\* and currents drawn higher and higher are a trend.
Tolerated ==
  {s \in {"knocking"} : ~Alike \/ HoldsPrevail}
  \union {s \in {"tcc_never_satisfied"} : source \in WeekSources}
  \union {s \in {"motor_degradation"} : source = "seal_failure"
            /\ \E c, d \in 1..Len(windows) : c < d /\ WindowAmps(c) < WindowAmps(d)}

\* Every generator raises its own signature, unless what is drawn hides it,
\* and but for those tolerated no other; the healthy one raises none.  All
\* of it holds window by window and reading by reading, not for one seed.
OwnFaultOnly ==
  Made => LET raised == Triggered(dep)
          IN /\ source \in Faults /\ ~Masked => source \in raised
             /\ raised \ {source} \subseteq Tolerated

\* make_short_cycling says that its segment isolates the run-length signal
\* from other failure signatures.
IsolatesRunLength == Made /\ source = "short_cycling" => Triggered(dep) \subseteq {source}

\* With normal cycling, and readings that do not differ by the factor of a
\* knock, the rolling baseline is right: spikes of a segment without knocking
\* are only found within half a window of its ends.
SpikesOnlyAtEdges ==
  Made /\ source \in HourSources \ {"knocking", "short_cycling"} /\ Alike =>
    \A k \in Spikes(dep.vib) :
      \/ k <= KnockRollingWindow \div 2
      \/ k > Len(dep.vib) - KnockRollingWindow \div 2

\* The story the demo deployment is made to tell is the one the detectors
\* read: short cycling, on the last day for certain and never before the
\* degradation has set in, its short runs all in the warm hours (or cut by
\* midnight), the fall of delta-T that goes with it, and nothing else: the
\* knock of day 9 is a single reading.
DemoTellsItsStory ==
  source = "demo" /\ dep # NoData =>
    LET raised == Triggered(dep)
    IN /\ raised \subseteq {"short_cycling", "condenser_airflow"}
       /\ day <= DegradationStartDay => raised = {}
       /\ day = LastDay => "short_cycling" \in raised
       /\ \A r \in ShortRuns(Rows) :
            r[2] = DemoRows \/ (WarmFrom <= Rows[r[1]].ts /\ Rows[r[1]].ts < WarmUntil)

=============================================================================
