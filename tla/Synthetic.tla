------------------------------ MODULE Synthetic ------------------------------
(***************************************************************************)
(* The generators of frosty_analysis.synthetic: _cycle_windows tiles the   *)
(* segment one run/hold window at a time, then the generator of the source *)
(* fills the rows and the vibration readings.                              *)
(*                                                                         *)
(* The 1 Hz rows are thinned to one a minute (one a half minute where runs *)
(* are shorter than that); the two sources that last weeks keep their      *)
(* five-minute rows.  What the program draws anew for each window, each    *)
(* vibration reading or each blip is a sequence of percentages of its      *)
(* range, taken in turn.  The sensors' own noise is left out: only medians *)
(* and counts over many rows are made of what it is added to.              *)
(***************************************************************************)
EXTENDS Signatures

\* The generators, by how long what they make lasts by default.
HourSources == {"healthy", "short_cycling", "tcc_never_satisfied",
                "condenser_airflow", "knocking", "belt_slip"}
WeekSources == {"motor_degradation", "seal_failure"}

CONSTANTS
  NRows,                    \* rows of the segment of each source that lasts hours
  NDays,                    \* days of a segment that lasts weeks
  RunHealthy, HoldHealthy,  \* RUN_RANGE_HEALTHY_S, HOLD_RANGE_HEALTHY_S, in rows
  RunShort, HoldShort,      \* RUN_RANGE_SHORT_CYCLE_S, HOLD_RANGE_SHORT_CYCLE_S
  RunCoarse, HoldCoarse,    \* the healthy ranges in five-minute rows
  VibInterval,              \* five-minute rows between two vibration readings
  Draws                     \* what may be drawn for a segment of each source

ASSUME SegmentAssumption ==
  NRows \in [HourSources -> Nat \ {0, 1}] /\ NDays \in Nat \ {0, 1} /\ Day % 10 = 0
ASSUME RangeAssumption ==
  \A lengths \in {RunHealthy, HoldHealthy, RunShort, HoldShort, RunCoarse, HoldCoarse} :
     lengths \subseteq Nat /\ lengths # {}
ASSUME IntervalAssumption == VibInterval \in Nat \ {0}

\* Percentages of a range, drawn one after the other and then over again.
Percents(p) == p \in Seq(0..100) /\ p # <<>>

ASSUME DrawsAssumption ==
  \A s \in HourSources \union WeekSources : \A d \in Draws[s] :
    /\ Percents(d.delta) /\ Percents(d.amps) /\ Percents(d.rms)
    /\ Percents(d.mult) /\ Percents(d.end) /\ Percents(d.blip)

VARIABLES
  source,   \* the generator, or the part of a real recording that varies
  draw,     \* what is drawn, by what it is drawn for
  windows   \* _cycle_windows' list

Sources == HourSources \union WeekSources
Faults == Sources \ {"healthy"}

RowTime == IF source \in WeekSources THEN 10 ELSE IF source = "short_cycling" THEN 1 ELSE 2
Total == IF source \in WeekSources THEN NDays * (Day \div 10) ELSE NRows[source]

\* Everything in the middle of its range: delta-T and beater current of each
\* window, RMS of each reading, knocks or slip of each, what the fault has
\* grown to when the segment ends, and each blip of the drip tube.
Typical == [delta |-> <<50>>, amps |-> <<50>>, rms |-> <<50>>, mult |-> <<50>>,
            end |-> <<50>>, blip |-> <<50>>]

\* rng.uniform(lo, hi) for the n-th time
Uniform(lo, hi, p, n) == lo + ((hi - lo) * p[1 + (n % Len(p))]) \div 100

-----------------------------------------------------------------------------
(* _cycle_windows.                                                         *)

RunRange == IF source \in WeekSources THEN RunCoarse
            ELSE IF source = "short_cycling" THEN RunShort ELSE RunHealthy
HoldRange == IF source \in WeekSources THEN HoldCoarse
             ELSE IF source = "short_cycling" THEN HoldShort ELSE HoldHealthy

\* Where the next window starts.
Tiled == IF windows = <<>> THEN 0 ELSE Last(windows).next

\* Rows run..rest-1 run, rows rest..next-1 hold, both cut at the last row.
Window(t, run, hold) ==
  LET rest == Min({t + Max({1, run}), Total})
  IN [run |-> t, rest |-> rest, next |-> Min({rest + hold, Total})]

SyntheticInit ==
  /\ draw \in Draws[source]
  /\ windows = IF source = "tcc_never_satisfied" THEN <<Window(0, Total, 0)>> ELSE <<>>

CycleWindow ==
  /\ Tiled < Total
  /\ \E run \in RunRange, hold \in HoldRange :
       windows' = Append(windows, Window(Tiled, run, hold))
  /\ UNCHANGED <<source, draw>>

-----------------------------------------------------------------------------
(* Filling the rows; t counts rows from 0 as the program does.             *)

\* Blips of the healthy drip tube: rare, isolated, here every fourth row.
HealthyDrip(t) == IF t % 4 = 0 THEN Uniform(5, 25, draw.blip, t \div 4) ELSE 0

BaseRow(t) ==
  [ts |-> t * RowTime, cmd |-> 0, beater |-> 0, tcc |-> 0,
   delta |-> 0, amps |-> 0, drip |-> HealthyDrip(t)]

Cycle(t) == CHOOSE k \in 1..Len(windows) : windows[k].run <= t /\ t < windows[k].next
Running(t) == t < windows[Cycle(t)].rest

\* A run of more than ten samples ends in a TCC pulse: that is every run
\* whose rows are minutes, and none whose rows are five minutes.
TccPulse(t) ==
  LET w == windows[Cycle(t)]
      samples == IF source \in WeekSources THEN w.rest - w.run ELSE 60 * (w.rest - w.run)
  IN samples > 10 /\ t = w.rest - 1

\* COND_DELTA_HEALTHY, for window c.
WindowDelta(c) == Uniform(80, 120, draw.delta, c)

\* BEATER_ELEVATED_RANGE, BEATER_UNLOADED_RANGE or BEATER_LOADED_RANGE, for
\* window c.
WindowAmps(c) ==
  IF source = "tcc_never_satisfied" THEN Uniform(400, 520, draw.amps, c)
  ELSE IF source = "belt_slip" THEN Uniform(80, 130, draw.amps, c)
  ELSE Uniform(250, 350, draw.amps, c)

\* Temperatures of the hold, which no detector reads, are left at rest.
FillCycle(t, pulse) ==
  IF ~Running(t) THEN BaseRow(t)
  ELSE [BaseRow(t) EXCEPT !.cmd = 1, !.beater = 1,
                          !.tcc = IF pulse /\ TccPulse(t) THEN 1 ELSE 0,
                          !.delta = WindowDelta(Cycle(t)), !.amps = WindowAmps(Cycle(t))]

Filled(pulse) == [k \in 1..Total |-> FillCycle(k - 1, pulse)]

\* A reading every interval_s rows of the program, stamped as many seconds
\* apart: every minute of the 1 Hz sources, but of the others every 300th of
\* their five-minute rows, five minutes apart.
Every == IF source \in WeekSources THEN VibInterval ELSE 2 \div RowTime
NReadings == (Total + Every - 1) \div Every

\* RMS of the beater pod, the mean of three axes, at every reading.
VibBaseline ==
  [n \in 0..(NReadings - 1) |->
     IF Running(n * Every) THEN Uniform(34, 103, draw.rms, n) ELSE Uniform(4, 23, draw.rms, n)]

VibSummary(rms) ==
  LET apart == IF source \in WeekSources THEN 10 ELSE 2
  IN [k \in 1..NReadings |-> [ts |-> (k - 1) * apart, rms |-> rms[k - 1]]]

Segment(channels, vib) == [channels |-> channels, vib |-> vib, bursts |-> <<>>]

DayOf(t) == (t * RowTime) \div Day

-----------------------------------------------------------------------------
(* The generators.                                                         *)

MakeHealthy == Segment(Filled(TRUE), VibSummary(VibBaseline))

MakeShortCycling == Segment(Filled(FALSE), VibSummary(VibBaseline))

MakeTccNeverSatisfied == Segment(Filled(FALSE), VibSummary(VibBaseline))

\* delta-T goes over from what it was to the late target, row by row.
MakeCondenserAirflow ==
  LET rows == Filled(TRUE)
      late == Uniform(15, 35, draw.end, 0)
      Worse(k) == (rows[k].delta * (Total - k) + late * (k - 1)) \div (Total - 1)
  IN Segment([k \in 1..Total |->
                [rows[k] EXCEPT !.delta = IF rows[k].cmd = 1 THEN Worse(k) ELSE @]],
             VibSummary(VibBaseline))

\* Mutant of Knocks: only the very first run knocks.
KnocksOnce(t) == Cycle(t) = 1 /\ t = 0

\* The first third of every third run.
Knocks(t) ==
  LET w == windows[Cycle(t)]
  IN /\ Cycle(t) % 3 = 1 /\ w.run < w.rest
     /\ t < w.run + Max({1, (w.rest - w.run) \div 3})

MakeKnocking ==
  LET rms == VibBaseline
  IN Segment(Filled(TRUE),
             VibSummary([n \in 0..(NReadings - 1) |->
                           IF Knocks(n * Every)
                           THEN (rms[n] * Uniform(500, 800, draw.mult, n)) \div 100
                           ELSE rms[n]]))

MakeBeltSlip ==
  LET rms == VibBaseline
  IN Segment(Filled(TRUE),
             VibSummary([n \in 0..(NReadings - 1) |->
                           IF Running(n * Every)
                           THEN (rms[n] * Uniform(25, 45, draw.mult, n)) \div 100
                           ELSE rms[n]]))

\* amperes, or drops a minute, that the fault adds each day
PerDay ==
  (IF source = "motor_degradation" THEN Uniform(180, 240, draw.end, 0)
   ELSE Uniform(100, 160, draw.end, 0)) \div (NDays - 1)

MakeMotorDegradation ==
  LET rows == Filled(TRUE)
  IN Segment([k \in 1..Total |->
                [rows[k] EXCEPT !.amps = IF rows[k].beater = 1 THEN @ + DayOf(k - 1) * PerDay
                                         ELSE @]],
             VibSummary(VibBaseline))

MakeSealFailure ==
  LET rows == Filled(TRUE)
  IN Segment([k \in 1..Total |-> [rows[k] EXCEPT !.drip = @ + DayOf(k - 1) * PerDay]],
             VibSummary(VibBaseline))

Make ==
  CASE source = "healthy" -> MakeHealthy
    [] source = "short_cycling" -> MakeShortCycling
    [] source = "tcc_never_satisfied" -> MakeTccNeverSatisfied
    [] source = "condenser_airflow" -> MakeCondenserAirflow
    [] source = "knocking" -> MakeKnocking
    [] source = "belt_slip" -> MakeBeltSlip
    [] source = "motor_degradation" -> MakeMotorDegradation
    [] source = "seal_failure" -> MakeSealFailure

=============================================================================
