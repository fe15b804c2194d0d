-------------------------------- MODULE Demo --------------------------------
(***************************************************************************)
(* One day of the deployment that make_demo_deployment.py writes: the      *)
(* compressor schedule, segment by segment, then the rows of the day.  A   *)
(* row is half a minute, and the day is shorter than a real one: CloseAt   *)
(* stands for 02:00, OpenFrom for 11:00, WarmFrom and WarmUntil for 13:00  *)
(* and 18:00.  A length drawn from a normal distribution is one of the two *)
(* numbers of rows next to its centre.                                     *)
(***************************************************************************)
EXTENDS Synthetic

CONSTANTS
  DemoRows, CloseAt, OpenFrom, WarmFrom, WarmUntil,
  OnHealthy, OffHealthy,   \* lengths of healthy segments, in rows
  KnockAt                  \* KNOCK_OFFSET_S

ASSUME DemoAssumption ==
  {CloseAt, OpenFrom, WarmFrom, WarmUntil, DemoRows} \subseteq Nat
  /\ 0 < CloseAt /\ CloseAt < OpenFrom /\ OpenFrom < WarmFrom /\ WarmFrom < WarmUntil
  /\ WarmUntil < DemoRows /\ KnockAt \in 0..(DemoRows - 1)

VARIABLES
  day,       \* day_index
  segments   \* (start, end, state) of the day so far

DegradationStartDay == 6
KnockDay == 9
LastDay == 13        \* N_DAYS - 1
FirstWeekday == 2    \* START_DATE is a Wednesday

\* Mutant of Degradation: the days are capped before they are divided.
DegradationCapped == Max({0, Min({1, day - DegradationStartDay})})

\* sevenths of the full degradation
Degradation == Max({0, Min({7, day - DegradationStartDay})})

Degraded(t) == Degradation > 0 /\ WarmFrom <= t /\ t < WarmUntil

\* The numbers of rows next to the quotient; no segment is shorter than one.
About(num, den) == {n \in 1..((num \div den) + 1) : n * den - num \in (1 - den)..(den - 1)} \union
                   IF num < den THEN {1} ELSE {}

\* 150 - 120 d and 200 - 150 d seconds, d from 0 to 1
OnLengths(t) == IF Degraded(t) THEN About(35 - 4 * Degradation, 7) ELSE OnHealthy
OffLengths(t) == IF Degraded(t) THEN About(140 - 15 * Degradation, 21) ELSE OffHealthy

Scheduled == IF segments = <<>> THEN 0 ELSE Last(segments).end

DemoInit == day \in 0..LastDay /\ segments = <<>>

\* One segment of _build_compressor_segments, on first, then alternating.
CompressorSegment ==
  /\ Scheduled < DemoRows
  /\ LET on == Len(segments) % 2 = 0
     IN \E n \in (IF on THEN OnLengths(Scheduled) ELSE OffLengths(Scheduled)) :
          segments' = Append(segments, [start |-> Scheduled, end |-> Min({Scheduled + n, DemoRows}),
                                        on |-> on, degraded |-> Degraded(Scheduled)])
  /\ UNCHANGED day

SegmentAt(t) ==
  segments[CHOOSE k \in 1..Len(segments) : segments[k].start <= t /\ t < segments[k].end]

-----------------------------------------------------------------------------
(* The rows of the day.                                                    *)

IsOpen(t) == t < CloseAt \/ t >= OpenFrom
BusyNight == (FirstWeekday + day) % 7 \in {4, 5}

\* _build_beater_on with every gap and every run at its mean: a run of one
\* row after each gap of one (busy) or three.
BeaterOn(t) ==
  LET gap == IF BusyNight THEN 1 ELSE 3
      opened == IF t >= OpenFrom THEN OpenFrom ELSE 0
  IN IsOpen(t) /\ (t - opened) % (gap + 1) = gap

\* Tenths of a degree.  In half a minute (k = 0.01 a second) the cylinder
\* keeps 74 percent of its distance from the target.  Every day starts at the
\* four degrees of the first one.
CylinderTemp(on) ==
  LET Relax(current, target) == target + ((current - target) * 74) \div 100
      Row(temps, running) ==
        Append(temps, Relax(IF temps = <<>> THEN 40 ELSE Last(temps), IF running THEN -60 ELSE 10))
  IN FoldLeft(Row, <<>>, on)

\* dt_factor falls to 60 percent.
DemoDelta(segment) == IF segment.degraded THEN 120 - (48 * Degradation) \div 7 ELSE 120

ChannelsDay ==
  LET at == [k \in 1..DemoRows |-> SegmentAt(k - 1)]
      temp == CylinderTemp([k \in 1..DemoRows |-> at[k].on])
  IN [k \in 1..DemoRows |->
        [ts |-> k - 1, cmd |-> IF at[k].on THEN 1 ELSE 0,
         beater |-> IF BeaterOn(k - 1) THEN 1 ELSE 0,
         tcc |-> IF temp[k] < -20 THEN 1 ELSE 0,
         delta |-> IF at[k].on THEN DemoDelta(at[k]) ELSE 0,
         amps |-> IF BeaterOn(k - 1) THEN 300 ELSE 5, drip |-> NaN]]

\* RMS of the beater pod, mean of the axes, in thousandths: gravity is in
\* it.  One reading every ten rows, and that of the knock; bursts and
\* journal events, which no detector reads, are left out.
VibSummaryDay ==
  LET at == {t \in 0..(DemoRows - 1) : t % 10 = 0}
      readings == [n \in 1..Cardinality(at) |->
                     [ts |-> (n - 1) * 10, rms |-> IF BeaterOn((n - 1) * 10) THEN 384 ELSE 346]]
      knock == [ts |-> KnockAt, rms |-> 577]
      before == {n \in DOMAIN readings : readings[n].ts <= KnockAt}
  IN IF day # KnockDay THEN readings
     ELSE Where(readings, before) \o <<knock>> \o Where(readings, DOMAIN readings \ before)

MakeDemoDay == Segment(ChannelsDay, VibSummaryDay)

=============================================================================
