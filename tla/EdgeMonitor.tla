---------------------------- MODULE EdgeMonitor ----------------------------
(***************************************************************************)
(* DigitalInputMonitor (and DripRateMonitor, which is the same code with   *)
(* other sizes): a ring of edge times stamped with the wrapping millis()   *)
(* counter, and a reader that decides "active" by counting the edges of    *)
(* the last Window.  One channel is modelled, channels share nothing.      *)
(*                                                                         *)
(* Edges come from the stub, the only source there is: the sampling task   *)
(* ticks it and then reads, both as of the same instant.  A source whose   *)
(* circuit stays energized is the stub of the drip tube.                   *)
(***************************************************************************)
EXTENDS Integers, Sequences, FiniteSets

CONSTANTS
  Window,        \* kWindowMs, in ticks
  Threshold,     \* kActiveEdgeThreshold
  Depth,         \* kMaxEdgesTracked, kMaxDropsTracked
  Wrap,          \* millis() counts modulo Wrap (2^32 in the code)
  Gaps,          \* ticks from one sample to the next: kPeriodMs, less after a late one
  PulsePeriods,  \* kStubPulsePeriodMs, or kBaseDropPeriodMs and its jitter
  MaxSteady      \* bound on the count in "steady"

ASSUME RingAssumption == Depth \in Nat \ {0} /\ Threshold \in 1..Depth
ASSUME TimeAssumption ==
  /\ Window \in Nat /\ Wrap \in Nat /\ Wrap > Window + 1
  /\ Gaps \subseteq Nat \ {0} /\ PulsePeriods \subseteq Nat /\ PulsePeriods # {}
ASSUME BoundAssumption == MaxSteady \in Nat

VARIABLES
  now,                     \* millis()
  times, writeIdx, count,  \* edgeTimes, writeIdx, count of a ChannelState
  energized, nextDue,      \* the stub's circuit; nextEdgeDueMs_
  inWindow, active,        \* the latest edgeCountInWindow() and isActive()
  since,                   \* ticks since the latest sample
  ages,      \* history: the true age of every edge of Window
  slotAge,   \* history: the true age of the edge in each slot
  steady     \* history: ticks the stub's circuit has been energized

ring == <<times, writeIdx, count>>
ringHistory == <<ages, slotAge>>
vars == <<now, ring, energized, nextDue, inWindow, active, since, ringHistory, steady>>

Slots == 0..(Depth - 1)
Stamps == 0..(Wrap - 1)

Init ==
  /\ now \in Stamps
  /\ times = [s \in Slots |-> 0] /\ writeIdx = 0 /\ count = 0
  /\ energized = FALSE /\ nextDue = 0
  /\ inWindow = 0 /\ active = FALSE /\ since \in Gaps
  /\ ages = <<>> /\ slotAge = [s \in Slots |-> 0] /\ steady = 0

-----------------------------------------------------------------------------
(* Recording.                                                              *)

NextIdx(w) == (w + 1) % Depth

\* Mutant of RecordEdge: a full ring starts over instead of overwriting.
RecordEdgeStartsOver(t) ==
  /\ times' = [times EXCEPT ![writeIdx] = t]
  /\ writeIdx' = NextIdx(writeIdx)
  /\ count' = IF count < Depth THEN count + 1 ELSE 1
  /\ ages' = Append(ages, 0) /\ slotAge' = [slotAge EXCEPT ![writeIdx] = 0]

RecordEdge(t) ==
  /\ times' = [times EXCEPT ![writeIdx] = t]
  /\ writeIdx' = NextIdx(writeIdx)
  /\ count' = IF count < Depth THEN count + 1 ELSE count
  /\ ages' = Append(ages, 0) /\ slotAge' = [slotAge EXCEPT ![writeIdx] = 0]

\* tickStub(now): a pulse, if the circuit is energized and one is due.
TickStub ==
  IF energized /\ now >= nextDue
  THEN RecordEdge(now) /\ \E p \in PulsePeriods : nextDue' = (now + p) % Wrap
  ELSE UNCHANGED <<ring, ringHistory, nextDue>>

-----------------------------------------------------------------------------
(* Reading.                                                                *)

AgeSaturating(t) == IF now >= t THEN now - t ELSE 0   \* mutant of Age

\* now_ms - edgeTimes[i] as uint32_t.
Age(t) == (now + Wrap - t) % Wrap

Within(t) == Age(t) <= Window

EdgeCountInWindow(stamps, n) == Cardinality({s \in 0..(n - 1) : Within(stamps[s])})

\* The sampling task: tick the stub, then read.
Sample ==
  /\ since \in Gaps /\ since' = 0
  /\ TickStub
  /\ inWindow' = EdgeCountInWindow(times', count')
  /\ active' = (inWindow' >= Threshold)
  /\ UNCHANGED <<now, energized, steady>>

-----------------------------------------------------------------------------
(* Time and the circuit.                                                   *)

Older(seq) == [k \in 1..Len(seq) |-> seq[k] + 1]

\* The ages of Window at most; they come oldest first.
Relevant(seq) ==
  SubSeq(seq, 1 + Cardinality({k \in 1..Len(seq) : seq[k] > Window}), Len(seq))

\* The sampling task is woken within the longest gap.
Tick ==
  /\ \E gap \in Gaps : since < gap
  /\ now' = (now + 1) % Wrap /\ since' = since + 1
  /\ ages' = Relevant(Older(ages))
  /\ slotAge' = [s \in Slots |-> IF slotAge[s] < Wrap THEN slotAge[s] + 1 ELSE Wrap]
  /\ steady' = IF energized /\ steady < MaxSteady THEN steady + 1 ELSE steady
  /\ UNCHANGED <<ring, energized, nextDue, inWindow, active>>

\* The circuit the stub simulates goes on and off.
Switch ==
  /\ energized' = ~energized /\ steady' = 0
  /\ UNCHANGED <<now, ring, nextDue, inWindow, active, since, ringHistory>>

Next == Sample \/ Tick \/ Switch

Spec == Init /\ [][Next]_vars

-----------------------------------------------------------------------------
(* Properties.                                                             *)

\* The ring's indices are in range, and agree until it is full.
RingOK ==
  /\ times \in [Slots -> Stamps] /\ writeIdx \in Slots /\ count \in 0..Depth
  /\ count < Depth => writeIdx = count

\* The k-th oldest edge of the ring.
Slot(k) == LET s == writeIdx + Depth - count + k - 1
           IN  IF s < Depth THEN s ELSE s - Depth

Latest == [k \in 1..count |-> times[Slot(k)]]

History == INSTANCE EdgeHistory WITH edges <- Latest, Times <- Stamps

\* The ring with its write index and count is the bounded history of the
\* latest edges, however often it has wrapped around.
KeepsLatest == History!Spec

\* The edges that really happened in the Window that ends at the reading.
TrueCount == Cardinality({k \in 1..Len(ages) : ages[k] <= Window})

\* An edge that has stayed in the ring for a whole turn of the counter.
Aliased == \E s \in 0..(count - 1) : slotAge[s] = Wrap

\* A reading counts every edge of its window that the ring has room for,
\* wherever millis() wraps between edge and reading and however often the
\* ring has been overwritten; and no other, nor one twice, unless the ring
\* holds an edge so old that its stamp has come round again.
CountsItsWindow ==
  since = 0 =>
    /\ inWindow >= IF TrueCount < Depth THEN TrueCount ELSE Depth
    /\ ~Aliased => inWindow <= TrueCount

\* digital_input.cpp: the stub's pulses "comfortably clear" the threshold
\* within the window, so a circuit energized for two whole sample periods
\* reads as active.
EnergizedReadsActive ==
  since = 0 /\ (\A gap \in Gaps : steady > 2 * gap) => active

=============================================================================
