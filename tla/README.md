# Verification of the embedded frosty monitor

This directory holds TLA+ models of the firmware, of the provisioning scripts
around it and of the Python package that reads the cards it writes, the TLC
configurations that check them on small instances, and theorems about them that
the TLA+ proof system has checked. Every definition is a translation of the code
in `firmware/`, `cloud/scripts/` and `analysis/`; `PROJECT.json` gives the source
lines of each one under `map`.

1. [The system](#the-system)
2. [Modules](#modules)
3. [From code to model](#from-code-to-model)
4. [Runs](#runs)
5. [Fairness](#fairness)
6. [Proofs](#proofs)
7. [Where code and documents disagree](#where-code-and-documents-disagree)
8. [What the code does that no property forbids](#what-the-code-does-that-no-property-forbids)
9. [What is not modelled](#what-is-not-modelled)
10. [Plan](#plan)

To check a module: `tlc -config MCPipeline.cfg Pipeline`; to check proofs:
`tlapm PipelineProofs.tla`.

## The system

The monitor is a portable data logger for frozen-drink machines: an ESP32-S3
samples currents, temperatures, digital inputs, leak sensors and two vibration
pods, and appends what it sees to a microSD card, the source of truth. When
configured, it also publishes aggregates to AWS IoT. A Python package turns a
copied card into findings and a report.

### Data path (`main.cpp`, `tasks/`)

*State.* One FreeRTOS queue of 64 records; two vibration trigger flags in the
shared `AppContext`; raw burst buffers on the heap, passed as bare pointers.
*Operations.* The sampling task sends one row a second and sets trigger flags
when a current jumps; the capture task reads and clears the flags, captures
both pods, sends a summary for each and, every fourth capture or
when triggered, the raw burst; the UI task sends an event for each button press;
the storage writer receives, hands each record to the SD, cloud and BLE sinks
in turn, and flushes every 5 s.
*Interactions.* Every send has a zero timeout: a full queue drops the record.
The SD sink frees burst buffers, on every path; the sinks after it see the
record with its dangling pointer.
*Hard.* Interleaving of unpinned tasks on two cores, a queue at its limit, a
buffer whose owner changes three times, a flag read and cleared in two steps,
a flush that is only reached between two records.
*Correct when.* Every buffer has one owner and is freed once; every accepted
record reaches every sink once, in order; buffered data is never older than
the flush period.

### SD sink (`storage/sd_sink.cpp`)

*State.* Three open files (channels, events, vibration summaries) and their UTC
day; a flag that a card is present; the files themselves.
*Operations.* `begin()`, `write()` (retry of the mount, day rollover, header for
new files, one line; a burst into a file of its own), `flush()`.
*Interactions.* The storage writer calls it under the SPI mutex, which the cloud
task also takes for certificates and watermarks.
*Hard.* A card inserted late, pulled or swapped; power lost between creating a
file and syncing its header; one of three files failing to open; records of two
days alternating around midnight or after the clock is set.
*Correct when.* Lines are in the file of their day; flushed data survives
everything; one header, on top; handles open and close together; a hot-inserted
card is picked up.

### Cloud sink (`storage/cloud_sink.cpp`, `cloud_aggregate.cpp`)

*State.* A connection state machine with its entry time, backoff and cached
certificates; three aggregation windows; three published-up-to watermarks, also
in a file; a mutex for the windows.
*Operations.* `poll()` every 250 ms in a task of its own: connect, wait, back off,
publish windows; `write()` on the storage task: fold a row or a summary into its
window, publish an event; load and save the watermarks.
*Hard.* Unsigned time differences on a counter that wraps; blocking calls; a link
that drops at any time; two tasks that share windows, watermarks, a file and the
MQTT client, of which only the windows and the card have a mutex.
*Correct when.* It never gives up and never spins; timeouts neither hang nor fire
early; no record falls between two windows; nothing is claimed as published that
was not; no two mutexes deadlock.

### Edge monitors (`hal/digital_input.*`, `hal/leak_sensors.*`)

*State.* A ring of the times of the latest 32 edges (of drops) with write index and
count.
*Operations.* `tickStub()`, which calls `recordEdge()`, and the count of edges within
the last 100 ms that decides "active"; both on the sampling task. The interrupt that is
to call `recordEdge()` one day is only planned (`digital_input.h:12-15`).
*Hard.* Wrapping times; a ring that is full; the rate at which the stub is ticked
against the window it has to fill.
*Correct when.* The ring holds exactly the latest edges; a reading counts its
window.

### Provisioning (`cloud/scripts/`)

*State.* The AWS IoT registry (thing, certificates, attachments) and the output
directory. *Operations.* `provision-device.sh` (create, mint, attach, write the
bundle) and `deprovision-device.sh` (list, detach, deactivate, delete).
*Hard.* `set -e` or Ctrl-C ends a run between any two commands; runs are repeated.
*Correct when.* AWS never refuses a deletion; a recorded bundle works; nothing but
a run that was cut leaves certificates behind.

### Analysis (`analysis/frosty_analysis/`, `analysis/scripts/`)

*State.* None that lasts: `load_deployment` reads a copied card into data frames
(channels, vibration summaries, events, burst files), seven detectors and a report
read the frames. What varies is the recording: how long it is, when it began and
ended, what is missing, when the clock was set.
*Operations.* `_runs` cuts a condition into its maximal runs; `detect_*` compare
durations, medians, clusters and slopes with thresholds; the report pairs edges into
compressor cycles, counts the rows there should be and picks the burst it shows of
each pod. `synthetic.py` makes a segment with each fault, `make_demo_deployment.py`
two weeks with a story.
*Interactions.* The loader has to accept whatever the SD sink can leave on a card;
the detectors have to recognise what the generators make, although the two share no
constants; the report and the detectors look at the same signal by different means.
*Hard.* Runs at either end of a recording; windows that are cut at its ends; gaps,
dropouts and days without data; a clock set back; damaged burst files; a range drawn
at its edge.
*Correct when.* A run is found exactly once; a detector raises what it is named after
and nothing a healthy signal can cause; what the report claims neither hides a loss
nor invents a cycle; one damaged file does not hide a sound one.

### The rest

Boot, configuration and serial console; button debounce and LED; sensor stubs;
record formatting; the scripts that draw the gallery and the sample report; Terraform;
the board generator. `PROJECT.json` lists each with its status and the reason.

## Modules

| Module | What it models | Composed with |
|---|---|---|
| `Pipeline` | producers, queue, buffers, storage writer | the sinks are reduced to what the tasks see of them; implements `FanOut` (`TeesInTurn`) |
| `FanOut` | abstract: records given to every sink, one at a time and in order | |
| `PipelineProofs` | theorems about `Pipeline` | extends `Pipeline` |
| `SdSink` | daily files on a removable card | refines the step `SdWrite` of `Pipeline` informally |
| `Loader` | `load_deployment` on those files | extends `SdSink`, so that it reads what the sink left |
| `MCSdSink` | both for TLC | extends `Loader` |
| `SdSinkProofs` | theorems about `SdSink` and `Loader` | extends `Loader` |
| `CloudLink` | the connection state machine | gives `connected` to `CloudPublish` |
| `CloudLinkProofs` | theorems about `CloudLink` | extends `CloudLink` |
| `CloudPublish` | windows, publishing, watermarks, two tasks and two mutexes | |
| `CloudPublishProofs` | theorems about `CloudPublish` | extends `CloudPublish` |
| `EdgeHistory` | abstract: the latest `Depth` edges | |
| `EdgeMonitor` | the ring, the stub that fills it, its reader | implements `EdgeHistory` (property `KeepsLatest`) |
| `EdgeMonitorProofs` | theorems about `EdgeMonitor` | extends `EdgeMonitor` |
| `CertLife` | abstract: the stages of a certificate's life, each passed once | |
| `Provisioning`, `MCProvisioning` | the two scripts against the registry | implements `CertLife` (`LivesOnce`) |
| `ProvisioningProofs` | theorems about `Provisioning` | extends `Provisioning` |
| `Runs` | abstract: the maximal runs of a Boolean sequence | |
| `RunScan` | the loop of `_runs`, one sample a step | checked and proved to find `Runs` |
| `Samples` | columns of a frame: readings without NaN, set elements in order, medians by rank | |
| `Signatures` | the seven detectors as operators on a deployment | extends `Runs`, `Samples` |
| `Synthetic` | the eight generators: tiling a segment, filling its rows | extends `Signatures` for its format |
| `Demo` | one day of the demonstration deployment, segment by segment | extends `Synthetic` |
| `Report` | compressor cycles, representative bursts | extends `Signatures` |
| `Analysis`, `MCAnalysis` | generators, demo or a growing real recording as the source; detectors, report and the loop of `_runs` as its readers | extends `Demo`, `Report`, `RunScan` |
| `AnalysisProofs` | lemmas on induction, counting, quotients, order and medians; theorems about `Analysis` | extends `Analysis` |
| `FaultProofs` | the theorem about the fault generators and the seven detectors | extends `AnalysisProofs` |

Definitions whose comment begins "Mutant of" (`RoomOffByOne`, `AggIgnored`, ...)
are not part of a specification: each is a plausible mistake in the code, put in
place of the definition it names to see that a property notices it.

## From code to model

**Pipeline.** `queue` is `ctx->sampleQueue`, `trig` the two trigger flags, `heap`
the burst buffers malloc has given out. Each task has a program counter: `spc`
(send the row, then the spike heuristic), `vpc` (read the flags, clear them, and
per pod allocate, summary, burst), `wpc` (receive, one write per sink, the flush
check). `Offer` is `xQueueSend(..., 0)`. Each access to something shared is an
action, so every interleaving of the tasks is a behaviour. `Wait` and
`PublishWaits` are the only steps in which time passes: the writer has the
highest priority, and what can hold it up otherwise is the SPI mutex, held for the
length of one small file access. Times are counted in receive timeouts (200 ms).

**SdSink.** A file is a sequence of lines of which the first `synced` are on the
card; a handle is closed, live, or stale (its card was pulled). `Write` has one
disjunct per way out of `write()`: no card, daily files already open, opened anew,
failed to open. `PullCard` and `PowerLoss` keep any part of the unsynced tail. Days
are model values because the sink only compares them.

**CloudLink.** One action per `case` of `poll()`, `EnterState` is `enterState()`,
`TimedOut` the unsigned subtraction, on a counter that wraps after `Wrap` ticks and
starts anywhere. The blocking `connect()` is a window between two actions.

**CloudPublish.** Each task has a program counter; `Acknowledge` is what follows
`publish()`, `todo` is what is left of the loop over the windows and `Current` the one it
is at; `SaveReads`, `SaveOpens` and `SaveFills` are the steps of
`saveWatermark()` that the other task, or a power loss, can tell apart. An aggregate
is reduced to its count and its latest timestamp. `added`, `done`, `published` and
`kept` are history variables.

**EdgeMonitor.** `Sample` is what the sampling task does with a channel once a period: the
circuit changes or not, `tickStub()` records an edge if one is due, and the count of the
window follows, all on one task and as of one instant; time passes between two samples.
`ages` and `slotAge` know the true ages; `Aliased` is the case that a slot's edge is a whole
turn of the counter old (see below).

**Provisioning.** `pc` is the command the script comes to next; `Cut` ends the run
there, for a command that failed (`set -e`) or a Ctrl-C. `Deletable` is AWS's own
precondition. `cutOn` and `revoked` are history variables.

**Loader.** Operators over the state of `SdSink`: which files of a card are read, which of
them stop `pd.read_csv` or the lookup of `ts_iso`, and which lines come back with a time.
Lines are whole (see [What is not modelled](#what-is-not-modelled)).

**Signatures.** A deployment is a record of channel rows, vibration readings and burst files.
Times are counted in half minutes, temperatures and drips in tenths, currents in hundredths
of an ampere, so that every comparison of the code is one of integers: a median is kept
doubled, a Theil-Sen slope scaled by `Unit`. Thresholds on magnitudes are the program's own;
thresholds on time and on counts are constants of the module. A missing value is `NaN`.

**RunScan.** `Call`, one of `OpenRun`, `CloseRun`, `GoOn` per sample, `Return`: the early
return, the branches of the loop body and what follows the loop.

**Synthetic, Demo.** Tiling (`CycleWindow`) and scheduling (`CompressorSegment`) are actions,
one window or segment a step, with each length one of the ends of its range; filling the
rows is an operator. Rows at 1 Hz are thinned to one a minute, or a half minute where runs
are shorter; the two sources that last weeks keep their rows of five minutes. A vibration
reading goes with every row of the sources that last hours (every second one of
`short_cycling`); those that last weeks have one every `VibInterval` rows (300 in the
program), stamped five minutes apart all the same. What the program draws anew for each window
(delta-T, beater current), each vibration reading (level, knock, slip) or each blip is a
sequence of percentages of the range, taken in turn (`Draws`, `Uniform`): a constant of the
module, which the theorems take as any set of such sequences and `MCAnalysis.cfg` as a few.
A day of the demo is 48 rows long; `CloseAt`, `OpenFrom`, `WarmFrom` and `WarmUntil`
stand for 02:00, 11:00, 13:00 and 18:00, and the lengths of the cycles are the code's.

**Analysis.** `source` says what is recorded: a generator, a day of the demo, or a real
recording of which one part varies (compressor, clock, TCC, condenser, beater current, drip,
burst files). `LogRow` and `LogBurst` let a real recording grow; every property is about
reading it at that moment, so a recording may end anywhere.

## Runs

Every cfg sets the constants only; no definition is replaced. Deadlock is checked in every
run but `analysis` and `short_cycling`: when the producers have used up their bounds, the writer's receive still
times out, the tasks still poll, the scripts can still be started. In these two a segment
that is made, or a recording at its bound, is really the end.

| Run | Checks | Bounds, and why they do |
|---|---|---|
| `pipeline` | `OneOwner NoBadFree TeeComplete OverdueOnlyPublishing BoundedWithoutEvents Drained` | Cloud on, a queue of 2, 1 buffer, a burst every second capture, 2 captures of both pods, one row, one event, a flush every 2 ticks. The queue fills, a triggered and a periodic burst meet a full queue, allocation fails while the buffer is out, a publish blocks past the flush period, and all four tasks interleave. Two buffers out at once are left to the theorems. 1 840 000 states, somewhat more than two minutes. |
| `flush_cloud` | `ExposureBounded`, cloud on: violated | See below. |
| `sd_sink` | `TypeOK FiledByDay HandlesTogether OnlyOpenFilesUnsynced LoadsUnlessCut FlushedIsForever RecoversUnlessPulled` | One fresh card, two days, one removal, one power loss, up to 2 lines a file (a header and a line, or two lines of a file that lost its header); a full card fails an open. Two days suffice because a file is only compared with the current day. 206 000 states, two and a half minutes. |
| `sd_reinsert` | `HotInsertRecovers`, one removal: violated | See below. |
| `cloud_link` | `NoStateOverstays BackoffLaw NoTimeoutFiresEarly AttemptsSpaced KeepsTrying Settles` | Timeouts of 1 and 2 ticks, backoff 1, 2, 4: as in the code (10 s, 15 s; 2 s to 5 min) the floor is below the association timeout, the cap above it, and a poll or a blocked connect takes a tick or two; the counter wraps every 8 ticks, so in the middle of every kind of wait, and starts at every value. 40 000 states. |
| `cloud_publish` | `EveryRecordInOneWindow NothingClaimed BothReturn WindowsLeave` | 3 records, one power loss, failing publishes and opens: a record can arrive before, during and after a window is taken. 67 000 states. |
| `watermark_mirror` | `MirroredWhenIdle`: violated | See below. |
| `edge_monitor` | `CountsItsWindow KeepsLatest` | Ring of 3, window of 3, counter modulo 6, a sample every tick or every second one, pulses due after 1 or 2 ticks: the ring and the counter wrap in the middle of a window, and a window may have one edge more than the ring holds. 65 000 states. |
| `edge_stub` | `EnergizedReadsActive`: violated | The code's proportions: a sample period of ten windows. |
| `provisioning` | `DeletesAccepted RecordedBundleWorks LeftoversWereCut` | 3 certificates: a double provisioning and a leftover. Any number of runs of the two scripts. 40 000 states. |
| `analysis` | `RunsExact CyclesAreRuns ClusterIsLargest HealthyDeltaIsQuiet ClosedDaysOnlySteepen BurstsRideOut LoudestShown OwnFaultOnly SpikesOnlyAtEdges DemoTellsItsStory WithdrawnOnlyByTrip` | Segments of 24 or 36 rows (each holds three and more cycles of every kind), 3 days for the sources that last weeks with a vibration reading every second row (six readings, enough for a baseline), all 14 days of the demo, recordings of 5 to 7 rows. What is drawn stays at an end of its range, or goes from one to the other window by window and reading by reading, in patterns that make readings alike, a few far above the rest, or far below. The thresholds on counts and on time are smaller than the code's in proportion, so that a recording reaches each from both sides. 193 000 states, somewhat more than three minutes. |
| `short_cycling` | `IsolatesRunLength`: violated | The instance of `analysis`; see below. |

What the passing runs show, beyond single assignments:

* `OneOwner` and `NoBadFree`: no interleaving of producers, drops and the writer
  leaks a burst buffer or frees it twice, although three sinks get the pointer.
* `TeeComplete`, `Drained`: what every sink has been given, plus what the writer
  still holds for it, plus the queue, is exactly what the queue accepted, and the
  queue is emptied again and again. `OverdueOnlyPublishing` says what is left of the
  flush period once an event may be published on the same task, and
  `BoundedWithoutEvents` that nothing else exceeds it.
* `FiledByDay`, `HandlesTogether`, `OnlyOpenFilesUnsynced`, `FlushedIsForever`: whatever
  days the records have and whatever happens to the card, a line is in the file of its
  day under one header, and flushed data survives. `LoadsUnlessCut` joins the two ends of
  the format: a card that was never pulled and never lost power loads, and every line on
  it comes back with its time. `RecoversUnlessPulled`: no other way of losing the card is
  for good.
* `NoStateOverstays` with `NoTimeoutFiresEarly` pin each timeout from both sides
  across the wrap; `BackoffLaw` and `AttemptsSpaced` bound the retry rate,
  `KeepsTrying` says that it either stays connected or starts one attempt after the other,
  whatever the network does, `Settles` that a network that answers is found.
* `EveryRecordInOneWindow`, `NothingClaimed`: a record is in one window, in the payload
  under way or done with, and no watermark runs ahead of what was published, power losses
  included; `BothReturn`, `WindowsLeave`: neither task blocks the other for ever, and no
  window is forgotten.
* `CountsItsWindow`: a reading counts the edges of its window, no more than the ring holds of
  them, across the wrap of the counter and of the ring; `KeepsLatest`: the ring is the history
  of the latest edges.
* `DeletesAccepted`, `RecordedBundleWorks`, `LeftoversWereCut`: any sequence of
  provisioning and deprovisioning runs, each cut anywhere.
* `RunsExact`, `CyclesAreRuns`: the loop of `_runs` finds exactly the maximal runs, and the
  report's edges, paired by number, are the same cycles. `ClusterIsLargest`: to start the
  sliding window at short runs only misses no cluster.
* `HealthyDeltaIsQuiet`, `BurstsRideOut`, `ClosedDaysOnlySteepen`, `SpikesOnlyAtEdges`,
  `WithdrawnOnlyByTrip`: what a healthy signal with dropouts, a short burst, a closed day, a
  window cut at an end or one more row can and cannot do to a verdict.
* `OwnFaultOnly`: each generator raises its own signature unless what it draws hides it, and
  no other but those `Tolerated`, window by window and reading by reading. `Masked` says when a
  fault may be missed: a later window with a much higher delta-T or a much lower current, or a
  knock that is not three times some other reading. `Tolerated` says what else may be raised:
  `knocking` where readings differ by the factor of a knock (not `Alike`) or where holds make up
  half of some rolling window (`HoldsPrevail`: at an end of a segment, among short runs, among
  readings a day apart); the missing TCC trip of the sources that last weeks; and a trend of
  currents drawn higher and higher. Each of these happens with numbers in the ranges of the
  program, TLC has a counterexample without it; so have the masks of the condenser and of the
  knock, while the one of the motor takes more than the three days of the instance.
  `DemoTellsItsStory`: the demo tells its story on the days it is meant to.
* `LoudestShown`: a damaged burst file neither stands in for nor hides a sound one.

Each of these properties has a mutant of the code under which its run fails
(`mutants` in `PROJECT.json`).

## Fairness

* `Pipeline!FairSpec`: weak fairness of the writer and of `Wait`. The writer has the
  highest priority, its receive times out after 200 ms and a publish after the socket
  timeout. Nothing is assumed of the producers.
* `SdSink!FairSpec`: `setup()` calls `begin()`, and a channel row is offered again and
  again (the 1 Hz task). Nothing is assumed of the card.
* `CloudLink!FairSpec`: time passes, the task polls, `connect()` returns (`TaskFairness`).
  `KeepsTrying` needs no more: it holds on a network that never answers. `Settles` carries its
  own assumption on the network, which is no part of the specification: of the attempts offered
  to it for ever it answers some (`NetworkFairness`, strong fairness of `WifiUp` while
  associating and of `ConnectSucceeds`), the link stops dropping and the certificates stay.
* `CloudPublish!FairSpec`: both tasks run, a blocking publish returns. Power may still
  be lost (`MaxCuts` times) and the link may still drop for ever; `WindowsLeave` is only
  about behaviours in which it finally stays up.

## Proofs

All theorems assume the named ASSUMEs of the modules only (`BackoffDoubles` says what else it
assumes), and hold for every value of the constants that satisfies them: bounds are natural
numbers, `NaN` is no number, a day and the queue's and the ring's periods are positive,
the rolling window is odd, a counter is wider than what it measures, `MaxLines` leaves room
for a header. What the generators and the detectors assume of each other, although they share
no constants, is stated in six assumptions of `Analysis` (`CyclingAssumption` to
`TrendsAssumption`): inequalities between ranges of lengths on one side and thresholds on the
other, which the program's numbers satisfy and TLC evaluates for those of `MCAnalysis.cfg`. Each
invariant is a conjunction of named parts; the step lemmas treat one action
each, or one group of actions that disturb the same part.

`PipelineProofs` (934 obligations), for every queue depth (0, a queue that could not be
created, included), every set of buffers, every period and any number of rows, captures and
presses:

* `TypeCorrect`: `Spec => []TypeOK`.
* `OwnershipHolds`, `FreesAreGood`: `Spec => []OneOwner`, `Spec => []NoBadFree`. Ownership is
  not inductive by itself: it does not say when the capture task holds a buffer, so the
  buffer that `VibBurst` hands over could be null or somebody else's. The invariant
  `IInv` adds `CaptureHolds` (a buffer is held exactly between allocation and the end of
  the pod's capture) and `BurstsHaveBuffers` (a burst record always carries a real buffer).
  The cases that matter are a lemma each: allocation, hand-over, receive, SD write;
  every other step moves no ownership.
* `TeeHolds`: `Spec => []TeeComplete`, an equation between sequences kept by appending to or
  moving an element across both sides; `TeeInv` adds that a blocking publish only ever
  happens in the cloud sink's turn.
* `TeeImplemented`: `Spec => TeesInTurn`, that is `Tee!Spec`: mapped to what the queue accepted
  and what each sink was given, every step is one of `FanOut` or a stutter. A send is a `Log`,
  a write to a sink a `Give`, and that it is this sink's turn is what `TeeComplete` says of
  the writer's place.
* `OverdueHolds`: `Spec => []OverdueOnlyPublishing`, and `ExposureHolds`: without the cloud,
  or before the first event, `Spec => []BoundedWithoutEvents`. `AgeInv` adds that the writer comes
  to its receive with less than a period on the clock, and that it only ever blocks in a publish
  of an event.

`EdgeMonitorProofs` (929 obligations), for every depth, window and counter width:

* `RingInRange`: index and count stay in range, and agree until the ring is full.
* `RingKeepsLatest`: `Spec => History!Spec`. The refinement mapping reads the ring from its
  oldest slot; the lemma `RecordRemembers` shows that one `recordEdge` is one `Remember`
  (an append, or a tail and an append), every other action a stutter.
* `CountsWindow`: `Spec => []CountsItsWindow`. `ReadInv` adds to the ring invariant that slots,
  stamps and true ages agree (`Clocked`): the stamp of an edge less than a turn old is its age
  behind the counter, and the latest edges of the window are those of the ring (`Mirrors`). Then
  a reading counts the slots whose edges are in the window, and besides them only such as are a
  whole turn old (`SampleCounts`).

`SdSinkProofs` (942 obligations), for any cards, days and numbers of removals and power losses:

* `TypeCorrect`, `OpenTogether` (`HandlesTogether`), `LinesFiled` (`FiledByDay`), `OpenFilesOnly`
  (`OnlyOpenFilesUnsynced`). They need each other: a header is written exactly when a file is
  new, so that it is on top depends on `GoodDisk` (an unmade file is empty, no file is synced
  beyond its end, each line is where it belongs); that what is unsynced is in an open file
  (`Settled`) depends on a live handle belonging to a file of the card in the slot
  (`LiveIsMade`) and on the three handles opening together.
* `FlushedStays`: `Spec => FlushedIsForever`, from the lemmas that every way to change a file
  keeps its flushed prefix.
* `LoadsBack`: `Spec => []LoadsUnlessCut`, for sink and loader together. Its invariant
  `Readable` says that on an unharmed card a daily file that was made begins with its header,
  so no file stops the loader and every other line is a row with a time; it needs `IInv` for
  which files `write()` may be appending to.

`CloudLinkProofs` (395 obligations), for every timeout, cap, poll gap and counter width that
satisfies the assumptions:

* `TypeCorrect`, `NothingHangs` (`NoStateOverstays`), `NothingIsCutShort`
  (`NoTimeoutFiresEarly`), `Spaced` (`AttemptsSpaced`). The heart is `Tracked`: in a timed
  state the wrapping difference the code computes is the true time since it entered,
  because that stays below the width of the counter, because a poll comes within a gap
  (`Polled`) and leaves the state. `Apart` relates it to the time since the last attempt.
* `BackoffDoubles`: `Spec => []BackoffLaw`, a step at a time: the backoff of one failure more
  is the doubled one or the cap. It assumes that the cap is even, as the code's 300 000 ms is:
  the code compares with half the cap, and with an odd one it would skip the last doubling.

`CloudPublishProofs` (424 obligations), for any number of records and power losses:

* `TypeCorrect`, `WindowsPartition` (`EveryRecordInOneWindow`), `ClaimsHold` (`NothingClaimed`).
  `Held` ties the place of each task in its procedure to the mutex it holds,
  `ReadBeforeReset` says that the window does not change between its copy and its reset
  (which is where the mutex is needed), `NotYetFolded` that the record in the writer's hand is
  newer than any window, `NothingDrafted` that no document ahead of what was published is on
  its way to the file.

`ProvisioningProofs` (736 obligations), for any certificates and number of runs:

* `TypeCorrect`, `DeletionsAccepted` (`DeletesAccepted`), `BundlesWork`
  (`RecordedBundleWorks`), `OnlyCutsLeave` (`LeftoversWereCut`). The invariant follows a
  certificate through the scripts: `Assembled` and `TakenApart` say how far the one in hand
  has come, `Listed` that what is attached is what the loop still has before it, `Minted`,
  `Bundled` and `Accounted` what became of all others.
* `OneLife`: `Spec => LivesOnce`, that is `Certificate!Spec`: the stage of a certificate, read off
  the
  registry and the history variables (`Stage`), only ever moves on by one, and the thing is only
  deleted when none is attached to it. `Staged` relates the place in the script to the stage
  of the certificate in hand.

`AnalysisProofs` (6367 obligations), for recordings of any length, any bound on them, and any
values of the thresholds on counts and on time. The invariant `IInv` says that the loop of
`_runs` is where it should be (`ScanInv`), that every row logged has values a row may have, at
times that never fall and advance by the gaps of its source (`Logs`), and that the mask the
loop goes over is the compressor column of those rows (`MaskIs`). From it:

* `ScanFindsRuns`: `Spec => []RunsExact`, by the loop invariant of `_runs`: what was found so far
  are the runs that end before the sample to visit (`FoundSoFar`), the open run is the part of
  one seen so far (`OpenSoFar`), and between them they cover every TRUE sample (`Covered`).
* `SameCycles` (`CyclesAreRuns`): the k-th rising and the k-th falling edge are the two ends of
  the k-th run (`EdgesAreRuns`), since both are sets of positions put in order and the runs
  are disjoint and in order.
* `LargestCluster` (`ClusterIsLargest`): a window that holds any short run can be moved up to
  the first one in it without losing one.
* `QuietWhenHealthy` (`HealthyDeltaIsQuiet`): the median lies between the least and the largest
  reading, so both medians that are compared stay in the healthy range, where 35 % less than
  12 C is below any of them; `RideOut` (`BurstsRideOut`): a window holds at least half the
  samples of a full one, so the fraction is bounded by the count of the whole recording.
* `Loudest` (`LoudestShown`): the loop over burst files keeps, per pod, the maximum of the
  readable ones before it.
* `ClosedDays` (`ClosedDaysOnlySteepen`): for each pair of days the distance by position is at
  most the one by calendar (`NthApart`), so a slope that is not negative is at least as large,
  and medians keep the order (`MedianMonotone`).
* `OnlyTripWithdraws` (`WithdrawnOnlyByTrip`): a row more leaves every run that has ended as it
  was, and the one going on grows (`UnsatisfiedStays`, `LongestGrows`).
* `NormalCycling` (`SpikesOnlyAtEdges`). `CyclingInv` says that the windows of a segment tile it
  in order, each as long as its range allows unless the end of the segment cuts it (`Tiling`),
  and that there is a reading for each row (`Readings`). A whole
  rolling window in which holds were the majority would have so many of them that the whole
  runs between fill more than half of it (`HoldsBrief`): with 15 readings, runs of 4 to 8 and
  holds of 1 to 3 minutes, (7 div 3) * 4 = 8 > 7, which is `CyclingAssumption`. So the baseline,
  a median, is at least some reading taken while running, whatever is drawn for each, and with
  readings that are `Alike` none is three times that.
* `DemoStory` (`DemoTellsItsStory`). `DemoInv` has the schedule (`Scheduling`: segments one after
  the other, runs and holds in turn, each as long as its day and hour allow) and the rows of the
  day read from it (`Told`). `StoryAssumption` compares the two scripts: a healthy run (4 minutes
  and more) is not short (90 s), no beater run lasts as long as the TCC detector waits, a day
  is fewer than the days of a trend, and four of the worst cycles fit into two hours and into
  the warm ones, even behind a healthy cycle that reaches into them.

`FaultProofs` (6666 obligations), of the segments the generators make:

* `FaultInductive`, `OwnFault` (`OwnFaultOnly`): for each of the eight sources, whatever is
  drawn for each of its windows, readings and blips, each of the seven detectors. `FaultInv` adds
  to the tiling that each window is as long as what was drawn for it (`Drawn`; a run cut by the
  end of the segment is the last), and that the deployment stays what the generator makes of
  windows and draws (`Kept`); that this is right is a fact about the generators (`MadeRight`). The
  lemmas `Made...` treat a detector and a source, or all sources that have nothing for it to
  find. The long ones: delta-T falls from row to row, and where a later window was drawn higher
  than an earlier one by no more than `DeltaSpread`, the medians of the first and of the last
  third are bounded by the row in the middle of each, and how far those are from the ends depends
  on the holds before and behind them (`RowsBefore`, `RowsAfter`, `MadeCondenser`); a rise per day
  that is the same for all samples of a day, and larger than what the draws of two days differ
  by, is a slope between the thresholds (`SlopeBounds`, `TrendBounds`, `MadeMotor`, `MadeSeal`);
  where no rolling window has half of its readings in holds, its median is at least some running
  reading, and no reading is three times that (`QuietReading`, `NoSpikes`, `MadeNoKnocking`); and
  the first readings of two runs that knock have no other knocking run in their windows, so
  that more than half of those are readings that do not knock, and both are spikes of one cluster
  (`LoudReading`, `LevelReached`, `KnockFound`, `MadeKnocking`). `CyclesAssumption`,
  `BlockageAssumption`, `KnocksAssumption` and `TrendsAssumption` say what that takes of the
  numbers.

`AnalysisProofs` begins with what its theorems need of naturals and finite sets. The library's
induction theorems take an operator as parameter, which no installed prover can instantiate;
`SetInduction`, proved from the least element of a set of naturals, takes the set of numbers
for which the claim holds instead, so that induction over the length of a sequence or the size
of a set is possible after all. The order of a set (`NthPlace`, `InOrder`), and from it the
existence, bounds and monotonicity of medians (`RankedExists`, `MedianBetween`,
`MedianMonotone`), rest on it.

Every invariant and every safety property that a passing run checks is stated by a theorem.
`TeesInTurn` and `LivesOnce` are theorems only; TLC found no counterexample to them on the
instances of `pipeline` and `provisioning`. Only model-checked:

* Liveness under fairness (`Drained`, `RecoversUnlessPulled`, `KeepsTrying`, `Settles`,
  `BothReturn`, `WindowsLeave`) and ENABLED, which are out of the prover's reach.

No module here uses RECURSIVE.

## Where code and documents disagree

Each but the last is a run that TLC finds violated.

* `flush_cloud`: `connectivity.md` says the storage writer "must never stall" and that only
  a quick accumulation runs on it. An event is published on it, by a blocking call, so the
  SD flush waits for the network.
* `sd_reinsert`: `sd_sink.h` says that `isReady()` is re-checked on each write, so that
  hot-inserting a card recovers automatically. A card that is pulled and inserted again
  within the day is not noticed: lines go to handles of the old mount until the day changes.
* `watermark_mirror`: `connectivity.md` says that every successful publish mirrors the
  watermark to the file. `saveWatermark()` builds its document before taking the mutex, so
  of two overlapping saves the older document may be written last.
* `edge_stub`: the stub's pulse periods are meant to "comfortably clear" the activity
  threshold, but its only caller ticks it once a second and it records one edge a tick, so no
  100 ms window ever holds two: every simulated input reads as off.
* `short_cycling`: `make_short_cycling` is said to isolate "the run-length signal from other
  failure signatures" (`synthetic.py:428-430`). Its holds are nearly as long as its runs (442),
  so a rolling window may hold more idle readings than running ones; its median is then the idle
  level, and `knocking` is raised as well.
* `CyclesAreRuns`, in `analysis`: `_compressor_cycles` is to find "each complete compressor
  on-run" (`report.py:240`, and 272 speaks of "complete compressor on-cycles"). It makes an edge
  of either end of the recording (247), so a run the recording cuts is a cycle like the others.
  The property says what the code does: the cycles are all runs, cut ones included.

## What the code does that no property forbids

The models contain these behaviours; no document excludes them.

* A trigger flag set between the capture task's read and clear is lost
  (`vibration_capture.cpp:148-151`).
* A full queue may drop a summary and accept the burst of the same capture.
* A card without `/vibration` that is inserted after boot takes no record until the next
  boot: only `begin()` makes the directory (`sd_sink.cpp:47`). `RecoversUnlessPulled` excludes
  it.
* After a power loss a daily file may exist and be empty, or hold rows under no header: the
  next boot sees a file that is there and writes none (`sd_sink.cpp:99`). The loader then
  raises on the empty file, and so on the whole deployment, although `architecture.md`
  (225-226) has daily rotation limit the damage to one day. `LoadsUnlessCut` is therefore
  conditional.
* The watermark file is truncated before it is written; a power loss in between makes the
  next boot start from zero (`cloud_sink.cpp:352`). `NothingClaimed` holds all the same.
* An edge that stays in the ring for a whole turn of `millis()` (49.7 days) is counted again
  (`digital_input.cpp:59-63`); the properties exclude it through `Aliased`.
* A provisioning run cut after minting leaves an active certificate no later run finds; one
  cut after `mkdir` leaves a directory that stops the next run until it is removed. A
  deprovisioning run cut between detaching and deleting leaves a certificate that the next
  run does not see. `LeftoversWereCut` says that nothing else does.
* Detectors. A gap in the recording joins the runs before and after it (`signatures.py:106`);
  one TCC sample anywhere in a long run exempts all of it (303). Days are numbered by position
  (738, 879), so a closed day steepens a slope: `ClosedDaysOnlySteepen` says in which
  direction. The drip window is a number of samples taken after the missing ones are dropped
  (866-868), so it may span any time. The knocking baseline is content with three
  readings (513), near the ends as in a short recording, although the docstring (490-493) says
  that fewer rows than the rolling window never trigger.
* Report. Its line for short cycles is at 60 s (`report.py:260`), the detector's limit at 90 s.
* Belt slip. The docstring (`signatures.py:581-584`) announces a check of the vibration; it only
  adds a note.
* Generators. The runs of the two sources that last weeks have too few rows for the TCC pulse
  (more than ten samples), so their "TCC satisfying normally" never happens, and a run that is
  long enough raises `tcc_never_satisfied` as well (`Tolerated`). Their vibration summaries are
  every 300th row, stamped as seconds (`synthetic.py:351-353`): readings a day apart, in runs and
  holds as it happens, among which `knocking` may take the idle level for the normal one. At the
  end of any segment, where the rolling window is cut, it may do the same in a healthy one
  (`HoldsPrevail`).
* Demo. The knock of day 9 is a single reading, which the knocking detector cannot see; "from
  day 6 onward" (`make_demo_deployment.py:16`) begins on day 7, the degradation of day 6 being 0.

## What is not modelled

* Values: sensor readings, RMS, kurtosis, crest factor, the minima and means of the
  aggregates; the text of records, topics and file names.
* Two tasks inside PubSubClient at once: the client is external, and what a garbled packet
  does is up to the broker; the model has the outcome the firmware sees, a failed publish.
* Torn reads of the 64-bit watermarks.
* Torn lines: a line is on the card as a whole or not at all. What `pd.read_csv` makes of half
  a line depends on where it was cut; `json.loads` raises on it (`loader.py:143`), and the
  deployment does not load. The condition of `LoadsUnlessCut` covers both.
* One vibration watermark for two pods, and the order in which their windows are published.
* Of the analysis: the sensors' own noise (what is drawn for windows, readings and blips is
  modelled), the channels no detector reads, explanations, units, plots and layout; the resampled
  timeline; the scripts that only call the rest.
  The normal draws of the demo's cycle lengths are two lengths each, near their centre.
* The delay of AWS's detach, which is asynchronous: `DetachThing` is immediate, since how long it
  takes is not in this code.
* Memory exhaustion other than of burst buffers.
* The backfill of unpublished data, which is described but not implemented.
* Boot, console, debounce, formats, leak probe, the minima and means of the aggregates: see the
  plan. Terraform, board generator, gallery, notebooks: declarative or one-shot, without
  behaviour to check.

## Plan

Done so far, in this order: `Pipeline` and its proofs, `SdSink`, `CloudLink`,
`CloudPublish`, `EdgeMonitor` over `EdgeHistory` with its proofs, `Provisioning`; then the
analysis (`Loader`, `Runs`, `RunScan`, `Signatures`, `Report`, `Synthetic`, `Demo`, `Analysis`)
and the
proofs of `SdSink`, `CloudLink`, `CloudPublish` and `Provisioning`; then `CountsItsWindow`,
`BackoffLaw`, `LoadsUnlessCut` and the first proofs of `Analysis`; then the abstract
`FanOut` and `CertLife`, and the proofs of what generators, demo and detectors make of each
other. Next:

1. `Console`: boot, `loadOrDefault`, the manifest, line assembly and the overlong line, `SETTIME`
   (months with fewer than 31 days), the civil date of a record checked against a reference
   calendar; with it `Debounce` (30 ms at a 20 ms poll, wrapping time).
2. `Aggregates`: minimum, maximum and mean of a window against their definition over its
   records, as folds.
3. Torn lines in `SdSink` and `Loader`, with the blast radius `architecture.md` promises as the
   property.
4. An abstract `Logger` (accepted records, flushed prefix) that `Pipeline` with `SdSink`
   implements.
