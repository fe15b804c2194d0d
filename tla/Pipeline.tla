------------------------------ MODULE Pipeline ------------------------------
(***************************************************************************)
(* The firmware's data path: three producer tasks (sampling, vibration     *)
(* capture, UI) put records on one bounded FreeRTOS queue, and the storage *)
(* writer, its only consumer, tees every record to the SD, cloud and BLE   *)
(* sinks in that order.  A raw vibration burst travels as a pointer: the   *)
(* capture task allocates the buffer, the queue carries it, the SD sink    *)
(* frees it.                                                               *)
(*                                                                         *)
(* Every task may be preempted between two steps (the tasks are unpinned   *)
(* on a dual-core part), so each access to shared state is an action of    *)
(* its own.  The SD sink is reduced to what the other tasks see of it (it  *)
(* consumes the record and releases a burst buffer on every path; module   *)
(* SdSink models its files), the cloud sink to whether the call enters the *)
(* network (modules CloudLink and CloudPublish model its inside).          *)
(***************************************************************************)
EXTENDS Naturals, Sequences

CONSTANTS
  QueueDepth,   \* depth of sampleQueue; 0 stands for a queue never created
  Buffers,      \* the burst buffers the heap has room for
  NoBuf,        \* the null pointer
  BurstEvery,   \* kBurstEveryNCaptures
  FlushPeriod,  \* kFlushPeriodMs, in receive timeouts (200 ms)
  CloudOn,      \* config.cloud.enabled
  MaxRows,      \* bound on sampling ticks
  MaxCaptures,  \* bound on capture cycles
  MaxEvents,    \* bound on button presses
  MaxAge        \* bound on the time since the last flush: "this or more"

ASSUME QueueAssumption == QueueDepth \in Nat
ASSUME BufferAssumption == NoBuf \notin Buffers
ASSUME PeriodAssumption == BurstEvery \in Nat \ {0} /\ FlushPeriod \in Nat \ {0}
ASSUME CloudAssumption == CloudOn \in BOOLEAN
ASSUME BoundAssumption == /\ MaxRows \in Nat /\ MaxCaptures \in Nat
                          /\ MaxEvents \in Nat /\ MaxAge \in Nat

VARIABLES
  queue,     \* ctx->sampleQueue
  heap,      \* burst buffers allocated and not yet freed
  badFree,   \* some free() was given a buffer that was not allocated
  spc, rows,                            \* sampling task
  trig,      \* ctx->vibTriggerBeater, ctx->vibTriggerCompressor
  vpc, vpod, vtrig, vbuf, captures,     \* vibration capture task
  events,    \* button presses so far
  wpc, wrec, wsink, waited, age,        \* storage writer task
  accepted,  \* history: the records the queue took, in order
  seen       \* history: the records each sink's write() was given, in order

sampling == <<spc, rows>>
vibration == <<vpc, vpod, vtrig, vbuf, captures>>
writer == <<wpc, wrec, wsink, waited, age, seen>>
channel == <<queue, accepted>>
memory == <<heap, badFree>>
vars == <<channel, memory, sampling, trig, vibration, events, writer>>

-----------------------------------------------------------------------------
(* Records and sinks.                                                      *)

Pods == {"beater", "compressor"}
Kinds == {"row", "summary", "burst", "event"}
Record == [kind : Kinds, pod : Pods \union {"none"}, n : Nat,
           buf : Buffers \union {NoBuf}]
Rec(kind, pod, n, buf) == [kind |-> kind, pod |-> pod, n |-> n, buf |-> buf]

Sd == 1
Cloud == 2
Ble == 3
Sinks == {Sd, Cloud, Ble}   \* ctx->sinks, in the order main.cpp fills it

Init ==
  /\ queue = <<>> /\ accepted = <<>>
  /\ heap = {} /\ badFree = FALSE
  /\ spc = "send" /\ rows = 0
  /\ trig = [p \in Pods |-> FALSE]
  /\ vpc = "read" /\ vpod = "beater" /\ vbuf = NoBuf /\ captures = 0
  /\ vtrig = [p \in Pods |-> FALSE]
  /\ events = 0
  /\ wpc = "receive" /\ wrec = Rec("row", "none", 0, NoBuf) /\ wsink = Sd
  /\ waited = FALSE /\ age = 0
  /\ seen = [s \in Sinks |-> <<>>]

Room == Len(queue) < QueueDepth

\* xQueueSend(ctx->sampleQueue, &rec, 0): never waits, the record is lost
\* when there is no room (or no queue).
Offer(rec) ==
  \/ /\ Room
     /\ queue' = Append(queue, rec)
     /\ accepted' = Append(accepted, rec)
  \/ /\ ~Room
     /\ UNCHANGED channel

\* free(b)
Free(b) ==
  /\ heap' = heap \ {b}
  /\ badFree' = (badFree \/ b \notin heap)

-----------------------------------------------------------------------------
(* Sampling scheduler: one row per tick, then the spike heuristic.         *)

SampleSend ==
  /\ spc = "send" /\ rows < MaxRows
  /\ Offer(Rec("row", "none", rows, NoBuf))
  /\ spc' = "spike" /\ rows' = rows + 1
  /\ UNCHANGED <<memory, trig, vibration, events, writer>>

\* The pods whose current jumped past the threshold since the last tick get
\* their trigger flag set; the flags are never cleared here.
SampleSpike(jumped) ==
  /\ spc = "spike" /\ spc' = "send"
  /\ trig' = [p \in Pods |-> trig[p] \/ p \in jumped]
  /\ UNCHANGED <<channel, memory, rows, vibration, events, writer>>

-----------------------------------------------------------------------------
(* Vibration capture: read the triggers, clear them, capture both pods.    *)

\* The beater's flag, then the compressor's; and after the last one, on to
\* this step.
BothPods(step) ==
  \/ vpod = "beater" /\ vpod' = "compressor" /\ UNCHANGED vpc
  \/ vpod = "compressor" /\ vpod' = "beater" /\ vpc' = step

VibRead ==
  /\ vpc = "read" /\ captures < MaxCaptures
  /\ vtrig' = [vtrig EXCEPT ![vpod] = trig[vpod]]
  /\ BothPods("clear")
  /\ UNCHANGED <<channel, memory, sampling, trig, vbuf, captures, events, writer>>

VibClear ==
  /\ vpc = "clear"
  /\ trig' = [trig EXCEPT ![vpod] = FALSE]
  /\ BothPods("alloc")
  /\ UNCHANGED <<channel, memory, sampling, vtrig, vbuf, captures, events, writer>>

\* The end of captureOnePod: on to the second pod, or to the next cycle.
NextPod ==
  \/ /\ vpod = "beater" /\ vpod' = "compressor"
     /\ vpc' = "alloc"
     /\ UNCHANGED captures
  \/ /\ vpod = "compressor" /\ vpod' = "beater"
     /\ vpc' = "read"
     /\ captures' = captures + 1

VibAlloc(b) ==
  /\ vpc = "alloc" /\ b \in Buffers \ heap
  /\ heap' = heap \union {b}
  /\ vbuf' = b
  /\ vpc' = "summary"
  /\ UNCHANGED <<channel, badFree, sampling, trig, vpod, vtrig, captures, events, writer>>

\* Neither PSRAM nor the heap has a block: the pod is skipped, no summary.
VibAllocFails ==
  /\ vpc = "alloc"
  /\ NextPod
  /\ UNCHANGED <<channel, memory, sampling, trig, vtrig, vbuf, events, writer>>

VibSummary ==
  /\ vpc = "summary" /\ vpc' = "burst"
  /\ Offer(Rec("summary", vpod, captures, NoBuf))
  /\ UNCHANGED <<memory, sampling, trig, vpod, vtrig, vbuf, captures, events, writer>>

SendsBurst == captures % BurstEvery = 0 \/ vtrig[vpod]

\* Mutant of HandOver: nobody frees a burst the queue had no room for.
HandOverLeaks(rec) ==
  \/ SendsBurst /\ Offer(rec) /\ UNCHANGED memory
  \/ ~SendsBurst /\ Free(rec.buf) /\ UNCHANGED channel

\* The raw burst hands its buffer over to the queue; when it is not sent, or
\* does not fit, the task still owns the buffer and frees it.
HandOver(rec) ==
  \/ SendsBurst /\ Room /\ Offer(rec) /\ UNCHANGED memory
  \/ SendsBurst /\ ~Room /\ Offer(rec) /\ Free(rec.buf)
  \/ ~SendsBurst /\ Free(rec.buf) /\ UNCHANGED channel

VibBurst ==
  /\ vpc = "burst"
  /\ HandOver(Rec("burst", vpod, captures, vbuf))
  /\ vbuf' = NoBuf
  /\ NextPod
  /\ UNCHANGED <<sampling, trig, vtrig, events, writer>>

-----------------------------------------------------------------------------
(* UI task: a confirmed press of the journal button.                       *)

UiPress ==
  /\ events < MaxEvents /\ events' = events + 1
  /\ Offer(Rec("event", "none", events, NoBuf))
  /\ UNCHANGED <<memory, sampling, trig, vibration, writer>>

-----------------------------------------------------------------------------
(* Storage writer.  Being the highest-priority task it is prompt: time     *)
(* passes only while it waits on the queue or inside the network.          *)

Handed(s) == seen' = [seen EXCEPT ![s] = Append(@, wrec)]

QueuedOffByOne == Len(queue) > 1   \* mutant of Queued

Queued == queue # <<>>

Receive ==
  /\ wpc = "receive" /\ Queued
  /\ wrec' = Head(queue) /\ queue' = Tail(queue)
  /\ wpc' = "write" /\ wsink' = Sd /\ waited' = FALSE
  /\ UNCHANGED <<accepted, memory, sampling, trig, vibration, events, age, seen>>

Older == IF age < MaxAge THEN age + 1 ELSE age

\* Time passes on an empty queue, at most until the receive times out.
Wait ==
  /\ wpc = "receive" /\ queue = <<>> /\ ~waited
  /\ waited' = TRUE /\ age' = Older
  /\ UNCHANGED <<channel, memory, sampling, trig, vibration, events, wpc, wrec, wsink, seen>>

ReceiveTimesOut ==
  /\ wpc = "receive" /\ queue = <<>> /\ waited
  /\ wpc' = "flush"
  /\ UNCHANGED <<channel, memory, sampling, trig, vibration, events,
                 wrec, wsink, waited, age, seen>>

\* Mutant of SdWrite: a failed write ends the loop over the sinks.
SdWriteShortCircuits ==
  /\ wpc = "write" /\ wsink = Sd
  /\ IF wrec.kind = "burst" THEN Free(wrec.buf) ELSE UNCHANGED memory
  /\ Handed(Sd) /\ wsink' = Cloud /\ wpc' \in {"write", "flush"}
  /\ UNCHANGED <<channel, sampling, trig, vibration, events, wrec, waited, age>>

\* SD, first: persisted or not, a burst's buffer is released.  rec keeps the
\* pointer, which dangles from here on.
SdWrite ==
  /\ wpc = "write" /\ wsink = Sd
  /\ IF wrec.kind = "burst" THEN Free(wrec.buf) ELSE UNCHANGED memory
  /\ Handed(Sd) /\ wsink' = Cloud
  /\ UNCHANGED <<channel, sampling, trig, vibration, events, wpc, wrec, waited, age>>

\* Mutant of CloudWrite: the cloud sink releases the burst as well.
CloudWriteFrees ==
  /\ wpc = "write" /\ wsink = Cloud
  /\ IF wrec.kind = "burst" THEN Free(wrec.buf) ELSE UNCHANGED memory
  /\ Handed(Cloud) /\ wsink' = Ble
  /\ UNCHANGED <<channel, sampling, trig, vibration, events, wpc, wrec, waited, age>>

\* Cloud: rows and summaries are aggregated, bursts are refused, and an
\* event that finds the link up is published on this very task.
CloudWrite ==
  /\ wpc = "write" /\ wsink = Cloud
  /\ Handed(Cloud) /\ wsink' = Ble
  /\ UNCHANGED <<channel, memory, sampling, trig, vibration, events, wpc, wrec, waited, age>>

CloudPublish ==
  /\ wpc = "write" /\ wsink = Cloud
  /\ CloudOn /\ wrec.kind = "event"
  /\ wpc' = "publish"
  /\ UNCHANGED <<channel, memory, sampling, trig, vibration, events, wrec, wsink,
                 waited, age, seen>>

PublishWaits ==
  /\ wpc = "publish"
  /\ age' = Older
  /\ UNCHANGED <<channel, memory, sampling, trig, vibration, events, wpc, wrec, wsink,
                 waited, seen>>

PublishReturns ==
  /\ wpc = "publish" /\ wpc' = "write"
  /\ Handed(Cloud) /\ wsink' = Ble
  /\ UNCHANGED <<channel, memory, sampling, trig, vibration, events, wrec, waited, age>>

NextStepOnlyReceives == "receive"   \* mutant of NextStep: flush on timeouts only

\* After the last sink the iteration goes on to the flush check.
NextStep == "flush"

\* BLE, last: a stub that refuses everything.
BleWrite ==
  /\ wpc = "write" /\ wsink = Ble
  /\ Handed(Ble) /\ wpc' = NextStep
  /\ UNCHANGED <<channel, memory, sampling, trig, vibration, events, wrec, wsink, waited, age>>

\* The end of every iteration: flush all sinks when the period has passed.
FlushIfDue ==
  /\ wpc = "flush" /\ wpc' = "receive"
  /\ age' = IF age >= FlushPeriod THEN 0 ELSE age
  /\ waited' = FALSE
  /\ UNCHANGED <<channel, memory, sampling, trig, vibration, events, wrec, wsink, seen>>

-----------------------------------------------------------------------------
Sampling == SampleSend \/ \E jumped \in SUBSET Pods : SampleSpike(jumped)
Vibration == \/ VibRead \/ VibClear \/ VibAllocFails \/ VibSummary \/ VibBurst
             \/ \E b \in Buffers : VibAlloc(b)
Writer == \/ Receive \/ ReceiveTimesOut \/ FlushIfDue
          \/ SdWrite \/ CloudWrite \/ CloudPublish \/ PublishReturns \/ BleWrite
Time == Wait \/ PublishWaits

Next == Sampling \/ Vibration \/ UiPress \/ Writer \/ Time

Spec == Init /\ [][Next]_vars

\* The writer outranks every other task and every blocking call it makes is
\* bounded (the receive by 200 ms, a publish by the socket timeout), so it
\* always gets to its next step; nothing is assumed of the producers.
FairSpec == Spec /\ WF_vars(Writer) /\ WF_vars(Wait)

-----------------------------------------------------------------------------
(* Properties.                                                             *)

TypeOK ==
  /\ queue \in Seq(Record) /\ Len(queue) <= QueueDepth
  /\ accepted \in Seq(Record)
  /\ heap \in SUBSET Buffers /\ badFree \in BOOLEAN
  /\ spc \in {"send", "spike"} /\ rows \in Nat
  /\ trig \in [Pods -> BOOLEAN] /\ vtrig \in [Pods -> BOOLEAN]
  /\ vpc \in {"read", "clear", "alloc", "summary", "burst"}
  /\ vpod \in Pods /\ vbuf \in Buffers \union {NoBuf} /\ captures \in Nat
  /\ events \in Nat
  /\ wpc \in {"receive", "write", "publish", "flush"}
  /\ wrec \in Record /\ wsink \in Sinks
  /\ waited \in BOOLEAN /\ age \in Nat
  /\ seen \in [Sinks -> Seq(Record)]

\* The writer still owes the buffer of the record in its hand a free().
WriterOwns(b) == wpc = "write" /\ wsink = Sd /\ wrec.kind = "burst" /\ wrec.buf = b

QueueOwns(i, b) == queue[i].kind = "burst" /\ queue[i].buf = b

Owned(b) == \/ vbuf = b \/ WriterOwns(b)
            \/ \E i \in 1..Len(queue) : QueueOwns(i, b)

NoLeak == \A b \in heap : Owned(b)

OwnersAllocated == \A b \in Buffers : Owned(b) => b \in heap

OwnersDistinct ==
  \A b \in Buffers :
    /\ ~(vbuf = b /\ WriterOwns(b))
    /\ \A i \in 1..Len(queue) : QueueOwns(i, b) =>
         /\ vbuf # b /\ ~WriterOwns(b)
         /\ \A j \in 1..Len(queue) : QueueOwns(j, b) => i = j

\* The ownership contract of record_types.h: an allocated burst buffer has
\* exactly one owner (capture task, one queued record, or the writer before
\* the SD sink has run), so it is neither leaked nor freed twice, and nobody
\* owns a buffer that is not allocated, whatever the queue drops.
OneOwner == NoLeak /\ OwnersAllocated /\ OwnersDistinct

\* No free() ever hits a buffer that is not allocated, although the writer's
\* copy of the record still carries the pointer to the cloud and BLE sinks
\* after the SD sink has freed it.
NoBadFree == ~badFree

\* What sink s has still to be given of the record in the writer's hand.
InHand(s) == IF wpc \in {"write", "publish"} /\ wsink <= s THEN <<wrec>> ELSE <<>>

\* Every sink is given every record the queue accepted, once and in order,
\* whatever the sinks before it answered: what it has seen, the record in
\* the writer's hand and the queue make up the accepted records.
TeeComplete ==
  \A s \in Sinks : accepted = seen[s] \o InHand(s) \o queue

Tee == INSTANCE FanOut WITH log <- accepted

\* The queue, the writer and its loop over the sinks are the multi-sink tee:
\* no sink is given a record before the sinks ahead of it have it, nor the
\* next one before all have this one, and none is skipped or given twice.
TeesInTurn == Tee!Spec

\* Data exposed to a power loss is never older than the flush period.
\* (connectivity.md promises as much when the cloud is enabled too.)
ExposureBounded == age <= FlushPeriod

\* With the cloud disabled, or as long as nobody has pressed the button, the
\* writer gets to the flush check within one receive timeout, although it
\* only looks between two records and whatever the load of the queue.
BoundedWithoutEvents == ~CloudOn \/ events = 0 => age <= FlushPeriod

\* And once events come, data is overdue only in an iteration of the writer
\* that publishes one, and the flush check that ends this very iteration is
\* not skipped.
OverdueOnlyPublishing ==
  age > FlushPeriod => wpc # "receive" /\ CloudOn /\ wrec.kind = "event"

\* No accepted record stays in the queue: always, sooner or later the writer
\* takes the next one or has taken them all and waits for more.
Drained == []<>(queue = <<>> /\ wpc = "receive") \/ []<><<Receive>>_vars

=============================================================================
