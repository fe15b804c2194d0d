--------------------------- MODULE PipelineProofs ---------------------------
(***************************************************************************)
(* What holds of Pipeline for every queue depth, heap size, burst period   *)
(* and bound: its type invariant, the ownership of burst buffers, and that *)
(* every sink is given every accepted record once and in order.            *)
(***************************************************************************)
EXTENDS Pipeline, SequenceTheorems, TLAPS

\* The records a burst travels in carry a real buffer.
BurstsHaveBuffers ==
  /\ \A i \in 1..Len(queue) : queue[i].kind = "burst" => queue[i].buf \in Buffers
  /\ wrec.kind = "burst" => wrec.buf \in Buffers

\* The capture task holds a buffer exactly between its malloc and the end of
\* the pod's capture.
CaptureHolds == vbuf # NoBuf <=> vpc \in {"summary", "burst"}

\* The inductive invariant: ownership alone does not say when the capture
\* task owns a buffer, nor that a queued burst has one.
IInv == TypeOK /\ BurstsHaveBuffers /\ CaptureHolds /\ OneOwner /\ NoBadFree

-----------------------------------------------------------------------------
(* Type correctness.                                                       *)

LEMMA InitType == Init => TypeOK
  <1> SUFFICES ASSUME Init PROVE TypeOK
    OBVIOUS
  <1>1. /\ queue \in Seq(Record) /\ Len(queue) <= QueueDepth
        /\ accepted \in Seq(Record)
    BY QueueAssumption DEF Init
  <1>2. wrec \in Record
    BY DEF Init, Rec, Record, Kinds
  <1>3. seen \in [Sinks -> Seq(Record)] /\ wsink \in Sinks
    BY DEF Init, Sinks
  <1> QED
    BY <1>1, <1>2, <1>3 DEF Init, TypeOK, Pods

\* Sending a record leaves the queue well-typed and within its depth.
LEMMA OfferType ==
  ASSUME TypeOK, NEW r \in Record, Offer(r)
  PROVE  /\ queue' \in Seq(Record) /\ Len(queue') <= QueueDepth
         /\ accepted' \in Seq(Record)
  <1>1. CASE ~Room
    BY <1>1 DEF TypeOK, Offer, channel
  <1>2. CASE Room
    <2>1. queue' = Append(queue, r) /\ accepted' = Append(accepted, r)
      BY <1>2 DEF Offer
    <2>2. /\ Append(queue, r) \in Seq(Record) /\ Append(accepted, r) \in Seq(Record)
          /\ Len(Append(queue, r)) = Len(queue) + 1 /\ Len(queue) \in Nat
      BY DEF TypeOK
    <2>3. Len(queue) + 1 <= QueueDepth
      BY <1>2, <2>2, QueueAssumption DEF Room
    <2> QED
      BY <2>1, <2>2, <2>3
  <1> QED
    BY <1>1, <1>2

LEMMA RecType ==
  ASSUME NEW k \in Kinds, NEW p \in Pods \union {"none"}, NEW n \in Nat,
         NEW b \in Buffers \union {NoBuf}
  PROVE  Rec(k, p, n, b) \in Record
  BY DEF Rec, Record

\* So does a free() of the heap's bookkeeping.
LEMMA FreeType ==
  ASSUME TypeOK, NEW b, Free(b)
  PROVE  heap' \in SUBSET Buffers /\ badFree' \in BOOLEAN
  <1>1. heap' \in SUBSET Buffers
    BY DEF TypeOK, Free
  <1>2. badFree' \in BOOLEAN
    BY Zenon DEF Free
  <1> QED
    BY <1>1, <1>2

LEMMA SamplingType == TypeOK /\ Sampling => TypeOK'
  <1> SUFFICES ASSUME TypeOK, Sampling PROVE TypeOK'
    OBVIOUS
  <1>1. CASE SampleSend
    <2>1. Rec("row", "none", rows, NoBuf) \in Record
      BY RecType DEF TypeOK, Kinds
    <2> QED
      BY <1>1, <2>1, OfferType DEF TypeOK, SampleSend, memory, vibration, writer
  <1>2. ASSUME NEW jumped \in SUBSET Pods, SampleSpike(jumped) PROVE TypeOK'
    BY <1>2 DEF TypeOK, SampleSpike, channel, memory, vibration, writer
  <1> QED
    BY <1>1, <1>2 DEF Sampling

LEMMA VibrationType == TypeOK /\ Vibration => TypeOK'
  <1> SUFFICES ASSUME TypeOK, Vibration PROVE TypeOK'
    OBVIOUS
  <1> USE DEF channel, memory, sampling, writer
  <1>1. CASE VibRead
    BY <1>1 DEF TypeOK, VibRead, BothPods, Pods
  <1>2. CASE VibClear
    BY <1>2 DEF TypeOK, VibClear, BothPods, Pods
  <1>3. CASE VibAllocFails
    BY <1>3 DEF TypeOK, VibAllocFails, NextPod, Pods
  <1>4. ASSUME NEW b \in Buffers, VibAlloc(b) PROVE TypeOK'
    BY <1>4 DEF TypeOK, VibAlloc
  <1>5. CASE VibSummary
    <2>1. Rec("summary", vpod, captures, NoBuf) \in Record
      BY RecType DEF TypeOK, Kinds
    <2> QED
      BY <1>5, <2>1, OfferType DEF TypeOK, VibSummary
  <1>6. CASE VibBurst
    <2> DEFINE r == Rec("burst", vpod, captures, vbuf)
    <2>1. r \in Record /\ r.buf = vbuf
      BY RecType DEF TypeOK, Kinds, Rec
    <2> HIDE DEF r
    <2>2. /\ queue' \in Seq(Record) /\ Len(queue') <= QueueDepth
          /\ accepted' \in Seq(Record)
      BY <1>6, <2>1, OfferType DEF VibBurst, HandOver, TypeOK, r
    <2>3. heap' \in SUBSET Buffers /\ badFree' \in BOOLEAN
      BY <1>6, FreeType DEF VibBurst, HandOver, TypeOK
    <2> QED
      BY <1>6, <2>2, <2>3 DEF TypeOK, VibBurst, NextPod, Pods
  <1> QED
    BY <1>1, <1>2, <1>3, <1>4, <1>5, <1>6 DEF Vibration

LEMMA WriterType == TypeOK /\ Writer => TypeOK'
  <1> SUFFICES ASSUME TypeOK, Writer PROVE TypeOK'
    OBVIOUS
  <1> USE DEF channel, memory, sampling, vibration, Sinks, Sd, Cloud, Ble
  <1>1. CASE Receive
    <2>1. Head(queue) \in Record /\ Tail(queue) \in Seq(Record)
          /\ Len(Tail(queue)) <= QueueDepth
      BY <1>1, QueueAssumption DEF TypeOK, Receive, Queued
    <2> QED
      BY <1>1, <2>1 DEF TypeOK, Receive
  <1>2. CASE ReceiveTimesOut
    BY <1>2 DEF TypeOK, ReceiveTimesOut
  <1>3. CASE FlushIfDue
    BY <1>3 DEF TypeOK, FlushIfDue
  <1>4. CASE SdWrite
    <2>1. heap' \in SUBSET Buffers /\ badFree' \in BOOLEAN
      BY <1>4, FreeType DEF SdWrite, TypeOK
    <2> QED
      BY <1>4, <2>1 DEF TypeOK, SdWrite, Handed
  <1>5. CASE CloudWrite
    BY <1>5 DEF TypeOK, CloudWrite, Handed
  <1>6. CASE CloudPublish
    BY <1>6 DEF TypeOK, CloudPublish
  <1>7. CASE PublishReturns
    BY <1>7 DEF TypeOK, PublishReturns, Handed
  <1>8. CASE BleWrite
    BY <1>8 DEF TypeOK, BleWrite, Handed, NextStep
  <1> QED
    BY <1>1, <1>2, <1>3, <1>4, <1>5, <1>6, <1>7, <1>8 DEF Writer

LEMMA NextType == TypeOK /\ [Next]_vars => TypeOK'
  <1> SUFFICES ASSUME TypeOK, [Next]_vars PROVE TypeOK'
    OBVIOUS
  <1>1. CASE UiPress
    <2>1. Rec("event", "none", events, NoBuf) \in Record
      BY RecType DEF TypeOK, Kinds
    <2> QED
      BY <1>1, <2>1, OfferType
      DEF TypeOK, UiPress, memory, sampling, vibration, writer
  <1>2. CASE Time
    <2>1. age' \in Nat
      BY <1>2, BoundAssumption DEF TypeOK, Time, Wait, PublishWaits, Older
    <2> QED
      BY <1>2, <2>1
      DEF TypeOK, Time, Wait, PublishWaits, channel, memory, sampling, vibration
  <1>3. CASE UNCHANGED vars
    BY <1>3 DEF TypeOK, vars, channel, memory, sampling, vibration, writer
  <1> QED
    BY <1>1, <1>2, <1>3, SamplingType, VibrationType, WriterType DEF Next

\* Every variable keeps its type, and the queue never holds more than its
\* depth, whatever the tasks' interleaving.
THEOREM TypeCorrect == Spec => []TypeOK
  BY InitType, NextType, PTL DEF Spec

-----------------------------------------------------------------------------
(* Ownership of burst buffers.                                             *)

\* A step that moves no record, no buffer and no writer ownership.
LEMMA OwnersUntouched ==
  ASSUME IInv, TypeOK', UNCHANGED <<queue, heap, badFree, vbuf, wrec>>,
         \A b : WriterOwns(b)' <=> WriterOwns(b),
         vpc' \in {"summary", "burst"} <=> vpc \in {"summary", "burst"}
  PROVE  IInv'
  <1>1. BurstsHaveBuffers' /\ CaptureHolds' /\ NoBadFree'
    BY DEF IInv, BurstsHaveBuffers, CaptureHolds, NoBadFree
  <1>2. \A b : Owned(b)' <=> Owned(b)
    BY DEF Owned, QueueOwns
  <1>3. OneOwner'
    BY <1>2 DEF IInv, OneOwner, NoLeak, OwnersAllocated, OwnersDistinct, QueueOwns
  <1> QED
    BY <1>1, <1>3 DEF IInv

\* Sending a record that is no burst moves no ownership either.
LEMMA OfferNoBurst ==
  ASSUME IInv, TypeOK', NEW r \in Record, r.kind # "burst", Offer(r),
         UNCHANGED <<heap, badFree, vbuf, wpc, wsink, wrec>>,
         vpc' \in {"summary", "burst"} <=> vpc \in {"summary", "burst"}
  PROVE  IInv'
  <1>1. CASE ~Room
    BY <1>1, OwnersUntouched DEF Offer, channel, WriterOwns
  <1>2. CASE Room
    <2>1. queue' = Append(queue, r)
      BY <1>2 DEF Offer
    <2>2. /\ Len(queue) \in Nat /\ Len(queue') = Len(queue) + 1
          /\ \A i \in 1..Len(queue) : queue'[i] = queue[i]
          /\ queue'[Len(queue) + 1] = r
      BY <2>1 DEF IInv, TypeOK
    <2>3. \A i, b : i \in 1..Len(queue') /\ QueueOwns(i, b)'
                      <=> i \in 1..Len(queue) /\ QueueOwns(i, b)
      BY <2>2 DEF QueueOwns
    <2>4. \A b : WriterOwns(b)' <=> WriterOwns(b)
      BY DEF WriterOwns
    <2>5. \A b : Owned(b)' <=> Owned(b)
      BY <2>3, <2>4 DEF Owned
    <2>6. OneOwner'
      BY <2>3, <2>4, <2>5 DEF IInv, OneOwner, NoLeak, OwnersAllocated, OwnersDistinct
    <2>7. BurstsHaveBuffers' /\ CaptureHolds' /\ NoBadFree'
      BY <2>2 DEF IInv, BurstsHaveBuffers, CaptureHolds, NoBadFree
    <2> QED
      BY <2>6, <2>7 DEF IInv
  <1> QED
    BY <1>1, <1>2

LEMMA InitOwners == Init => IInv
  BY InitType, BufferAssumption
  DEF Init, IInv, BurstsHaveBuffers, CaptureHolds, OneOwner, NoLeak, OwnersAllocated,
      OwnersDistinct, Owned, WriterOwns, QueueOwns, NoBadFree, Rec

\* malloc returns a block nobody owned, to a task that held none.
LEMMA AllocOwners ==
  ASSUME IInv, TypeOK', NEW b \in Buffers, VibAlloc(b)
  PROVE  IInv'
  <1> USE DEF IInv
  <1>1. vbuf = NoBuf /\ b # NoBuf /\ b \notin heap
    BY BufferAssumption DEF CaptureHolds, VibAlloc
  <1>2. /\ UNCHANGED <<queue, badFree, wpc, wsink, wrec>>
        /\ heap' = heap \union {b} /\ vbuf' = b /\ vpc' = "summary"
    BY DEF VibAlloc, channel, writer
  <1>3. ~Owned(b)
    BY <1>1 DEF OneOwner, OwnersAllocated
  <1>4. \A c, i : (QueueOwns(i, c)' <=> QueueOwns(i, c)) /\ (WriterOwns(c)' <=> WriterOwns(c))
    BY <1>2 DEF QueueOwns, WriterOwns
  <1>5. \A c \in Buffers : Owned(c)' <=> (c = b \/ Owned(c))
    BY <1>1, <1>2, <1>4, BufferAssumption DEF Owned
  <1>6. NoLeak' /\ OwnersAllocated'
    BY <1>2, <1>5 DEF OneOwner, NoLeak, OwnersAllocated, TypeOK
  <1>7. OwnersDistinct'
    BY <1>1, <1>2, <1>3, <1>4 DEF OneOwner, OwnersDistinct, Owned
  <1>8. BurstsHaveBuffers' /\ CaptureHolds' /\ NoBadFree'
    BY <1>1, <1>2 DEF BurstsHaveBuffers, CaptureHolds, NoBadFree
  <1> QED
    BY <1>6, <1>7, <1>8 DEF OneOwner

\* The end of a capture: the buffer goes to the queue or back to the heap.
LEMMA BurstOwners ==
  ASSUME IInv, TypeOK', VibBurst
  PROVE  IInv'
  <1> USE DEF IInv
  <1> DEFINE r == Rec("burst", vpod, captures, vbuf)
  <1>1. r \in Record /\ r.kind = "burst" /\ r.buf = vbuf
    BY RecType DEF TypeOK, Rec, Kinds
  <1>2. vbuf # NoBuf /\ vbuf \in Buffers /\ vbuf \in heap
    BY DEF VibBurst, CaptureHolds, TypeOK, OneOwner, OwnersAllocated, Owned
  <1>3. /\ HandOver(r) /\ vbuf' = NoBuf /\ vpc' \in {"alloc", "read"}
        /\ UNCHANGED <<wpc, wsink, wrec>>
    BY DEF VibBurst, NextPod, writer
  <1> HIDE DEF r
  <1>4. CaptureHolds'
    BY <1>3 DEF CaptureHolds
  <1>5. \A c : WriterOwns(c)' <=> WriterOwns(c)
    BY <1>3 DEF WriterOwns
  <1>6. CASE UNCHANGED memory /\ Room /\ Offer(r)
    <2>1. queue' = Append(queue, r) /\ UNCHANGED <<heap, badFree>>
      BY <1>6 DEF Offer, memory
    <2>2. /\ Len(queue) \in Nat /\ Len(queue') = Len(queue) + 1
          /\ \A i \in 1..Len(queue) : queue'[i] = queue[i]
          /\ queue'[Len(queue) + 1] = r
      BY <1>1, <2>1 DEF TypeOK
    <2>3. \A i, c : i \in 1..Len(queue') /\ QueueOwns(i, c)'
                      <=> \/ i \in 1..Len(queue) /\ QueueOwns(i, c)
                          \/ i = Len(queue) + 1 /\ c = vbuf
      BY <1>1, <2>2 DEF QueueOwns
    <2>4. \A c \in Buffers : Owned(c)' <=> Owned(c)
      BY <1>3, <1>5, <2>2, <2>3, BufferAssumption DEF Owned
    <2>5. NoLeak' /\ OwnersAllocated'
      BY <2>1, <2>4 DEF OneOwner, NoLeak, OwnersAllocated, TypeOK
    <2>6. OwnersDistinct'
      BY <1>2, <1>3, <1>5, <2>2, <2>3, BufferAssumption DEF OneOwner, OwnersDistinct
    <2>7. BurstsHaveBuffers' /\ NoBadFree'
      BY <1>1, <1>2, <1>3, <2>1, <2>2 DEF BurstsHaveBuffers, NoBadFree
    <2> QED
      BY <1>4, <2>5, <2>6, <2>7 DEF OneOwner
  <1>7. CASE Free(vbuf) /\ UNCHANGED queue
    <2>1. heap' = heap \ {vbuf} /\ NoBadFree'
      BY <1>2, <1>7 DEF Free, NoBadFree
    <2>2. \A i, c : QueueOwns(i, c)' <=> QueueOwns(i, c)
      BY <1>7 DEF QueueOwns
    <2>3. \A c \in Buffers : Owned(c)' <=> (Owned(c) /\ c # vbuf)
      BY <1>2, <1>3, <1>5, <1>7, <2>2, BufferAssumption
      DEF Owned, OneOwner, OwnersDistinct
    <2>4. NoLeak' /\ OwnersAllocated'
      BY <2>1, <2>3 DEF OneOwner, NoLeak, OwnersAllocated, TypeOK
    <2>5. OwnersDistinct'
      BY <1>3, <1>5, <1>7, <2>2, BufferAssumption DEF OneOwner, OwnersDistinct
    <2>6. BurstsHaveBuffers'
      BY <1>3, <1>7 DEF BurstsHaveBuffers
    <2> QED
      BY <1>4, <2>1, <2>4, <2>5, <2>6 DEF OneOwner
  <1> QED
    BY <1>1, <1>3, <1>6, <1>7 DEF HandOver, Offer, channel

\* A burst leaves the queue into the writer's hand, which then owns it.
LEMMA ReceiveOwners ==
  ASSUME IInv, TypeOK', Receive
  PROVE  IInv'
  <1> USE DEF IInv
  <1>1. /\ queue # <<>> /\ wrec' = Head(queue) /\ queue' = Tail(queue)
        /\ wpc = "receive" /\ wpc' = "write" /\ wsink' = Sd
        /\ UNCHANGED <<heap, badFree, vbuf, vpc>>
    BY DEF Receive, Queued, memory, vibration
  <1>2. /\ Len(queue) \in Nat /\ Len(queue) > 0 /\ Len(queue') = Len(queue) - 1
        /\ \A i \in 1..Len(queue') : queue'[i] = queue[i + 1] /\ i + 1 \in 1..Len(queue)
        /\ wrec' = queue[1]
    BY <1>1 DEF TypeOK
  <1>3. \A c : ~WriterOwns(c) /\ (WriterOwns(c)' <=> QueueOwns(1, c))
    BY <1>1, <1>2 DEF WriterOwns, QueueOwns
  <1>4. \A c : \A i \in 1..Len(queue') : QueueOwns(i, c)' <=> QueueOwns(i + 1, c)
    BY <1>2 DEF QueueOwns
  <1>5. \A c : Owned(c)' <=> Owned(c)
    <2> TAKE c
    <2>1. Owned(c)' => Owned(c)
      BY <1>1, <1>2, <1>3, <1>4 DEF Owned
    <2>2. ASSUME NEW i \in 1..Len(queue), QueueOwns(i, c), i # 1
          PROVE  \E j \in 1..Len(queue') : QueueOwns(j, c)'
      <3>1. i - 1 \in 1..Len(queue') /\ (i - 1) + 1 = i
        BY <1>2, <2>2
      <3> QED
        BY <1>4, <2>2, <3>1
    <2>3. Owned(c) => Owned(c)'
      BY <1>1, <1>3, <2>2 DEF Owned
    <2> QED
      BY <2>1, <2>3
  <1>6. NoLeak' /\ OwnersAllocated'
    BY <1>1, <1>5 DEF OneOwner, NoLeak, OwnersAllocated
  <1>7. OwnersDistinct'
    <2>1. 1 \in 1..Len(queue)
      BY <1>2
    <2>2. ASSUME NEW c \in Buffers, vbuf' = c, WriterOwns(c)' PROVE FALSE
      BY <1>1, <1>3, <2>1, <2>2 DEF OneOwner, OwnersDistinct
    <2>3. ASSUME NEW c \in Buffers, NEW i \in 1..Len(queue'), QueueOwns(i, c)'
          PROVE  /\ vbuf' # c /\ ~WriterOwns(c)'
                 /\ \A j \in 1..Len(queue') : QueueOwns(j, c)' => i = j
      <3>1. i + 1 \in 1..Len(queue) /\ QueueOwns(i + 1, c) /\ i + 1 # 1
        BY <1>2, <1>4, <2>3
      <3>2. vbuf' # c /\ ~WriterOwns(c)'
        BY <1>1, <1>3, <2>1, <3>1 DEF OneOwner, OwnersDistinct
      <3>3. ASSUME NEW j \in 1..Len(queue'), QueueOwns(j, c)' PROVE i = j
        <4>1. j + 1 \in 1..Len(queue) /\ QueueOwns(j + 1, c)
          BY <1>2, <1>4, <3>3
        <4>2. i + 1 = j + 1
          BY <3>1, <4>1 DEF OneOwner, OwnersDistinct
        <4> QED
          BY <1>2, <4>2
      <3> QED
        BY <3>2, <3>3
    <2> QED
      BY <2>2, <2>3 DEF OwnersDistinct
  <1>8. BurstsHaveBuffers' /\ CaptureHolds' /\ NoBadFree'
    BY <1>1, <1>2 DEF BurstsHaveBuffers, CaptureHolds, NoBadFree
  <1> QED
    BY <1>6, <1>7, <1>8 DEF OneOwner

\* The SD sink frees what the writer owned; the dangling pointer owns nothing.
LEMMA SdWriteOwners ==
  ASSUME IInv, TypeOK', SdWrite
  PROVE  IInv'
  <1> USE DEF IInv
  <1>1. /\ wpc = "write" /\ wsink = Sd /\ wsink' = Cloud
        /\ UNCHANGED <<queue, vbuf, vpc, wpc, wrec>>
        /\ IF wrec.kind = "burst" THEN Free(wrec.buf) ELSE UNCHANGED memory
    BY DEF SdWrite, channel, vibration
  <1>2. \A c : ~WriterOwns(c)'
    BY <1>1 DEF WriterOwns, Sd, Cloud
  <1>3. \A i, c : QueueOwns(i, c)' <=> QueueOwns(i, c)
    BY <1>1 DEF QueueOwns
  <1>4. OwnersDistinct' /\ BurstsHaveBuffers' /\ CaptureHolds'
    BY <1>1, <1>2, <1>3
    DEF OneOwner, OwnersDistinct, BurstsHaveBuffers, CaptureHolds
  <1>5. CASE wrec.kind = "burst"
    <2>1. wrec.buf \in Buffers /\ WriterOwns(wrec.buf) /\ wrec.buf \in heap
      BY <1>1, <1>5
      DEF BurstsHaveBuffers, WriterOwns, OneOwner, OwnersAllocated, Owned
    <2>2. heap' = heap \ {wrec.buf} /\ NoBadFree'
      BY <1>1, <1>5, <2>1 DEF Free, NoBadFree
    <2>3. \A c \in Buffers : Owned(c)' <=> (Owned(c) /\ c # wrec.buf)
      BY <1>1, <1>2, <1>3, <2>1 DEF Owned, OneOwner, OwnersDistinct, WriterOwns
    <2> QED
      BY <1>4, <2>2, <2>3 DEF OneOwner, NoLeak, OwnersAllocated, TypeOK
  <1>6. CASE wrec.kind # "burst"
    <2>1. UNCHANGED <<heap, badFree>> /\ \A c : ~WriterOwns(c)
      BY <1>1, <1>6 DEF memory, WriterOwns
    <2>2. \A c : Owned(c)' <=> Owned(c)
      BY <1>1, <1>2, <1>3, <2>1 DEF Owned
    <2> QED
      BY <1>4, <2>1, <2>2 DEF OneOwner, NoLeak, OwnersAllocated, NoBadFree
  <1> QED
    BY <1>5, <1>6

LEMMA NextOwners == IInv /\ [Next]_vars => IInv'
  <1> SUFFICES ASSUME IInv, [Next]_vars PROVE IInv'
    OBVIOUS
  <1> USE DEF channel, memory, sampling, vibration, writer
  <1>0. TypeOK'
    BY NextType DEF IInv
  <1>1. CASE SampleSend
    BY <1>0, <1>1, RecType, OfferNoBurst DEF SampleSend, IInv, TypeOK, Kinds, Rec
  <1>2. ASSUME NEW jumped \in SUBSET Pods, SampleSpike(jumped) PROVE IInv'
    BY <1>0, <1>2, OwnersUntouched DEF SampleSpike, WriterOwns
  <1>3. CASE VibRead
    BY <1>0, <1>3, OwnersUntouched DEF VibRead, BothPods, WriterOwns
  <1>4. CASE VibClear
    BY <1>0, <1>4, OwnersUntouched DEF VibClear, BothPods, WriterOwns
  <1>5. CASE VibAllocFails
    BY <1>0, <1>5, OwnersUntouched DEF VibAllocFails, NextPod, WriterOwns
  <1>6. CASE VibSummary
    BY <1>0, <1>6, RecType, OfferNoBurst DEF VibSummary, IInv, TypeOK, Kinds, Rec
  <1>7. CASE UiPress
    BY <1>0, <1>7, RecType, OfferNoBurst DEF UiPress, IInv, TypeOK, Kinds, Rec
  <1>8. CASE Writer \/ Time
    <2>1. CASE Receive
      BY <1>0, <2>1, ReceiveOwners
    <2>2. CASE SdWrite
      BY <1>0, <2>2, SdWriteOwners
    <2>3. CASE ReceiveTimesOut \/ FlushIfDue \/ Wait \/ PublishWaits
      BY <1>0, <2>3, OwnersUntouched
      DEF ReceiveTimesOut, FlushIfDue, Wait, PublishWaits, WriterOwns
    <2>4. CASE CloudWrite \/ CloudPublish \/ PublishReturns \/ BleWrite
      BY <1>0, <2>4, OwnersUntouched
      DEF CloudWrite, CloudPublish, PublishReturns, BleWrite, Handed, WriterOwns,
          Sd, Cloud, Ble
    <2> QED
      BY <1>8, <2>1, <2>2, <2>3, <2>4 DEF Writer, Time
  <1>9. CASE UNCHANGED vars
    BY <1>0, <1>9, OwnersUntouched DEF vars, WriterOwns
  <1> QED
    BY <1>0, <1>1, <1>2, <1>3, <1>4, <1>5, <1>6, <1>7, <1>8, <1>9,
       AllocOwners, BurstOwners
    DEF Next, Sampling, Vibration

\* Ownership of burst buffers: never leaked, never owned twice, never owned
\* after being freed, for every queue depth and heap size.
THEOREM OwnershipHolds == Spec => []OneOwner
  <1>1. IInv => OneOwner
    BY DEF IInv
  <1> QED
    BY <1>1, InitOwners, NextOwners, PTL DEF Spec

\* No free() in the data path ever hits a buffer that is not allocated.
THEOREM FreesAreGood == Spec => []NoBadFree
  <1>1. IInv => NoBadFree
    BY DEF IInv
  <1> QED
    BY <1>1, InitOwners, NextOwners, PTL DEF Spec

-----------------------------------------------------------------------------
(* Every sink sees every accepted record.                                  *)

LEMMA HeadThenTail ==
  ASSUME NEW S, NEW q \in Seq(S), q # <<>>
  PROVE  <<Head(q)>> \o Tail(q) = q
  <1>1. /\ Head(q) \in S /\ Tail(q) \in Seq(S) /\ Len(Tail(q)) = Len(q) - 1
        /\ \A i \in 1..Len(Tail(q)) : Tail(q)[i] = q[i + 1]
        /\ Len(q) \in Nat \ {0} /\ Head(q) = q[1]
    BY HeadTailProperties, EmptySeq
  <1>2. /\ <<Head(q)>> \in Seq(S) /\ Len(<<Head(q)>>) = 1 /\ <<Head(q)>>[1] = Head(q)
    BY <1>1
  <1>3. /\ <<Head(q)>> \o Tail(q) \in Seq(S)
        /\ Len(<<Head(q)>> \o Tail(q)) = Len(q)
        /\ \A i \in 1..Len(q) : (<<Head(q)>> \o Tail(q))[i] =
              IF i <= 1 THEN <<Head(q)>>[i] ELSE Tail(q)[i - 1]
    BY <1>1, <1>2, ConcatProperties
  <1>4. \A i \in 1..Len(q) : (<<Head(q)>> \o Tail(q))[i] = q[i]
    <2> TAKE i \in 1..Len(q)
    <2>1. CASE i = 1
      BY <1>1, <1>2, <1>3, <2>1
    <2>2. CASE i # 1
      <3>1. i - 1 \in 1..Len(Tail(q)) /\ (i - 1) + 1 = i /\ ~(i <= 1)
        BY <1>1, <2>2
      <3> QED
        BY <1>1, <1>3, <3>1
    <2> QED
      BY <2>1, <2>2
  <1> QED
    BY <1>3, <1>4, SeqEqual

\* While the network holds the writer, the cloud sink's turn is not over.
TeeInv == TypeOK /\ TeeComplete /\ (wpc = "publish" => wsink = Cloud)

LEMMA InHandType ==
  ASSUME TypeOK, NEW s \in Sinks
  PROVE  seen[s] \in Seq(Record) /\ InHand(s) \in Seq(Record)
  BY EmptySeq DEF TypeOK, InHand

\* Sending appends to both sides of the equation.
LEMMA OfferTee ==
  ASSUME TeeInv, TypeOK', NEW r \in Record, Offer(r), UNCHANGED <<seen, wpc, wsink, wrec>>
  PROVE  TeeInv'
  <1>1. \A s \in Sinks : InHand(s)' = InHand(s)
    BY DEF InHand
  <1>2. CASE ~Room
    BY <1>1, <1>2 DEF TeeInv, TeeComplete, Offer, channel
  <1>3. CASE Room
    <2>1. queue' = Append(queue, r) /\ accepted' = Append(accepted, r)
      BY <1>3 DEF Offer
    <2>2. ASSUME NEW s \in Sinks
          PROVE  (seen[s] \o InHand(s)) \o queue' = accepted'
      <3> DEFINE before == seen[s] \o InHand(s)
      <3>1. before \in Seq(Record) /\ queue \in Seq(Record)
        BY InHandType, ConcatProperties DEF TeeInv, TypeOK
      <3>2. accepted = before \o queue
        BY DEF TeeInv, TeeComplete
      <3> HIDE DEF before
      <3>3. <<r>> \in Seq(Record) /\ before \o queue \in Seq(Record)
        BY <3>1, ConcatProperties
      <3>4. /\ Append(queue, r) = queue \o <<r>>
            /\ Append(before \o queue, r) = (before \o queue) \o <<r>>
        BY <3>1, <3>3, AppendIsConcat
      <3>5. before \o (queue \o <<r>>) = (before \o queue) \o <<r>>
        BY <3>1, <3>3, ConcatAssociative
      <3> QED
        BY <2>1, <3>2, <3>4, <3>5 DEF before
    <2> QED
      BY <1>1, <2>2 DEF TeeInv, TeeComplete
  <1> QED
    BY <1>2, <1>3

\* A step that hands no record to anybody.
LEMMA TeeUntouched ==
  ASSUME TeeInv, TypeOK', UNCHANGED <<channel, seen, wrec>>,
         \A s \in Sinks : InHand(s)' = InHand(s),
         wpc' = "publish" => wsink' = Cloud
  PROVE  TeeInv'
  BY DEF TeeInv, TeeComplete, channel

LEMMA ReceiveTee ==
  ASSUME TeeInv, TypeOK', Receive
  PROVE  TeeInv'
  <1>1. /\ queue \in Seq(Record) /\ queue # <<>> /\ UNCHANGED <<accepted, seen>>
        /\ queue' = Tail(queue) /\ wrec' = Head(queue)
        /\ wpc = "receive" /\ wpc' = "write" /\ wsink' = Sd
    BY DEF Receive, Queued, TeeInv, TypeOK
  <1>2. ASSUME NEW s \in Sinks
        PROVE  accepted' = (seen'[s] \o InHand(s)') \o queue'
    <2>1. InHand(s) = <<>> /\ InHand(s)' = <<Head(queue)>>
      BY <1>1 DEF InHand, Sinks, Sd, Cloud, Ble
    <2>2. seen[s] \in Seq(Record) /\ Head(queue) \in Record /\ Tail(queue) \in Seq(Record)
      BY <1>1, InHandType, HeadTailProperties DEF TeeInv
    <2>3. (seen[s] \o <<Head(queue)>>) \o Tail(queue)
            = seen[s] \o (<<Head(queue)>> \o Tail(queue))
      <3>1. <<Head(queue)>> \in Seq(Record)
        BY <2>2
      <3> QED
        BY <2>2, <3>1, ConcatAssociative
    <2>4. <<Head(queue)>> \o Tail(queue) = queue
      BY <1>1, HeadThenTail
    <2>5. accepted = (seen[s] \o <<>>) \o queue
      BY <2>1 DEF TeeInv, TeeComplete
    <2>6. seen[s] \o <<>> = seen[s]
      BY <2>2, ConcatEmptySeq
    <2> QED
      BY <1>1, <2>1, <2>3, <2>4, <2>5, <2>6
  <1> QED
    BY <1>1, <1>2 DEF TeeInv, TeeComplete

\* Handing the record to one sink moves it from the writer's hand to what
\* that sink has seen, and changes nothing for the others.
LEMMA HandedTee ==
  ASSUME TeeInv, TypeOK', NEW k \in Sinks, wsink = k, wpc \in {"write", "publish"},
         Handed(k), UNCHANGED <<channel, wrec>>,
         \A s \in Sinks : InHand(s)' = IF s = k THEN <<>> ELSE InHand(s),
         wpc' # "publish"
  PROVE  TeeInv'
  <1>1. ASSUME NEW s \in Sinks
        PROVE  seen'[s] \o InHand(s)' = seen[s] \o InHand(s)
    <2>1. CASE s # k
      BY <2>1 DEF Handed, TeeInv, TypeOK
    <2>2. CASE s = k
      <3>1. InHand(s) = <<wrec>> /\ InHand(s)' = <<>>
        BY <2>2 DEF InHand, Sinks, Sd, Cloud, Ble
      <3>2. /\ seen[s] \in Seq(Record) /\ wrec \in Record
            /\ seen'[s] = Append(seen[s], wrec) /\ seen'[s] \in Seq(Record)
        BY <2>2 DEF Handed, TeeInv, TypeOK
      <3>3. seen'[s] \o <<>> = seen'[s] /\ Append(seen[s], wrec) = seen[s] \o <<wrec>>
        BY <3>2, ConcatEmptySeq, AppendIsConcat
      <3> QED
        BY <3>1, <3>2, <3>3
    <2> QED
      BY <2>1, <2>2
  <1> QED
    BY <1>1 DEF TeeInv, TeeComplete, channel

LEMMA InitTee == Init => TeeInv
  <1> SUFFICES ASSUME Init PROVE TeeInv
    OBVIOUS
  <1>1. \A s \in Sinks : seen[s] = <<>> /\ InHand(s) = <<>>
    BY DEF Init, InHand
  <1>2. <<>> \o <<>> = <<>>
    BY EmptySeq, ConcatEmptySeq
  <1> QED
    BY <1>1, <1>2, InitType DEF Init, TeeInv, TeeComplete

LEMMA NextTee == TeeInv /\ [Next]_vars => TeeInv'
  <1> SUFFICES ASSUME TeeInv, [Next]_vars PROVE TeeInv'
    OBVIOUS
  <1>0. TypeOK'
    BY NextType DEF TeeInv
  <1>1. CASE SampleSend \/ VibSummary \/ UiPress
    BY <1>0, <1>1, RecType, OfferTee
    DEF SampleSend, VibSummary, UiPress, writer, TeeInv, TypeOK, Kinds
  <1>2. CASE VibBurst
    <2>1. Rec("burst", vpod, captures, vbuf) \in Record
      BY RecType DEF TeeInv, TypeOK, Kinds
    <2>2. CASE Offer(Rec("burst", vpod, captures, vbuf))
      BY <1>0, <1>2, <2>1, <2>2, OfferTee DEF VibBurst, writer
    <2>3. CASE UNCHANGED channel
      BY <1>0, <1>2, <2>3, TeeUntouched DEF VibBurst, writer, InHand, TeeInv
    <2> QED
      BY <1>2, <2>2, <2>3 DEF VibBurst, HandOver
  <1>3. CASE \/ \E jumped \in SUBSET Pods : SampleSpike(jumped)
             \/ VibRead \/ VibClear \/ VibAllocFails \/ \E b \in Buffers : VibAlloc(b)
    BY <1>0, <1>3, TeeUntouched
    DEF SampleSpike, VibRead, VibClear, VibAllocFails, VibAlloc, writer, InHand, TeeInv
  <1>4. CASE Receive
    BY <1>0, <1>4, ReceiveTee
  <1>5. CASE SdWrite
    BY <1>0, <1>5, HandedTee DEF SdWrite, InHand, Sinks, Sd, Cloud, Ble
  <1>6. CASE CloudWrite \/ PublishReturns
    BY <1>0, <1>6, HandedTee
    DEF CloudWrite, PublishReturns, InHand, Sinks, Sd, Cloud, Ble, TeeInv
  <1>7. CASE BleWrite
    BY <1>0, <1>7, HandedTee DEF BleWrite, NextStep, InHand, Sinks, Sd, Cloud, Ble
  <1>8. CASE ReceiveTimesOut \/ FlushIfDue \/ CloudPublish \/ Wait \/ PublishWaits
    BY <1>0, <1>8, TeeUntouched
    DEF ReceiveTimesOut, FlushIfDue, CloudPublish, Wait, PublishWaits, InHand, TeeInv
  <1>9. CASE UNCHANGED vars
    BY <1>0, <1>9, TeeUntouched DEF vars, writer, InHand, TeeInv
  <1> QED
    BY <1>1, <1>2, <1>3, <1>4, <1>5, <1>6, <1>7, <1>8, <1>9
    DEF Next, Sampling, Vibration, Writer, Time

\* Each sink is given each accepted record exactly once, in order, whatever
\* the other sinks do with it, for every queue depth.
THEOREM TeeHolds == Spec => []TeeComplete
  <1>1. TeeInv => TeeComplete
    BY DEF TeeInv
  <1> QED
    BY <1>1, InitTee, NextTee, PTL DEF Spec

\* How many records each sink was given, and which comes next.
LEMMA GivenSoFar ==
  ASSUME TeeInv, NEW s \in Sinks, wpc \in {"write", "publish"}, NEW k \in Sinks, wsink = k
  PROVE  /\ Len(seen[s]) = Len(accepted) - Len(queue) - IF s < k THEN 0 ELSE 1
         /\ Len(queue) \in Nat /\ Len(accepted) \in Nat
         /\ s >= k => Len(seen[s]) < Len(accepted) /\ accepted[Len(seen[s]) + 1] = wrec
  <1> DEFINE a == seen[s]
             h == InHand(s)
             q == queue
  <1>1. /\ accepted = (a \o h) \o q /\ wrec \in Record
        /\ a \in Seq(Record) /\ h \in Seq(Record) /\ q \in Seq(Record)
    BY InHandType DEF TeeInv, TypeOK, TeeComplete
  <1>2. h = IF s < k THEN <<>> ELSE <<wrec>>
    BY DEF InHand, Sinks, Sd, Cloud, Ble
  <1>3. Len(h) = IF s < k THEN 0 ELSE 1
    BY <1>2
  <1>4. h # <<>> => h[1] = wrec
    BY <1>2
  <1> HIDE DEF a, h, q
  <1>5. /\ a \o h \in Seq(Record) /\ Len(a \o h) = Len(a) + Len(h)
        /\ \A i \in 1..(Len(a) + Len(h)) :
             (a \o h)[i] = IF i <= Len(a) THEN a[i] ELSE h[i - Len(a)]
    BY <1>1, ConcatProperties
  <1>6. /\ Len(accepted) = Len(a \o h) + Len(q)
        /\ \A i \in 1..(Len(a \o h) + Len(q)) :
             accepted[i] = IF i <= Len(a \o h) THEN (a \o h)[i] ELSE q[i - Len(a \o h)]
    BY <1>1, <1>5, ConcatProperties
  <1>7. Len(a) \in Nat /\ Len(h) \in Nat /\ Len(q) \in Nat
    BY <1>1, LenProperties
  <1>8. Len(a) = Len(accepted) - Len(q) - IF s < k THEN 0 ELSE 1
    BY <1>3, <1>5, <1>6, <1>7
  <1>9. ASSUME s >= k PROVE Len(a) < Len(accepted) /\ accepted[Len(a) + 1] = wrec
    <2>1. Len(h) = 1 /\ h[1] = wrec
      BY <1>2, <1>9 DEF Sinks, Sd, Cloud, Ble
    <2> DEFINE i == Len(a) + 1
    <2>2. /\ i \in 1..(Len(a) + Len(h)) /\ ~(i <= Len(a)) /\ i - Len(a) = 1
          /\ i \in 1..(Len(a \o h) + Len(q)) /\ i <= Len(a \o h)
      BY <1>5, <1>7, <2>1
    <2> HIDE DEF i
    <2>3. accepted[i] = (a \o h)[i] /\ (a \o h)[i] = h[1]
      BY <1>5, <1>6, <2>2
    <2>4. Len(a) < Len(accepted)
      BY <1>5, <1>6, <1>7, <2>1
    <2> QED BY <2>1, <2>3, <2>4 DEF i
  <1>10. Len(accepted) \in Nat
    BY <1>5, <1>6, <1>7
  <1> QED BY <1>7, <1>8, <1>9, <1>10 DEF a, q

\* Handing the record over is giving it to the sink whose turn it is.
LEMMA HandedGives ==
  ASSUME TeeInv, NEW k \in Sinks, wsink = k, wpc \in {"write", "publish"},
         Handed(k), UNCHANGED accepted
  PROVE  Tee!Give(k)
  <1>1. \A t \in Sinks : Len(seen[t]) = IF t < k THEN Len(seen[k]) + 1 ELSE Len(seen[k])
    <2> SUFFICES ASSUME NEW t \in Sinks
                 PROVE  Len(seen[t]) = IF t < k THEN Len(seen[k]) + 1 ELSE Len(seen[k])
      OBVIOUS
    <2> DEFINE given == Len(accepted) - Len(queue)
    <2>1. Len(seen[t]) = given - IF t < k THEN 0 ELSE 1
      BY GivenSoFar
    <2>2. ~(k < k)
      BY DEF Sinks, Sd, Cloud, Ble
    <2>3. Len(seen[k]) = given - IF k < k THEN 0 ELSE 1
      BY GivenSoFar
    <2>4. given \in Int
      BY GivenSoFar
    <2> HIDE DEF given
    <2> QED BY <2>1, <2>2, <2>3, <2>4
  <1>2. Len(seen[k]) < Len(accepted) /\ accepted[Len(seen[k]) + 1] = wrec
    <2>1. k >= k
      BY DEF Sinks, Sd, Cloud, Ble
    <2> QED BY <2>1, GivenSoFar
  <1>3. seen \in [Sinks -> Seq(Record)]
    BY DEF TeeInv, TypeOK
  <1> QED BY <1>1, <1>2, <1>3 DEF Handed, Tee!Give, Tee!TurnOf

\* A record the queue takes is one more in the log.
LEMMA OfferLogs ==
  ASSUME TypeOK, NEW r, Offer(r), UNCHANGED seen
  PROVE  Tee!Log \/ UNCHANGED <<accepted, seen>>
  <1>1. CASE accepted' = Append(accepted, r)
    BY <1>1 DEF TypeOK, Tee!Log
  <1>2. CASE UNCHANGED channel
    BY <1>2 DEF channel
  <1> QED BY <1>1, <1>2 DEF Offer

\* Queue and writer implement the multi-sink tee, for every queue depth and
\* whatever the tasks do in between: each step of theirs logs a record, gives
\* the next one to the sink whose turn it is, or is none of the tee's.
THEOREM TeeImplemented == Spec => TeesInTurn
  <1>1. Init => Tee!Init
    BY DEF Init, Tee!Init
  <1>2. ASSUME TeeInv, [Next]_vars PROVE [Tee!Next]_<<accepted, seen>>
    <2> DEFINE Goal == Tee!Next \/ UNCHANGED <<accepted, seen>>
    <2>0. TypeOK
      BY <1>2 DEF TeeInv
    <2>1. CASE SampleSend \/ VibSummary \/ UiPress
      BY <2>0, <2>1, OfferLogs DEF SampleSend, VibSummary, UiPress, writer, Tee!Next
    <2>2. CASE VibBurst
      <3>1. UNCHANGED seen /\ HandOver(Rec("burst", vpod, captures, vbuf))
        BY <2>2 DEF VibBurst, writer
      <3>2. Offer(Rec("burst", vpod, captures, vbuf)) \/ UNCHANGED channel
        BY <3>1 DEF HandOver
      <3> QED BY <2>0, <3>1, <3>2, OfferLogs DEF Tee!Next, channel
    <2>3. CASE SdWrite
      <3>1. wsink = Sd /\ wpc = "write" /\ Handed(Sd) /\ UNCHANGED accepted /\ Sd \in Sinks
        BY <2>3 DEF SdWrite, channel, Sinks
      <3> QED BY <1>2, <3>1, HandedGives DEF Tee!Next
    <2>4. CASE CloudWrite
      <3>1. /\ wsink = Cloud /\ wpc = "write" /\ Handed(Cloud) /\ UNCHANGED accepted
            /\ Cloud \in Sinks
        BY <2>4 DEF CloudWrite, channel, Sinks
      <3> QED BY <1>2, <3>1, HandedGives DEF Tee!Next
    <2>5. CASE PublishReturns
      <3>1. /\ wsink = Cloud /\ wpc = "publish" /\ Handed(Cloud) /\ UNCHANGED accepted
            /\ Cloud \in Sinks
        BY <1>2, <2>5 DEF PublishReturns, channel, Sinks, TeeInv
      <3> QED BY <1>2, <3>1, HandedGives DEF Tee!Next
    <2>6. CASE BleWrite
      <3>1. wsink = Ble /\ wpc = "write" /\ Handed(Ble) /\ UNCHANGED accepted /\ Ble \in Sinks
        BY <2>6 DEF BleWrite, channel, Sinks
      <3> QED BY <1>2, <3>1, HandedGives DEF Tee!Next
    <2>7. CASE \/ \E jumped \in SUBSET Pods : SampleSpike(jumped)
               \/ VibRead \/ VibClear \/ VibAllocFails \/ \E b \in Buffers : VibAlloc(b)
      BY <2>7 DEF SampleSpike, VibRead, VibClear, VibAllocFails, VibAlloc, writer, channel
    <2>8. CASE Receive \/ ReceiveTimesOut \/ FlushIfDue \/ CloudPublish \/ Wait \/ PublishWaits
      BY <2>8 DEF Receive, ReceiveTimesOut, FlushIfDue, CloudPublish, Wait, PublishWaits, channel
    <2>9. CASE UNCHANGED vars
      BY <2>9 DEF vars, writer, channel
    <2> QED
      BY <1>2, <2>1, <2>2, <2>3, <2>4, <2>5, <2>6, <2>7, <2>8, <2>9
      DEF Next, Sampling, Vibration, Writer, Time
  <1> QED BY <1>1, <1>2, InitTee, NextTee, PTL DEF Spec, TeesInTurn, Tee!Spec

-----------------------------------------------------------------------------
(* How long data stays unflushed.                                          *)

\* The writer comes to its receive with less than a period on the clock, and
\* a receive waits once.
AgeInv ==
  /\ TypeOK
  /\ wpc = "receive" /\ ~waited => age < FlushPeriod
  /\ wpc = "publish" => CloudOn /\ wrec.kind = "event"
  /\ OverdueOnlyPublishing

LEMMA InitAge == Init => AgeInv
  <1> SUFFICES ASSUME Init PROVE AgeInv
    OBVIOUS
  <1>1. TypeOK
    BY InitType
  <1> QED BY <1>1, PeriodAssumption DEF Init, AgeInv, OverdueOnlyPublishing

LEMMA NextAge == AgeInv /\ [Next]_vars => AgeInv'
  <1> SUFFICES ASSUME AgeInv, [Next]_vars PROVE AgeInv'
    OBVIOUS
  <1>0. TypeOK'
    BY NextType DEF AgeInv
  <1>1. age \in Nat /\ FlushPeriod \in Nat \ {0} /\ MaxAge \in Nat
    BY PeriodAssumption, BoundAssumption DEF AgeInv, TypeOK
  <1>2. CASE UNCHANGED <<wpc, wrec, waited, age>>
    BY <1>0, <1>2 DEF AgeInv, OverdueOnlyPublishing
  <1>3. CASE Receive \/ ReceiveTimesOut
    BY <1>0, <1>1, <1>3 DEF AgeInv, OverdueOnlyPublishing, Receive, ReceiveTimesOut
  <1>4. CASE Time
    BY <1>0, <1>1, <1>4 DEF AgeInv, OverdueOnlyPublishing, Time, Wait, PublishWaits, Older
  <1>5. CASE CloudPublish \/ PublishReturns
    BY <1>0, <1>5 DEF AgeInv, OverdueOnlyPublishing, CloudPublish, PublishReturns
  <1>6. CASE BleWrite
    BY <1>0, <1>6 DEF AgeInv, OverdueOnlyPublishing, BleWrite, NextStep
  <1>7. CASE FlushIfDue
    BY <1>0, <1>1, <1>7 DEF AgeInv, OverdueOnlyPublishing, FlushIfDue
  <1>8. CASE SdWrite \/ CloudWrite
    BY <1>2, <1>8 DEF SdWrite, CloudWrite
  <1>9. CASE Sampling \/ Vibration \/ UiPress \/ UNCHANGED vars
    BY <1>2, <1>9
    DEF Sampling, SampleSend, SampleSpike, Vibration, VibRead, VibClear, VibAllocFails, VibSummary,
        VibBurst, VibAlloc, UiPress, writer, vars
  <1> QED
    BY <1>3, <1>4, <1>5, <1>6, <1>7, <1>8, <1>9 DEF Next, Writer

\* With the cloud enabled, data is overdue only while an event is published,
\* for every flush period and length of the publish.
THEOREM OverdueHolds == Spec => []OverdueOnlyPublishing
  <1>1. AgeInv => OverdueOnlyPublishing
    BY DEF AgeInv
  <1> QED
    BY <1>1, InitAge, NextAge, PTL DEF Spec

\* Before the first press nobody has an event.
EventInv ==
  events = 0 => wrec.kind # "event" /\ \A k \in 1..Len(queue) : queue[k].kind # "event"

LEMMA NextEvent == TypeOK /\ EventInv /\ [Next]_vars => EventInv'
  <1> SUFFICES ASSUME TypeOK, EventInv, [Next]_vars, events' = 0
               PROVE  /\ wrec'.kind # "event"
                      /\ \A k \in 1..Len(queue') : queue'[k].kind # "event"
    BY DEF EventInv
  <1>0. queue \in Seq(Record) /\ Len(queue) \in Nat /\ events \in Nat
    BY DEF TypeOK
  <1>1. ASSUME NEW rec, rec.kind # "event", Offer(rec), UNCHANGED <<events, wrec>>
        PROVE  /\ wrec'.kind # "event"
               /\ \A k \in 1..Len(queue') : queue'[k].kind # "event"
    <2>1. CASE queue' = Append(queue, rec)
      <3>1. /\ Len(queue') = Len(queue) + 1 /\ queue'[Len(queue) + 1] = rec
            /\ \A k \in 1..Len(queue) : queue'[k] = queue[k]
        BY <1>0, <2>1
      <3> QED BY <1>0, <1>1, <3>1 DEF EventInv
    <2>2. CASE UNCHANGED channel
      BY <1>1, <2>2 DEF EventInv, channel
    <2> QED BY <1>1, <2>1, <2>2 DEF Offer
  <1>2. CASE UNCHANGED <<events, wrec, queue>>
    BY <1>2 DEF EventInv
  <1>3. CASE SampleSend
    BY <1>1, <1>3 DEF SampleSend, Rec, writer
  <1>4. CASE VibSummary
    BY <1>1, <1>4 DEF VibSummary, Rec, writer
  <1>5. CASE VibBurst
    <2>1. UNCHANGED <<events, wrec>> /\ HandOver(Rec("burst", vpod, captures, vbuf))
      BY <1>5 DEF VibBurst, writer
    <2>2. Rec("burst", vpod, captures, vbuf).kind # "event"
      BY DEF Rec
    <2> QED BY <1>1, <1>2, <2>1, <2>2 DEF HandOver, channel
  <1>6. CASE UiPress
    BY <1>0, <1>6 DEF UiPress
  <1>7. CASE Receive
    <2>1. /\ queue # <<>> /\ wrec' = queue[1] /\ UNCHANGED events /\ queue' = Tail(queue)
      BY <1>7 DEF Receive, Queued
    <2>2. /\ 1 \in 1..Len(queue) /\ Len(queue') = Len(queue) - 1
          /\ \A k \in 1..Len(queue') : queue'[k] = queue[k + 1] /\ k + 1 \in 1..Len(queue)
      BY <1>0, <2>1
    <2> QED BY <2>1, <2>2 DEF EventInv
  <1>8. CASE \/ ReceiveTimesOut \/ FlushIfDue \/ SdWrite \/ CloudWrite \/ CloudPublish
             \/ PublishReturns \/ BleWrite \/ Wait \/ PublishWaits
    BY <1>2, <1>8
    DEF ReceiveTimesOut, FlushIfDue, SdWrite, CloudWrite, CloudPublish, PublishReturns, BleWrite,
        Wait, PublishWaits, channel
  <1>9. CASE \/ \E jumped \in SUBSET Pods : SampleSpike(jumped)
             \/ VibRead \/ VibClear \/ VibAllocFails \/ \E b \in Buffers : VibAlloc(b)
             \/ UNCHANGED vars
    BY <1>2, <1>9
    DEF SampleSpike, VibRead, VibClear, VibAllocFails, VibAlloc, writer, channel, vars
  <1> QED
    BY <1>3, <1>4, <1>5, <1>6, <1>7, <1>8, <1>9 DEF Next, Sampling, Vibration, Writer, Time

\* Without the cloud, or before the first event, no data is exposed for longer
\* than the flush period, for any queue depth and load.
THEOREM ExposureHolds == Spec => []BoundedWithoutEvents
  <1>1. Init => EventInv
    BY DEF Init, EventInv, Rec
  <1>2. AgeInv => TypeOK
    BY DEF AgeInv
  <1>3. AgeInv /\ EventInv => BoundedWithoutEvents
    BY PeriodAssumption
    DEF AgeInv, EventInv, OverdueOnlyPublishing, BoundedWithoutEvents, TypeOK
  <1> QED
    BY <1>1, <1>2, <1>3, NextEvent, InitAge, NextAge, PTL DEF Spec

=============================================================================
