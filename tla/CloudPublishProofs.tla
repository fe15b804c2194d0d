------------------------- MODULE CloudPublishProofs -------------------------
(***************************************************************************)
(* Theorems about CloudPublish, for any number of records and power        *)
(* losses, and whether or not the card can fail.                           *)
(***************************************************************************)
EXTENDS CloudPublish, TLAPS

\* A mutex is held exactly between the steps that take it and give it back.
Held ==
  /\ aggMutex = "cloud" <=> pc["cloud"] = "reset"
  /\ sdMutex = "writer" <=> pc["writer"] \in {"card", "fill"}
  /\ sdMutex = "cloud" <=> pc["cloud"] = "fill"

\* A record in the writer's hand is not in any window yet.
NotYetFolded ==
  /\ \A w \in Windows : added[w] <= clock
  /\ pc["writer"] \in {"card", "fold"} => \A w \in Windows : added[w] < clock
  /\ pc["writer"] = "fold" => rec.kind \in Windows

\* What has been read of a window is what is about to be reset.
ReadBeforeReset == pc["cloud"] = "reset" => snap = agg[Current]

\* A document on its way to the file claims no more than the watermarks may.
NothingDrafted == \A t \in Tasks, s \in Streams : doc[t][s] <= published[s]

IInv == /\ TypeOK /\ Held /\ NotYetFolded /\ ReadBeforeReset /\ NothingDrafted
        /\ EveryRecordInOneWindow /\ NothingClaimed

-----------------------------------------------------------------------------

\* The window the cloud task is at is one of those it still has to publish.
LEMMA CurrentIsWindow == Current \in Windows
  BY DEF Current, Windows

LEMMA CurrentInTodo == TypeOK /\ todo # {} => Current \in todo
  BY DEF Current, TypeOK, TasksOK, Windows

LEMMA InitInv == Init => IInv
  <1> SUFFICES ASSUME Init PROVE IInv
    OBVIOUS
  <1> USE BoundAssumption DEF Init, Start, Zero, Empty, Unreadable, Tasks, Streams, Windows
  <1>1. TypeOK
    <2>1. TasksOK
      BY DEF TasksOK, Labels
    <2>2. SharedOK
      BY DEF SharedOK
    <2>3. CountsOK
      BY DEF CountsOK, Aggregate, Counts
    <2>4. WatermarksOK
      BY DEF WatermarksOK, Watermarks
    <2> QED BY <2>1, <2>2, <2>3, <2>4 DEF TypeOK
  <1>2. Held /\ NotYetFolded /\ ReadBeforeReset /\ NothingDrafted
    BY DEF Held, NotYetFolded, ReadBeforeReset, NothingDrafted
  <1>3. EveryRecordInOneWindow /\ NothingClaimed
    BY DEF EveryRecordInOneWindow, NothingClaimed, InFlight
  <1> QED BY <1>1, <1>2, <1>3 DEF IInv

\* Where a task goes on from a save, and from a publish.
LEMMA ReturnOK ==
  ASSUME TasksOK, NEW t \in Tasks, pc[t] \in {"publish", "file", "fill"}, Return(t), rec' = rec
  PROVE  TasksOK'
  <1> USE DEF TasksOK, Return, Goto, Tasks, Labels
  <1>1. (pc \in [Tasks -> Labels])' /\ (todo \subseteq Windows)'
    OBVIOUS
  <1>2. (pc["writer"] \notin {"window", "reset"} /\ pc["cloud"] \notin {"card", "fold"})'
    OBVIOUS
  <1>3. (pc["cloud"] = "idle" <=> todo = {})'
    OBVIOUS
  <1> QED BY <1>1, <1>2, <1>3

LEMMA AcknowledgeOK ==
  ASSUME TasksOK, NEW t \in Tasks, pc[t] = "publish", NEW s, NEW ts, NEW ok \in BOOLEAN,
         Acknowledge(t, s, ts, ok), rec' = rec
  PROVE  TasksOK'
  <1>1. CASE Return(t)
    BY <1>1, ReturnOK
  <1>2. CASE Goto(t, "save") /\ UNCHANGED todo
    BY <1>2 DEF TasksOK, Goto, Tasks, Labels
  <1> QED BY <1>1, <1>2 DEF Acknowledge

\* One step of either task, of the link or of the power.
LEMMA InvStep == IInv /\ [Next]_vars => IInv'
  <1> SUFFICES ASSUME IInv, [Next]_vars PROVE IInv'
    OBVIOUS
  <1> USE BoundAssumption, CurrentIsWindow, CurrentInTodo
        DEF IInv, TypeOK, TasksOK, SharedOK, CountsOK, WatermarksOK, Labels, Watermarks, Aggregate,
            Counts, tasks, mutexes, histories, Goto, Tasks, Streams, Windows
  <1>1. ASSUME NEW kind \in Windows \union {"events"}, Arrive(kind) PROVE IInv'
    <2>1. TasksOK'
      BY <1>1 DEF Arrive, Held
    <2>2. SharedOK'
      BY <1>1 DEF Arrive
    <2>3. CountsOK'
      BY <1>1 DEF Arrive, NotYetFolded, EveryRecordInOneWindow, InFlight, Held
    <2>4. WatermarksOK'
      BY <1>1 DEF Arrive
    <2>5. Held' /\ NotYetFolded' /\ ReadBeforeReset'
      BY <1>1 DEF Arrive, Held, NotYetFolded, ReadBeforeReset, Current
    <2>6. EveryRecordInOneWindow'
      BY <1>1 DEF Arrive, EveryRecordInOneWindow, InFlight, ReadBeforeReset, Held, Current
    <2>7. NothingDrafted' /\ NothingClaimed'
      BY <1>1 DEF Arrive, NothingDrafted, NothingClaimed
    <2> QED BY <2>1, <2>2, <2>3, <2>4, <2>5, <2>6, <2>7
  <1>2. CASE CardWritten
    <2>1. TasksOK'
      BY <1>2 DEF CardWritten, Held
    <2>2. SharedOK'
      BY <1>2 DEF CardWritten
    <2>3. CountsOK'
      BY <1>2 DEF CardWritten, NotYetFolded, EveryRecordInOneWindow, InFlight, Held
    <2>4. WatermarksOK'
      BY <1>2 DEF CardWritten
    <2>5. Held' /\ NotYetFolded' /\ ReadBeforeReset'
      BY <1>2 DEF CardWritten, Held, NotYetFolded, ReadBeforeReset, Current
    <2>6. EveryRecordInOneWindow'
      BY <1>2 DEF CardWritten, EveryRecordInOneWindow, InFlight, ReadBeforeReset, Held, Current
    <2>7. NothingDrafted' /\ NothingClaimed'
      BY <1>2 DEF CardWritten, NothingDrafted, NothingClaimed
    <2> QED BY <2>1, <2>2, <2>3, <2>4, <2>5, <2>6, <2>7
  <1>3. CASE Fold
    <2>1. TasksOK'
      BY <1>3 DEF Fold, AggFree, Held
    <2>2. SharedOK'
      BY <1>3 DEF Fold, AggFree
    <2>3. CountsOK'
      BY <1>3 DEF Fold, AggFree, NotYetFolded, EveryRecordInOneWindow, InFlight, Held
    <2>4. WatermarksOK'
      BY <1>3 DEF Fold, AggFree
    <2>5. Held' /\ NotYetFolded' /\ ReadBeforeReset'
      BY <1>3 DEF Fold, AggFree, Held, NotYetFolded, ReadBeforeReset, Current
    <2>6. EveryRecordInOneWindow'
      BY <1>3
        DEF Fold, AggFree, EveryRecordInOneWindow, InFlight, ReadBeforeReset, Held, Current
    <2>7. NothingDrafted' /\ NothingClaimed'
      BY <1>3 DEF Fold, AggFree, NothingDrafted, NothingClaimed
    <2> QED BY <2>1, <2>2, <2>3, <2>4, <2>5, <2>6, <2>7
  <1>4. ASSUME NEW ok \in BOOLEAN, PublishEvent(ok) PROVE IInv'
    <2>1. TasksOK'
      BY <1>4, AcknowledgeOK DEF PublishEvent
    <2>2. SharedOK'
      BY <1>4 DEF PublishEvent, Acknowledge, Return
    <2>3. CountsOK'
      BY <1>4
        DEF PublishEvent, Acknowledge, Return, NotYetFolded, EveryRecordInOneWindow, InFlight,
            Held
    <2>4. WatermarksOK'
      BY <1>4 DEF PublishEvent, Acknowledge, Return
    <2>5. Held' /\ NotYetFolded' /\ ReadBeforeReset'
      BY <1>4
        DEF PublishEvent, Acknowledge, Return, Held, NotYetFolded, ReadBeforeReset, Current
    <2>6. EveryRecordInOneWindow'
      BY <1>4
        DEF PublishEvent, Acknowledge, Return, EveryRecordInOneWindow, InFlight,
            ReadBeforeReset, Held, Current
    <2>7. NothingDrafted' /\ NothingClaimed'
      BY <1>4 DEF PublishEvent, Acknowledge, Return, NothingDrafted, NothingClaimed
    <2> QED BY <2>1, <2>2, <2>3, <2>4, <2>5, <2>6, <2>7
  <1>5. ASSUME NEW t \in Tasks, SaveReads(t) PROVE IInv'
    <2>1. TasksOK'
      BY <1>5 DEF SaveReads, Held
    <2>2. SharedOK'
      BY <1>5 DEF SaveReads
    <2>3. CountsOK'
      BY <1>5 DEF SaveReads, NotYetFolded, EveryRecordInOneWindow, InFlight, Held
    <2>4. WatermarksOK'
      BY <1>5 DEF SaveReads
    <2>5. Held' /\ NotYetFolded' /\ ReadBeforeReset'
      BY <1>5 DEF SaveReads, Held, NotYetFolded, ReadBeforeReset, Current
    <2>6. EveryRecordInOneWindow'
      BY <1>5 DEF SaveReads, EveryRecordInOneWindow, InFlight, ReadBeforeReset, Held, Current
    <2>7. NothingDrafted' /\ NothingClaimed'
      BY <1>5 DEF SaveReads, NothingDrafted, NothingClaimed
    <2> QED BY <2>1, <2>2, <2>3, <2>4, <2>5, <2>6, <2>7
  <1>6. ASSUME NEW t \in Tasks, SaveOpens(t) PROVE IInv'
    <2>1. TasksOK'
      BY <1>6 DEF SaveOpens, Unreadable, Zero, Held
    <2>2. SharedOK'
      BY <1>6 DEF SaveOpens, Unreadable, Zero
    <2>3. CountsOK'
      BY <1>6
        DEF SaveOpens, Unreadable, Zero, NotYetFolded, EveryRecordInOneWindow, InFlight, Held
    <2>4. WatermarksOK'
      BY <1>6 DEF SaveOpens, Unreadable, Zero
    <2>5. Held' /\ NotYetFolded' /\ ReadBeforeReset'
      BY <1>6 DEF SaveOpens, Unreadable, Zero, Held, NotYetFolded, ReadBeforeReset, Current
    <2>6. EveryRecordInOneWindow'
      BY <1>6
        DEF SaveOpens, Unreadable, Zero, EveryRecordInOneWindow, InFlight, ReadBeforeReset,
            Held, Current
    <2>7. NothingDrafted' /\ NothingClaimed'
      BY <1>6 DEF SaveOpens, Unreadable, Zero, NothingDrafted, NothingClaimed
    <2> QED BY <2>1, <2>2, <2>3, <2>4, <2>5, <2>6, <2>7
  <1>7. ASSUME NEW t \in Tasks, SaveOpenFails(t) PROVE IInv'
    <2>1. TasksOK'
      BY <1>7, ReturnOK DEF SaveOpenFails
    <2>2. SharedOK'
      BY <1>7 DEF SaveOpenFails, Return
    <2>3. CountsOK'
      BY <1>7 DEF SaveOpenFails, Return, NotYetFolded, EveryRecordInOneWindow, InFlight, Held
    <2>4. WatermarksOK'
      BY <1>7 DEF SaveOpenFails, Return
    <2>5. Held' /\ NotYetFolded' /\ ReadBeforeReset'
      BY <1>7 DEF SaveOpenFails, Return, Held, NotYetFolded, ReadBeforeReset, Current
    <2>6. EveryRecordInOneWindow'
      BY <1>7
        DEF SaveOpenFails, Return, EveryRecordInOneWindow, InFlight, ReadBeforeReset, Held,
            Current
    <2>7. NothingDrafted' /\ NothingClaimed'
      BY <1>7 DEF SaveOpenFails, Return, NothingDrafted, NothingClaimed
    <2> QED BY <2>1, <2>2, <2>3, <2>4, <2>5, <2>6, <2>7
  <1>8. ASSUME NEW t \in Tasks, SaveFills(t) PROVE IInv'
    <2>1. TasksOK'
      BY <1>8, ReturnOK DEF SaveFills
    <2>2. SharedOK'
      BY <1>8 DEF SaveFills, Return
    <2>3. CountsOK'
      BY <1>8 DEF SaveFills, Return, NotYetFolded, EveryRecordInOneWindow, InFlight, Held
    <2>4. WatermarksOK'
      BY <1>8 DEF SaveFills, Return
    <2>5. Held' /\ NotYetFolded' /\ ReadBeforeReset'
      BY <1>8 DEF SaveFills, Return, Held, NotYetFolded, ReadBeforeReset, Current
    <2>6. EveryRecordInOneWindow'
      BY <1>8
        DEF SaveFills, Return, EveryRecordInOneWindow, InFlight, ReadBeforeReset, Held, Current
    <2>7. NothingDrafted' /\ NothingClaimed'
      BY <1>8 DEF SaveFills, Return, NothingDrafted, NothingClaimed
    <2> QED BY <2>1, <2>2, <2>3, <2>4, <2>5, <2>6, <2>7
  <1>9. CASE PollPublishes
    <2>1. TasksOK'
      BY <1>9 DEF PollPublishes, AggFree, Held
    <2>2. SharedOK'
      BY <1>9 DEF PollPublishes, AggFree
    <2>3. CountsOK'
      BY <1>9 DEF PollPublishes, AggFree, NotYetFolded, EveryRecordInOneWindow, InFlight, Held
    <2>4. WatermarksOK'
      BY <1>9 DEF PollPublishes, AggFree
    <2>5. Held' /\ NotYetFolded' /\ ReadBeforeReset'
      BY <1>9 DEF PollPublishes, AggFree, Held, NotYetFolded, ReadBeforeReset, Current
    <2>6. EveryRecordInOneWindow'
      BY <1>9
        DEF PollPublishes, AggFree, EveryRecordInOneWindow, InFlight, ReadBeforeReset, Held,
            Current
    <2>7. NothingDrafted' /\ NothingClaimed'
      BY <1>9 DEF PollPublishes, AggFree, NothingDrafted, NothingClaimed
    <2> QED BY <2>1, <2>2, <2>3, <2>4, <2>5, <2>6, <2>7
  <1>10. CASE WindowRead
    <2>1. TasksOK'
      BY <1>10 DEF WindowRead, AggFree, Held
    <2>2. SharedOK'
      BY <1>10 DEF WindowRead, AggFree
    <2>3. CountsOK'
      BY <1>10 DEF WindowRead, AggFree, NotYetFolded, EveryRecordInOneWindow, InFlight, Held
    <2>4. WatermarksOK'
      BY <1>10 DEF WindowRead, AggFree
    <2>5. Held' /\ NotYetFolded' /\ ReadBeforeReset'
      BY <1>10 DEF WindowRead, AggFree, Held, NotYetFolded, ReadBeforeReset, Current
    <2>6. EveryRecordInOneWindow'
      BY <1>10
        DEF WindowRead, AggFree, EveryRecordInOneWindow, InFlight, ReadBeforeReset, Held,
            Current
    <2>7. NothingDrafted' /\ NothingClaimed'
      BY <1>10 DEF WindowRead, AggFree, NothingDrafted, NothingClaimed
    <2> QED BY <2>1, <2>2, <2>3, <2>4, <2>5, <2>6, <2>7
  <1>11. CASE WindowReset
    <2>1. TasksOK'
      BY <1>11 DEF WindowReset, Empty, Held
    <2>2. SharedOK'
      BY <1>11 DEF WindowReset, Empty
    <2>3. CountsOK'
      BY <1>11 DEF WindowReset, Empty, NotYetFolded, EveryRecordInOneWindow, InFlight, Held
    <2>4. WatermarksOK'
      BY <1>11 DEF WindowReset, Empty
    <2>5. Held' /\ NotYetFolded' /\ ReadBeforeReset'
      BY <1>11 DEF WindowReset, Empty, Held, NotYetFolded, ReadBeforeReset, Current
    <2>6. EveryRecordInOneWindow'
      BY <1>11
        DEF WindowReset, Empty, EveryRecordInOneWindow, InFlight, ReadBeforeReset, Held, Current
    <2>7. NothingDrafted' /\ NothingClaimed'
      BY <1>11 DEF WindowReset, Empty, NothingDrafted, NothingClaimed
    <2> QED BY <2>1, <2>2, <2>3, <2>4, <2>5, <2>6, <2>7
  <1>12. ASSUME NEW ok \in BOOLEAN, PublishWindow(ok) PROVE IInv'
    <2>1. TasksOK'
      BY <1>12, AcknowledgeOK DEF PublishWindow
    <2>2. SharedOK'
      BY <1>12 DEF PublishWindow, Acknowledge, Return, StreamOf
    <2>3. CountsOK'
      BY <1>12
        DEF PublishWindow, Acknowledge, Return, StreamOf, NotYetFolded,
            EveryRecordInOneWindow, InFlight, Held
    <2>4. WatermarksOK'
      BY <1>12 DEF PublishWindow, Acknowledge, Return, StreamOf
    <2>5. Held' /\ NotYetFolded' /\ ReadBeforeReset'
      BY <1>12
        DEF PublishWindow, Acknowledge, Return, StreamOf, Held, NotYetFolded, ReadBeforeReset,
            Current
    <2>6. EveryRecordInOneWindow'
      BY <1>12
        DEF PublishWindow, Acknowledge, Return, StreamOf, EveryRecordInOneWindow, InFlight,
            ReadBeforeReset, Held, Current
    <2>7. NothingDrafted' /\ NothingClaimed'
      BY <1>12 DEF PublishWindow, Acknowledge, Return, StreamOf, NothingDrafted, NothingClaimed
    <2> QED BY <2>1, <2>2, <2>3, <2>4, <2>5, <2>6, <2>7
  <1>13. CASE LinkChanges
    <2>1. TasksOK'
      BY <1>13 DEF LinkChanges, Held
    <2>2. SharedOK'
      BY <1>13 DEF LinkChanges
    <2>3. CountsOK'
      BY <1>13 DEF LinkChanges, NotYetFolded, EveryRecordInOneWindow, InFlight, Held
    <2>4. WatermarksOK'
      BY <1>13 DEF LinkChanges
    <2>5. Held' /\ NotYetFolded' /\ ReadBeforeReset'
      BY <1>13 DEF LinkChanges, Held, NotYetFolded, ReadBeforeReset, Current
    <2>6. EveryRecordInOneWindow'
      BY <1>13 DEF LinkChanges, EveryRecordInOneWindow, InFlight, ReadBeforeReset, Held, Current
    <2>7. NothingDrafted' /\ NothingClaimed'
      BY <1>13 DEF LinkChanges, NothingDrafted, NothingClaimed
    <2> QED BY <2>1, <2>2, <2>3, <2>4, <2>5, <2>6, <2>7
  <1>14. CASE PowerLoss
    <2>1. TasksOK'
      BY <1>14 DEF PowerLoss, Start, Zero, Empty, Held
    <2>2. SharedOK'
      BY <1>14 DEF PowerLoss, Start, Zero, Empty
    <2>3. CountsOK'
      BY <1>14
        DEF PowerLoss, Start, Zero, Empty, NotYetFolded, EveryRecordInOneWindow, InFlight, Held
    <2>4. WatermarksOK'
      BY <1>14 DEF PowerLoss, Start, Zero, Empty
    <2>5. Held' /\ NotYetFolded' /\ ReadBeforeReset'
      BY <1>14 DEF PowerLoss, Start, Zero, Empty, Held, NotYetFolded, ReadBeforeReset, Current
    <2>6. EveryRecordInOneWindow'
      BY <1>14
        DEF PowerLoss, Start, Zero, Empty, EveryRecordInOneWindow, InFlight, ReadBeforeReset,
            Held, Current
    <2>7. NothingDrafted' /\ NothingClaimed'
      BY <1>14 DEF PowerLoss, Start, Zero, Empty, NothingDrafted, NothingClaimed
    <2> QED BY <2>1, <2>2, <2>3, <2>4, <2>5, <2>6, <2>7
  <1>15. CASE PowerOn
    <2>1. TasksOK'
      BY <1>15 DEF PowerOn, Zero, Held
    <2>2. SharedOK'
      BY <1>15 DEF PowerOn, Zero
    <2>3. CountsOK'
      BY <1>15 DEF PowerOn, Zero, NotYetFolded, EveryRecordInOneWindow, InFlight, Held
    <2>4. WatermarksOK'
      BY <1>15 DEF PowerOn, Zero
    <2>5. Held' /\ NotYetFolded' /\ ReadBeforeReset'
      BY <1>15 DEF PowerOn, Zero, Held, NotYetFolded, ReadBeforeReset, Current
    <2>6. EveryRecordInOneWindow'
      BY <1>15
        DEF PowerOn, Zero, EveryRecordInOneWindow, InFlight, ReadBeforeReset, Held, Current
    <2>7. NothingDrafted' /\ NothingClaimed'
      BY <1>15 DEF PowerOn, Zero, NothingDrafted, NothingClaimed
    <2> QED BY <2>1, <2>2, <2>3, <2>4, <2>5, <2>6, <2>7
  <1>16. CASE UNCHANGED vars
    <2>1. TasksOK'
      BY <1>16 DEF vars, Held
    <2>2. SharedOK'
      BY <1>16 DEF vars
    <2>3. CountsOK'
      BY <1>16 DEF vars, NotYetFolded, EveryRecordInOneWindow, InFlight, Held
    <2>4. WatermarksOK'
      BY <1>16 DEF vars
    <2>5. Held' /\ NotYetFolded' /\ ReadBeforeReset'
      BY <1>16 DEF vars, Held, NotYetFolded, ReadBeforeReset, Current
    <2>6. EveryRecordInOneWindow'
      BY <1>16 DEF vars, EveryRecordInOneWindow, InFlight, ReadBeforeReset, Held, Current
    <2>7. NothingDrafted' /\ NothingClaimed'
      BY <1>16 DEF vars, NothingDrafted, NothingClaimed
    <2> QED BY <2>1, <2>2, <2>3, <2>4, <2>5, <2>6, <2>7
  <1> QED
    BY <1>1, <1>2, <1>3, <1>4, <1>5, <1>6, <1>7, <1>8, <1>9, <1>10, <1>11, <1>12, <1>13,
       <1>14, <1>15, <1>16
    DEF Next, WriterWorks, CloudWorks, Save

LEMMA Invariance == Spec => []IInv
  BY InitInv, InvStep, PTL DEF Spec

\* The two tasks, their mutexes and their documents are in the states the code
\* is written for.
THEOREM TypeCorrect == Spec => []TypeOK
  BY Invariance, PTL DEF IInv

\* Every record folded in is in one window, in one publish on its way out, or
\* counted as gone, however the two tasks interleave.
THEOREM WindowsPartition == Spec => []EveryRecordInOneWindow
  BY Invariance, PTL DEF IInv

\* Watermarks and file never claim what no publish has carried, through failed
\* publishes, overlapping saves, torn files and restarts.
THEOREM ClaimsHold == Spec => []NothingClaimed
  BY Invariance, PTL DEF IInv

=============================================================================
