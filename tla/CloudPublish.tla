---------------------------- MODULE CloudPublish ----------------------------
(***************************************************************************)
(* What CloudSink does with records: the storage writer folds rows and     *)
(* vibration summaries into aggregation windows and publishes events       *)
(* itself, the cloud task publishes the windows; both advance the          *)
(* published-up-to watermarks and mirror them to a file on the card.       *)
(* aggMutex_ guards the windows, sdSpiMutex() the card; nothing guards the *)
(* watermarks or the MQTT client.  A critical section that only one task   *)
(* can be inside is one action, or two where its parts can be told apart.  *)
(* Power may fail at any moment.  The connection is module CloudLink's;    *)
(* here it is up or down.  config.cloud.enabled is TRUE throughout.        *)
(***************************************************************************)
EXTENDS Naturals

CONSTANTS
  CardMayFail, \* does SD.open() of the watermark file fail at times
  MaxRecords,  \* bound on the records written, and so on their timestamps
  MaxCuts      \* bound on power losses

ASSUME CardAssumption == CardMayFail \in BOOLEAN
ASSUME BoundAssumption == MaxRecords \in Nat /\ MaxCuts \in Nat

VARIABLES
  pc,         \* of the two tasks
  rec,        \* storage writer: the record in its hand
  todo,       \* cloud task: windows still to publish, the current one included
  snap,       \* cloud task: the window it took, or is taking
  doc,        \* saveWatermark()'s JSON document, one per task
  agg,        \* channelAgg_, vibAggBeater_, vibAggCompressor_
  wm,         \* watermarkChannelsMs_, watermarkVibrationMs_, watermarkEventsMs_
  aggMutex, sdMutex,
  connected,  \* state_ = State::Connected
  file,       \* /cloud_watermark.json; does it parse, and what does it say
  on,         \* is the unit running
  clock,      \* timestamp of the latest record
  added,      \* history: records folded into each window since power-on
  done,       \* history: records of windows published or dropped since then
  published,  \* history: latest timestamp a publish carried, per stream
  kept,       \* history: the document the last completed save wrote
  cuts

tasks == <<pc, rec, todo, snap, doc>>
mutexes == <<aggMutex, sdMutex>>
histories == <<added, done, published, kept>>
vars == <<tasks, mutexes, agg, wm, connected, file, on, clock, histories, cuts>>

Tasks == {"writer", "cloud"}
Windows == {"channels", "beater", "compressor"}
Streams == {"channels", "vibration", "events"}
StreamOf(w) == IF w = "channels" THEN "channels" ELSE "vibration"

Zero == [s \in Streams |-> 0]
Empty == [n |-> 0, last |-> 0]     \* count() and lastTsMs() after reset()
Unreadable == [parses |-> FALSE, says |-> Zero]
Start == [t \in Tasks |-> "idle"]

Init ==
  /\ pc = Start /\ rec = [kind |-> "channels", ts |-> 0]
  /\ todo = {} /\ snap = Empty /\ doc = [t \in Tasks |-> Zero]
  /\ agg = [w \in Windows |-> Empty] /\ wm = Zero
  /\ aggMutex = "free" /\ sdMutex = "free"
  /\ connected = FALSE /\ file = Unreadable /\ on = TRUE /\ clock = 0
  /\ added = [w \in Windows |-> 0] /\ done = [w \in Windows |-> 0]
  /\ published = Zero /\ kept = Zero /\ cuts = 0

Goto(t, l) == pc' = [pc EXCEPT ![t] = l]

\* The window the cloud task is at: maybePublish() takes the rows first.
Current == IF "channels" \in todo THEN "channels"
           ELSE IF "beater" \in todo THEN "beater" ELSE "compressor"

-----------------------------------------------------------------------------
(* saveWatermark(), by either task; Return(t) is where its caller goes on. *)

\* After one window the cloud task turns to the next, or ends its poll.
Return(t) ==
  IF t = "writer" THEN Goto(t, "idle") /\ UNCHANGED todo
  ELSE todo' = todo \ {Current} /\ Goto(t, IF todo' # {} THEN "window" ELSE "idle")

SaveReads(t) ==
  /\ pc[t] = "save" /\ Goto(t, "file")
  /\ doc' = [doc EXCEPT ![t] = wm]
  /\ UNCHANGED <<rec, todo, snap, mutexes, agg, wm, connected, file, on, clock, histories, cuts>>

\* Opening with FILE_WRITE truncates the file.
SaveOpens(t) ==
  /\ pc[t] = "file" /\ sdMutex = "free"
  /\ sdMutex' = t /\ Goto(t, "fill")
  /\ file' = Unreadable
  /\ UNCHANGED <<rec, todo, snap, doc, aggMutex, agg, wm, connected, on, clock, histories, cuts>>

\* Mutant of SaveOpenFails: the save is tried again until there is a card.
SaveOpenFailsRetries(t) ==
  /\ CardMayFail /\ pc[t] = "file" /\ sdMutex = "free"
  /\ Goto(t, "save")
  /\ UNCHANGED <<rec, todo, snap, doc, mutexes, agg, wm, connected, file, on, clock, histories, cuts>>

\* No card: the mutex is taken and given back around the failed open.
SaveOpenFails(t) ==
  /\ CardMayFail /\ pc[t] = "file" /\ sdMutex = "free"
  /\ Return(t)
  /\ UNCHANGED <<rec, snap, doc, mutexes, agg, wm, connected, file, on, clock, histories, cuts>>

SaveFills(t) ==
  /\ pc[t] = "fill" /\ Return(t)
  /\ file' = [parses |-> TRUE, says |-> doc[t]] /\ kept' = doc[t]
  /\ sdMutex' = "free"
  /\ UNCHANGED <<rec, snap, doc, aggMutex, agg, wm, connected, on, clock, added, done, published, cuts>>

Save(t) == SaveReads(t) \/ SaveOpens(t) \/ SaveOpenFails(t) \/ SaveFills(t)

\* Mutant of Acknowledge: the watermark moves whether or not it was accepted.
AcknowledgeAlways(t, s, ts, ok) ==
  /\ wm' = [wm EXCEPT ![s] = ts]
  /\ published' = IF ok THEN [published EXCEPT ![s] = IF @ < ts THEN ts ELSE @] ELSE published
  /\ IF ok THEN Goto(t, "save") /\ UNCHANGED todo ELSE Return(t)

\* The end of a blocking publish: accepted, it moves the watermark (outside
\* every mutex) and saves it; refused, the window or event is dropped.
Acknowledge(t, s, ts, ok) ==
  \/ /\ ok /\ Goto(t, "save")
     /\ wm' = [wm EXCEPT ![s] = ts]
     /\ published' = [published EXCEPT ![s] = IF @ < ts THEN ts ELSE @]
     /\ UNCHANGED todo
  \/ /\ ~ok /\ Return(t)
     /\ UNCHANGED <<wm, published>>

-----------------------------------------------------------------------------
(* Storage writer: SdStorageSink::write(), then CloudSink::write().        *)

Arrive(kind) ==
  /\ on /\ pc["writer"] = "idle" /\ sdMutex = "free" /\ clock < MaxRecords
  /\ clock' = clock + 1 /\ rec' = [kind |-> kind, ts |-> clock + 1]
  /\ sdMutex' = "writer" /\ Goto("writer", "card")
  /\ UNCHANGED <<todo, snap, doc, aggMutex, agg, wm, connected, file, on, histories, cuts>>

\* An event is published at once if the link is up, and else not at all.
CardWritten ==
  /\ pc["writer"] = "card" /\ sdMutex' = "free"
  /\ \/ rec.kind # "events" /\ Goto("writer", "fold")
     \/ rec.kind = "events" /\ connected /\ Goto("writer", "publish")
     \/ rec.kind = "events" /\ ~connected /\ Goto("writer", "idle")
  /\ UNCHANGED <<rec, todo, snap, doc, aggMutex, agg, wm, connected, file, on, clock, histories, cuts>>

AggIgnored == TRUE   \* mutant of AggFree: nobody waits for aggMutex_

AggFree == aggMutex = "free"

Fold ==
  /\ pc["writer"] = "fold" /\ AggFree
  /\ agg' = [agg EXCEPT ![rec.kind] = [n |-> @.n + 1, last |-> rec.ts]]
  /\ added' = [added EXCEPT ![rec.kind] = @ + 1]
  /\ Goto("writer", "idle")
  /\ UNCHANGED <<rec, todo, snap, doc, mutexes, wm, connected, file, on, clock, done, published, kept, cuts>>

PublishEvent(ok) ==
  /\ pc["writer"] = "publish"
  /\ Acknowledge("writer", "events", rec.ts, ok)
  /\ UNCHANGED <<rec, snap, doc, mutexes, agg, connected, file, on, clock, added, done, kept, cuts>>

-----------------------------------------------------------------------------
(* Cloud task: maybePublish(), once its interval has passed, and the two   *)
(* publish...Aggregate().                                                  *)

\* Mutant of PollPublishes: vibration windows only go out along with rows.
PollPublishesRowsFirst ==
  /\ pc["cloud"] = "idle" /\ connected /\ AggFree
  /\ todo' = {w \in Windows : agg[w].n > 0} /\ "channels" \in todo'
  /\ Goto("cloud", "window")
  /\ UNCHANGED <<rec, snap, doc, mutexes, agg, wm, connected, file, on, clock, histories, cuts>>

PollPublishes ==
  /\ pc["cloud"] = "idle" /\ connected /\ AggFree
  /\ todo' = {w \in Windows : agg[w].n > 0} /\ todo' # {}
  /\ Goto("cloud", "window")
  /\ UNCHANGED <<rec, snap, doc, mutexes, agg, wm, connected, file, on, clock, histories, cuts>>

\* toJson() and lastTsMs(), under aggMutex_ ...
WindowRead ==
  /\ pc["cloud"] = "window" /\ AggFree
  /\ aggMutex' = "cloud" /\ Goto("cloud", "reset")
  /\ snap' = agg[Current]
  /\ UNCHANGED <<rec, todo, doc, sdMutex, agg, wm, connected, file, on, clock, histories, cuts>>

\* ... and reset(), before it is given back.
WindowReset ==
  /\ pc["cloud"] = "reset" /\ aggMutex' = "free" /\ Goto("cloud", "publish")
  /\ agg' = [agg EXCEPT ![Current] = Empty]
  /\ UNCHANGED <<rec, todo, snap, doc, sdMutex, wm, connected, file, on, clock, histories, cuts>>

PublishWindow(ok) ==
  /\ pc["cloud"] = "publish"
  /\ Acknowledge("cloud", StreamOf(Current), snap.last, ok)
  /\ done' = [done EXCEPT ![Current] = @ + snap.n]
  /\ UNCHANGED <<rec, snap, doc, mutexes, agg, connected, file, on, clock, added, kept, cuts>>

\* state_ only changes in the cloud task's own poll().
LinkChanges ==
  /\ on /\ pc["cloud"] = "idle" /\ connected' = ~connected
  /\ UNCHANGED <<tasks, mutexes, agg, wm, file, on, clock, histories, cuts>>

-----------------------------------------------------------------------------
(* Power.                                                                  *)

\* Memory is lost; a file that was open for writing stays truncated.
PowerLoss ==
  /\ on /\ on' = FALSE /\ cuts < MaxCuts /\ cuts' = cuts + 1
  /\ pc' = Start /\ todo' = {} /\ snap' = Empty /\ doc' = [t \in Tasks |-> Zero]
  /\ agg' = [w \in Windows |-> Empty] /\ wm' = Zero
  /\ aggMutex' = "free" /\ sdMutex' = "free" /\ connected' = FALSE
  /\ added' = [w \in Windows |-> 0] /\ done' = [w \in Windows |-> 0]
  /\ UNCHANGED <<rec, file, clock, published, kept>>

\* begin() with its loadWatermark(): an absent or torn file reads as zeros.
PowerOn ==
  /\ ~on /\ on' = TRUE
  /\ \/ file.parses /\ wm' = file.says
     \/ (~file.parses \/ CardMayFail) /\ wm' = Zero
  /\ UNCHANGED <<tasks, mutexes, agg, connected, file, clock, histories, cuts>>

-----------------------------------------------------------------------------
WriterWorks == CardWritten \/ Fold \/ (\E ok \in BOOLEAN : PublishEvent(ok)) \/ Save("writer")
CloudWorks == \/ WindowRead \/ WindowReset \/ (\E ok \in BOOLEAN : PublishWindow(ok))
              \/ Save("cloud")

Next == \/ \E kind \in Windows \union {"events"} : Arrive(kind)
        \/ WriterWorks \/ PollPublishes \/ CloudWorks \/ LinkChanges
        \/ PowerLoss \/ PowerOn

Spec == Init /\ [][Next]_vars

\* Both tasks run and a blocking publish returns (in a socket timeout).
FairSpec ==
  Spec /\ WF_vars(PollPublishes) /\ WF_vars(WriterWorks) /\ WF_vars(CloudWorks)

-----------------------------------------------------------------------------
(* Properties.                                                             *)

Labels == {"idle", "card", "fold", "window", "reset", "publish", "save", "file", "fill"}
Watermarks == [Streams -> 0..MaxRecords]
Aggregate == [n : 0..MaxRecords, last : 0..MaxRecords]
Counts == [Windows -> 0..MaxRecords]

TasksOK ==
  /\ pc \in [Tasks -> Labels]
  /\ pc["writer"] \notin {"window", "reset"} /\ pc["cloud"] \notin {"card", "fold"}
  /\ pc["cloud"] = "idle" <=> todo = {}
  /\ todo \subseteq Windows
  /\ rec \in [kind : Windows \union {"events"}, ts : 0..MaxRecords]

SharedOK ==
  /\ aggMutex \in {"free", "cloud"} /\ sdMutex \in {"free"} \union Tasks
  /\ connected \in BOOLEAN /\ on \in BOOLEAN

CountsOK ==
  /\ agg \in [Windows -> Aggregate] /\ snap \in Aggregate
  /\ clock \in 0..MaxRecords /\ cuts \in 0..MaxCuts
  /\ added \in Counts /\ done \in Counts

WatermarksOK ==
  /\ doc \in [Tasks -> Watermarks] /\ wm \in Watermarks
  /\ file \in [parses : BOOLEAN, says : Watermarks]
  /\ published \in Watermarks /\ kept \in Watermarks

\* The tasks, what they share, the counts of the windows and the watermarks
\* have their types.
TypeOK == TasksOK /\ SharedOK /\ CountsOK /\ WatermarksOK

\* The part of a window the cloud task took out and has not published.
InFlight(w) == IF pc["cloud"] = "publish" /\ Current = w THEN snap.n ELSE 0

\* Every record folded in is in exactly one window: the open one, the one
\* being published, or one published or dropped before.  None falls between
\* toJson() and reset(), and none is counted twice.
EveryRecordInOneWindow ==
  \A w \in Windows : added[w] = agg[w].n + InFlight(w) + done[w]

\* Neither the watermarks nor the file ever claim more than what a publish
\* carried, across refused publishes, torn files and restarts.
NothingClaimed ==
  \A s \in Streams : wm[s] <= published[s] /\ file.says[s] <= published[s]

\* connectivity.md: every successful publish updates the watermark and
\* mirrors it.  So when both tasks are done and every save could open the
\* file, the file says what the watermarks say.
MirroredWhenIdle ==
  on /\ pc = Start /\ file.parses => file.says = wm

\* No interleaving of the two tasks on the two mutexes blocks either of
\* them for ever.
BothReturn == \A t \in Tasks : pc[t] # "idle" ~> pc[t] = "idle"

\* A record folded in while the link stays up leaves in some window: the
\* cloud task never ends its rounds with a window that holds records.
WindowsLeave ==
  <>[](connected /\ on) =>
    \A w \in Windows : \A k \in 1..MaxRecords : added[w] >= k ~> done[w] >= k \/ added[w] < k

=============================================================================
