------------------------------- MODULE SdSink -------------------------------
(***************************************************************************)
(* SdStorageSink: the microSD card as the source of truth.  One record at  *)
(* a time (only the storage writer calls it, under sdSpiMutex) is appended *)
(* to the three files of the record's UTC day; raw bursts go to a file of  *)
(* their own.  Around it the card is inserted and pulled and the power     *)
(* fails, at any moment between two calls.                                 *)
(*                                                                         *)
(* A file's text is a sequence of lines; its first "synced" lines are on   *)
(* the card, the rest is still buffered and dies with the power or with    *)
(* the card.  The SD library (external) is modelled by what this file uses *)
(* of it: an open handle does not survive the removal of its card, opening *)
(* by path works on whatever card is in the slot, and SD.begin() answers   *)
(* true without looking once it has mounted a card.                        *)
(***************************************************************************)
EXTENDS Integers, Sequences

CONSTANTS
  Cards,      \* the cards there are
  Prepared,   \* those of them that already have a /vibration directory
  NoCard,     \* an empty slot
  Days,       \* UTC days; the sink only compares them for equality
  NoDay,      \* currentYmd_ = -1
  MaxLines,   \* bound on the lines of a file
  MaxFaults,  \* bound on removals of the card and refusals of a full one
  MaxCuts     \* bound on power losses

ASSUME CardAssumption == Prepared \subseteq Cards /\ NoCard \notin Cards
ASSUME DayAssumption == NoDay \notin Days
ASSUME BoundAssumption == MaxLines \in Nat \ {0} /\ MaxFaults \in Nat /\ MaxCuts \in Nat

VARIABLES
  slot,         \* the card in the slot, or NoCard
  dir,          \* does the card have /vibration
  file,         \* the daily files of every card
  power,        \* is the unit running (begin() has returned)
  mounted,      \* has SD.begin() succeeded since power-on
  cardPresent,  \* cardPresent_
  ymd,          \* currentYmd_
  handle,       \* channelsFile_, eventsFile_, vibSummaryFile_
  last,         \* what the last write() did: was its record stored, and how
                \* many of the buffers handed to it has it failed to free
  faults,       \* how often a card was pulled, or had no room for a new file
  cuts          \* how often power was lost

disk == <<dir, file>>
sink == <<cardPresent, ymd, handle>>
vars == <<slot, disk, power, mounted, sink, last, faults, cuts>>

Streams == {"channels", "events", "vib"}
WithHeader == {"channels", "vib"}   \* the JSONL stream has none
Kinds == {"row", "summary", "event", "burst"}
StreamOf == [row |-> "channels", summary |-> "vib", event |-> "events"]

Header == [kind |-> "header", day |-> NoDay]
Line == [kind : {"row", "summary", "event"}, day : Days] \union {Header}
NoFile == [made |-> FALSE, text |-> <<>>, synced |-> 0]

None == [stored |-> FALSE, owed |-> 0]

Closed == [s \in Streams |-> "closed"]

Init ==
  /\ slot \in Cards \union {NoCard}
  /\ dir \in {d \in [Cards -> BOOLEAN] : \A c \in Prepared : d[c]}
  /\ file = [c \in Cards |-> [s \in Streams |-> [d \in Days |-> NoFile]]]
  /\ power = FALSE /\ mounted = FALSE
  /\ cardPresent = FALSE /\ ymd = NoDay /\ handle = Closed
  /\ last = None
  /\ faults = 0 /\ cuts = 0

-----------------------------------------------------------------------------
(* The card, seen through the SD library.                                  *)

\* SD.begin()
SdBegin == slot # NoCard \/ mounted

\* SD.open(path of stream s, FILE_APPEND): creates the file, but not the
\* directory it lives in.  Besides, a full card may refuse to create a file.
CanOpen(s) == slot # NoCard /\ (s = "vib" => dir[slot])

SavedNothing == file   \* mutant of Saved: handles are dropped, not closed

\* The files of the card in the slot once those the sink has open are
\* flushed or closed; a handle whose card is gone flushes nothing.
Saved ==
  [c \in Cards |-> [s \in Streams |-> [d \in Days |->
     IF c = slot /\ d = ymd /\ handle[s] = "live"
       THEN [file[c][s][d] EXCEPT !.synced = Len(file[c][s][d].text)]
       ELSE file[c][s][d]]]]

\* The given files with every file of one day on the card replaced by New.
ForDay(files, day, New(_, _)) ==
  [files EXCEPT ![slot] =
     [s \in Streams |-> [files[slot][s] EXCEPT ![day] = New(s, files[slot][s][day])]]]

AppendLine(f, line) ==
  IF Len(f.text) < MaxLines THEN [f EXCEPT !.text = Append(@, line)] ELSE f

\* Mutant of Opened: the daily file is opened with FILE_WRITE.
OpenedTruncating(s, f) ==
  AppendLine([made |-> TRUE, text |-> <<>>, synced |-> 0], Header)

\* Mutant of Opened: only the channels file gets its header.
OpenedBare(s, f) ==
  IF s = "channels" /\ ~f.made THEN AppendLine([f EXCEPT !.made = TRUE], Header)
  ELSE [f EXCEPT !.made = TRUE]

\* A daily file that was just opened: created if absent, and then (only
\* then) given its header.
Opened(s, f) ==
  IF f.made THEN f
  ELSE IF s \in WithHeader THEN AppendLine([f EXCEPT !.made = TRUE], Header)
  ELSE [f EXCEPT !.made = TRUE]

-----------------------------------------------------------------------------
(* begin(), write() and flush().                                           *)

CardReadyNeverRetries == cardPresent   \* mutant of CardReady

\* write() has a card to go on with: cardPresent_, or else the retry of
\* SD.begin() mounts one.
CardReady == cardPresent \/ SdBegin

\* setup() after power-on: mount, and make /vibration if it is not there.
Begin ==
  /\ ~power /\ power' = TRUE
  /\ cardPresent' = SdBegin /\ mounted' = SdBegin
  /\ dir' = IF SdBegin /\ slot # NoCard THEN [dir EXCEPT ![slot] = TRUE] ELSE dir
  /\ UNCHANGED <<slot, file, ymd, handle, last, faults, cuts>>

\* What became of the record; the buffer of a burst is freed on the way, so
\* none is owed.  (The result of write() is left out: the storage writer
\* ignores it.)
Outcome(kind, stored) ==
  LET handed == IF kind = "burst" THEN 1 ELSE 0
      freed == IF kind = "burst" THEN 1 ELSE 0
  IN last' = [stored |-> stored, owed |-> handed - freed]

\* Mutant of Rejected: the burst's buffer is only freed after a write.
RejectedLeaks(kind) == last' = [None EXCEPT !.owed = IF kind = "burst" THEN 1 ELSE 0]

\* write() gives up before it reaches a file: the buffer is freed here too.
Rejected(kind) == Outcome(kind, FALSE)

\* Mutant of FilesOpen: any open set of files will do.
FilesOpenAnyDay(day) == \A s \in Streams : handle[s] # "closed"

\* The daily files of this day are already open.
FilesOpen(day) == ymd = day /\ \A s \in Streams : handle[s] # "closed"

\* No card, and the retry of SD.begin() finds none.
WriteWithoutCard(kind) ==
  /\ power /\ ~CardReady
  /\ Rejected(kind)
  /\ UNCHANGED <<slot, disk, power, mounted, sink, faults, cuts>>

\* The card has no room for what write() would create.
Refuses == faults < MaxFaults /\ faults' = faults + 1

\* The record's line goes to the handle of its stream, open on the file of
\* day ymd': a stale one takes it without complaint, and it is lost.  A
\* burst's file is a new one and opened by path.
Deliver(kind, day, files, handles) ==
  IF kind = "burst"
  THEN /\ \/ Outcome(kind, CanOpen("vib")) /\ UNCHANGED faults
          \/ CanOpen("vib") /\ Outcome(kind, FALSE) /\ Refuses
       /\ file' = files
  ELSE LET s == StreamOf[kind] IN
       /\ UNCHANGED faults
       /\ Outcome(kind, handles[s] = "live")
       /\ file' = IF handles[s] # "live" THEN files
                  ELSE [files EXCEPT ![slot][s][ymd'] =
                           AppendLine(@, [kind |-> kind, day |-> day])]

WriteToOpenFiles(kind, day) ==
  /\ power /\ CardReady
  /\ FilesOpen(day) /\ UNCHANGED <<ymd, handle>>
  /\ Deliver(kind, day, file, handle)
  /\ cardPresent' = TRUE /\ mounted' = (mounted \/ ~cardPresent)
  /\ UNCHANGED <<slot, dir, power, cuts>>

\* Day rollover, or the first record: close what is open, open all three.
WriteToNewFiles(kind, day) ==
  /\ power /\ CardReady
  /\ ~FilesOpen(day) /\ \A s \in Streams : CanOpen(s)
  /\ ymd' = day
  /\ LET opened == ForDay(Saved, day, Opened)
         live == [s \in Streams |-> "live"]
     IN Deliver(kind, day, opened, live) /\ handle' = live
  /\ cardPresent' = TRUE /\ mounted' = (mounted \/ ~cardPresent)
  /\ UNCHANGED <<slot, dir, power, cuts>>

\* Mutant of AfterFailedOpen: what did open stays open.
AfterFailedOpenKeeps == [s \in Streams |-> IF CanOpen(s) THEN "live" ELSE "closed"]

AfterFailedOpen == Closed

\* The order in which ensureDayFiles opens the three files.
InTurn == [channels |-> 1, events |-> 2, vib |-> 3]

\* The files of the day that do not open on a card with room to create only
\* the first few of them.
Failing(day, room) ==
  {s \in Streams : ~CanOpen(s) \/ (InTurn[s] > room /\ ~file[slot][s][day].made)}

\* Some file does not open: those that did are closed again, as created and
\* without a header, and the card counts as gone.
WriteOpenFails(kind, day, room) ==
  /\ power /\ CardReady
  /\ ~FilesOpen(day) /\ Failing(day, room) # {}
  /\ LET Touched(s, f) == IF s \in Failing(day, room) THEN f ELSE [f EXCEPT !.made = TRUE]
     IN file' = IF slot = NoCard THEN Saved ELSE ForDay(Saved, day, Touched)
  /\ handle' = AfterFailedOpen /\ ymd' = NoDay
  /\ cardPresent' = FALSE /\ mounted' = (mounted \/ ~cardPresent)
  /\ IF \E s \in Failing(day, room) : CanOpen(s) THEN Refuses ELSE UNCHANGED faults
  /\ Rejected(kind)
  /\ UNCHANGED <<slot, dir, power, cuts>>

Write(kind, day) == \/ WriteWithoutCard(kind) \/ WriteToOpenFiles(kind, day)
                    \/ WriteToNewFiles(kind, day)
                    \/ \E room \in 0..3 : WriteOpenFails(kind, day, room)

Flush ==
  /\ power /\ file' = Saved
  /\ UNCHANGED <<slot, dir, power, mounted, sink, last, faults, cuts>>

-----------------------------------------------------------------------------
(* The environment.                                                        *)

\* What is left on the card in the slot when the sink's buffers are lost:
\* any part of each open file that includes its synced lines.
Lost(kept) ==
  [c \in Cards |-> [s \in Streams |-> [d \in Days |->
     LET f == file[c][s][d] IN
     IF c = slot /\ d = ymd /\ handle[s] = "live"
       THEN [f EXCEPT !.text = SubSeq(f.text, 1, kept[s]), !.synced = kept[s]]
       ELSE f]]]

Survivable(kept) ==
  \A s \in Streams :
    IF handle[s] = "live" /\ slot # NoCard
      THEN LET f == file[slot][s][ymd] IN kept[s] \in f.synced..Len(f.text)
      ELSE kept[s] = 0

Kept == [Streams -> 0..MaxLines]

InsertCard(c) ==
  /\ slot = NoCard /\ slot' = c
  /\ UNCHANGED <<disk, power, mounted, sink, last, faults, cuts>>

PullCard(kept) ==
  /\ Survivable(kept) /\ file' = Lost(kept)
  /\ slot' = NoCard /\ faults' = faults + 1
  /\ handle' = [s \in Streams |-> IF handle[s] = "live" THEN "stale" ELSE handle[s]]
  /\ UNCHANGED <<dir, power, mounted, cardPresent, ymd, last, cuts>>

PowerLoss(kept) ==
  /\ Survivable(kept) /\ file' = Lost(kept)
  /\ power' = FALSE /\ mounted' = FALSE /\ cuts' = cuts + 1
  /\ cardPresent' = FALSE /\ ymd' = NoDay /\ handle' = Closed
  /\ last' = None
  /\ UNCHANGED <<slot, dir, faults>>

Writes == \E kind \in Kinds, day \in Days : Write(kind, day)

Next ==
  \/ Begin \/ Writes \/ Flush
  \/ \E c \in Cards : InsertCard(c)
  \/ /\ slot # NoCard /\ faults < MaxFaults
     /\ \E kept \in Kept : PullCard(kept)
  \/ /\ power /\ cuts < MaxCuts
     /\ \E kept \in Kept : PowerLoss(kept)

Spec == Init /\ [][Next]_vars

\* setup() runs, and the 1 Hz sampling never stops offering channel rows.
FairSpec == /\ Spec /\ WF_vars(Begin)
            /\ WF_vars(\E day \in Days : Write("row", day))

-----------------------------------------------------------------------------
(* Properties.                                                             *)

FileType == [made : BOOLEAN, text : Seq(Line), synced : Nat]

\* Types; no write() leaves the buffer of a burst unfreed, or frees it twice.
TypeOK ==
  /\ slot \in Cards \union {NoCard}
  /\ dir \in [Cards -> BOOLEAN]
  /\ file \in [Cards -> [Streams -> [Days -> FileType]]]
  /\ power \in BOOLEAN /\ mounted \in BOOLEAN /\ cardPresent \in BOOLEAN
  /\ ymd \in Days \union {NoDay}
  /\ handle \in [Streams -> {"closed", "live", "stale"}]
  /\ last \in [stored : BOOLEAN, owed : {0}]
  /\ faults \in Nat /\ cuts \in Nat

Files == Cards \X Streams \X Days
Text(f) == file[f[1]][f[2]][f[3]].text
Synced(f) == file[f[1]][f[2]][f[3]].synced

\* Every line is in the file of its own stream and its own UTC day, however
\* the days of consecutive records alternate around midnight or a SETTIME,
\* and a header is only ever the first line, and never of the JSONL file:
\* reopening a day, on this card or another, does not repeat it.
FiledByDay ==
  \A f \in Files : \A i \in 1..Len(Text(f)) :
    LET line == Text(f)[i]
    IN IF line = Header THEN i = 1 /\ f[2] \in WithHeader
       ELSE line.day = f[3] /\ StreamOf[line.kind] = f[2]

\* The three handles are open together (on one day) or closed together.
HandlesTogether ==
  \/ ymd = NoDay /\ \A s \in Streams : handle[s] = "closed"
  \/ ymd # NoDay /\ \A s, t \in Streams : handle[s] = handle[t] /\ handle[s] # "closed"

\* Only a file that is open on the card in the slot has unsynced lines: no
\* rollover, failed open, removal or restart leaves buffered data behind.
OnlyOpenFilesUnsynced ==
  \A f \in Files : Synced(f) < Len(Text(f)) =>
     f[1] = slot /\ f[3] = ymd /\ handle[f[2]] = "live"

\* architecture.md: writes are append-only, so data once flushed is never
\* lost or changed, across rollovers, removals, power losses and restarts.
FlushedIsForever ==
  [][\A c \in Cards, s \in Streams, d \in Days :
       LET f == file[c][s][d] IN
       /\ f.synced <= Len(file[c][s][d].text')
       /\ f.synced > 0 =>
            SubSeq(file[c][s][d].text', 1, f.synced) = SubSeq(f.text, 1, f.synced)]_file

\* sd_sink.h: hot-inserting a card recovers automatically.  Once a card stays
\* in the slot, records keep reaching it.
HotInsertRecovers == <>[](slot # NoCard) => []<>(last.stored)

\* The same, where the code keeps it: as long as no card was ever pulled or
\* full, a card in the slot that has (or was given by begin()) its /vibration
\* gets records again and again, through every power loss and late insertion.
RecoversUnlessPulled ==
  []<>(slot = NoCard \/ ~dir[slot] \/ faults > 0 \/ last.stored)

=============================================================================
