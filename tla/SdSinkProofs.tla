---------------------------- MODULE SdSinkProofs ----------------------------
(***************************************************************************)
(* Theorems about SdSink, for any cards, days and lengths of files, and any *)
(* number of removals and power losses, and about what Loader reads back.  *)
(***************************************************************************)
EXTENDS Loader, SequenceTheorems, TLAPS

\* Line i of a file of stream s and day d is where it belongs.
Filed(line, i, s, d) ==
  IF line = Header THEN i = 1 /\ s \in WithHeader
  ELSE line.day = d /\ StreamOf[line.kind] = s

\* One file: what is on the card is part of it, nothing is in a file that was
\* never made, and every line is where it belongs.
GoodFile(f, s, d) ==
  /\ f \in FileType
  /\ f.synced <= Len(f.text)
  /\ ~f.made => f.text = <<>>
  /\ \A i \in 1..Len(f.text) : Filed(f.text[i], i, s, d)

GoodDisk(files) ==
  /\ files \in [Cards -> [Streams -> [Days -> FileType]]]
  /\ \A c \in Cards, s \in Streams, d \in Days : GoodFile(files[c][s][d], s, d)

\* A live handle is one on a file of the card in the slot.
LiveIsMade == \A s \in Streams :
  handle[s] = "live" => slot \in Cards /\ ymd \in Days /\ file[slot][s][ymd].made

\* Every line of a file that is not open is on the card.
Settled == \A c \in Cards, s \in Streams, d \in Days :
  file[c][s][d].synced < Len(file[c][s][d].text) => c = slot /\ d = ymd /\ handle[s] = "live"

IInv == TypeOK /\ GoodDisk(file) /\ LiveIsMade /\ Settled /\ HandlesTogether

\* What was on the card of file f is still there when it has become g.
Keeps(f, g) ==
  /\ f.synced <= Len(g.text)
  /\ \A i \in 1..f.synced : g.text[i] = f.text[i]

-----------------------------------------------------------------------------
(* One file.                                                               *)

LEMMA KeepsItself ==
  ASSUME NEW s, NEW d, NEW f, GoodFile(f, s, d)
  PROVE  Keeps(f, f)
  BY DEF GoodFile, Keeps, FileType

\* A line that belongs there may be appended, a header to an empty file only.
LEMMA AppendGood ==
  ASSUME NEW s \in Streams, NEW d \in Days, NEW f, GoodFile(f, s, d), f.made,
         NEW line \in Line, Filed(line, Len(f.text) + 1, s, d)
  PROVE  LET g == AppendLine(f, line)
         IN GoodFile(g, s, d) /\ Keeps(f, g) /\ g.synced = f.synced /\ g.made
  <1> DEFINE g == AppendLine(f, line)
  <1>1. CASE ~(Len(f.text) < MaxLines)
    BY <1>1, KeepsItself DEF AppendLine
  <1>2. CASE Len(f.text) < MaxLines
    <2> DEFINE text == Append(f.text, line)
    <2>1. f.text \in Seq(Line) /\ f \in FileType /\ f.synced \in Nat
      BY DEF GoodFile, FileType
    <2>2. /\ text \in Seq(Line) /\ Len(text) = Len(f.text) + 1
          /\ \A i \in 1..Len(f.text) : text[i] = f.text[i]
          /\ text[Len(f.text) + 1] = line
      BY <2>1, AppendProperties
    <2>3. g = [f EXCEPT !.text = text]
      BY <1>2 DEF AppendLine
    <2> HIDE DEF text, g
    <2>4. g \in FileType /\ g.text = text /\ g.synced = f.synced /\ g.made
      BY <2>1, <2>2, <2>3 DEF FileType
    <2>5. Len(f.text) \in Nat
      BY <2>1, LenProperties
    <2>6. ASSUME NEW i \in 1..Len(text) PROVE Filed(text[i], i, s, d)
      <3>1. CASE i \in 1..Len(f.text)
        BY <3>1, <2>2 DEF GoodFile
      <3>2. CASE i = Len(f.text) + 1
        BY <3>2, <2>2
      <3> QED BY <3>1, <3>2, <2>2, <2>5
    <2>7. GoodFile(g, s, d)
      BY <2>1, <2>2, <2>4, <2>5, <2>6 DEF GoodFile
    <2>8. Keeps(f, g)
      BY <2>1, <2>2, <2>4, <2>5 DEF Keeps, GoodFile
    <2> QED BY <2>4, <2>7, <2>8 DEF g
  <1> QED BY <1>1, <1>2

LEMMA MadeGood ==
  ASSUME NEW s, NEW d, NEW f, GoodFile(f, s, d)
  PROVE  LET g == [f EXCEPT !.made = TRUE]
         IN GoodFile(g, s, d) /\ Keeps(f, g) /\ g.synced = f.synced /\ g.text = f.text /\ g.made
  <1>1. f.text \in Seq(Line) /\ Len(f.text) \in Nat /\ f.synced \in Nat /\ f \in FileType
    BY LenProperties DEF GoodFile, FileType
  <1>2. [f EXCEPT !.made = TRUE] \in FileType
    BY <1>1 DEF FileType
  <1> QED BY <1>1, <1>2 DEF GoodFile, Keeps, FileType

\* Opening a file of the day gives it a header if it is new.
LEMMA OpenedGood ==
  ASSUME NEW s \in Streams, NEW d \in Days, NEW f, GoodFile(f, s, d)
  PROVE  LET g == Opened(s, f)
         IN GoodFile(g, s, d) /\ Keeps(f, g) /\ g.synced = f.synced /\ g.made
  <1> DEFINE made == [f EXCEPT !.made = TRUE]
  <1>1. CASE f.made
    BY <1>1, KeepsItself DEF Opened
  <1>2. CASE ~f.made /\ s \notin WithHeader
    BY <1>2, MadeGood DEF Opened
  <1>3. CASE ~f.made /\ s \in WithHeader
    <2>1. GoodFile(made, s, d) /\ Keeps(f, made) /\ made.synced = f.synced /\ made.text = <<>>
          /\ made.made
      BY <1>3, MadeGood DEF GoodFile
    <2>2. Filed(Header, Len(made.text) + 1, s, d) /\ Header \in Line
      BY <1>3, <2>1 DEF Filed, Line
    <2> HIDE DEF made
    <2> DEFINE g == AppendLine(made, Header)
    <2>3. GoodFile(g, s, d) /\ Keeps(made, g) /\ g.synced = f.synced /\ g.made
      BY <2>1, <2>2, AppendGood
    <2>5. Keeps(f, g)
      BY <2>1, <2>3, <1>3 DEF Keeps, GoodFile, FileType
    <2>6. Opened(s, f) = g
      BY <1>3 DEF Opened, made
    <2> QED BY <2>3, <2>5, <2>6
  <1> QED BY <1>1, <1>2, <1>3

\* A file that a failed open leaves behind, unless it is one that failed.
Touched(failing, s, f) == IF s \in failing THEN f ELSE [f EXCEPT !.made = TRUE]

LEMMA TouchedGood ==
  ASSUME NEW s \in Streams, NEW d \in Days, NEW f, GoodFile(f, s, d), NEW failing
  PROVE  LET g == Touched(failing, s, f)
         IN GoodFile(g, s, d) /\ Keeps(f, g) /\ g.synced = f.synced /\ g.text = f.text
  BY KeepsItself, MadeGood DEF Touched

LEMMA SyncedGood ==
  ASSUME NEW s, NEW d, NEW f, GoodFile(f, s, d)
  PROVE  LET g == [f EXCEPT !.synced = Len(f.text)]
         IN GoodFile(g, s, d) /\ Keeps(f, g) /\ g.synced = Len(g.text) /\ g.made = f.made
  <1>1. f.text \in Seq(Line) /\ Len(f.text) \in Nat /\ f.synced \in Nat /\ f \in FileType
    BY LenProperties DEF GoodFile, FileType
  <1> QED BY <1>1 DEF GoodFile, Keeps, FileType

\* Losing a part of what is not on the card yet.
CutAt(f, k) == [f EXCEPT !.text = SubSeq(f.text, 1, k), !.synced = k]

LEMMA CutGood ==
  ASSUME NEW s, NEW d, NEW f, GoodFile(f, s, d),
         NEW k \in Int, f.synced <= k, k <= Len(f.text)
  PROVE  LET g == CutAt(f, k)
         IN GoodFile(g, s, d) /\ Keeps(f, g) /\ g.synced = Len(g.text)
  <1> DEFINE text == SubSeq(f.text, 1, k)
  <1>1. f.text \in Seq(Line) /\ Len(f.text) \in Nat /\ f.synced \in Nat /\ f \in FileType
    BY LenProperties DEF GoodFile, FileType
  <1>2. k \in 0..Len(f.text) /\ k \in Nat
    BY <1>1
  <1>3. /\ text \in Seq(Line) /\ Len(text) = k
        /\ \A i \in 1..k : text[i] = f.text[i]
    BY <1>1, <1>2, SubSeqProperties
  <1> HIDE DEF text
  <1> DEFINE g == [f EXCEPT !.text = text, !.synced = k]
  <1>4. g \in FileType /\ g.text = text /\ g.synced = k /\ g.made = f.made
    BY <1>1, <1>2, <1>3 DEF FileType
  <1>5. ~f.made => text = <<>>
    BY <1>1, <1>2, <1>3, EmptySeq DEF GoodFile
  <1> HIDE DEF g
  <1>6. GoodFile(g, s, d)
    BY <1>1, <1>2, <1>3, <1>4, <1>5 DEF GoodFile
  <1>7. Keeps(f, g)
    BY <1>1, <1>2, <1>3, <1>4 DEF Keeps
  <1> QED BY <1>3, <1>4, <1>6, <1>7 DEF g, text, CutAt

-----------------------------------------------------------------------------
(* All the files.                                                          *)

\* Every file keeps what is on the card.
DiskKeeps(files, other) ==
  \A c \in Cards, s \in Streams, d \in Days : Keeps(files[c][s][d], other[c][s][d])

AllSynced(files) ==
  \A c \in Cards, s \in Streams, d \in Days : files[c][s][d].synced = Len(files[c][s][d].text)

LEMMA SavedGood ==
  ASSUME IInv
  PROVE  /\ GoodDisk(Saved) /\ DiskKeeps(file, Saved) /\ AllSynced(Saved)
         /\ \A c \in Cards, s \in Streams, d \in Days : Saved[c][s][d].made = file[c][s][d].made
  <1>1. ASSUME NEW c \in Cards, NEW s \in Streams, NEW d \in Days
        PROVE  LET f == file[c][s][d]
                   g == Saved[c][s][d]
               IN /\ g \in FileType /\ GoodFile(g, s, d) /\ Keeps(f, g) /\ g.synced = Len(g.text)
                  /\ g.made = f.made
    <2> DEFINE f == file[c][s][d]
    <2>1. GoodFile(f, s, d)
      BY DEF IInv, GoodDisk
    <2>2. CASE c = slot /\ d = ymd /\ handle[s] = "live"
      <3>1. Saved[c][s][d] = [f EXCEPT !.synced = Len(f.text)]
        BY <2>2 DEF Saved
      <3> HIDE DEF f
      <3> DEFINE g == [f EXCEPT !.synced = Len(f.text)]
      <3>2. GoodFile(g, s, d) /\ Keeps(f, g) /\ g.synced = Len(g.text) /\ g.made = f.made
        BY <2>1, SyncedGood
      <3> HIDE DEF g
      <3>3. g \in FileType
        BY <3>2 DEF GoodFile
      <3> QED BY <3>1, <3>2, <3>3 DEF f, g
    <2>3. CASE ~(c = slot /\ d = ymd /\ handle[s] = "live")
      <3>1. Saved[c][s][d] = f
        BY <2>3 DEF Saved
      <3>2. f.synced = Len(f.text)
        BY <2>1, <2>3, LenProperties DEF IInv, Settled, GoodFile, FileType
      <3> HIDE DEF f
      <3> QED BY <2>1, <3>1, <3>2, KeepsItself DEF GoodFile, f
    <2> QED BY <2>2, <2>3
  <1>2. Saved \in [Cards -> [Streams -> [Days -> FileType]]]
    BY <1>1 DEF Saved
  <1> QED BY <1>1, <1>2 DEF GoodDisk, DiskKeeps, AllSynced

LEMMA LostGood ==
  ASSUME IInv, NEW kept \in Kept, Survivable(kept)
  PROVE  GoodDisk(Lost(kept)) /\ DiskKeeps(file, Lost(kept)) /\ AllSynced(Lost(kept))
  <1>1. ASSUME NEW c \in Cards, NEW s \in Streams, NEW d \in Days
        PROVE  LET f == file[c][s][d]
                   g == Lost(kept)[c][s][d]
               IN g \in FileType /\ GoodFile(g, s, d) /\ Keeps(f, g) /\ g.synced = Len(g.text)
    <2> DEFINE f == file[c][s][d]
    <2>1. GoodFile(f, s, d)
      BY DEF IInv, GoodDisk
    <2>2. CASE c = slot /\ d = ymd /\ handle[s] = "live"
      <3> DEFINE k == kept[s]
      <3>1. Lost(kept)[c][s][d] = CutAt(f, k)
        BY <2>2 DEF Lost, CutAt
      <3>2. k \in Int /\ f.synced <= k /\ k <= Len(f.text)
        <4>1. kept[s] \in file[slot][s][ymd].synced..Len(file[slot][s][ymd].text)
          BY <2>2, CardAssumption DEF Survivable
        <4> QED BY <4>1, <2>2
      <3> HIDE DEF f, k
      <3> DEFINE g == CutAt(f, k)
      <3>3. GoodFile(g, s, d) /\ Keeps(f, g) /\ g.synced = Len(g.text)
        BY <2>1, <3>2, CutGood
      <3> HIDE DEF g
      <3>4. g \in FileType
        BY <3>3 DEF GoodFile
      <3> QED BY <3>1, <3>3, <3>4 DEF f, g, k
    <2>3. CASE ~(c = slot /\ d = ymd /\ handle[s] = "live")
      <3>1. Lost(kept)[c][s][d] = f
        BY <2>3 DEF Lost
      <3>2. f.synced = Len(f.text)
        BY <2>1, <2>3, LenProperties DEF IInv, Settled, GoodFile, FileType
      <3> HIDE DEF f
      <3> QED BY <2>1, <3>1, <3>2, KeepsItself DEF GoodFile, f
    <2> QED BY <2>2, <2>3
  <1>2. Lost(kept) \in [Cards -> [Streams -> [Days -> FileType]]]
    BY <1>1, ZenonT(60) DEF Lost
  <1> QED BY <1>1, <1>2 DEF GoodDisk, DiskKeeps, AllSynced

\* The files of one day on the card in the slot, opened and touched.
LEMMA DayOpenedGood ==
  ASSUME NEW files, GoodDisk(files), AllSynced(files), NEW day \in Days, slot \in Cards
  PROVE  LET new == ForDay(files, day, Opened)
         IN /\ GoodDisk(new) /\ DiskKeeps(files, new)
            /\ \A s \in Streams : new[slot][s][day].made
            /\ \A c \in Cards, s \in Streams, d \in Days :
                 /\ new[c][s][d].synced = files[c][s][d].synced
                 /\ c # slot \/ d # day => new[c][s][d] = files[c][s][d]
  <1> DEFINE new == ForDay(files, day, Opened)
  <1>1. \A c \in Cards, s \in Streams, d \in Days :
          new[c][s][d] = IF c = slot /\ d = day THEN Opened(s, files[c][s][d]) ELSE files[c][s][d]
    BY DEF ForDay, GoodDisk
  <1>2. \A c \in Cards, s \in Streams, d \in Days : GoodFile(files[c][s][d], s, d)
    BY DEF GoodDisk
  <1>3. \A c \in Cards, s \in Streams, d \in Days :
          LET f == files[c][s][d]
              g == new[c][s][d]
          IN GoodFile(g, s, d) /\ Keeps(f, g) /\ g.synced = f.synced
    <2> HIDE DEF new
    <2> QED BY <1>1, <1>2, OpenedGood, KeepsItself
  <1>4. \A s \in Streams : new[slot][s][day].made
    <2> HIDE DEF new
    <2> QED BY <1>1, <1>2, OpenedGood
  <1>5. new \in [Cards -> [Streams -> [Days -> FileType]]]
    <2>1. \A s \in Streams, d \in Days : Opened(s, files[slot][s][d]) \in FileType
      BY <1>2, OpenedGood DEF GoodFile
    <2>2. files \in [Cards -> [Streams -> [Days -> FileType]]]
      BY DEF GoodDisk
    <2> QED BY <2>1, <2>2 DEF ForDay
  <1> HIDE DEF new
  <1>6. GoodDisk(new) /\ DiskKeeps(files, new)
    BY <1>3, <1>5 DEF GoodDisk, DiskKeeps
  <1> QED BY <1>1, <1>3, <1>4, <1>6 DEF new

\* The files after a failed open.
DayTouched(files, day, failing) ==
  [files EXCEPT ![slot] =
     [s \in Streams |->
        [files[slot][s] EXCEPT ![day] = Touched(failing, s, files[slot][s][day])]]]

LEMMA DayTouchedGood ==
  ASSUME NEW files, GoodDisk(files), AllSynced(files), NEW day \in Days, slot \in Cards,
         NEW failing
  PROVE  LET new == DayTouched(files, day, failing)
         IN GoodDisk(new) /\ DiskKeeps(files, new) /\ AllSynced(new)
  <1> DEFINE new == DayTouched(files, day, failing)
  <1>1. \A c \in Cards, s \in Streams, d \in Days :
          new[c][s][d] = IF c = slot /\ d = day THEN Touched(failing, s, files[c][s][d])
                         ELSE files[c][s][d]
    BY DEF DayTouched, GoodDisk
  <1>2. \A c \in Cards, s \in Streams, d \in Days : GoodFile(files[c][s][d], s, d)
    BY DEF GoodDisk
  <1>3. \A c \in Cards, s \in Streams, d \in Days :
          LET f == files[c][s][d]
              g == new[c][s][d]
          IN GoodFile(g, s, d) /\ Keeps(f, g) /\ g.synced = f.synced /\ g.text = f.text
    <2> HIDE DEF new
    <2> QED BY <1>1, <1>2, TouchedGood, KeepsItself
  <1>4. new \in [Cards -> [Streams -> [Days -> FileType]]]
    <2>1. \A s \in Streams, d \in Days : Touched(failing, s, files[slot][s][d]) \in FileType
      BY <1>2, TouchedGood DEF GoodFile
    <2>2. files \in [Cards -> [Streams -> [Days -> FileType]]]
      BY DEF GoodDisk
    <2> QED BY <2>1, <2>2 DEF DayTouched
  <1> HIDE DEF new
  <1>5. GoodDisk(new) /\ DiskKeeps(files, new)
    BY <1>3, <1>4 DEF GoodDisk, DiskKeeps
  <1>6. AllSynced(new)
    <2>1. ASSUME NEW c \in Cards, NEW s \in Streams, NEW d \in Days
          PROVE  new[c][s][d].synced = Len(new[c][s][d].text)
      <3>1. new[c][s][d].synced = files[c][s][d].synced /\ new[c][s][d].text = files[c][s][d].text
        BY <1>3, SMTT(60)
      <3> QED BY <3>1 DEF AllSynced
    <2> QED BY <2>1 DEF AllSynced
  <1> QED BY <1>5, <1>6 DEF new

\* A record's line, at the end of the open file of its stream and day.
LEMMA LineGood ==
  ASSUME NEW files, GoodDisk(files), NEW kind \in Kinds \ {"burst"}, NEW day \in Days,
         slot \in Cards, files[slot][StreamOf[kind]][day].made
  PROVE  LET new == [files EXCEPT ![slot][StreamOf[kind]][day] =
                       AppendLine(@, [kind |-> kind, day |-> day])]
         IN /\ GoodDisk(new) /\ DiskKeeps(files, new)
            /\ \A c \in Cards, s \in Streams, d \in Days :
                 /\ files[c][s][d].made => new[c][s][d].made
                 /\ ~(c = slot /\ d = day /\ s = StreamOf[kind]) => new[c][s][d] = files[c][s][d]
  <1> DEFINE t == StreamOf[kind]
             line == [kind |-> kind, day |-> day]
             old == files[slot][t][day]
             new == [files EXCEPT ![slot][t][day] = AppendLine(@, line)]
  <1>1. t \in Streams
    BY DEF StreamOf, Streams, Kinds
  <1>2. line \in Line /\ Filed(line, Len(old.text) + 1, t, day)
    BY DEF Line, Filed, Kinds, Header
  <1>3. files \in [Cards -> [Streams -> [Days -> FileType]]]
    BY DEF GoodDisk
  <1>4. GoodFile(old, t, day) /\ old.made
    BY <1>1 DEF GoodDisk
  <1> HIDE DEF t, line, old
  <1> DEFINE added == AppendLine(old, line)
  <1>5. GoodFile(added, t, day) /\ Keeps(old, added) /\ added.made
    BY <1>1, <1>2, <1>4, AppendGood
  <1> HIDE DEF added
  <1>6. \A c \in Cards, s \in Streams, d \in Days :
          new[c][s][d] = IF c = slot /\ s = t /\ d = day THEN added ELSE files[c][s][d]
    BY <1>3 DEF added, old
  <1>7. new \in [Cards -> [Streams -> [Days -> FileType]]]
    BY <1>1, <1>3, <1>5 DEF GoodFile, added, old
  <1> HIDE DEF new
  <1>8. \A c \in Cards, s \in Streams, d \in Days :
          GoodFile(new[c][s][d], s, d) /\ Keeps(files[c][s][d], new[c][s][d])
    BY <1>5, <1>6, KeepsItself, SMTT(60) DEF GoodDisk, old
  <1>9. GoodDisk(new) /\ DiskKeeps(files, new)
    BY <1>7, <1>8 DEF GoodDisk, DiskKeeps
  <1>10. \A c \in Cards, s \in Streams, d \in Days :
           /\ files[c][s][d].made => new[c][s][d].made
           /\ ~(c = slot /\ d = day /\ s = t) => new[c][s][d] = files[c][s][d]
    BY <1>5, <1>6
  <1> QED BY <1>9, <1>10 DEF new, t, line

LEMMA KeepsOnKeeping ==
  ASSUME NEW a, NEW b, NEW c, GoodDisk(a), GoodDisk(b), DiskKeeps(a, b), DiskKeeps(b, c),
         \A k \in Cards, s \in Streams, d \in Days : a[k][s][d].synced <= b[k][s][d].synced
  PROVE  DiskKeeps(a, c)
  BY DEF GoodDisk, GoodFile, FileType, DiskKeeps, Keeps

-----------------------------------------------------------------------------
(* The steps.                                                              *)

\* What a step does to the files, and to the handles on them.
DiskStep == GoodDisk(file') /\ DiskKeeps(file, file') /\ Settled'
HandleStep == LiveIsMade' /\ HandlesTogether'

LEMMA OpenFilesStep ==
  ASSUME IInv, NEW kind \in Kinds, NEW day \in Days, WriteToOpenFiles(kind, day)
  PROVE  DiskStep /\ HandleStep
  <1> USE DEF WriteToOpenFiles
  <1>1. GoodDisk(file) /\ DiskKeeps(file, file) /\ Settled
    BY KeepsItself DEF IInv, GoodDisk, DiskKeeps
  <1>2. ymd = day /\ ymd' = day /\ handle' = handle /\ slot' = slot
    BY DEF FilesOpen
  <1>3. CASE file' = file
    BY <1>1, <1>2, <1>3 DEF IInv, DiskStep, HandleStep, Settled, LiveIsMade, HandlesTogether
  <1>4. CASE kind # "burst" /\ handle[StreamOf[kind]] = "live"
    <2> DEFINE t == StreamOf[kind]
               new == [file EXCEPT ![slot][t][day] = AppendLine(@, [kind |-> kind, day |-> day])]
    <2>1. file' = new
      BY <1>2, <1>4 DEF Deliver
    <2>2. t \in Streams
      BY <1>4 DEF StreamOf, Streams, Kinds
    <2>3. slot \in Cards /\ file[slot][t][day].made
      BY <1>2, <1>4, <2>2 DEF IInv, LiveIsMade
    <2>4. /\ GoodDisk(new) /\ DiskKeeps(file, new)
          /\ \A c \in Cards, s \in Streams, d \in Days :
               /\ file[c][s][d].made => new[c][s][d].made
               /\ ~(c = slot /\ d = day /\ s = t) => new[c][s][d] = file[c][s][d]
      BY <1>1, <1>4, <2>3, LineGood
    <2> HIDE DEF new, t
    <2>5. Settled'
      BY <1>1, <1>2, <1>4, <2>1, <2>4 DEF Settled, t
    <2>6. HandleStep
      BY <1>2, <2>1, <2>4 DEF IInv, HandleStep, LiveIsMade, HandlesTogether
    <2> QED BY <2>1, <2>4, <2>5, <2>6 DEF DiskStep
  <1> QED BY <1>2, <1>3, <1>4 DEF Deliver

LEMMA NewFilesStep ==
  ASSUME IInv, NEW kind \in Kinds, NEW day \in Days, WriteToNewFiles(kind, day)
  PROVE  DiskStep /\ HandleStep
  <1> USE DEF WriteToNewFiles
  <1> DEFINE opened == ForDay(Saved, day, Opened)
             live == [s \in Streams |-> "live"]
  <1>1. slot \in Cards /\ slot' = slot /\ ymd' = day /\ handle' = live
    BY DEF CanOpen, IInv, TypeOK, Streams
  <1>2. GoodDisk(Saved) /\ DiskKeeps(file, Saved) /\ AllSynced(Saved)
    BY SavedGood
  <1>3. /\ GoodDisk(opened) /\ DiskKeeps(Saved, opened)
        /\ \A s \in Streams : opened[slot][s][day].made
        /\ \A c \in Cards, s \in Streams, d \in Days :
             /\ opened[c][s][d].synced = Saved[c][s][d].synced
             /\ c # slot \/ d # day => opened[c][s][d] = Saved[c][s][d]
    BY <1>1, <1>2, DayOpenedGood
  <1>4. Deliver(kind, day, opened, live)
    OBVIOUS
  <1> HIDE DEF WriteToNewFiles, opened
  <1>5. DiskKeeps(file, opened)
    <2>1. \A c \in Cards, s \in Streams, d \in Days :
            file[c][s][d].synced <= Saved[c][s][d].synced
      BY <1>2 DEF DiskKeeps, Keeps, AllSynced
    <2>2. GoodDisk(file)
      BY DEF IInv
    <2> DEFINE saved == Saved
    <2> HIDE DEF saved
    <2>3. GoodDisk(saved) /\ DiskKeeps(file, saved) /\ DiskKeeps(saved, opened)
      BY <1>2, <1>3 DEF saved
    <2> QED BY <2>1, <2>2, <2>3, KeepsOnKeeping DEF saved
  <1>6. \A c \in Cards, s \in Streams, d \in Days :
          opened[c][s][d].synced < Len(opened[c][s][d].text) => c = slot /\ d = day
    BY <1>2, <1>3 DEF AllSynced, GoodDisk, GoodFile, FileType
  <1>7. CASE file' = opened
    <2>1. Settled'
      BY <1>1, <1>6, <1>7 DEF Settled
    <2>2. HandleStep
      BY <1>1, <1>3, <1>7, DayAssumption DEF HandleStep, LiveIsMade, HandlesTogether, Streams
    <2> QED BY <1>3, <1>5, <1>7, <2>1, <2>2 DEF DiskStep
  <1>8. CASE kind # "burst"
    <2> DEFINE t == StreamOf[kind]
               new == [opened EXCEPT ![slot][t][day] = AppendLine(@, [kind |-> kind, day |-> day])]
    <2>1. t \in Streams
      BY <1>8 DEF StreamOf, Streams, Kinds
    <2>2. file' = new
      BY <1>1, <1>4, <1>8, <2>1 DEF Deliver
    <2>3. opened[slot][t][day].made /\ slot \in Cards /\ GoodDisk(opened)
      BY <1>1, <1>3, <2>1
    <2>4. /\ GoodDisk(new) /\ DiskKeeps(opened, new)
          /\ \A c \in Cards, s \in Streams, d \in Days :
               /\ opened[c][s][d].made => new[c][s][d].made
               /\ ~(c = slot /\ d = day /\ s = t) => new[c][s][d] = opened[c][s][d]
      BY <1>8, <2>3, LineGood
    <2> HIDE DEF new, t
    <2>5. Settled'
      BY <1>1, <1>6, <2>2, <2>4 DEF Settled
    <2>6. HandleStep
      BY <1>1, <1>3, <2>2, <2>4, DayAssumption DEF HandleStep, LiveIsMade, HandlesTogether, Streams
    <2>7. DiskKeeps(file, new)
      <3>1. \A c \in Cards, s \in Streams, d \in Days :
              file[c][s][d].synced <= opened[c][s][d].synced
        BY <1>2, <1>3 DEF DiskKeeps, Keeps, AllSynced
      <3>2. GoodDisk(file)
        BY DEF IInv
      <3> QED BY <1>3, <1>5, <2>4, <3>1, <3>2, KeepsOnKeeping
    <2> QED BY <2>2, <2>4, <2>5, <2>6, <2>7 DEF DiskStep
  <1> QED BY <1>4, <1>7, <1>8 DEF Deliver

LEMMA OpenFailsStep ==
  ASSUME IInv, NEW kind \in Kinds, NEW day \in Days, NEW room \in 0..3,
         WriteOpenFails(kind, day, room)
  PROVE  DiskStep /\ HandleStep
  <1> USE DEF WriteOpenFails
  <1>1. GoodDisk(Saved) /\ DiskKeeps(file, Saved) /\ AllSynced(Saved)
    BY SavedGood
  <1>2. HandleStep
    BY DEF HandleStep, LiveIsMade, HandlesTogether, AfterFailedOpen, Closed
  <1>3. GoodDisk(file') /\ DiskKeeps(file, file') /\ AllSynced(file')
    <2>1. CASE slot = NoCard
      BY <1>1, <2>1
    <2>2. CASE slot # NoCard
      <3> DEFINE saved == Saved
                 new == DayTouched(saved, day, Failing(day, room))
      <3>1. file' = new /\ slot \in Cards
        BY <2>2 DEF IInv, TypeOK, ForDay, Touched, DayTouched
      <3>2. GoodDisk(saved) /\ DiskKeeps(file, saved) /\ AllSynced(saved) /\ GoodDisk(file)
        BY <1>1 DEF IInv
      <3> HIDE DEF saved, WriteOpenFails
      <3>3. GoodDisk(new) /\ DiskKeeps(saved, new) /\ AllSynced(new)
        BY <3>1, <3>2, DayTouchedGood
      <3> HIDE DEF new
      <3>4. \A c \in Cards, s \in Streams, d \in Days :
              file[c][s][d].synced <= saved[c][s][d].synced
        BY <3>2 DEF DiskKeeps, Keeps, AllSynced
      <3> QED BY <3>1, <3>2, <3>3, <3>4, KeepsOnKeeping
    <2> QED BY <2>1, <2>2
  <1> HIDE DEF WriteOpenFails
  <1>4. Settled'
    BY <1>3 DEF Settled, AllSynced, GoodDisk, GoodFile, FileType
  <1> QED BY <1>2, <1>3, <1>4 DEF DiskStep

LEMMA FlushStep == IInv /\ Flush => DiskStep /\ HandleStep
  <1> SUFFICES ASSUME IInv, Flush PROVE DiskStep /\ HandleStep
    OBVIOUS
  <1>1. /\ GoodDisk(Saved) /\ DiskKeeps(file, Saved) /\ AllSynced(Saved)
        /\ \A c \in Cards, s \in Streams, d \in Days : Saved[c][s][d].made = file[c][s][d].made
    BY SavedGood
  <1>2. file' = Saved /\ slot' = slot /\ ymd' = ymd /\ handle' = handle
    BY DEF Flush, sink
  <1>3. Settled'
    BY <1>1, <1>2 DEF Settled, AllSynced, GoodDisk, GoodFile, FileType
  <1>4. HandleStep
    BY <1>1, <1>2 DEF IInv, HandleStep, LiveIsMade, HandlesTogether
  <1> QED BY <1>1, <1>2, <1>3, <1>4 DEF DiskStep

\* Buffers are lost, by the removal of the card or by the loss of power.
LEMMA LossStep ==
  ASSUME IInv, NEW kept \in Kept, PullCard(kept) \/ PowerLoss(kept)
  PROVE  DiskStep /\ HandleStep
  <1>1. file' = Lost(kept) /\ Survivable(kept)
    BY DEF PullCard, PowerLoss
  <1>2. GoodDisk(file') /\ DiskKeeps(file, file') /\ AllSynced(file')
    BY <1>1, LostGood
  <1>3. Settled'
    BY <1>2 DEF Settled, AllSynced, GoodDisk, GoodFile, FileType
  <1>4. ASSUME PullCard(kept) PROVE HandleStep
    BY <1>4 DEF PullCard, IInv, HandleStep, LiveIsMade, HandlesTogether, TypeOK
  <1>5. ASSUME PowerLoss(kept) PROVE HandleStep
    BY <1>5 DEF PowerLoss, HandleStep, LiveIsMade, HandlesTogether, Closed
  <1> QED BY <1>2, <1>3, <1>4, <1>5 DEF DiskStep

\* Begin, a write without a card, and inserting a card leave files and handles.
LEMMA QuietStep ==
  ASSUME IInv, file' = file, handle' = handle, ymd' = ymd,
         slot' = slot \/ slot = NoCard
  PROVE  DiskStep /\ HandleStep
  <1>1. GoodDisk(file') /\ DiskKeeps(file, file')
    BY KeepsItself DEF IInv, GoodDisk, DiskKeeps
  <1>2. \A s \in Streams : handle[s] = "live" => slot' = slot
    BY CardAssumption DEF IInv, LiveIsMade
  <1>3. Settled'
    BY <1>2 DEF IInv, Settled, LiveIsMade, GoodDisk, GoodFile, FileType
  <1>4. HandleStep
    BY <1>2 DEF IInv, HandleStep, LiveIsMade, HandlesTogether
  <1> QED BY <1>1, <1>3, <1>4 DEF DiskStep

\* What the other conjuncts of TypeOK say of a step, the files left aside.
RestOK ==
  /\ slot \in Cards \union {NoCard} /\ dir \in [Cards -> BOOLEAN]
  /\ power \in BOOLEAN /\ mounted \in BOOLEAN /\ cardPresent \in BOOLEAN
  /\ ymd \in Days \union {NoDay} /\ handle \in [Streams -> {"closed", "live", "stale"}]
  /\ last \in [stored : BOOLEAN, owed : {0}] /\ faults \in Nat /\ cuts \in Nat

LEMMA OutcomeOK ==
  ASSUME NEW kind \in Kinds, NEW stored \in BOOLEAN, Outcome(kind, stored)
  PROVE  last' \in [stored : BOOLEAN, owed : {0}]
  BY DEF Outcome

LEMMA DeliverOK ==
  ASSUME NEW kind \in Kinds, NEW day \in Days, NEW files, NEW handles, faults \in Nat,
         Deliver(kind, day, files, handles)
  PROVE  last' \in [stored : BOOLEAN, owed : {0}] /\ faults' \in Nat
  <1>1. CASE kind = "burst"
    <2>1. CanOpen("vib") \in BOOLEAN
      BY Zenon DEF CanOpen
    <2>2. \/ Outcome(kind, CanOpen("vib")) /\ UNCHANGED faults
          \/ Outcome(kind, FALSE) /\ Refuses
      BY <1>1 DEF Deliver
    <2>3. last' \in [stored : BOOLEAN, owed : {0}]
      BY <2>1, <2>2, OutcomeOK
    <2>4. faults' = faults \/ faults' = faults + 1
      BY <2>2, Zenon DEF Refuses
    <2> QED BY <2>3, <2>4
  <1>2. CASE kind # "burst"
    <2>1. (handles[StreamOf[kind]] = "live") \in BOOLEAN
      BY Zenon
    <2>2. Outcome(kind, handles[StreamOf[kind]] = "live") /\ UNCHANGED faults
      BY <1>2 DEF Deliver
    <2> QED BY <2>1, <2>2, OutcomeOK
  <1> QED BY <1>1, <1>2

LEMMA WriteRest ==
  ASSUME IInv, NEW kind \in Kinds, NEW day \in Days, Write(kind, day)
  PROVE  RestOK'
  <1> USE DEF IInv, TypeOK, RestOK, Rejected, Outcome, sink, disk, CanOpen
  <1>1. CASE WriteWithoutCard(kind)
    BY <1>1 DEF WriteWithoutCard
  <1>2. CASE WriteToOpenFiles(kind, day)
    <2> USE <1>2 DEF WriteToOpenFiles
    <2>1. mounted' \in BOOLEAN /\ cardPresent' \in BOOLEAN /\ power' \in BOOLEAN
      OBVIOUS
    <2>2. last' \in [stored : BOOLEAN, owed : {0}]
      BY DeliverOK
    <2>3. slot' \in Cards \union {NoCard} /\ dir' \in [Cards -> BOOLEAN]
      OBVIOUS
    <2>4. ymd' \in Days \union {NoDay} /\ handle' \in [Streams -> {"closed", "live", "stale"}]
      OBVIOUS
    <2>5. faults' \in Nat /\ cuts' \in Nat
      BY DeliverOK
    <2> QED BY <2>1, <2>2, <2>3, <2>4, <2>5
  <1>3. CASE WriteToNewFiles(kind, day)
    <2> USE <1>3 DEF WriteToNewFiles
    <2>1. mounted' \in BOOLEAN /\ cardPresent' \in BOOLEAN /\ power' \in BOOLEAN
      OBVIOUS
    <2>2. last' \in [stored : BOOLEAN, owed : {0}]
      BY DeliverOK
    <2>3. slot' \in Cards \union {NoCard} /\ dir' \in [Cards -> BOOLEAN]
      OBVIOUS
    <2>4. ymd' \in Days \union {NoDay} /\ handle' \in [Streams -> {"closed", "live", "stale"}]
      OBVIOUS
    <2>5. faults' \in Nat /\ cuts' \in Nat
      BY DeliverOK
    <2> QED BY <2>1, <2>2, <2>3, <2>4, <2>5
  <1>4. ASSUME NEW room \in 0..3, WriteOpenFails(kind, day, room) PROVE RestOK'
    <2> USE <1>4 DEF WriteOpenFails, AfterFailedOpen, Closed
    <2>1. mounted' \in BOOLEAN /\ cardPresent' \in BOOLEAN /\ power' \in BOOLEAN
      OBVIOUS
    <2>2. last' \in [stored : BOOLEAN, owed : {0}]
      <3>1. Outcome(kind, FALSE)
        BY Zenon
      <3> QED BY <3>1, OutcomeOK
    <2>3. slot' \in Cards \union {NoCard} /\ dir' \in [Cards -> BOOLEAN]
      OBVIOUS
    <2>4. ymd' \in Days \union {NoDay} /\ handle' \in [Streams -> {"closed", "live", "stale"}]
      OBVIOUS
    <2>5. faults' \in Nat /\ cuts' \in Nat
      <3>1. (faults' = faults \/ faults' = faults + 1) /\ cuts' = cuts
        <4>1. faults' = faults \/ faults' = faults + 1
          BY Zenon DEF Refuses
        <4>2. UNCHANGED <<slot, dir, power, cuts>>
          BY Zenon
        <4> HIDE DEF WriteOpenFails
        <4> QED BY <4>1, <4>2
      <3> HIDE DEF WriteOpenFails
      <3> QED BY <3>1
    <2> QED BY <2>1, <2>2, <2>3, <2>4, <2>5
  <1> QED BY <1>1, <1>2, <1>3, <1>4 DEF Write

LEMMA OtherRest ==
  ASSUME IInv,
         \/ Begin \/ Flush \/ UNCHANGED vars \/ \E c \in Cards : InsertCard(c)
         \/ \E kept \in Kept : PullCard(kept) \/ PowerLoss(kept)
  PROVE  RestOK'
  <1> USE DEF IInv, TypeOK, RestOK, sink, disk
  <1>1. CASE Begin
    BY <1>1 DEF Begin, SdBegin
  <1>2. CASE Flush \/ UNCHANGED vars
    BY <1>2 DEF Flush, vars
  <1>3. ASSUME NEW c \in Cards, InsertCard(c) PROVE RestOK'
    BY <1>3 DEF InsertCard
  <1>4. ASSUME NEW kept \in Kept, PullCard(kept) PROVE RestOK'
    BY <1>4 DEF PullCard
  <1>5. ASSUME NEW kept \in Kept, PowerLoss(kept) PROVE RestOK'
    <2> USE <1>5 DEF PowerLoss, Closed, None
    <2>1. mounted' \in BOOLEAN /\ cardPresent' \in BOOLEAN /\ power' \in BOOLEAN
      OBVIOUS
    <2>2. last' \in [stored : BOOLEAN, owed : {0}]
      OBVIOUS
    <2>3. slot' \in Cards \union {NoCard} /\ dir' \in [Cards -> BOOLEAN]
      OBVIOUS
    <2>4. ymd' \in Days \union {NoDay} /\ handle' \in [Streams -> {"closed", "live", "stale"}]
      OBVIOUS
    <2>5. faults' \in Nat /\ cuts' \in Nat
      OBVIOUS
    <2> QED BY <2>1, <2>2, <2>3, <2>4, <2>5
  <1> QED BY <1>1, <1>2, <1>3, <1>4, <1>5

LEMMA InitInv == Init => IInv
  <1> SUFFICES ASSUME Init PROVE IInv
    OBVIOUS
  <1>1. NoFile \in FileType
    BY EmptySeq DEF NoFile, FileType
  <1>2. \A c \in Cards, s \in Streams, d \in Days : file[c][s][d] = NoFile
    BY DEF Init
  <1>3. NoFile.text = <<>> /\ Len(NoFile.text) = 0 /\ NoFile.synced = 0
    BY DEF NoFile
  <1>4. file \in [Cards -> [Streams -> [Days -> FileType]]]
    BY <1>1 DEF Init
  <1>5. GoodDisk(file) /\ Settled
    BY <1>1, <1>2, <1>3, <1>4 DEF GoodDisk, GoodFile, Settled
  <1>6. RestOK
    BY DEF Init, RestOK, Closed, None
  <1>7. LiveIsMade /\ HandlesTogether
    BY DEF Init, LiveIsMade, HandlesTogether, Closed
  <1> QED BY <1>4, <1>5, <1>6, <1>7 DEF IInv, TypeOK, RestOK

LEMMA InvStep == IInv /\ [Next]_vars => IInv' /\ DiskKeeps(file, file')
  <1> SUFFICES ASSUME IInv, [Next]_vars PROVE IInv' /\ DiskKeeps(file, file')
    OBVIOUS
  <1>1. DiskStep /\ HandleStep
    <2>1. CASE Begin \/ UNCHANGED vars
      BY <2>1, QuietStep DEF Begin, vars, disk, sink
    <2>2. ASSUME NEW kind \in Kinds, NEW day \in Days, Write(kind, day) PROVE DiskStep /\ HandleStep
      <3>1. CASE WriteWithoutCard(kind)
        BY <3>1, QuietStep DEF WriteWithoutCard, disk, sink
      <3> QED BY <2>2, <3>1, OpenFilesStep, NewFilesStep, OpenFailsStep DEF Write
    <2>3. ASSUME NEW c \in Cards, InsertCard(c) PROVE DiskStep /\ HandleStep
      BY <2>3, QuietStep DEF InsertCard, disk, sink
    <2> QED BY <2>1, <2>2, <2>3, FlushStep, LossStep DEF Next, Writes
  <1>2. RestOK'
    BY WriteRest, OtherRest DEF Next, Writes
  <1> QED BY <1>1, <1>2 DEF DiskStep, HandleStep, IInv, TypeOK, RestOK, GoodDisk

LEMMA Invariance == Spec => []IInv
  BY InitInv, InvStep, PTL DEF Spec

\* The sink's state is what the code is written for, and no write() leaves the
\* buffer of a burst unfreed or frees it twice.
THEOREM TypeCorrect == Spec => []TypeOK
  BY Invariance, PTL DEF IInv

\* The three daily files are open together, on one day, or closed together.
THEOREM OpenTogether == Spec => []HandlesTogether
  BY Invariance, PTL DEF IInv

\* Every line is in the file of its stream and day, and a header is on top.
THEOREM LinesFiled == Spec => []FiledByDay
  <1>1. IInv => FiledByDay
    <2> SUFFICES ASSUME IInv, NEW f \in Files, NEW i \in 1..Len(Text(f))
                 PROVE  Filed(Text(f)[i], i, f[2], f[3])
      BY DEF FiledByDay, Filed
    <2>1. f[1] \in Cards /\ f[2] \in Streams /\ f[3] \in Days
      BY DEF Files
    <2>2. GoodFile(file[f[1]][f[2]][f[3]], f[2], f[3])
      BY <2>1 DEF IInv, GoodDisk
    <2> QED BY <2>2 DEF GoodFile, Text
  <1> QED BY <1>1, Invariance, PTL

\* Nothing is left in a buffer that no flush would reach.
THEOREM OpenFilesOnly == Spec => []OnlyOpenFilesUnsynced
  <1>1. IInv => OnlyOpenFilesUnsynced
    BY DEF IInv, Settled, OnlyOpenFilesUnsynced, Files, Text, Synced
  <1> QED BY <1>1, Invariance, PTL

\* What is on a card stays there.
THEOREM FlushedStays == Spec => FlushedIsForever
  <1>1. IInv /\ [Next]_vars =>
          [\A c \in Cards, s \in Streams, d \in Days :
             LET f == file[c][s][d] IN
             /\ f.synced <= Len(file[c][s][d].text')
             /\ f.synced > 0 =>
                  SubSeq(file[c][s][d].text', 1, f.synced) = SubSeq(f.text, 1, f.synced)]_file
    <2> SUFFICES ASSUME IInv, [Next]_vars, NEW c \in Cards, NEW s \in Streams, NEW d \in Days
                 PROVE  LET f == file[c][s][d] IN
                        /\ f.synced <= Len(file[c][s][d].text')
                        /\ SubSeq(file[c][s][d].text', 1, f.synced) = SubSeq(f.text, 1, f.synced)
      OBVIOUS
    <2> DEFINE f == file[c][s][d]
               g == file'[c][s][d]
    <2>1. GoodFile(f, s, d) /\ GoodFile(g, s, d) /\ Keeps(f, g)
      BY InvStep DEF IInv, GoodDisk, DiskKeeps
    <2> HIDE DEF f, g
    <2>2. SubSeq(g.text, 1, f.synced) = SubSeq(f.text, 1, f.synced)
      BY <2>1 DEF Keeps, GoodFile, FileType
    <2> QED BY <2>1, <2>2 DEF f, g, Keeps
  <1> QED BY <1>1, Invariance, PTL DEF Spec, FlushedIsForever

-----------------------------------------------------------------------------
(* What the loader reads back.                                             *)

\* On a card with its /vibration every file that there is starts with its
\* header, and begin() finds cards without files.
Readable ==
  /\ ~power => \A c \in Cards, s \in Streams, d \in Days : ~file[c][s][d].made
  /\ \A c \in Cards, s \in WithHeader, d \in Days :
       dir[c] /\ file[c][s][d].made => Headed(file[c][s][d])

Unharmed == cuts = 0 /\ faults = 0

LEMMA HeadedStays ==
  ASSUME NEW f \in FileType, Headed(f), NEW line \in Line
  PROVE  Headed(AppendLine(f, line))
  <1>1. f.text \in Seq(Line) /\ f.text # <<>> /\ f.text[1] = Header
    BY DEF FileType, Headed
  <1>2. Append(f.text, line) # <<>> /\ Append(f.text, line)[1] = f.text[1]
    BY <1>1, AppendProperties, EmptySeq
  <1>3. [f EXCEPT !.text = Append(@, line)].text = Append(f.text, line)
    BY DEF FileType
  <1> QED BY <1>1, <1>2, <1>3 DEF Headed, AppendLine

LEMMA OpenedHeaded ==
  ASSUME NEW s \in WithHeader, NEW f \in FileType, f.made => Headed(f), ~f.made => f.text = <<>>
  PROVE  Headed(Opened(s, f))
  <1>1. CASE f.made
    BY <1>1 DEF Opened
  <1>2. CASE ~f.made
    <2> DEFINE made == [f EXCEPT !.made = TRUE]
    <2>1. made \in FileType /\ made.text = <<>>
      BY <1>2 DEF FileType
    <2>2. Opened(s, f) = AppendLine(made, Header)
      BY <1>2 DEF Opened
    <2> HIDE DEF made
    <2>3. AppendLine(made, Header).text = <<Header>>
      BY <2>1, BoundAssumption DEF AppendLine, FileType
    <2> QED BY <2>2, <2>3 DEF Headed
  <1> QED BY <1>1, <1>2

LEMMA SavedHeaded ==
  ASSUME IInv, NEW c \in Cards, NEW s \in Streams, NEW d \in Days
  PROVE  /\ Saved[c][s][d].made = file[c][s][d].made
         /\ Headed(Saved[c][s][d]) <=> Headed(file[c][s][d])
  <1> DEFINE f == file[c][s][d]
  <1>1. f \in FileType
    BY DEF IInv, TypeOK
  <1>2. Saved[c][s][d] \in {f, [f EXCEPT !.synced = Len(f.text)]}
    BY DEF Saved
  <1> HIDE DEF f
  <1>3. [f EXCEPT !.synced = Len(f.text)].text = f.text /\ [f EXCEPT !.synced = Len(f.text)].made = f.made
    BY <1>1 DEF FileType
  <1> QED BY <1>2, <1>3 DEF Headed, f

\* A line delivered to an open file keeps every header where it is.
LEMMA DeliverHeaded ==
  ASSUME NEW files, NEW handles, GoodDisk(files), NEW kind \in Kinds, NEW day \in Days,
         slot \in Cards \/ \A s \in Streams : handles[s] # "live", ymd' = day,
         Deliver(kind, day, files, handles),
         NEW c \in Cards, NEW s \in WithHeader, NEW d \in Days, Headed(files[c][s][d])
  PROVE  Headed(file'[c][s][d])
  <1>1. CASE file' = files
    BY <1>1
  <1>2. CASE kind # "burst" /\ handles[StreamOf[kind]] = "live"
    <2> DEFINE t == StreamOf[kind]
               line == [kind |-> kind, day |-> day]
    <2>1. t \in Streams /\ line \in Line /\ s \in Streams
      BY <1>2 DEF StreamOf, Streams, Kinds, Line, WithHeader
    <2>2. file' = [files EXCEPT ![slot][t][day] = AppendLine(@, line)]
      BY <1>2 DEF Deliver
    <2>3. files \in [Cards -> [Streams -> [Days -> FileType]]]
      BY DEF GoodDisk
    <2> HIDE DEF t, line
    <2>4. file'[c][s][d] \in {files[c][s][d], AppendLine(files[c][s][d], line)}
      BY <2>1, <2>2, <2>3
    <2>5. files[c][s][d] \in FileType
      BY <2>1, <2>3
    <2> QED BY <2>1, <2>4, <2>5, HeadedStays
  <1> QED BY <1>1, <1>2 DEF Deliver

LEMMA WriteReadable ==
  ASSUME IInv, Unharmed', Readable, NEW kind \in Kinds, NEW day \in Days, Write(kind, day)
  PROVE  Readable'
  <1>1. power' /\ dir' = dir
    <2>1. ASSUME NEW room \in 0..3, WriteOpenFails(kind, day, room) PROVE power' /\ dir' = dir
      <3>1. power /\ UNCHANGED <<slot, dir, power, cuts>>
        BY <2>1, Zenon DEF WriteOpenFails
      <3> QED BY <3>1
    <2> QED BY <2>1 DEF Write, WriteWithoutCard, WriteToOpenFiles, WriteToNewFiles, disk
  <1> SUFFICES ASSUME NEW c \in Cards, NEW s \in WithHeader, NEW d \in Days, dir[c],
                      file'[c][s][d].made
               PROVE  Headed(file'[c][s][d])
    BY <1>1 DEF Readable, Headed
  <1>2. s \in Streams /\ slot \in Cards \union {NoCard}
    BY DEF WithHeader, Streams, IInv, TypeOK
  <1> DEFINE f == file[c][s][d]
  <1>3. f \in FileType /\ (f.made => Headed(f)) /\ (~f.made => f.text = <<>>)
    BY <1>2 DEF Readable, IInv, GoodDisk, GoodFile
  <1>4. CASE WriteWithoutCard(kind)
    BY <1>3, <1>4 DEF WriteWithoutCard, disk
  <1>5. CASE WriteToOpenFiles(kind, day)
    <2>1. Deliver(kind, day, file, handle) /\ ymd' = day /\ ymd = day
      BY <1>5 DEF WriteToOpenFiles, FilesOpen
    <2>2. slot \in Cards \/ \A t \in Streams : handle[t] # "live"
      BY DEF IInv, LiveIsMade
    <2>3. CASE f.made
      <3>1. GoodDisk(file) /\ Headed(file[c][s][d])
        BY <1>3, <2>3 DEF IInv
      <3> QED BY <2>1, <2>2, <3>1, DeliverHeaded
    <2>4. CASE ~f.made
      <3>1. CASE file' = file
        BY <2>4, <3>1
      <3>2. CASE kind # "burst" /\ handle[StreamOf[kind]] = "live"
        <4> DEFINE t == StreamOf[kind]
                   line == [kind |-> kind, day |-> day]
        <4>1. t \in Streams
          BY <3>2 DEF StreamOf, Streams, Kinds
        <4>2. file' = [file EXCEPT ![slot][t][day] = AppendLine(@, line)]
          BY <2>1, <3>2 DEF Deliver
        <4>3. ~(c = slot /\ s = t /\ d = day)
          BY <2>1, <2>4, <3>2, <4>1 DEF IInv, LiveIsMade
        <4> HIDE DEF t, line
        <4>4. file'[c][s][d] = f
          BY <1>2, <4>2, <4>3 DEF IInv, TypeOK
        <4> QED BY <2>4, <4>4
      <3> QED BY <2>1, <3>1, <3>2 DEF Deliver
    <2> QED BY <2>3, <2>4
  <1>6. CASE WriteToNewFiles(kind, day)
    <2> DEFINE saved == Saved
               opened == ForDay(saved, day, Opened)
               live == [t \in Streams |-> "live"]
    <2>1. slot \in Cards /\ ymd' = day /\ Deliver(kind, day, opened, live)
      BY <1>6, <1>2 DEF WriteToNewFiles, CanOpen, Streams
    <2>2. GoodDisk(saved) /\ AllSynced(saved)
      BY SavedGood
    <2>3. saved[c][s][d].made = f.made /\ (Headed(saved[c][s][d]) <=> Headed(f))
      BY <1>2, SavedHeaded
    <2> HIDE DEF saved
    <2>4. opened[c][s][d] = IF c = slot /\ d = day THEN Opened(s, saved[c][s][d]) ELSE saved[c][s][d]
      BY <1>2, <2>2 DEF ForDay, GoodDisk
    <2>5. GoodDisk(opened)
      BY <2>1, <2>2, DayOpenedGood
    <2> HIDE DEF f
    <2>6. GoodFile(saved[c][s][d], s, d)
      BY <1>2, <2>2 DEF GoodDisk
    <2>7. c = slot /\ d = day => Headed(opened[c][s][d])
      BY <1>3, <2>3, <2>4, <2>6, OpenedHeaded DEF GoodFile
    <2>8. f.made => Headed(opened[c][s][d])
      BY <1>3, <2>3, <2>4, <2>7
    <2> HIDE DEF opened
    <2>9. CASE Headed(opened[c][s][d])
      BY <2>1, <2>5, <2>9, DeliverHeaded
    <2>10. CASE ~(c = slot /\ d = day)
      <3>1. file'[c][s][d] = opened[c][s][d]
        <4>1. CASE file' = opened
          BY <4>1
        <4>2. CASE kind # "burst" /\ file' # opened
          <5> DEFINE t == StreamOf[kind]
                     line == [kind |-> kind, day |-> day]
          <5>1. t \in Streams
            BY <4>2 DEF StreamOf, Streams, Kinds
          <5>2. file' = [opened EXCEPT ![slot][t][day] = AppendLine(@, line)]
            BY <2>1, <4>2 DEF Deliver
          <5> HIDE DEF t, line
          <5> QED BY <1>2, <2>1, <2>5, <2>10, <5>1, <5>2 DEF GoodDisk
        <4> QED BY <2>1, <4>1, <4>2 DEF Deliver
      <3> QED BY <3>1, <2>3, <2>4, <2>8, <2>9, <2>10
    <2> QED BY <2>7, <2>9, <2>10
  <1>7. ASSUME NEW room \in 0..3, WriteOpenFails(kind, day, room)
        PROVE  Headed(file'[c][s][d])
    <2> DEFINE saved == Saved
    <2>1. saved[c][s][d].made = f.made /\ (Headed(saved[c][s][d]) <=> Headed(f))
      BY <1>2, SavedHeaded
    <2>2. \A t \in Failing(day, room) : ~CanOpen(t)
      <3>1. ~(faults' = faults + 1)
        BY DEF Unharmed, IInv, TypeOK
      <3> QED BY <1>7, <3>1, Zenon DEF WriteOpenFails, Refuses
    <2>3. slot # NoCard => ~dir[slot]
      BY <1>7, <2>2 DEF WriteOpenFails, CanOpen
    <2>4. file' = IF slot = NoCard THEN saved ELSE DayTouched(saved, day, Failing(day, room))
      BY <1>7 DEF WriteOpenFails, ForDay, Touched, DayTouched
    <2>5. GoodDisk(saved)
      BY SavedGood
    <2> HIDE DEF saved, f
    <2>6. file'[c][s][d] = saved[c][s][d]
      BY <1>2, <2>3, <2>4, <2>5 DEF DayTouched, GoodDisk
    <2> QED BY <1>3, <2>1, <2>6, <1>7
  <1> QED BY <1>4, <1>5, <1>6, <1>7 DEF Write

LEMMA ReadableStep ==
  ASSUME IInv, [Next]_vars, Unharmed => Readable
  PROVE  Unharmed' => Readable'
  <1> SUFFICES ASSUME Unharmed' PROVE Readable'
    OBVIOUS
  <1> USE DEF Unharmed
  <1>1. CASE Begin
    <2>1. Unharmed /\ ~power /\ power' /\ file' = file
      BY <1>1 DEF Begin
    <2> QED BY <2>1 DEF Readable, WithHeader, Streams
  <1>2. ASSUME NEW kind \in Kinds, NEW day \in Days, Write(kind, day) PROVE Readable'
    <2>1. Unharmed
      <3>1. cuts' = cuts /\ (faults' = faults \/ Refuses)
        <4>1. ASSUME NEW room \in 0..3, WriteOpenFails(kind, day, room)
              PROVE  cuts' = cuts /\ (faults' = faults \/ Refuses)
          BY <4>1, Zenon DEF WriteOpenFails
        <4> QED BY <1>2, <4>1, Zenon DEF Write, WriteWithoutCard, WriteToOpenFiles,
                WriteToNewFiles, Deliver
      <3> QED BY <3>1 DEF Refuses, IInv, TypeOK
    <2> QED BY <1>2, <2>1, WriteReadable
  <1>3. CASE Flush
    <2>1. Unharmed /\ power' /\ file' = Saved /\ dir' = dir
      BY <1>3 DEF Flush
    <2>2. WithHeader \subseteq Streams
      BY DEF WithHeader, Streams
    <2>3. \A c \in Cards, s \in WithHeader, d \in Days :
            dir[c] /\ Saved[c][s][d].made => Headed(Saved[c][s][d])
      BY <2>1, <2>2, SavedHeaded DEF Readable
    <2> QED BY <2>1, <2>3 DEF Readable, Headed
  <1>4. ASSUME NEW c \in Cards, InsertCard(c) PROVE Readable'
    BY <1>4 DEF InsertCard, Readable, disk, Headed
  <1>5. ASSUME NEW kept \in Kept, PullCard(kept) \/ PowerLoss(kept) PROVE Readable'
    BY <1>5 DEF PullCard, PowerLoss, IInv, TypeOK
  <1>6. CASE UNCHANGED vars
    BY <1>6 DEF vars, disk, Readable, Headed
  <1> QED BY <1>1, <1>2, <1>3, <1>4, <1>5, <1>6 DEF Next, Writes

\* A card that was given its /vibration, in a unit that lost no power and kept
\* its cards, loads without an exception and with every line.
THEOREM LoadsBack == Spec => []LoadsUnlessCut
  <1>1. Init => (Unharmed => Readable)
    BY DEF Init, Readable, NoFile, WithHeader, Streams
  <1>2. IInv /\ (Unharmed => Readable) => LoadsUnlessCut
    <2> SUFFICES ASSUME IInv, Readable, NEW c \in Cards, dir[c]
                 PROVE  /\ ~LoadDeployment(c).raises
                        /\ \A s \in Streams, d \in Days : \A k \in 1..Len(file[c][s][d].text) :
                             file[c][s][d].text[k] # Header => <<d, k>> \in LoadDeployment(c).rows[s]
      BY DEF LoadsUnlessCut, Unharmed
    <2>1. ASSUME NEW s \in Streams PROVE LoadsStream(c, s)
      BY DEF LoadsStream, DaysWithFile, Readable, Headed
    <2>2. ASSUME NEW s \in Streams, NEW d \in Days, NEW k \in 1..Len(file[c][s][d].text),
                 file[c][s][d].text[k] # Header
          PROVE  <<d, k>> \in Dated(c, s)
      <3> DEFINE f == file[c][s][d]
      <3>1. f \in FileType /\ (~f.made => f.text = <<>>) /\ Len(f.text) \in Nat
        BY LenProperties DEF IInv, GoodDisk, GoodFile, FileType
      <3>2. f.made
        BY <3>1, <2>2, EmptySeq
      <3>3. d \in DaysWithFile(c, s)
        BY <3>2 DEF DaysWithFile
      <3>4. s \in WithHeader => Headed(f)
        BY <3>2 DEF Readable
      <3>5. s \in WithHeader => k \in 2..Len(f.text)
        BY <2>2, <3>1, <3>4 DEF Headed
      <3> DEFINE R(e) == LET g == file[c][s][e]
                             first == IF s \in WithHeader THEN 2 ELSE 1
                         IN IF s \in WithHeader /\ ~Headed(g) THEN {}
                            ELSE {<<e, j>> : j \in first..Len(g.text)}
      <3>6. <<d, k>> \in R(d)
        BY <3>4, <3>5
      <3> QED BY <3>3, <3>6 DEF Dated
    <2> QED BY <2>1, <2>2 DEF LoadDeployment
  <1> QED BY <1>1, <1>2, Invariance, ReadableStep, PTL DEF Spec

=============================================================================
