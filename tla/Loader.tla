------------------------------- MODULE Loader -------------------------------
(***************************************************************************)
(* load_deployment reads back what SdStorageSink left on a card.           *)
(*                                                                         *)
(* pd.read_csv (external) takes the first line of a file for its header,   *)
(* whatever it is, and raises on a file without any.  The daily files of a *)
(* stream are concatenated by column: a row of a file whose header is      *)
(* missing has no ts_iso, and if no file has one the column itself is      *)
(* missing and the lookup raises.  Lines are whole here.                   *)
(***************************************************************************)
EXTENDS SdSink

\* The days of which the card c has a file of stream s; the vibration
\* summaries are only looked for in a directory that exists.
DaysWithFile(c, s) == {d \in Days : file[c][s][d].made /\ (s = "vib" => dir[c])}

Headed(f) == f.text # <<>> /\ f.text[1] = Header

\* The positions of the lines of a stream that come back as rows with a time.
Dated(c, s) ==
  UNION {LET f == file[c][s][d]
             first == IF s \in WithHeader THEN 2 ELSE 1
         IN IF s \in WithHeader /\ ~Headed(f) THEN {}
            ELSE {<<d, k>> : k \in first..Len(f.text)} : d \in DaysWithFile(c, s)}

\* The stream is read without an exception.
LoadsStream(c, s) ==
  LET days == DaysWithFile(c, s)
  IN s \in WithHeader /\ days # {} =>
       /\ \A d \in days : file[c][s][d].text # <<>>
       /\ \E d \in days : Headed(file[c][s][d])

\* load_deployment; a missing manifest is tolerated, and so are missing files.
LoadDeployment(c) ==
  [raises |-> \E s \in Streams : ~LoadsStream(c, s), rows |-> [s \in Streams |-> Dated(c, s)]]

-----------------------------------------------------------------------------

\* The loader and the sink agree on the format.  As long as no card was
\* pulled or full and no power was lost, a card with its /vibration loads whatever
\* rollovers and failed opens it has seen, and every line that was stored
\* comes back, with its time.
LoadsUnlessCut ==
  cuts = 0 /\ faults = 0 =>
    \A c \in Cards : dir[c] =>
      /\ ~LoadDeployment(c).raises
      /\ \A s \in Streams, d \in Days : \A k \in 1..Len(file[c][s][d].text) :
           file[c][s][d].text[k] # Header => <<d, k>> \in LoadDeployment(c).rows[s]

=============================================================================
