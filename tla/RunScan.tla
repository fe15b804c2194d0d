------------------------------- MODULE RunScan -------------------------------
(***************************************************************************)
(* The loop of frosty_analysis.signatures._runs, one sample per step, over *)
(* a mask that was logged sample by sample beforehand.  Positions count    *)
(* from 1 where Python's count from 0; start = 0 is Python's None.         *)
(***************************************************************************)
EXTENDS Runs

VARIABLES
  mask,   \* the samples
  pc,     \* "logging", "scanning" or "done"
  i,      \* samples visited
  start,  \* position where the open run starts, or 0
  found   \* runs

scanVars == <<mask, pc, i, start, found>>

ScanInit == mask = <<>> /\ pc = "logging" /\ i = 0 /\ start = 0 /\ found = <<>>

LogSample(v) ==
  /\ pc = "logging" /\ mask' = Append(mask, v)
  /\ UNCHANGED <<pc, i, start, found>>

\* "if mask.empty or not mask.any(): return []"
Call ==
  /\ pc = "logging"
  /\ pc' = IF \E k \in 1..Len(mask) : mask[k] THEN "scanning" ELSE "done"
  /\ UNCHANGED <<mask, i, start, found>>

\* The sample to visit next.
Visiting == pc = "scanning" /\ i < Len(mask) /\ i' = i + 1

OpenRun ==
  /\ Visiting /\ mask[i + 1] /\ start = 0
  /\ start' = i + 1
  /\ UNCHANGED <<mask, pc, found>>

\* Mutant of CloseRun: the run is taken to end at the sample after it.
CloseRunLate ==
  /\ Visiting /\ ~mask[i + 1] /\ start # 0
  /\ found' = Append(found, <<start, i + 1>>) /\ start' = 0
  /\ UNCHANGED <<mask, pc>>

CloseRun ==
  /\ Visiting /\ ~mask[i + 1] /\ start # 0
  /\ found' = Append(found, <<start, i>>) /\ start' = 0
  /\ UNCHANGED <<mask, pc>>

GoOn ==
  /\ Visiting /\ (mask[i + 1] <=> start # 0)
  /\ UNCHANGED <<mask, pc, start, found>>

\* After the loop: a run still open ends at the last sample.
Return ==
  /\ pc = "scanning" /\ i = Len(mask)
  /\ found' = IF start # 0 THEN Append(found, <<start, i>>) ELSE found
  /\ pc' = "done"
  /\ UNCHANGED <<mask, i, start>>

Scan == Call \/ OpenRun \/ CloseRun \/ GoOn \/ Return

-----------------------------------------------------------------------------

\* What _runs returns is every maximal run of the mask, none other, each
\* once and in order: whatever starts or ends in a run, is all TRUE, or has
\* none.
RunsExact ==
  pc = "done" =>
    /\ \A k \in 1..Len(found) : IsRun(mask, found[k][1], found[k][2])
    /\ \A k, l \in 1..Len(found) : k < l => found[k][2] < found[l][1]
    /\ \A p \in 1..Len(mask) : mask[p] =>
         \E k \in 1..Len(found) : p \in found[k][1]..found[k][2]

=============================================================================
