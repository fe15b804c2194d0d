------------------------------- MODULE Report -------------------------------
(***************************************************************************)
(* What frosty_analysis.report derives from a deployment on its own: the   *)
(* compressor cycles and the bursts it shows.                              *)
(***************************************************************************)
EXTENDS Signatures

\* the end of _deployment_window; only asked of a deployment that has rows
Latest(rows) == Max({rows[k].ts : k \in 1..Len(rows)})

\* Mutant of RisingEdges: np.diff without prepend=0.
RisingEdgesInside(cmd) ==
  Ascending({k \in 2..Len(cmd) : cmd[k] /\ ~cmd[k - 1]})

\* np.diff(cmd, prepend=0) == 1 and np.diff(cmd, append=0) == -1
RisingEdges(cmd) ==
  Ascending({k \in 1..Len(cmd) : cmd[k] /\ (k > 1 => ~cmd[k - 1])})
FallingEdges(cmd) ==
  Ascending({k \in 1..Len(cmd) : cmd[k] /\ (k < Len(cmd) => ~cmd[k + 1])})

\* The n-th rising edge is paired with the n-th falling one.
CompressorCycles(rows) ==
  LET starts == RisingEdges(BoolCol(rows, "cmd"))
      ends == FallingEdges(BoolCol(rows, "cmd"))
  IN [n \in 1..Min({Len(starts), Len(ends)}) |-> <<starts[n], ends[n]>>]

\* load_vibration_burst raises no ValueError: the header is whole and known,
\* and at least the samples it announces follow.
Decodes(burst) ==
  burst.header /\ burst.magic /\ burst.version = 1 /\ burst.payload >= burst.samples

\* An empty burst has nothing to score.
Readable(burst) == Decodes(burst) /\ burst.samples > 0

\* Mutant of Louder: a later burst replaces an earlier one of its pod.
LouderOrLater(burst, best) == TRUE

\* "score > best_score[burst.pod_id]", or the first of its pod; 0 is nobody.
Louder(burst, best) == best[burst.pod] = 0 \/ burst.peak > best[burst.pod]

\* _representative_bursts, as the score of the burst shown for each pod.
RepresentativeBursts(bursts) ==
  LET best[n \in 0..Len(bursts)] ==
        IF n = 0 THEN [pod \in {1, 2} |-> 0]
        ELSE LET burst == bursts[n]
                 before == best[n - 1]
             IN IF Readable(burst) /\ Louder(burst, before)
                  THEN [before EXCEPT ![burst.pod] = burst.peak] ELSE before
  IN best[Len(bursts)]

=============================================================================
