---------------------------- MODULE UploadCircuit ----------------------------
(***************************************************************************)
(* The circuit that pauses dispatch when uploads into OpenSandbox keep      *)
(* failing: opensandbox-upload-circuit.ts, the two gates of dispatcher.ts   *)
(* that consult it (claimPendingJobs and runJob), and the ends of a run     *)
(* that feed it.  One Scheduler process; its state dies with the process.   *)
(*                                                                          *)
(* Clocks are abstracted to what may have passed: the gap that ends a wave, *)
(* the cooldown and the "recently open" time since the circuit opened, and  *)
(* the window a failure counts in.                                          *)
(***************************************************************************)
EXTENDS Integers

CONSTANTS
  Jobs,         \* the Jobs of the queue; an ended one may be submitted again
  Workers,      \* the Jobs whose failures count: neither hub_reason nor report
  Scopes,       \* a scope is a project and a canvas
  ScopeOf,      \* [Jobs -> Scopes]
  WavesToTrip,  \* UPLOAD_CIRCUIT_WAVES_TO_TRIP
  JobsToTrip,   \* UPLOAD_CIRCUIT_JOBS_TO_TRIP
  ProbeAfter,   \* UPLOAD_CIRCUIT_PROBE_AFTER_FAILURES
  MaxCount      \* counts beyond this bound are not told apart

ASSUME UploadAssumption ==
  /\ Workers \subseteq Jobs
  /\ ScopeOf \in [Jobs -> Scopes]
  /\ WavesToTrip \in Nat \ {0} /\ JobsToTrip \in Nat \ {0} /\ ProbeAfter \in Nat \ {0}
  /\ MaxCount \in Nat /\ WavesToTrip <= MaxCount /\ JobsToTrip <= MaxCount

VARIABLES
  circuit,  \* globalState and openedAtMs (how long ago)
  scopes,   \* per scope: all-upload waves in a row, current wave, failures in the window
  pc,       \* per Job: where its runJob call stands
  row,      \* per Job: its row is pending, active or ended
  round,    \* the dispatch round of the process
  image     \* is a probe image configured (otherwise probes are skipped)

vars == <<circuit, scopes, pc, row, round, image>>

Controls == {"idle", "claimed", "probing", "running", "refused", "counting",
             "sealing", "failing"}

ClosedCircuit == [state |-> "closed", openedAt |-> "none"]
EmptyScope == [waves |-> 0, wave |-> "none", idle |-> FALSE, recent |-> 0]

Count(n) == IF n < MaxCount THEN n + 1 ELSE n

(***************************************************************************)
(* The circuit.                                                             *)
(***************************************************************************)
\* tripOpenSandboxUploadCircuit: openedAtMs keeps its value while the circuit is
\* not closed.  The restart it may ask for is the action Restart, and waiting
\* for one that fails is a delay of the caller's next action.
Tripped(c) ==
  [state |-> "open",
   openedAt |-> IF c.openedAt = "none" THEN "fresh" ELSE c.openedAt]

\* markOpenSandboxUploadCircuitHalfOpen
HalfOpened(c) ==
  IF c.state = "open" /\ c.openedAt \in {"cooled", "old"}
  THEN [c EXCEPT !.state = "half_open"] ELSE c

AllowsDispatch == circuit.state \in {"closed", "half_open"}

ShouldProbe ==
  \/ circuit.state \in {"open", "half_open"}
  \/ \E s \in Scopes : scopes[s].recent >= ProbeAfter
  \/ circuit.openedAt \in {"fresh", "cooled"}

\* (mutant: closing forgets to reset the scopes)
CloseKeepingScopes == circuit' = ClosedCircuit /\ UNCHANGED scopes

Close ==
  /\ circuit' = ClosedCircuit
  /\ scopes' = [s \in Scopes |-> EmptyScope]

(***************************************************************************)
(* Waves.                                                                   *)
(***************************************************************************)
FinalizedWave(st) ==
  [st EXCEPT !.wave = "none", !.idle = FALSE,
             !.waves = CASE st.wave = "upload" -> Count(st.waves)
                         [] st.wave = "other" -> 0
                         [] OTHER -> st.waves]

\* What recordOpenSandboxJobOutcome does to a scope when a Job of it fails.
Recorded(st, upload) ==
  LET gone == st.wave # "none" /\ st.idle
      now == IF gone THEN FinalizedWave(st) ELSE st
  IN [now EXCEPT !.wave = IF upload /\ now.wave # "other" THEN "upload" ELSE "other",
                 !.idle = FALSE,
                 !.recent = IF upload THEN Count(now.recent) ELSE now.recent]

Persistent(st) == st.recent >= JobsToTrip \/ st.waves >= WavesToTrip

Init ==
  /\ circuit = ClosedCircuit
  /\ scopes = [s \in Scopes |-> EmptyScope]
  /\ pc = [j \in Jobs |-> "idle"]
  /\ row = [j \in Jobs |-> "ended"]
  /\ round = "idle"
  /\ image \in BOOLEAN

(***************************************************************************)
(* The queue and the dispatch round.                                        *)
(***************************************************************************)
Submit(j) ==
  /\ row[j] = "ended" /\ pc[j] = "idle"
  /\ row' = [row EXCEPT ![j] = "pending"]
  /\ UNCHANGED <<circuit, scopes, pc, round, image>>

\* The gate of claimPendingJobs lets the round through without a probe.
RoundPasses ==
  /\ round = "idle"
  /\ AllowsDispatch
  /\ ~ShouldProbe
  /\ round' = "claiming"
  /\ UNCHANGED <<circuit, scopes, pc, row, image>>

\* It probes first; an open circuit has ended the round before this.
RoundProbes ==
  /\ round = "idle"
  /\ AllowsDispatch
  /\ ShouldProbe
  /\ circuit' = HalfOpened(circuit)
  /\ round' = "probing"
  /\ UNCHANGED <<scopes, pc, row, image>>

\* The answers of probeOpenSandboxUploadBeforeDispatch, for either caller.
ProbeSkipped == ~image /\ UNCHANGED <<circuit, scopes>>

\* (mutant: a probe that answers well closes an open circuit only)
ProbeOkOpenOnly ==
  /\ image
  /\ IF circuit.state = "open" THEN Close ELSE UNCHANGED <<circuit, scopes>>

ProbeOk ==
  /\ image
  /\ IF circuit.state # "closed" THEN Close ELSE UNCHANGED <<circuit, scopes>>
ProbeFails == image /\ circuit' = Tripped(circuit) /\ UNCHANGED scopes

RoundAnswered ==
  /\ round = "probing"
  /\ \/ ProbeOk /\ round' = "claiming"
     \/ ProbeSkipped /\ round' = IF circuit.state = "open" THEN "idle" ELSE "claiming"
     \/ ProbeFails /\ round' = "idle"
  /\ UNCHANGED <<pc, row, image>>

RoundClaims ==
  /\ round = "claiming"
  /\ \E claimed \in SUBSET {j \in Jobs : row[j] = "pending" /\ pc[j] = "idle"} :
        /\ pc' = [j \in Jobs |-> IF j \in claimed THEN "claimed" ELSE pc[j]]
        /\ row' = [j \in Jobs |-> IF j \in claimed THEN "active" ELSE row[j]]
  /\ round' = "idle"
  /\ UNCHANGED <<circuit, scopes, image>>

(***************************************************************************)
(* The gate of runJob.                                                      *)
(***************************************************************************)
Go(j, to) == pc' = [pc EXCEPT ![j] = to]

\* (mutant: the Job relies on the gate of the round that claimed it)
RunPassesUnchecked(j) ==
  /\ pc[j] = "claimed"
  /\ Go(j, "running")
  /\ UNCHANGED <<circuit, scopes, row, round, image>>

RunPasses(j) ==
  /\ pc[j] = "claimed"
  /\ ~ShouldProbe
  /\ Go(j, "running")
  /\ UNCHANGED <<circuit, scopes, row, round, image>>

RunProbes(j) ==
  /\ pc[j] = "claimed"
  /\ ShouldProbe
  /\ circuit' = HalfOpened(circuit)
  /\ Go(j, "probing")
  /\ UNCHANGED <<scopes, row, round, image>>

\* Without an ok the Job throws the circuit's own error.
RunAnswered(j) ==
  /\ pc[j] = "probing"
  /\ \/ ProbeOk /\ Go(j, "running")
     \/ ProbeSkipped /\ Go(j, IF circuit.state = "open" THEN "refused" ELSE "running")
     \/ ProbeFails /\ Go(j, "refused")
  /\ UNCHANGED <<row, round, image>>

(***************************************************************************)
(* The ends of a run.                                                       *)
(***************************************************************************)
RunSucceeds(j) ==
  /\ pc[j] = "running"
  /\ IF circuit.state # "closed" THEN Close
     ELSE scopes' = [scopes EXCEPT ![ScopeOf[j]] = EmptyScope] /\ UNCHANGED circuit
  /\ Go(j, "idle")
  /\ row' = [row EXCEPT ![j] = "ended"]
  /\ UNCHANGED <<round, image>>

\* A stale run, a Job that waits for a human and a Job queued again are not recorded.
RunEndsUnrecorded(j) ==
  /\ pc[j] = "running"
  /\ Go(j, "idle")
  /\ \E to \in {"pending", "ended"} :
        row' = [row EXCEPT ![j] = IF row[j] = "active" THEN to ELSE row[j]]
  /\ UNCHANGED <<circuit, scopes, round, image>>

\* A failure of the run, or the error of the gate, which is not an upload failure.
RunFails(j) ==
  /\ pc[j] \in {"running", "refused"}
  /\ IF j \in Workers
     THEN \E upload \in IF pc[j] = "running" THEN BOOLEAN ELSE {FALSE} :
            LET st == Recorded(scopes[ScopeOf[j]], upload) IN
            /\ scopes' = [scopes EXCEPT ![ScopeOf[j]] = st]
            /\ circuit' = IF Persistent(st) THEN Tripped(circuit) ELSE circuit
            /\ Go(j, "counting")
     ELSE Go(j, "failing") /\ UNCHANGED <<circuit, scopes>>
  /\ UNCHANGED <<row, round, image>>

\* The query that asks whether the batch of the canvas is over counts every
\* Worker of the canvas whose row has not ended.
CountActive(j) ==
  /\ pc[j] = "counting"
  /\ Go(j, IF \E k \in Workers : ScopeOf[k] = ScopeOf[j] /\ row[k] # "ended"
           THEN "failing" ELSE "sealing")
  /\ UNCHANGED <<circuit, scopes, row, round, image>>

\* sealOpenSandboxUploadWave
Seal(j) ==
  /\ pc[j] = "sealing"
  /\ LET st == FinalizedWave(scopes[ScopeOf[j]]) IN
     /\ scopes' = [scopes EXCEPT ![ScopeOf[j]] = st]
     /\ circuit' = IF st.waves >= WavesToTrip THEN Tripped(circuit) ELSE circuit
  /\ Go(j, "failing")
  /\ UNCHANGED <<row, round, image>>

\* failExecution: the row of the Job ends only now.
RowFails(j) ==
  /\ pc[j] = "failing"
  /\ Go(j, "idle")
  /\ row' = [row EXCEPT ![j] = "ended"]
  /\ UNCHANGED <<circuit, scopes, round, image>>

\* A cancel, the Reaper or an ingested terminal event ends the row of a Job
\* whose run goes on.
OthersEnd(j) ==
  /\ row[j] # "ended"
  /\ row' = [row EXCEPT ![j] = "ended"]
  /\ UNCHANGED <<circuit, scopes, pc, round, image>>

(***************************************************************************)
(* Restarts and the passing of time.                                        *)
(***************************************************************************)
\* The process restarts, by itself or because a trip restarted it.  Boot
\* recovery queues or ends the Jobs that were being run.
Restart ==
  /\ circuit' = ClosedCircuit
  /\ scopes' = [s \in Scopes |-> EmptyScope]
  /\ pc' = [j \in Jobs |-> "idle"]
  /\ \E requeued \in SUBSET {j \in Jobs : row[j] = "active"} :
        row' = [j \in Jobs |-> IF row[j] # "active" THEN row[j]
                               ELSE IF j \in requeued THEN "pending" ELSE "ended"]
  /\ round' = "idle"
  /\ image' \in BOOLEAN

OpenAges ==
  /\ circuit.openedAt \in {"fresh", "cooled"}
  /\ circuit' = [circuit EXCEPT !.openedAt = IF @ = "fresh" THEN "cooled" ELSE "old"]
  /\ UNCHANGED <<scopes, pc, row, round, image>>

WaveGapPasses(s) ==
  /\ scopes[s].wave # "none" /\ ~scopes[s].idle
  /\ scopes' = [scopes EXCEPT ![s].idle = TRUE]
  /\ UNCHANGED <<circuit, pc, row, round, image>>

\* (mutant: the count is lowered though no failure is left in the window)
FailureExpiresUnasked(s) ==
  /\ scopes' = [scopes EXCEPT ![s].recent = @ - 1]
  /\ UNCHANGED <<circuit, pc, row, round, image>>

FailureExpires(s) ==
  /\ scopes[s].recent > 0
  /\ scopes' = [scopes EXCEPT ![s].recent = @ - 1]
  /\ UNCHANGED <<circuit, pc, row, round, image>>

Run(j) ==
  RunPasses(j) \/ RunProbes(j) \/ RunAnswered(j) \/ RunSucceeds(j) \/ RunEndsUnrecorded(j)
  \/ RunFails(j) \/ CountActive(j) \/ Seal(j) \/ RowFails(j)

Round == RoundPasses \/ RoundProbes \/ RoundAnswered \/ RoundClaims

Next ==
  \/ Round
  \/ \E j \in Jobs : Submit(j) \/ Run(j) \/ OthersEnd(j)
  \/ Restart
  \/ OpenAges
  \/ \E s \in Scopes : WaveGapPasses(s) \/ FailureExpires(s)

Spec == Init /\ [][Next]_vars

\* Rounds are kicked again and again, a probe answers within its timeout, a
\* run ends, and time passes.  No restart is promised.
FairSpec ==
  /\ Spec
  /\ WF_vars(Round)
  /\ \A j \in Jobs : WF_vars(Run(j))
  /\ WF_vars(OpenAges)
  /\ \A s \in Scopes : WF_vars(WaveGapPasses(s)) /\ WF_vars(FailureExpires(s))
-----------------------------------------------------------------------------
\* The variables hold states, scopes and controls of the expected shape.
TypeOK ==
  /\ circuit \in [state : {"closed", "open", "half_open"},
                  openedAt : {"none", "fresh", "cooled", "old"}]
  /\ scopes \in [Scopes -> [waves : 0..MaxCount, wave : {"none", "upload", "other"},
                            idle : BOOLEAN, recent : 0..MaxCount]]
  /\ pc \in [Jobs -> Controls]
  /\ row \in [Jobs -> {"pending", "active", "ended"}]
  /\ round \in {"idle", "probing", "claiming"}
  /\ image \in BOOLEAN

\* While the circuit is closed no scope holds the evidence that trips it,
\* whichever runs, probes and successes closed and fed it in between:
\* otherwise a pause would be due that nobody starts.
NoEvidenceWhileClosed ==
  circuit.state = "closed" => \A s \in Scopes : ~Persistent(scopes[s])

\* A Job that a round claimed before the circuit opened does not start on an
\* open circuit: it starts on a closed or half-open one, or by closing it.
OpenCircuitStartsNothing ==
  [][\A j \in Jobs : pc[j] \in {"claimed", "probing"} /\ pc'[j] = "running"
        => circuit'.state # "open"]_vars

\* Half-open is a question that is answered: while a probe is configured, the
\* circuit does not stay half-open for ever.
HalfOpenIsDecided ==
  (image /\ circuit.state = "half_open") ~> (circuit.state # "half_open" \/ ~image)

\* "new worker dispatch paused until recovery": an open circuit is left some day.
OpenCircuitRecovers == circuit.state = "open" ~> circuit.state # "open"
=============================================================================
