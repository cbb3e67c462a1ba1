-------------------------- MODULE CanvasConvergence --------------------------
(***************************************************************************)
(* How a canvas converges: findings go through verification rounds          *)
(* (verify.ts), a Hub is woken whenever the canvas would stand still        *)
(* (domains/hub-orchestration), and the analysis is complete when every     *)
(* finding has a verdict (evaluateAnalysisCompleteGate).                    *)
(*                                                                          *)
(* Every operation that matters holds the row lock of the canvas            *)
(* (lockCanvasForConvergence) for its whole transaction.  What the lock     *)
(* protects is therefore ONE record, canvas, a transaction is one action,   *)
(* and the functions the transactions share are operators from a canvas to  *)
(* the canvas, or the set of canvases, they leave behind.  The steps a code *)
(* path takes in transactions of their own are actions of their own.        *)
(*                                                                          *)
(* Findings are in scope of verification and the Hub is enabled.  Left out: *)
(* plan tasks, completion recovery, knowledge Jobs, the drain, the rows and *)
(* versions of reports.  There is a role that writes reports, and           *)
(* analysis_complete stands for reporting as well.                          *)
(***************************************************************************)
EXTENDS Integers, FiniteSets

CONSTANTS
  Findings,        \* findings that Jobs of the canvas may report
  MaxRounds,       \* rules.maxVerificationRounds, 0 is unlimited
  MaxNoProgress,   \* rules.maxNoProgressRounds, 0 is never
  MaxAutoRetries,  \* rules.maxAutoRetries
  MaxHubRounds,    \* rules.maxHubRounds, 0 is unlimited
  MaxRoles,        \* bound: active Jobs of ordinary roles
  MaxFollow,       \* bound: active evidence Jobs of one finding
  MaxHubs,         \* bound: Hubs that are active or wait for a human
  MaxDisturbances  \* bound: interventions of operators, cancels, reaped Jobs, restarts

ASSUME ConvergenceAssumption ==
  /\ MaxRounds \in Nat /\ MaxNoProgress \in Nat /\ MaxAutoRetries \in Nat
  /\ MaxHubRounds \in Nat /\ MaxRoles \in Nat /\ MaxFollow \in Nat /\ MaxHubs \in Nat
  /\ MaxDisturbances \in Nat

VARIABLES
  canvas,      \* what the lock of the canvas protects
  disturbances \* how many of the disturbances have happened

vars == <<canvas, disturbances>>

\* INCONCLUSIVE_ESCALATE_AFTER_HUB_ROUNDS
EscalateAfter == 2

Converged == {"confirmed", "needs_human", "refuted", "inconclusive"}
Statuses == Converged \cup {"absent", "pending", "verifying"}

\* What the facts say of a finding: the result of the fact gate with what it
\* misses, which is all that gateFingerprint depends on.
Gates == {"missing", "partial", "passed", "rejected", "conflict"}

\* The newest round: none yet, waiting for evidence, with a Verify Job, or closed.
Rounds == {"none", "waiting", "job", "closed"}

Later(a, b) == IF a >= b THEN a ELSE b
Saturate(n, top) == IF n >= top THEN top ELSE n

(***************************************************************************)
(* One finding: its row, its newest round, its Verify Job, its evidence.    *)
(***************************************************************************)
Open(g) == g.round \in {"waiting", "job"}

\* What the rounds and the evidence of a finding with a verdict say is never read
\* again, but for the outcomes: it is dropped.
Conclude(g, status) ==
  [g EXCEPT !.status = status, !.gate = "missing", !.seen = FALSE, !.attempt = 0,
            !.round = IF Open(g) THEN "closed" ELSE @,
            !.fp = "none", !.snap = FALSE, !.hubFp = "none", !.wakes = 0, !.stuck = 0,
            !.fails = 0]

\* (mutant: the status is set and the round stays open)
SettleStatusOnly(g, status) ==
  IF g.status = "confirmed" THEN g ELSE [g EXCEPT !.status = status]

\* settleFindingVerifyTerminal closes an open round and inserts none.
Settle(g, status) ==
  IF g.status = "confirmed" THEN g
  ELSE [Conclude(g, status) EXCEPT !.outcomes = IF Open(g) THEN @ \cup {status} ELSE @]

\* confirmFindingFromFacts: closes the waiting round or inserts a confirmed one,
\* and dispatches the report of the finding.
ConfirmFromFacts(g) ==
  [Conclude(g, "confirmed") EXCEPT !.round = "closed", !.report = TRUE,
                                   !.outcomes = @ \cup {"confirmed"}]

NextAttempt(g) == IF Open(g) THEN g.attempt ELSE g.attempt + 1

\* A new round starts without the marks of the round before it.
InsertRound(g) ==
  [g EXCEPT !.attempt = @ + 1, !.fp = "none", !.hubFp = "none", !.wakes = 0, !.stuck = 0]

RoundFor(g) == IF g.round = "waiting" THEN g ELSE InsertRound(g)

WaitForEvidence(g) ==
  [RoundFor(g) EXCEPT !.status = "pending", !.round = "waiting", !.fp = g.gate,
                      !.snap = g.seen]

StartVerify(g) ==
  [RoundFor(g) EXCEPT !.status = "verifying", !.round = "job", !.vjob = "active"]

\* (mutant: the result of the gate is taken for the verdict)
VerdictIsGate(gate) == gate

\* The verdict of the facts alone (classifyFactFirstFollowup)
Verdict(gate) == IF gate = "rejected" THEN "refuted" ELSE "inconclusive"

\* createVerifyRound; deep says that followupDepth has reached its limit
CreateVerifyRound(g, deep, manual) ==
  CASE deep                                              -> Settle(g, "inconclusive")
    [] ~deep /\ MaxRounds > 0 /\ NextAttempt(g) > MaxRounds -> Settle(g, "inconclusive")
    [] ~deep /\ ~(MaxRounds > 0 /\ NextAttempt(g) > MaxRounds) ->
         CASE g.vjob = "active"                          -> g
           [] g.vjob # "active" /\ manual                ->
                IF g.round = "job" THEN g ELSE StartVerify(g)
           [] g.vjob # "active" /\ ~manual               ->
                CASE g.gate = "passed"                   -> ConfirmFromFacts(g)
                  [] g.gate \in {"rejected", "conflict"} -> Settle(g, Verdict(g.gate))
                  [] g.gate \in {"missing", "partial"}   ->
                       IF g.round = "job" THEN g ELSE WaitForEvidence(g)

\* maybeReverifyAfterFollowup on a finding whose other evidence Jobs have ended;
\* pair says that its evidence, an independent review and test, misses nothing.
NoProgress(g, pair) ==
  g.round # "none" /\ g.fp = g.gate /\ g.gate \in {"missing", "partial"} /\ ~pair

GiveUp(g) ==
  \/ MaxNoProgress > 0 /\ (g.stuck + 1 >= MaxNoProgress \/ g.hubFp = g.gate)
  \/ MaxRounds > 0 /\ g.attempt >= MaxRounds

Reverify(g, deep, pair) ==
  CASE g.gate = "passed"                   -> ConfirmFromFacts(g)
    [] g.gate \in {"rejected", "conflict"} -> Settle(g, Verdict(g.gate))
    [] g.gate \in {"missing", "partial"}   ->
         IF NoProgress(g, pair)
         THEN LET counted == [g EXCEPT !.stuck = Saturate(@ + 1, Later(MaxNoProgress, 1))]
              IN IF GiveUp(g) THEN Settle(counted, "inconclusive") ELSE counted
         ELSE CreateVerifyRound(
                IF g.round = "none" THEN g ELSE [g EXCEPT !.fp = g.gate, !.stuck = 0],
                deep, FALSE)

\* (mutant: a verdict that was given meanwhile is not looked at)
MaybeReverifyAnyway(g, deep, pair) ==
  IF g.follow > 0 \/ g.vjob = "active" THEN g ELSE Reverify(g, deep, pair)

MaybeReverify(g, deep, pair) ==
  IF g.status \in Converged \/ g.follow > 0 \/ g.vjob = "active" THEN g
  ELSE Reverify(g, deep, pair)

\* confirmFindingFromFacts would insert a second row of the attempt whose round
\* still has its dead Verify Job: the unique key rejects the whole transaction.
Collides(g) ==
  /\ g.status = "verifying" /\ g.follow = 0 /\ g.vjob # "active"
  /\ g.gate = "passed" /\ g.round = "job"

\* closeVerifyRound after a failure: FALSE says that a Hub is not forced
RetriesLeft(g, status) ==
  /\ status = "failed" /\ g.fails < MaxAutoRetries
  /\ ~(MaxRounds > 0 /\ g.attempt >= MaxRounds)

CloseFailed(g, status) ==
  IF RetriesLeft(g, status)
  THEN [g EXCEPT !.status = "pending", !.round = "closed",
                 !.fails = Saturate(@ + 1, MaxAutoRetries)]
  ELSE [Conclude(g, "inconclusive") EXCEPT !.outcomes = @ \cup {"inconclusive"}]

\* closeVerifyRound after a success: what the facts leave of the proposal
Final(g, proposed) ==
  LET judged == CASE proposed = "confirmed" /\ g.gate = "passed"   -> "confirmed"
                  [] proposed = "refuted" /\ g.gate = "rejected"   -> "refuted"
                  [] proposed = "refuted" /\ g.gate = "conflict"   -> "inconclusive"
                  [] proposed = "needs_human"                      -> "needs_human"
                  [] OTHER                                         -> "rework"
  IN IF judged = "rework" /\ MaxRounds > 0 /\ g.attempt >= MaxRounds
     THEN "inconclusive" ELSE judged

CloseSucceeded(g, proposed) ==
  LET final == Final(g, proposed)
  IN IF final = "rework"
     THEN [g EXCEPT !.status = "pending", !.round = "closed", !.fails = 0]
     ELSE [Conclude(g, final) EXCEPT !.outcomes = @ \cup {final},
                                     !.report = @ \/ final = "confirmed"]

\* waitingEvidenceRound and shouldWakeEvidenceHub.  An equal signature refuses as
\* well: it lists what the gate misses, so its fingerprint is equal, too.
Waiting(g) == g.round = "waiting"
Wakeable(g) == Waiting(g) /\ ((~g.snap /\ g.wakes < EscalateAfter) \/ g.hubFp # g.fp)

(***************************************************************************)
(* The canvas: what the Hub orchestration counts and decides.               *)
(***************************************************************************)
With(c, f, g) == [c EXCEPT !.finding[f] = g]

FollowActive(c) == \E f \in Findings : c.finding[f].follow > 0
VerifyActive(c) == \E f \in Findings : c.finding[f].vjob = "active"
RoleActive(c) == c.roles > 0 \/ FollowActive(c)

\* hasActiveWorkJobs: a Hub that waits for a human counts, report Jobs do not.
Busy(c) == RoleActive(c) \/ VerifyActive(c) \/ c.hubs > 0 \/ c.asking > 0

Reporting(c) == c.report = "live" \/ \E f \in Findings : c.finding[f].report

\* hasActiveRunnableJobs counts them all.
Runnable(c) == Busy(c) \/ Reporting(c)

\* canvasFindingsConverged
Traced(g) == g.status \in {"confirmed", "refuted", "inconclusive"} => g.status \in g.outcomes
FindingsConverged(c) ==
  \A f \in Findings :
    LET g == c.finding[f]
    IN /\ g.status \in Converged \cup {"absent"}
       /\ Traced(g) /\ ~Open(g)

WithinHubBudget(c) == MaxHubRounds = 0 \/ c.rounds < MaxHubRounds

\* settleCanvasFindingsAtGuardrail, and the stop for the pending findings alone
SettleAll(c, statuses) ==
  [c EXCEPT !.finding = [f \in Findings |->
     IF c.finding[f].status \in statuses THEN Settle(c.finding[f], "inconclusive")
                                         ELSE c.finding[f]]]

\* (mutant: nothing is done, and nothing says so)
StopSilently(c) == c

\* stopHubForUnclosedVerify: rounds wait for evidence and no Hub may be woken.
Stop(c) ==
  LET pending == \E f \in Findings : c.finding[f].status = "pending"
      inconclusive == \E f \in Findings : c.finding[f].status = "inconclusive"
  IN IF pending \/ (inconclusive /\ c.rounds >= EscalateAfter)
     THEN [SettleAll(c, {"pending", "inconclusive"}) EXCEPT !.stopped = TRUE]
     ELSE c

\* What maybeDispatchReport may do behind its gate: a Job, or none (one is under
\* way, the report exists, there is no role for it).
Dispatched(c) == {c, [c EXCEPT !.root = "analysis_complete", !.report = "live"]}

\* The end of the Hub budget: give up what is open, then complete or stop.
Exhausted(c) ==
  LET d == SettleAll(c, {"pending", "verifying"})
  IN IF FindingsConverged(d) /\ ~Busy(d) /\ d.roleDone
     THEN Dispatched([d EXCEPT !.root = "analysis_complete"])
     ELSE {[d EXCEPT !.stopped = TRUE]}

InsertHub(c) == [c EXCEPT !.hubs = @ + 1, !.parked = "no"]

\* The new Hub consumes the evidence of the round it is woken for.
InsertHubFor(c, f) ==
  InsertHub([c EXCEPT !.finding[f].hubFp = c.finding[f].fp,
                      !.finding[f].wakes = Saturate(@ + 1, EscalateAfter)])

Unstop(c, mode) == IF mode \in {"force", "idle"} THEN [c EXCEPT !.stopped = FALSE] ELSE c

\* maybeTriggerHub before the canvas is touched: who is turned away at the door
Held(c, mode) ==
  \/ c.root \in {"analysis_complete", "succeeded"}  \* rootAnalysisFinished
  \/ mode # "manual" /\ c.paused
  \/ mode = "normal" /\ c.stopped

\* ... and whose turn it is not
Early(c, mode) ==
  \/ c.hubs > 0
  \/ mode = "idle" /\ Runnable(c)
  \/ mode = "normal" /\ RoleActive(c)

\* maybeTriggerHub; "normal" is a graph progress, "idle" the wake-up of a canvas
\* that would stand still, "force" a verdict or a gate, "manual" an operator.
\* The oldest round that may wake a Hub is any of them here.
TriggerHub(c, mode) ==
  LET d     == Unstop(c, mode)
      ready == {f \in Findings : Wakeable(d.finding[f])}
      stuck == ready = {} /\ \E f \in Findings : Waiting(d.finding[f])
      wait  == mode \in {"normal", "idle"} /\ VerifyActive(d)
  IN CASE Held(c, mode)                     -> {c}
       [] ~Held(c, mode) /\ Early(d, mode)  -> {d}
       [] ~Held(c, mode) /\ ~Early(d, mode) ->
            CASE mode # "manual" /\ stuck -> {Stop(d)}
              [] (mode = "manual" \/ ~stuck) /\ wait -> {d}
              [] (mode = "manual" \/ ~stuck) /\ ~wait ->
                   CASE ~WithinHubBudget(d) -> Exhausted(d)
                     [] WithinHubBudget(d) /\ (mode = "manual" \/ ready = {}) -> {InsertHub(d)}
                     [] WithinHubBudget(d) /\ mode # "manual" /\ ready # {} ->
                          {InsertHubFor(d, f) : f \in ready}

\* (mutant: work after the completion never reopens the analysis)
DispatchReportAsIs(c) == Dispatched(c)

\* maybeDispatchReport as far as the canvas is concerned: the gate again, and
\* back to the Hub (bounceReportGateToHub) when findings have no verdict.  A
\* report that is under way stays so.
DispatchReport(c) ==
  CASE Busy(c) \/ ~c.roleDone -> {c}
    [] ~Busy(c) /\ c.roleDone /\ FindingsConverged(c) -> Dispatched(c)
    [] ~Busy(c) /\ c.roleDone /\ ~FindingsConverged(c) ->
         TriggerHub([c EXCEPT !.root = "running", !.stopped = FALSE], "force")

\* A Hub that failed gives back the evidence it was woken for.
GiveBack(c) ==
  [c EXCEPT !.parked = "design",
            !.finding = [f \in Findings |->
               IF Waiting(c.finding[f]) THEN [c.finding[f] EXCEPT !.hubFp = "none"]
                                        ELSE c.finding[f]]]

\* advanceCanvasAfterTerminalJob
Advance(c, failedHub) ==
  LET d == [c EXCEPT !.parked = "no"]
  IN CASE d.root = "report_failed"                               -> {d}
       [] d.root = "analysis_complete"                           -> DispatchReport(d)
       [] d.root \in {"running", "succeeded"} /\ failedHub  -> {GiveBack(d)}
       [] d.root \in {"running", "succeeded"} /\ ~failedHub -> TriggerHub(d, "idle")

\* The tail of finalizeJob after a success: the trigger, then the advance
Finish(c, mode) == UNION {Advance(d, FALSE) : d \in TriggerHub(c, mode)}

(***************************************************************************)
(* Findings and evidence, reported while Jobs run.                          *)
(***************************************************************************)
EmptyFinding ==
  [status |-> "absent", gate |-> "missing", seen |-> FALSE, round |-> "none",
   attempt |-> 0, fp |-> "none", snap |-> FALSE, hubFp |-> "none", wakes |-> 0,
   stuck |-> 0, outcomes |-> {}, fails |-> 0, vjob |-> "none", follow |-> 0,
   report |-> FALSE]

\* A canvas is created together with its first Job.
Init ==
  /\ canvas = [root |-> "running", roles |-> 1, roleDone |-> FALSE, hubs |-> 0, asking |-> 0,
            rounds |-> 0, stopped |-> FALSE, paused |-> FALSE, due |-> {}, parked |-> "no",
            report |-> "none",
            finding |-> [f \in Findings |-> EmptyFinding]]
  /\ disturbances = 0

\* A role reports a finding (evaluateFollowup): over the limits of depth or of
\* follow-ups per Job it is settled at once, without a round.
FindingReported(f) ==
  /\ canvas.roles > 0 /\ canvas.finding[f].status = "absent"
  /\ LET g == [canvas.finding[f] EXCEPT !.status = "pending"]
     IN canvas' \in {With(canvas, f, Settle(g, "inconclusive")),
                     With(canvas, f, CreateVerifyRound(g, FALSE, FALSE))}

\* emit_fact of an evidence Job; nobody judges it before the Job is done.
EvidenceReported(f, gate) ==
  /\ canvas.finding[f].follow > 0
  /\ canvas.finding[f].status \notin Converged
  /\ canvas' = With(canvas, f, [canvas.finding[f] EXCEPT !.gate = gate, !.seen = TRUE])

(***************************************************************************)
(* Jobs of ordinary roles and evidence Jobs.                                *)
(***************************************************************************)
LessRole(c) == [c EXCEPT !.roles = @ - 1]
LessFollow(c, f) == [c EXCEPT !.finding[f].follow = @ - 1]

RoleSucceeds ==
  /\ canvas.roles > 0
  /\ \E mode \in {"normal", "force"} :  \* hub_followup forces
       canvas' \in Finish([LessRole(canvas) EXCEPT !.roleDone = TRUE], mode)

\* finalizeJob: the reverification, then the trigger and the advance
FollowUpSucceeds(f) ==
  LET g == [canvas.finding[f] EXCEPT !.follow = @ - 1]
  IN /\ canvas.finding[f].follow > 0 /\ ~Collides(g)
     /\ \E deep, pair \in BOOLEAN :
          /\ pair => g.seen
          /\ canvas' \in Finish([With(canvas, f, MaybeReverify(g, deep, pair))
                                  EXCEPT !.roleDone = TRUE], "normal")

\* The catch of runJob: failure and advance in one transaction, no reverification
RoleFails == canvas.roles > 0 /\ canvas' \in Advance(LessRole(canvas), FALSE)

FollowUpFails(f) ==
  canvas.finding[f].follow > 0 /\ canvas' \in Advance(LessFollow(canvas, f), FALSE)

\* The Reaper commits its verdict and advances the canvas in a later transaction.
Owe(c, kind) == [c EXCEPT !.due = @ \cup {kind}]

RoleReaped == canvas.roles > 0 /\ canvas' = Owe(LessRole(canvas), "work")

FollowUpReaped(f) ==
  canvas.finding[f].follow > 0 /\ canvas' = Owe(LessFollow(canvas, f), "work")

\* Cancelled, or found interrupted at boot: nobody advances the canvas.
RoleAbandoned == canvas.roles > 0 /\ canvas' = [LessRole(canvas) EXCEPT !.parked = "design"]

FollowUpAbandoned(f) ==
  /\ canvas.finding[f].follow > 0
  /\ canvas' = [LessFollow(canvas, f) EXCEPT !.parked = "design"]

\* The advance the Reaper owes, or boot recovery; an error of it is only logged.
AdvanceOwed(kind) ==
  /\ kind \in canvas.due
  /\ canvas' \in Advance([canvas EXCEPT !.due = @ \ {kind}], kind = "hub")

AdvanceLost(kind) ==
  /\ kind \in canvas.due
  /\ canvas' = [canvas EXCEPT !.due = @ \ {kind}, !.parked = "design"]

(***************************************************************************)
(* Verify Jobs.                                                             *)
(***************************************************************************)
Proposals == {"confirmed", "refuted", "needs_human", "rework"}

VerifyEnds(f, status) == [canvas EXCEPT !.finding[f].vjob = status]

\* A Verify Job whose round was closed meanwhile, or that was started again
\* after its round was closed, changes nothing (skipped).
VerifySucceeds(f, proposed) ==
  /\ canvas.finding[f].vjob = "active"
  /\ LET g == [canvas.finding[f] EXCEPT !.vjob = "none"]
         h == CloseSucceeded(g, proposed)
         c == With(canvas, f, h)
     IN CASE g.round # "job" -> canvas' \in Finish(With(canvas, f, g), "normal")
          [] g.round = "job" /\ h.status = "pending" ->
               canvas' \in Finish([c EXCEPT !.stopped = FALSE], "force")
          [] g.round = "job" /\ h.status = "confirmed" -> canvas' \in Finish(c, "force")
          [] g.round = "job" /\ h.status \notin {"pending", "confirmed"} ->
               canvas' \in Finish(c, "normal")

\* The Job fails in one transaction, with the advance ...
VerifyFails(f) ==
  /\ canvas.finding[f].vjob = "active"
  /\ canvas' \in Advance(VerifyEnds(f, "failed"), FALSE)

VerifyReaped(f) ==
  /\ canvas.finding[f].vjob = "active"
  /\ canvas' = Owe(VerifyEnds(f, "failed"), "work")

VerifyCancelled(f) ==
  /\ canvas.finding[f].vjob = "active"
  /\ canvas' = [VerifyEnds(f, "cancelled") EXCEPT !.parked = "design"]

\* ... and its round is recovered in another (recoverVerifyJobTerminal), which
\* may fail, and is then made at the next boot.
RecoverVerify(f) ==
  LET g == canvas.finding[f]
      h == [CloseFailed(g, g.vjob) EXCEPT !.vjob = IF @ = "failed" THEN @ ELSE "none"]
      c == With(canvas, f, h)
  IN /\ g.vjob \in {"failed", "cancelled"} /\ g.round = "job"
     /\ IF h.status = "pending"
        THEN canvas' \in TriggerHub([c EXCEPT !.stopped = FALSE], "force")
        ELSE canvas' = c

\* Rerun of a failed Verify Job, whatever became of its round
VerifyRerun(f) ==
  /\ canvas.finding[f].vjob = "failed"
  /\ canvas' = VerifyEnds(f, "active")

(***************************************************************************)
(* The Hub.                                                                 *)
(***************************************************************************)
\* A decision does not look at the root; only the gate of complete does anything
\* like it.  (One decision per Attempt, which a Hub that is resumed or started
\* again may give once more, is not counted.)
HubStartsRole ==
  /\ canvas.hubs > 0 /\ canvas.roles < MaxRoles
  /\ canvas' = [canvas EXCEPT !.roles = @ + 1]

MayFollow(f) ==
  /\ canvas.finding[f].status \in {"pending", "verifying"}
  /\ canvas.finding[f].follow < MaxFollow

OneMoreFollow(f) == [canvas EXCEPT !.finding[f].follow = @ + 1]

HubStartsFollowUp(f) ==
  canvas.hubs > 0 /\ MayFollow(f) /\ canvas' = OneMoreFollow(f)

\* complete is accepted when the Hub itself is the only active Job.
HubCompletes ==
  /\ canvas.hubs = 1 /\ canvas.roleDone
  /\ FindingsConverged(canvas) /\ ~Busy([canvas EXCEPT !.hubs = 0])
  /\ canvas' = [canvas EXCEPT !.root = "analysis_complete"]

\* The counted rounds saturate at the largest number they are compared with.
HubSucceeds ==
  /\ canvas.hubs > 0
  /\ canvas' \in Advance([canvas EXCEPT !.hubs = @ - 1,
                            !.rounds = Saturate(@ + 1, Later(MaxHubRounds, EscalateAfter))],
                         FALSE)

HubFails ==
  canvas.hubs > 0 /\ canvas' \in Advance([canvas EXCEPT !.hubs = @ - 1], TRUE)

HubReaped == canvas.hubs > 0 /\ canvas' = Owe([canvas EXCEPT !.hubs = @ - 1], "hub")

HubCancelled ==
  \/ canvas.hubs > 0 /\ canvas' = [canvas EXCEPT !.hubs = @ - 1, !.parked = "design"]
  \/ canvas.asking > 0 /\ canvas' = [canvas EXCEPT !.asking = @ - 1, !.parked = "design"]

\* A Hub that asks is no active Hub: a second one may be inserted beside it.
HubAsksHuman ==
  /\ canvas.hubs > 0 /\ canvas.asking < MaxHubs
  /\ canvas' = [canvas EXCEPT !.hubs = @ - 1, !.asking = @ + 1]

Resumed(c) ==
  IF c.asking > 0 THEN [c EXCEPT !.asking = @ - 1, !.hubs = @ + 1] ELSE c

HumanReplies == canvas.asking > 0 /\ canvas' = Resumed(canvas)

(***************************************************************************)
(* Operators and restarts.                                                  *)
(***************************************************************************)
\* PATCH /findings/:id/verify-status
HumanSettles(f) ==
  /\ canvas.asking > 0
  /\ canvas.finding[f].status \in {"pending", "verifying", "needs_human"}
  /\ canvas' = Resumed(With(canvas, f, Settle(canvas.finding[f], "needs_human")))

\* POST /findings/:id/verify; a round that was started resumes a waiting Hub
HumanVerifies(f, deep) ==
  /\ canvas.finding[f].status \in {"pending", "verifying"}
  /\ LET h == CreateVerifyRound(canvas.finding[f], deep, TRUE)
     IN canvas' = IF h.vjob = "active" /\ canvas.finding[f].vjob # "active"
                  THEN Resumed(With(canvas, f, h)) ELSE With(canvas, f, h)

\* POST /findings/:id/evidence-jobs, which resumes a waiting Hub, too
HumanStartsFollowUp(f) == MayFollow(f) /\ canvas' = Resumed(OneMoreFollow(f))

\* POST /jobs, or the rerun of a Job of a role, whatever became of the root
HumanStartsRole ==
  /\ canvas.roles < MaxRoles
  /\ canvas' = [canvas EXCEPT !.roles = @ + 1]

\* patchCanvasConvergence without the lock: the flag it does not set is written
\* back as it was read.
Pause ==
  /\ ~canvas.paused
  /\ \E stale \in BOOLEAN : canvas' = [canvas EXCEPT !.paused = TRUE, !.stopped = stale]

\* Resume clears both flags; a Hub is a matter of force_hub (RunHubNow).
Resume ==
  /\ canvas.paused \/ canvas.stopped
  /\ canvas' = [canvas EXCEPT !.paused = FALSE, !.stopped = FALSE, !.parked = "design"]

\* run-hub-now, a message to the Hub; the resume of a session clears the flags first.
RunHubNow ==
  /\ canvas.hubs + canvas.asking < MaxHubs
  /\ \/ canvas' \in TriggerHub(canvas, "manual")
     \/ canvas' \in TriggerHub([canvas EXCEPT !.paused = FALSE, !.stopped = FALSE], "manual")

\* setExecutionPaused when a task is started and no Job of it is there to run
StartTask == ~Runnable(canvas) /\ canvas' \in TriggerHub(canvas, "idle")

\* triggerHubFromHumanComment, on a confirmed finding
HumanComments ==
  /\ \E f \in Findings : canvas.finding[f].status = "confirmed"
  /\ canvas' \in TriggerHub([canvas EXCEPT !.stopped = FALSE], "force")

\* normalizePendingVerificationRounds at boot: a waiting round is judged again.
\* (Open rounds with a dead Job are RecoverVerify.)
BootNormalizes(f) ==
  /\ Waiting(canvas.finding[f])
  /\ canvas' = With(canvas, f, CreateVerifyRound(canvas.finding[f], FALSE, FALSE))

(***************************************************************************)
(* Report Jobs.  Their end advances nothing (finalizeJob returns early).    *)
(***************************************************************************)
\* Whoever was not woken because a report Job was active is not woken now.
Forgotten(c) ==
  [c EXCEPT !.parked = IF @ = "no" /\ c.root = "running" THEN "report" ELSE @]

\* The report of a finding is written, or its Job fails.
FindingReportEnds(f) ==
  /\ canvas.finding[f].report
  /\ canvas' = Forgotten([canvas EXCEPT !.finding[f].report = FALSE])

\* POST /findings/:id/report
HumanReportsFinding(f) ==
  /\ canvas.finding[f].status = "confirmed" /\ ~canvas.finding[f].report
  /\ canvas' = [canvas EXCEPT !.finding[f].report = TRUE]

\* finalizeReportJob sets the root whatever has happened since the dispatch, be it
\* that the findings went back to the Hub.
ReportSucceeds ==
  /\ canvas.report = "live"
  /\ canvas' = [canvas EXCEPT !.root = "succeeded", !.report = "ended"]

\* settleFailedTaskReport: another dispatch if one is left, else the root fails,
\* unless it is back with the Hub or has succeeded; or the settlement is lost.
ReportFails ==
  LET c == [canvas EXCEPT !.report = "ended"]
      failed == [c EXCEPT !.root = "report_failed"]
  IN /\ canvas.report = "live"
     /\ \/ canvas' = Forgotten(c)
        \/ canvas.root = "succeeded" /\ canvas' \in DispatchReport(c)
        \/ /\ canvas.root \in {"analysis_complete", "report_failed"}
           /\ canvas' \in {failed}
                \cup {d \in DispatchReport([c EXCEPT !.root = "analysis_complete"]) :
                        d.root # "analysis_complete" \/ d.report = "live"}

\* retryReport of a report that failed
RetryReport ==
  /\ canvas.report = "ended" /\ canvas.root \in {"analysis_complete", "report_failed"}
  /\ canvas' \in DispatchReport([canvas EXCEPT !.root = "analysis_complete"])

\* Rerun of a report Job that failed, whatever became of the root
RerunReport ==
  /\ canvas.report = "ended"
  /\ canvas' = [canvas EXCEPT !.report = "live"]

\* refreshTaskReport
RefreshReport ==
  /\ canvas.root \in {"analysis_complete", "succeeded"}
  /\ canvas' \in DispatchReport(canvas)

Undisturbed ==
  \/ RoleSucceeds \/ RoleFails
  \/ \E kind \in {"work", "hub"} : AdvanceOwed(kind) \/ AdvanceLost(kind)
  \/ HubStartsRole \/ HubCompletes \/ HubSucceeds \/ HubFails \/ HumanReplies
  \/ ReportSucceeds \/ ReportFails
  \/ \E f \in Findings :
       \/ FindingReportEnds(f)
       \/ FindingReported(f) \/ HubStartsFollowUp(f)
       \/ \E gate \in Gates : EvidenceReported(f, gate)
       \/ FollowUpSucceeds(f) \/ FollowUpFails(f)
       \/ \E proposed \in Proposals : VerifySucceeds(f, proposed)
       \/ VerifyFails(f) \/ RecoverVerify(f)

Disturbed ==
  \/ RoleReaped \/ RoleAbandoned \/ HubReaped \/ HubCancelled \/ HubAsksHuman
  \/ HumanStartsRole \/ Pause \/ Resume \/ RunHubNow \/ StartTask \/ HumanComments
  \/ RetryReport \/ RerunReport \/ RefreshReport
  \/ \E f \in Findings :
       \/ FollowUpReaped(f) \/ FollowUpAbandoned(f)
       \/ VerifyReaped(f) \/ VerifyCancelled(f) \/ VerifyRerun(f)
       \/ HumanSettles(f) \/ HumanStartsFollowUp(f) \/ HumanReportsFinding(f)
       \/ \E deep \in BOOLEAN : HumanVerifies(f, deep)
       \/ BootNormalizes(f)

Next ==
  \/ Undisturbed /\ UNCHANGED disturbances
  \/ /\ disturbances < MaxDisturbances
     /\ Disturbed /\ disturbances' = disturbances + 1

Spec == Init /\ [][Next]_vars

(***************************************************************************)
(* Properties.                                                              *)
(***************************************************************************)
Prints == Gates \cup {"none"}
FindingRecord ==
  [status : Statuses, gate : Gates, seen : BOOLEAN, round : Rounds, attempt : Nat,
   fp : Prints, snap : BOOLEAN, hubFp : Prints, wakes : 0 .. EscalateAfter, stuck : Nat,
   outcomes : SUBSET Converged, fails : Nat,
   vjob : {"none", "active", "failed", "cancelled"}, follow : Nat, report : BOOLEAN]

Canvases ==
  [root : {"running", "analysis_complete", "report_failed", "succeeded"},
   roles : Nat, roleDone : BOOLEAN, hubs : Nat, asking : Nat, rounds : Nat,
   stopped : BOOLEAN, paused : BOOLEAN, due : SUBSET {"work", "hub"},
   parked : {"no", "design", "report"}, report : {"none", "live", "ended"},
   finding : [Findings -> FindingRecord]]

\* The canvas is a record of the expected shape.
TypeOK == canvas \in Canvases /\ disturbances \in 0 .. MaxDisturbances

\* The status of a finding and its rounds are written by a dozen paths: a round
\* waits for evidence only of a pending finding, and a finding is being verified
\* exactly while its round has a Verify Job; so no verdict leaves a round open.
Agree(g) ==
  /\ g.round = "waiting" => g.status = "pending"
  /\ g.round = "job" <=> g.status = "verifying"

RoundMatchesStatus == \A f \in Findings : Agree(canvas.finding[f])

\* A verdict stands: late, repeated or recovered Verify Jobs, evidence, stops and
\* budgets never change the status of a finding that has one.
VerdictStands ==
  [][\A f \in Findings :
       canvas.finding[f].status \in Converged
         => canvas'.finding[f].status = canvas.finding[f].status]_vars

\* A canvas never stands still without a reason that can be read off it: when no
\* Job is active and no advance is owed, the analysis is over, the canvas is
\* paused or stopped, or the last event was one that wakes nobody: by design
\* (a cancel, a failed Hub, a boot orphan, a lost advance, a plain resume), or
\* the end of a report Job.
Moving(c) ==
  Runnable(c) \/ c.due # {} \/ c.root # "running" \/ c.paused \/ c.stopped

IdleIsExplained == Moving(canvas) \/ canvas.parked # "no"

\* When the last Job to end is no Hub and nothing is left to run, the Hub is woken
\* (core.ts:1508): the end of a report Job included.
IdleWakesHub == Moving(canvas) \/ canvas.parked = "design"

\* Work after completion reopens the analysis: a canvas that is complete and at
\* rest has a verdict for every finding, whatever was started after the Hub
\* completed it (maybeDispatchReport's gate and its way back to the Hub).
CompleteIsConverged ==
  canvas.root = "analysis_complete" /\ ~Busy(canvas) /\ canvas.due = {} /\ canvas.parked # "design"
    => FindingsConverged(canvas)
=============================================================================
