----------------------------- MODULE JobLifecycle -----------------------------
(***************************************************************************)
(* One Job of the Scheduler: its row, its Attempts, the ledger of their    *)
(* external effects, the sandboxes those effects create, and every actor   *)
(* that writes them: the dispatcher's runs (runJob), the event ingestion,  *)
(* the Reaper, the user's routes, the effect reconciler and the recovery   *)
(* at boot.                                                                *)
(*                                                                         *)
(* Every SQL transaction of the code locks the rows of a single Job and is *)
(* one action here; every await between two transactions is a control      *)
(* point of a run ("pc"), where any other actor may come in between.       *)
(* Clocks are abstracted: a timeout may expire whenever its state holds.   *)
(*                                                                         *)
(* Attempts are numbered by attempt_no.  A claim hands exactly one Attempt *)
(* to one runJob call, so a run is named by the Attempt it was claimed     *)
(* for; which Attempt it then reads is part of its state.  A sandbox is    *)
(* named by the run that asked for it.                                     *)
(***************************************************************************)
EXTENDS Naturals

CONSTANTS
    MaxAttempts,   \* bound: Attempts one Job may have
    MaxCrashes,    \* bound: how often the Scheduler process dies
    ExecutionRetries  \* errors of a running agent that are retried once:
                      \* pi_stream_truncated, context_window_exceeded

ASSUME BoundsAssumption == MaxAttempts \in Nat \ {0} /\ MaxCrashes \in Nat
ASSUME RetriesAssumption ==
    ExecutionRetries \cap {"none", "provision", "provision_retry", "other",
                           "uncaught"} = {}

VARIABLES
    job,         \* the jobs row: status, whether started_at is set, sandbox_id
    attempts,    \* the job_attempts rows, by attempt_no
    latest,      \* max(attempt_no), 0 before the first claim
    effects,     \* the job_attempt_effects rows: provision and agent_run
    runs,        \* the runJob calls of this process
    sandboxes,   \* what the provider holds for each run
    condemned,   \* sandbox ids a handler will destroy now that it has committed
    scheduler,   \* "up", or how far reconcileOnBoot has come
    crashes

vars == <<job, attempts, latest, effects, runs, sandboxes, condemned,
          scheduler, crashes>>

Attempts == 1..MaxAttempts

JobStatuses == {"pending", "claimed", "provisioning", "running",
                "waiting_human", "succeeded", "failed", "timeout", "orphan",
                "cancelled"}
Terminal  == {"succeeded", "failed", "timeout", "orphan", "cancelled"}
\* (mutant: a cancelled Job can be resumed)
ResumableCancelled == {"failed", "timeout", "orphan", "waiting_human", "cancelled"}
Resumable == {"failed", "timeout", "orphan", "waiting_human"}
Owned     == {"claimed", "provisioning", "running", "waiting_human"}

\* The edges a planned transition may take (JOB_TRANSITIONS).
JobTransitions ==
    [s \in JobStatuses |->
        CASE s = "pending"       -> {"claimed", "cancelled"}
          [] s = "claimed"       -> {"provisioning", "cancelled", "failed"}
          [] s = "provisioning"  -> {"running", "failed", "cancelled"}
          [] s = "running"       -> {"succeeded", "failed", "timeout", "orphan",
                                     "cancelled", "waiting_human"}
          [] s = "waiting_human" -> {"pending", "cancelled", "failed"}
          [] s \in {"failed", "timeout", "orphan"} -> {"pending"}
          [] OTHER               -> {}]

ClosedStatuses  == {"succeeded", "failed", "timeout", "orphan", "cancelled",
                    "interrupted"}
AttemptStatuses == {"none", "active"} \cup ClosedStatuses
AttemptPhases   == {"preparing", "provision.effect_pending", "provisioned",
                    "agent.effect_pending", "settling", "unknown", "terminal",
                    "interrupted"}
RetryReasons    == {"provision_retry"} \cup ExecutionRetries

(***************************************************************************)
(* An effect row is its status; of the outcomes of a settled row, the two  *)
(* that deny the effect are told apart from all the others ("settled").    *)
(***************************************************************************)
Settled        == {"settled", "never_started", "not_applied"}
EffectStatuses == {"absent", "effect_pending", "unknown"} \cup Settled
EffectKinds    == {"provision", "agent_run"}

RunPcs == {"idle", "start", "preflight", "preparing", "admitted", "creating",
           "unsettled", "created", "bound", "agent", "exited", "fallback",
           "error", "retry", "fail", "finally", "done"}
\* What a thrown error means to the retry rules of the catch block; "uncaught"
\* is one the catch block threw itself, so that nothing was written of it.
RunErrors == {"none", "provision", "other", "uncaught"} \cup ExecutionRetries

NoRun   == [pc |-> "idle", attempt |-> 0, handle |-> FALSE, error |-> "none"]
NoRow   == [status |-> "none", phase |-> "preparing", sandbox |-> 0,
            reason |-> "none"]
NewRow  == [NoRow EXCEPT !.status = "active"]
NoEffects == [k \in EffectKinds |-> "absent"]

TypeOK ==
    /\ job \in [status: JobStatuses, started: BOOLEAN, sandbox: 0..MaxAttempts]
    /\ attempts \in [Attempts -> [status: AttemptStatuses, phase: AttemptPhases,
                                  sandbox: 0..MaxAttempts,
                                  reason: RetryReasons \cup {"none"}]]
    /\ latest \in 0..MaxAttempts
    /\ effects \in [Attempts -> [EffectKinds -> EffectStatuses]]
    /\ runs \in [Attempts -> [pc: RunPcs, attempt: 0..MaxAttempts,
                              handle: BOOLEAN, error: RunErrors]]
    /\ sandboxes \in [Attempts -> {"none", "creating", "alive", "gone"}]
    /\ condemned \subseteq Attempts
    /\ scheduler \in {"up", "boot_containers", "boot_provisioning",
                      "boot_running"}
    /\ crashes \in 0..MaxCrashes

Init ==
    /\ job = [status |-> "pending", started |-> FALSE, sandbox |-> 0]
    /\ attempts = [a \in Attempts |-> NoRow]
    /\ latest = 0
    /\ effects = [a \in Attempts |-> NoEffects]
    /\ runs = [n \in Attempts |-> NoRun]
    /\ sandboxes = [n \in Attempts |-> "none"]
    /\ condemned = {}
    /\ scheduler = "up"
    /\ crashes = 0

-----------------------------------------------------------------------------
(***************************************************************************)
(* The Attempt ledger: what a transaction does to the active Attempt.      *)
(***************************************************************************)
ActiveAttempts == {a \in Attempts : attempts[a].status = "active"}

\* createAttempt inserts max + 1, and only when no Attempt is active.
NextAttempt == latest + 1
MayCreate   == NextAttempt \in Attempts

\* settleAttemptTerminal: close the active Attempt; an effect still pending is
\* settled only for an agent run that succeeded, else its outcome is unknown.
ClosedRow(row, status, reason) ==
    [row EXCEPT !.status = status, !.phase = "terminal", !.reason = reason]

\* (mutant: an effect in flight takes the status of its Attempt)
ClosedEffectsCopyStatus(e, status) ==
    [k \in EffectKinds |-> IF e[k] # "effect_pending" THEN e[k] ELSE status]

\* (mutant: only the provision is looked at)
ClosedEffectsProvisionOnly(e, status) ==
    [k \in EffectKinds |->
        IF k = "provision" /\ e[k] = "effect_pending" THEN "unknown" ELSE e[k]]

ClosedEffects(e, status) ==
    [k \in EffectKinds |->
        IF e[k] # "effect_pending" THEN e[k]
        ELSE IF status = "succeeded" /\ k = "agent_run" THEN "settled"
        ELSE "unknown"]

\* (mutant: a terminal path forgets the Attempt)
CloseNothing(status, reason) == attempts

CloseActive(status, reason) ==
    [a \in Attempts |-> IF a \in ActiveAttempts
                        THEN ClosedRow(attempts[a], status, reason)
                        ELSE attempts[a]]

CloseActiveEffects(status) ==
    [a \in Attempts |-> IF a \in ActiveAttempts
                        THEN ClosedEffects(effects[a], status)
                        ELSE effects[a]]

SettleAttemptTerminal(status) ==
    /\ attempts' = CloseActive(status, "none")
    /\ effects' = CloseActiveEffects(status)
    /\ UNCHANGED latest

\* (mutant: the interrupted Attempt is prepared again instead of closed)
PrepareAttemptAgain ==
    /\ attempts' = [a \in Attempts |->
                       IF a \in ActiveAttempts
                       THEN [attempts[a] EXCEPT !.phase = "preparing"]
                       ELSE attempts[a]]
    /\ effects' = CloseActiveEffects("interrupted")
    /\ UNCHANGED latest

\* markAttemptInterrupted: nothing the interrupt knows settles a provision or
\* an agent run, so both become unknown.
MarkAttemptInterrupted ==
    /\ attempts' = [a \in Attempts |->
                       IF a \in ActiveAttempts
                       THEN [attempts[a] EXCEPT !.status = "interrupted",
                                                !.phase = "interrupted"]
                       ELSE attempts[a]]
    /\ effects' = CloseActiveEffects("interrupted")
    /\ UNCHANGED latest

\* The retry transactions close the active Attempt and create its successor.
CloseAndCreate(reason) ==
    /\ MayCreate
    /\ attempts' = [CloseActive("failed", reason) EXCEPT ![NextAttempt] = NewRow]
    /\ effects' = CloseActiveEffects("failed")
    /\ latest' = NextAttempt

\* (mutant: only the status of the Job is checked)
OwnsProvisioningByStatus(a, phase) == job.status = "provisioning"

\* lockCurrentProvisioningAttempt.
OwnsProvisioning(a, phase) ==
    /\ job.status = "provisioning"
    /\ a = latest
    /\ a \in ActiveAttempts
    /\ attempts[a].phase = phase

\* The row part of transitionJob and of every status CAS.
SetJob(status) == job' = [job EXCEPT !.status = status]
ResetJob       == job' = [status |-> "pending", started |-> FALSE, sandbox |-> 0]

GoTo(n, pc)       == runs' = [runs EXCEPT ![n].pc = pc]
Throw(n, error)   == runs' = [runs EXCEPT ![n].pc = "error", ![n].error = error]
Escape(n)         == runs' = [runs EXCEPT ![n].pc = "finally", ![n].error = "uncaught"]

UnchangedDb       == UNCHANGED <<job, attempts, latest, effects>>
UnchangedWorld    == UNCHANGED <<sandboxes, condemned, scheduler, crashes>>

-----------------------------------------------------------------------------
(***************************************************************************)
(* Dispatcher: claim, and the steps of one runJob call.                    *)
(***************************************************************************)

\* claimPendingJobs: pending -> claimed, and the Attempt to run, in one
\* transaction; dispatchOnce then calls runJob.
Claim(n) ==
    /\ scheduler = "up"
    /\ job.status = "pending"
    /\ IF ActiveAttempts = {} THEN n = NextAttempt ELSE n \in ActiveAttempts
    /\ SetJob("claimed")
    /\ attempts' = [attempts EXCEPT ![n] = IF n \in ActiveAttempts THEN @ ELSE NewRow]
    /\ latest' = IF n \in ActiveAttempts THEN latest ELSE n
    /\ runs' = [runs EXCEPT ![n].pc = "start"]
    /\ UNCHANGED effects
    /\ UnchangedWorld

\* runJob reads the active Attempt, whichever it is by now.
ReadAttempt(n) ==
    /\ runs[n].pc = "start"
    /\ IF ActiveAttempts = {}
       THEN Throw(n, "other")
       ELSE \E a \in ActiveAttempts :
              runs' = [runs EXCEPT ![n].pc = "preflight", ![n].attempt = a]
    /\ UnchangedDb /\ UnchangedWorld

\* Claimed -> provisioning, once the snapshot has been checked; a call that
\* loses this race returns without a word.
StartProvisioning(n) ==
    /\ runs[n].pc = "preflight"
    /\ IF "provisioning" \in JobTransitions[job.status]
       THEN SetJob("provisioning") /\ GoTo(n, "preparing")
       ELSE UNCHANGED job /\ GoTo(n, "finally")
    /\ UNCHANGED <<attempts, latest, effects>>
    /\ UnchangedWorld

\* The intent of the provision effect, written before the provider is called.
BeginProvision(n) ==
    LET a == runs[n].attempt IN
    /\ runs[n].pc = "preparing"
    /\ IF OwnsProvisioning(a, "preparing")
       THEN /\ effects' = [effects EXCEPT ![a]["provision"] = "effect_pending"]
            /\ attempts' = [attempts EXCEPT ![a].phase = "provision.effect_pending"]
            /\ GoTo(n, "admitted")
       ELSE GoTo(n, "finally") /\ UNCHANGED <<attempts, effects>>
    /\ UNCHANGED <<job, latest>>
    /\ UnchangedWorld

\* The last check before runner.provision, and the call.  The registry of
\* provision handles admits one Attempt of a Job at a time.
CallProvision(n) ==
    /\ runs[n].pc = "admitted"
    /\ OwnsProvisioning(runs[n].attempt, "provision.effect_pending")
    /\ \A m \in Attempts : runs[m].pc # "creating"
    /\ sandboxes' = [sandboxes EXCEPT ![n] = "creating"]
    /\ GoTo(n, "creating")
    /\ UnchangedDb
    /\ UNCHANGED <<condemned, scheduler, crashes>>

\* Whatever may throw between the intent and the call: the device lease, the
\* registry, the check that the Attempt still owns the provision.
FailBeforeProvision(n) ==
    /\ runs[n].pc = "admitted"
    /\ \E error \in {"provision", "other"} :
         runs' = [runs EXCEPT ![n].pc = "unsettled", ![n].error = error]
    /\ UnchangedDb /\ UnchangedWorld

ProvisionResolves(n) ==
    /\ runs[n].pc = "creating"
    /\ sandboxes' = [sandboxes EXCEPT ![n] = "alive"]
    /\ runs' = [runs EXCEPT ![n].pc = "created", ![n].handle = TRUE]
    /\ UnchangedDb
    /\ UNCHANGED <<condemned, scheduler, crashes>>

\* runner.provision rejects, or times out and is waited for: a late sandbox is
\* destroyed, unless that fails as well.
ProvisionFails(n) ==
    /\ runs[n].pc = "creating"
    /\ \E left \in {"gone", "alive"} : sandboxes' = [sandboxes EXCEPT ![n] = left]
    /\ \E error \in {"provision", "other"} :
         runs' = [runs EXCEPT ![n].pc = "unsettled", ![n].error = error]
    /\ UnchangedDb
    /\ UNCHANGED <<condemned, scheduler, crashes>>

\* (mutant: a run without a handle is taken for one that never called)
HoldsHandle(n) == runs[n].handle

\* provisionAttempted: runner.provision was called, with whatever result.
ProvisionAttempted(n) == sandboxes[n] # "none"

\* A failed provision writes what it knows of the effect, if it still owns it:
\* "never_started" only if the provider was never called.
SettleFailedProvision(n) ==
    LET a == runs[n].attempt
        called == ProvisionAttempted(n)
    IN
    /\ runs[n].pc = "unsettled"
    /\ IF OwnsProvisioning(a, "provision.effect_pending")
       THEN /\ effects' = [effects EXCEPT ![a]["provision"] =
                              IF called THEN "unknown" ELSE "never_started"]
            /\ attempts' = [attempts EXCEPT ![a].phase =
                              IF called THEN "unknown" ELSE "settling"]
            /\ GoTo(n, "error")
       ELSE /\ GoTo(n, "finally")
            /\ UNCHANGED <<attempts, effects>>
    /\ UNCHANGED <<job, latest>>
    /\ UnchangedWorld

\* Settlement, resource binding and provisioning -> running: one transaction.
Bind(n) ==
    LET a == runs[n].attempt IN
    /\ runs[n].pc = "created"
    /\ IF OwnsProvisioning(a, "provision.effect_pending")
       THEN /\ effects' = [effects EXCEPT ![a]["provision"] = "settled"]
            /\ attempts' = [attempts EXCEPT ![a].phase = "provisioned",
                                            ![a].sandbox = n]
            /\ job' = [status |-> "running", started |-> TRUE, sandbox |-> n]
            /\ GoTo(n, "bound")
       ELSE /\ GoTo(n, "finally")
            /\ UNCHANGED <<job, attempts, effects>>
    /\ UNCHANGED latest
    /\ UnchangedWorld

\* The intent of the agent run; beginEffect refuses an Attempt that is closed.
BeginAgentRun(n) ==
    LET a == runs[n].attempt IN
    /\ runs[n].pc = "bound"
    /\ IF a \in ActiveAttempts /\ effects[a]["agent_run"] = "absent"
       THEN /\ effects' = [effects EXCEPT ![a]["agent_run"] = "effect_pending"]
            /\ attempts' = [attempts EXCEPT ![a].phase = "agent.effect_pending"]
            /\ GoTo(n, "agent")
       ELSE /\ Throw(n, "other")
            /\ UNCHANGED <<attempts, effects>>
    /\ UNCHANGED <<job, latest>>
    /\ UnchangedWorld

(***************************************************************************)
(* The end of a run.  The agent's terminal event is ingested by the runner *)
(* when the agent has returned; ingestion looks at the status of the Job   *)
(* under its lock, and at nothing that names the run.                      *)
(***************************************************************************)

\* The done event, in ingestion's transaction: finalizeJob and the Attempt.
Finalize(n, next) ==
    IF job.status = "running"
    THEN /\ SetJob("succeeded")
         /\ SettleAttemptTerminal("succeeded")
         /\ GoTo(n, next)
    ELSE Throw(n, "other") /\ UnchangedDb

AgentDone(n) ==
    /\ runs[n].pc = "agent"
    /\ Finalize(n, "exited")
    /\ UnchangedWorld

\* The human event: running -> waiting_human; the Attempt stays active.
AgentAsksHuman(n) ==
    /\ runs[n].pc = "agent"
    /\ IF job.status = "running"
       THEN SetJob("waiting_human") /\ GoTo(n, "exited")
       ELSE UNCHANGED job /\ Throw(n, "other")
    /\ UNCHANGED <<attempts, latest, effects>>
    /\ UnchangedWorld

\* execute() returns without a terminal event.
AgentExits(n) ==
    /\ runs[n].pc = "agent"
    /\ GoTo(n, "exited")
    /\ UnchangedDb /\ UnchangedWorld

\* The fallback: read the status; if it is running, ingest a done.
ReadStatus(n) ==
    /\ runs[n].pc = "exited"
    /\ GoTo(n, IF job.status = "running" THEN "fallback" ELSE "finally")
    /\ UnchangedDb /\ UnchangedWorld

FallbackDone(n) ==
    /\ runs[n].pc = "fallback"
    /\ Finalize(n, "finally")
    /\ UnchangedWorld

\* An exception outside the provision call, a failed transaction or read among
\* them; what it is decides the retry.
Throws(n) ==
    /\ \/ /\ runs[n].pc \in {"preflight", "preparing", "unsettled"}
          /\ \E error \in {"provision", "other"} : Throw(n, error)
       \/ /\ runs[n].pc \in {"start", "created", "bound", "exited", "fallback"}
          /\ Throw(n, "other")
       \/ /\ runs[n].pc = "agent"
          /\ \E error \in {"other"} \cup ExecutionRetries : Throw(n, error)
    /\ UnchangedDb /\ UnchangedWorld

\* The catch block first asks, outside any transaction, whether the run is
\* stale or the Job waits for a human; then it retries or fails the Job.  The
\* read may throw as well, and nothing catches that.
CatchError(n) ==
    /\ runs[n].pc = "error"
    /\ \/ GoTo(n, IF \/ runs[n].attempt # 0 /\ runs[n].attempt # latest
                     \/ job.status = "waiting_human"
                  THEN "finally"
                  ELSE IF runs[n].error # "other" THEN "retry" ELSE "fail")
       \/ Escape(n)
    /\ UnchangedDb /\ UnchangedWorld

\* The retries are budgeted by the reasons of the Job's closed Attempts; every
\* MAX_AUTOMATIC_..._RETRIES is 1.
BudgetLeft(reason) ==
    \A a \in Attempts : attempts[a].status \in ClosedStatuses
                            => attempts[a].reason # reason

\* No effect, or a provision proved not to have started.
NothingStarted(a) ==
    /\ effects[a]["provision"] \in {"absent", "never_started"}
    /\ effects[a]["agent_run"] = "absent"

\* retryProvisioningJob: by a run that never called the provider and owns the
\* newest Attempt, within the budget.  A retry that is refused, or whose
\* transaction fails, leaves the error to the failing transaction.
RetryProvisioning(n) ==
    LET a == runs[n].attempt IN
    /\ runs[n].pc = "retry"
    /\ runs[n].error = "provision"
    /\ \/ /\ ~ProvisionAttempted(n)
          /\ a = latest
          /\ a \in ActiveAttempts
          /\ NothingStarted(a)
          /\ BudgetLeft("provision_retry")
          /\ job.status \in {"claimed", "provisioning"}
          /\ ~job.started
          /\ CloseAndCreate("provision_retry") /\ ResetJob /\ GoTo(n, "finally")
       \/ GoTo(n, "fail") /\ UnchangedDb
    /\ UnchangedWorld

\* retryTruncatedExecutionJob and retryContextWindowExceededJob: whatever
\* Attempt runs now.
RetryExecution(n) ==
    LET reason == runs[n].error IN
    /\ runs[n].pc = "retry"
    /\ reason \in ExecutionRetries
    /\ \/ /\ BudgetLeft(reason) /\ job.status = "running" /\ job.started
          /\ CloseAndCreate(reason) /\ ResetJob /\ GoTo(n, "finally")
       \/ GoTo(n, "fail") /\ UnchangedDb
    /\ UnchangedWorld

\* The failing transaction; a run that never read an Attempt owns any.  It, or a
\* read before it, may throw: then the Job stays as it is.
FailRun(n) ==
    /\ runs[n].pc = "fail"
    /\ \/ /\ IF /\ job.status \in {"claimed", "provisioning", "running"}
                /\ runs[n].attempt \in {0, latest}
             THEN SetJob("failed") /\ SettleAttemptTerminal("failed")
             ELSE UnchangedDb
          /\ GoTo(n, "finally")
       \/ Escape(n) /\ UnchangedDb
    /\ UnchangedWorld

\* finally: destroy the sandbox the run holds, if the provider lets it; the
\* status of the Job is not looked at.
Finally(n) ==
    /\ runs[n].pc = "finally"
    /\ \E left \in IF runs[n].handle THEN {"gone", sandboxes[n]}
                   ELSE {sandboxes[n]} :
         sandboxes' = [sandboxes EXCEPT ![n] = left]
    /\ runs' = [runs EXCEPT ![n].pc = "done", ![n].handle = FALSE,
                            ![n].error = IF @ = "uncaught" THEN @ ELSE "none"]
    /\ UnchangedDb
    /\ UNCHANGED <<condemned, scheduler, crashes>>

RunStep(n) ==
    \/ ReadAttempt(n) \/ StartProvisioning(n) \/ BeginProvision(n)
    \/ CallProvision(n) \/ FailBeforeProvision(n) \/ ProvisionResolves(n)
    \/ ProvisionFails(n) \/ SettleFailedProvision(n) \/ Bind(n)
    \/ BeginAgentRun(n) \/ AgentDone(n) \/ AgentAsksHuman(n) \/ AgentExits(n)
    \/ ReadStatus(n) \/ FallbackDone(n) \/ Throws(n) \/ CatchError(n)
    \/ RetryProvisioning(n) \/ RetryExecution(n) \/ FailRun(n) \/ Finally(n)

-----------------------------------------------------------------------------
(***************************************************************************)
(* The Reaper: each verdict closes Job and Attempt in one transaction, and *)
(* destroys the sandbox of the row it returned after the commit.           *)
(***************************************************************************)
\* (to destroy one that is gone already does nothing)
Condemn(s) ==
    condemned' = condemned \cup {n \in Attempts : n = s /\ sandboxes[n] = "alive"}

CloseJob(from, status) ==
    /\ scheduler = "up"
    /\ job.status \in from
    /\ SetJob(status)
    /\ SettleAttemptTerminal(status)
    /\ Condemn(job.sandbox)
    /\ UNCHANGED <<runs, sandboxes, scheduler, crashes>>

ReapExecutionTimeout ==
    job.started /\ CloseJob({"claimed", "provisioning", "running"}, "timeout")

\* (mutant: a Job that was claimed and never provisioned is not looked at)
ReapProvisioningOnly == CloseJob({"provisioning"}, "failed")

ReapProvisionTimeout == CloseJob({"claimed", "provisioning"}, "failed")

ReapLeaseOrphan == CloseJob({"running"}, "orphan")

ReapStalledExecution == job.started /\ CloseJob({"running"}, "failed")

(***************************************************************************)
(* Effects whose outcome nobody wrote down.  classifyEffect decides an     *)
(* agent run by the terminal status of its Attempt ("interrupted" is none) *)
(* and a provision by whether any sandbox id is recorded.                  *)
(***************************************************************************)
\* (mutant: a provision without a recorded sandbox is left undecided)
ReconciledBySandbox(a, k) ==
    IF k = "provision"
    THEN IF attempts[a].sandbox # 0 THEN "settled" ELSE "unknown"
    ELSE IF attempts[a].status \in ClosedStatuses \ {"interrupted"}
         THEN "settled" ELSE "unknown"

Reconciled(a, k) ==
    IF k = "provision"
    THEN IF job.sandbox # 0 \/ attempts[a].sandbox # 0
         THEN "settled" ELSE "not_applied"
    ELSE IF attempts[a].status \in ClosedStatuses \ {"interrupted"}
         THEN "settled" ELSE "unknown"

\* (mutant: the evidence query asks for any effect of a closed Attempt)
AnyEffect(a, k) ==
    attempts[a].status \in ClosedStatuses /\ effects[a][k] # "absent"

Undecided(a, k) ==
    /\ attempts[a].status \in ClosedStatuses
    /\ effects[a][k] \in {"unknown", "effect_pending"}

ReconcileEffect(a, k) ==
    /\ scheduler = "up"
    /\ Undecided(a, k)
    /\ Reconciled(a, k) # "unknown"
    /\ effects' = [effects EXCEPT ![a][k] = Reconciled(a, k)]
    /\ UNCHANGED <<job, attempts, latest, runs>>
    /\ UnchangedWorld

\* settleEffectByOperator: a human decides, for any effect of a closed Attempt.
SettleByOperator(a, k) ==
    /\ scheduler = "up"
    /\ Undecided(a, k)
    /\ effects' = [effects EXCEPT ![a][k] = "settled"]
    /\ UNCHANGED <<job, attempts, latest, runs>>
    /\ UnchangedWorld

AllSettled ==
    \A a \in Attempts, k \in EffectKinds :
        effects[a][k] \in Settled \cup {"absent"}

\* reapWaitingHumanTimeout: it first reconciles the effects of the Job; only
\* when there was nothing to do, and every effect of the Job is settled, does
\* the Job fail.
ReapWaitingHuman ==
    /\ scheduler = "up"
    /\ job.status = "waiting_human"
    /\ IF AllSettled
       THEN /\ SetJob("failed")
            /\ SettleAttemptTerminal("failed")
            /\ Condemn(job.sandbox)
       ELSE /\ effects' = [a \in Attempts |-> [k \in EffectKinds |->
                             IF Undecided(a, k) THEN
                                IF Reconciled(a, k) = "unknown"
                                THEN effects[a][k] ELSE Reconciled(a, k)
                             ELSE effects[a][k]]]
            /\ UNCHANGED <<job, attempts, latest, condemned>>
    /\ UNCHANGED <<runs, sandboxes, scheduler, crashes>>

(***************************************************************************)
(* The user.                                                               *)
(***************************************************************************)
CancelJob == CloseJob({"pending"} \cup Owned, "cancelled")

\* A reply, or "ignore": the Attempt is interrupted and the Job queued again;
\* its sandbox_id stays as it is.
ReplyToHuman ==
    /\ scheduler = "up"
    /\ job.status = "waiting_human"
    /\ job' = [job EXCEPT !.status = "pending", !.started = FALSE]
    /\ MarkAttemptInterrupted
    /\ UNCHANGED runs
    /\ UnchangedWorld

\* requeueJob, for resume and for rerun: refused while any effect of the Job is
\* not settled.
Requeue ==
    /\ scheduler = "up"
    /\ job.status \in Resumable
    /\ AllSettled
    /\ ResetJob
    /\ MarkAttemptInterrupted
    /\ Condemn(job.sandbox)
    /\ UNCHANGED <<runs, sandboxes, scheduler, crashes>>

\* drainNonGateVerifies: a pending verify Job is cancelled by a plain UPDATE.
DrainPending ==
    /\ scheduler = "up"
    /\ job.status = "pending"
    /\ SetJob("cancelled")
    /\ UNCHANGED <<attempts, latest, effects, runs>>
    /\ UnchangedWorld

(***************************************************************************)
(* Sandboxes: the destroy that follows a commit, and the desired-state     *)
(* cleanup.  Its scan proposes those whose Attempt is not active in a Job  *)
(* that is owned; each is destroyed under the shared assets lock of the    *)
(* Job, where a Job that is owned or has an active Attempt, of whichever   *)
(* sandbox, is left alone.  Either may fail, which changes nothing.        *)
(***************************************************************************)
\* (mutant: a sandbox is kept while its Job has not ended)
WantedWhileOpen(n) == job.status \notin Terminal

Wanted(n) ==
    /\ job.status \in Owned
    /\ runs[n].attempt \in ActiveAttempts

DestroyCondemned(n) ==
    /\ n \in condemned
    /\ \E left \in {"gone", sandboxes[n]} :
         sandboxes' = [sandboxes EXCEPT ![n] = left]
    /\ condemned' = condemned \ {n}
    /\ UnchangedDb
    /\ UNCHANGED <<runs, scheduler, crashes>>

\* cleanupSharedAssetsForJob, asked for the Job and no particular Attempt.
CleanupPermitted == ActiveAttempts = {} /\ job.status \notin Owned

CleanupSandbox(n) ==
    /\ scheduler = "up"
    /\ sandboxes[n] = "alive"
    /\ ~Wanted(n)
    /\ CleanupPermitted
    /\ sandboxes' = [sandboxes EXCEPT ![n] = "gone"]
    /\ UnchangedDb
    /\ UNCHANGED <<runs, condemned, scheduler, crashes>>

\* The provider finishes a creation nobody waits for any more.
ProviderCompletes(n) ==
    /\ sandboxes[n] = "creating"
    /\ runs[n].pc = "done"
    /\ \E left \in {"gone", "alive"} : sandboxes' = [sandboxes EXCEPT ![n] = left]
    /\ UnchangedDb
    /\ UNCHANGED <<runs, condemned, scheduler, crashes>>

(***************************************************************************)
(* A crash loses every run and every destroy not yet made; what it wrote   *)
(* stays.  reconcileOnBoot runs before the server listens and before the   *)
(* dispatcher and the Reaper start, and may itself be cut short.           *)
(***************************************************************************)
Crash ==
    /\ crashes < MaxCrashes
    /\ crashes' = crashes + 1
    /\ scheduler' = "boot_containers"
    /\ condemned' = {}
    /\ runs' = [n \in Attempts |->
                  IF runs[n].pc \in {"idle", "done"} THEN runs[n]
                  ELSE [runs[n] EXCEPT !.pc = "done", !.handle = FALSE,
                                       !.error = "none"]]
    /\ UnchangedDb
    /\ UNCHANGED sandboxes

\* Containers whose Job is not executing, or whose Attempt is not its active
\* one, are destroyed, each if the provider lets it.
BootContainers ==
    /\ scheduler = "boot_containers"
    /\ \E destroyed \in SUBSET {n \in Attempts :
            /\ sandboxes[n] = "alive"
            /\ ~(Wanted(n) /\ job.status # "waiting_human")} :
         sandboxes' = [n \in Attempts |-> IF n \in destroyed THEN "gone"
                                          ELSE sandboxes[n]]
    /\ scheduler' = "boot_provisioning"
    /\ UnchangedDb
    /\ UNCHANGED <<runs, condemned, crashes>>

\* reconcileProvisioning: back to pending only if the active Attempt has no
\* effect row and no sandbox id is recorded, else orphan.
BootProvisioning ==
    /\ scheduler = "boot_provisioning"
    /\ scheduler' = "boot_running"
    /\ IF job.status \notin {"claimed", "provisioning"}
       THEN UnchangedDb /\ UNCHANGED condemned
       ELSE IF /\ job.sandbox = 0
               /\ \E a \in ActiveAttempts : /\ attempts[a].phase = "preparing"
                                            /\ effects[a] = NoEffects
            THEN SetJob("pending") /\ MarkAttemptInterrupted /\ UNCHANGED condemned
            ELSE /\ SetJob("orphan")
                 /\ SettleAttemptTerminal("orphan")
                 /\ Condemn(job.sandbox)
    /\ UNCHANGED <<runs, sandboxes, crashes>>

\* reconcileRunning: running -> orphan; then the Scheduler serves again.
BootRunning ==
    /\ scheduler = "boot_running"
    /\ scheduler' = "up"
    /\ IF job.status # "running"
       THEN UnchangedDb /\ UNCHANGED condemned
       ELSE /\ SetJob("orphan")
            /\ SettleAttemptTerminal("orphan")
            /\ Condemn(job.sandbox)
    /\ UNCHANGED <<runs, sandboxes, crashes>>

Next ==
    \/ \E n \in Attempts : \/ Claim(n) \/ RunStep(n)
                           \/ DestroyCondemned(n) \/ CleanupSandbox(n)
                           \/ ProviderCompletes(n)
    \/ \E a \in Attempts, k \in EffectKinds :
          ReconcileEffect(a, k) \/ SettleByOperator(a, k)
    \/ ReapExecutionTimeout \/ ReapProvisionTimeout \/ ReapLeaseOrphan
    \/ ReapStalledExecution \/ ReapWaitingHuman
    \/ CancelJob \/ ReplyToHuman \/ Requeue \/ DrainPending
    \/ Crash \/ BootContainers \/ BootProvisioning \/ BootRunning

Spec == Init /\ [][Next]_vars

(***************************************************************************)
(* Fairness: the Reaper, the desired-state cleanup and the effect          *)
(* reconciler are interval timers of the process; boot recovery is         *)
(* straight-line code; the provider ends every request.  Nothing is        *)
(* assumed of agents, runs or users.                                       *)
(***************************************************************************)
Fairness ==
    /\ WF_vars(ReapProvisionTimeout)
    /\ WF_vars(ReapExecutionTimeout)
    /\ WF_vars(ReapWaitingHuman)
    /\ \A n \in Attempts : /\ WF_vars(CleanupSandbox(n))
                           /\ WF_vars(ProviderCompletes(n))
                           /\ WF_vars(ProvisionResolves(n) \/ ProvisionFails(n))
    /\ \A a \in Attempts, k \in EffectKinds : WF_vars(ReconcileEffect(a, k))
    /\ WF_vars(BootContainers) /\ WF_vars(BootProvisioning)
    /\ WF_vars(BootRunning)

FairSpec == Spec /\ Fairness

-----------------------------------------------------------------------------
(***************************************************************************)
(* Safety.                                                                 *)
(***************************************************************************)

\* No effect was ever recorded for the Attempt and no run has taken it.
Untouched(a) ==
    /\ attempts[a].phase = "preparing"
    /\ effects[a] = NoEffects
    /\ runs[a].pc = "idle"

\* Job and Attempt change together (application.ts, core.ts finalizeJob): a Job
\* that is owned has exactly one active Attempt and it is the newest; a Job that
\* has ended or waits to be claimed has none, except the untouched successor an
\* automatic retry created, which the drain may leave behind a cancelled Job.
AttemptFollowsJob ==
    /\ ActiveAttempts \subseteq {latest}
    /\ job.status \in Owned => ActiveAttempts = {latest}
    /\ job.status \in {"succeeded", "failed", "timeout", "orphan"}
          => ActiveAttempts = {}
    /\ job.status \in {"pending", "cancelled"}
          => \A a \in ActiveAttempts : Untouched(a)

\* Job row, Attempt row and run name the same sandbox of a running Job, and no
\* actor destroys it, or has decided to, whatever old sandbox ids and late handlers
\* are about (reaper.ts, rerun.ts, human-messages.ts, resource-cleanup.ts,
\* reconcile.ts): it is gone only if the very run that worked in it is over, on an
\* error its own catch block could not write down (dispatcher.ts, runJob).
RunningSandboxIntact ==
    job.status = "running" =>
        /\ job.sandbox \in Attempts \ condemned
        /\ attempts[latest].sandbox = job.sandbox
        /\ runs[job.sandbox].attempt = latest
        /\ \/ sandboxes[job.sandbox] = "alive"
           \/ runs[job.sandbox].pc = "done" /\ runs[job.sandbox].error = "uncaught"

\* "never_started" is proof (application.ts, settleUnstartedProvisionEffect):
\* no run of that Attempt ever called the provider, or ever will.
NeverStartedIsProof ==
    \A a, n \in Attempts :
        /\ effects[a]["provision"] = "never_started"
        /\ runs[n].attempt = a
        => sandboxes[n] = "none" /\ runs[n].pc \notin {"admitted", "creating"}

\* An Attempt provisions once and starts one agent, although two calls of runJob
\* may have read the same Attempt (dispatcher.ts, lockCurrentProvisioningAttempt).
OneExecutionPerAttempt ==
    \A m, n \in Attempts :
        /\ m # n
        /\ runs[m].attempt = runs[n].attempt
        /\ runs[m].attempt # 0
        => sandboxes[m] = "none" \/ sandboxes[n] = "none"

\* A closed Attempt has no effect still marked as in flight (settleAttemptTerminal,
\* settleInterruptedEffects): each is settled or unknown, so that the admission of
\* a rerun, which asks for settled effects only, sees all of them.
ClosedLedger ==
    \A a \in Attempts, k \in EffectKinds :
        attempts[a].status \in ClosedStatuses => effects[a][k] # "effect_pending"

(***************************************************************************)
(* Action properties.                                                      *)
(***************************************************************************)

\* History is final: a closed Attempt stays as it was closed, and no late
\* callback reopens an effect that is settled or turns it into another outcome.
HistoryIsFinal ==
    [][\A a \in Attempts :
          /\ attempts[a].status \in ClosedStatuses => attempts'[a] = attempts[a]
          /\ \A k \in EffectKinds :
                effects[a][k] \in Settled => effects'[a][k] = effects[a][k]
      ]_<<attempts, effects>>

\* The dispatcher repeats a provision by itself only if the provider was never
\* asked by the Attempt it gives up (dispatcher.ts, retryProvisioningJob).
AutomaticRetryIsSafe ==
    [][\A a, n \in Attempts :
          /\ attempts'[a].reason = "provision_retry"
          /\ attempts[a].reason # "provision_retry"
          /\ runs[n].attempt = a
          => sandboxes[n] = "none"
      ]_<<attempts, runs, sandboxes>>

(***************************************************************************)
(* The contract, under the obvious mapping.                                *)
(***************************************************************************)
Contract == INSTANCE JobContract
                WITH status <- job.status, generation <- latest,
                     open <- ActiveAttempts # {}

\* The detailed lifecycle implements the contract of transition-policy.ts, the
\* declared recovery exceptions and the joint end of Job and Attempt.
ImplementsContract == Contract!Spec

(***************************************************************************)
(* Liveness.                                                               *)
(***************************************************************************)

\* A Job that was claimed does not hang: it ends, waits for a human, or is
\* queued again, across any crash (reaper.ts, reconcile.ts).
ExecutionEnds ==
    job.status \in {"claimed", "provisioning", "running"}
        ~> job.status \notin {"claimed", "provisioning", "running"}

\* A sandbox whose Attempt is over is reclaimed, whoever was responsible for it
\* and failed or died, unless its Job has an active Attempt from then on: the
\* cleanup leaves such a Job alone (resource-cleanup.ts,
\* shared-asset-lifecycle.ts).
SandboxesReclaimed ==
    \A n \in Attempts :
        sandboxes[n] # "none" /\ runs[n].attempt \notin ActiveAttempts
            ~> sandboxes[n] = "gone" \/ [](ActiveAttempts # {})

\* An effect of an Attempt that ended, other than by an interrupt, is decided in
\* the end, so that the Job can be admitted to a rerun (reconcile-effects.ts).
EffectsDecided ==
    \A a \in Attempts, k \in EffectKinds :
        attempts[a].status \in ClosedStatuses \ {"interrupted"}
            ~> effects[a][k] \in Settled \cup {"absent"}

-----------------------------------------------------------------------------
(***************************************************************************)
(* What the documents say of the program and the code does not do.         *)
(***************************************************************************)

\* "A late callback must not regain the right to execute": a run that holds an
\* Attempt closes that Attempt and no other.
StaleRunClosesNothing ==
    [][\A n, a \in Attempts :
          /\ runs'[n] # runs[n]
          /\ a \in ActiveAttempts
          /\ attempts'[a].status # "active"
          => runs[n].attempt \in {0, a}
      ]_<<attempts, runs>>
=============================================================================
