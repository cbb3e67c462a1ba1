# A formal model of DeepSonar's Scheduler

DeepSonar audits projects with agents. A *Hub* proposes intents, the *Scheduler*
turns them into *Jobs*, a dispatcher claims pending Jobs, provisions a sandbox
for each and runs an agent in it, and the events the agent sends are ingested
into PostgreSQL, where they move Jobs, findings and the canvas on. Every process
of the system meets in the database; several processes write the same rows, most
of what they do has an `await` in the middle, and the external effects (a
sandbox, an agent) cannot be rolled back. That is what this project models.

Paths below are relative to `src/apps/scheduler/src/` unless they start with
`src/`, `docs/` or `database/`.

## The system

| Component | State | Operations | Interacts through |
|---|---|---|---|
| Job lifecycle (`domains/job-lifecycle`) | `jobs.status`, `started_at`, `sandbox_id`, lease | planned transitions and declared recovery exceptions | transactions under the row lock of the Job |
| Attempt ledger (`domains/job-attempt`) | `job_attempts`, `job_attempt_effects` | create, begin / settle / unknown effect, settle terminal, interrupt, reconcile, operator settlement | joins the transaction of whoever changes the Job |
| Job runner (`dispatcher.ts` `runJob`) | local variables of an async call | provision, bind, run agent, retry, fail, clean up | runner (provider), event ingestion, provision registry |
| Claims and quotas (`dispatcher.ts` `claimPendingJobs`) | counts over `jobs`, the page under way | claim by pages | advisory lock, canvas and project locks |
| Wake-up (`kickDispatcher`, `startDispatcher`) | `kickRunning`, `kickAgain`, `dispatcherStopped` | kick, start, stop | LISTEN/NOTIFY, kick after bind, disk monitor |
| Host disk gate (`host-disk.ts`) | last status seen | refresh, monitor | claim gate, readiness, kick |
| Platform claims (`domains/platform-claims`) | `global_settings.claims_paused` | pause, resume | the claim advisory lock, NOTIFY |
| Reaper (`reaper.ts`) | - | timeouts, orphans, stalls, human waits | lifecycle transactions, then sandbox cleanup |
| Boot recovery (`reconcile.ts`) | - | containers, provisioning, running | before server, dispatcher and Reaper start |
| Managed cleanup (`resource-cleanup.ts`) | provider's list | destroy what no active Attempt wants | provider |
| Job control, human replies | - | cancel, rerun, resume, reply, ignore | lifecycle, ledger |
| Event ingestion (`domains/event-ingestion`) | events, rate windows | append and apply | lifecycle, canvas, findings |
| Lease renewal (`attempt-lease.ts`) | timers | renew | Reaper |
| Upload circuit (`opensandbox-upload-circuit.ts`) | state of the circuit, waves and failures by scope, in memory | record a run's end, trip, probe, half-open, close | claim gate, `runJob`, dispatch rounds, restart of the service |
| Completion (`platform-api/completion.ts`, `event-ingestion/completion-receipt.ts`, `executor-real.ts`) | control receipts, repair generations, rate window, handler registry, the run's reservation and done | propose, reconcile, restore, ask a human, settle, retry | Job and Attempt, event ingestion, runJob |
| Device admission (`domains/device`, `src/apps/device-broker`) | `devices`, `device_leases`, the broker's registry and its file | register, enable, maintain, revoke, delete, push, book, release | runJob, Reaper, the rig's broker |
| Worker nodes (`domains/worker-nodes`) | registry, heartbeats | enrol, drain, remove | provider |
| Hub (`domains/hub-orchestration`), verification (`verify.ts`), reports (`report.ts`) | the canvas root, findings, rounds, follow-up Jobs, budgets | wake a Hub, start and close rounds, judge, report, converge | finalizeJob, the canvas lock, claims |
| Shared assets (`shared-asset-lifecycle.ts`, `src/packages/runtime-sandbox/src/shared-assets-volume.ts`) | an advisory lock per Job, Docker volumes and writer containers | prepare, clean up, each with permits | runJob, Reaper, boot recovery, managed cleanup, the Docker daemon |
| Streams, gateway budgets, images | queues, counters, locks | not modelled, see below | - |

`PROJECT.json` lists every component with its status and the reason where it is
not modelled, and every hazard with the line where it bites.

What is hard here: two `runJob` calls of one Job; a status read before an
`await` and used after it; provider calls that time out and complete later; a
Reaper, a user and a run that end the same Job; cleanup after a commit that
races the next run; a crash between any two transactions; claims by several
replicas from counts; a queue nobody polls, which sleeps if one wake-up is
lost; a circuit whose only probe sits behind a gate; pushes to another process
that are lost, late or overtaken; a canvas that must wake a Hub whenever it would
stand still; a completion that is accepted in the database, held in the
memory of a run and settled later, while the run may ask a human, be truncated
or be replaced; and volumes that Docker commands fill and remove, which no
transaction covers and a session lock that may be lost at any moment protects.

Per component, what makes it correct: Job and Attempt change together; a status
moves along declared edges; one execution per Attempt; no effect is repeated
automatically unless it provably never started; no sandbox in use is destroyed and
none unused is kept; closed history never changes; quotas hold whoever claims; a
canvas has one active hub; a pause is a pause; a committed claim is run; no
wake-up is lost; an open circuit starts nothing and is left again; what a broker
was told is what the table says; a verdict stands, and a canvas at rest is
complete or tells why it rests; a Job is completed by at most one accepted
proposal, and an accepted one fails only by a fault or over a Hub's decision; and
a Job runs on the files its own Attempt prepared, which nobody takes away while it
is active.

## Modules

| Module | What it is |
|---|---|
| `JobLifecycle` | one Job, its Attempts, effects and sandboxes, and every actor that writes them |
| `JobContract` | the abstract promise about one Job: status, generation, open or not |
| `MCJobLifecycle` | the module TLC runs |
| `JobLifecycle_proofs` | its type correctness and its safety invariants |
| `JobHistory_proofs` | its action properties and the refinement of `JobContract` |
| `Dispatch` | all Jobs of a queue: claims by replicas, quotas, gates, pause, and what wakes the dispatchers |
| `MCDispatch` | the instances of `Dispatch` TLC runs |
| `Dispatch_proofs` | types, quotas, hubs, runners and pauses, for any queue and any number of replicas |
| `UploadCircuit`, `MCUploadCircuit` | the upload circuit of one Scheduler process, the gates that consult it and the runs that feed it |
| `UploadCircuit_proofs` | types, evidence and the gate, for any Jobs, scopes and thresholds |
| `RigAdmission`, `MCRigAdmission` | the devices of one rig: management requests, leases, pushes and the broker's registry |
| `RigAdmission_proofs` | types, table against leases, and what an answered push guarantees |
| `CanvasConvergence`, `MCCanvasConvergence` | one canvas from its first Job to the end of its analysis: findings, rounds, Hubs, reports |
| `CanvasConvergence_proofs` | types, rounds, verdicts, rest and completion, for any findings and budgets |
| `Completion`, `MCCompletion` | how one Job comes to its end through durable proposals |
| `CompletionContract` | the abstract promise: each proposal decided once, one end |
| `Completion_proofs` | types, five properties and the refinement of `CompletionContract` |
| `SharedAssets`, `MCSharedAssets` | the volumes of one Job's Attempts, the lock, the runs that prepare them and the cleanups that remove them |
| `SharedAssets_proofs` | types, the assets a Job runs on, preparations and tokens that are left alone, the lock that comes back, for any Attempts, cleanups and faults |

`JobLifecycle` and `Dispatch` meet at the statuses of a Job: what `Dispatch` calls
`claimed` is `claimed` or `provisioning` in `JobLifecycle`, and every terminal
status is `ended`. `Dispatch` assumes of a run only that provisioning ends, which
is `ExecutionEnds` of `JobLifecycle`. `UploadCircuit` adds the gate that
`Dispatch` leaves out; `CanvasConvergence` sees of a Job only its kind, its start
and its end; `Completion` opens up what `JobLifecycle` has as the end of an
agent's run, and has the Job's other ways to end as one action. `SharedAssets`
opens up what `JobLifecycle` has as one step from the claim to the provision and
as the cleanup of a run; of the Job it keeps the status, the newest Attempt,
whether that is active, and its phase.

### JobLifecycle

State: `job` is the row of `jobs`; `attempts` and `effects` are the rows of
`job_attempts` and `job_attempt_effects` by `attempt_no`; `runs` holds, for each
`runJob` call, where it stands (`pc`), which Attempt it read, whether it holds a
sandbox handle and what error it is handling; `sandboxes` is the provider's
state; `condemned` holds the destroys a handler will do after its commit;
`scheduler` is up or at a stage of boot recovery.

Every transaction of the code is one action, every `await` between transactions
is a value of `pc`. So `Bind` is the transaction at `dispatcher.ts:1244-1261`
and `ReadStatus`, `FallbackDone` are two actions because the code reads the
status and ingests the event separately. Clocks are left out: a timeout may
expire whenever its state holds. A claim hands an Attempt to one call, so calls
are named by that Attempt; the Attempt a call then *reads* may be a newer one.

Of the outcomes of a settled effect only `never_started`, `not_applied` and
"anything else" are told apart. The retry budgets of one each are kept, since
safety depends on them. Snapshot checks, credentials, shared assets and device
leases are the action `Throws`: they may fail at their point, and so may the reads
and transactions of the run. The catch block queries the database as well
(`dispatcher.ts:1313`, `:1383`, `:1394`, `:1409`, `:1456-1498`), usually because
of an error of the database: when it throws itself (`Escape`), nothing is written,
and `finally` (`:1511-1518`) destroys the sandbox of a Job whose row still says
`running`. The model has this path, `error = "uncaught"` records it, and
`RunningSandboxIntact` says that nothing else takes the sandbox from a running
Job. The lease of such a Job expires, so the Reaper ends it (`ExecutionEnds`).
The managed cleanup
destroys a sandbox inside `cleanupSharedAssetsForJob`, which refuses while any
Attempt of the Job is active or the Job has an owner (`CleanupPermitted`): the
sandbox of a Job that waits for a human, or whose untouched successor the drain
left active, stays, and `SandboxesReclaimed` allows that much.

### Dispatch

State: the `status` of each Job (numbered in queue order), the canvases that are
finished or locked by others, the pause switch, the disk and what each process
last saw of it, and for each replica its round, `inbox` (NOTIFY on its way),
`kickAgain` and the Jobs it called `runJob` for.

A round is `Gates` (the disk), then per page `TakePage` (lock, switch, counts,
page) and `ClaimPage` (lock rows, read facts, claim greedily, commit), then
`Return`, which calls `runJob` and loops if it was asked to. `TakePage` and
`ClaimPage` are separate because everything but other claims may happen between
them. A Hub sent to recover the completion of another Job may hold a grant that
excepts this Job from its gate (`pendingCompletionRecoveryClaimTarget`):
`RecoveryTarget` names the Job, and a claim chooses which of the Hubs whose target
still executes (`Directed`) have theirs. A project stands for every group with a
quota (project, provider, credential, model, CLI): they are all checked the same
way.

### UploadCircuit

State: the circuit (`state`, and how long ago it opened), per scope (project and
canvas) the waves of uploads that all failed, the wave under way and the failures
in the window, where each `runJob` call stands, the rows, the round of the
process and whether a probe image is configured. Every `await` of the probe is a
state (`probing`), so a probe that was asked before a trip may answer after it.
A round is its gate, its probe and its claims; a run passes the gate again at
its provisioning. Clocks become what may have passed: the gap that ends a wave,
the cooldown, the window. Counts beyond `MaxCount` are not told apart; no
threshold is above it.

### RigAdmission

State: the row of each device with `updated_at`, its leases and their history,
the grants the broker has issued, per management request what it read and where
it stands, what became of its PUT, and the broker's registry in memory and in its
file. A request is: check, write, read the eligible devices, read the broker's
revision, PUT, answer. A PUT may be lost before or after it was applied, arrive
late, or find a broker that has restarted. `clean` is history: the requests since
whose read nothing they push was touched. Two things the code does are modelled
as they are. Of two overlapping pushes the one with the older set may get the
higher revision (`domains/device/routes.ts:95`); the property therefore speaks of
pushes nothing overtook. And an empty pushed set counts as never pushed, so the
ceiling applies (`src/apps/device-broker/src/registry.ts:111`, `:155`), although
`domains/device/rig-registry.ts:122-124` says that the empty set is pushed so that
delisting takes effect. `QuietPushIsInForce` is about what the broker lends
(`Usable`), and says both: the eligible devices under the ceiling, or the whole
ceiling if none is eligible. The disagreement is a finding.

### CanvasConvergence

Every operation takes the row lock of the canvas for its whole transaction, so
what the lock protects is one record `canvas`: the root, counts of the active
Jobs by kind, per finding its status, gate, round, Verify Job and follow-ups,
and what is still owed. A transaction is one action; the functions they share
(`maybeTriggerHub`, `advanceCanvasAfterTerminalJob`, `closeVerifyRound`) are operators
from a canvas to the canvases they may leave. `due` holds the advances the code
makes after the commit, in a transaction of its own that a crash may cut off;
`parked` records why nobody was woken. What an agent reports is a choice of
facts, folded into the result of the fact gate; whether the evidence is complete
(an independent review and test) is a choice of its own, because only a finding
that misses some is without progress. That the Hub is not woken for an equal
signature needs no condition: the signature lists what the gate misses, so its
fingerprint, which the model compares, is equal too.

### Completion

State: the Job's row; `receipts` and `generation`, the durable rows of
`mark_job_done` and of the repair chain; `events`, the dones the ingestion
applied; `used`, the terminal events of the rate window (the standard ones are
left open: the run's facts and findings may have filled their bucket at any time,
so whatever needs a place there may be refused, `ConsumeStandard`); `lock`, the
proposal whose transaction holds the Job row; `registry`, the handler of the
process; `exec`, per Attempt, where `executeReal` and `runJob` stand and what the
run's `semanticState` holds (none of it survives a throw, `Thrown`); `calls`,
where each request stands. A proposal is two steps, the checks with the in-memory
prepare (`PrepareAccepts`) and the commit, because the process, a lost
acknowledgement or the rate limit may come between them; the reconciliation and
the restore are steps of their own. Schema, effects, token budgets, deadlines,
leases and the repair-progress rule may refuse or reject at any time. A request
that is refused at once changes nothing and is no step.

The Job may be that of a Hub (`IsHub`), whose run ends `decided` when a decision
belongs in the bundle with its done. Of the decision the model has what it does to
this bundle: it may be missing (`executor-real.ts:364`), name a role that is no
longer there (`:1951-1959`), be refused when it is validated again
(`domains/event-ingestion/side-effects.ts:1657`), or find the standard events of
the window used up (`domains/event-ingestion/application.ts:360`). In each case
the run fails with its accepted done, so `AcceptedRunSettles` excepts such a run;
that "exhausted ordinary events cannot block a legitimate completion"
(`docs/REPAIR_FEEDBACK_DONE_REPAIR.md:28`) is true of other roles only, which is a
finding. A settlement's transaction, its acknowledgement and the reads before it
may fail, and so may the catch (`Escape`); these count against `MaxFaults`. A digest
that differs at the settlement (`completion-receipt.ts:55-57`) cannot be reached:
the run settles the payload it had accepted, under the same key, and what it would
drop of it is refused at the proposal (`completion-payload.ts`).

Three observations the model keeps as they are in the code: a stale run
that ends removes the handler of its successor, because
`unregisterRuntimeHandler` names the Job only; a human reply admits no generation,
so the next Attempt of a repair chain is refused; and the fallback done of
`runJob` carries no key and may finish a successor.

### SharedAssets

State: the row of the Job; per Attempt the `runJob` call, the volume of its
generation, whether the writer container exists, and what its sandbox has
mounted; per call of `cleanupSharedAssetsForJob` where it stands and which names
it will remove; the session that has the advisory lock; the faults so far. A
volume is labelled and empty, filled, or `implicit`: made up by the engine,
without our labels, for a container that mounts a name which is gone.

What the code asks of the database and the Docker command it then sends are two
steps throughout, because anything may happen between them, the loss of the lock
included: `PreparePermits`, then `CreateVolume`, `CreateHelper`, `CopyFiles` or
`RemoveHelper`; `PermitVolume`, then `CleanVolume`. One step are those nobody can
tell apart: taking the lock and the first question under it (nobody else reads
the lock), an inspection and the permit after it (a later permit is the stronger
one, and the volume is looked at again at the next command), the end of a cleanup
and its release. A permit asks whether the session is still the one that took
the lock, so a lost lock shows at the next question and no earlier.

A command may fail before or after it took effect (`PrepareFails`), and what
failed is undone with permits of its own. `CallProvision` asks the provider,
`ComeUp` is its answer, which may arrive when the run has timed out or died;
such a sandbox mounts what it finds, and `DestroyOrphan` removes it. The catch
block may throw in its queries or its transaction (`Escape`); `finally` then
destroys the sandbox of a Job that keeps running, and `lost` records that its run
left it so. `RunsOnItsAssets` allows a running Job no other way to be without
its sandbox. The three
kinds of cleanups by Job (Reaper, boot recovery, desired state) are one `Scan`
each, from a hint that may be stale; the cleanup of `finally` names its Attempt
and starts with the tokens. The tokens are abstracted to "the run has minted them".
The drain ends a queued Job and leaves its successor active (`Drained`): no cleanup
of the Job is permitted then, and since a cancelled Job is not rerun, volumes and
sandboxes its earlier Attempts left stay.

## Runs

| Run | Expect | Shows |
|---|---|---|
| `JobLifecycle` | pass | the safety invariants, action properties and the refinement, 2 Attempts, 1 crash, 1 retried error |
| `JobLifecycleLive` | pass | executions end, sandboxes are reclaimed, effects are decided; 1 Attempt, 2 crashes |
| `Dispatch` | pass | quotas, one active hub, claims are run, pauses hold; 3 Jobs, 2 replicas, pages of 2, 1 disturbance |
| `DispatchLive` | pass | no wake-up is lost; 4 Jobs, one of them a Hub with a recovery target, 1 replica, disk may fill and recover |
| `UploadCircuit` | pass | no evidence beside a closed circuit, nothing starts on an open one, half-open is decided; 2 Jobs, 2 scopes |
| `RigAdmission` | pass | table and leases agree, what is in force after an answered push that nothing overtook; 2 devices, 2 requests |
| `CanvasConvergence` | pass | rounds, verdicts, rest and completion; 1 finding with 2 follow-up Jobs, 2 rounds, 2 disturbances |
| `Completion` | pass | exclusion of human requests, stored answers, settlement, repair chain, refinement; a Hub, 2 keys, 2 requests, 2 Attempts, 2 faults |
| `SharedAssets` | pass | a Job runs on its own assets, preparations are left alone, an old finally spares the successor's tokens; 2 Attempts, 1 scan, 1 fault |
| `JobLifecycleStaleRun` | violation | a stale run closes its successor's Attempt |
| `UploadCircuitStuck` | violation | an open circuit is never left once its Jobs have ended |
| `CanvasConvergenceForgotten` | violation | the end of a report Job wakes nobody |

Each violation is a disagreement of the code with a sentence of its documents or
comments, quoted under "findings" in `PROJECT.json`. Two more findings belong to
passing runs, whose properties state what the code does where a document says
otherwise: `QuietPushIsInForce` for the push of no device, `AcceptedRunSettles`
for the decision of a Hub.

The models also reach behaviours that no run asks about; each is a hazard in
`PROJECT.json` with a note: the timeout of a human wait never fires, because the
effect of the Attempt that waits is never settled; `not_applied` may be recorded
for a provision whose sandbox lives; the drain cancels a queued Job and leaves
its Attempt active (so `AttemptFollowsJob` allows that one successor); a failing
round loses the round it was asked to repeat, and a readiness request can hide the
disk's recovery (`Faults` of `Dispatch`); evidence that a failing Job reported is
judged by nobody; and a Job whose completion is accepted is queued again when its
run is truncated before the settlement, because the automatic retry looks for
rejected receipts only (`dispatcher.ts:912`). Its next Attempt can neither propose
nor have the receipt restored, although the comment at `dispatcher.ts:909` says
that "ordinary automatic retries must not strand it on an unauthorized successor
Attempt".

**Bounds.** `MaxAttempts = 2` is the least in which a run can meet its successor,
and each retry budget is one, so a third Attempt only repeats the second; the
theorems hold for any number. `MaxCrashes = 1` in the safety run cuts every action
once, 2 in the liveness run also cuts the recovery itself. In `Dispatch`, three
Jobs are two hubs of one canvas (the younger first in the queue, as priority
allows) and a role that shares a project quota of one with the older hub; pages of
two make two-page rounds; two replicas suffice for a race of counts. `MaxEvents =
1` bounds the disturbances (a failed page or round, a retry, a requeue, a pause, a
stop, a lock, a human wait): everything between them is unbounded. `DispatchLive`
has a hub that waits for a role or is sent to recover it, a report that waits for
the hub and a role of another canvas, with one provisioning slot. `UploadCircuit`
has a Job whose failures count and one whose do not, two scopes, two waves or
three failures to trip, so that a trip needs both ways of counting and several
runs; counts saturate at the threshold. In `RigAdmission` two requests are what an
overtaking push needs, the clock of 2 lets one row be newer than another, and the
ceiling holds one of the two devices. In `CanvasConvergence`, `MaxRounds = 2` and
`MaxNoProgress = 2` let a budget be met and exceeded, one automatic retry makes
the last failure differ from the first, two follow-up Jobs make one of them the
last; `MaxRoles`, `MaxFollow`, `MaxHubs` bound how many are active at once, and
`MaxDisturbances = 2` the cancels, crashes, pauses and operators' steps (about
1.05 million states). In `Completion`, `RepairLimit = 2` is a rejection and one
revision, `TerminalLimit = 1` makes every terminal event fill the window, two
requests are what a race of a retransmission with its original needs, and two
faults let a lost acknowledgement be followed by a crash (about 0.8 million states
under the symmetry of keys and requests). The Job is that of a Hub: `decided` is
one more end of its runs, the others stay. In `SharedAssets` two Attempts are an
old owner and its successor, each with its `finally`; one scan is the third party
that may race both; one fault is a lost connection or a death at any step, and a
second one finds nothing the first has not opened, since a lock, once lost, is
nobody's (about 2.8 million states). The theorems about all five hold for any
values of these constants.

**Fairness.** `JobLifecycle`: the Reaper, the cleanup and the effect reconciler
are interval timers (`startReaper`, `effect-reconcile-loop.ts`), boot recovery is
straight-line code, the provider ends every request. Nothing is assumed of runs,
agents or users; a run may hang at any point. `Dispatch`: NOTIFY is delivered, a
round and the code after `Bind` continue by themselves, the disk monitor is a
timer, and a claimed Job leaves provisioning. No Job need ever end. `NoneForgotten`
holds only without a failing round, without readiness requests during recovery,
without Jobs that start to wait for a human and without canvases locked by
others: the constant `Faults` adds each of them, and each breaks it; all four are
hazards. `UploadCircuit`: rounds are kicked by enqueues and timers, a probe has a
timeout, a run ends and time passes; no restart of the service is promised. The
other models make no liveness claim: `IdleIsExplained` is the safety form of
"a canvas does not stand still", a Job ends by `ExecutionEnds`, and nothing
promises that a volume is ever removed: every cleanup may be refused. The
liveness run of `JobLifecycle` has one Attempt; with two Attempts and no crash it
passes as well, but takes four minutes.

## Proofs

The theorems hold for every value of the constants allowed by their named
assumptions. `TypeCorrect` goes action by action. The invariants of `JobLifecycle`
are conjuncts of one inductive invariant `IInv`, since none is inductive alone.
What it adds: rows beyond the newest Attempt are blank; what the control point of
a run tells of its Attempt and its sandbox (`RunsKnown`); what the phase of an
active Attempt tells of its effects (`PhaseTellsEffects`); who may still act for
an Attempt that is not provisioned, nobody before the intent is written and one
run afterwards (`OneActor`); only a sandbox that was bound is recorded or
condemned (`OnlyBoundCondemned`); a sandbox handed to a run whose Attempt is
active exists (`CreatedIsAlive`); and the run of a running Job is not cleaning up,
unless its catch block threw (`RunnerPresent`). The argument for
`RunningSandboxIntact` is then: `Bind` is fenced by Attempt and phase, so the run
that binds is the one actor and its sandbox exists; after that a sandbox is
destroyed only by its run's cleanup, which it reaches before the Job has ended
only by an error of its catch block, because it is condemned, or because no active
Attempt wants it; and whoever condemns the sandbox of a running Job ends the Job
or its Attempt in the same transaction. `JobHistory_proofs` adds that an effect's
intent stands as long as its Attempt is active, and derives the two action
properties and the refinement, one step per action: each maps to an action of
`JobContract` or leaves status, generation and openness alone.

For `Dispatch`, `QuotaInv` says that at most one replica has a claim transaction
open (`OneClaim`), that the slots and rooms it read are still available
(`SlotsStand`: nobody else claims meanwhile and every other step only lowers the
counts) and that claims are not paused while it is open (`NotPaused`: a pause
takes the same lock). The quotas follow because a page claims within them; the
proof counts finite sets of Jobs. For hubs: a page's claims of
one canvas and kind all pass `OldestOfKind`, so there is at most one, and none
if one is active; a hub that waited for a human returns by way of `pending`. For
runners: a claimed Job is in some batch or in flight, a round before its gates
has an empty batch (`IdleEmpty`), and each step that drops the Job from one
either hands it to the other or changes its status.

For `UploadCircuit`, the evidence invariant needs only the types: every way to
close the circuit empties the scopes, and every way to count trips it. The gate
is an action property of the steps that start a run.

For `RigAdmission`, the table invariant follows from the row conditions of each
write. `QuietPushIsInForce` needs to know of every clean request what it read
(`CleanIsQuiet`): its set is still the eligible one, no other PUT is on its way,
its revision is above the broker's while it flies, and it was never answered as
a replay; and where each request's PUT can be (`RequestsInOrder`).

For `CanvasConvergence` the steps compose: an operator from a canvas to canvases
is shown once to keep the rounds sound, the verdicts standing and the canvas
explained, and each action cites the operators it is made of. What is added is
`Sound` (rounds and statuses agree), `Explained` (rest is explained, with what is
owed) and `Done` (a complete canvas at rest has only verdicts).

For `Completion`, the inductive invariant says what holds while a proposal has
the Job row locked (`LockInv`: what was checked is still true, and an accepted
proposal's run is held by its reservation or an earlier done); that keys have one
receipt, one is accepted, and a chain without a generation has one Attempt
(`ReceiptInv`); that a run holds a done only of its accepted receipt, that a run
whose failure is in the hands of the catch holds nothing, and that the run of an
accepted receipt is held by it or past its settlement (`ExecInv`, in terms of
`Bound` and `Gone`); that Attempts to come have
neither a run nor a receipt (`JobInv`); and that a Job with an event has
succeeded (`EventInv`). One lemma (`ExecShape`) says what any step makes of one
run, and most of the argument cites it instead of the actions. The refinement
maps a key to what its receipt says and the events to the outcome: a commit is
`Decide`, a settlement is `Settle`, everything else stutters.

For `SharedAssets`, the safety of a preparation cannot rest on the lock alone: the
lock may be lost between a permit and its command. What the inductive invariant
says instead is that a cleanup freezes the names it will remove *before* it asks
(`CleanInv`): once a cleanup has been permitted, its names are of Attempts that
are closed for good, and no later step can make one of them the active one again.
`PreparationUndisturbed` follows, whoever has the lock. `RunInv` says what the
control point of a run tells of the Job, its volume and its writer as long as its
Attempt serves, `VolumeInv` what its volume and its sandbox hold meanwhile
(`MountOf`), `HandleInv` that the run of a running Job keeps its handle unless it
was lost, so that nobody takes its sandbox for a late one, and `JobInv` when an
Attempt is active. `RunsOnItsAssets` is then carried by `Bind`: it is fenced by
Attempt and phase, so the run that binds is the owner, and its volume is the one
it has filled. For `FinallySparesSuccessor`, `RevokeInv` says that a `finally`
that revokes under the lock it took finds a successor, if there is one by then, in
front of that lock: it got the lock when no Attempt was active, and a token is
minted behind it. About the lock itself two theorems are proved that no run
checks: `LockComesBack`, that nobody keeps it past his end (`LockIsHeld`), and
`LockIsExclusive`, that without a fault whoever is past its acquisition has it
(`LockExcludes`). Both need that a run has one `finally`, which has not started
before its end (`FinallyInv`), since a cleanup is named by its run.

Only model-checked: everything temporal under fairness (`ExecutionEnds`,
`SandboxesReclaimed`, `EffectsDecided`, `NoneForgotten`, `HalfOpenIsDecided`),
which is out of the prover's reach. Every invariant and action property of the
passing runs is also a theorem.

## Not modelled, and the plan

Left out of `JobLifecycle`: effects other than the two that matter. Left out of
`Dispatch`: paused and scheduled canvases and the wake-up timer of schedules,
findings that wait for evidence, finding reports, and the optional poll. Left out
of `RigAdmission`: the broker's lease store, tokens, enumeration and sessions.
Left out of `CanvasConvergence`: plan tasks, completion recovery, knowledge Jobs,
the drain, rows and versions of reports, findings below the minimum severity, a
disabled Hub, the pause for an invalid authorization grant
(`domains/hub-orchestration/application.ts:679-688`) and the path of a rejected
gateway snapshot. Left out of `Completion`: plan receipts, what a Hub's decision
does to the canvas and that it excludes a human request, knowledge keys,
completion recovery records, several human requests at once; the requeue's blocker
of unresolved effects is over-approximated (it may deny at any time), and the
catch's reading of the newest Attempt and its retry are two steps, as they are two
statements. Left out of `SharedAssets`: the Kubernetes manager, Jobs without
assets, a Docker command that takes effect only after its client gave up, the
alerts and metrics, and the revocations of tokens outside the lock
(`reaper.ts:100`, `reconcile.ts:208`).

Most of the repository's lines are not protocol code: API schemas
(`openapi.ts`, `src/packages/shared-types`), the web client, image definitions,
scanners and the agent harness are data, I/O and views without an interleaving
that the database does not already decide. What is left of the protocols, in
this order:

1. `AttemptLease`: the renewal timer, the Reaper's orphan verdict and a change
   of owner; to prove: a renewal never extends another Attempt's lease.
2. Event ingestion beside the terminal events: sequence numbers, repeated and
   late events, plan receipts and what Hub decisions start.
3. The broker's leases composed with `device_leases`: one holder of a device,
   whatever messages are lost, and by which id a lease is released.
4. `WorkerNodes`: enrolment, heartbeats, drain.
5. Plan tasks in `CanvasConvergence`, completion recovery in `Completion`.
6. `WsSendQueue`, gateway budgets and image GC.
