------------------------------- MODULE Dispatch -------------------------------
(***************************************************************************)
(* How pending Jobs are claimed: the dispatchers of the Scheduler replicas *)
(* and what wakes them.  There is no polling by default: a round of claims *)
(* starts when a NOTIFY is delivered, when a provisioning slot is handed   *)
(* back (the kick after a Job has been bound) or when the host disk        *)
(* recovers, and a kick that finds a round under way only asks for one     *)
(* more.  A round takes the queue page by page; each page is a transaction *)
(* under one advisory lock, which reads the pause switch and the quotas,   *)
(* and claims greedily in the order of the queue.                          *)
(*                                                                         *)
(* What a claimed Job then goes through is module JobLifecycle; here it is *)
(* claimed (claimed or provisioning), running, waiting for a human, ended. *)
(* Jobs are numbered in the order of the queue: priority, created_at, id.  *)
(* Projects stand for each of the groups that have a quota of their own    *)
(* (project, provider, credential, model, agent CLI).                      *)
(***************************************************************************)
EXTENDS Integers, FiniteSets

CONSTANTS
    NumJobs,
    Replicas,
    KindOf, CanvasOf, ProjectOf,  \* of each Job
    CreatedAt,                    \* rank of its created_at, which priority may override
    RecoveryTarget,               \* of a Hub: the Job whose completion it is to recover, or 0
    MaxGlobalJobs, MaxConcurrentProvisioning,
    ProjectLimit,                 \* of each project
    PageSize,
    Faults,       \* disturbances a run may contain
    MaxEvents     \* bound: disturbances of any kind in a run

Jobs     == 1..NumJobs
Canvases == {CanvasOf[j] : j \in Jobs}
Projects == {ProjectOf[j] : j \in Jobs}
Kinds    == {"hub_reason", "role", "verify_finding", "report"}

ASSUME CountsAssumption ==
    /\ NumJobs \in Nat
    /\ MaxGlobalJobs \in Nat /\ MaxConcurrentProvisioning \in Nat
    /\ PageSize \in Nat \ {0} /\ MaxEvents \in Nat
ASSUME JobsAssumption ==
    /\ KindOf \in [Jobs -> Kinds]
    /\ CreatedAt \in [Jobs -> Nat]
    /\ \A i, j \in Jobs : CreatedAt[i] = CreatedAt[j] => i = j
    /\ RecoveryTarget \in [Jobs -> Jobs \cup {0}]
ASSUME LimitsAssumption == ProjectLimit \in [Projects -> Nat]
ASSUME FaultsAssumption ==
    Faults \subseteq {"round_fails", "disk", "readiness", "human", "busy_canvas"}

VARIABLES
    status,      \* of each Job
    finished,    \* canvases whose root is analysis_complete (or further)
    locked,      \* canvases whose row another transaction holds
    paused,      \* global_settings.claims_paused
    resumeDue,   \* resumed, but the NOTIFY of it not yet sent
    disk,        \* of the host: "ok", or "full" (error or unknown)
    seen,        \* what each process last knew of the disk
    enabled,     \* replicas whose dispatcher is started
    inbox,       \* replicas a NOTIFY (or the kick of a start) is on its way to
    kickAgain,   \* replicas asked for another round during a round
    round,       \* the round of each replica; kickRunning is pc # "idle"
    inFlight,    \* Jobs each replica has called runJob for
    kickDue,     \* Jobs bound whose run has not yet kicked the dispatcher
    events

vars == <<status, finished, locked, paused, resumeDue, disk, seen, enabled,
          inbox, kickAgain, round, inFlight, kickDue, events>>

Statuses == {"new", "pending", "claimed", "running", "waiting_human", "ended"}
RoundPcs == {"idle", "gates", "page", "claim", "return"}

Idle  == [pc |-> "idle", cursor |-> 0, page |-> {}, slots |-> 0,
          room |-> ProjectLimit, batch |-> {}]
Fresh == [Idle EXCEPT !.pc = "gates"]
Returning(batch) == [Idle EXCEPT !.pc = "return", !.batch = batch]

TypeOK ==
    /\ status \in [Jobs -> Statuses]
    /\ finished \subseteq Canvases /\ locked \subseteq Canvases
    /\ paused \in BOOLEAN /\ resumeDue \in BOOLEAN
    /\ disk \in {"ok", "full"}
    /\ seen \in [Replicas -> {"ok", "full"}]
    /\ enabled \subseteq Replicas /\ inbox \subseteq Replicas
    /\ kickAgain \subseteq Replicas
    /\ round \in [Replicas -> [pc: RoundPcs, cursor: 0..NumJobs,
                               page: SUBSET Jobs, slots: Int,
                               room: [Projects -> Int], batch: SUBSET Jobs]]
    /\ inFlight \in [Replicas -> SUBSET Jobs]
    /\ kickDue \subseteq Jobs
    /\ events \in 0..MaxEvents

Init ==
    /\ status = [j \in Jobs |-> "new"]
    /\ finished = {} /\ locked = {}
    /\ paused = FALSE /\ resumeDue = FALSE
    /\ disk = "ok" /\ seen = [d \in Replicas |-> "ok"]
    /\ enabled = {} /\ inbox = {} /\ kickAgain = {}
    /\ round = [d \in Replicas |-> Idle]
    /\ inFlight = [d \in Replicas |-> {}]
    /\ kickDue = {}
    /\ events = 0

-----------------------------------------------------------------------------
(***************************************************************************)
(* What the claim transaction reads.                                       *)
(***************************************************************************)
In(statuses)  == {j \in Jobs : status[j] \in statuses}
Pending       == In({"pending"})
Active        == In({"claimed", "running"})
Provisioning  == In({"claimed"})
OfProject(S, p) == {j \in S : ProjectOf[j] = p}
OnCanvas(S, c)  == {j \in S : CanvasOf[j] = c}
OfKind(S, k)    == {j \in S : KindOf[j] = k}

\* (mutant: the slots of the provisioning stage are not counted)
SlotsGlobalOnly == MaxGlobalJobs - Cardinality(Active)

\* dispatchSlots and provisionSlots: the smaller of the two.
Slots ==
    LET global       == MaxGlobalJobs - Cardinality(Active)
        provisioning == MaxConcurrentProvisioning - Cardinality(Provisioning)
    IN  IF global <= provisioning THEN global ELSE provisioning

Room == [p \in Projects |-> ProjectLimit[p] - Cardinality(OfProject(Active, p))]

\* The next page of the queue after the cursor: LIMIT pendingPageSize.
PageAfter(cursor) ==
    LET rest == {j \in Pending : j > cursor}
    IN  {j \in rest : Cardinality({i \in rest : i <= j}) <= PageSize}

\* (mutant: the cursor skips a Job)
LastOfAndOneMore(page) == (CHOOSE j \in page : \A i \in page : i <= j) + 1

LastOf(page) == CHOOSE j \in page : \A i \in page : i <= j

\* No older pending Job of the same kind on the canvas.
OldestOfKind(j) ==
    \A i \in OfKind(OnCanvas(Pending, CanvasOf[j]), KindOf[j]) :
        CreatedAt[j] <= CreatedAt[i]

\* Hubs that may have a completion-recovery grant: its target still executes.  What
\* else makes it lapse (evidence, budget, deadline, lease) is left open.
Directed == {j \in Jobs : RecoveryTarget[j] \in In({"running", "waiting_human"})}

\* pendingCompletionRecoveryClaimTarget
TargetOf(j, granted) == {t \in {RecoveryTarget[j]} : j \in granted}

\* (mutant: an older pending hub is not looked for)
HubGateAnyAge(j, granted) ==
    LET c == CanvasOf[j] IN
    /\ OfKind(OnCanvas(In({"claimed", "running", "waiting_human"}), c), "hub_reason") = {}
    /\ OnCanvas(In({"waiting_human"}), c) \subseteq TargetOf(j, granted)
    /\ OfKind(OnCanvas(In({"pending", "claimed", "running", "waiting_human"}), c), "role")
         \subseteq TargetOf(j, granted)
    /\ c \notin finished

\* graphEligibilityReason for hub_reason: hub_active, waiting_human,
\* hub_pending_older, canvas_busy, root_finished; the target of a grant is excepted.
HubGate(j, granted) ==
    LET c == CanvasOf[j] IN
    /\ OfKind(OnCanvas(In({"claimed", "running", "waiting_human"}), c), "hub_reason") = {}
    /\ OnCanvas(In({"waiting_human"}), c) \subseteq TargetOf(j, granted)
    /\ OldestOfKind(j)
    /\ OfKind(OnCanvas(In({"pending", "claimed", "running", "waiting_human"}), c), "role")
         \subseteq TargetOf(j, granted)
    /\ c \notin finished

\* The same for a task report: report_pending_older, report_gate.
ReportGate(j) ==
    LET c == CanvasOf[j] IN
    /\ OldestOfKind(j)
    /\ OnCanvas(In({"claimed", "running", "waiting_human"}), c) = {}
    /\ OnCanvas(Pending, c) \subseteq OfKind(Jobs, "report")
    /\ c \in finished

GraphEligible(j, granted) ==
    CASE KindOf[j] = "hub_reason" -> HubGate(j, granted)
      [] KindOf[j] = "report"     -> ReportGate(j)
      [] OTHER                    -> TRUE

-----------------------------------------------------------------------------
(***************************************************************************)
(* Waking the dispatcher.                                                  *)
(***************************************************************************)

\* jobs_notify_event and every pg_notify('deepsonar_jobs'): all who LISTEN.
\* Notifications on their way to a replica count as one: it may have fewer
\* wake-ups than the code, never more.
Notify == inbox' = inbox \cup enabled

\* (mutant: a kick during a round is dropped)
KickUnlessRunning(d) ==
    IF d \in enabled /\ round[d].pc = "idle"
    THEN round' = [round EXCEPT ![d] = Fresh] /\ kickAgain' = kickAgain \ {d}
    ELSE UNCHANGED <<round, kickAgain>>

\* kickDispatcher.
Kick(d) ==
    IF d \notin enabled THEN UNCHANGED <<round, kickAgain>>
    ELSE IF round[d].pc # "idle"
    THEN kickAgain' = kickAgain \cup {d} /\ UNCHANGED round
    ELSE round' = [round EXCEPT ![d] = Fresh] /\ kickAgain' = kickAgain \ {d}

\* (mutant: claims are not serialised)
LockIgnored == TRUE

\* The claim advisory lock is free: no claim transaction is open.
LockFree == \A d \in Replicas : round[d].pc # "claim"

\* Disturbances are bounded.
Spend == events < MaxEvents /\ events' = events + 1

UnchangedSwitches == UNCHANGED <<finished, locked, paused, resumeDue>>
UnchangedDisk     == UNCHANGED <<disk, seen>>
UnchangedRuns     == UNCHANGED <<inFlight, kickDue>>
UnchangedRounds   == UNCHANGED <<round, kickAgain>>

\* The callback of LISTEN.
Deliver(d) ==
    /\ d \in inbox
    /\ inbox' = inbox \ {d}
    /\ Kick(d)
    /\ UNCHANGED <<status, enabled, events>>
    /\ UnchangedSwitches /\ UnchangedDisk /\ UnchangedRuns

-----------------------------------------------------------------------------
(***************************************************************************)
(* One round: dispatchOnce.                                                *)
(***************************************************************************)
SetRound(d, r) == round' = [round EXCEPT ![d] = r]

\* tickKnowledgeBeforeDispatch and the gates in front of the first page; of the
\* gates only the host disk is modelled.
Gates(d) ==
    /\ round[d].pc = "gates"
    /\ seen' = [seen EXCEPT ![d] = disk]
    /\ SetRound(d, IF disk = "ok" THEN [Idle EXCEPT !.pc = "page"] ELSE Returning({}))
    /\ UNCHANGED <<status, disk, enabled, inbox, kickAgain, events>>
    /\ UnchangedSwitches /\ UnchangedRuns

\* claimPage up to the page of candidates, frozen here and looked at again
\* when their rows are locked.
TakePage(d) ==
    LET page == PageAfter(round[d].cursor) IN
    /\ round[d].pc = "page"
    /\ LockFree
    /\ SetRound(d, IF paused \/ Slots <= 0 \/ page = {}
                   THEN Returning(round[d].batch)
                   ELSE [round[d] EXCEPT !.pc = "claim", !.page = page,
                                         !.slots = Slots, !.room = Room])
    /\ UNCHANGED <<status, enabled, inbox, kickAgain, events>>
    /\ UnchangedSwitches /\ UnchangedDisk /\ UnchangedRuns

\* Candidates whose rows could be locked and that no gate of the graph holds up;
\* the facts of the graph are loaded once for the page.
Candidates(d, granted) ==
    {j \in round[d].page \cap Pending :
        CanvasOf[j] \notin locked /\ GraphEligible(j, granted)}

\* What the loop over the candidates claims: each in turn, unless the slots or
\* the quota of its project are used up by then.
Greedy(d, won, granted) ==
    /\ Cardinality(won) <= round[d].slots
    /\ \A p \in Projects : Cardinality(OfProject(won, p)) <= round[d].room[p]
       \/ OfProject(won, p) = {}
    /\ \A j \in Candidates(d, granted) \ won :
          LET before == {i \in won : i < j} IN
          \/ Cardinality(before) >= round[d].slots
          \/ Cardinality(OfProject(before, ProjectOf[j])) >= round[d].room[ProjectOf[j]]

\* The loop over the pages goes on after a full page that left slots.
More(d, won) ==
    /\ Cardinality(round[d].page) = PageSize
    /\ Cardinality(won) < round[d].slots

\* The rest of claimPage, to its commit.
ClaimPage(d) ==
    /\ round[d].pc = "claim"
    /\ \E granted \in SUBSET Directed : \E won \in SUBSET Candidates(d, granted) :
         /\ Greedy(d, won, granted)
         /\ status' = [j \in Jobs |-> IF j \in won THEN "claimed" ELSE status[j]]
         /\ SetRound(d, [Idle EXCEPT
              !.pc = IF More(d, won) THEN "page" ELSE "return",
              !.cursor = IF More(d, won) THEN LastOf(round[d].page) ELSE 0,
              !.batch = round[d].batch \cup won])
    /\ UNCHANGED <<enabled, inbox, kickAgain, events>>
    /\ UnchangedSwitches /\ UnchangedDisk /\ UnchangedRuns

\* (mutant: the error of a later page loses the earlier ones)
PageFailsAnyway(d) ==
    /\ round[d].pc \in {"page", "claim"}
    /\ round[d].batch # {}
    /\ Spend
    /\ SetRound(d, Returning({}))
    /\ UNCHANGED <<status, enabled, inbox, kickAgain>>
    /\ UnchangedSwitches /\ UnchangedDisk /\ UnchangedRuns

\* A later page fails: what the earlier ones committed is returned.
PageFails(d) ==
    /\ round[d].pc \in {"page", "claim"}
    /\ round[d].batch # {}
    /\ Spend
    /\ SetRound(d, Returning(round[d].batch))
    /\ UNCHANGED <<status, enabled, inbox, kickAgain>>
    /\ UnchangedSwitches /\ UnchangedDisk /\ UnchangedRuns

\* Anything before the first commit fails: kickDispatcher logs it and leaves.
RoundFails(d) ==
    /\ "round_fails" \in Faults
    /\ round[d].pc \in {"gates", "page", "claim"}
    /\ round[d].batch = {}
    /\ Spend
    /\ SetRound(d, Idle)
    /\ UNCHANGED <<status, enabled, inbox, kickAgain>>
    /\ UnchangedSwitches /\ UnchangedDisk /\ UnchangedRuns

\* runJob is called for every Job of the batch; then the loop of kickDispatcher.
Return(d) ==
    /\ round[d].pc = "return"
    /\ inFlight' = [inFlight EXCEPT ![d] = @ \cup (round[d].batch \cap In({"claimed"}))]
    /\ SetRound(d, IF d \in kickAgain \cap enabled THEN Fresh ELSE Idle)
    /\ kickAgain' = kickAgain \ {d}
    /\ UNCHANGED <<status, enabled, inbox, kickDue, events>>
    /\ UnchangedSwitches /\ UnchangedDisk

RoundStep(d) == Gates(d) \/ TakePage(d) \/ ClaimPage(d) \/ Return(d)

-----------------------------------------------------------------------------
(***************************************************************************)
(* The Jobs.  The trigger announces pending and every terminal status, not *)
(* running and not waiting_human.                                          *)
(***************************************************************************)
Move(j, to) == status' = [status EXCEPT ![j] = to]

\* The run of j, wherever it is, is over.
Drop(j) ==
    /\ inFlight' = [d \in Replicas |-> inFlight[d] \ {j}]
    /\ kickDue' = kickDue \ {j}

Submit(j) ==
    /\ status[j] = "new"
    /\ Move(j, "pending") /\ Notify
    /\ UNCHANGED <<enabled, events>>
    /\ UnchangedSwitches /\ UnchangedDisk /\ UnchangedRounds /\ UnchangedRuns

\* Provisioning -> running: a provisioning slot is free.
Bind(d, j) ==
    /\ j \in inFlight[d] /\ status[j] = "claimed"
    /\ Move(j, "running")
    /\ kickDue' = kickDue \cup {j}
    /\ UNCHANGED <<enabled, inbox, inFlight, events>>
    /\ UnchangedSwitches /\ UnchangedDisk /\ UnchangedRounds

KickAfterBind(d, j) ==
    /\ j \in inFlight[d] \cap kickDue
    /\ kickDue' = kickDue \ {j}
    /\ Kick(d)
    /\ UNCHANGED <<status, enabled, inbox, inFlight, events>>
    /\ UnchangedSwitches /\ UnchangedDisk

\* The automatic retries.
Retry(j) ==
    /\ status[j] \in {"claimed", "running"}
    /\ \E d \in Replicas : j \in inFlight[d]
    /\ Spend
    /\ Move(j, "pending") /\ Notify /\ Drop(j)
    /\ UNCHANGED enabled
    /\ UnchangedSwitches /\ UnchangedDisk /\ UnchangedRounds

\* Any terminal status, from whoever; a hub may have finished the analysis.
End(j) ==
    /\ status[j] \in {"pending", "claimed", "running", "waiting_human"}
    /\ Move(j, "ended") /\ Notify /\ Drop(j)
    /\ finished' \in IF KindOf[j] = "hub_reason" /\ status[j] = "running"
                     THEN {finished, finished \cup {CanvasOf[j]}} ELSE {finished}
    /\ UNCHANGED <<locked, paused, resumeDue, enabled, events>>
    /\ UnchangedDisk /\ UnchangedRounds

\* The agent asks a human: the Job leaves the quotas.
AskHuman(j) ==
    /\ "human" \in Faults
    /\ status[j] = "running" /\ j \notin kickDue
    /\ Spend
    /\ Move(j, "waiting_human") /\ Drop(j)
    /\ UNCHANGED <<enabled, inbox>>
    /\ UnchangedSwitches /\ UnchangedDisk /\ UnchangedRounds

ReplyToHuman(j) ==
    /\ status[j] = "waiting_human"
    /\ Move(j, "pending") /\ Notify
    /\ UNCHANGED <<enabled, events>>
    /\ UnchangedSwitches /\ UnchangedDisk /\ UnchangedRounds /\ UnchangedRuns

\* requeueJob takes the claim lock.
Requeue(j) ==
    /\ status[j] = "ended" /\ LockFree
    /\ Spend
    /\ Move(j, "pending") /\ Notify
    /\ UNCHANGED enabled
    /\ UnchangedSwitches /\ UnchangedDisk /\ UnchangedRounds /\ UnchangedRuns

\* Another transaction holds the row of a canvas (an ingestion, say) and lets it
\* go without having changed the status of any Job.
LockCanvas(c) ==
    /\ "busy_canvas" \in Faults
    /\ c \notin locked /\ Spend
    /\ locked' = locked \cup {c}
    /\ UNCHANGED <<status, finished, paused, resumeDue, enabled, inbox>>
    /\ UnchangedDisk /\ UnchangedRounds /\ UnchangedRuns

UnlockCanvas(c) ==
    /\ c \in locked
    /\ locked' = locked \ {c}
    /\ UNCHANGED <<status, finished, paused, resumeDue, enabled, inbox, events>>
    /\ UnchangedDisk /\ UnchangedRounds /\ UnchangedRuns

-----------------------------------------------------------------------------
(***************************************************************************)
(* The operator and the host.                                              *)
(***************************************************************************)
SetPaused(value) ==
    /\ paused = ~value
    /\ paused' = value
    /\ UNCHANGED <<status, finished, locked, enabled, inbox>>
    /\ UnchangedDisk /\ UnchangedRounds /\ UnchangedRuns

\* (mutant: the switch is written outside the claim lock)
PauseAtOnce == SetPaused(TRUE) /\ Spend /\ UNCHANGED resumeDue

PausePlatformClaims == LockFree /\ SetPaused(TRUE) /\ Spend /\ UNCHANGED resumeDue

ResumePlatformClaims ==
    LockFree /\ SetPaused(FALSE) /\ resumeDue' = TRUE /\ UNCHANGED events

\* The wake-up is a statement of its own, after the commit.
NotifyResumed ==
    /\ resumeDue
    /\ resumeDue' = FALSE
    /\ Notify
    /\ UNCHANGED <<status, finished, locked, paused, enabled, events>>
    /\ UnchangedDisk /\ UnchangedRounds /\ UnchangedRuns

\* startDispatcher: LISTEN, then one kick for what piled up meanwhile.
StartDispatcher(d) ==
    /\ d \notin enabled
    /\ enabled' = enabled \cup {d} /\ inbox' = inbox \cup {d}
    /\ UNCHANGED <<status, events>>
    /\ UnchangedSwitches /\ UnchangedDisk /\ UnchangedRounds /\ UnchangedRuns

\* Its stop function, when maintenance begins: a round that has not yet passed
\* the gate returns without claims, any other goes on.
StopDispatcher(d) ==
    /\ d \in enabled /\ Spend
    /\ enabled' = enabled \ {d} /\ inbox' = inbox \ {d}
    /\ kickAgain' = kickAgain \ {d}
    /\ IF round[d].pc = "gates" THEN SetRound(d, Returning({})) ELSE UNCHANGED round
    /\ UNCHANGED status
    /\ UnchangedSwitches /\ UnchangedDisk /\ UnchangedRuns

DiskMoves ==
    /\ "disk" \in Faults
    /\ \/ disk = "ok" /\ disk' = "full" /\ Spend
       \/ disk = "full" /\ disk' = "ok" /\ UNCHANGED events
    /\ UNCHANGED <<status, seen, enabled, inbox>>
    /\ UnchangedSwitches /\ UnchangedRounds /\ UnchangedRuns

\* refreshHostDiskPressure, by the monitor or by loadReadiness.  Both overwrite
\* what the monitor compares with; only the monitor wakes the dispatcher when it
\* sees the disk recover.
RefreshDisk(d, who) ==
    /\ \/ who = "monitor" /\ d \in enabled
       \/ who = "readiness" /\ "readiness" \in Faults
    /\ seen[d] # disk
    /\ seen' = [seen EXCEPT ![d] = disk]
    /\ IF disk = "ok" /\ who = "monitor" THEN Kick(d) ELSE UnchangedRounds
    /\ UNCHANGED <<status, disk, enabled, inbox, events>>
    /\ UnchangedSwitches /\ UnchangedRuns

-----------------------------------------------------------------------------
Next ==
    \/ \E d \in Replicas :
          \/ Deliver(d) \/ RoundStep(d) \/ PageFails(d) \/ RoundFails(d)
          \/ StartDispatcher(d) \/ StopDispatcher(d)
          \/ \E who \in {"monitor", "readiness"} : RefreshDisk(d, who)
    \/ \E d \in Replicas, j \in Jobs : Bind(d, j) \/ KickAfterBind(d, j)
    \/ \E j \in Jobs : \/ Submit(j) \/ Retry(j) \/ End(j)
                       \/ AskHuman(j) \/ ReplyToHuman(j) \/ Requeue(j)
    \/ \E c \in Canvases : LockCanvas(c) \/ UnlockCanvas(c)
    \/ PausePlatformClaims \/ ResumePlatformClaims \/ NotifyResumed
    \/ DiskMoves

Spec == Init /\ [][Next]_vars

\* A claimed Job leaves provisioning: it is bound, or the Reaper ends it.
ProvisioningEnds(j) ==
    \/ \E d \in Replicas : Bind(d, j)
    \/ status[j] = "claimed" /\ End(j)

(***************************************************************************)
(* Fairness: notifications are delivered, a round and a run are code that  *)
(* continues by itself, the disk monitor is an interval timer, and the     *)
(* Reaper ends provisioning (ExecutionEnds of JobLifecycle).  No Job has   *)
(* to end, no switch to be turned, nothing has to fail or to recover.      *)
(***************************************************************************)
Fairness ==
    /\ \A d \in Replicas : /\ WF_vars(Deliver(d)) /\ WF_vars(RoundStep(d))
                           /\ WF_vars(RefreshDisk(d, "monitor"))
    /\ \A d \in Replicas, j \in Jobs : WF_vars(KickAfterBind(d, j))
    /\ \A j \in Jobs : WF_vars(ProvisioningEnds(j))
    /\ WF_vars(NotifyResumed)

FairSpec == Spec /\ Fairness

-----------------------------------------------------------------------------
(***************************************************************************)
(* Properties.                                                             *)
(***************************************************************************)

\* However many replicas claim, page by page, from counts read before: the
\* quotas hold over all Jobs (dispatcher.ts, claimPendingJobs).
WithinQuotas ==
    /\ Cardinality(Active) <= MaxGlobalJobs
    /\ Cardinality(Provisioning) <= MaxConcurrentProvisioning
    /\ \A p \in Projects : Cardinality(OfProject(Active, p)) <= ProjectLimit[p]

\* A canvas has one active hub at most, although the facts of the graph are read
\* once for a page that may hold several hubs of it, and a hub that waited for a
\* human comes back (01-system-specification.md, FR-HUB-001).
OneActiveHub ==
    \A i, j \in OfKind(In({"claimed", "running", "waiting_human"}), "hub_reason") :
        CanvasOf[i] = CanvasOf[j] => i = j

\* A claim that is committed reaches runJob, whatever page fails and whoever is
\* stopped afterwards (dispatcher.ts, the catch of claimPendingJobs): a claimed
\* Job is in a batch still to be returned, or it has a run.
ClaimedHasRunner ==
    \A j \in In({"claimed"}) :
        \E d \in Replicas : j \in round[d].batch \cup inFlight[d]

\* Once a pause has been committed nothing is claimed, by any replica, not even
\* by a page under way (platform-claims/store.ts, readPlatformClaimsControl).
PauseIsRespected ==
    [][\A j \in Jobs : status[j] # "claimed" /\ status'[j] = "claimed" => ~paused
      ]_<<status, paused>>

\* j could be claimed by a round that started now, without a grant.
Claimable(j) ==
    /\ status[j] = "pending"
    /\ GraphEligible(j, {}) /\ CanvasOf[j] \notin locked
    /\ ~paused /\ disk = "ok" /\ enabled # {}
    /\ Slots > 0 /\ Room[ProjectOf[j]] > 0

\* No wake-up is lost: no Job stays claimable for ever without being claimed
\* (dispatcher.ts, kickDispatcher; "event-driven throughout, no polling").
NoneForgotten == \A j \in Jobs : ~<>[]Claimable(j)
=============================================================================
