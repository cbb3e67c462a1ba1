----------------------------- MODULE SharedAssets -----------------------------
(***************************************************************************)
(* The read-only shared assets of one Job: the volume each Attempt prepares *)
(* and mounts, the advisory lock a preparation and every cleanup take, and  *)
(* what removes volumes: the finally of a run, the Reaper, the desired-     *)
(* state cleanup and a Scheduler that boots (shared-asset-lifecycle.ts and  *)
(* the Docker manager shared-assets-volume.ts).                             *)
(*                                                                         *)
(* The lock is a session lock of PostgreSQL on a connection of its own: it  *)
(* goes when the connection breaks, and its holder learns of it at its next *)
(* question only.  A command to the Docker daemon is not covered by any     *)
(* transaction, so that a question and the command it permits are two       *)
(* steps.  Runs and cleanups may belong to different processes.             *)
(*                                                                         *)
(* A run is named by the Attempt it provisions.  A generation is a random   *)
(* UUID each run draws, so it is named by the run as well.                  *)
(*                                                                         *)
(* Steps that nobody can tell apart are one: taking the lock and the first  *)
(* question under it, a look at a volume and the permit that follows it,    *)
(* the end of a cleanup and the release of its lock.                        *)
(***************************************************************************)
EXTENDS Naturals

CONSTANTS
    MaxAttempts,   \* bound: Attempts the Job may have
    NumScans,      \* bound: cleanups by Job that are under way at once
    MaxFaults      \* bound: connections lost and processes that die

ASSUME AssetsAssumption ==
    MaxAttempts \in Nat \ {0} /\ NumScans \in Nat /\ MaxFaults \in Nat

VARIABLES
    job,        \* the row of jobs, and of its newest Attempt
    runs,       \* the runJob calls
    cleaners,   \* the calls of cleanupSharedAssetsForJob
    lock,       \* the session that holds the advisory lock of the Job
    volumes,    \* what is in the volume of each generation
    helpers,    \* the generations whose writer container exists
    sandboxes,  \* what the sandbox of each run has mounted, "none" without one,
                \* "asked" if the provider has a request it has not answered
    faults

vars == <<job, runs, cleaners, lock, volumes, helpers, sandboxes, faults>>

Attempts == 1..MaxAttempts
Free     == <<"free", 0>>
Finals   == {"finally"} \X Attempts
Scans    == {"scan"} \X (1..NumScans)
Cleaners == Finals \cup Scans
Preparer(n) == <<"prepare", n>>
Finally(n)  == <<"finally", n>>

\* Statuses in which a cleanup takes the Job for owned.
Owned     == {"claimed", "provisioning", "running", "waiting_human"}
Executing == Owned \ {"waiting_human"}
Phases    == {"preparing", "provision.effect_pending", "provisioned"}

\* A volume is labelled when volume create made it, and filled when the writer
\* has copied every file; the engine creates one without labels, "implicit",
\* for a container that mounts a name that does not exist.
Contents == {"empty", "filled", "implicit"}
Labelled(n) == volumes[n] \in {"empty", "filled"}
InUse(n)    == n \in helpers \/ sandboxes[n] \in Contents

RunPcs == {"idle", "claimed", "staging", "staged", "create", "created",
           "write", "written", "copy", "copied", "unwrite", "unwritten", "undo",
           "remove", "mint", "minted", "admitted", "mount", "mounted", "bind",
           "bound", "agent", "error", "caught", "finally", "done"}
CleanerPcs == {"idle", "waiting", "revoke", "list", "listed", "next", "helper",
               "volume", "rm"}

\* A run remembers the volume prepare() returned, that it has called the
\* provider, the handle it got, and that its catch block threw as well and left
\* the Job running.
NoRun     == [pc |-> "idle", named |-> FALSE, called |-> FALSE, handle |-> FALSE,
              lost |-> FALSE]
NoCleaner == [pc |-> "idle", status |-> "pending", latest |-> 0, names |-> {}, at |-> 0]

TypeOK ==
    /\ job \in [status: Owned \cup {"pending", "ended"}, latest: 0..MaxAttempts,
                active: BOOLEAN, phase: Phases]
    /\ runs \in [Attempts ->
          [pc: RunPcs, named: BOOLEAN, called: BOOLEAN, handle: BOOLEAN,
           lost: BOOLEAN]]
    /\ cleaners \in [Cleaners ->
          [pc: CleanerPcs, status: {"pending", "ended"}, latest: 0..MaxAttempts,
           names: SUBSET Attempts, at: 0..MaxAttempts]]
    /\ lock \in {Free} \cup Cleaners \cup {Preparer(n) : n \in Attempts}
    /\ volumes \in [Attempts -> Contents \cup {"absent"}]
    /\ helpers \subseteq Attempts
    /\ sandboxes \in [Attempts -> Contents \cup {"none", "asked"}]
    /\ faults \in 0..MaxFaults

Init ==
    /\ job = [status |-> "pending", latest |-> 0, active |-> FALSE,
              phase |-> "preparing"]
    /\ runs = [n \in Attempts |-> NoRun]
    /\ cleaners = [c \in Cleaners |-> NoCleaner]
    /\ lock = Free
    /\ volumes = [n \in Attempts |-> "absent"]
    /\ helpers = {}
    /\ sandboxes = [n \in Attempts |-> "none"]
    /\ faults = 0

GoTo(n, pc)   == runs' = [runs EXCEPT ![n].pc = pc]
Move(c, pc)   == cleaners' = [cleaners EXCEPT ![c].pc = pc]
Release(s)    == lock' = IF lock = s THEN Free ELSE lock
UnchangedDocker == UNCHANGED <<volumes, helpers, sandboxes>>
UnchangedOwner  == UNCHANGED <<job, lock>>
Fault == faults < MaxFaults /\ faults' = faults + 1

-----------------------------------------------------------------------------
(***************************************************************************)
(* The Job's row, as the others write it.                                  *)
(***************************************************************************)
End(status) == [job EXCEPT !.status = status, !.active = FALSE]

\* A claim runs the Attempt an automatic retry left active, or a new one.
Claim(n) ==
    /\ job.status = "pending"
    /\ n = IF job.active THEN job.latest ELSE job.latest + 1
    /\ job' = [status |-> "claimed", latest |-> n, active |-> TRUE,
               phase |-> "preparing"]
    /\ GoTo(n, "claimed")
    /\ UNCHANGED <<cleaners, lock>> /\ UnchangedDocker

\* The drain of a canvas cancels a queued Job, and leaves the Attempt an automatic
\* retry gave it active.
Drained == [job EXCEPT !.status = "ended"]

\* A user cancels, the Reaper or a Scheduler that boots ends the Job; a user
\* replies, or operators rerun it.
OthersWrite ==
    /\ \/ job.status \in Owned \cup {"pending"} /\ job' = End("ended")
       \/ job.status \in {"waiting_human", "ended"} /\ job' = End("pending")
       \/ job.status = "pending" /\ job' = Drained
    /\ UNCHANGED <<runs, cleaners, lock>> /\ UnchangedDocker

\* reconcileProvisioning queues a Job again whose provision had not started.
BootRequeues ==
    /\ job.status \in {"claimed", "provisioning"}
    /\ job.phase = "preparing"
    /\ job' = End("pending")
    /\ UNCHANGED <<runs, cleaners, lock>> /\ UnchangedDocker

-----------------------------------------------------------------------------
(***************************************************************************)
(* A run, from its claim to the volume it has prepared.                    *)
(***************************************************************************)
StartProvisioning(n) ==
    /\ runs[n].pc = "claimed"
    /\ IF job.status = "claimed"
       THEN job' = [job EXCEPT !.status = "provisioning"] /\ GoTo(n, "staging")
       ELSE UNCHANGED job /\ GoTo(n, "finally")
    /\ UNCHANGED <<cleaners, lock>> /\ UnchangedDocker

\* (mutant: the Attempt is not compared)
OwnsAnyAttempt(n, phases) ==
    job.status = "provisioning" /\ job.active /\ job.phase \in phases

\* What assertCurrent and lockCurrentProvisioningAttempt ask of the Job.
OwnsProvisioning(n, phases) ==
    /\ job.status = "provisioning"
    /\ job.active
    /\ job.latest = n
    /\ job.phase \in phases

\* assertCurrent: the session must still be the one that took the lock.
Current(n) ==
    /\ lock = Preparer(n)
    /\ OwnsProvisioning(n, {"preparing", "provision.effect_pending"})

\* acquireSharedAssetPreparation reads the Job once it has the lock, and gives
\* the lock back if the Attempt may not prepare.
AcquirePreparation(n) ==
    /\ runs[n].pc = "staging"
    /\ lock = Free
    /\ IF OwnsProvisioning(n, {"preparing"})
       THEN lock' = Preparer(n) /\ GoTo(n, "staged")
       ELSE UNCHANGED lock /\ GoTo(n, "error")
    /\ UNCHANGED <<job, cleaners>> /\ UnchangedDocker

\* The next step of a run that is still current, and where it goes if not.
Proceed(n, condition, next, otherwise) ==
    /\ GoTo(n, IF condition /\ Current(n) THEN next ELSE otherwise)
    /\ UNCHANGED cleaners /\ UnchangedOwner /\ UnchangedDocker

\* prepare() asks before each command, and looks at the volume after each.
PreparePermits(n) ==
    \/ runs[n].pc = "staged"   /\ Proceed(n, TRUE, "create", "error")
    \/ runs[n].pc = "created"  /\ Proceed(n, Labelled(n), "write", "undo")
    \/ runs[n].pc = "written"  /\ Proceed(n, n \in helpers /\ Labelled(n), "copy", "undo")
    \/ runs[n].pc = "copied"   /\ Proceed(n, Labelled(n), "unwrite", "undo")
    \/ runs[n].pc = "undo"     /\ Proceed(n, TRUE, "remove", "error")

CreateVolume(n) ==
    /\ runs[n].pc = "create"
    /\ volumes' = [volumes EXCEPT ![n] = "empty"]
    /\ GoTo(n, "created")
    /\ UNCHANGED <<cleaners, helpers, sandboxes>> /\ UnchangedOwner

\* What a container of run n finds at its mount.
AfterMount(n) == IF volumes[n] = "absent" THEN "implicit" ELSE volumes[n]

CreateHelper(n) ==
    /\ runs[n].pc = "write"
    /\ helpers' = helpers \cup {n}
    /\ volumes' = [volumes EXCEPT ![n] = AfterMount(n)]
    /\ GoTo(n, "written")
    /\ UNCHANGED <<cleaners, sandboxes>> /\ UnchangedOwner

CopyFiles(n) ==
    /\ runs[n].pc = "copy"
    /\ n \in helpers
    /\ volumes' = [volumes EXCEPT ![n] = IF @ = "empty" THEN "filled" ELSE @]
    /\ GoTo(n, "copied")
    /\ UNCHANGED <<cleaners, helpers, sandboxes>> /\ UnchangedOwner

RemoveHelper(n) ==
    /\ runs[n].pc = "unwrite"
    /\ helpers' = helpers \ {n}
    /\ GoTo(n, "unwritten")
    /\ UNCHANGED <<cleaners, volumes, sandboxes>> /\ UnchangedOwner

\* The last look at the volume; only now is it named to the rest of the run,
\* which asks once more before it goes on (see Throws).
FinishPrepare(n) ==
    /\ runs[n].pc = "unwritten"
    /\ runs' = IF Labelled(n) /\ Current(n)
               THEN [runs EXCEPT ![n].pc = "mint", ![n].named = TRUE]
               ELSE [runs EXCEPT ![n].pc = "undo"]
    /\ UNCHANGED cleaners /\ UnchangedOwner /\ UnchangedDocker

\* A Docker command fails or times out, before or after it took effect.
PrepareFails(n) ==
    /\ runs[n].pc \in {"create", "created", "write", "written", "copy", "copied",
                       "unwrite", "unwritten"}
    /\ GoTo(n, "undo")
    /\ UNCHANGED cleaners /\ UnchangedOwner /\ UnchangedDocker

\* What failed is undone: the helper, then the volume, a permit for each; a
\* volume that is not ours, or in use, is left.
UndoPrepare(n) ==
    /\ runs[n].pc = "remove"
    /\ IF n \in helpers
       THEN helpers' = helpers \ {n} /\ GoTo(n, "undo") /\ UNCHANGED volumes
       ELSE /\ volumes' = IF Labelled(n) /\ ~InUse(n)
                          THEN [volumes EXCEPT ![n] = "absent"] ELSE volumes
            /\ GoTo(n, "error")
            /\ UNCHANGED helpers
    /\ UNCHANGED <<cleaners, sandboxes>> /\ UnchangedOwner

-----------------------------------------------------------------------------
(***************************************************************************)
(* From the volume to the running Job, and to the end of the run.          *)
(***************************************************************************)
\* preparePlatformCapability: the capability tokens of the Attempt.
MintTokens(n) ==
    /\ runs[n].pc = "mint"
    /\ GoTo(n, "minted")
    /\ UNCHANGED cleaners /\ UnchangedOwner /\ UnchangedDocker

\* The intent of the provision effect.
BeginProvision(n) ==
    /\ runs[n].pc = "minted"
    /\ IF OwnsProvisioning(n, {"preparing"})
       THEN /\ job' = [job EXCEPT !.phase = "provision.effect_pending"]
            /\ GoTo(n, "admitted")
       ELSE UNCHANGED job /\ GoTo(n, "error")
    /\ UNCHANGED <<cleaners, lock>> /\ UnchangedDocker

\* The last question before the call; runner.provision looks at the volume,
\* then asks for the sandbox.
CallProvision(n) ==
    /\ runs[n].pc = "admitted"
    /\ IF Current(n) /\ job.phase = "provision.effect_pending"
       THEN /\ runs' = [runs EXCEPT ![n].pc = IF Labelled(n) THEN "mount" ELSE "error",
                                    ![n].called = TRUE]
            /\ sandboxes' = [sandboxes EXCEPT ![n] = IF Labelled(n) THEN "asked" ELSE @]
       ELSE GoTo(n, "error") /\ UNCHANGED sandboxes
    /\ UNCHANGED <<cleaners, volumes, helpers>> /\ UnchangedOwner

\* The provider answers with a handle; it may also fail, or be too late.
GetHandle(n) ==
    /\ runs[n].pc = "mount"
    /\ sandboxes[n] \in Contents
    /\ runs' = [runs EXCEPT ![n].pc = "mounted", ![n].handle = TRUE]
    /\ UNCHANGED cleaners /\ UnchangedOwner /\ UnchangedDocker

HandoffPermit(n) ==
    runs[n].pc = "mounted" /\ Proceed(n, TRUE, "bind", "error")

\* Settlement, resource binding and provisioning -> running.
Bind(n) ==
    /\ runs[n].pc = "bind"
    /\ IF OwnsProvisioning(n, {"provision.effect_pending"})
       THEN /\ job' = [job EXCEPT !.status = "running", !.phase = "provisioned"]
            /\ GoTo(n, "bound")
       ELSE UNCHANGED job /\ GoTo(n, "error")
    /\ UNCHANGED <<cleaners, lock>> /\ UnchangedDocker

\* The lock goes back once the Job is bound; to have lost it is an error.
ReleasePreparation(n) ==
    /\ runs[n].pc = "bound"
    /\ GoTo(n, IF lock = Preparer(n) THEN "agent" ELSE "error")
    /\ Release(Preparer(n))
    /\ UNCHANGED <<job, cleaners>> /\ UnchangedDocker

\* The agent's terminal event, which names the Job only.
AgentEnds(n) ==
    /\ runs[n].pc = "agent"
    /\ IF job.status = "running"
       THEN /\ job' \in {End("ended"), [job EXCEPT !.status = "waiting_human"]}
            /\ GoTo(n, "finally")
       ELSE UNCHANGED job /\ GoTo(n, "error")
    /\ UNCHANGED <<cleaners, lock>> /\ UnchangedDocker

\* Whatever else may throw: the preflight, the lock's timeout, staging, what undoes
\* a failed preparation, the provider or its deadline, a query, the agent.
Throws(n) ==
    /\ runs[n].pc \in {"claimed", "staging", "staged", "undo", "remove", "mint", "minted",
                       "admitted", "mount", "mounted", "bind", "agent"}
    /\ GoTo(n, "error")
    /\ UNCHANGED cleaners /\ UnchangedOwner /\ UnchangedDocker

\* A query of the catch block throws, or its transaction does: the error leaves
\* runJob through finally, and the Job keeps the row it had.
Escape(n) ==
    /\ runs' = [runs EXCEPT ![n].pc = "finally",
                            ![n].lost = (job.status = "running")]
    /\ UNCHANGED job

CatchError(n) ==
    /\ runs[n].pc = "error"
    /\ \/ /\ GoTo(n, IF job.latest = n /\ job.status # "waiting_human"
                      THEN "caught" ELSE "finally")
          /\ UNCHANGED job
       \/ Escape(n)
    /\ UNCHANGED <<cleaners, lock>> /\ UnchangedDocker

Serving(n) == job.active /\ job.latest = n

\* The catch block queues the Job again, with a successor Attempt: a provision
\* that never called the provider, by its owner, or a truncated execution, by
\* whoever runs now.  Otherwise it fails a Job its Attempt is the newest of.
RetryOrFail(n) ==
    /\ runs[n].pc = "caught"
    /\ \/ /\ \/ Serving(n) /\ job.status \in {"claimed", "provisioning"} /\ ~runs[n].called
             \/ job.status = "running" /\ runs[n].handle
          /\ job.latest < MaxAttempts
          /\ job' = [status |-> "pending", latest |-> job.latest + 1,
                     active |-> TRUE, phase |-> "preparing"]
          /\ GoTo(n, "finally")
       \/ /\ job' = IF job.latest = n /\ job.status \in Executing
                    THEN End("ended") ELSE job
          /\ GoTo(n, "finally")
       \/ Escape(n)
    /\ UNCHANGED <<cleaners, lock>> /\ UnchangedDocker

\* finally: the sandbox, if the provider lets it go; then the lock, if the run
\* still has it; then the cleanup that takes it anew, for the volume the run
\* has named.
FinishRun(n) ==
    /\ runs[n].pc = "finally"
    /\ sandboxes' \in IF runs[n].handle
                      THEN {sandboxes, [sandboxes EXCEPT ![n] = "none"]}
                      ELSE {sandboxes}
    /\ Release(Preparer(n))
    /\ cleaners' = [cleaners EXCEPT
          ![Finally(n)].pc = "waiting",
          ![Finally(n)].names = IF runs[n].named THEN {n} ELSE {}]
    /\ runs' = [runs EXCEPT ![n] = [NoRun EXCEPT !.pc = "done", !.lost = runs[n].lost]]
    /\ UNCHANGED <<job, volumes, helpers>>

\* Its process dies: the connection breaks, what the daemon has stays.
RunDies(n) ==
    /\ Fault
    /\ runs[n].pc \notin {"idle", "done"}
    /\ runs' = [runs EXCEPT ![n] = [NoRun EXCEPT !.pc = "done"]]
    /\ Release(Preparer(n))
    /\ UNCHANGED <<job, cleaners>> /\ UnchangedDocker

RunStep(n) ==
    \/ StartProvisioning(n) \/ AcquirePreparation(n)
    \/ PreparePermits(n) \/ CreateVolume(n) \/ CreateHelper(n) \/ CopyFiles(n)
    \/ RemoveHelper(n) \/ FinishPrepare(n) \/ PrepareFails(n) \/ UndoPrepare(n)
    \/ MintTokens(n) \/ BeginProvision(n) \/ CallProvision(n)
    \/ GetHandle(n) \/ HandoffPermit(n) \/ Bind(n) \/ ReleasePreparation(n)
    \/ AgentEnds(n) \/ Throws(n) \/ CatchError(n) \/ RetryOrFail(n)
    \/ FinishRun(n)

-----------------------------------------------------------------------------
(***************************************************************************)
(* Cleanups.  A scan starts from a Job that did not execute and, where it   *)
(* goes by volumes, from one it has seen: both are hints.                  *)
(***************************************************************************)
StartScan(s) ==
    /\ cleaners[s].pc = "idle"
    /\ job.status \notin Executing
    /\ Move(s, "waiting")
    /\ UNCHANGED runs /\ UnchangedOwner /\ UnchangedDocker

\* The end of a cleanup, with or without an error.
Quit(c) == cleaners' = [cleaners EXCEPT ![c] = NoCleaner] /\ Release(c)

\* The next step of a cleanup that may go on.
Continue(c, condition, next) ==
    /\ IF condition THEN Move(c, next) /\ UNCHANGED lock ELSE Quit(c)
    /\ UNCHANGED <<job, runs>> /\ UnchangedDocker

\* (mutant: the hint is trusted)
TrustsHint(c) == TRUE

\* Ownership, read again under the lock.  A finally asks for its own Attempt.
MayClean(c) ==
    /\ c \in Finals => job.latest = c[2]
    /\ ~job.active
    /\ job.status \notin Owned

\* The volumes a cleanup is asked to remove: the one its run has named, one a
\* scan has seen, or with no name all it will find.
Hints(c) ==
    IF c \in Finals THEN {cleaners[c].names}
    ELSE {names \in SUBSET Attempts :
            names = {} \/ \E n \in Attempts : Labelled(n) /\ names = {n}}

\* A finally starts with the callback that revokes tokens; a scan for all
\* volumes of the Job lists them, one for a volume it has seen does not.
AcquireCleanup(c) ==
    /\ cleaners[c].pc = "waiting"
    /\ lock = Free
    /\ IF MayClean(c)
       THEN /\ lock' = c
            /\ \E names \in Hints(c) :
                  cleaners' = [cleaners EXCEPT
                     ![c].pc = IF c \in Finals THEN "revoke"
                               ELSE IF names = {} THEN "list" ELSE "listed",
                     ![c].names = names,
                     ![c].status = job.status, ![c].latest = job.latest]
       ELSE Quit(c)
    /\ UNCHANGED <<job, runs>> /\ UnchangedDocker

\* The callback of finally revokes all tokens of the Job, without asking again,
\* and goes on if the run has named a volume.
RevokeTokens(c) ==
    /\ cleaners[c].pc = "revoke"
    /\ Continue(c, cleaners[c].names # {}, "listed")

\* removeForJob freezes the names it will remove ...
ListVolumes(c) ==
    /\ cleaners[c].pc = "list"
    /\ cleaners' = [cleaners EXCEPT ![c].pc = "listed",
                                    ![c].names = {n \in Attempts : Labelled(n)}]
    /\ UNCHANGED runs /\ UnchangedOwner /\ UnchangedDocker

\* (mutant: the permit is not asked for)
Unfenced(c) == TRUE

\* The permit: same session, same owner, and nobody active.
Permitted(c) ==
    /\ lock = c
    /\ ~job.active
    /\ job.status = cleaners[c].status
    /\ job.latest = cleaners[c].latest

\* ... and asks for the permit afterwards.
PermitNames(c) ==
    cleaners[c].pc = "listed" /\ Continue(c, Permitted(c), "next")

\* One name after the other, and its writer first, with a permit; a volume
\* without our labels ends the cleanup with an error.
TakeName(c) ==
    /\ cleaners[c].pc = "next"
    /\ \E n \in cleaners[c].names :
          IF volumes[n] # "implicit" /\ (n \in helpers => Permitted(c))
          THEN /\ cleaners' = [cleaners EXCEPT
                     ![c].pc = IF n \in helpers THEN "helper" ELSE "volume",
                     ![c].names = @ \ {n}, ![c].at = n]
               /\ UNCHANGED lock
          ELSE Quit(c)
    /\ UNCHANGED <<job, runs>> /\ UnchangedDocker

CleanHelper(c) ==
    /\ cleaners[c].pc = "helper"
    /\ helpers' = helpers \ {cleaners[c].at}
    /\ Move(c, "volume")
    /\ UNCHANGED <<runs, volumes, sandboxes>> /\ UnchangedOwner

\* Ownership of the volume and the permit, before every attempt to remove it.
PermitVolume(c) ==
    /\ cleaners[c].pc = "volume"
    /\ IF volumes[cleaners[c].at] = "absent"
       THEN Continue(c, TRUE, "next")
       ELSE Continue(c, Labelled(cleaners[c].at) /\ Permitted(c), "rm")

\* docker volume rm, never by force: a volume in use is tried again.
CleanVolume(c) ==
    LET n == cleaners[c].at IN
    /\ cleaners[c].pc = "rm"
    /\ IF InUse(n)
       THEN Move(c, "volume") /\ UNCHANGED volumes
       ELSE Move(c, "next") /\ volumes' = [volumes EXCEPT ![n] = "absent"]
    /\ UNCHANGED <<runs, helpers, sandboxes>> /\ UnchangedOwner

\* No name is left, or a step throws: the wait for the lock, a command, the last
\* attempt to remove a volume; or its process dies.
EndCleanup(c) ==
    /\ cleaners[c].pc # "idle"
    /\ Quit(c)
    /\ UNCHANGED <<job, runs>> /\ UnchangedDocker

CleanerStep(c) ==
    \/ AcquireCleanup(c) \/ RevokeTokens(c) \/ ListVolumes(c)
    \/ PermitNames(c) \/ TakeName(c) \/ CleanHelper(c) \/ PermitVolume(c)
    \/ CleanVolume(c) \/ EndCleanup(c)

-----------------------------------------------------------------------------
(***************************************************************************)
(* The database and the provider.                                          *)
(***************************************************************************)
\* The connection that holds the lock breaks.
LoseLock ==
    /\ Fault
    /\ lock # Free
    /\ lock' = Free
    /\ UNCHANGED <<job, runs, cleaners>> /\ UnchangedDocker

\* The sandbox comes up, whether its run still waits for it or not.
ComeUp(n) ==
    /\ sandboxes[n] = "asked"
    /\ volumes' = [volumes EXCEPT ![n] = AfterMount(n)]
    /\ sandboxes' = [sandboxes EXCEPT ![n] = AfterMount(n)]
    /\ UNCHANGED <<runs, cleaners, helpers>> /\ UnchangedOwner

\* Reaper, boot and the desired-state cleanup destroy a sandbox whose Attempt
\* does not execute, a run the one that came up too late for it.
DestroyOrphan(n) ==
    /\ sandboxes[n] \in Contents
    /\ \/ ~(n = job.latest /\ job.active /\ job.status \in Executing)
       \/ runs[n].pc \in {"error", "caught", "finally"} /\ ~runs[n].handle
    /\ sandboxes' = [sandboxes EXCEPT ![n] = "none"]
    /\ UNCHANGED <<runs, cleaners, volumes, helpers>> /\ UnchangedOwner

Works ==
    \/ \E n \in Attempts : Claim(n) \/ RunStep(n) \/ ComeUp(n) \/ DestroyOrphan(n)
    \/ \E s \in Scans : StartScan(s)
    \/ \E c \in Cleaners : CleanerStep(c)
    \/ OthersWrite \/ BootRequeues

Breaks ==
    \/ \E n \in Attempts : RunDies(n)
    \/ LoseLock

Next ==
    \/ Works /\ UNCHANGED faults
    \/ Breaks

Spec == Init /\ [][Next]_vars

-----------------------------------------------------------------------------
(***************************************************************************)
(* Properties.                                                             *)
(***************************************************************************)
\* A Job runs only in a sandbox that has every file its Attempt prepared: never
\* on an empty volume the engine made up for a name that was removed, never on
\* one half written, and nobody takes either away.  Nobody but its own run: one
\* whose catch block throws too has its finally destroy the sandbox of a Job that
\* is still running, which then has none at all until the Reaper comes
\* (dispatcher.ts, shared-assets-volume.ts).
RunsOnItsAssets ==
    LET n == job.latest IN
    job.status = "running" =>
        /\ volumes[n] = "filled"
        /\ \/ sandboxes[n] = "filled"
           \/ sandboxes[n] = "none" /\ runs[n].pc = "done" /\ runs[n].lost

\* While an Attempt is active nobody but its own run removes its volume or the
\* writer it fills it with: no old finally, no Reaper, no scan, not even one
\* that has lost its lock between a permit and the command it permits
\* (shared-asset-lifecycle.ts, shared-assets-volume.ts).
PreparationUndisturbed ==
    [][\A n \in Attempts :
          /\ Serving(n)
          /\ \/ n \in helpers /\ n \notin helpers'
             \/ volumes[n] # "absent" /\ volumes'[n] = "absent"
          => runs[n].pc \in {"unwrite", "remove"}
      ]_<<volumes, helpers>>

\* The finally of an earlier run revokes all tokens of the Job; as long as it
\* has the lock it took, the Attempt that is active by then has minted none
\* (dispatcher.ts, runJob).
FinallySparesSuccessor ==
    \A m, n \in Attempts :
        /\ Serving(n)
        /\ cleaners[Finally(m)].pc = "revoke" /\ lock = Finally(m)
        => runs[n].pc \notin {"minted", "admitted", "mount", "mounted", "bind",
                              "bound", "agent"}
=============================================================================
