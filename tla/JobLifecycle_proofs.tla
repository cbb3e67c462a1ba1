-------------------------- MODULE JobLifecycle_proofs --------------------------
(***************************************************************************)
(* Type correctness and the safety properties of JobLifecycle, for every   *)
(* number of Attempts, of crashes and of execution retries.                *)
(***************************************************************************)
EXTENDS JobLifecycle, TLAPS

-----------------------------------------------------------------------------
(***************************************************************************)
(* Types, one variable at a time.                                          *)
(***************************************************************************)
JobRow     == [status: JobStatuses, started: BOOLEAN, sandbox: 0..MaxAttempts]
AttemptRow == [status: AttemptStatuses, phase: AttemptPhases,
               sandbox: 0..MaxAttempts, reason: RetryReasons \cup {"none"}]
EffectRow  == [EffectKinds -> EffectStatuses]
RunRow     == [pc: RunPcs, attempt: 0..MaxAttempts, handle: BOOLEAN,
               error: RunErrors]
SandboxStatuses == {"none", "creating", "alive", "gone"}

\* The database, the runs and the world are each well typed.
DbOK ==
    /\ job \in JobRow
    /\ attempts \in [Attempts -> AttemptRow]
    /\ latest \in 0..MaxAttempts
    /\ effects \in [Attempts -> EffectRow]
RunsOK == runs \in [Attempts -> RunRow]
WorldOK ==
    /\ sandboxes \in [Attempts -> SandboxStatuses]
    /\ condemned \subseteq Attempts
    /\ scheduler \in {"up", "boot_containers", "boot_provisioning",
                      "boot_running"}
    /\ crashes \in 0..MaxCrashes

LEMMA TypeParts == TypeOK <=> DbOK /\ RunsOK /\ WorldOK
BY DEF TypeOK, DbOK, RunsOK, WorldOK, JobRow, AttemptRow, EffectRow, RunRow,
       SandboxStatuses

LEMMA TypePartsPrime == DbOK' /\ RunsOK' /\ WorldOK' => TypeOK'
BY DEF TypeOK, DbOK, RunsOK, WorldOK, JobRow, AttemptRow, EffectRow, RunRow,
       SandboxStatuses

LEMMA SetJobType ==
    ASSUME job \in JobRow, NEW s \in JobStatuses, SetJob(s)
    PROVE  job' \in JobRow
BY DEF JobRow, SetJob

LEMMA ResetJobType ==
    ASSUME ResetJob
    PROVE  job' \in JobRow
BY BoundsAssumption DEF JobRow, ResetJob, JobStatuses

LEMMA GoToType ==
    ASSUME RunsOK, NEW n \in Attempts, NEW pc \in RunPcs, GoTo(n, pc)
    PROVE  RunsOK'
BY DEF RunsOK, GoTo, RunRow

LEMMA ThrowType ==
    ASSUME RunsOK, NEW n \in Attempts, NEW error \in RunErrors, Throw(n, error)
    PROVE  RunsOK'
<1>1. "error" \in RunPcs
  BY DEF RunPcs
<1>2. QED
  BY <1>1 DEF RunsOK, Throw, RunRow

LEMMA EscapeType ==
    ASSUME RunsOK, NEW n \in Attempts, Escape(n)
    PROVE  RunsOK'
<1>1. "finally" \in RunPcs /\ "uncaught" \in RunErrors
  BY DEF RunPcs, RunErrors
<1>2. QED
  BY <1>1 DEF RunsOK, Escape, RunRow

LEMMA CloseActiveType ==
    ASSUME attempts \in [Attempts -> AttemptRow], NEW status \in ClosedStatuses,
           NEW reason \in RetryReasons \cup {"none"}
    PROVE  CloseActive(status, reason) \in [Attempts -> AttemptRow]
<1>1. status \in AttemptStatuses /\ "terminal" \in AttemptPhases
  BY DEF AttemptStatuses, AttemptPhases
<1>2. QED
  BY <1>1 DEF CloseActive, ClosedRow, AttemptRow

LEMMA ClosedEffectsType ==
    ASSUME NEW e \in EffectRow, NEW status
    PROVE  ClosedEffects(e, status) \in EffectRow
<1>1. "settled" \in EffectStatuses /\ "unknown" \in EffectStatuses
  BY DEF EffectStatuses, Settled
<1>2. QED
  BY <1>1 DEF ClosedEffects, EffectRow

LEMMA CloseActiveEffectsType ==
    ASSUME effects \in [Attempts -> EffectRow], NEW status
    PROVE  CloseActiveEffects(status) \in [Attempts -> EffectRow]
BY ClosedEffectsType DEF CloseActiveEffects

LEMMA SettleType ==
    ASSUME DbOK, NEW status \in ClosedStatuses, SettleAttemptTerminal(status)
    PROVE  /\ attempts' \in [Attempts -> AttemptRow]
           /\ effects' \in [Attempts -> EffectRow]
           /\ latest' \in 0..MaxAttempts
BY CloseActiveType, CloseActiveEffectsType DEF DbOK, SettleAttemptTerminal

LEMMA InterruptType ==
    ASSUME DbOK, MarkAttemptInterrupted
    PROVE  /\ attempts' \in [Attempts -> AttemptRow]
           /\ effects' \in [Attempts -> EffectRow]
           /\ latest' \in 0..MaxAttempts
<1>1. "interrupted" \in AttemptStatuses /\ "interrupted" \in AttemptPhases
  BY DEF AttemptStatuses, AttemptPhases, ClosedStatuses
<1>2. attempts' \in [Attempts -> AttemptRow]
  BY <1>1 DEF DbOK, MarkAttemptInterrupted, AttemptRow
<1>3. QED
  BY <1>2, CloseActiveEffectsType DEF DbOK, MarkAttemptInterrupted

LEMMA NewRowType == NewRow \in AttemptRow
BY BoundsAssumption DEF NewRow, NoRow, AttemptRow, AttemptStatuses, AttemptPhases

LEMMA CloseAndCreateType ==
    ASSUME DbOK, NEW reason \in RetryReasons, CloseAndCreate(reason)
    PROVE  /\ attempts' \in [Attempts -> AttemptRow]
           /\ effects' \in [Attempts -> EffectRow]
           /\ latest' \in 0..MaxAttempts
<1>1. "failed" \in ClosedStatuses
  BY DEF ClosedStatuses
<1>2. CloseActive("failed", reason) \in [Attempts -> AttemptRow]
  BY <1>1, CloseActiveType DEF DbOK
<1>3. attempts' \in [Attempts -> AttemptRow]
  BY <1>2, NewRowType DEF CloseAndCreate
<1>4. latest' \in 0..MaxAttempts
  BY BoundsAssumption DEF CloseAndCreate, MayCreate, NextAttempt, Attempts
<1>5. QED
  BY <1>3, <1>4, CloseActiveEffectsType DEF DbOK, CloseAndCreate

LEMMA CloseJobType ==
    ASSUME TypeOK, NEW from, NEW status \in ClosedStatuses \cap JobStatuses,
           CloseJob(from, status)
    PROVE  TypeOK'
<1>1. DbOK /\ RunsOK /\ WorldOK
  BY TypeParts
<1>2. DbOK'
  BY <1>1, SettleType, SetJobType DEF CloseJob, DbOK
<1>3. RunsOK'
  BY <1>1 DEF CloseJob, RunsOK
<1>4. WorldOK'
  BY <1>1 DEF CloseJob, WorldOK, Condemn
<1>5. QED
  BY <1>2, <1>3, <1>4, TypePartsPrime

LEMMA UnchangedTypes ==
    /\ DbOK /\ UnchangedDb => DbOK'
    /\ RunsOK /\ UNCHANGED runs => RunsOK'
    /\ WorldOK /\ UnchangedWorld => WorldOK'
BY DEF DbOK, RunsOK, WorldOK, UnchangedDb, UnchangedWorld

LEMMA SandboxType ==
    ASSUME WorldOK, NEW n \in Attempts, NEW left \in SandboxStatuses,
           sandboxes' = [sandboxes EXCEPT ![n] = left],
           UNCHANGED <<condemned, scheduler, crashes>>
    PROVE  WorldOK'
BY DEF WorldOK

\* The fields of a run's record that may change with its pc.
LEMMA RunAttemptType ==
    ASSUME RunsOK, NEW n \in Attempts, NEW pc \in RunPcs, NEW a \in 0..MaxAttempts,
           runs' = [runs EXCEPT ![n].pc = pc, ![n].attempt = a]
    PROVE  RunsOK'
BY DEF RunsOK, RunRow

LEMMA RunHandleType ==
    ASSUME RunsOK, NEW n \in Attempts, NEW pc \in RunPcs, NEW h \in BOOLEAN,
           runs' = [runs EXCEPT ![n].pc = pc, ![n].handle = h]
    PROVE  RunsOK'
BY DEF RunsOK, RunRow

LEMMA RunErrorType ==
    ASSUME RunsOK, NEW n \in Attempts, NEW pc \in RunPcs, NEW error \in RunErrors,
           runs' = [runs EXCEPT ![n].pc = pc, ![n].error = error]
    PROVE  RunsOK'
BY DEF RunsOK, RunRow

LEMMA RunEndType ==
    ASSUME RunsOK, NEW n \in Attempts, NEW pc \in RunPcs, NEW error \in RunErrors,
           runs' = [runs EXCEPT ![n].pc = pc, ![n].handle = FALSE, ![n].error = error]
    PROVE  RunsOK'
BY DEF RunsOK, RunRow

\* Every step of a run keeps the types.
LEMMA RunTypes ==
    ASSUME TypeOK, NEW n \in Attempts, RunStep(n)
    PROVE  TypeOK'
<1> USE TypeParts, TypePartsPrime, UnchangedTypes
<1> DEFINE a == runs[n].attempt
<1>0. DbOK /\ RunsOK /\ WorldOK
  OBVIOUS
<1>a. runs[n] \in RunRow /\ a \in 0..MaxAttempts
  BY <1>0 DEF RunsOK, RunRow
<1>b. /\ \A pc \in {"preflight", "preparing", "admitted", "creating", "unsettled",
                   "created", "bound", "agent", "exited", "fallback", "error",
                   "retry", "fail", "finally", "done", "start"} : pc \in RunPcs
      /\ \A error \in {"none", "provision", "other"} \cup ExecutionRetries :
            error \in RunErrors
  BY DEF RunPcs, RunErrors
<1>c. ActiveAttempts \subseteq Attempts /\ Attempts \subseteq 0..MaxAttempts
  BY BoundsAssumption DEF ActiveAttempts, Attempts
<1>1. CASE ReadAttempt(n)
  BY <1>0, <1>1, <1>b, <1>c, RunAttemptType, ThrowType DEF ReadAttempt
<1>2. CASE StartProvisioning(n)
  <2>1. DbOK'
    BY <1>0, <1>2, SetJobType DEF StartProvisioning, DbOK, JobStatuses
  <2>2. RunsOK'
    BY <1>0, <1>2, <1>b, GoToType DEF StartProvisioning
  <2>3. WorldOK'
    BY <1>0, <1>2 DEF StartProvisioning
  <2>4. QED
    BY <2>1, <2>2, <2>3
<1>3. CASE BeginProvision(n)
  <2>1. DbOK'
    <3>1. /\ a \in Attempts =>
               [attempts EXCEPT ![a].phase = "provision.effect_pending"]
                  \in [Attempts -> AttemptRow]
          /\ [effects EXCEPT ![a]["provision"] = "effect_pending"]
                  \in [Attempts -> EffectRow]
      BY <1>0, ZenonT(40) DEF DbOK, AttemptRow, AttemptPhases, EffectRow, EffectStatuses
    <3>2. QED
      BY <1>0, <1>3, <1>c, <3>1 DEF BeginProvision, OwnsProvisioning, DbOK
  <2>2. RunsOK'
    BY <1>0, <1>3, <1>b, GoToType DEF BeginProvision
  <2>3. WorldOK'
    BY <1>0, <1>3 DEF BeginProvision
  <2>4. QED
    BY <2>1, <2>2, <2>3
<1>4. CASE CallProvision(n)
  <2>1. DbOK'
    BY <1>0, <1>4 DEF CallProvision
  <2>2. RunsOK'
    BY <1>0, <1>4, <1>b, GoToType DEF CallProvision
  <2>3. WorldOK'
    BY <1>0, <1>4, SandboxType DEF CallProvision, SandboxStatuses
  <2>4. QED
    BY <2>1, <2>2, <2>3
<1>5. CASE FailBeforeProvision(n)
  BY <1>0, <1>5, <1>b, RunErrorType DEF FailBeforeProvision
<1>6. CASE ProvisionResolves(n)
  <2>1. DbOK'
    BY <1>0, <1>6 DEF ProvisionResolves
  <2>2. RunsOK'
    BY <1>0, <1>6, <1>b, RunHandleType DEF ProvisionResolves
  <2>3. WorldOK'
    BY <1>0, <1>6, SandboxType DEF ProvisionResolves, SandboxStatuses
  <2>4. QED
    BY <2>1, <2>2, <2>3
<1>7. CASE ProvisionFails(n)
  <2>1. DbOK'
    BY <1>0, <1>7 DEF ProvisionFails
  <2>2. RunsOK'
    BY <1>0, <1>7, <1>b, RunErrorType, ZenonT(40) DEF ProvisionFails
  <2>3. WorldOK'
    BY <1>0, <1>7, SandboxType DEF ProvisionFails, SandboxStatuses
  <2>4. QED
    BY <2>1, <2>2, <2>3
<1>8. CASE SettleFailedProvision(n)
  <2>1. DbOK'
    <3>1. \A phase \in {"unknown", "settling"} :
             a \in Attempts => [attempts EXCEPT ![a].phase = phase]
                                  \in [Attempts -> AttemptRow]
      BY <1>0 DEF DbOK, AttemptRow, AttemptPhases
    <3>2. \A e \in {"unknown", "never_started"} :
             [effects EXCEPT ![a]["provision"] = e] \in [Attempts -> EffectRow]
      BY <1>0 DEF DbOK, EffectRow, EffectStatuses, Settled
    <3>3. QED
      BY <1>0, <1>8, <1>c, <3>1, <3>2 DEF SettleFailedProvision, OwnsProvisioning, DbOK
  <2>2. RunsOK'
    BY <1>0, <1>8, <1>b, GoToType DEF SettleFailedProvision
  <2>3. WorldOK'
    BY <1>0, <1>8 DEF SettleFailedProvision
  <2>4. QED
    BY <2>1, <2>2, <2>3
<1>9. CASE Bind(n)
  <2>1. DbOK'
    <3>1. a \in Attempts =>
             [attempts EXCEPT ![a].phase = "provisioned", ![a].sandbox = n]
                \in [Attempts -> AttemptRow]
      BY <1>0, <1>c DEF DbOK, AttemptRow, AttemptPhases
    <3>2. [effects EXCEPT ![a]["provision"] = "settled"] \in [Attempts -> EffectRow]
      BY <1>0 DEF DbOK, EffectRow, EffectStatuses, Settled
    <3>3. [status |-> "running", started |-> TRUE, sandbox |-> n] \in JobRow
      BY <1>c DEF JobRow, JobStatuses
    <3>4. QED
      BY <1>0, <1>9, <1>c, <3>1, <3>2, <3>3 DEF Bind, OwnsProvisioning, DbOK
  <2>2. RunsOK'
    BY <1>0, <1>9, <1>b, GoToType DEF Bind
  <2>3. WorldOK'
    BY <1>0, <1>9 DEF Bind
  <2>4. QED
    BY <2>1, <2>2, <2>3

<1>10. CASE BeginAgentRun(n)
  <2>1. DbOK'
    <3>1. a \in Attempts => [attempts EXCEPT ![a].phase = "agent.effect_pending"]
                               \in [Attempts -> AttemptRow]
      BY <1>0 DEF DbOK, AttemptRow, AttemptPhases
    <3>2. [effects EXCEPT ![a]["agent_run"] = "effect_pending"]
             \in [Attempts -> EffectRow]
      BY <1>0 DEF DbOK, EffectRow, EffectStatuses
    <3>3. QED
      BY <1>0, <1>10, <1>c, <3>1, <3>2 DEF BeginAgentRun, DbOK
  <2>2. RunsOK'
    BY <1>0, <1>10, <1>b, GoToType, ThrowType DEF BeginAgentRun
  <2>3. WorldOK'
    BY <1>0, <1>10 DEF BeginAgentRun
  <2>4. QED
    BY <2>1, <2>2, <2>3
<1>11. ASSUME NEW next \in RunPcs, Finalize(n, next)
       PROVE  DbOK' /\ RunsOK'
  <2>1. "succeeded" \in JobStatuses /\ "succeeded" \in ClosedStatuses
    BY DEF JobStatuses, ClosedStatuses
  <2>2. RunsOK'
    BY <1>0, <1>11, <1>b, GoToType, ThrowType DEF Finalize
  <2>3. DbOK'
    BY <1>0, <1>11, <2>1, SettleType, SetJobType DEF Finalize, DbOK
  <2>4. QED
    BY <2>2, <2>3
<1>12. CASE AgentDone(n)
  BY <1>0, <1>b, <1>11, <1>12 DEF AgentDone
<1>13. CASE AgentAsksHuman(n)
  <2>1. DbOK'
    BY <1>0, <1>13, SetJobType DEF AgentAsksHuman, DbOK, JobStatuses
  <2>2. RunsOK'
    BY <1>0, <1>13, <1>b, GoToType, ThrowType DEF AgentAsksHuman
  <2>3. QED
    BY <1>0, <1>13, <2>1, <2>2 DEF AgentAsksHuman
<1>14. CASE AgentExits(n)
  BY <1>0, <1>14, <1>b, GoToType DEF AgentExits
<1>15. CASE ReadStatus(n)
  BY <1>0, <1>15, <1>b, GoToType DEF ReadStatus
<1>16. CASE FallbackDone(n)
  BY <1>0, <1>b, <1>11, <1>16 DEF FallbackDone
<1>17. CASE Throws(n)
  BY <1>0, <1>17, <1>b, ThrowType DEF Throws
<1>18. CASE CatchError(n)
  BY <1>0, <1>18, <1>b, GoToType, EscapeType DEF CatchError
<1>19. ASSUME NEW reason \in RetryReasons,
              \/ CloseAndCreate(reason) /\ ResetJob /\ GoTo(n, "finally")
              \/ GoTo(n, "fail") /\ UnchangedDb
       PROVE  DbOK' /\ RunsOK'
  <2>1. RunsOK'
    BY <1>0, <1>19, <1>b, GoToType
  <2>2. DbOK'
    BY <1>0, <1>19, CloseAndCreateType, ResetJobType DEF DbOK
  <2>3. QED
    BY <2>1, <2>2
<1>20. CASE RetryProvisioning(n)
  <2>1. "provision_retry" \in RetryReasons
    BY DEF RetryReasons
  <2>2. QED
    BY <1>0, <1>19, <1>20, <2>1 DEF RetryProvisioning
<1>21. CASE RetryExecution(n)
  <2>1. runs[n].error \in RetryReasons
    BY <1>21 DEF RetryExecution, RetryReasons
  <2>2. QED
    BY <1>0, <1>19, <1>21, <2>1 DEF RetryExecution
<1>22. CASE FailRun(n)
  <2>1. "failed" \in JobStatuses /\ "failed" \in ClosedStatuses
    BY DEF JobStatuses, ClosedStatuses
  <2>2. RunsOK' /\ WorldOK'
    BY <1>0, <1>22, <1>b, GoToType, EscapeType DEF FailRun
  <2>3. DbOK'
    BY <1>0, <1>22, <2>1, SettleType, SetJobType DEF FailRun, DbOK
  <2>4. QED
    BY <2>2, <2>3
<1>23. CASE Finally(n)
  <2>1. DbOK'
    BY <1>0, <1>23 DEF Finally
  <2>2. RunsOK'
    <3>1. PICK error \in RunErrors :
             runs' = [runs EXCEPT ![n].pc = "done", ![n].handle = FALSE,
                                  ![n].error = error]
      BY <1>0, <1>23, <1>a, <1>b DEF Finally, RunRow
    <3>2. QED
      BY <1>0, <1>b, <3>1, RunEndType
  <2>3. sandboxes[n] \in SandboxStatuses /\ "gone" \in SandboxStatuses
    BY <1>0 DEF WorldOK, SandboxStatuses
  <2>4. WorldOK'
    BY <1>0, <1>23, <2>3, SandboxType DEF Finally
  <2>5. QED
    BY <2>1, <2>2, <2>4
<1>24. QED
  BY <1>1, <1>2, <1>3, <1>4, <1>5, <1>6, <1>7, <1>8, <1>9, <1>10, <1>12, <1>13,
     <1>14, <1>15, <1>16, <1>17, <1>18, <1>20, <1>21, <1>22, <1>23 DEF RunStep

\* What a boot step does to a Job it finds claimed, provisioning or running.
BootVerdict ==
    \/ UnchangedDb /\ UNCHANGED condemned
    \/ SetJob("pending") /\ MarkAttemptInterrupted /\ UNCHANGED condemned
    \/ SetJob("orphan") /\ SettleAttemptTerminal("orphan") /\ Condemn(job.sandbox)

LEMMA BootType ==
    ASSUME TypeOK, BootVerdict, UNCHANGED <<runs, sandboxes, crashes>>,
           scheduler' \in {"up", "boot_running"}
    PROVE  TypeOK'
<1>1. DbOK /\ RunsOK /\ WorldOK
  BY TypeParts
<1>2. /\ "pending" \in JobStatuses /\ "orphan" \in JobStatuses
      /\ "orphan" \in ClosedStatuses
  BY DEF JobStatuses, ClosedStatuses
<1>3. DbOK'
  BY <1>1, <1>2, SetJobType, InterruptType, SettleType
  DEF BootVerdict, DbOK, UnchangedDb
<1>4. RunsOK'
  BY <1>1 DEF RunsOK
<1>5. WorldOK'
  BY <1>1 DEF BootVerdict, WorldOK, Condemn
<1>6. QED
  BY <1>3, <1>4, <1>5, TypePartsPrime

LEMMA TypeStep == TypeOK /\ [Next]_vars => TypeOK'
<1> SUFFICES ASSUME TypeOK, [Next]_vars
             PROVE  TypeOK'
  OBVIOUS
<1> USE TypeParts, TypePartsPrime, UnchangedTypes
<1>0. DbOK /\ RunsOK /\ WorldOK
  OBVIOUS
<1>a. \A s \in {"failed", "timeout", "orphan", "cancelled"} :
         s \in ClosedStatuses \cap JobStatuses
  BY DEF ClosedStatuses, JobStatuses
<1>1. ASSUME NEW n \in Attempts, Claim(n)
      PROVE  TypeOK'
  <2>1. DbOK'
    <3>1. job' \in JobRow
      BY <1>0, <1>1, SetJobType DEF Claim, DbOK, JobStatuses
    <3>2. attempts' \in [Attempts -> AttemptRow]
      BY <1>0, <1>1, NewRowType DEF Claim, DbOK
    <3>3. latest' \in 0..MaxAttempts
      BY <1>0, <1>1, BoundsAssumption DEF Claim, DbOK, Attempts
    <3>4. QED
      BY <1>0, <1>1, <3>1, <3>2, <3>3 DEF Claim, DbOK
  <2>2. RunsOK'
    <3>1. "start" \in RunPcs
      BY DEF RunPcs
    <3>2. QED
      BY <1>0, <1>1, <3>1, GoToType DEF Claim, GoTo
  <2>3. WorldOK'
    BY <1>0, <1>1 DEF Claim
  <2>4. QED
    BY <2>1, <2>2, <2>3
<1>2. ASSUME NEW n \in Attempts, RunStep(n)
      PROVE  TypeOK'
  BY <1>2, RunTypes
<1>3. ASSUME NEW n \in Attempts, DestroyCondemned(n)
      PROVE  TypeOK'
  <2>1. sandboxes[n] \in SandboxStatuses /\ "gone" \in SandboxStatuses
    BY <1>0 DEF WorldOK, SandboxStatuses
  <2>2. DbOK' /\ RunsOK'
    BY <1>0, <1>3 DEF DestroyCondemned
  <2>3. WorldOK'
    BY <1>0, <1>3, <2>1 DEF DestroyCondemned, WorldOK
  <2>4. QED
    BY <2>2, <2>3
<1>4. ASSUME NEW n \in Attempts, CleanupSandbox(n)
      PROVE  TypeOK'
  <2>1. DbOK' /\ RunsOK'
    BY <1>0, <1>4 DEF CleanupSandbox
  <2>2. WorldOK'
    BY <1>0, <1>4, SandboxType DEF CleanupSandbox, SandboxStatuses
  <2>3. QED
    BY <2>1, <2>2
<1>5. ASSUME NEW n \in Attempts, ProviderCompletes(n)
      PROVE  TypeOK'
  <2>1. DbOK' /\ RunsOK'
    BY <1>0, <1>5 DEF ProviderCompletes
  <2>2. WorldOK'
    BY <1>0, <1>5, SandboxType DEF ProviderCompletes, SandboxStatuses
  <2>3. QED
    BY <2>1, <2>2
<1>b. ASSUME NEW a \in Attempts, NEW k \in EffectKinds
      PROVE  Reconciled(a, k) \in EffectStatuses
  BY DEF Reconciled, EffectStatuses, Settled
<1>6. ASSUME NEW a \in Attempts, NEW k \in EffectKinds, ReconcileEffect(a, k)
      PROVE  TypeOK'
  <2>1. effects' \in [Attempts -> EffectRow]
    BY <1>0, <1>6, <1>b DEF ReconcileEffect, DbOK, EffectRow
  <2>2. DbOK' /\ RunsOK' /\ WorldOK'
    BY <1>0, <1>6, <2>1 DEF ReconcileEffect, DbOK
  <2>3. QED
    BY <2>2
<1>7. ASSUME NEW a \in Attempts, NEW k \in EffectKinds, SettleByOperator(a, k)
      PROVE  TypeOK'
  <2>1. "settled" \in EffectStatuses
    BY DEF EffectStatuses, Settled
  <2>2. effects' \in [Attempts -> EffectRow]
    BY <1>0, <1>7, <2>1 DEF SettleByOperator, DbOK, EffectRow
  <2>3. DbOK' /\ RunsOK' /\ WorldOK'
    BY <1>0, <1>7, <2>2 DEF SettleByOperator, DbOK
  <2>4. QED
    BY <2>3
<1>8. CASE ReapExecutionTimeout \/ ReapProvisionTimeout \/ ReapLeaseOrphan
           \/ ReapStalledExecution \/ CancelJob
  BY <1>8, <1>a, CloseJobType
  DEF ReapExecutionTimeout, ReapProvisionTimeout, ReapLeaseOrphan,
      ReapStalledExecution, CancelJob
<1>9. CASE ReapWaitingHuman
  <2>1. CASE AllSettled
    <3>1. DbOK'
      BY <1>0, <1>9, <2>1, <1>a, SettleType, SetJobType DEF ReapWaitingHuman, DbOK
    <3>2. WorldOK'
      BY <1>0, <1>9, <2>1 DEF ReapWaitingHuman, WorldOK, Condemn
    <3>3. QED
      BY <1>0, <1>9, <3>1, <3>2 DEF ReapWaitingHuman
  <2>2. CASE ~AllSettled
    <3>1. effects' \in [Attempts -> EffectRow]
      BY <1>0, <1>9, <2>2, <1>b DEF ReapWaitingHuman, DbOK, EffectRow
    <3>2. DbOK' /\ RunsOK' /\ WorldOK'
      BY <1>0, <1>9, <2>2, <3>1 DEF ReapWaitingHuman, DbOK, WorldOK
    <3>3. QED
      BY <3>2
  <2>3. QED
    BY <2>1, <2>2
<1>10. CASE ReplyToHuman
  <2>1. job' \in JobRow
    BY <1>0, <1>10 DEF ReplyToHuman, DbOK, JobRow, JobStatuses
  <2>2. DbOK' /\ RunsOK' /\ WorldOK'
    BY <1>0, <1>10, <2>1, InterruptType DEF ReplyToHuman, DbOK
  <2>3. QED
    BY <2>2
<1>11. CASE Requeue
  <2>1. DbOK' /\ RunsOK'
    BY <1>0, <1>11, ResetJobType, InterruptType DEF Requeue, DbOK
  <2>2. WorldOK'
    BY <1>0, <1>11 DEF Requeue, WorldOK, Condemn
  <2>3. QED
    BY <2>1, <2>2
<1>12. CASE DrainPending
  <2>1. DbOK' /\ RunsOK' /\ WorldOK'
    BY <1>0, <1>12, <1>a, SetJobType DEF DrainPending, DbOK
  <2>2. QED
    BY <2>1
<1>13. CASE Crash
  <2>1. "done" \in RunPcs /\ "none" \in RunErrors
    BY DEF RunPcs, RunErrors
  <2>2. RunsOK'
    BY <1>0, <1>13, <2>1 DEF Crash, RunsOK, RunRow
  <2>3. WorldOK'
    <3>1. crashes \in 0..MaxCrashes /\ crashes < MaxCrashes /\ crashes' = crashes + 1
      BY <1>0, <1>13 DEF Crash, WorldOK
    <3>2. crashes' \in 0..MaxCrashes
      BY <3>1, BoundsAssumption
    <3>3. QED
      BY <1>0, <1>13, <3>2 DEF Crash, WorldOK
  <2>4. QED
    BY <1>0, <1>13, <2>2, <2>3 DEF Crash
<1>14. CASE BootContainers
  <2>1. WorldOK'
    BY <1>0, <1>14 DEF BootContainers, WorldOK, SandboxStatuses
  <2>2. QED
    BY <1>0, <1>14, <2>1 DEF BootContainers
<1>15. CASE BootProvisioning
  <2>1. BootVerdict
    BY <1>15 DEF BootProvisioning, BootVerdict
  <2>2. UNCHANGED <<runs, sandboxes, crashes>> /\ scheduler' = "boot_running"
    BY <1>15 DEF BootProvisioning
  <2>3. QED
    BY <2>1, <2>2, BootType
<1>16. CASE BootRunning
  <2>1. BootVerdict
    BY <1>16 DEF BootRunning, BootVerdict
  <2>2. UNCHANGED <<runs, sandboxes, crashes>> /\ scheduler' = "up"
    BY <1>16 DEF BootRunning
  <2>3. QED
    BY <2>1, <2>2, BootType
<1>17. CASE UNCHANGED vars
  BY <1>0, <1>17 DEF vars, UnchangedDb, UnchangedWorld
<1>18. QED
  BY <1>1, <1>2, <1>3, <1>4, <1>5, <1>6, <1>7, <1>8, <1>9, <1>10, <1>11, <1>12,
     <1>13, <1>14, <1>15, <1>16, <1>17 DEF Next

LEMMA InitType == Init => TypeOK
<1>1. Init => DbOK
  BY BoundsAssumption
  DEF Init, DbOK, JobRow, JobStatuses, AttemptRow, AttemptStatuses, AttemptPhases,
      EffectRow, EffectStatuses, NoRow, NoEffects
<1>2. Init => RunsOK
  BY BoundsAssumption DEF Init, RunsOK, RunRow, NoRun, RunPcs, RunErrors
<1>3. Init => WorldOK
  BY BoundsAssumption DEF Init, WorldOK, SandboxStatuses
<1>4. QED
  BY <1>1, <1>2, <1>3, TypeParts

\* The rows, the runs and the sandboxes have their types in every reachable
\* state, whatever the bounds and the retry rules.
THEOREM TypeCorrect == Spec => []TypeOK
BY InitType, TypeStep, PTL DEF Spec

-----------------------------------------------------------------------------
(***************************************************************************)
(* The inductive invariant.                                                *)
(*                                                                         *)
(* AttemptFollowsJob and the rest are not inductive by themselves: they    *)
(* say nothing of the runs that have yet to act.  The strengthening says   *)
(* what a run may still do to the active Attempt: while its phase is       *)
(* "preparing" nobody has gone further than to ask for the provisioning,   *)
(* while it is "provision.effect_pending" one run at most can speak for it.*)
(***************************************************************************)

\* Control points at which a run may still write to the Attempt it provisions.
Acting == {"admitted", "creating", "unsettled", "created"}

\* Control points a run reaches only once its sandbox has been bound.
PreBind == {"idle", "start", "preflight", "preparing"} \cup Acting

\* Rows beyond the newest Attempt are blank, and those up to it are not.
BlankRows ==
    \A a \in Attempts :
        /\ a > latest => /\ attempts[a] = NoRow
                         /\ effects[a] = NoEffects
                         /\ runs[a] = NoRun
        /\ a <= latest => attempts[a].status # "none"

\* What the control point of a run tells of its Attempt and its sandbox.
KnownRun(run, sandbox) ==
    /\ run.pc \in {"idle", "start"} => run.attempt = 0
    /\ run.pc \in {"preflight", "preparing", "bound", "agent"} \cup Acting
          => run.attempt # 0
    /\ run.pc \in {"idle", "start", "preflight", "preparing", "admitted"}
          => sandbox = "none"
    /\ run.pc \in {"creating", "created", "bound", "agent"} \/ run.handle
          => sandbox # "none"

\* Runs belong to Attempts that exist, and there are none during a boot.
RunsKnown ==
    \A n \in Attempts :
        /\ runs[n].attempt <= latest
        /\ KnownRun(runs[n], sandboxes[n])
        /\ scheduler # "up" => runs[n].pc \in {"idle", "done"}

\* The phase of an active Attempt tells its effects.
PhaseTellsEffects ==
    \A a \in ActiveAttempts :
        /\ attempts[a].phase \notin {"terminal", "interrupted"}
        /\ attempts[a].phase = "preparing" => effects[a] = NoEffects
        /\ attempts[a].phase # "preparing" => effects[a]["provision"] # "absent"
        /\ effects[a]["provision"] = "never_started"
              => attempts[a].phase = "settling"

\* Who may still act for an active Attempt that is not provisioned yet: nobody
\* has asked for a sandbox before the intent is written, and once it is, the run
\* that wrote it is the only one that has a sandbox or may still get one.
OneActorOf(a) ==
    /\ attempts[a].phase # "provision.effect_pending" =>
          \A n \in Attempts : runs[n].attempt = a => runs[n].pc \notin Acting
    /\ attempts[a].phase = "preparing" =>
          /\ \A n \in Attempts : runs[n].attempt = a =>
                /\ sandboxes[n] = "none"
                /\ runs[n].pc \notin {"bound", "agent"}
                /\ runs[n].pc = "preparing" => job.status = "provisioning"
          /\ \A m, n \in Attempts :
                /\ runs[m].attempt = a /\ runs[m].pc = "preparing"
                /\ runs[n].attempt = a /\ runs[n].pc = "preparing"
                => m = n
    /\ attempts[a].phase = "provision.effect_pending" =>
          /\ job.status = "provisioning"
          /\ \A n \in Attempts : runs[n].attempt = a =>
                runs[n].pc \notin {"preparing", "bound", "agent"}
          /\ \A m, n \in Attempts :
                /\ runs[m].attempt = a /\ runs[n].attempt = a
                /\ runs[m].pc \in Acting \/ sandboxes[m] # "none"
                /\ runs[n].pc \in Acting \/ sandboxes[n] # "none"
                => m = n

OneActor == \A a \in ActiveAttempts : OneActorOf(a)

\* Only a sandbox that was bound is recorded, or destroyed by its id.
OnlyBoundCondemned ==
    \A n \in Attempts :
        n \in condemned \/ n = job.sandbox
            => runs[n].pc \notin PreBind /\ sandboxes[n] # "none"

\* A sandbox handed to a run whose Attempt is still active exists.
CreatedIsAlive ==
    \A n \in Attempts :
        /\ runs[n].pc = "created"
        /\ runs[n].attempt \in ActiveAttempts
        => sandboxes[n] = "alive"

\* The run of a running Job has not begun to clean up, unless it could not write
\* its error down.
RunnerPresent ==
    job.status = "running" =>
        /\ RunningSandboxIntact
        /\ runs[job.sandbox].pc = "finally" => runs[job.sandbox].error = "uncaught"

IInv ==
    /\ TypeOK
    /\ BlankRows
    /\ AttemptFollowsJob
    /\ RunsKnown
    /\ PhaseTellsEffects
    /\ OneActor
    /\ NeverStartedIsProof
    /\ OneExecutionPerAttempt
    /\ OnlyBoundCondemned
    /\ CreatedIsAlive
    /\ RunnerPresent
    /\ ClosedLedger

-----------------------------------------------------------------------------
(***************************************************************************)
(* What the helpers do to the set of active Attempts.                      *)
(***************************************************************************)
LEMMA ActiveInAttempts == ActiveAttempts \subseteq Attempts /\ \A a \in Attempts :
                              a \in ActiveAttempts <=> attempts[a].status = "active"
BY DEF ActiveAttempts

LEMMA CloseActiveRows ==
    ASSUME TypeOK, NEW status, NEW reason, NEW a \in Attempts
    PROVE  CloseActive(status, reason)[a] =
              IF a \in ActiveAttempts THEN ClosedRow(attempts[a], status, reason)
              ELSE attempts[a]
BY DEF CloseActive

LEMMA ClosedRowStatus ==
    ASSUME TypeOK, NEW status, NEW reason, NEW a \in Attempts
    PROVE  /\ ClosedRow(attempts[a], status, reason).status = status
           /\ ClosedRow(attempts[a], status, reason).phase = "terminal"
           /\ ClosedRow(attempts[a], status, reason).sandbox = attempts[a].sandbox
           /\ ClosedRow(attempts[a], status, reason).reason = reason
BY DEF TypeOK, ClosedRow

\* Nothing stays active behind a terminal settlement.
LEMMA SettleActive ==
    ASSUME TypeOK, NEW status \in ClosedStatuses, SettleAttemptTerminal(status)
    PROVE  /\ ActiveAttempts' = {}
           /\ \A a \in Attempts :
                 /\ a \notin ActiveAttempts => attempts'[a] = attempts[a]
                 /\ a \in ActiveAttempts => /\ attempts'[a].status = status
                                            /\ attempts'[a].phase = "terminal"
                                            /\ attempts'[a].sandbox = attempts[a].sandbox
                                            /\ attempts'[a].reason = "none"
<1>1. status # "active"
  BY DEF ClosedStatuses
<1>2. \A a \in Attempts :
         attempts'[a] = IF a \in ActiveAttempts
                        THEN ClosedRow(attempts[a], status, "none") ELSE attempts[a]
  BY CloseActiveRows DEF SettleAttemptTerminal
<1>3. QED
  BY <1>1, <1>2, ClosedRowStatus DEF ActiveAttempts

LEMMA InterruptActive ==
    ASSUME TypeOK, MarkAttemptInterrupted
    PROVE  /\ ActiveAttempts' = {}
           /\ \A a \in Attempts :
                 /\ a \notin ActiveAttempts => attempts'[a] = attempts[a]
                 /\ a \in ActiveAttempts => /\ attempts'[a].status = "interrupted"
                                            /\ attempts'[a].phase = "interrupted"
                                            /\ attempts'[a].sandbox = attempts[a].sandbox
                                            /\ attempts'[a].reason = attempts[a].reason
<1> DEFINE Row(a) == [attempts[a] EXCEPT !.status = "interrupted",
                                     !.phase = "interrupted"]
<1>1. \A a \in Attempts :
         attempts'[a] = IF a \in ActiveAttempts THEN Row(a) ELSE attempts[a]
  BY DEF MarkAttemptInterrupted
<1>2. \A a \in Attempts : /\ Row(a).status = "interrupted"
                          /\ Row(a).phase = "interrupted"
                          /\ Row(a).sandbox = attempts[a].sandbox
                          /\ Row(a).reason = attempts[a].reason
  BY DEF TypeOK
<1>3. QED
  BY <1>1, <1>2 DEF ActiveAttempts

LEMMA RetryActive ==
    ASSUME TypeOK, NEW reason \in RetryReasons, CloseAndCreate(reason)
    PROVE  /\ ActiveAttempts' = {latest + 1}
           /\ latest' = latest + 1
           /\ latest' \in Attempts
           /\ attempts'[latest'] = NewRow
           /\ \A a \in Attempts \ {latest'} :
                 /\ a \notin ActiveAttempts => attempts'[a] = attempts[a]
                 /\ a \in ActiveAttempts => /\ attempts'[a].status = "failed"
                                            /\ attempts'[a].phase = "terminal"
                                            /\ attempts'[a].sandbox = attempts[a].sandbox
                                            /\ attempts'[a].reason = reason
<1>1. latest' = latest + 1 /\ latest' \in Attempts
  BY DEF CloseAndCreate, MayCreate, NextAttempt
<1>2. attempts' = [CloseActive("failed", reason) EXCEPT ![latest'] = NewRow]
  BY <1>1 DEF CloseAndCreate, NextAttempt
<1>3. CloseActive("failed", reason) = [a \in Attempts |-> CloseActive("failed", reason)[a]]
  BY DEF CloseActive
<1>4. attempts'[latest'] = NewRow
  BY <1>1, <1>2, <1>3
<1>5. \A a \in Attempts \ {latest'} :
         attempts'[a] = IF a \in ActiveAttempts
                        THEN ClosedRow(attempts[a], "failed", reason) ELSE attempts[a]
  BY <1>2, <1>3, CloseActiveRows
<1>6. NewRow.status = "active"
  BY DEF NewRow, NoRow
<1>7. \A a \in Attempts \ {latest'} : attempts'[a].status # "active"
  BY <1>5, ClosedRowStatus DEF ActiveAttempts
<1>8. ActiveAttempts' = {latest'}
  BY <1>1, <1>4, <1>6, <1>7 DEF ActiveAttempts
<1>9. QED
  BY <1>1, <1>4, <1>5, <1>8, ClosedRowStatus

LEMMA ClosedEffectsAt ==
    ASSUME TypeOK, NEW status, NEW a \in Attempts, NEW k \in EffectKinds
    PROVE  CloseActiveEffects(status)[a][k] =
              IF a \in ActiveAttempts /\ effects[a][k] = "effect_pending"
              THEN IF status = "succeeded" /\ k = "agent_run" THEN "settled"
                   ELSE "unknown"
              ELSE effects[a][k]
BY DEF TypeOK, CloseActiveEffects, ClosedEffects

-----------------------------------------------------------------------------
(***************************************************************************)
(* The shapes of what a step does to the database.                         *)
(***************************************************************************)
DbClaim(n) ==
    /\ job.status = "pending"
    /\ IF ActiveAttempts = {} THEN n = latest + 1 ELSE n \in ActiveAttempts
    /\ SetJob("claimed")
    /\ attempts' = [attempts EXCEPT ![n] = IF n \in ActiveAttempts THEN @ ELSE NewRow]
    /\ latest' = IF n \in ActiveAttempts THEN latest ELSE n
    /\ UNCHANGED effects

\* Only the status of the Job moves.
DbStatus ==
    /\ UNCHANGED <<attempts, latest, effects>>
    /\ \E s \in JobStatuses :
          /\ SetJob(s)
          /\ <<job.status, s>> \in {<<"claimed", "provisioning">>,
                                    <<"running", "waiting_human">>,
                                    <<"pending", "cancelled">>}

\* The newest Attempt moves one phase on; Bind also starts the Job.
DbPhase(n, pc, from, phase, effect) ==
    LET a == runs[n].attempt IN
    /\ runs[n].pc = pc
    /\ OwnsProvisioning(a, from)
    /\ effects' = [effects EXCEPT ![a]["provision"] = effect]
    /\ attempts' = [attempts EXCEPT ![a].phase = phase]
    /\ UNCHANGED <<job, latest>>

DbBind(n) ==
    LET a == runs[n].attempt IN
    /\ runs[n].pc = "created"
    /\ OwnsProvisioning(a, "provision.effect_pending")
    /\ effects' = [effects EXCEPT ![a]["provision"] = "settled"]
    /\ attempts' = [attempts EXCEPT ![a].phase = "provisioned", ![a].sandbox = n]
    /\ job' = [status |-> "running", started |-> TRUE, sandbox |-> n]
    /\ UNCHANGED latest

DbAgent(n) ==
    LET a == runs[n].attempt IN
    /\ runs[n].pc = "bound"
    /\ a \in ActiveAttempts
    /\ effects[a]["agent_run"] = "absent"
    /\ effects' = [effects EXCEPT ![a]["agent_run"] = "effect_pending"]
    /\ attempts' = [attempts EXCEPT ![a].phase = "agent.effect_pending"]
    /\ UNCHANGED <<job, latest>>

DbClose ==
    \E s \in Terminal :
        /\ job.status \in {"pending"} \cup Owned
        /\ SetJob(s)
        /\ SettleAttemptTerminal(s)

DbRetry ==
    \E reason \in RetryReasons :
        /\ job.status \in {"claimed", "provisioning", "running"}
        /\ CloseAndCreate(reason)
        /\ ResetJob

DbInterrupt ==
    /\ job.status \in Resumable \cup {"claimed", "provisioning"}
    /\ job'.status = "pending"
    /\ job'.sandbox \in {0, job.sandbox}
    /\ MarkAttemptInterrupted

\* Effects of closed Attempts are decided.
DbReconcile ==
    /\ UNCHANGED <<job, attempts, latest>>
    /\ effects' \in [Attempts -> EffectRow]
    /\ \A a \in Attempts, k \in EffectKinds :
          effects'[a][k] # effects[a][k] =>
             /\ Undecided(a, k)
             /\ effects'[a][k] \in {"settled", "not_applied"}

DbRun(n) ==
    \/ DbPhase(n, "preparing", "preparing", "provision.effect_pending", "effect_pending")
    \/ DbPhase(n, "unsettled", "provision.effect_pending", "unknown", "unknown")
    \/ DbPhase(n, "unsettled", "provision.effect_pending", "settling", "never_started")
    \/ DbBind(n)
    \/ DbAgent(n)

\* What the step of a run leaves alone, and that it is a live run.
RunFrame(n) ==
    /\ runs[n].pc \notin {"idle", "done"}
    /\ runs'[n].pc # "idle"
    /\ \A m \in Attempts \ {n} : runs'[m] = runs[m] /\ sandboxes'[m] = sandboxes[m]
    /\ \/ runs'[n].attempt = runs[n].attempt
       \/ runs[n].pc = "start" /\ runs'[n].attempt \in ActiveAttempts
    /\ UNCHANGED <<condemned, scheduler, crashes>>

\* The four steps at which a run writes to its own Attempt.
OwnerStep(n) ==
    BeginProvision(n) \/ SettleFailedProvision(n) \/ Bind(n) \/ BeginAgentRun(n)

\* Every step of a run has one of these shapes.
LEMMA RunShape ==
    ASSUME TypeOK, NEW n \in Attempts, RunStep(n)
    PROVE  \/ UnchangedDb \/ DbStatus \/ DbClose \/ DbRetry
           \/ DbRun(n) /\ OwnerStep(n)
<1>1. CASE ReadAttempt(n) \/ CallProvision(n) \/ FailBeforeProvision(n) \/ ProvisionResolves(n) \/ ProvisionFails(n) \/ AgentExits(n) \/ ReadStatus(n) \/ Throws(n) \/ CatchError(n) \/ Finally(n)
  BY <1>1 DEF ReadAttempt, CallProvision, FailBeforeProvision, ProvisionResolves, ProvisionFails, AgentExits, ReadStatus, Throws, CatchError, Finally
<1>2. CASE StartProvisioning(n)
  <2>1. CASE "provisioning" \in JobTransitions[job.status]
    <3>1. job.status = "claimed"
      BY <2>1 DEF TypeOK, JobTransitions
    <3>2. QED
      BY <1>2, <2>1, <3>1 DEF StartProvisioning, DbStatus, JobStatuses
  <2>2. CASE "provisioning" \notin JobTransitions[job.status]
    BY <1>2, <2>2 DEF StartProvisioning, UnchangedDb
  <2>3. QED
    BY <2>1, <2>2
<1>3. CASE BeginProvision(n)
  BY <1>3 DEF BeginProvision, OwnerStep, DbRun, DbPhase, UnchangedDb
<1>4. CASE SettleFailedProvision(n)
  BY <1>4 DEF SettleFailedProvision, OwnerStep, DbRun, DbPhase, UnchangedDb
<1>5. CASE Bind(n)
  BY <1>5 DEF Bind, OwnerStep, DbRun, DbBind, UnchangedDb
<1>6. CASE BeginAgentRun(n)
  BY <1>6 DEF BeginAgentRun, OwnerStep, DbRun, DbAgent, UnchangedDb
<1>7. CASE AgentDone(n)
  BY <1>7 DEF AgentDone, Finalize, DbClose, Terminal, Owned, UnchangedDb
<1>8. CASE AgentAsksHuman(n)
  BY <1>8 DEF AgentAsksHuman, DbStatus, JobStatuses, UnchangedDb
<1>9. CASE FallbackDone(n)
  BY <1>9 DEF FallbackDone, Finalize, DbClose, Terminal, Owned, UnchangedDb
<1>10. CASE RetryProvisioning(n)
  BY <1>10 DEF RetryProvisioning, DbRetry, RetryReasons, UnchangedDb
<1>11. CASE RetryExecution(n)
  BY <1>11 DEF RetryExecution, DbRetry, RetryReasons, UnchangedDb
<1>12. CASE FailRun(n)
  BY <1>12 DEF FailRun, DbClose, Terminal, Owned, UnchangedDb
<1>13. QED
  BY <1>1, <1>2, <1>3, <1>4, <1>5, <1>6, <1>7, <1>8, <1>9, <1>10, <1>11, <1>12 DEF RunStep

LEMMA RunFrames ==
    ASSUME TypeOK, NEW n \in Attempts, RunStep(n)
    PROVE  RunFrame(n)
<1>1. CASE ReadAttempt(n)
  BY <1>1 DEF ReadAttempt, GoTo, Throw, Escape, RunFrame, UnchangedWorld, TypeOK
<1>2. CASE StartProvisioning(n)
  BY <1>2 DEF StartProvisioning, GoTo, Throw, Escape, RunFrame, UnchangedWorld, TypeOK
<1>3. CASE BeginProvision(n)
  BY <1>3 DEF BeginProvision, GoTo, Throw, Escape, RunFrame, UnchangedWorld, TypeOK
<1>4. CASE CallProvision(n)
  BY <1>4 DEF CallProvision, GoTo, Throw, Escape, RunFrame, UnchangedWorld, TypeOK
<1>5. CASE FailBeforeProvision(n)
  BY <1>5 DEF FailBeforeProvision, GoTo, Throw, Escape, RunFrame, UnchangedWorld, TypeOK
<1>6. CASE ProvisionResolves(n)
  BY <1>6 DEF ProvisionResolves, GoTo, Throw, Escape, RunFrame, UnchangedWorld, TypeOK
<1>7. CASE ProvisionFails(n)
  BY <1>7 DEF ProvisionFails, GoTo, Throw, Escape, RunFrame, UnchangedWorld, TypeOK
<1>8. CASE SettleFailedProvision(n)
  BY <1>8 DEF SettleFailedProvision, GoTo, Throw, Escape, RunFrame, UnchangedWorld, TypeOK
<1>9. CASE Bind(n)
  BY <1>9 DEF Bind, GoTo, Throw, Escape, RunFrame, UnchangedWorld, TypeOK
<1>10. CASE BeginAgentRun(n)
  BY <1>10 DEF BeginAgentRun, GoTo, Throw, Escape, RunFrame, UnchangedWorld, TypeOK
<1>11. CASE AgentDone(n)
  BY <1>11 DEF AgentDone, Finalize, GoTo, Throw, Escape, RunFrame, UnchangedWorld, TypeOK
<1>12. CASE AgentAsksHuman(n)
  BY <1>12 DEF AgentAsksHuman, GoTo, Throw, Escape, RunFrame, UnchangedWorld, TypeOK
<1>13. CASE AgentExits(n)
  BY <1>13 DEF AgentExits, GoTo, Throw, Escape, RunFrame, UnchangedWorld, TypeOK
<1>14. CASE ReadStatus(n)
  BY <1>14 DEF ReadStatus, GoTo, Throw, Escape, RunFrame, UnchangedWorld, TypeOK
<1>15. CASE FallbackDone(n)
  BY <1>15 DEF FallbackDone, Finalize, GoTo, Throw, Escape, RunFrame, UnchangedWorld, TypeOK
<1>16. CASE Throws(n)
  BY <1>16 DEF Throws, GoTo, Throw, Escape, RunFrame, UnchangedWorld, TypeOK
<1>17. CASE CatchError(n)
  BY <1>17 DEF CatchError, GoTo, Throw, Escape, RunFrame, UnchangedWorld, TypeOK
<1>18. CASE RetryProvisioning(n)
  BY <1>18 DEF RetryProvisioning, GoTo, Throw, Escape, RunFrame, UnchangedWorld, TypeOK
<1>19. CASE RetryExecution(n)
  BY <1>19 DEF RetryExecution, GoTo, Throw, Escape, RunFrame, UnchangedWorld, TypeOK
<1>20. CASE FailRun(n)
  BY <1>20 DEF FailRun, GoTo, Throw, Escape, RunFrame, UnchangedWorld, TypeOK
<1>21. CASE Finally(n)
  BY <1>21 DEF Finally, GoTo, Throw, Escape, RunFrame, UnchangedWorld, TypeOK
<1>22. QED
  BY <1>1, <1>2, <1>3, <1>4, <1>5, <1>6, <1>7, <1>8, <1>9, <1>10, <1>11, <1>12, <1>13, <1>14, <1>15, <1>16, <1>17, <1>18, <1>19, <1>20, <1>21 DEF RunStep

\* What a step may do to the database that is neither a claim nor a run's ...
DbQuiet == UnchangedDb \/ DbStatus \/ DbClose \/ DbInterrupt \/ DbReconcile

\* ... and what any step may do.
DbShape ==
    DbQuiet \/ DbRetry \/ \E n \in Attempts : DbClaim(n) \/ DbRun(n)

LEMMA CloseJobShape ==
    ASSUME NEW from \in SUBSET ({"pending"} \cup Owned), NEW s \in Terminal,
           CloseJob(from, s)
    PROVE  DbClose
BY DEF CloseJob, DbClose

LEMMA QuietDb ==
    ASSUME TypeOK, [Next]_vars, ~\E n \in Attempts : Claim(n) \/ RunStep(n)
    PROVE  DbQuiet
<1>1. ASSUME NEW n \in Attempts,
             DestroyCondemned(n) \/ CleanupSandbox(n) \/ ProviderCompletes(n)
      PROVE  DbQuiet
  BY <1>1 DEF DestroyCondemned, CleanupSandbox, ProviderCompletes, DbQuiet
<1>2. ASSUME NEW a \in Attempts, NEW k \in EffectKinds,
             ReconcileEffect(a, k) \/ SettleByOperator(a, k)
      PROVE  DbQuiet
  <2>1. TypeOK'
    BY <1>2, TypeStep DEF Next
  <2>2. effects' \in [Attempts -> EffectRow]
    BY <2>1 DEF TypeOK, EffectRow
  <2>3. PICK v \in {"settled", "not_applied"} :
           /\ effects' = [effects EXCEPT ![a][k] = v]
           /\ Undecided(a, k)
           /\ UNCHANGED <<job, attempts, latest>>
    BY <1>2 DEF ReconcileEffect, SettleByOperator, Reconciled
  <2>4. \A b \in Attempts, l \in EffectKinds :
           effects'[b][l] # effects[b][l] => b = a /\ l = k /\ effects'[b][l] = v
    BY <2>3 DEF TypeOK
  <2>5. QED
    BY <2>2, <2>3, <2>4 DEF DbReconcile, DbQuiet
<1>3. CASE ReapExecutionTimeout \/ ReapProvisionTimeout \/ ReapLeaseOrphan
           \/ ReapStalledExecution \/ CancelJob
  <2>1. /\ {"claimed", "provisioning", "running"} \in SUBSET ({"pending"} \cup Owned)
        /\ {"claimed", "provisioning"} \in SUBSET ({"pending"} \cup Owned)
        /\ {"running"} \in SUBSET ({"pending"} \cup Owned)
        /\ {"pending"} \cup Owned \in SUBSET ({"pending"} \cup Owned)
        /\ {"failed", "timeout", "orphan", "cancelled"} \subseteq Terminal
    BY DEF Owned, Terminal
  <2>2. DbClose
    BY <1>3, <2>1, CloseJobShape
    DEF ReapExecutionTimeout, ReapProvisionTimeout, ReapLeaseOrphan,
        ReapStalledExecution, CancelJob
  <2>3. QED
    BY <2>2 DEF DbQuiet
<1>4. CASE ReapWaitingHuman
  <2>1. CASE AllSettled
    BY <1>4, <2>1 DEF ReapWaitingHuman, DbClose, DbQuiet, Terminal, Owned
  <2>2. CASE ~AllSettled
    <3>1. TypeOK'
      BY <1>4, TypeStep DEF Next
    <3>2. effects' \in [Attempts -> EffectRow]
      BY <3>1 DEF TypeOK, EffectRow
    <3>3. \A a \in Attempts, k \in EffectKinds :
             Reconciled(a, k) \in {"settled", "not_applied", "unknown"}
      BY DEF Reconciled
    <3>4. \A a \in Attempts, k \in EffectKinds :
             effects'[a][k] = IF Undecided(a, k) THEN
                                 IF Reconciled(a, k) = "unknown"
                                 THEN effects[a][k] ELSE Reconciled(a, k)
                              ELSE effects[a][k]
      BY <1>4, <2>2 DEF ReapWaitingHuman
    <3>5. UNCHANGED <<job, attempts, latest>>
      BY <1>4, <2>2 DEF ReapWaitingHuman
    <3>6. QED
      BY <3>2, <3>3, <3>4, <3>5 DEF DbReconcile, DbQuiet
  <2>3. QED
    BY <2>1, <2>2
<1>5. CASE ReplyToHuman
  BY <1>5 DEF ReplyToHuman, DbInterrupt, DbQuiet, Resumable, TypeOK
<1>6. CASE Requeue
  BY <1>6 DEF Requeue, ResetJob, DbInterrupt, DbQuiet
<1>7. CASE DrainPending
  BY <1>7 DEF DrainPending, DbStatus, DbQuiet, JobStatuses
<1>8. CASE Crash \/ BootContainers
  BY <1>8 DEF Crash, BootContainers, DbQuiet
<1>9. CASE BootProvisioning
  <2>1. \/ UnchangedDb
        \/ /\ SetJob("pending") /\ MarkAttemptInterrupted
           /\ job.status \in {"claimed", "provisioning"}
        \/ /\ SetJob("orphan") /\ SettleAttemptTerminal("orphan")
           /\ job.status \in {"claimed", "provisioning"}
    BY <1>9 DEF BootProvisioning
  <2>2. CASE SetJob("pending") /\ MarkAttemptInterrupted
             /\ job.status \in {"claimed", "provisioning"}
    BY <2>2 DEF DbInterrupt, DbQuiet, SetJob, TypeOK
  <2>3. CASE SetJob("orphan") /\ SettleAttemptTerminal("orphan")
             /\ job.status \in {"claimed", "provisioning"}
    BY <2>3 DEF DbClose, DbQuiet, Terminal, Owned
  <2>4. QED
    BY <2>1, <2>2, <2>3 DEF DbQuiet
<1>10. CASE BootRunning
  BY <1>10 DEF BootRunning, DbClose, DbQuiet, Terminal, Owned
<1>11. CASE UNCHANGED vars
  BY <1>11 DEF vars, UnchangedDb, DbQuiet
<1>12. QED
  BY <1>1, <1>2, <1>3, <1>4, <1>5, <1>6, <1>7, <1>8, <1>9, <1>10,
     <1>11 DEF Next

LEMMA NextShape ==
    ASSUME TypeOK, [Next]_vars
    PROVE  DbShape
<1>1. ASSUME NEW n \in Attempts, Claim(n)
      PROVE  DbShape
  BY <1>1 DEF Claim, DbClaim, DbShape, NextAttempt
<1>2. ASSUME NEW n \in Attempts, RunStep(n)
      PROVE  DbShape
  BY <1>2, RunShape DEF DbShape, DbQuiet
<1>3. QED
  BY <1>1, <1>2, QuietDb DEF DbShape
-----------------------------------------------------------------------------
(***************************************************************************)
(* The database alone.                                                     *)
(***************************************************************************)

\* A run's write moves one active Attempt, and no other row.
LEMMA DbRunRows ==
    ASSUME TypeOK, NEW n \in Attempts, DbRun(n)
    PROVE  LET a == runs[n].attempt IN
           /\ a \in ActiveAttempts
           /\ latest' = latest
           /\ ActiveAttempts' = ActiveAttempts
           /\ \A b \in Attempts \ {a} : attempts'[b] = attempts[b]
                                        /\ effects'[b] = effects[b]
           /\ attempts'[a].status = "active"
           /\ \A b \in Attempts : attempts'[b].status = attempts[b].status
                                  /\ attempts'[b].reason = attempts[b].reason
           /\ <<attempts'[a].phase, effects'[a]["provision"]>> \in
                 {<<"provision.effect_pending", "effect_pending">>,
                  <<"unknown", "unknown">>, <<"settling", "never_started">>,
                  <<"provisioned", "settled">>,
                  <<"agent.effect_pending", effects[a]["provision"]>>}
<1> DEFINE a == runs[n].attempt
<1>1. a \in ActiveAttempts /\ a \in Attempts /\ attempts[a].status = "active"
  BY DEF DbRun, DbPhase, DbBind, DbAgent, OwnsProvisioning, ActiveAttempts
<1>2. latest' = latest
  BY DEF DbRun, DbPhase, DbBind, DbAgent
<1>3. \A b \in Attempts : /\ b # a => attempts'[b] = attempts[b]
                          /\ attempts'[b].status = attempts[b].status
                          /\ attempts'[b].reason = attempts[b].reason
  BY <1>1 DEF DbRun, DbPhase, DbBind, DbAgent, TypeOK
<1>4. \A b \in Attempts \ {a} : effects'[b] = effects[b]
  BY <1>1 DEF DbRun, DbPhase, DbBind, DbAgent, TypeOK
<1>5. ActiveAttempts' = ActiveAttempts
  BY <1>3 DEF ActiveAttempts
<1>6. <<attempts'[a].phase, effects'[a]["provision"]>> \in
                 {<<"provision.effect_pending", "effect_pending">>,
                  <<"unknown", "unknown">>, <<"settling", "never_started">>,
                  <<"provisioned", "settled">>,
                  <<"agent.effect_pending", effects[a]["provision"]>>}
  BY <1>1 DEF DbRun, DbPhase, DbBind, DbAgent, TypeOK, EffectKinds
<1>7. QED
  BY <1>1, <1>2, <1>3, <1>4, <1>5, <1>6

LEMMA ClaimRows ==
    ASSUME TypeOK, TypeOK', AttemptFollowsJob, BlankRows, NEW n \in Attempts, DbClaim(n)
    PROVE  /\ ActiveAttempts' = {n}
           /\ n = latest'
           /\ \A b \in Attempts \ {n} : attempts'[b] = attempts[b]
           /\ n \notin ActiveAttempts => n = latest + 1 /\ attempts'[n] = NewRow
           /\ n \in ActiveAttempts => n = latest /\ attempts'[n] = attempts[n]
<1>1. NewRow.status = "active"
  BY DEF NewRow, NoRow
<1>2. \A b \in Attempts : attempts'[b] = IF b = n /\ n \notin ActiveAttempts
                                         THEN NewRow ELSE attempts[b]
  BY DEF DbClaim, TypeOK
<1>3. CASE ActiveAttempts = {}
  <2>1. n = latest + 1 /\ latest' = n
    BY <1>3 DEF DbClaim
  <2>2. ActiveAttempts' = {n}
    BY <1>1, <1>2, <1>3 DEF ActiveAttempts
  <2>3. QED
    BY <1>2, <1>3, <2>1, <2>2
<1>4. CASE ActiveAttempts # {}
  <2>1. n \in ActiveAttempts /\ n = latest /\ latest' = latest
    BY <1>4 DEF DbClaim, AttemptFollowsJob
  <2>2. ActiveAttempts' = {n}
    BY <1>2, <2>1 DEF ActiveAttempts, AttemptFollowsJob
  <2>3. QED
    BY <1>2, <2>1, <2>2
<1>5. QED
  BY <1>3, <1>4

\* The phase of an active Attempt goes on telling its effects.
LEMMA PhaseStep ==
    ASSUME IInv, TypeOK', DbShape
    PROVE  PhaseTellsEffects'
<1>0. TypeOK /\ PhaseTellsEffects /\ BlankRows /\ AttemptFollowsJob
  BY DEF IInv
<1>1. CASE UnchangedDb \/ DbStatus
  BY <1>0, <1>1 DEF UnchangedDb, DbStatus, PhaseTellsEffects, ActiveAttempts
<1>2. CASE DbClose
  <2>1. ActiveAttempts' = {}
    BY <1>0, <1>2, SettleActive DEF DbClose, Terminal, ClosedStatuses
  <2>2. QED
    BY <2>1 DEF PhaseTellsEffects
<1>3. CASE DbInterrupt
  BY <1>0, <1>3, InterruptActive DEF DbInterrupt, PhaseTellsEffects
<1>4. CASE DbRetry
  <2>1. ActiveAttempts' = {latest + 1} /\ latest + 1 \in Attempts
        /\ attempts'[latest + 1] = NewRow
    BY <1>0, <1>4, RetryActive DEF DbRetry
  <2>2. effects[latest + 1] = NoEffects /\ latest + 1 \notin ActiveAttempts
    BY <1>0, <2>1 DEF TypeOK, BlankRows, NoRow, ActiveAttempts
  <2>3. effects'[latest + 1] = effects[latest + 1]
    BY <1>4, <2>1, <2>2 DEF DbRetry, CloseAndCreate, CloseActiveEffects
  <2>4. QED
    BY <2>1, <2>2, <2>3 DEF PhaseTellsEffects, NewRow, NoRow, NoEffects, EffectKinds
<1>5. CASE DbReconcile
  <2>1. \A a \in ActiveAttempts, k \in EffectKinds : effects'[a][k] = effects[a][k]
    BY <1>5 DEF DbReconcile, Undecided, ActiveAttempts, ClosedStatuses
  <2>2. \A a \in ActiveAttempts : effects'[a] = effects[a]
    BY <1>0, <1>5, <2>1 DEF DbReconcile, TypeOK, EffectRow, ActiveAttempts
  <2>3. QED
    BY <1>0, <1>5, <2>2 DEF DbReconcile, PhaseTellsEffects, ActiveAttempts
<1>6. ASSUME NEW n \in Attempts, DbClaim(n)
      PROVE  PhaseTellsEffects'
  <2>1. /\ ActiveAttempts' = {n} /\ effects'[n] = effects[n]
        /\ n \notin ActiveAttempts => n = latest + 1 /\ attempts'[n] = NewRow
        /\ n \in ActiveAttempts => attempts'[n] = attempts[n]
    BY <1>0, <1>6, ClaimRows DEF DbClaim
  <2>2. n = latest + 1 => effects[n] = NoEffects
    BY <1>0 DEF BlankRows, TypeOK
  <2>3. QED
    BY <1>0, <2>1, <2>2 DEF PhaseTellsEffects, NewRow, NoRow, NoEffects, EffectKinds
<1>7. ASSUME NEW n \in Attempts, DbRun(n)
      PROVE  PhaseTellsEffects'
  <2> DEFINE a == runs[n].attempt
  <2>1. DbAgent(n) => /\ effects[a]["provision"] \notin {"absent", "never_started"}
    <3>1. SUFFICES ASSUME DbAgent(n)
                   PROVE  effects[a]["provision"] \notin {"absent", "never_started"}
      OBVIOUS
    <3>2. runs[n].pc = "bound" /\ a \in ActiveAttempts /\ a \in Attempts
      BY <3>1 DEF DbAgent, ActiveAttempts
    <3>3. sandboxes[n] # "none"
      BY <3>2 DEF IInv, RunsKnown, KnownRun
    <3>4. effects[a]["provision"] # "never_started"
      BY <3>2, <3>3 DEF IInv, NeverStartedIsProof
    <3>5. attempts[a].phase # "preparing"
      BY <3>2 DEF IInv, OneActor, OneActorOf
    <3>6. QED
      BY <1>0, <3>2, <3>4, <3>5 DEF PhaseTellsEffects
  <2>2. /\ a \in ActiveAttempts
        /\ ActiveAttempts' = ActiveAttempts
        /\ \A b \in Attempts \ {a} : attempts'[b] = attempts[b]
                                     /\ effects'[b] = effects[b]
        /\ <<attempts'[a].phase, effects'[a]["provision"]>> \in
                 {<<"provision.effect_pending", "effect_pending">>,
                  <<"unknown", "unknown">>, <<"settling", "never_started">>,
                  <<"provisioned", "settled">>,
                  <<"agent.effect_pending", effects[a]["provision"]>>}
    BY <1>0, <1>7, DbRunRows
  <2>3. attempts'[a].phase = "agent.effect_pending" => DbAgent(n)
    BY <1>0, <1>7, SMTT(30) DEF DbRun, DbPhase, DbBind, TypeOK, OwnsProvisioning, ActiveAttempts
  <2>4. QED
    BY <1>0, <2>1, <2>2, <2>3 DEF PhaseTellsEffects, ActiveAttempts
<1>8. QED
  BY <1>1, <1>2, <1>3, <1>4, <1>5, <1>6, <1>7 DEF DbShape, DbQuiet

\* No effect of a closed Attempt is left in flight.
LEMMA LedgerStep ==
    ASSUME IInv, TypeOK', DbShape
    PROVE  ClosedLedger'
<1>0. TypeOK /\ ClosedLedger /\ BlankRows /\ AttemptFollowsJob
  BY DEF IInv
<1>1. "active" \notin ClosedStatuses
  BY DEF ClosedStatuses
<1>2. CASE UnchangedDb \/ DbStatus
  BY <1>0, <1>2 DEF UnchangedDb, DbStatus, ClosedLedger
<1>3. ASSUME NEW status, effects' = CloseActiveEffects(status),
             \A a \in Attempts : \/ attempts'[a].status = "active"
                                 \/ a \in ActiveAttempts
                                 \/ attempts'[a] = attempts[a]
      PROVE  ClosedLedger'
  <2>1. \A a \in Attempts, k \in EffectKinds :
           effects'[a][k] = IF a \in ActiveAttempts /\ effects[a][k] = "effect_pending"
                            THEN IF status = "succeeded" /\ k = "agent_run"
                                 THEN "settled" ELSE "unknown"
                            ELSE effects[a][k]
    BY <1>0, <1>3, ClosedEffectsAt
  <2>2. QED
    BY <1>0, <1>1, <1>3, <2>1 DEF ClosedLedger, ActiveAttempts
<1>4. CASE DbClose
  BY <1>0, <1>3, <1>4, SettleActive
  DEF DbClose, SettleAttemptTerminal, Terminal, ClosedStatuses
<1>5. CASE DbInterrupt
  BY <1>0, <1>3, <1>5, InterruptActive DEF DbInterrupt, MarkAttemptInterrupted
<1>6. CASE DbRetry
  BY <1>0, <1>3, <1>6, RetryActive DEF DbRetry, CloseAndCreate, NewRow, NoRow
<1>7. CASE DbReconcile
  BY <1>0, <1>7 DEF DbReconcile, ClosedLedger
<1>8. ASSUME NEW n \in Attempts, DbClaim(n)
      PROVE  ClosedLedger'
  <2>1. \A a \in Attempts : attempts'[a].status = "active" \/ attempts'[a] = attempts[a]
    BY <1>0, <1>8, ClaimRows DEF NewRow, NoRow
  <2>2. QED
    BY <1>0, <1>1, <1>8, <2>1 DEF DbClaim, ClosedLedger
<1>9. ASSUME NEW n \in Attempts, DbRun(n)
      PROVE  ClosedLedger'
  BY <1>0, <1>1, <1>9, DbRunRows DEF ClosedLedger
<1>10. QED
  BY <1>2, <1>4, <1>5, <1>6, <1>7, <1>8, <1>9 DEF DbShape, DbQuiet
-----------------------------------------------------------------------------
(***************************************************************************)
(* The steps that are no run's: what they do to runs and sandboxes.        *)
(***************************************************************************)
Quiet ==
    /\ UNCHANGED runs
    /\ \A m \in Attempts : sandboxes'[m] # sandboxes[m] =>
          \/ m \in condemned /\ sandboxes'[m] = "gone"
          \/ /\ sandboxes[m] = "alive" /\ sandboxes'[m] = "gone"
             /\ ~(Wanted(m) /\ job.status # "waiting_human")
             /\ UnchangedDb
          \/ /\ sandboxes[m] = "creating" /\ sandboxes'[m] \in {"gone", "alive"}
             /\ runs[m].pc = "done"
    /\ \A m \in condemned' \ condemned : /\ m = job.sandbox
                                         /\ DbClose \/ DbInterrupt
    /\ scheduler' # "up" => scheduler # "up"

LEMMA QuietShape ==
    ASSUME TypeOK, [Next]_vars
    PROVE  \/ \E n \in Attempts : Claim(n) \/ RunStep(n)
           \/ Crash
           \/ Quiet
<1>1. CASE UNCHANGED vars
  BY <1>1 DEF vars, Quiet
<1>2. ASSUME NEW n \in Attempts, DestroyCondemned(n)
      PROVE  Quiet
  BY <1>2 DEF DestroyCondemned, Quiet, TypeOK
<1>3. ASSUME NEW n \in Attempts, CleanupSandbox(n)
      PROVE  Quiet
  BY <1>3 DEF CleanupSandbox, Quiet, TypeOK
<1>4. ASSUME NEW n \in Attempts, ProviderCompletes(n)
      PROVE  Quiet
  BY <1>4 DEF ProviderCompletes, Quiet, TypeOK
<1>5. ASSUME NEW a \in Attempts, NEW k \in EffectKinds,
             ReconcileEffect(a, k) \/ SettleByOperator(a, k)
      PROVE  Quiet
  BY <1>5 DEF ReconcileEffect, SettleByOperator, Quiet, UnchangedWorld
<1>6. ASSUME UNCHANGED <<runs, sandboxes>>,
             scheduler' # "up" => scheduler # "up",
             UNCHANGED condemned \/ (Condemn(job.sandbox) /\ (DbClose \/ DbInterrupt))
      PROVE  Quiet
  BY <1>6 DEF Quiet, Condemn
<1>7. CASE ReapExecutionTimeout \/ ReapProvisionTimeout \/ ReapLeaseOrphan
           \/ ReapStalledExecution \/ CancelJob
  <2>1. ASSUME NEW from \in SUBSET ({"pending"} \cup Owned), NEW s \in Terminal,
               CloseJob(from, s)
        PROVE  Quiet
    BY <1>6, <2>1, CloseJobShape DEF CloseJob
  <2>2. /\ {"claimed", "provisioning", "running"} \in SUBSET ({"pending"} \cup Owned)
        /\ {"claimed", "provisioning"} \in SUBSET ({"pending"} \cup Owned)
        /\ {"running"} \in SUBSET ({"pending"} \cup Owned)
        /\ {"pending"} \cup Owned \in SUBSET ({"pending"} \cup Owned)
        /\ {"failed", "timeout", "orphan", "cancelled"} \subseteq Terminal
    BY DEF Owned, Terminal
  <2>3. QED
    BY <1>7, <2>1, <2>2
    DEF ReapExecutionTimeout, ReapProvisionTimeout, ReapLeaseOrphan,
        ReapStalledExecution, CancelJob
<1>8. CASE ReapWaitingHuman
  <2>1. UNCHANGED condemned \/ (Condemn(job.sandbox) /\ DbClose)
    BY <1>8 DEF ReapWaitingHuman, DbClose, Owned, Terminal
  <2>2. QED
    BY <1>6, <1>8, <2>1 DEF ReapWaitingHuman
<1>9. CASE ReplyToHuman \/ DrainPending
  BY <1>6, <1>9 DEF ReplyToHuman, DrainPending, UnchangedWorld
<1>10. CASE Requeue
  <2>1. DbInterrupt
    BY <1>10 DEF Requeue, DbInterrupt, ResetJob
  <2>2. QED
    BY <1>6, <1>10, <2>1 DEF Requeue
<1>11. CASE BootContainers
  BY <1>11 DEF BootContainers, Quiet, TypeOK
<1>12. CASE BootProvisioning
  <2>1. UNCHANGED condemned \/ (Condemn(job.sandbox) /\ DbClose)
    BY <1>12 DEF BootProvisioning, DbClose, Owned, Terminal
  <2>2. QED
    BY <1>6, <1>12, <2>1 DEF BootProvisioning
<1>13. CASE BootRunning
  <2>1. UNCHANGED condemned \/ (Condemn(job.sandbox) /\ DbClose)
    BY <1>13 DEF BootRunning, DbClose, Owned, Terminal
  <2>2. QED
    BY <1>6, <1>13, <2>1 DEF BootRunning
<1>14. QED
  BY <1>1, <1>2, <1>3, <1>4, <1>5, <1>7, <1>8, <1>9, <1>10, <1>11, <1>12, <1>13
  DEF Next

\* A run nobody started is started by a claim only.
LEMMA IdleStays ==
    ASSUME TypeOK, [Next]_vars, NEW a \in Attempts, runs[a].pc = "idle",
           ~Claim(a)
    PROVE  runs'[a] = runs[a]
<1>1. ASSUME NEW n \in Attempts, RunStep(n)
      PROVE  runs'[a] = runs[a]
  BY <1>1, RunFrames DEF RunFrame
<1>2. ASSUME NEW n \in Attempts, Claim(n)
      PROVE  runs'[a] = runs[a]
  BY <1>2 DEF Claim, TypeOK
<1>3. CASE Crash
  BY <1>3 DEF Crash
<1>4. QED
  BY <1>1, <1>2, <1>3, QuietShape DEF Quiet

LEMMA LatestGrows ==
    ASSUME IInv, TypeOK', DbShape
    PROVE  /\ latest' \in {latest, latest + 1}
           /\ latest' \in Nat /\ latest \in Nat
           /\ latest' = latest + 1 => ActiveAttempts' = {latest'}
<1>1. TypeOK /\ BlankRows /\ AttemptFollowsJob
  BY DEF IInv
<1>2. latest \in Nat /\ latest' \in Nat
  BY <1>1, BoundsAssumption DEF TypeOK
<1>3. CASE DbRetry
  BY <1>1, <1>2, <1>3, RetryActive DEF DbRetry
<1>4. ASSUME NEW n \in Attempts, DbClaim(n)
      PROVE  latest' \in {latest, latest + 1} /\ ActiveAttempts' = {latest'}
  BY <1>1, <1>4, ClaimRows
<1>5. ASSUME NEW n \in Attempts, DbRun(n)
      PROVE  latest' = latest
  BY <1>1, <1>5, DbRunRows
<1>6. ASSUME ~DbRetry, ~\E n \in Attempts : DbClaim(n) \/ DbRun(n)
      PROVE  latest' = latest
  BY <1>6 DEF DbShape, DbQuiet, UnchangedDb, DbStatus, DbClose, DbInterrupt, DbReconcile,
      SettleAttemptTerminal, MarkAttemptInterrupted
<1>7. QED
  BY <1>2, <1>3, <1>4, <1>5, <1>6

\* Rows beyond the newest Attempt stay blank.
LEMMA BlankStep ==
    ASSUME IInv, TypeOK', [Next]_vars, DbShape
    PROVE  BlankRows'
<1>0. TypeOK /\ BlankRows /\ AttemptFollowsJob
  BY DEF IInv
<1>1. latest' \in {latest, latest + 1} /\ latest' \in Nat /\ latest \in Nat
      /\ (latest' = latest + 1 => ActiveAttempts' = {latest'})
  BY LatestGrows
<1>2. ASSUME NEW a \in Attempts, a > latest'
      PROVE  /\ attempts'[a] = NoRow
             /\ effects'[a] = NoEffects
             /\ runs'[a] = NoRun
  <2>1. /\ a > latest /\ a # latest' /\ a \in Nat
    BY <1>1, <1>2 DEF Attempts
  <2>2. attempts[a] = NoRow /\ effects[a] = NoEffects /\ runs[a] = NoRun
    BY <1>0, <2>1 DEF BlankRows
  <2>3. a \notin ActiveAttempts /\ attempts[a].status \notin ClosedStatuses
    BY <2>2 DEF NoRow, ActiveAttempts, ClosedStatuses
  <2>4. runs'[a] = NoRun
    <3>1. ~Claim(a)
      BY <2>1, <2>3 DEF Claim, NextAttempt
    <3>2. QED
      BY <1>0, <2>2, <3>1, IdleStays DEF NoRun
  <2>5. attempts'[a] = attempts[a] /\ effects'[a] = effects[a]
    <3>1. CASE UnchangedDb \/ DbStatus
      BY <3>1 DEF UnchangedDb, DbStatus
    <3>2. CASE DbClose
      BY <1>0, <2>3, <3>2, SettleActive
      DEF DbClose, SettleAttemptTerminal, CloseActiveEffects, Terminal, ClosedStatuses
    <3>3. CASE DbInterrupt
      BY <1>0, <2>3, <3>3, InterruptActive
      DEF DbInterrupt, MarkAttemptInterrupted, CloseActiveEffects
    <3>4. CASE DbRetry
      BY <1>0, <2>1, <2>3, <3>4, RetryActive
      DEF DbRetry, CloseAndCreate, CloseActiveEffects
    <3>5. CASE DbReconcile
      <4>1. \A k \in EffectKinds : effects'[a][k] = effects[a][k]
        BY <2>3, <3>5 DEF DbReconcile, Undecided
      <4>2. QED
        BY <1>0, <3>5, <4>1 DEF DbReconcile, EffectRow, TypeOK
    <3>6. ASSUME NEW n \in Attempts, DbClaim(n)
          PROVE  attempts'[a] = attempts[a] /\ effects'[a] = effects[a]
      BY <1>0, <2>1, <3>6, ClaimRows DEF DbClaim
    <3>7. ASSUME NEW n \in Attempts, DbRun(n)
          PROVE  attempts'[a] = attempts[a] /\ effects'[a] = effects[a]
      BY <1>0, <2>3, <3>7, DbRunRows
    <3>8. QED
      BY <3>1, <3>2, <3>3, <3>4, <3>5, <3>6, <3>7 DEF DbShape, DbQuiet
  <2>6. QED
    BY <2>2, <2>4, <2>5
<1>3. ASSUME NEW a \in Attempts, a <= latest'
      PROVE  attempts'[a].status # "none"
  <2>1. CASE a > latest
    <3>1. a \in ActiveAttempts'
      BY <1>1, <1>3, <2>1 DEF Attempts
    <3>2. QED
      BY <3>1 DEF ActiveAttempts
  <2>2. CASE a <= latest
    <3>0. attempts[a].status # "none"
      BY <1>0, <2>2 DEF BlankRows
    <3>1. CASE UnchangedDb \/ DbStatus \/ DbReconcile
      BY <3>0, <3>1 DEF UnchangedDb, DbStatus, DbReconcile
    <3>2. CASE DbClose
      BY <1>0, <3>0, <3>2, SettleActive DEF DbClose, Terminal, ClosedStatuses
    <3>3. CASE DbInterrupt
      BY <1>0, <3>0, <3>3, InterruptActive DEF DbInterrupt
    <3>4. CASE DbRetry
      BY <1>0, <3>0, <3>4, RetryActive DEF DbRetry, NewRow, NoRow
    <3>5. ASSUME NEW n \in Attempts, DbClaim(n)
          PROVE  attempts'[a].status # "none"
      BY <1>0, <3>0, <3>5, ClaimRows DEF NewRow, NoRow
    <3>6. ASSUME NEW n \in Attempts, DbRun(n)
          PROVE  attempts'[a].status # "none"
      BY <1>0, <3>0, <3>6, DbRunRows
    <3>7. QED
      BY <3>1, <3>2, <3>3, <3>4, <3>5, <3>6 DEF DbShape, DbQuiet
  <2>3. QED
    BY <1>1, <2>1, <2>2 DEF Attempts
<1>4. QED
  BY <1>2, <1>3 DEF BlankRows

\* Job and Attempt change together.
LEMMA FollowStep ==
    ASSUME IInv, TypeOK', [Next]_vars, DbShape
    PROVE  AttemptFollowsJob'
<1>0. TypeOK /\ BlankRows /\ AttemptFollowsJob /\ OneActor
  BY DEF IInv
<1>1. ASSUME NEW a \in Attempts, job'.status \in {"pending", "cancelled"},
             runs[a].pc = "idle"
      PROVE  runs'[a].pc = "idle"
  <2>1. ~Claim(a)
    BY <1>0, <1>1 DEF Claim, SetJob, TypeOK
  <2>2. QED
    BY <1>0, <1>1, <2>1, IdleStays
<1>2. CASE UnchangedDb \/ DbReconcile
  <2>1. ActiveAttempts' = ActiveAttempts /\ latest' = latest /\ job' = job
        /\ attempts' = attempts
    BY <1>2 DEF UnchangedDb, DbReconcile, ActiveAttempts
  <2>2. \A a \in ActiveAttempts : effects'[a] = effects[a]
    <3>1. \A a \in ActiveAttempts, k \in EffectKinds : effects'[a][k] = effects[a][k]
      BY <1>2 DEF UnchangedDb, DbReconcile, Undecided, ActiveAttempts, ClosedStatuses
    <3>2. QED
      BY <1>0, <1>2, <3>1 DEF UnchangedDb, DbReconcile, EffectRow, TypeOK, ActiveAttempts
  <2>3. QED
    BY <1>0, <1>1, <2>1, <2>2, ActiveInAttempts DEF AttemptFollowsJob, Untouched
<1>3. CASE DbStatus
  <2>1. ActiveAttempts' = ActiveAttempts /\ latest' = latest /\ attempts' = attempts
        /\ effects' = effects
    BY <1>3 DEF DbStatus, ActiveAttempts
  <2>2. <<job.status, job'.status>> \in {<<"claimed", "provisioning">>,
                                    <<"running", "waiting_human">>,
                                    <<"pending", "cancelled">>}
    BY <1>0, <1>3 DEF DbStatus, SetJob, TypeOK
  <2>3. QED
    BY <1>0, <1>1, <2>1, <2>2, ActiveInAttempts
    DEF AttemptFollowsJob, Untouched, Owned
<1>4. CASE DbClose
  <2>1. ActiveAttempts' = {} /\ job'.status \in Terminal
    BY <1>0, <1>4, SettleActive DEF DbClose, SetJob, TypeOK, Terminal, ClosedStatuses
  <2>2. QED
    BY <2>1 DEF AttemptFollowsJob, Terminal, Owned
<1>5. CASE DbInterrupt
  <2>1. ActiveAttempts' = {} /\ job'.status = "pending"
    BY <1>0, <1>5, InterruptActive DEF DbInterrupt
  <2>2. QED
    BY <2>1 DEF AttemptFollowsJob, Owned
<1>6. CASE DbRetry
  <2>1. ActiveAttempts' = {latest'} /\ latest' = latest + 1 /\ latest' \in Attempts
        /\ attempts'[latest'] = NewRow /\ job'.status = "pending"
    BY <1>0, <1>6, RetryActive DEF DbRetry, ResetJob
  <2>2. /\ effects[latest'] = NoEffects /\ runs[latest'] = NoRun
        /\ latest' \notin ActiveAttempts
    BY <1>0, <2>1 DEF BlankRows, TypeOK, NoRow, ActiveAttempts
  <2>3. effects'[latest'] = NoEffects
    BY <1>6, <2>1, <2>2 DEF DbRetry, CloseAndCreate, CloseActiveEffects
  <2>4. QED
    BY <1>1, <2>1, <2>2, <2>3
    DEF AttemptFollowsJob, Untouched, Owned, NewRow, NoRow, NoRun
<1>7. ASSUME NEW n \in Attempts, DbClaim(n)
      PROVE  AttemptFollowsJob'
  <2>1. ActiveAttempts' = {latest'} /\ job'.status = "claimed"
    BY <1>0, <1>7, ClaimRows DEF DbClaim, SetJob, TypeOK
  <2>2. QED
    BY <2>1 DEF AttemptFollowsJob
<1>8. ASSUME NEW n \in Attempts, DbRun(n)
      PROVE  AttemptFollowsJob'
  <2>1. ActiveAttempts' = ActiveAttempts /\ latest' = latest
        /\ runs[n].attempt \in ActiveAttempts
    BY <1>0, <1>8, DbRunRows
  <2>2. /\ job'.status \in {job.status, "running"}
        /\ job.status = "provisioning" \/ (job' = job /\ runs[n].pc = "bound")
    BY <1>8, SMTT(60) DEF DbRun, DbPhase, DbBind, DbAgent, OwnsProvisioning
  <2>3. job.status \notin {"pending", "cancelled"}
    <3>1. SUFFICES ASSUME job.status \in {"pending", "cancelled"}
                   PROVE  FALSE
      OBVIOUS
    <3>2. attempts[runs[n].attempt].phase = "preparing" /\ runs[n].pc = "bound"
      BY <1>0, <2>1, <2>2, <3>1 DEF AttemptFollowsJob, Untouched
    <3>3. QED
      BY <1>0, <2>1, <3>2 DEF OneActor, OneActorOf
  <2>4. job.status \in Owned
    <3>1. job.status \in JobStatuses
      BY <1>0 DEF TypeOK
    <3>2. job.status \notin {"succeeded", "failed", "timeout", "orphan"}
      BY <1>0, <2>1 DEF AttemptFollowsJob
    <3>3. QED
      BY <2>3, <3>1, <3>2 DEF JobStatuses, Owned
  <2>5. QED
    BY <1>0, <2>1, <2>2, <2>4 DEF AttemptFollowsJob, Owned
<1>9. QED
  BY <1>2, <1>3, <1>4, <1>5, <1>6, <1>7, <1>8 DEF DbShape, DbQuiet
-----------------------------------------------------------------------------
(***************************************************************************)
(* The runs alone.                                                         *)
(***************************************************************************)

\* A claim starts a run that has not been started.
LEMMA ClaimIdle ==
    ASSUME IInv, NEW n \in Attempts, Claim(n)
    PROVE  /\ runs[n].pc = "idle" /\ runs[n].attempt = 0 /\ sandboxes[n] = "none"
           /\ \A m \in Attempts \ {n} : runs'[m] = runs[m]
           /\ runs'[n].pc = "start" /\ runs'[n].attempt = 0
           /\ runs'[n].handle = runs[n].handle
           /\ UNCHANGED <<sandboxes, condemned, scheduler>>
<1>1. TypeOK /\ BlankRows /\ AttemptFollowsJob /\ RunsKnown
  BY DEF IInv
<1>2. CASE ActiveAttempts = {}
  <2>1. n > latest
    BY <1>1, <1>2, BoundsAssumption DEF Claim, NextAttempt, TypeOK
  <2>2. runs[n] = NoRun
    BY <1>1, <2>1 DEF BlankRows
  <2>3. QED
    BY <1>1, <2>2 DEF Claim, UnchangedWorld, TypeOK, NoRun, RunsKnown, KnownRun
<1>3. CASE ActiveAttempts # {}
  <2>1. runs[n].pc = "idle"
    BY <1>1, <1>3 DEF Claim, AttemptFollowsJob, Untouched
  <2>2. QED
    BY <1>1, <2>1 DEF Claim, UnchangedWorld, TypeOK, RunsKnown, KnownRun
<1>4. QED
  BY <1>2, <1>3

\* A run stays as its control point tells.
LEMMA KnownRunStep ==
    ASSUME TypeOK, NEW n \in Attempts, KnownRun(runs[n], sandboxes[n]), RunStep(n)
    PROVE  KnownRun(runs[n], sandboxes[n])'
<1>r. ASSUME NEW pc \in {"finally", "fail"}, GoTo(n, pc), sandboxes' = sandboxes
      PROVE  KnownRun(runs[n], sandboxes[n])'
  <2>1. runs'[n] = [runs[n] EXCEPT !.pc = pc] /\ runs[n] \in RunRow
    BY <1>r DEF GoTo, TypeOK, RunRow
  <2>2. QED
    BY <1>r, <2>1 DEF RunRow, KnownRun, Acting
<1>1. CASE ReadAttempt(n)
  <2>1. \A a \in ActiveAttempts : a # 0
    BY DEF ActiveAttempts, Attempts
  <2>2. /\ sandboxes' = sandboxes /\ runs[n].pc = "start"
        /\ \/ runs'[n] = [runs[n] EXCEPT !.pc = "error", !.error = "other"]
           \/ \E a \in ActiveAttempts :
                 runs'[n] = [runs[n] EXCEPT !.pc = "preflight", !.attempt = a]
    BY <1>1 DEF ReadAttempt, Throw, UnchangedWorld, TypeOK
  <2>3. runs[n] \in RunRow
    BY DEF TypeOK, RunRow
  <2>4. CASE runs'[n] = [runs[n] EXCEPT !.pc = "error", !.error = "other"]
    BY <2>2, <2>3, <2>4 DEF RunRow, KnownRun, Acting
  <2>5. ASSUME NEW a \in ActiveAttempts,
               runs'[n] = [runs[n] EXCEPT !.pc = "preflight", !.attempt = a]
        PROVE  KnownRun(runs[n], sandboxes[n])'
    BY <2>1, <2>2, <2>3, <2>5 DEF RunRow, KnownRun, Acting
  <2>6. QED
    BY <2>2, <2>4, <2>5
<1>2. CASE StartProvisioning(n)
  BY <1>2 DEF StartProvisioning, GoTo, Throw, Escape, UnchangedWorld, TypeOK, KnownRun, Acting
<1>3. CASE BeginProvision(n)
  BY <1>3, SMTT(30) DEF BeginProvision, GoTo, Throw, Escape, UnchangedWorld, TypeOK, KnownRun, Acting
<1>4. CASE CallProvision(n)
  BY <1>4 DEF CallProvision, GoTo, Throw, Escape, UnchangedWorld, TypeOK, KnownRun, Acting
<1>5. CASE FailBeforeProvision(n)
  BY <1>5 DEF FailBeforeProvision, GoTo, Throw, Escape, UnchangedWorld, TypeOK, KnownRun, Acting
<1>6. CASE ProvisionResolves(n)
  BY <1>6 DEF ProvisionResolves, GoTo, Throw, Escape, UnchangedWorld, TypeOK, KnownRun, Acting
<1>7. CASE ProvisionFails(n)
  BY <1>7 DEF ProvisionFails, GoTo, Throw, Escape, UnchangedWorld, TypeOK, KnownRun, Acting
<1>8. CASE SettleFailedProvision(n)
  <2>1. /\ sandboxes' = sandboxes /\ runs[n].pc = "unsettled"
        /\ \E pc \in {"error", "finally"} : runs'[n] = [runs[n] EXCEPT !.pc = pc]
    BY <1>8 DEF SettleFailedProvision, GoTo, UnchangedWorld, TypeOK
  <2>2. QED
    BY <2>1 DEF TypeOK, KnownRun, Acting
<1>9. CASE Bind(n)
  BY <1>9 DEF Bind, GoTo, Throw, Escape, UnchangedWorld, TypeOK, KnownRun, Acting
<1>10. CASE BeginAgentRun(n)
  BY <1>10 DEF BeginAgentRun, GoTo, Throw, Escape, UnchangedWorld, TypeOK, KnownRun, Acting
<1>11. CASE AgentDone(n)
  BY <1>11 DEF AgentDone, Finalize, GoTo, Throw, Escape, UnchangedWorld, TypeOK, KnownRun, Acting
<1>12. CASE AgentAsksHuman(n)
  BY <1>12 DEF AgentAsksHuman, GoTo, Throw, Escape, UnchangedWorld, TypeOK, KnownRun, Acting
<1>13. CASE AgentExits(n)
  BY <1>13 DEF AgentExits, GoTo, Throw, Escape, UnchangedWorld, TypeOK, KnownRun, Acting
<1>14. CASE ReadStatus(n)
  BY <1>14 DEF ReadStatus, GoTo, Throw, Escape, UnchangedWorld, TypeOK, KnownRun, Acting
<1>15. CASE FallbackDone(n)
  BY <1>15, SMTT(30) DEF FallbackDone, Finalize, GoTo, Throw, Escape, UnchangedWorld, TypeOK, KnownRun, Acting
<1>16. CASE Throws(n)
  BY <1>16, SMTT(30) DEF Throws, GoTo, Throw, Escape, UnchangedWorld, TypeOK, KnownRun, Acting
<1>17. CASE CatchError(n)
  BY <1>17 DEF CatchError, GoTo, Throw, Escape, UnchangedWorld, TypeOK, KnownRun, Acting
<1>18. CASE RetryProvisioning(n)
  <2>1. GoTo(n, "finally") \/ GoTo(n, "fail")
    BY <1>18 DEF RetryProvisioning
  <2>2. sandboxes' = sandboxes
    BY <1>18 DEF RetryProvisioning, UnchangedWorld
  <2>3. QED
    BY <1>r, <2>1, <2>2
<1>19. CASE RetryExecution(n)
  <2>1. GoTo(n, "finally") \/ GoTo(n, "fail")
    BY <1>19 DEF RetryExecution
  <2>2. sandboxes' = sandboxes
    BY <1>19 DEF RetryExecution, UnchangedWorld
  <2>3. QED
    BY <1>r, <2>1, <2>2
<1>20. CASE FailRun(n)
  BY <1>20 DEF FailRun, GoTo, Throw, Escape, UnchangedWorld, TypeOK, KnownRun, Acting
<1>21. CASE Finally(n)
  BY <1>21 DEF Finally, GoTo, Throw, Escape, UnchangedWorld, TypeOK, KnownRun, Acting
<1>22. QED
  BY <1>1, <1>2, <1>3, <1>4, <1>5, <1>6, <1>7, <1>8, <1>9, <1>10, <1>11, <1>12, <1>13, <1>14, <1>15, <1>16, <1>17, <1>18, <1>19, <1>20, <1>21 DEF RunStep

\* A run that is past its binding never comes back.
LEMMA BoundStays ==
    ASSUME TypeOK, NEW n \in Attempts, RunStep(n), runs[n].pc \notin PreBind
    PROVE  runs'[n].pc \notin PreBind
<1>1. CASE ReadAttempt(n)
  BY <1>1 DEF ReadAttempt, GoTo, Throw, Escape, TypeOK, PreBind, Acting
<1>2. CASE StartProvisioning(n)
  BY <1>2 DEF StartProvisioning, GoTo, Throw, Escape, TypeOK, PreBind, Acting
<1>3. CASE BeginProvision(n)
  BY <1>3 DEF BeginProvision, GoTo, Throw, Escape, TypeOK, PreBind, Acting
<1>4. CASE CallProvision(n)
  BY <1>4 DEF CallProvision, GoTo, Throw, Escape, TypeOK, PreBind, Acting
<1>5. CASE FailBeforeProvision(n)
  BY <1>5 DEF FailBeforeProvision, GoTo, Throw, Escape, TypeOK, PreBind, Acting
<1>6. CASE ProvisionResolves(n)
  BY <1>6 DEF ProvisionResolves, GoTo, Throw, Escape, TypeOK, PreBind, Acting
<1>7. CASE ProvisionFails(n)
  BY <1>7 DEF ProvisionFails, GoTo, Throw, Escape, TypeOK, PreBind, Acting
<1>8. CASE SettleFailedProvision(n)
  BY <1>8 DEF SettleFailedProvision, GoTo, Throw, Escape, TypeOK, PreBind, Acting
<1>9. CASE Bind(n)
  BY <1>9 DEF Bind, GoTo, Throw, Escape, TypeOK, PreBind, Acting
<1>10. CASE BeginAgentRun(n)
  BY <1>10 DEF BeginAgentRun, GoTo, Throw, Escape, TypeOK, PreBind, Acting
<1>11. CASE AgentDone(n)
  BY <1>11 DEF AgentDone, Finalize, GoTo, Throw, Escape, TypeOK, PreBind, Acting
<1>12. CASE AgentAsksHuman(n)
  BY <1>12 DEF AgentAsksHuman, GoTo, Throw, Escape, TypeOK, PreBind, Acting
<1>13. CASE AgentExits(n)
  BY <1>13 DEF AgentExits, GoTo, Throw, Escape, TypeOK, PreBind, Acting
<1>14. CASE ReadStatus(n)
  BY <1>14 DEF ReadStatus, GoTo, Throw, Escape, TypeOK, PreBind, Acting
<1>15. CASE FallbackDone(n)
  BY <1>15 DEF FallbackDone, Finalize, GoTo, Throw, Escape, TypeOK, PreBind, Acting
<1>16. CASE Throws(n)
  BY <1>16 DEF Throws, GoTo, Throw, Escape, TypeOK, PreBind, Acting
<1>17. CASE CatchError(n)
  BY <1>17 DEF CatchError, GoTo, Throw, Escape, TypeOK, PreBind, Acting
<1>18. CASE RetryProvisioning(n)
  BY <1>18 DEF RetryProvisioning, GoTo, Throw, Escape, TypeOK, PreBind, Acting
<1>19. CASE RetryExecution(n)
  BY <1>19 DEF RetryExecution, GoTo, Throw, Escape, TypeOK, PreBind, Acting
<1>20. CASE FailRun(n)
  BY <1>20 DEF FailRun, GoTo, Throw, Escape, TypeOK, PreBind, Acting
<1>21. CASE Finally(n)
  BY <1>21 DEF Finally, GoTo, Throw, Escape, TypeOK, PreBind, Acting
<1>22. QED
  BY <1>1, <1>2, <1>3, <1>4, <1>5, <1>6, <1>7, <1>8, <1>9, <1>10, <1>11, <1>12, <1>13, <1>14, <1>15, <1>16, <1>17, <1>18, <1>19, <1>20, <1>21 DEF RunStep

\* A crash ends every run and loses its handle.
LEMMA CrashRuns ==
    ASSUME TypeOK, Crash, NEW n \in Attempts
    PROVE  /\ runs'[n] = runs[n] \/ (runs'[n].pc = "done" /\ ~runs'[n].handle)
           /\ runs'[n].attempt = runs[n].attempt
           /\ sandboxes'[n] = sandboxes[n]
           /\ runs'[n].pc \in {"idle", "done"}
<1>1. runs'[n] = IF runs[n].pc \in {"idle", "done"} THEN runs[n]
                 ELSE [runs[n] EXCEPT !.pc = "done", !.handle = FALSE, !.error = "none"]
  BY DEF Crash
<1>2. runs[n] \in RunRow /\ sandboxes' = sandboxes
  BY DEF Crash, TypeOK, RunRow
<1>3. QED
  BY <1>1, <1>2 DEF RunRow

\* Whether a run has asked for a sandbox is not changed by the others.
LEMMA QuietNone ==
    ASSUME IInv, Quiet, NEW n \in Attempts
    PROVE  sandboxes'[n] = "none" <=> sandboxes[n] = "none"
BY DEF IInv, OnlyBoundCondemned, Quiet

LEMMA RunsKnownStep ==
    ASSUME IInv, TypeOK', [Next]_vars, DbShape
    PROVE  RunsKnown'
<1>0. TypeOK /\ RunsKnown
  BY DEF IInv
<1>1. latest' \in {latest, latest + 1} /\ latest' \in Nat /\ latest \in Nat
  BY LatestGrows
<1>2. \A n \in Attempts : runs[n].attempt \in Nat
  BY <1>0, BoundsAssumption DEF TypeOK
<1>3. ASSUME NEW n \in Attempts, RunStep(n)
      PROVE  RunsKnown'
  <2>1. RunFrame(n)
    BY <1>0, <1>3, RunFrames
  <2>2. scheduler' = scheduler /\ scheduler = "up"
    BY <1>0, <2>1 DEF RunFrame, RunsKnown
  <2>3. \A m \in Attempts \ {n} : /\ runs'[m].attempt <= latest'
                                   /\ KnownRun(runs[m], sandboxes[m])'
    BY <1>0, <1>1, <1>2, <2>1 DEF RunFrame, RunsKnown, KnownRun
  <2>4. runs'[n].attempt <= latest'
    <3>1. CASE runs'[n].attempt = runs[n].attempt
      BY <1>0, <1>1, <1>2, <3>1 DEF RunsKnown
    <3>2. CASE runs'[n].attempt \in ActiveAttempts
      <4>1. runs'[n].attempt = latest
        BY <3>2 DEF IInv, AttemptFollowsJob
      <4>2. QED
        BY <1>1, <4>1
    <3>3. QED
      BY <2>1, <3>1, <3>2 DEF RunFrame
  <2>5. KnownRun(runs[n], sandboxes[n])'
    BY <1>0, <1>3, KnownRunStep DEF RunsKnown
  <2>6. QED
    BY <2>2, <2>3, <2>4, <2>5 DEF RunsKnown
<1>4. ASSUME NEW n \in Attempts, Claim(n)
      PROVE  RunsKnown'
  <2>1. /\ sandboxes' = sandboxes /\ sandboxes[n] = "none"
        /\ runs[n].pc = "idle" /\ runs'[n].pc = "start" /\ runs'[n].attempt = 0
        /\ runs'[n].handle = runs[n].handle
        /\ scheduler' = scheduler /\ scheduler = "up"
        /\ \A m \in Attempts \ {n} : runs'[m] = runs[m]
    BY <1>4, ClaimIdle DEF Claim
  <2>2. KnownRun(runs[n], sandboxes[n])'
    BY <1>0, <2>1 DEF RunsKnown, KnownRun, Acting
  <2>3. QED
    BY <1>0, <1>1, <1>2, <2>1, <2>2 DEF RunsKnown
<1>5. CASE Crash
  <2>1. \A m \in Attempts :
           /\ sandboxes'[m] = sandboxes[m]
           /\ runs'[m].attempt = runs[m].attempt
           /\ runs'[m] = runs[m] \/ (runs'[m].pc = "done" /\ ~runs'[m].handle)
           /\ runs'[m].pc \in {"idle", "done"}
    BY <1>0, <1>5, CrashRuns
  <2>2. \A m \in Attempts : KnownRun(runs[m], sandboxes[m])'
    BY <1>0, <2>1 DEF RunsKnown, KnownRun, Acting
  <2>3. QED
    BY <1>0, <1>1, <1>2, <2>1, <2>2 DEF RunsKnown
<1>6. CASE Quiet
  <2>1. \A m \in Attempts : KnownRun(runs[m], sandboxes[m])'
    BY <1>0, <1>6, QuietNone DEF Quiet, RunsKnown, KnownRun
  <2>2. QED
    BY <1>0, <1>1, <1>2, <1>6, <2>1 DEF Quiet, RunsKnown
<1>7. QED
  BY <1>0, <1>3, <1>4, <1>5, <1>6, QuietShape

\* What is recorded or condemned was bound.
LEMMA CondemnedStep ==
    ASSUME IInv, TypeOK', [Next]_vars, DbShape
    PROVE  OnlyBoundCondemned'
<1>0. TypeOK /\ RunsKnown /\ OnlyBoundCondemned
  BY DEF IInv
<1>2. ASSUME NEW n \in Attempts, RunStep(n)
      PROVE  OnlyBoundCondemned'
  <2>1. RunFrame(n)
    BY <1>0, <1>2, RunFrames
  <2>2. runs[n].pc \notin PreBind => runs'[n].pc \notin PreBind
    BY <1>0, <1>2, BoundStays
  <2>3. runs[n].pc \notin PreBind /\ sandboxes[n] # "none" => sandboxes'[n] # "none"
    BY <1>0, <1>2
    DEF RunStep, ReadAttempt, StartProvisioning, BeginProvision, CallProvision,
        FailBeforeProvision, ProvisionResolves, ProvisionFails,
        SettleFailedProvision, Bind, BeginAgentRun, AgentDone, AgentAsksHuman,
        AgentExits, ReadStatus, FallbackDone, Throws, CatchError,
        RetryProvisioning, RetryExecution, FailRun, Finally, UnchangedWorld,
        PreBind, Acting, TypeOK
  <2>4. \/ job'.sandbox \in {0, job.sandbox}
        \/ /\ job'.sandbox = n
           /\ runs'[n].pc \notin PreBind
           /\ sandboxes'[n] # "none"
    <3>1. CASE Bind(n)
      BY <1>0, <3>1
      DEF Bind, GoTo, UnchangedWorld, RunsKnown, KnownRun, PreBind, Acting, TypeOK
    <3>2. CASE ~Bind(n)
      <4>1. ~DbBind(n) \/ job' = job
        BY <1>2, <3>2
        DEF DbBind, RunStep, ReadAttempt, StartProvisioning, BeginProvision,
            CallProvision, FailBeforeProvision, ProvisionResolves, ProvisionFails,
            SettleFailedProvision, BeginAgentRun, AgentDone, AgentAsksHuman,
            AgentExits, ReadStatus, FallbackDone, Throws, CatchError,
            RetryProvisioning, RetryExecution, FailRun, Finally, UnchangedDb
      <4>2. UnchangedDb \/ DbStatus \/ DbRun(n) \/ DbClose \/ DbRetry
        BY <1>0, <1>2, RunShape
      <4>3. job \in JobRow
        BY <1>0 DEF TypeOK, JobRow
      <4>4. DbRun(n) => job' = job
        BY <4>1 DEF DbRun, DbPhase, DbAgent
      <4>5. \A s : SetJob(s) => job'.sandbox = job.sandbox
        BY <4>3 DEF SetJob, JobRow
      <4>6. ResetJob => job'.sandbox = 0
        BY DEF ResetJob
      <4>7. job'.sandbox \in {0, job.sandbox}
        BY <4>2, <4>4, <4>5, <4>6 DEF UnchangedDb, DbStatus, DbClose, DbRetry
      <4>8. QED
        BY <4>7
    <3>3. QED
      BY <3>1, <3>2
  <2>5. condemned' = condemned /\ 0 \notin Attempts
    BY <2>1 DEF RunFrame, Attempts
  <2>6. QED
    BY <1>0, <2>1, <2>2, <2>3, <2>4, <2>5 DEF RunFrame, OnlyBoundCondemned
<1>3. ASSUME NEW n \in Attempts, Claim(n)
      PROVE  OnlyBoundCondemned'
  <2>1. job'.sandbox = job.sandbox
    BY <1>0, <1>3 DEF Claim, SetJob, TypeOK
  <2>2. runs[n].pc \in PreBind
    BY <1>3, ClaimIdle DEF PreBind
  <2>3. QED
    BY <1>0, <1>3, <2>1, <2>2, ClaimIdle DEF OnlyBoundCondemned
<1>4. CASE Crash
  <2>1. /\ condemned' = {} /\ job' = job /\ sandboxes' = sandboxes
    BY <1>4 DEF Crash, UnchangedDb
  <2>2. \A m \in Attempts : runs'[m] = runs[m] \/ runs'[m].pc = "done"
    BY <1>0, <1>4, CrashRuns
  <2>3. QED
    BY <1>0, <2>1, <2>2 DEF OnlyBoundCondemned, PreBind, Acting
<1>5. ASSUME Quiet, DbQuiet
      PROVE  OnlyBoundCondemned'
  <2>1. job'.sandbox \in {0, job.sandbox} /\ 0 \notin Attempts
    BY <1>0, <1>5 DEF DbQuiet, UnchangedDb, DbStatus, DbClose, DbInterrupt,
       DbReconcile, SetJob, TypeOK, Attempts
  <2>2. \A m \in Attempts : m \in condemned' => m \in condemned \/ m = job.sandbox
    BY <1>5 DEF Quiet
  <2>3. QED
    BY <1>0, <1>5, <2>1, <2>2, QuietNone DEF Quiet, OnlyBoundCondemned
<1>6. QED
  BY <1>0, <1>2, <1>3, <1>4, <1>5, QuietShape, QuietDb
-----------------------------------------------------------------------------
(***************************************************************************)
(* Who may act for an Attempt.                                             *)
(***************************************************************************)

\* In this step run m gains nothing on Attempt a.
Tame(m, a) ==
    runs'[m].attempt = a =>
       \/ /\ sandboxes'[m] = "none"
          /\ runs'[m].pc \notin Acting \cup {"preparing", "bound", "agent"}
       \/ /\ runs[m].attempt = a
          /\ runs'[m].pc \in Acting => runs[m].pc \in Acting
          /\ runs'[m].pc = "preparing" => runs[m].pc = "preparing"
          /\ runs'[m].pc \in {"bound", "agent"} => runs[m].pc \in {"bound", "agent"}
          /\ sandboxes'[m] # "none" => sandboxes[m] # "none" \/ runs[m].pc \in Acting

LEMMA TameKeeps ==
    ASSUME NEW a \in Attempts, OneActorOf(a), \A m \in Attempts : Tame(m, a),
           attempts'[a].phase = attempts[a].phase,
           job.status = "provisioning" => job'.status = "provisioning"
    PROVE  OneActorOf(a)'
<1>1. CASE attempts[a].phase = "preparing"
  BY <1>1 DEF OneActorOf, Tame
<1>2. CASE attempts[a].phase = "provision.effect_pending"
  BY <1>2 DEF OneActorOf, Tame
<1>3. CASE attempts[a].phase \notin {"preparing", "provision.effect_pending"}
  BY <1>3 DEF OneActorOf, Tame
<1>4. QED
  BY <1>1, <1>2, <1>3

\* A run gains on its Attempt by the start of the provisioning, by the intent and
\* by the binding only.
LEMMA RunTame ==
    ASSUME TypeOK, NEW n \in Attempts, KnownRun(runs[n], sandboxes[n]), RunStep(n),
           NEW a,
           ~(StartProvisioning(n) /\ runs'[n].pc = "preparing"),
           ~(BeginProvision(n) /\ runs'[n].pc = "admitted"),
           ~(Bind(n) /\ runs'[n].pc = "bound")
    PROVE  Tame(n, a)
<1>0. runs[n] \in RunRow
  BY DEF TypeOK, RunRow
<1>1. CASE ReadAttempt(n)
  BY <1>1 DEF ReadAttempt, GoTo, Throw, Escape, UnchangedWorld, TypeOK, KnownRun, Acting, Tame
<1>2. CASE StartProvisioning(n)
  BY <1>2 DEF StartProvisioning, GoTo, Throw, Escape, UnchangedWorld, TypeOK, KnownRun, Acting, Tame
<1>3. CASE BeginProvision(n)
  BY <1>3 DEF BeginProvision, GoTo, Throw, Escape, UnchangedWorld, TypeOK, KnownRun, Acting, Tame
<1>4. CASE CallProvision(n)
  BY <1>4 DEF CallProvision, GoTo, Throw, Escape, UnchangedWorld, TypeOK, KnownRun, Acting, Tame
<1>5. CASE FailBeforeProvision(n)
  BY <1>5 DEF FailBeforeProvision, GoTo, Throw, Escape, UnchangedWorld, TypeOK, KnownRun, Acting, Tame
<1>6. CASE ProvisionResolves(n)
  BY <1>6 DEF ProvisionResolves, GoTo, Throw, Escape, UnchangedWorld, TypeOK, KnownRun, Acting, Tame
<1>7. CASE ProvisionFails(n)
  BY <1>7 DEF ProvisionFails, GoTo, Throw, Escape, UnchangedWorld, TypeOK, KnownRun, Acting, Tame
<1>8. CASE SettleFailedProvision(n)
  BY <1>8 DEF SettleFailedProvision, GoTo, Throw, Escape, UnchangedWorld, TypeOK, KnownRun, Acting, Tame
<1>9. CASE Bind(n)
  BY <1>9 DEF Bind, GoTo, Throw, Escape, UnchangedWorld, TypeOK, KnownRun, Acting, Tame
<1>10. CASE BeginAgentRun(n)
  BY <1>10 DEF BeginAgentRun, GoTo, Throw, Escape, UnchangedWorld, TypeOK, KnownRun, Acting, Tame
<1>11. CASE AgentDone(n)
  BY <1>11 DEF AgentDone, Finalize, GoTo, Throw, Escape, UnchangedWorld, TypeOK, KnownRun, Acting, Tame
<1>12. CASE AgentAsksHuman(n)
  BY <1>12 DEF AgentAsksHuman, GoTo, Throw, Escape, UnchangedWorld, TypeOK, KnownRun, Acting, Tame
<1>13. CASE AgentExits(n)
  BY <1>13 DEF AgentExits, GoTo, Throw, Escape, UnchangedWorld, TypeOK, KnownRun, Acting, Tame
<1>14. CASE ReadStatus(n)
  BY <1>14 DEF ReadStatus, GoTo, Throw, Escape, UnchangedWorld, TypeOK, KnownRun, Acting, Tame
<1>15. CASE FallbackDone(n)
  BY <1>15 DEF FallbackDone, Finalize, GoTo, Throw, Escape, UnchangedWorld, TypeOK, KnownRun, Acting, Tame
<1>16. CASE Throws(n)
  BY <1>16 DEF Throws, GoTo, Throw, Escape, UnchangedWorld, TypeOK, KnownRun, Acting, Tame
<1>17. CASE CatchError(n)
  BY <1>17 DEF CatchError, GoTo, Throw, Escape, UnchangedWorld, TypeOK, KnownRun, Acting, Tame
<1>18. CASE RetryProvisioning(n)
  BY <1>18 DEF RetryProvisioning, GoTo, Throw, Escape, UnchangedWorld, TypeOK, KnownRun, Acting, Tame
<1>19. CASE RetryExecution(n)
  BY <1>19 DEF RetryExecution, GoTo, Throw, Escape, UnchangedWorld, TypeOK, KnownRun, Acting, Tame
<1>20. CASE FailRun(n)
  BY <1>20 DEF FailRun, GoTo, Throw, Escape, UnchangedWorld, TypeOK, KnownRun, Acting, Tame
<1>21. CASE Finally(n)
  BY <1>21 DEF Finally, GoTo, Throw, Escape, UnchangedWorld, TypeOK, KnownRun, Acting, Tame
<1>22. QED
  BY <1>1, <1>2, <1>3, <1>4, <1>5, <1>6, <1>7, <1>8, <1>9, <1>10, <1>11, <1>12, <1>13, <1>14, <1>15, <1>16, <1>17, <1>18, <1>19, <1>20, <1>21 DEF RunStep

LEMMA ActorStep ==
    ASSUME IInv, TypeOK', [Next]_vars, DbShape
    PROVE  OneActor'
<1>0. TypeOK /\ RunsKnown /\ OneActor /\ AttemptFollowsJob /\ BlankRows
  BY DEF IInv
<1>1. \A m \in Attempts : runs[m].attempt # latest + 1
  <2>1. latest \in Nat /\ \A m \in Attempts : runs[m].attempt \in Nat
    BY <1>0, BoundsAssumption DEF TypeOK
  <2>2. QED
    BY <1>0, <2>1 DEF RunsKnown
<1>2. ASSUME ActiveAttempts' = {} \/ ActiveAttempts' = ActiveAttempts,
             \A a \in ActiveAttempts : \A m \in Attempts : Tame(m, a),
             ActiveAttempts' # {} => /\ attempts' = attempts
                                     /\ job.status = "provisioning"
                                           => job'.status = "provisioning"
      PROVE  OneActor'
  BY <1>0, <1>2, TameKeeps, ActiveInAttempts DEF OneActor
<1>3. ASSUME NEW n \in Attempts, Claim(n)
      PROVE  OneActor'
  <2>1. /\ \A m \in Attempts \ {n} : runs'[m] = runs[m]
        /\ sandboxes' = sandboxes /\ runs'[n].attempt = 0 /\ n # 0
    BY <1>3, ClaimIdle DEF Attempts
  <2>2. /\ ActiveAttempts' = {n}
        /\ n \notin ActiveAttempts => n = latest + 1 /\ attempts'[n] = NewRow
        /\ n \in ActiveAttempts => attempts'[n] = attempts[n]
        /\ job.status = "pending"
    BY <1>0, <1>3, ClaimRows DEF Claim, DbClaim, NextAttempt
  <2>3. CASE n \in ActiveAttempts
    <3>1. \A m \in Attempts : Tame(m, n)
      BY <2>1 DEF Tame
    <3>2. QED
      BY <1>0, <2>2, <2>3, <3>1, TameKeeps DEF OneActor
  <2>4. CASE n \notin ActiveAttempts
    <3>1. \A m \in Attempts : runs'[m].attempt # n
      BY <1>1, <2>1, <2>2, <2>4
    <3>2. attempts'[n].phase = "preparing"
      BY <2>2, <2>4 DEF NewRow, NoRow
    <3>3. QED
      BY <2>2, <3>1, <3>2 DEF OneActor, OneActorOf
  <2>5. QED
    BY <2>3, <2>4
<1>4. CASE Crash
  <2>1. \A m \in Attempts, a \in ActiveAttempts : Tame(m, a)
    BY <1>0, <1>4, CrashRuns DEF Tame, Acting
  <2>2. ActiveAttempts' = ActiveAttempts /\ attempts' = attempts /\ job' = job
    BY <1>4 DEF Crash, UnchangedDb, ActiveAttempts
  <2>3. QED
    BY <1>2, <2>1, <2>2
<1>5. ASSUME UnchangedDb \/ DbStatus \/ DbClose \/ DbInterrupt \/ DbReconcile
      PROVE  /\ ActiveAttempts' = {} \/ ActiveAttempts' = ActiveAttempts
             /\ ActiveAttempts' # {} => /\ attempts' = attempts
                                        /\ job.status = "provisioning"
                                              => job'.status = "provisioning"
  <2>1. CASE UnchangedDb \/ DbReconcile
    BY <2>1 DEF UnchangedDb, DbReconcile, ActiveAttempts
  <2>2. CASE DbStatus
    BY <2>2 DEF DbStatus, ActiveAttempts
  <2>3. CASE DbClose
    BY <1>0, <2>3, SettleActive DEF DbClose, Terminal, ClosedStatuses
  <2>4. CASE DbInterrupt
    BY <1>0, <2>4, InterruptActive DEF DbInterrupt
  <2>5. QED
    BY <1>5, <2>1, <2>2, <2>3, <2>4
<1>6. ASSUME Quiet, DbQuiet
      PROVE  OneActor'
  <2>1. \A m \in Attempts, a \in ActiveAttempts : Tame(m, a)
    BY <1>6, QuietNone DEF Quiet, Tame
  <2>2. QED
    BY <1>2, <1>5, <1>6, <2>1 DEF DbQuiet
<1>7. ASSUME NEW n \in Attempts, RunStep(n)
      PROVE  OneActor'
  <2> DEFINE a == runs[n].attempt
  <2>1. RunFrame(n) /\ KnownRun(runs[n], sandboxes[n]) /\ runs[n] \in RunRow
    BY <1>0, <1>7, RunFrames DEF RunsKnown, TypeOK, RunRow
  <2>2. \A m \in Attempts \ {n}, b \in ActiveAttempts : Tame(m, b)
    BY <2>1 DEF RunFrame, Tame
  <2>3. CASE StartProvisioning(n) /\ runs'[n].pc = "preparing"
    <3>1. /\ job.status = "claimed" /\ job'.status = "provisioning"
          /\ UNCHANGED <<attempts, sandboxes>> /\ ActiveAttempts' = ActiveAttempts
          /\ runs'[n].attempt = a /\ sandboxes[n] = "none" /\ runs[n].pc = "preflight"
      BY <1>0, <2>1, <2>3
      DEF StartProvisioning, GoTo, SetJob, JobTransitions, UnchangedWorld,
          ActiveAttempts, KnownRun, TypeOK
    <3>2. ASSUME NEW b \in ActiveAttempts
          PROVE  OneActorOf(b)'
      <4>1. attempts[b].phase # "provision.effect_pending"
        BY <1>0, <3>1 DEF OneActor, OneActorOf
      <4>2. attempts[b].phase = "preparing" =>
               \A m \in Attempts : runs[m].attempt = b => runs[m].pc # "preparing"
        BY <1>0, <3>1 DEF OneActor, OneActorOf
      <4>3. \A m \in Attempts \ {n} : runs'[m] = runs[m]
        BY <2>1 DEF RunFrame
      <4>4. OneActorOf(b)
        BY <1>0 DEF OneActor
      <4>5. QED
        BY <2>3, <3>1, <4>1, <4>2, <4>3, <4>4 DEF OneActorOf, Acting
    <3>3. QED
      BY <3>1, <3>2 DEF OneActor
  <2>4. CASE DbRun(n) /\ OwnerStep(n)
    <3>1. /\ a \in ActiveAttempts /\ a = latest /\ a \in Attempts
          /\ ActiveAttempts' = {a} /\ OneActorOf(a)
          /\ \A m \in Attempts \ {n} : runs'[m] = runs[m] /\ sandboxes'[m] = sandboxes[m]
      BY <1>0, <2>1, <2>4, DbRunRows, ActiveInAttempts
      DEF AttemptFollowsJob, OneActor, RunFrame
    <3>2. CASE DbPhase(n, "preparing", "preparing", "provision.effect_pending",
                       "effect_pending")
      <4>1. /\ runs[n].pc = "preparing" /\ attempts[a].phase = "preparing"
            /\ attempts'[a].phase = "provision.effect_pending"
            /\ job.status = "provisioning" /\ job' = job
        BY <1>0, <3>1, <3>2 DEF DbPhase, OwnsProvisioning, TypeOK
      <4>2. BeginProvision(n)
        BY <2>4, <4>1 DEF OwnerStep, SettleFailedProvision, Bind, BeginAgentRun
      <4>3. /\ runs'[n].pc = "admitted" /\ runs'[n].attempt = a
            /\ sandboxes' = sandboxes
        BY <1>0, <2>1, <3>1, <4>1, <4>2
        DEF BeginProvision, OwnsProvisioning, GoTo, UnchangedWorld, TypeOK
      <4>4. QED
        BY <3>1, <4>1, <4>3 DEF OneActor, OneActorOf, Acting
    <3>3. CASE \/ DbPhase(n, "unsettled", "provision.effect_pending", "unknown",
                          "unknown")
               \/ DbPhase(n, "unsettled", "provision.effect_pending", "settling",
                          "never_started")
      <4>1. /\ runs[n].pc = "unsettled" /\ attempts[a].phase = "provision.effect_pending"
            /\ attempts'[a].phase \notin {"preparing", "provision.effect_pending"}
        BY <1>0, <3>1, <3>3 DEF DbPhase, OwnsProvisioning, TypeOK
      <4>2. runs'[n].pc \notin Acting
        BY <1>0, <2>4, <4>1
        DEF OwnerStep, BeginProvision, SettleFailedProvision, Bind, BeginAgentRun,
            GoTo, TypeOK, Acting
      <4>3. QED
        BY <3>1, <4>1, <4>2 DEF OneActor, OneActorOf, Acting
    <3>4. CASE DbBind(n)
      <4>1. /\ runs[n].pc = "created" /\ attempts[a].phase = "provision.effect_pending"
            /\ attempts'[a].phase = "provisioned"
        BY <1>0, <3>1, <3>4 DEF DbBind, OwnsProvisioning, TypeOK
      <4>2. runs'[n].pc \notin Acting
        BY <1>0, <2>4, <4>1
        DEF OwnerStep, BeginProvision, SettleFailedProvision, Bind, BeginAgentRun,
            GoTo, TypeOK, Acting
      <4>3. QED
        BY <3>1, <4>1, <4>2 DEF OneActor, OneActorOf, Acting
    <3>5. CASE DbAgent(n)
      <4>1. /\ runs[n].pc = "bound" /\ attempts'[a].phase = "agent.effect_pending"
        BY <1>0, <3>1, <3>5 DEF DbAgent, TypeOK
      <4>2. runs'[n].pc \notin Acting
        BY <1>0, <2>4, <4>1
        DEF OwnerStep, BeginProvision, SettleFailedProvision, Bind, BeginAgentRun,
            GoTo, Throw, Escape, TypeOK, Acting
      <4>3. attempts[a].phase \notin {"preparing", "provision.effect_pending"}
        BY <3>1, <4>1 DEF OneActorOf
      <4>4. QED
        BY <3>1, <4>1, <4>2, <4>3 DEF OneActor, OneActorOf, Acting
    <3>6. QED
      BY <2>4, <3>2, <3>3, <3>4, <3>5 DEF DbRun
  <2>5. CASE /\ ~(StartProvisioning(n) /\ runs'[n].pc = "preparing")
             /\ UnchangedDb \/ DbStatus \/ DbClose
    <3>1. ~(BeginProvision(n) /\ runs'[n].pc = "admitted")
      <4>1. SUFFICES ASSUME BeginProvision(n), runs'[n].pc = "admitted"
                     PROVE  FALSE
        OBVIOUS
      <4>2. attempts' # attempts
        BY <1>0, <4>1
        DEF BeginProvision, OwnsProvisioning, GoTo, ActiveAttempts, TypeOK
      <4>3. DbClose
        BY <2>5, <4>2 DEF UnchangedDb, DbStatus
      <4>4. QED
        BY <1>0, <4>1, <4>3 DEF BeginProvision, DbClose, SetJob, Terminal, Owned, TypeOK,
           OwnsProvisioning
    <3>2. ~(Bind(n) /\ runs'[n].pc = "bound")
      BY <1>0, <2>5 DEF Bind, GoTo, UnchangedDb, DbStatus, DbClose, SetJob, Terminal,
         TypeOK, OwnsProvisioning
    <3>3. \A b \in ActiveAttempts : Tame(n, b)
      BY <1>0, <1>7, <2>1, <2>5, <3>1, <3>2, RunTame
    <3>4. QED
      BY <1>2, <1>5, <2>2, <2>5, <3>3
  <2>6. CASE DbRetry
    <3>1. ActiveAttempts' = {latest + 1} /\ attempts'[latest + 1] = NewRow
      BY <1>0, <2>6, RetryActive DEF DbRetry
    <3>2. \A m \in Attempts : runs'[m].attempt # latest + 1
      <4>1. latest + 1 \notin ActiveAttempts
        BY <1>0, BoundsAssumption DEF AttemptFollowsJob, TypeOK
      <4>2. QED
        BY <1>1, <2>1, <4>1 DEF RunFrame
    <3>3. QED
      BY <3>1, <3>2 DEF OneActor, OneActorOf, NewRow, NoRow
  <2>7. QED
    BY <1>0, <1>7, <2>3, <2>4, <2>5, <2>6, RunShape
<1>8. QED
  BY <1>0, <1>3, <1>4, <1>6, <1>7, QuietShape, QuietDb
-----------------------------------------------------------------------------
(***************************************************************************)
(* What provisions.                                                        *)
(***************************************************************************)

\* Only the call of the provider takes a run's sandbox out of "none".
LEMMA NoneStays ==
    ASSUME TypeOK, NEW n \in Attempts, KnownRun(runs[n], sandboxes[n]), RunStep(n),
           ~CallProvision(n), sandboxes[n] = "none"
    PROVE  sandboxes'[n] = "none"
BY DEF RunStep, ReadAttempt, StartProvisioning, BeginProvision,
       FailBeforeProvision, ProvisionResolves, ProvisionFails,
       SettleFailedProvision, Bind, BeginAgentRun, AgentDone, AgentAsksHuman,
       AgentExits, ReadStatus, FallbackDone, Throws, CatchError,
       RetryProvisioning, RetryExecution, FailRun, Finally, UnchangedWorld,
       KnownRun, TypeOK

\* A run gets to the call by the intent only.
LEMMA AdmittedByIntent ==
    ASSUME TypeOK, NEW n \in Attempts, RunStep(n), ~BeginProvision(n),
           ~CallProvision(n)
    PROVE  runs'[n].pc \notin {"admitted", "creating"}
BY SMTT(60) DEF RunStep, ReadAttempt, StartProvisioning, FailBeforeProvision,
       ProvisionResolves, ProvisionFails, SettleFailedProvision, Bind,
       BeginAgentRun, AgentDone, AgentAsksHuman, AgentExits, ReadStatus,
       FallbackDone, Finalize, Throws, CatchError, RetryProvisioning,
       RetryExecution, FailRun, Finally, GoTo, Throw, Escape, TypeOK

\* What runs may do at all, seen from a provision proved not to have started.
NotCalled(n) == sandboxes[n] = "none" /\ runs[n].pc \notin {"admitted", "creating"}

\* A provision is proved not to have started only by the run that owns it.
LEMMA NeverStartedOrigin ==
    ASSUME IInv, TypeOK', DbShape, NEW a \in Attempts,
           effects'[a]["provision"] = "never_started",
           effects[a]["provision"] # "never_started"
    PROVE  \E n \in Attempts :
              /\ DbPhase(n, "unsettled", "provision.effect_pending", "settling",
                         "never_started")
              /\ a = runs[n].attempt
<1>0. TypeOK
  BY DEF IInv
<1>1. ~UnchangedDb /\ ~DbStatus /\ ~\E n \in Attempts : DbClaim(n)
  BY DEF UnchangedDb, DbStatus, DbClaim
<1>2. \A status : CloseActiveEffects(status)[a]["provision"]
                     \in {effects[a]["provision"], "unknown"}
  BY <1>0, ClosedEffectsAt DEF EffectKinds
<1>3. ~DbClose /\ ~DbInterrupt /\ ~DbRetry
  BY <1>2 DEF DbClose, DbInterrupt, DbRetry, SettleAttemptTerminal,
     MarkAttemptInterrupted, CloseAndCreate
<1>4. ~DbReconcile
  BY DEF DbReconcile, EffectKinds
<1>5. PICK n \in Attempts : DbRun(n)
  BY <1>1, <1>3, <1>4 DEF DbShape, DbQuiet
<1>6. a = runs[n].attempt
  BY <1>0, <1>5, DbRunRows
<1>7. ~DbAgent(n) /\ ~DbBind(n)
  <2>1. effects[a] \in [EffectKinds -> EffectStatuses]
        /\ "provision" \in EffectKinds
    BY <1>0 DEF TypeOK, EffectKinds
  <2>2. ASSUME DbAgent(n)
        PROVE  effects'[a]["provision"] = effects[a]["provision"]
    BY <1>0, <1>6, <2>1, <2>2 DEF DbAgent, TypeOK
  <2>3. ASSUME DbBind(n)
        PROVE  effects'[a]["provision"] = "settled"
    BY <1>0, <1>6, <2>1, <2>3 DEF DbBind, TypeOK
  <2>4. QED
    BY <2>2, <2>3
<1>8. \A pc, from, phase, effect :
         DbPhase(n, pc, from, phase, effect) => effect = "never_started"
  BY <1>0, <1>6 DEF DbPhase, EffectKinds, TypeOK
<1>9. QED
  BY <1>5, <1>6, <1>7, <1>8 DEF DbRun

LEMMA NeverStartedStep ==
    ASSUME IInv, TypeOK', [Next]_vars, DbShape
    PROVE  NeverStartedIsProof'
<1>0. TypeOK /\ RunsKnown /\ OneActor /\ PhaseTellsEffects /\ NeverStartedIsProof
  BY DEF IInv
<1> SUFFICES ASSUME NEW a \in Attempts, NEW n \in Attempts,
                    effects'[a]["provision"] = "never_started",
                    runs'[n].attempt = a
             PROVE  NotCalled(n)'
  BY DEF NeverStartedIsProof, NotCalled
<1>1. KnownRun(runs[n], sandboxes[n])
  BY <1>0 DEF RunsKnown
<1>2. CASE effects[a]["provision"] # "never_started"
  <2>1. PICK m \in Attempts :
           /\ DbPhase(m, "unsettled", "provision.effect_pending", "settling",
                      "never_started")
           /\ a = runs[m].attempt
    BY <1>2, NeverStartedOrigin
  <2>2. /\ runs[m].pc = "unsettled" /\ a \in ActiveAttempts /\ a = latest
        /\ attempts[a].phase = "provision.effect_pending"
        /\ job.status = "provisioning" /\ job' = job
        /\ attempts'[a].phase = "settling" /\ attempts'[a].status = "active"
    BY <1>0, <2>1 DEF DbPhase, OwnsProvisioning, ActiveAttempts, TypeOK
  <2>3. SettleFailedProvision(m)
    <3>1. attempts' # attempts
      BY <2>2
    <3>2. ~\E k \in Attempts : Claim(k)
      BY <2>2 DEF Claim
    <3>3. ~DbQuiet
      BY <1>0, <2>2, <3>1, SettleActive, InterruptActive
      DEF DbQuiet, UnchangedDb, DbStatus, DbReconcile, DbClose, DbInterrupt, Terminal,
          ClosedStatuses, ActiveAttempts
    <3>4. PICK k \in Attempts : RunStep(k)
      BY <1>0, <3>2, <3>3, QuietDb
    <3>5. DbRun(k) /\ OwnerStep(k)
      <4>1. ~UnchangedDb /\ ~DbStatus /\ ~DbClose
        BY <3>3 DEF DbQuiet
      <4>2. ~DbRetry
        BY <2>2 DEF DbRetry, ResetJob
      <4>3. QED
        BY <1>0, <3>4, <4>1, <4>2, RunShape
    <3>6. runs[k].attempt = a
      BY <1>0, <2>2, <3>5, DbRunRows
    <3>7. SettleFailedProvision(k)
      BY <1>0, <2>2, <3>5, <3>6
      DEF OwnerStep, BeginProvision, Bind, BeginAgentRun, OwnsProvisioning, TypeOK
    <3>8. k = m
      BY <1>0, <2>1, <2>2, <3>6, <3>7
      DEF OneActor, OneActorOf, SettleFailedProvision, Acting
    <3>9. QED
      BY <3>7, <3>8
  <2>4. /\ sandboxes' = sandboxes /\ sandboxes[m] = "none" /\ runs'[m].pc = "error"
        /\ \A k \in Attempts \ {m} : runs'[k] = runs[k]
    BY <1>0, <2>1, <2>2, <2>3, <1>2
    DEF SettleFailedProvision, ProvisionAttempted, GoTo, UnchangedWorld, TypeOK,
        EffectKinds
  <2>5. n # m => runs[n].pc \notin Acting /\ sandboxes[n] = "none"
    <3>1. OneActorOf(a) /\ (n # m => runs[n].attempt = a)
      BY <1>0, <2>2, <2>4 DEF OneActor
    <3>2. QED
      BY <2>1, <2>2, <3>1 DEF OneActorOf, Acting
  <2>6. QED
    BY <2>4, <2>5 DEF NotCalled, Acting
<1>3. CASE effects[a]["provision"] = "never_started"
  <2>1. ASSUME runs[n].attempt = a
        PROVE  NotCalled(n)
    BY <1>0, <1>3, <2>1 DEF NeverStartedIsProof, NotCalled
  <2>2. CASE RunStep(n)
    <3>1. ~CallProvision(n) /\ (BeginProvision(n) => runs'[n].pc # "admitted")
      <4>1. CallProvision(n) \/ BeginProvision(n)
               => runs'[n].attempt = runs[n].attempt
        BY <1>0 DEF CallProvision, BeginProvision, GoTo, TypeOK
      <4>2. runs[n].attempt = a => attempts[a].phase = "settling" \/ a \notin ActiveAttempts
        BY <1>0, <1>3 DEF PhaseTellsEffects
      <4>3. QED
        BY <1>0, <4>1, <4>2
        DEF CallProvision, BeginProvision, OwnsProvisioning, GoTo, TypeOK
    <3>2. sandboxes'[n] = "none"
      <4>1. sandboxes[n] = "none"
        <5>1. CASE runs[n].attempt = a
          BY <2>1, <5>1 DEF NotCalled
        <5>2. CASE runs[n].attempt # a
          BY <1>0, <1>1, <2>2, <5>2, RunFrames DEF RunFrame, KnownRun
        <5>3. QED
          BY <5>1, <5>2
      <4>2. QED
        BY <1>0, <1>1, <2>2, <3>1, <4>1, NoneStays
    <3>3. runs'[n].pc \notin {"admitted", "creating"}
      <4>1. BeginProvision(n) => runs'[n].pc \in {"admitted", "finally"}
        BY <1>0 DEF BeginProvision, GoTo, TypeOK
      <4>2. QED
        BY <1>0, <2>2, <3>1, <4>1, AdmittedByIntent
    <3>4. QED
      BY <3>2, <3>3 DEF NotCalled
  <2>3. ASSUME NEW m \in Attempts \ {n}, RunStep(m)
        PROVE  NotCalled(n)'
    BY <1>0, <2>1, <2>3, RunFrames DEF RunFrame, NotCalled
  <2>4. ASSUME NEW m \in Attempts, Claim(m)
        PROVE  NotCalled(n)'
    <3>1. n # m
      BY <2>4, ClaimIdle DEF Attempts
    <3>2. QED
      BY <2>1, <2>4, <3>1, ClaimIdle DEF NotCalled
  <2>5. CASE Crash
    BY <1>0, <2>1, <2>5, CrashRuns DEF NotCalled
  <2>6. CASE Quiet
    BY <2>1, <2>6, QuietNone DEF Quiet, NotCalled
  <2>7. QED
    BY <1>0, <2>2, <2>3, <2>4, <2>5, <2>6, QuietShape
<1>4. QED
  BY <1>2, <1>3

\* Only one of the runs that read an Attempt provisions for it.
LEMMA OneExecutionStep ==
    ASSUME IInv, TypeOK', [Next]_vars
    PROVE  OneExecutionPerAttempt'
<1>0. TypeOK /\ RunsKnown /\ OneActor /\ OneExecutionPerAttempt
  BY DEF IInv
<1> DEFINE Apart(m, n) ==
             runs[m].attempt = runs[n].attempt /\ runs[m].attempt # 0
                => sandboxes[m] = "none" \/ sandboxes[n] = "none"
<1>1. ASSUME NEW n \in Attempts, RunStep(n), NEW m \in Attempts \ {n}
      PROVE  Apart(m, n)'
  <2>1. RunFrame(n) /\ KnownRun(runs[n], sandboxes[n]) /\ Apart(m, n)
    BY <1>0, <1>1, RunFrames DEF RunsKnown, OneExecutionPerAttempt
  <2>2. runs'[m] = runs[m] /\ sandboxes'[m] = sandboxes[m]
    BY <2>1 DEF RunFrame
  <2>3. CASE CallProvision(n)
    <3>1. /\ runs[n].attempt \in ActiveAttempts /\ runs[n].pc = "admitted"
          /\ attempts[runs[n].attempt].phase = "provision.effect_pending"
          /\ runs'[n].attempt = runs[n].attempt
      BY <1>0, <2>3 DEF CallProvision, OwnsProvisioning, GoTo, TypeOK
    <3>2. runs[m].attempt = runs[n].attempt => sandboxes[m] = "none"
      BY <1>0, <1>1, <3>1 DEF OneActor, OneActorOf, Acting
    <3>3. QED
      BY <2>2, <3>1, <3>2
  <2>4. CASE ~CallProvision(n)
    <3>1. sandboxes[n] = "none" => sandboxes'[n] = "none"
      BY <1>0, <1>1, <2>1, <2>4, NoneStays
    <3>2. runs'[n].attempt = runs[n].attempt \/ sandboxes[n] = "none"
      BY <2>1 DEF RunFrame, KnownRun
    <3>3. QED
      BY <2>1, <2>2, <3>1, <3>2
  <2>5. QED
    BY <2>3, <2>4
<1>2. ASSUME NEW n \in Attempts, RunStep(n)
      PROVE  OneExecutionPerAttempt'
  <2>1. \A m \in Attempts \ {n} : runs'[m] = runs[m] /\ sandboxes'[m] = sandboxes[m]
    BY <1>0, <1>2, RunFrames DEF RunFrame
  <2>2. QED
    BY <1>0, <1>1, <1>2, <2>1 DEF OneExecutionPerAttempt
<1>3. ASSUME NEW n \in Attempts, Claim(n)
      PROVE  OneExecutionPerAttempt'
  BY <1>0, <1>3, ClaimIdle DEF OneExecutionPerAttempt
<1>4. CASE Crash
  BY <1>0, <1>4, CrashRuns DEF OneExecutionPerAttempt
<1>5. CASE Quiet
  BY <1>0, <1>5, QuietNone DEF Quiet, OneExecutionPerAttempt
<1>6. QED
  BY <1>0, <1>2, <1>3, <1>4, <1>5, QuietShape
-----------------------------------------------------------------------------
(***************************************************************************)
(* The sandbox of a running Job.                                           *)
(***************************************************************************)

\* An Attempt a run was given before and that is active after a step was active.
LEMMA WasActive ==
    ASSUME IInv, TypeOK', DbShape, NEW a \in ActiveAttempts', a <= latest
    PROVE  a \in ActiveAttempts
<1>0. TypeOK /\ BlankRows /\ AttemptFollowsJob
  BY DEF IInv
<1>1. latest \in Nat
  BY <1>0, BoundsAssumption DEF TypeOK
<1>2. CASE UnchangedDb \/ DbStatus \/ DbReconcile
  BY <1>2 DEF UnchangedDb, DbStatus, DbReconcile, ActiveAttempts
<1>3. CASE DbClose
  BY <1>0, <1>3, SettleActive DEF DbClose, Terminal, ClosedStatuses
<1>4. CASE DbInterrupt
  BY <1>0, <1>4, InterruptActive DEF DbInterrupt
<1>5. CASE DbRetry
  BY <1>0, <1>1, <1>5, RetryActive DEF DbRetry
<1>6. ASSUME NEW n \in Attempts, DbClaim(n)
      PROVE  a \in ActiveAttempts
  BY <1>0, <1>1, <1>6, ClaimRows
<1>7. ASSUME NEW n \in Attempts, DbRun(n)
      PROVE  a \in ActiveAttempts
  BY <1>0, <1>7, DbRunRows
<1>8. QED
  BY <1>2, <1>3, <1>4, <1>5, <1>6, <1>7 DEF DbShape, DbQuiet

\* A sandbox that was handed over lives until it is bound or given up.
LEMMA CreatedStep ==
    ASSUME IInv, TypeOK', [Next]_vars, DbShape
    PROVE  CreatedIsAlive'
<1>0. TypeOK /\ RunsKnown /\ OneActor /\ CreatedIsAlive /\ OnlyBoundCondemned
      /\ AttemptFollowsJob
  BY DEF IInv
<1> SUFFICES ASSUME NEW n \in Attempts, runs'[n].pc = "created",
                    runs'[n].attempt \in ActiveAttempts'
             PROVE  sandboxes'[n] = "alive"
  BY DEF CreatedIsAlive
<1>1. CASE RunStep(n)
  <2>1. CASE ReadAttempt(n) \/ StartProvisioning(n) \/ BeginProvision(n) \/
            CallProvision(n) \/ FailBeforeProvision(n)
    BY <1>0, <2>1
    DEF ReadAttempt, StartProvisioning, BeginProvision, CallProvision,
        FailBeforeProvision, GoTo, Throw, Escape, TypeOK
  <2>2. CASE ProvisionResolves(n)
    BY <1>0, <2>2
    DEF ProvisionResolves, GoTo, Throw, Escape, TypeOK
  <2>3. CASE ProvisionFails(n) \/ SettleFailedProvision(n) \/ Bind(n)
    BY <1>0, <2>3
    DEF ProvisionFails, SettleFailedProvision, Bind, GoTo, Throw, Escape, TypeOK
  <2>4. CASE BeginAgentRun(n) \/ AgentDone(n) \/ AgentAsksHuman(n) \/ AgentExits(n)
            \/ ReadStatus(n) \/ FallbackDone(n)
    BY <1>0, <2>4
    DEF BeginAgentRun, AgentDone, AgentAsksHuman, AgentExits, ReadStatus,
        FallbackDone, Finalize, GoTo, Throw, Escape, TypeOK
  <2>5. CASE Throws(n) \/ CatchError(n) \/ RetryProvisioning(n) \/
            RetryExecution(n) \/ FailRun(n) \/ Finally(n)
    BY <1>0, <2>5
    DEF Throws, CatchError, RetryProvisioning, RetryExecution, FailRun,
        Finally, GoTo, Throw, Escape, TypeOK
  <2> QED
    BY <1>1, <2>1, <2>2, <2>3, <2>4, <2>5 DEF RunStep
<1>2. ASSUME runs'[n] = runs[n]
      PROVE  sandboxes[n] = "alive" /\ runs[n].attempt \in ActiveAttempts
  BY <1>0, <1>2, WasActive DEF RunsKnown, CreatedIsAlive
<1>3. ASSUME NEW m \in Attempts \ {n}, RunStep(m)
      PROVE  sandboxes'[n] = "alive"
  BY <1>0, <1>2, <1>3, RunFrames DEF RunFrame
<1>4. ASSUME NEW m \in Attempts, Claim(m)
      PROVE  sandboxes'[n] = "alive"
  BY <1>2, <1>4, ClaimIdle
<1>5. CASE Crash
  BY <1>0, <1>5, CrashRuns
<1>6. CASE Quiet
  <2>1. sandboxes[n] = "alive" /\ runs[n].attempt \in ActiveAttempts
        /\ runs[n].pc = "created"
    BY <1>2, <1>6 DEF Quiet
  <2>2. n \notin condemned
    BY <1>0, <2>1 DEF OnlyBoundCondemned, PreBind, Acting
  <2>3. attempts[runs[n].attempt].phase = "provision.effect_pending"
    BY <1>0, <2>1 DEF OneActor, OneActorOf, Acting
  <2>4. job.status = "provisioning"
    BY <1>0, <2>1, <2>3 DEF OneActor, OneActorOf
  <2>5. Wanted(n) /\ job.status # "waiting_human"
    BY <2>1, <2>4 DEF Wanted, Owned
  <2>6. QED
    BY <1>6, <2>1, <2>2, <2>5 DEF Quiet
<1>7. QED
  BY <1>0, <1>1, <1>3, <1>4, <1>5, <1>6, QuietShape

\* The run of a running Job, with the Attempt of the Job, gets to its cleanup
\* before the Job has left the status only by an error it could not write down.
LEMMA RunnerStays ==
    ASSUME TypeOK, NEW n \in Attempts, RunStep(n), job.status = "running",
           job'.status = "running", runs[n].attempt = latest,
           runs[n].pc \notin PreBind, ~Finally(n)
    PROVE  /\ runs'[n].attempt = latest
           /\ runs'[n].pc = "finally" => runs'[n].error = "uncaught"
           /\ sandboxes'[n] = sandboxes[n]
<1>1. CASE AgentDone(n) \/ FallbackDone(n)
  BY <1>1 DEF AgentDone, FallbackDone, Finalize, SetJob, TypeOK
<1>2. CASE RetryProvisioning(n) \/ RetryExecution(n)
  BY <1>2 DEF RetryProvisioning, RetryExecution, ResetJob, GoTo, UnchangedWorld, TypeOK
<1>3. CASE FailRun(n)
  BY <1>3 DEF FailRun, SetJob, Escape, UnchangedWorld, TypeOK
<1>4. CASE AgentAsksHuman(n)
  BY <1>4 DEF AgentAsksHuman, SetJob, TypeOK
<1>5. CASE BeginAgentRun(n) \/ AgentExits(n) \/ ReadStatus(n) \/ Throws(n) \/ CatchError(n)
  BY <1>5 DEF BeginAgentRun, AgentExits, ReadStatus, Throws, CatchError, GoTo, Throw, Escape,
     UnchangedWorld, PreBind, Acting, TypeOK
<1>6. QED
  BY <1>1, <1>2, <1>3, <1>4, <1>5
  DEF RunStep, ReadAttempt, StartProvisioning, BeginProvision, CallProvision,
      FailBeforeProvision, ProvisionResolves, ProvisionFails,
      SettleFailedProvision, Bind, Finally, PreBind, Acting

\* A call of runJob that has returned does nothing more.
LEMMA RunStepNotDone ==
    ASSUME NEW n \in Attempts, RunStep(n)
    PROVE  runs[n].pc # "done"
BY DEF RunStep, ReadAttempt, StartProvisioning, BeginProvision, CallProvision,
       FailBeforeProvision, ProvisionResolves, ProvisionFails,
       SettleFailedProvision, Bind, BeginAgentRun, AgentDone, AgentAsksHuman,
       AgentExits, ReadStatus, FallbackDone, Throws, CatchError,
       RetryProvisioning, RetryExecution, FailRun, Finally

LEMMA RunningStep ==
    ASSUME IInv, TypeOK', [Next]_vars, DbShape
    PROVE  RunnerPresent'
<1>0. TypeOK /\ RunsKnown /\ OneActor /\ CreatedIsAlive /\ OnlyBoundCondemned
      /\ AttemptFollowsJob /\ RunnerPresent /\ BlankRows
  BY DEF IInv
<1> SUFFICES ASSUME job'.status = "running"
             PROVE  RunnerPresent'
  BY DEF RunnerPresent
<1>1. ASSUME NEW n \in Attempts, RunStep(n), DbBind(n)
      PROVE  RunnerPresent'
  <2>1. Bind(n)
    BY <1>1
    DEF DbBind, RunStep, ReadAttempt, StartProvisioning, BeginProvision,
        CallProvision, FailBeforeProvision, ProvisionResolves, ProvisionFails,
        SettleFailedProvision, BeginAgentRun, AgentDone, AgentAsksHuman,
        AgentExits, ReadStatus, FallbackDone, Throws, CatchError,
        RetryProvisioning, RetryExecution, FailRun, Finally, UnchangedDb,
        OwnsProvisioning
  <2>2. /\ runs[n].pc = "created" /\ runs[n].attempt = latest
        /\ latest \in ActiveAttempts /\ job'.sandbox = n /\ latest' = latest
        /\ attempts'[latest].sandbox = n
    BY <1>0, <1>1 DEF DbBind, OwnsProvisioning, ActiveAttempts, TypeOK
  <2>3. /\ runs'[n].pc = "bound" /\ runs'[n].attempt = latest
        /\ UNCHANGED <<sandboxes, condemned>>
    BY <1>0, <1>1, <2>1, <2>2
    DEF Bind, DbBind, OwnsProvisioning, GoTo, UnchangedWorld, TypeOK
  <2>4. n \notin condemned
    BY <1>0, <2>2 DEF OnlyBoundCondemned, PreBind, Acting
  <2>5. sandboxes[n] = "alive"
    BY <1>0, <2>2 DEF CreatedIsAlive
  <2>6. QED
    BY <2>2, <2>3, <2>4, <2>5 DEF RunnerPresent, RunningSandboxIntact
<1>2. ASSUME job.status = "running", job'.sandbox = job.sandbox, latest' = latest,
             attempts'[latest].sandbox = attempts[latest].sandbox
      PROVE  RunnerPresent'
  <2> DEFINE s == job.sandbox
  <2>1. /\ s \in Attempts \ condemned /\ attempts[latest].sandbox = s
        /\ runs[s].attempt = latest
        /\ \/ sandboxes[s] = "alive"
           \/ runs[s].pc = "done" /\ runs[s].error = "uncaught"
        /\ runs[s].pc = "finally" => runs[s].error = "uncaught"
        /\ runs[s].pc \notin PreBind
        /\ latest \in ActiveAttempts
    BY <1>0, <1>2
    DEF RunnerPresent, RunningSandboxIntact, OnlyBoundCondemned, AttemptFollowsJob,
        Owned
  <2>2. SUFFICES /\ s \notin condemned'
                 /\ runs'[s].attempt = latest
                 /\ runs'[s].pc = "finally" => runs'[s].error = "uncaught"
                 /\ \/ sandboxes'[s] = "alive"
                    \/ runs'[s].pc = "done" /\ runs'[s].error = "uncaught"
    BY <1>2, <2>1 DEF RunnerPresent, RunningSandboxIntact
  <2>3. CASE RunStep(s)
    <3>1. s \notin condemned'
      BY <1>0, <2>1, <2>3, RunFrames DEF RunFrame
    <3>2. CASE Finally(s)
      BY <1>0, <2>1, <3>1, <3>2 DEF Finally, TypeOK
    <3>3. CASE ~Finally(s)
      <4>1. runs[s].pc # "done"
        BY <2>1, <2>3, RunStepNotDone
      <4>2. QED
        BY <1>0, <1>2, <2>1, <2>3, <3>1, <3>3, <4>1, RunnerStays
    <3>4. QED
      BY <3>2, <3>3
  <2>4. ASSUME NEW n \in Attempts \ {s}, RunStep(n)
        PROVE  /\ s \notin condemned' /\ runs'[s] = runs[s]
               /\ sandboxes'[s] = sandboxes[s]
    BY <1>0, <2>1, <2>4, RunFrames DEF RunFrame
  <2>5. ~\E n \in Attempts : Claim(n)
    BY <1>2 DEF Claim
  <2>6. CASE Crash
    <3>1. condemned' = {}
      BY <2>6 DEF Crash
    <3>2. runs[s].pc = "done" => runs'[s] = runs[s]
      BY <1>0, <2>1, <2>6 DEF Crash
    <3>3. QED
      BY <1>0, <2>1, <2>6, <3>1, <3>2, CrashRuns
  <2>7. CASE Quiet
    <3>1. ~DbClose /\ ~DbInterrupt
      BY <1>0 DEF DbClose, DbInterrupt, SetJob, Terminal, TypeOK
    <3>2. Wanted(s) /\ job.status # "waiting_human"
      BY <1>2, <2>1 DEF Wanted, Owned
    <3>3. QED
      BY <2>1, <2>7, <3>1, <3>2 DEF Quiet
  <2>8. QED
    BY <1>0, <2>1, <2>3, <2>4, <2>5, <2>6, <2>7, QuietShape
<1>3. CASE UnchangedDb \/ DbReconcile
  BY <1>2, <1>3 DEF UnchangedDb, DbReconcile
<1>4. ~DbStatus /\ ~DbClose /\ ~DbInterrupt /\ ~DbRetry
      /\ ~\E n \in Attempts : DbClaim(n)
  BY <1>0 DEF DbStatus, DbClose, DbInterrupt, DbRetry, DbClaim, SetJob, ResetJob,
     Terminal, TypeOK
<1>5. ASSUME NEW n \in Attempts, RunStep(n), DbRun(n), ~DbBind(n)
      PROVE  RunnerPresent'
  <2>1. job' = job
    BY <1>5 DEF DbRun, DbPhase, DbAgent
  <2>2. latest' = latest /\ latest \in Attempts
    BY <1>0, <1>5, <2>1, DbRunRows, ActiveInAttempts DEF AttemptFollowsJob, Owned
  <2>3. attempts'[latest].sandbox = attempts[latest].sandbox
    <3>1. PICK a \in ActiveAttempts, phase \in AttemptPhases :
             attempts' = [attempts EXCEPT ![a].phase = phase]
      BY <1>5 DEF DbRun, DbPhase, DbAgent, OwnsProvisioning, AttemptPhases
    <3>2. attempts \in [Attempts -> [status: AttemptStatuses, phase: AttemptPhases,
                                     sandbox: 0..MaxAttempts,
                                     reason: RetryReasons \cup {"none"}]]
      BY <1>0 DEF TypeOK
    <3>3. QED
      BY <2>2, <3>1, <3>2
  <2>4. QED
    BY <1>2, <2>1, <2>2, <2>3
<1>6. QED
  <2>1. ASSUME NEW n \in Attempts, RunStep(n)
        PROVE  RunnerPresent'
    BY <1>0, <1>1, <1>3, <1>4, <1>5, <2>1, RunShape
  <2>2. ASSUME NEW n \in Attempts, Claim(n)
        PROVE  FALSE
    BY <1>4, <2>2 DEF Claim, DbClaim, NextAttempt
  <2>3. QED
    BY <1>0, <1>3, <1>4, <2>1, <2>2, QuietDb DEF DbQuiet

-----------------------------------------------------------------------------
(***************************************************************************)
(* The invariant.                                                          *)
(***************************************************************************)
LEMMA InitIInv == Init => IInv
<1> SUFFICES ASSUME Init
             PROVE  IInv
  OBVIOUS
<1>1. TypeOK
  BY InitType
<1>2. /\ job = [status |-> "pending", started |-> FALSE, sandbox |-> 0]
      /\ \A a \in Attempts : /\ attempts[a] = NoRow /\ effects[a] = NoEffects
                             /\ runs[a] = NoRun /\ sandboxes[a] = "none"
      /\ latest = 0 /\ condemned = {} /\ scheduler = "up"
  BY DEF Init
<1>3. ActiveAttempts = {}
  BY <1>2 DEF ActiveAttempts, NoRow
<1>4. BlankRows
  BY <1>2 DEF BlankRows, Attempts
<1>5. AttemptFollowsJob
  BY <1>2, <1>3 DEF AttemptFollowsJob, Owned
<1>6. RunsKnown
  BY <1>2 DEF RunsKnown, KnownRun, NoRun, Acting
<1>7. PhaseTellsEffects /\ OneActor
  BY <1>3 DEF PhaseTellsEffects, OneActor
<1>8. NeverStartedIsProof /\ OneExecutionPerAttempt
  BY <1>2 DEF NeverStartedIsProof, OneExecutionPerAttempt, NoRun
<1>9. OnlyBoundCondemned /\ CreatedIsAlive /\ RunnerPresent
  BY <1>2, <1>3 DEF OnlyBoundCondemned, CreatedIsAlive, RunnerPresent, Attempts
<1>10. ClosedLedger
  BY <1>2 DEF ClosedLedger, NoEffects
<1>11. QED
  BY <1>1, <1>4, <1>5, <1>6, <1>7, <1>8, <1>9, <1>10 DEF IInv

LEMMA StepIInv == IInv /\ [Next]_vars => IInv'
<1> SUFFICES ASSUME IInv, [Next]_vars
             PROVE  IInv'
  OBVIOUS
<1>1. TypeOK'
  BY TypeStep DEF IInv
<1>2. DbShape
  BY NextShape DEF IInv
<1>3. QED
  BY <1>1, <1>2, BlankStep, FollowStep, RunsKnownStep, PhaseStep, ActorStep,
     NeverStartedStep, OneExecutionStep, CondemnedStep, CreatedStep, RunningStep,
     LedgerStep DEF IInv

LEMMA Invariance == Spec => []IInv
BY InitIInv, StepIInv, PTL DEF Spec

\* Job and Attempt change together, whatever the interleaving of runs, Reaper,
\* users and boot.
THEOREM AttemptFollows == Spec => []AttemptFollowsJob
<1>1. IInv => AttemptFollowsJob
  BY DEF IInv
<1>2. QED
  BY <1>1, Invariance, PTL

\* Nobody destroys the sandbox of a running Job but the run that worked in it, and
\* that run only on an error its catch block could not write down.
THEOREM RunningIntact == Spec => []RunningSandboxIntact
<1>1. IInv => RunningSandboxIntact
  BY DEF IInv, RunnerPresent, RunningSandboxIntact
<1>2. QED
  BY <1>1, Invariance, PTL

\* A provision settled as never started was never asked for.
THEOREM NeverStartedProved == Spec => []NeverStartedIsProof
<1>1. IInv => NeverStartedIsProof
  BY DEF IInv
<1>2. QED
  BY <1>1, Invariance, PTL

\* Two runs that read the same Attempt never both provision for it.
THEOREM OneExecution == Spec => []OneExecutionPerAttempt
<1>1. IInv => OneExecutionPerAttempt
  BY DEF IInv
<1>2. QED
  BY <1>1, Invariance, PTL

\* A closed Attempt has no effect left in flight.
THEOREM LedgerClosed == Spec => []ClosedLedger
<1>1. IInv => ClosedLedger
  BY DEF IInv
<1>2. QED
  BY <1>1, Invariance, PTL
=============================================================================
