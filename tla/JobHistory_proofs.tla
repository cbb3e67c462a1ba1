--------------------------- MODULE JobHistory_proofs ---------------------------
(***************************************************************************)
(* What no step of JobLifecycle may do: rewrite what has been recorded,    *)
(* repeat a provision that may have started, or leave the contract.        *)
(*                                                                         *)
(* The step properties follow from the invariant of JobLifecycle_proofs    *)
(* and from the shapes a step can have; finality of the effects needs one  *)
(* more invariant, that the intent of a provision stands as long as the    *)
(* phase of its Attempt says so.                                           *)
(***************************************************************************)
EXTENDS JobLifecycle_proofs

\* The phase of an active Attempt announces an intent that is still undecided.
IntentStands ==
    \A a \in ActiveAttempts :
        attempts[a].phase = "provision.effect_pending"
            => effects[a]["provision"] = "effect_pending"

HInv == IInv /\ IntentStands

LEMMA IntentStep ==
    ASSUME HInv, TypeOK', DbShape
    PROVE  IntentStands'
<1>0. TypeOK /\ IntentStands /\ BlankRows /\ AttemptFollowsJob
  BY DEF HInv, IInv
<1>1. CASE UnchangedDb \/ DbStatus
  BY <1>0, <1>1 DEF UnchangedDb, DbStatus, IntentStands, ActiveAttempts
<1>2. CASE DbClose
  <2>1. ActiveAttempts' = {}
    BY <1>0, <1>2, SettleActive DEF DbClose, Terminal, ClosedStatuses
  <2>2. QED
    BY <2>1 DEF IntentStands
<1>3. CASE DbInterrupt
  BY <1>0, <1>3, InterruptActive DEF DbInterrupt, IntentStands
<1>4. CASE DbRetry
  BY <1>0, <1>4, RetryActive DEF DbRetry, IntentStands, NewRow, NoRow
<1>5. CASE DbReconcile
  BY <1>0, <1>5
  DEF DbReconcile, Undecided, IntentStands, ActiveAttempts, ClosedStatuses, EffectKinds
<1>6. ASSUME NEW n \in Attempts, DbClaim(n)
      PROVE  IntentStands'
  <2>1. /\ ActiveAttempts' = {n} /\ effects' = effects
        /\ n \notin ActiveAttempts => attempts'[n] = NewRow
        /\ n \in ActiveAttempts => attempts'[n] = attempts[n]
    BY <1>0, <1>6, ClaimRows DEF DbClaim
  <2>2. QED
    BY <1>0, <2>1 DEF IntentStands, NewRow, NoRow
<1>7. ASSUME NEW n \in Attempts, DbRun(n)
      PROVE  IntentStands'
  BY <1>0, <1>7, DbRunRows DEF IntentStands, ActiveAttempts
<1>8. QED
  BY <1>1, <1>2, <1>3, <1>4, <1>5, <1>6, <1>7 DEF DbShape, DbQuiet

LEMMA HistoryInvariance == Spec => []HInv
<1>1. Init => HInv
  BY InitIInv DEF Init, HInv, IntentStands, ActiveAttempts, NoRow
<1>2. HInv /\ [Next]_vars => HInv'
  BY StepIInv, TypeStep, NextShape, IntentStep DEF HInv, IInv
<1>3. QED
  BY <1>1, <1>2, PTL DEF Spec

-----------------------------------------------------------------------------
(***************************************************************************)
(* Closed rows and settled effects.                                        *)
(***************************************************************************)
LEMMA ClosedRowsStay ==
    ASSUME HInv, TypeOK', DbShape, NEW a \in Attempts,
           attempts[a].status \in ClosedStatuses
    PROVE  attempts'[a] = attempts[a]
<1>0. TypeOK /\ BlankRows /\ AttemptFollowsJob
  BY DEF HInv, IInv
<1>1. a \notin ActiveAttempts /\ a # latest + 1
  <2>1. attempts[a].status # "none" /\ attempts[a].status # "active"
    BY DEF ClosedStatuses
  <2>2. latest \in Nat
    BY <1>0, BoundsAssumption DEF TypeOK
  <2>3. a = latest + 1 => attempts[a].status = "none"
    BY <1>0, <2>2 DEF BlankRows, NoRow
  <2>4. QED
    BY <2>1, <2>3 DEF ActiveAttempts
<1>2. CASE UnchangedDb \/ DbStatus \/ DbReconcile
  BY <1>2 DEF UnchangedDb, DbStatus, DbReconcile
<1>3. CASE DbClose
  BY <1>0, <1>1, <1>3, SettleActive DEF DbClose, Terminal, ClosedStatuses
<1>4. CASE DbInterrupt
  BY <1>0, <1>1, <1>4, InterruptActive DEF DbInterrupt
<1>5. CASE DbRetry
  BY <1>0, <1>1, <1>5, RetryActive DEF DbRetry
<1>6. ASSUME NEW n \in Attempts, DbClaim(n)
      PROVE  attempts'[a] = attempts[a]
  BY <1>0, <1>1, <1>6, ClaimRows
<1>7. ASSUME NEW n \in Attempts, DbRun(n)
      PROVE  attempts'[a] = attempts[a]
  BY <1>0, <1>1, <1>7, DbRunRows
<1>8. QED
  BY <1>2, <1>3, <1>4, <1>5, <1>6, <1>7 DEF DbShape, DbQuiet

LEMMA SettledStays ==
    ASSUME HInv, TypeOK', DbShape, NEW a \in Attempts, NEW k \in EffectKinds,
           effects[a][k] \in Settled
    PROVE  effects'[a][k] = effects[a][k]
<1>0. TypeOK /\ PhaseTellsEffects /\ IntentStands
  BY DEF HInv, IInv
<1>1. effects[a][k] \notin {"absent", "effect_pending", "unknown"}
  BY DEF Settled
<1>2. CASE UnchangedDb \/ DbStatus \/ DbReconcile
  BY <1>1, <1>2 DEF UnchangedDb, DbStatus, DbReconcile, Undecided
<1>3. CASE DbClose \/ DbInterrupt \/ DbRetry
  <2>1. \E status : effects' = CloseActiveEffects(status)
    BY <1>3
    DEF DbClose, DbInterrupt, DbRetry, SettleAttemptTerminal,
        MarkAttemptInterrupted, CloseAndCreate
  <2>2. QED
    BY <1>0, <1>1, <2>1, ClosedEffectsAt
<1>4. ASSUME NEW n \in Attempts, DbClaim(n)
      PROVE  effects'[a][k] = effects[a][k]
  BY <1>4 DEF DbClaim
<1>5. ASSUME NEW n \in Attempts, DbRun(n), NEW kind \in EffectKinds,
             NEW b \in ActiveAttempts, NEW e \in EffectStatuses,
             effects' = [effects EXCEPT ![b][kind] = e],
             effects[b][kind] \in {"absent", "effect_pending"}
      PROVE  effects'[a][k] = effects[a][k]
  BY <1>0, <1>1, <1>5 DEF TypeOK, ActiveAttempts
<1>6. ASSUME NEW n \in Attempts, DbRun(n)
      PROVE  effects'[a][k] = effects[a][k]
  <2> DEFINE b == runs[n].attempt
  <2>1. b \in ActiveAttempts /\ "provision" \in EffectKinds /\ "agent_run" \in EffectKinds
    BY <1>0, <1>6, DbRunRows DEF EffectKinds
  <2>2. attempts[b].phase = "preparing" => effects[b]["provision"] = "absent"
    BY <1>0, <2>1 DEF PhaseTellsEffects, NoEffects
  <2>3. attempts[b].phase = "provision.effect_pending"
           => effects[b]["provision"] = "effect_pending"
    BY <1>0, <2>1 DEF IntentStands
  <2>4. {"effect_pending", "unknown", "never_started", "settled"} \subseteq EffectStatuses
    BY DEF EffectStatuses, Settled
  <2>5. CASE DbAgent(n)
    BY <1>5, <1>6, <2>1, <2>4, <2>5 DEF DbAgent
  <2>6. CASE ~DbAgent(n)
    <3>1. \E e \in EffectStatuses : effects' = [effects EXCEPT ![b]["provision"] = e]
      BY <1>6, <2>4, <2>6 DEF DbRun, DbPhase, DbBind
    <3>2. attempts[b].phase \in {"preparing", "provision.effect_pending"}
      BY <1>6, <2>6 DEF DbRun, DbPhase, DbBind, OwnsProvisioning
    <3>3. QED
      BY <1>5, <1>6, <2>1, <2>2, <2>3, <3>1, <3>2
  <2>7. QED
    BY <2>5, <2>6
<1>7. QED
  BY <1>2, <1>3, <1>4, <1>6 DEF DbShape, DbQuiet

\* A late callback, a retry or a recovery never changes the row of a closed
\* Attempt or the outcome of a settled effect (settleAttemptTerminal,
\* settleEffect, reconcileJobEffects).
THEOREM HistoryFinal == Spec => HistoryIsFinal
<1>1. HInv /\ [Next]_vars =>
         [\A a \in Attempts :
             /\ attempts[a].status \in ClosedStatuses => attempts'[a] = attempts[a]
             /\ \A k \in EffectKinds :
                   effects[a][k] \in Settled => effects'[a][k] = effects[a][k]
         ]_<<attempts, effects>>
  BY ClosedRowsStay, SettledStays, TypeStep, NextShape DEF HInv, IInv
<1>2. QED
  BY <1>1, HistoryInvariance, PTL DEF Spec, HistoryIsFinal

-----------------------------------------------------------------------------
(***************************************************************************)
(* The automatic retry of a provision.                                     *)
(***************************************************************************)
LEMMA NothingStartedNoSandbox ==
    ASSUME HInv, NEW a \in ActiveAttempts, NothingStarted(a), NEW n \in Attempts,
           runs[n].attempt = a
    PROVE  sandboxes[n] = "none"
<1>0. TypeOK /\ PhaseTellsEffects /\ OneActor /\ NeverStartedIsProof /\ a \in Attempts
  BY ActiveInAttempts DEF HInv, IInv
<1>1. CASE effects[a]["provision"] = "absent"
  <2>1. attempts[a].phase = "preparing"
    BY <1>0, <1>1 DEF PhaseTellsEffects
  <2>2. QED
    BY <1>0, <2>1 DEF OneActor, OneActorOf
<1>2. CASE effects[a]["provision"] = "never_started"
  BY <1>0, <1>2 DEF NeverStartedIsProof
<1>3. QED
  BY <1>1, <1>2 DEF NothingStarted

\* Only retryProvisioningJob writes the reason of a repeated provision.
LEMMA ProvisionRetryOrigin ==
    ASSUME HInv, TypeOK', [Next]_vars, NEW a \in Attempts,
           attempts'[a].reason = "provision_retry",
           attempts[a].reason # "provision_retry"
    PROVE  a \in ActiveAttempts /\ NothingStarted(a)
<1>0. TypeOK /\ BlankRows /\ AttemptFollowsJob /\ DbShape
  BY NextShape DEF HInv, IInv
<1>1. "none" # "provision_retry" /\ "provision_retry" \notin ExecutionRetries
  BY RetriesAssumption
<1>2. NewRow.reason = "none"
  BY DEF NewRow, NoRow
<1>3. ~(UnchangedDb \/ DbStatus \/ DbReconcile)
  BY DEF UnchangedDb, DbStatus, DbReconcile
<1>4. ~DbClose
  BY <1>0, <1>1, SettleActive DEF DbClose, Terminal, ClosedStatuses
<1>5. ~DbInterrupt
  BY <1>0, InterruptActive DEF DbInterrupt
<1>6. ASSUME NEW n \in Attempts
      PROVE  ~DbClaim(n) /\ ~DbRun(n)
  BY <1>0, <1>1, <1>2, ClaimRows, DbRunRows
<1>7. ASSUME NEW n \in Attempts, NEW reason \in RetryReasons, CloseAndCreate(reason)
      PROVE  reason = "provision_retry" /\ a \in ActiveAttempts
  BY <1>0, <1>1, <1>2, <1>7, RetryActive
<1>8. ~DbQuiet
  BY <1>3, <1>4, <1>5 DEF DbQuiet
<1>9. PICK n \in Attempts : RunStep(n)
  <2>1. ~\E n \in Attempts : Claim(n)
    BY <1>6 DEF Claim, DbClaim, NextAttempt
  <2>2. QED
    BY <1>0, <1>8, <2>1, QuietDb
<1>10. CASE RetryProvisioning(n)
  <2>1. attempts' # attempts
    OBVIOUS
  <2>2. /\ CloseAndCreate("provision_retry")
        /\ NothingStarted(runs[n].attempt)
        /\ runs[n].attempt = latest
    BY <1>10, <2>1 DEF RetryProvisioning, UnchangedDb
  <2>3. a \in ActiveAttempts
    BY <1>7, <1>9, <2>2 DEF RetryReasons
  <2>4. a = latest
    BY <1>0, <2>3 DEF AttemptFollowsJob
  <2>5. QED
    BY <2>2, <2>3, <2>4
<1>11. CASE RetryExecution(n)
  <2>1. runs[n].error \in ExecutionRetries /\ CloseAndCreate(runs[n].error)
    BY <1>11 DEF RetryExecution, UnchangedDb
  <2>2. QED
    BY <1>1, <1>7, <1>9, <2>1 DEF RetryReasons
<1>12. CASE ~RetryProvisioning(n) /\ ~RetryExecution(n)
  <2>1. ~DbRetry
    <3>1. DbRetry => /\ job'.status = "pending" /\ latest' = latest + 1
                     /\ job.status # "pending" /\ latest' # latest
      BY <1>0, RetryActive, BoundsAssumption DEF DbRetry, ResetJob, TypeOK
    <3>2. latest' = latest
      BY <1>9, <1>12
      DEF RunStep, ReadAttempt, StartProvisioning, BeginProvision, CallProvision,
          FailBeforeProvision, ProvisionResolves, ProvisionFails,
          SettleFailedProvision, Bind, BeginAgentRun, AgentDone, AgentAsksHuman,
          AgentExits, ReadStatus, FallbackDone, Finalize, Throws, CatchError,
          FailRun, Finally, UnchangedDb, SettleAttemptTerminal
    <3>3. QED
      BY <3>1, <3>2
  <2>2. QED
    BY <1>0, <1>6, <1>8, <2>1 DEF DbShape
<1>13. QED
  BY <1>10, <1>11, <1>12

\* The dispatcher gives up an Attempt for a repeated provision only when no run
\* of that Attempt asked the provider for a sandbox (retryProvisioningJob).
THEOREM RetrySafe == Spec => AutomaticRetryIsSafe
<1>1. HInv /\ [Next]_vars =>
         [\A a, n \in Attempts :
             /\ attempts'[a].reason = "provision_retry"
             /\ attempts[a].reason # "provision_retry"
             /\ runs[n].attempt = a
             => sandboxes[n] = "none"
         ]_<<attempts, runs, sandboxes>>
  BY ProvisionRetryOrigin, NothingStartedNoSandbox, TypeStep DEF HInv, IInv
<1>2. QED
  BY <1>1, HistoryInvariance, PTL DEF Spec, AutomaticRetryIsSafe

-----------------------------------------------------------------------------
(***************************************************************************)
(* The contract.                                                           *)
(***************************************************************************)

\* The edges on which a Job ends.
EndEdges ==
    (({"pending"} \cup Owned) \X {"cancelled"})
        \cup (Owned \X {"failed"})
        \cup ({"claimed", "provisioning", "running"} \X {"timeout", "orphan"})
        \cup {<<"running", "succeeded">>}

LEMMA CloseJobEdge ==
    ASSUME TypeOK, NEW from, NEW s \in Terminal, CloseJob(from, s)
    PROVE  job.status \in from /\ job'.status = s
BY DEF CloseJob, SetJob, TypeOK

LEMMA RunEnds ==
    ASSUME TypeOK, NEW n \in Attempts, RunStep(n), job'.status \in Terminal,
           job'.status # job.status
    PROVE  <<job.status, job'.status>> \in EndEdges
<1>1. CASE AgentDone(n) \/ FallbackDone(n)
  BY <1>1 DEF AgentDone, FallbackDone, Finalize, SetJob, UnchangedDb, TypeOK,
     EndEdges, JobStatuses, Terminal, Owned
<1>2. CASE FailRun(n)
  BY <1>2 DEF FailRun, SetJob, UnchangedDb, TypeOK, EndEdges, JobStatuses, Terminal,
     Owned
<1>3. CASE RetryProvisioning(n) \/ RetryExecution(n)
  BY <1>3 DEF RetryProvisioning, RetryExecution, ResetJob, UnchangedDb, Terminal
<1>4. QED
  BY <1>1, <1>2, <1>3, SMTT(60)
  DEF RunStep, ReadAttempt, StartProvisioning, BeginProvision, CallProvision,
      FailBeforeProvision, ProvisionResolves, ProvisionFails,
      SettleFailedProvision, Bind, BeginAgentRun, AgentAsksHuman,
      AgentExits, ReadStatus, Throws, CatchError, Finally, UnchangedDb, SetJob,
      Terminal, TypeOK

LEMMA QuietEnds ==
    ASSUME TypeOK, [Next]_vars, ~\E n \in Attempts : Claim(n) \/ RunStep(n),
           job'.status \in Terminal, job'.status # job.status
    PROVE  <<job.status, job'.status>> \in EndEdges
<1> USE DEF EndEdges, JobStatuses, Terminal, Owned
<1>1. CASE ReapExecutionTimeout \/ ReapProvisionTimeout \/ ReapLeaseOrphan
           \/ ReapStalledExecution
  BY <1>1, CloseJobEdge
  DEF ReapExecutionTimeout, ReapProvisionTimeout, ReapLeaseOrphan,
      ReapStalledExecution, TypeOK
<1>2. CASE CancelJob
  BY <1>2, CloseJobEdge DEF CancelJob, TypeOK
<1>3. CASE ReapWaitingHuman \/ DrainPending
  BY <1>3 DEF ReapWaitingHuman, DrainPending, SetJob, TypeOK
<1>4. CASE BootProvisioning \/ BootRunning
  BY <1>4 DEF BootProvisioning, BootRunning, SetJob, UnchangedDb, TypeOK
<1>5. CASE ReplyToHuman \/ Requeue
  <2>1. job \in JobRow
    BY TypeParts DEF DbOK
  <2>2. job'.status = "pending"
    <3>1. CASE ReplyToHuman
      <4>1. job' = [job EXCEPT !.status = "pending", !.started = FALSE]
        BY <3>1 DEF ReplyToHuman
      <4>2. QED
        BY <2>1, <4>1 DEF JobRow
    <3>2. CASE Requeue
      BY <3>2 DEF Requeue, ResetJob
    <3>3. QED
      BY <1>5, <3>1, <3>2
  <2>3. QED
    BY <2>2
<1>6. CASE \E n \in Attempts : DestroyCondemned(n) \/ CleanupSandbox(n)
                               \/ ProviderCompletes(n)
  BY <1>6 DEF DestroyCondemned, CleanupSandbox, ProviderCompletes, UnchangedDb
<1>7. CASE \E a \in Attempts, k \in EffectKinds :
              ReconcileEffect(a, k) \/ SettleByOperator(a, k)
  BY <1>7 DEF ReconcileEffect, SettleByOperator
<1>8. CASE Crash \/ BootContainers \/ UNCHANGED vars
  BY <1>8 DEF Crash, BootContainers, UnchangedDb, vars
<1>9. QED
  BY <1>1, <1>2, <1>3, <1>4, <1>5, <1>6, <1>7, <1>8 DEF Next

LEMMA Ends ==
    ASSUME TypeOK, [Next]_vars, job'.status \in Terminal, job'.status # job.status
    PROVE  <<job.status, job'.status>> \in EndEdges
<1>1. ASSUME NEW n \in Attempts, Claim(n)
      PROVE  FALSE
  BY <1>1 DEF Claim, SetJob, TypeOK, Terminal
<1>2. QED
  BY <1>1, RunEnds, QuietEnds

LEMMA ContractStep ==
    ASSUME IInv, TypeOK', AttemptFollowsJob', [Next]_vars
    PROVE  [Contract!Next]_(Contract!vars)
<1> DEFINE open == ActiveAttempts # {}
           steps == Contract!Next \/ UNCHANGED <<job.status, latest, open>>
<1>0. TypeOK /\ BlankRows /\ AttemptFollowsJob /\ OneActor /\ DbShape
  BY NextShape DEF IInv
<1>1. SUFFICES steps
  BY DEF Contract!vars
<1>2. CASE UnchangedDb \/ DbReconcile
  BY <1>2 DEF UnchangedDb, DbReconcile, ActiveAttempts
<1>3. CASE DbStatus
  <2>1. /\ open' = open /\ latest' = latest
        /\ <<job.status, job'.status>> \in {<<"claimed", "provisioning">>,
                                            <<"running", "waiting_human">>,
                                            <<"pending", "cancelled">>}
    BY <1>0, <1>3 DEF DbStatus, SetJob, ActiveAttempts, TypeOK
  <2>2. job.status # "pending" => open
    BY <1>0, <2>1 DEF AttemptFollowsJob, Owned
  <2>3. Contract!Advance \/ Contract!CancelQueued
    BY <2>1, <2>2 DEF Contract!Advance, Contract!CancelQueued
  <2>4. QED
    BY <2>3 DEF Contract!Next
<1>4. CASE DbClose
  <2>1. /\ open' = FALSE /\ latest' = latest
        /\ job.status \in {"pending"} \cup Owned
        /\ job'.status \in Terminal
    BY <1>0, <1>4, SettleActive
    DEF DbClose, SetJob, SettleAttemptTerminal, Terminal, ClosedStatuses, TypeOK
  <2>2. <<job.status, job'.status>> \in EndEdges
    BY <1>0, <2>1, Ends DEF Terminal, Owned
  <2>3. Contract!Conclude \/ Contract!CancelQueued
    BY <2>1, <2>2 DEF EndEdges, Contract!Conclude, Contract!CancelQueued, Owned,
       Contract!Owned
  <2>4. QED
    BY <2>3 DEF Contract!Next
<1>5. CASE DbInterrupt
  <2>1. /\ open' = FALSE /\ latest' = latest
        /\ job.status \in Resumable \cup {"claimed", "provisioning"}
        /\ job'.status = "pending"
    BY <1>0, <1>5, InterruptActive DEF DbInterrupt, MarkAttemptInterrupted
  <2>2. Contract!Requeue
    BY <2>1 DEF Contract!Requeue, Contract!Resumable, Resumable
  <2>3. QED
    BY <2>2 DEF Contract!Next
<1>6. CASE DbRetry
  <2>1. /\ open' /\ latest' = latest + 1
        /\ job.status \in {"claimed", "provisioning", "running"}
        /\ job'.status = "pending"
    BY <1>0, <1>6, RetryActive DEF DbRetry, ResetJob
  <2>2. open
    BY <1>0, <2>1 DEF AttemptFollowsJob, Owned
  <2>3. Contract!Retry
    BY <2>1, <2>2 DEF Contract!Retry
  <2>4. QED
    BY <2>3 DEF Contract!Next
<1>7. ASSUME NEW n \in Attempts, DbClaim(n)
      PROVE  steps
  <2>1. ActiveAttempts' = {n}
    BY <1>0, <1>7, ClaimRows
  <2>2. job.status = "pending" /\ job'.status = "claimed"
    BY <1>0, <1>7 DEF DbClaim, SetJob, TypeOK
  <2>3. latest' = IF open THEN latest ELSE latest + 1
    BY <1>7 DEF DbClaim
  <2>4. Contract!Claim
    BY <2>1, <2>2, <2>3 DEF Contract!Claim
  <2>5. QED
    BY <2>4 DEF Contract!Next
<1>8. ASSUME NEW n \in Attempts, DbRun(n)
      PROVE  steps
  <2>1. open' = open /\ open /\ latest' = latest
    BY <1>0, <1>8, DbRunRows
  <2>2. CASE job' = job
    BY <2>1, <2>2
  <2>3. CASE job' # job
    <3>1. job.status = "provisioning" /\ job'.status = "running"
      BY <1>8, <2>3, SMTT(60) DEF DbRun, DbPhase, DbBind, DbAgent, OwnsProvisioning
    <3>2. Contract!Advance
      BY <2>1, <3>1 DEF Contract!Advance
    <3>3. QED
      BY <3>2 DEF Contract!Next
  <2>4. QED
    BY <2>2, <2>3
<1>9. QED
  BY <1>0, <1>2, <1>3, <1>4, <1>5, <1>6, <1>7, <1>8 DEF DbShape, DbQuiet

\* The Job as the documents describe it: its status moves only along the planned
\* edges and the declared recovery exceptions, a generation is opened once, and
\* the end of the Job ends its Attempt (transition-policy.ts, application.ts).
THEOREM LifecycleImplementsContract == Spec => ImplementsContract
<1>1. Init => Contract!Init
  BY DEF Init, Contract!Init, ActiveAttempts, NoRow
<1>2. IInv /\ [Next]_vars => [Contract!Next]_(Contract!vars)
  BY ContractStep, StepIInv DEF IInv
<1>3. QED
  BY <1>1, <1>2, Invariance, PTL DEF Spec, ImplementsContract, Contract!Spec
=============================================================================
