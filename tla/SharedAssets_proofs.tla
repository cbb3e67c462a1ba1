------------------------- MODULE SharedAssets_proofs -------------------------
(***************************************************************************)
(* Types, the sparing of a preparation and of a successor's tokens, and the *)
(* files a running Job has, for any number of Attempts, scans and faults.   *)
(***************************************************************************)
EXTENDS SharedAssets, TLAPS

JobRows   == [status : Owned \cup {"pending", "ended"}, latest : 0..MaxAttempts,
              active : BOOLEAN, phase : Phases]
RunRows   == [pc : RunPcs, named : BOOLEAN, called : BOOLEAN, handle : BOOLEAN,
              lost : BOOLEAN]
CleanRows == [pc : CleanerPcs, status : {"pending", "ended"}, latest : 0..MaxAttempts,
              names : SUBSET Attempts, at : 0..MaxAttempts]
Locks     == {Free} \cup Cleaners \cup {Preparer(n) : n \in Attempts}
Volumes   == Contents \cup {"absent"}
Mounts    == Contents \cup {"none", "asked"}

LEMMA Types == TypeOK <=> /\ job \in JobRows
                          /\ runs \in [Attempts -> RunRows]
                          /\ cleaners \in [Cleaners -> CleanRows]
                          /\ lock \in Locks
                          /\ volumes \in [Attempts -> Volumes]
                          /\ helpers \subseteq Attempts
                          /\ sandboxes \in [Attempts -> Mounts]
                          /\ faults \in 0..MaxFaults
  BY DEF TypeOK, JobRows, RunRows, CleanRows, Locks, Volumes, Mounts

LEMMA TypesNext == TypeOK' <=> /\ job' \in JobRows
                               /\ runs' \in [Attempts -> RunRows]
                               /\ cleaners' \in [Cleaners -> CleanRows]
                               /\ lock' \in Locks
                               /\ volumes' \in [Attempts -> Volumes]
                               /\ helpers' \subseteq Attempts
                               /\ sandboxes' \in [Attempts -> Mounts]
                               /\ faults' \in 0..MaxFaults
  BY DEF TypeOK, JobRows, RunRows, CleanRows, Locks, Volumes, Mounts

LEMMA InitType == Init => TypeOK
<1> SUFFICES ASSUME Init PROVE TypeOK
  OBVIOUS
<1>1. 0 \in 0..MaxAttempts /\ 0 \in 0..MaxFaults
  BY AssetsAssumption DEF AssetsAssumption
<1>2. NoRun \in RunRows /\ NoCleaner \in CleanRows
  BY <1>1 DEF NoRun, RunRows, RunPcs, NoCleaner, CleanRows, CleanerPcs
<1>3. job \in JobRows /\ lock \in Locks
  BY <1>1 DEF Init, JobRows, Phases, Locks
<1>4. volumes \in [Attempts -> Volumes] /\ sandboxes \in [Attempts -> Mounts]
  BY DEF Init, Volumes, Mounts
<1> QED
  BY <1>1, <1>2, <1>3, <1>4, Types DEF Init

\* What GoTo, Move, Quit, Release and End do to their variables.
LEMMA GoToType ==
  ASSUME TypeOK, NEW n \in Attempts, NEW pc \in RunPcs, GoTo(n, pc)
  PROVE  /\ runs' \in [Attempts -> RunRows]
         /\ runs'[n].pc = pc /\ runs'[n].handle = runs[n].handle
         /\ \A m \in Attempts : m # n => runs'[m] = runs[m]
<1>1. runs \in [Attempts -> RunRows]
  BY Types
<1>2. /\ [runs[n] EXCEPT !.pc = pc] \in RunRows /\ [runs[n] EXCEPT !.pc = pc].pc = pc
      /\ [runs[n] EXCEPT !.pc = pc].handle = runs[n].handle
  BY <1>1 DEF RunRows
<1> QED
  BY <1>1, <1>2 DEF GoTo

LEMMA EscapeType ==
  ASSUME TypeOK, NEW n \in Attempts, Escape(n)
  PROVE  /\ runs' \in [Attempts -> RunRows] /\ job' = job
         /\ runs'[n].pc = "finally" /\ runs'[n].handle = runs[n].handle
         /\ job.status = "running" => runs'[n].lost
         /\ \A m \in Attempts : m # n => runs'[m] = runs[m]
<1> DEFINE r == [runs[n] EXCEPT !.pc = "finally", !.lost = (job.status = "running")]
<1>1. runs \in [Attempts -> RunRows]
  BY Types
<1>2. r \in RunRows
  BY <1>1 DEF RunRows, RunPcs
<1>3. r.pc = "finally" /\ r.lost = (job.status = "running") /\ r.handle = runs[n].handle
  BY <1>1 DEF RunRows
<1>4. runs' = [runs EXCEPT ![n] = r]
  BY DEF Escape
<1>5. runs'[n] = r
  BY <1>1, <1>4
<1> HIDE DEF r
<1> QED
  BY <1>1, <1>2, <1>3, <1>4, <1>5 DEF Escape

\* What is left of a run that has ended.
LEMMA EndedRun ==
  ASSUME TypeOK, NEW n \in Attempts
  PROVE  /\ [NoRun EXCEPT !.pc = "done"] \in RunRows
         /\ [NoRun EXCEPT !.pc = "done"].pc = "done"
         /\ [NoRun EXCEPT !.pc = "done", !.lost = runs[n].lost] \in RunRows
         /\ [NoRun EXCEPT !.pc = "done", !.lost = runs[n].lost].pc = "done"
         /\ [NoRun EXCEPT !.pc = "done", !.lost = runs[n].lost].lost = runs[n].lost
<1>1. runs[n].lost \in BOOLEAN
  BY Types DEF RunRows
<1> QED
  BY <1>1 DEF NoRun, RunRows, RunPcs

LEMMA MoveType ==
  ASSUME TypeOK, NEW c \in Cleaners, NEW pc \in CleanerPcs, Move(c, pc)
  PROVE  /\ cleaners' \in [Cleaners -> CleanRows]
         /\ cleaners'[c].pc = pc
         /\ cleaners'[c].names = cleaners[c].names
         /\ cleaners'[c].at = cleaners[c].at
         /\ \A d \in Cleaners : d # c => cleaners'[d] = cleaners[d]
<1>1. cleaners \in [Cleaners -> CleanRows]
  BY Types
<1>2. [cleaners[c] EXCEPT !.pc = pc] \in CleanRows
  BY <1>1 DEF CleanRows
<1>3. /\ [cleaners[c] EXCEPT !.pc = pc].pc = pc
      /\ [cleaners[c] EXCEPT !.pc = pc].names = cleaners[c].names
      /\ [cleaners[c] EXCEPT !.pc = pc].at = cleaners[c].at
  BY <1>1 DEF CleanRows
<1> QED
  BY <1>1, <1>2, <1>3 DEF Move

LEMMA ReleaseType ==
  ASSUME TypeOK, NEW s, Release(s)
  PROVE  lock' \in Locks /\ (lock' = lock \/ lock' = Free)
  BY Types DEF Release, Locks

LEMMA QuitType ==
  ASSUME TypeOK, NEW c \in Cleaners, Quit(c)
  PROVE  /\ cleaners' \in [Cleaners -> CleanRows]
         /\ lock' \in Locks /\ (lock' = lock \/ lock' = Free)
         /\ cleaners'[c].pc = "idle" /\ cleaners'[c].names = {}
         /\ \A d \in Cleaners : d # c => cleaners'[d] = cleaners[d]
<1>1. cleaners \in [Cleaners -> CleanRows]
  BY Types
<1>2. NoCleaner \in CleanRows /\ NoCleaner.pc = "idle" /\ NoCleaner.names = {}
  BY AssetsAssumption DEF AssetsAssumption, NoCleaner, CleanRows, CleanerPcs
<1>3. cleaners' = [cleaners EXCEPT ![c] = NoCleaner]
  BY DEF Quit
<1>4. lock' \in Locks /\ (lock' = lock \/ lock' = Free)
  BY ReleaseType DEF Quit
<1>5. cleaners' \in [Cleaners -> CleanRows]
  BY <1>1, <1>2, <1>3
<1>6. cleaners'[c] = NoCleaner /\ \A d \in Cleaners : d # c => cleaners'[d] = cleaners[d]
  BY <1>1, <1>3
<1> QED
  BY <1>2, <1>4, <1>5, <1>6

LEMMA EndType ==
  ASSUME TypeOK, NEW status \in {"pending", "ended"}
  PROVE  /\ End(status) \in JobRows
         /\ End(status).status = status /\ End(status).active = FALSE
         /\ End(status).latest = job.latest
  BY Types DEF End, JobRows

\* The writes of the others: only the drain leaves an Attempt active.
LEMMA OthersEffect ==
  ASSUME TypeOK, OthersWrite \/ BootRequeues
  PROVE  /\ job' \in JobRows
         /\ job'.status \in {"pending", "ended"} /\ job'.latest = job.latest
         /\ job'.active => /\ job.status = "pending" /\ job'.status = "ended"
                          /\ job.active /\ UNCHANGED runs
<1>1. job \in JobRows
  BY Types
<1>2. CASE job' \in {End("ended"), End("pending")}
  BY <1>2, EndType
<1>3. CASE OthersWrite /\ job' \notin {End("ended"), End("pending")}
  <2>1. /\ job.status = "pending" /\ job' = [job EXCEPT !.status = "ended"]
        /\ UNCHANGED runs
    BY <1>3 DEF OthersWrite, Drained
  <2> QED
    BY <1>1, <2>1 DEF JobRows
<1> QED
  BY <1>2, <1>3 DEF BootRequeues

LEMMA Members ==
  /\ \A n \in Attempts : Finally(n) \in Finals /\ Finally(n) \in Cleaners
  /\ \A s \in Scans : s \in Cleaners
  /\ Free \in Locks /\ \A c \in Cleaners : c \in Locks
  /\ \A n \in Attempts : Preparer(n) \in Locks
  BY DEF Finally, Finals, Cleaners, Locks, Preparer

-----------------------------------------------------------------------------
\* Every step keeps the types; all but the faults, which the last lemma adds.
Typed == /\ job' \in JobRows /\ runs' \in [Attempts -> RunRows]
         /\ cleaners' \in [Cleaners -> CleanRows] /\ lock' \in Locks
         /\ volumes' \in [Attempts -> Volumes] /\ helpers' \subseteq Attempts
         /\ sandboxes' \in [Attempts -> Mounts]

LEMMA ClaimType ==
  ASSUME TypeOK, NEW n \in Attempts, Claim(n)
  PROVE  Typed
<1>1. job' \in JobRows
  BY DEF Claim, JobRows, Attempts, Owned, Phases
<1>2. runs' \in [Attempts -> RunRows]
  BY GoToType DEF Claim, RunPcs
<1> QED
  BY <1>1, <1>2, Types DEF Claim, UnchangedDocker, Typed

LEMMA OthersType ==
  ASSUME TypeOK, OthersWrite \/ BootRequeues
  PROVE  Typed
  BY Types, OthersEffect DEF OthersWrite, BootRequeues, UnchangedDocker, Typed

LEMMA PrepareType ==
  ASSUME TypeOK, NEW n \in Attempts,
         \/ AcquirePreparation(n) \/ PreparePermits(n) \/ CreateVolume(n)
         \/ CreateHelper(n) \/ CopyFiles(n) \/ RemoveHelper(n) \/ FinishPrepare(n)
         \/ PrepareFails(n) \/ UndoPrepare(n)
  PROVE  Typed
<1> USE Types DEF UnchangedDocker, UnchangedOwner, Typed
<1> USE DEF RunPcs
<1>1. CASE AcquirePreparation(n)
  BY <1>1, GoToType, Members DEF AcquirePreparation
<1>2. CASE PreparePermits(n)
  BY <1>2, GoToType DEF PreparePermits, Proceed
<1>3. CASE CreateVolume(n)
  BY <1>3, GoToType DEF CreateVolume, Volumes, Contents
<1>0. AfterMount(n) \in Volumes
  BY DEF AfterMount, Volumes, Contents
<1>4. CASE CreateHelper(n)
  BY <1>0, <1>4, GoToType DEF CreateHelper
<1>5. CASE CopyFiles(n)
  BY <1>5, GoToType DEF CopyFiles, Volumes, Contents
<1>6. CASE RemoveHelper(n)
  BY <1>6, GoToType DEF RemoveHelper
<1>7. CASE FinishPrepare(n)
  <2>1. [runs[n] EXCEPT !.pc = "mint", !.named = TRUE] \in RunRows
    BY DEF RunRows
  <2>2. [runs[n] EXCEPT !.pc = "undo"] \in RunRows
    BY DEF RunRows
  <2>3. runs' \in [Attempts -> RunRows]
    BY <1>7, <2>1, <2>2 DEF FinishPrepare
  <2> QED
    BY <1>7, <2>3 DEF FinishPrepare
<1>8. CASE PrepareFails(n)
  BY <1>8, GoToType DEF PrepareFails
<1>9. CASE UndoPrepare(n)
  <2>1. volumes' \in [Attempts -> Volumes]
    BY <1>9 DEF UndoPrepare, Volumes
  <2>2. runs' \in [Attempts -> RunRows]
    BY <1>9, GoToType DEF UndoPrepare
  <2> QED
    BY <1>9, <2>1, <2>2 DEF UndoPrepare
<1> QED
  BY <1>1, <1>2, <1>3, <1>4, <1>5, <1>6, <1>7, <1>8, <1>9

LEMMA CalledType ==
  ASSUME NEW r \in RunRows, NEW pc \in RunPcs
  PROVE  [r EXCEPT !.pc = pc, !.called = TRUE] \in RunRows
  BY DEF RunRows

LEMMA ProvisionType ==
  ASSUME TypeOK, NEW n \in Attempts,
         \/ StartProvisioning(n) \/ MintTokens(n) \/ BeginProvision(n)
         \/ CallProvision(n) \/ GetHandle(n) \/ HandoffPermit(n) \/ Bind(n)
         \/ ReleasePreparation(n)
  PROVE  Typed
<1> USE Types DEF UnchangedDocker, UnchangedOwner, Typed
<1> USE DEF RunPcs
<1>1. CASE StartProvisioning(n)
  <2>1. [job EXCEPT !.status = "provisioning"] \in JobRows
    BY DEF JobRows, Owned
  <2> QED
    BY <1>1, <2>1, GoToType DEF StartProvisioning
<1>2. CASE MintTokens(n)
  BY <1>2, GoToType DEF MintTokens
<1>3. CASE BeginProvision(n)
  <2>1. [job EXCEPT !.phase = "provision.effect_pending"] \in JobRows
    BY DEF JobRows, Phases
  <2> QED
    BY <1>3, <2>1, GoToType DEF BeginProvision
<1>4. CASE CallProvision(n)
  <2>1. \A pc \in RunPcs : [runs[n] EXCEPT !.pc = pc, !.called = TRUE] \in RunRows
    BY CalledType
  <2>2. runs' \in [Attempts -> RunRows]
    BY <1>4, <2>1, GoToType DEF CallProvision
  <2>3. sandboxes' \in [Attempts -> Mounts]
    BY <1>4 DEF CallProvision, Mounts
  <2> QED
    BY <1>4, <2>2, <2>3 DEF CallProvision
<1>5. CASE GetHandle(n)
  <2>1. [runs[n] EXCEPT !.pc = "mounted", !.handle = TRUE] \in RunRows
    BY DEF RunRows
  <2>2. runs' \in [Attempts -> RunRows]
    BY <1>5, <2>1 DEF GetHandle
  <2> QED
    BY <1>5, <2>2 DEF GetHandle
<1>6. CASE HandoffPermit(n)
  BY <1>6, GoToType DEF HandoffPermit, Proceed
<1>7. CASE Bind(n)
  <2>1. [job EXCEPT !.status = "running", !.phase = "provisioned"] \in JobRows
    BY DEF JobRows, Owned, Phases
  <2> QED
    BY <1>7, <2>1, GoToType DEF Bind
<1>8. CASE ReleasePreparation(n)
  BY <1>8, GoToType, ReleaseType DEF ReleasePreparation
<1> QED
  BY <1>1, <1>2, <1>3, <1>4, <1>5, <1>6, <1>7, <1>8

LEMMA WaitingType ==
  ASSUME NEW r \in CleanRows, NEW names \in SUBSET Attempts
  PROVE  [r EXCEPT !.pc = "waiting", !.names = names] \in CleanRows
  BY DEF CleanRows, CleanerPcs

LEMMA EndingType ==
  ASSUME TypeOK, NEW n \in Attempts,
         \/ AgentEnds(n) \/ Throws(n) \/ CatchError(n) \/ RetryOrFail(n)
         \/ FinishRun(n) \/ RunDies(n)
  PROVE  Typed
<1> USE Types DEF UnchangedDocker, UnchangedOwner, Typed
<1> USE DEF RunPcs
<1>1. CASE AgentEnds(n)
  <2>1. [job EXCEPT !.status = "waiting_human"] \in JobRows
    BY DEF JobRows, Owned
  <2> QED
    BY <1>1, <2>1, GoToType, EndType DEF AgentEnds
<1>2. CASE Throws(n)
  BY <1>2, GoToType DEF Throws
<1>3. CASE CatchError(n)
  BY <1>3, GoToType, EscapeType DEF CatchError
<1>4. CASE RetryOrFail(n)
  <2>1. job.latest \in 0..MaxAttempts
    BY DEF JobRows
  <2>2. job.latest < MaxAttempts =>
          [status |-> "pending", latest |-> job.latest + 1, active |-> TRUE,
           phase |-> "preparing"] \in JobRows
    BY <2>1, AssetsAssumption DEF AssetsAssumption, JobRows, Phases
  <2> QED
    BY <1>4, <2>2, GoToType, EscapeType, EndType DEF RetryOrFail
<1>5. CASE FinishRun(n)
  <2>1. runs' \in [Attempts -> RunRows]
    BY <1>5, EndedRun DEF FinishRun
  <2>2. lock' \in Locks
    BY <1>5, ReleaseType DEF FinishRun
  <2>3. sandboxes' \in [Attempts -> Mounts]
    BY <1>5 DEF FinishRun, Mounts
  <2>4. \A names \in SUBSET Attempts :
          [cleaners[Finally(n)] EXCEPT !.pc = "waiting", !.names = names] \in CleanRows
    BY Members, WaitingType
  <2>5. cleaners' = [cleaners EXCEPT ![Finally(n)] =
          [cleaners[Finally(n)] EXCEPT !.pc = "waiting",
                                       !.names = IF runs[n].named THEN {n} ELSE {}]]
    BY <1>5, Members DEF FinishRun
  <2>6. cleaners' \in [Cleaners -> CleanRows]
    BY <2>4, <2>5
  <2> QED
    BY <1>5, <2>1, <2>2, <2>3, <2>6 DEF FinishRun
<1>6. CASE RunDies(n)
  BY <1>6, EndedRun, ReleaseType DEF RunDies
<1> QED
  BY <1>1, <1>2, <1>3, <1>4, <1>5, <1>6

LEMMA AcquiredType ==
  ASSUME NEW r \in CleanRows, NEW pc \in CleanerPcs, NEW names \in SUBSET Attempts,
         NEW status \in {"pending", "ended"}, NEW latest \in 0..MaxAttempts
  PROVE  [r EXCEPT !.pc = pc, !.names = names, !.status = status, !.latest = latest]
           \in CleanRows
  BY DEF CleanRows

LEMMA ListedType ==
  ASSUME NEW r \in CleanRows, NEW names \in SUBSET Attempts
  PROVE  [r EXCEPT !.pc = "listed", !.names = names] \in CleanRows
  BY DEF CleanRows, CleanerPcs

LEMMA TakenType ==
  ASSUME NEW r \in CleanRows, NEW pc \in CleanerPcs, NEW n \in Attempts
  PROVE  [r EXCEPT !.pc = pc, !.names = @ \ {n}, !.at = n] \in CleanRows
<1>1. n \in 0..MaxAttempts
  BY AssetsAssumption DEF AssetsAssumption, Attempts
<1>2. r.names \ {n} \in SUBSET Attempts
  BY DEF CleanRows
<1> QED
  BY <1>1, <1>2 DEF CleanRows

LEMMA CleanerType ==
  ASSUME TypeOK, NEW c \in Cleaners, CleanerStep(c)
  PROVE  Typed
<1> USE Types DEF UnchangedDocker, UnchangedOwner, Typed
<1> USE DEF CleanerPcs
<1>0. ASSUME NEW condition \in BOOLEAN, NEW next \in CleanerPcs,
             Continue(c, condition, next)
      PROVE  Typed
  BY <1>0, MoveType, QuitType DEF Continue
<1>1. CASE AcquireCleanup(c)
  <2>1. CASE MayClean(c)
    <3>1. PICK names \in SUBSET Attempts, pc \in {"revoke", "list", "listed"} :
            cleaners' = [cleaners EXCEPT ![c].pc = pc, ![c].names = names,
                                         ![c].status = job.status, ![c].latest = job.latest]
      <4>1. PICK names \in Hints(c) :
              cleaners' = [cleaners EXCEPT
                 ![c].pc = IF c \in Finals THEN "revoke"
                           ELSE IF names = {} THEN "list" ELSE "listed",
                 ![c].names = names,
                 ![c].status = job.status, ![c].latest = job.latest]
        BY <1>1, <2>1, Zenon DEF AcquireCleanup
      <4>2. names \in SUBSET Attempts
        BY DEF CleanRows, Hints
      <4> QED
        BY <4>1, <4>2
    <3>2. job.status \in {"pending", "ended"} /\ job.latest \in 0..MaxAttempts
      BY <2>1 DEF MayClean, JobRows
    <3>3. [cleaners[c] EXCEPT !.pc = pc, !.names = names,
                              !.status = job.status, !.latest = job.latest] \in CleanRows
      BY <3>2, AcquiredType
    <3>4. cleaners' \in [Cleaners -> CleanRows]
      BY <3>1, <3>3
    <3> QED
      BY <1>1, <2>1, <3>4, Members DEF AcquireCleanup
  <2>2. CASE ~MayClean(c)
    BY <1>1, <2>2, QuitType DEF AcquireCleanup
  <2> QED
    BY <2>1, <2>2
<1>2. CASE RevokeTokens(c)
  BY <1>0, <1>2 DEF RevokeTokens
<1>3. CASE ListVolumes(c)
  <2>1. [cleaners[c] EXCEPT !.pc = "listed", !.names = {n \in Attempts : Labelled(n)}]
          \in CleanRows
    BY ListedType
  <2>2. cleaners' \in [Cleaners -> CleanRows]
    BY <1>3, <2>1 DEF ListVolumes
  <2> QED
    BY <1>3, <2>2 DEF ListVolumes
<1>4. CASE PermitNames(c)
  BY <1>0, <1>4 DEF PermitNames, Permitted
<1>5. CASE TakeName(c)
  <2>1. PICK n \in cleaners[c].names :
          \/ \E pc \in {"helper", "volume"} :
               /\ cleaners' = [cleaners EXCEPT ![c].pc = pc, ![c].names = @ \ {n}, ![c].at = n]
               /\ UNCHANGED lock
          \/ Quit(c)
    BY <1>5 DEF TakeName
  <2>2. n \in Attempts
    BY DEF CleanRows
  <2>3. CASE Quit(c)
    BY <1>5, <2>3, QuitType DEF TakeName
  <2>4. ASSUME NEW pc \in {"helper", "volume"}, UNCHANGED lock,
               cleaners' = [cleaners EXCEPT ![c].pc = pc, ![c].names = @ \ {n}, ![c].at = n]
        PROVE  Typed
    <3>1. [cleaners[c] EXCEPT !.pc = pc, !.names = @ \ {n}, !.at = n] \in CleanRows
      BY <2>2, TakenType
    <3>2. cleaners' \in [Cleaners -> CleanRows]
      BY <2>4, <3>1
    <3> QED
      BY <1>5, <2>4, <3>2 DEF TakeName
  <2> QED
    BY <2>1, <2>3, <2>4
<1>6. CASE CleanHelper(c)
  BY <1>6, MoveType DEF CleanHelper
<1>7. CASE PermitVolume(c)
  BY <1>0, <1>7 DEF PermitVolume, Permitted, Labelled
<1>8. CASE CleanVolume(c)
  <2>1. volumes' \in [Attempts -> Volumes]
    BY <1>8 DEF CleanVolume, Volumes
  <2> QED
    BY <1>8, <2>1, MoveType DEF CleanVolume
<1>9. CASE EndCleanup(c)
  BY <1>9, QuitType DEF EndCleanup
<1> QED
  BY <1>1, <1>2, <1>3, <1>4, <1>5, <1>6, <1>7, <1>8, <1>9 DEF CleanerStep

LEMMA TypeStep ==
  ASSUME TypeOK, [Next]_vars
  PROVE  TypeOK'
<1> USE Types DEF UnchangedDocker, UnchangedOwner
<1>1. ASSUME Works PROVE Typed
  <2>1. ASSUME NEW n \in Attempts, DestroyOrphan(n) PROVE Typed
    BY <2>1 DEF DestroyOrphan, Typed, Mounts
  <2>4. ASSUME NEW n \in Attempts, ComeUp(n) PROVE Typed
    <3>1. AfterMount(n) \in Volumes /\ AfterMount(n) \in Mounts
      BY DEF AfterMount, Volumes, Mounts, Contents
    <3> QED
      BY <2>4, <3>1 DEF ComeUp, Typed
  <2>2. ASSUME NEW s \in Scans, StartScan(s) PROVE Typed
    BY <2>2, MoveType, Members DEF StartScan, Typed, CleanerPcs
  <2>3. ASSUME NEW n \in Attempts, RunStep(n) PROVE Typed
    BY <2>3, PrepareType, ProvisionType, EndingType DEF RunStep
  <2> QED
    BY <1>1, <2>1, <2>2, <2>3, <2>4, ClaimType, OthersType, CleanerType DEF Works
<1>2. ASSUME Breaks PROVE Typed
  <2>1. CASE LoseLock
    BY <2>1, Members DEF LoseLock, Typed
  <2> QED
    BY <1>2, <2>1, EndingType DEF Breaks
<1>3. CASE UNCHANGED vars
  BY <1>3, TypesNext DEF vars
<1>4. faults \in Nat /\ MaxFaults \in Nat
  BY AssetsAssumption DEF AssetsAssumption
<1>5. ASSUME Fault PROVE faults' \in 0..MaxFaults
  BY <1>4, <1>5 DEF Fault
<1>6. ASSUME Breaks PROVE Fault
  BY <1>6 DEF Breaks, RunDies, LoseLock
<1> QED
  BY <1>1, <1>2, <1>3, <1>5, <1>6, TypesNext DEF Next, Typed

-----------------------------------------------------------------------------
(***************************************************************************)
(* The inductive invariant.                                                *)
(***************************************************************************)
Filling   == {"created", "write", "written", "copy"}
Filled    == {"copied", "unwrite", "unwritten", "mint", "minted", "admitted", "mount",
              "mounted", "bind"}
Unlocked  == {"idle", "claimed", "staging", "error", "caught", "finally", "done"}
Permits   == {"next", "helper", "volume", "rm"}

\* The row of the Job: an owned Job has an active Attempt.
JobInv ==
  /\ job.status \in Owned => job.active
  /\ job.active => job.latest \in Attempts

\* Where the run of the active Attempt may be, by the status of the Job.  Only an
\* error its catch block could not write down brings it to its finally.
BeforeStart  == {"claimed", "error", "caught", "finally", "done"}
AfterBind(r) == \/ r.pc \in {"bound", "agent", "error", "caught", "done"}
                \/ r.pc = "finally" /\ r.lost

RunInv ==
  /\ \A n \in Attempts : runs[n].pc # "idle" => n <= job.latest
  /\ \A n \in Attempts : Serving(n) =>
       /\ job.status \in {"pending", "ended"} => runs[n].pc = "idle"
       /\ job.status = "claimed" => runs[n].pc \in BeforeStart
       /\ job.status = "running" => AfterBind(runs[n])

\* What the volume of an active Attempt holds as its run goes on, and what its
\* sandbox may have mounted.
MountOf(pc) == IF pc = "mount" THEN {"asked", "filled"}
               ELSE IF pc \in {"mounted", "bind"} THEN {"filled"} ELSE Mounts

VolumeInv ==
  /\ \A n \in Attempts :
       volumes[n] # "absent" \/ sandboxes[n] # "none" => n <= job.latest
  /\ \A n \in Attempts : Serving(n) =>
       /\ runs[n].pc \in Filling => volumes[n] = "empty"
       /\ runs[n].pc \in Filled => volumes[n] = "filled"
       /\ job.status = "provisioning" => sandboxes[n] \in MountOf(runs[n].pc)

\* Past the provider's answer a run has the handle, and the run of a running Job
\* keeps it as long as it lives.
HandleInv ==
  /\ \A n \in Attempts : runs[n].pc \in {"mounted", "bind"} => runs[n].handle
  /\ \A n \in Attempts : Serving(n) /\ job.status = "running" =>
       runs[n].pc = "done" \/ runs[n].handle

\* Names are frozen before the permit, so that past it they are of Attempts that
\* are closed for good, whether or not the lock is still held.
CleanInv ==
  \A c \in Cleaners :
    /\ \A n \in cleaners[c].names :
         n <= job.latest /\ (cleaners[c].pc \in Permits => ~Serving(n))
    /\ cleaners[c].pc \in Permits \ {"next"} =>
         /\ cleaners[c].at \in Attempts
         /\ cleaners[c].at <= job.latest
         /\ ~Serving(cleaners[c].at)

\* A finally that revokes under its lock finds a successor, if there is one, in
\* front of the lock.
RevokeInv ==
  \A m, n \in Attempts :
    Serving(n) /\ cleaners[Finally(m)].pc = "revoke" /\ lock = Finally(m)
    => runs[n].pc \in Unlocked

IInv == /\ TypeOK /\ JobInv /\ RunInv /\ VolumeInv /\ HandleInv /\ CleanInv /\ RevokeInv
        /\ RunsOnItsAssets

LEMMA InitInv == Init => IInv
<1> SUFFICES ASSUME Init PROVE IInv
  OBVIOUS
<1>1. job.status = "pending" /\ ~job.active
  BY DEF Init
<1>2. \A n \in Attempts :
        runs[n].pc = "idle" /\ volumes[n] = "absent" /\ sandboxes[n] = "none"
  BY DEF Init, NoRun
<1>3. \A c \in Cleaners : cleaners[c].pc = "idle" /\ cleaners[c].names = {}
  BY DEF Init, NoCleaner
<1>4. JobInv /\ RunsOnItsAssets
  BY <1>1 DEF JobInv, RunsOnItsAssets, Owned
<1>5. RunInv /\ VolumeInv /\ HandleInv /\ RevokeInv
  BY <1>1, <1>2 DEF RunInv, VolumeInv, HandleInv, RevokeInv, Serving
<1>6. CleanInv
  BY <1>3 DEF CleanInv, Permits
<1> QED
  BY <1>4, <1>5, <1>6, InitType DEF IInv

\* The actions that are a run's, and those of them that write the Job.
RunActs(n) ==
  \/ StartProvisioning(n) \/ BeginProvision(n) \/ Bind(n) \/ AgentEnds(n) \/ RetryOrFail(n)

LEMMA JobMoves ==
  ASSUME [Next]_vars
  PROVE  \/ job' = job
         \/ OthersWrite \/ BootRequeues
         \/ \E n \in Attempts : Claim(n) \/ RunActs(n)
<1>1. ASSUME NEW n \in Attempts, RunStep(n) PROVE job' = job \/ RunActs(n)
  BY <1>1 DEF RunStep, RunActs, UnchangedOwner, AcquirePreparation, PreparePermits, Proceed,
     CreateVolume, CreateHelper, CopyFiles, RemoveHelper, FinishPrepare, PrepareFails,
     UndoPrepare, MintTokens, CallProvision, GetHandle, HandoffPermit,
     ReleasePreparation, Throws, CatchError, Escape, FinishRun
<1>2. ASSUME NEW c \in Cleaners, CleanerStep(c) PROVE job' = job
  BY <1>2 DEF CleanerStep, UnchangedOwner, Continue, AcquireCleanup, RevokeTokens,
     ListVolumes, PermitNames, TakeName, CleanHelper, PermitVolume, CleanVolume, EndCleanup
<1>3. ASSUME Breaks PROVE job' = job
  BY <1>3 DEF Breaks, RunDies, LoseLock
<1>4. ASSUME NEW n \in Attempts, DestroyOrphan(n) \/ ComeUp(n) PROVE job' = job
  BY <1>4 DEF DestroyOrphan, ComeUp, UnchangedOwner
<1>5. ASSUME NEW s \in Scans, StartScan(s) PROVE job' = job
  BY <1>5 DEF StartScan, UnchangedOwner
<1> QED
  BY <1>1, <1>2, <1>3, <1>4, <1>5 DEF Next, Works, vars

LEMMA RunMoves ==
  ASSUME [Next]_vars
  PROVE  \/ runs' = runs
         \/ \E n \in Attempts : Claim(n) \/ RunStep(n) \/ RunDies(n)
<1>2. ASSUME NEW c \in Cleaners, CleanerStep(c) PROVE runs' = runs
  BY <1>2 DEF CleanerStep, Continue, AcquireCleanup, RevokeTokens,
     ListVolumes, PermitNames, TakeName, CleanHelper, PermitVolume, CleanVolume, EndCleanup
<1>4. ASSUME NEW n \in Attempts, DestroyOrphan(n) \/ ComeUp(n) PROVE runs' = runs
  BY <1>4 DEF DestroyOrphan, ComeUp
<1>5. ASSUME NEW s \in Scans, StartScan(s) PROVE runs' = runs
  BY <1>5 DEF StartScan
<1> QED
  BY <1>2, <1>4, <1>5 DEF Next, Works, Breaks, vars, OthersWrite, BootRequeues, LoseLock

\* What a step may do to the Job.
LEMMA JobEffect ==
  ASSUME IInv, [Next]_vars
  PROVE  /\ JobInv'
         /\ job'.latest \in Nat /\ job.latest \in Nat
         /\ job.latest <= job'.latest
         /\ \A n \in Attempts : Serving(n)' /\ ~Serving(n) => n > job.latest
<1>0. job \in JobRows /\ JobInv /\ TypeOK
  BY Types DEF IInv
<1>1. job.latest \in 0..MaxAttempts /\ MaxAttempts \in Nat /\ job.latest \in Nat
  BY <1>0, AssetsAssumption DEF AssetsAssumption, JobRows
<1> USE DEF Attempts, JobInv, Serving
<1>2. CASE job' = job
  BY <1>0, <1>1, <1>2
<1>3. CASE job' = End("ended")
  <2>1. job'.status \notin Owned /\ job'.active = FALSE /\ job'.latest = job.latest
    BY <1>0, <1>3, EndType DEF Owned
  <2> QED
    BY <1>0, <1>1, <2>1
<1>4. CASE \E n \in Attempts : Claim(n)
  BY <1>0, <1>1, <1>4 DEF Claim, JobRows, Owned
<1>5. CASE /\ job'.latest = job.latest /\ job'.active = job.active
           /\ job.active /\ job'.status \in Owned
  BY <1>0, <1>1, <1>5 DEF Owned
<1>6. ASSUME NEW n \in Attempts, StartProvisioning(n) \/ BeginProvision(n) \/ Bind(n)
      PROVE  job' = job \/ /\ job'.latest = job.latest /\ job'.active = job.active
                           /\ job.active /\ job'.status \in Owned
  BY <1>0, <1>6 DEF StartProvisioning, BeginProvision, Bind, OwnsProvisioning, JobRows, Owned
<1>7. ASSUME NEW n \in Attempts, AgentEnds(n)
      PROVE  \/ job' = job \/ job' = End("ended")
             \/ /\ job'.latest = job.latest /\ job'.active = job.active
                /\ job.active /\ job'.status \in Owned
  BY <1>0, <1>7 DEF AgentEnds, JobRows, Owned
<1>8. ASSUME NEW n \in Attempts, RetryOrFail(n)
      PROVE  \/ job' \in {job, End("ended")}
             \/ /\ job.latest < MaxAttempts
                /\ job' = [status |-> "pending", latest |-> job.latest + 1,
                           active |-> TRUE, phase |-> "preparing"]
  BY <1>8 DEF RetryOrFail, Escape
<1>9. CASE /\ job.latest < MaxAttempts
           /\ job' = [status |-> "pending", latest |-> job.latest + 1,
                      active |-> TRUE, phase |-> "preparing"]
  BY <1>0, <1>1, <1>9 DEF Owned
<1>10. CASE OthersWrite \/ BootRequeues
  BY <1>0, <1>1, <1>10, OthersEffect DEF Owned
<1> QED
  BY <1>2, <1>3, <1>4, <1>5, <1>6, <1>7, <1>8, <1>9, <1>10, JobMoves DEF RunActs

-----------------------------------------------------------------------------
(***************************************************************************)
(* Runs.  A run's step touches what is its own only.                       *)
(***************************************************************************)
Own(n) ==
  /\ runs[n].pc \notin {"idle", "done"} /\ runs'[n].pc # "idle"
  /\ \A m \in Attempts : m # n =>
       /\ runs'[m] = runs[m]
       /\ volumes'[m] = volumes[m]
       /\ sandboxes'[m] = sandboxes[m]
       /\ m \in helpers => m \in helpers'

LEMMA OwnStep ==
  ASSUME TypeOK, NEW n \in Attempts, RunStep(n) \/ RunDies(n)
  PROVE  Own(n)
<1> USE Types DEF UnchangedDocker, UnchangedOwner, Own
<1> USE DEF RunPcs
<1>0. /\ [NoRun EXCEPT !.pc = "done"].pc = "done"
      /\ [NoRun EXCEPT !.pc = "done", !.lost = runs[n].lost].pc = "done"
  BY EndedRun
<1>1. CASE StartProvisioning(n) \/ AcquirePreparation(n) \/ MintTokens(n) \/ BeginProvision(n)
  BY <1>1, GoToType DEF StartProvisioning, AcquirePreparation, MintTokens, BeginProvision
<1>2. CASE PreparePermits(n) \/ HandoffPermit(n)
  BY <1>2, GoToType DEF PreparePermits, HandoffPermit, Proceed
<1>3. CASE CreateVolume(n) \/ CreateHelper(n)
  BY <1>3, GoToType DEF CreateVolume, CreateHelper
<1>4. CASE CopyFiles(n) \/ RemoveHelper(n)
  BY <1>4, GoToType DEF CopyFiles, RemoveHelper
<1>5. CASE FinishPrepare(n)
  BY <1>5 DEF FinishPrepare, RunRows
<1>6. CASE UndoPrepare(n)
  BY <1>6, GoToType DEF UndoPrepare
<1>7. CASE CallProvision(n)
  BY <1>7, GoToType DEF CallProvision, RunRows
<1>8. CASE GetHandle(n)
  BY <1>8 DEF GetHandle, RunRows
<1>9. CASE Bind(n) \/ ReleasePreparation(n) \/ AgentEnds(n) \/ RetryOrFail(n)
  BY <1>9, GoToType, EscapeType DEF Bind, ReleasePreparation, AgentEnds, RetryOrFail
<1>10. CASE PrepareFails(n) \/ Throws(n) \/ CatchError(n)
  BY <1>10, GoToType, EscapeType DEF PrepareFails, Throws, CatchError
<1>11. CASE FinishRun(n)
  BY <1>0, <1>11 DEF FinishRun
<1>12. CASE RunDies(n)
  BY <1>0, <1>12 DEF RunDies
<1> QED
  BY <1>1, <1>2, <1>3, <1>4, <1>5, <1>6, <1>7, <1>8, <1>9, <1>10, <1>11, <1>12 DEF RunStep

\* A run in front of provisioning, or past the binding of its sandbox, leaves
\* there only with a write of the Job.
LEMMA OwnLate ==
  ASSUME TypeOK, NEW n \in Attempts, RunStep(n) \/ RunDies(n), job' = job, job.latest = n
  PROVE  /\ job.status = "claimed" /\ runs[n].pc \in BeforeStart
            => runs'[n].pc \in BeforeStart
         /\ job.status = "running" /\ AfterBind(runs[n]) => AfterBind(runs'[n])
<1> USE Types DEF UnchangedDocker, UnchangedOwner, BeforeStart, AfterBind
<1> USE DEF RunPcs
<1>0. /\ [NoRun EXCEPT !.pc = "done"].pc = "done" /\ job \in JobRows
      /\ [NoRun EXCEPT !.pc = "done", !.lost = runs[n].lost].pc = "done"
  BY EndedRun
<1>1. CASE RunDies(n)
  BY <1>0, <1>1 DEF RunDies
<1>2. CASE StartProvisioning(n)
  <2>1. job.status = "claimed" => job'.status = "provisioning"
    BY <1>0, <1>2 DEF StartProvisioning, JobRows
  <2> QED
    BY <1>2, <2>1 DEF StartProvisioning
<1>3. CASE ReleasePreparation(n) \/ Throws(n)
  BY <1>3, GoToType DEF ReleasePreparation, Throws
<1>4. CASE AgentEnds(n)
  <2>1. job.status = "running" => job'.status # "running"
    BY <1>0, <1>4, EndType DEF AgentEnds, JobRows
  <2> QED
    BY <1>4, <2>1, GoToType DEF AgentEnds
<1>5. CASE RetryOrFail(n)
  <2>1. CASE Escape(n)
    BY <2>1, EscapeType
  <2>2. CASE ~Escape(n)
    <3>1. job.status \in {"claimed", "running"} => job' # job
      BY <1>0, <1>5, <2>2, EndType DEF RetryOrFail, Executing, Owned
    <3> QED
      BY <3>1
  <2> QED
    BY <2>1, <2>2
<1>6. CASE CatchError(n)
  <2>1. CASE Escape(n)
    BY <2>1, EscapeType
  <2>2. CASE ~Escape(n)
    <3>1. GoTo(n, IF job.status # "waiting_human" THEN "caught" ELSE "finally")
      BY <1>6, <2>2 DEF CatchError
    <3>2. job.status \in {"claimed", "running"} => runs'[n].pc = "caught"
      BY <3>1, GoToType
    <3> QED
      BY <3>2
  <2> QED
    BY <2>1, <2>2
<1>7. CASE FinishRun(n)
  BY <1>0, <1>7 DEF FinishRun
<1>8. CASE \/ AcquirePreparation(n) \/ PreparePermits(n) \/ CreateVolume(n)
           \/ CreateHelper(n) \/ CopyFiles(n) \/ RemoveHelper(n) \/ FinishPrepare(n)
           \/ PrepareFails(n) \/ UndoPrepare(n) \/ MintTokens(n) \/ BeginProvision(n)
           \/ CallProvision(n) \/ GetHandle(n) \/ HandoffPermit(n) \/ Bind(n)
  <2>1. runs[n].pc \notin BeforeStart \cup {"bound", "agent"}
    BY <1>8 DEF AcquirePreparation, PreparePermits, CreateVolume, CreateHelper,
       CopyFiles, RemoveHelper, FinishPrepare, PrepareFails, UndoPrepare, MintTokens,
       BeginProvision, CallProvision, GetHandle, HandoffPermit, Bind
  <2> QED
    BY <2>1
<1> QED
  BY <1>1, <1>2, <1>3, <1>4, <1>5, <1>6, <1>7, <1>8 DEF RunStep

LEMMA RunInvStep ==
  ASSUME IInv, [Next]_vars
  PROVE  RunInv'
<1>0. TypeOK /\ JobInv /\ RunInv /\ job \in JobRows
  BY Types DEF IInv
<1>1. job.latest \in Nat /\ job'.latest \in Nat /\ job.latest <= job'.latest
  BY JobEffect
<1>2. ASSUME NEW n \in Attempts, Claim(n)
      PROVE  /\ runs'[n].pc = "claimed"
             /\ \A m \in Attempts : m # n => runs'[m] = runs[m]
             /\ job'.latest = n /\ job'.status = "claimed"
  BY <1>0, <1>2, GoToType DEF Claim, RunPcs
<1>3. ASSUME NEW n \in Attempts, runs'[n].pc # "idle"
      PROVE  n <= job'.latest
  <2>1. n \in Nat
    BY DEF Attempts
  <2>2. runs[n].pc # "idle" => n <= job.latest
    BY <1>0 DEF RunInv
  <2>3. CASE runs' = runs
    BY <1>1, <1>3, <2>1, <2>2, <2>3
  <2>4. ASSUME NEW m \in Attempts, Claim(m) PROVE n <= job'.latest
    <3>1. CASE m = n
      BY <1>2, <2>1, <2>4, <3>1
    <3>2. CASE m # n
      <4>1. runs'[n] = runs[n]
        BY <1>2, <2>4, <3>2
      <4> QED
        BY <1>1, <1>3, <2>1, <2>2, <4>1
    <3> QED
      BY <3>1, <3>2
  <2>5. ASSUME NEW m \in Attempts, RunStep(m) \/ RunDies(m) PROVE n <= job'.latest
    BY <1>0, <1>1, <1>3, <2>1, <2>2, <2>5, OwnStep DEF Own
  <2> QED
    BY <2>3, <2>4, <2>5, RunMoves
<1>4. ASSUME NEW n \in Attempts, Serving(n)'
      PROVE  /\ job'.status \in {"pending", "ended"} => runs'[n].pc = "idle"
             /\ job'.status = "claimed" => runs'[n].pc \in BeforeStart
             /\ job'.status = "running" => AfterBind(runs'[n])
  <2> DEFINE Goal == /\ job'.status \in {"pending", "ended"} => runs'[n].pc = "idle"
                     /\ job'.status = "claimed" => runs'[n].pc \in BeforeStart
                     /\ job'.status = "running" => AfterBind(runs'[n])
  <2>0. job'.active /\ job'.latest = n
    BY <1>4 DEF Serving
  <2>1. CASE job' = job
    <3>0. Serving(n)
      BY <2>0, <2>1 DEF Serving
    <3>1. CASE runs'[n] = runs[n]
      BY <1>0, <2>1, <3>0, <3>1 DEF RunInv
    <3>2. CASE RunStep(n) \/ RunDies(n)
      BY <1>0, <2>0, <2>1, <3>0, <3>2, OwnStep, OwnLate DEF RunInv, Own
    <3>3. ASSUME NEW m \in Attempts, Claim(m) PROVE FALSE
      BY <2>1, <3>3, <1>0 DEF Claim
    <3>4. ASSUME NEW m \in Attempts, m # n, RunStep(m) \/ RunDies(m) PROVE runs'[n] = runs[n]
      BY <1>0, <3>4, OwnStep DEF Own
    <3> QED
      BY <3>1, <3>2, <3>3, <3>4, RunMoves
  <2>2. CASE OthersWrite \/ BootRequeues
    <3>1. /\ job.status = "pending" /\ job'.status = "ended" /\ runs' = runs
          /\ Serving(n)
      BY <1>0, <2>0, <2>2, OthersEffect DEF Serving
    <3> QED
      BY <1>0, <3>1 DEF RunInv
  <2>3. CASE \E m \in Attempts : Claim(m)
    BY <1>2, <2>0, <2>3 DEF BeforeStart
  <2>4. ASSUME NEW m \in Attempts, RunActs(m), job' # job PROVE Goal
    <3> USE DEF RunPcs
    <3>1. CASE StartProvisioning(m) \/ BeginProvision(m)
      BY <1>0, <2>4, <3>1 DEF StartProvisioning, BeginProvision, OwnsProvisioning, JobRows
    <3>2. CASE Bind(m)
      <4>1. /\ job.latest = m /\ GoTo(m, "bound")
            /\ job' = [job EXCEPT !.status = "running", !.phase = "provisioned"]
        BY <2>4, <3>2 DEF Bind, OwnsProvisioning
      <4>2. job'.latest = m /\ job'.status = "running"
        BY <1>0, <4>1 DEF JobRows
      <4>3. runs'[m].pc = "bound"
        BY <1>0, <4>1, GoToType
      <4> QED
        BY <2>0, <4>2, <4>3 DEF AfterBind
    <3>3. CASE AgentEnds(m)
      BY <1>0, <2>0, <2>4, <3>3, EndType DEF AgentEnds, JobRows
    <3>4. CASE RetryOrFail(m)
      <4>1. job' # End("ended")
        BY <1>0, <2>0, EndType
      <4>2. job'.status = "pending" /\ job'.latest = job.latest + 1
        BY <2>4, <3>4, <4>1 DEF RetryOrFail, Escape
      <4>3. m \in Nat /\ n \in Nat /\ runs[n].pc = "idle" /\ m <= job.latest
        BY <1>0, <1>1, <2>0, <3>4, <4>2 DEF RunInv, RetryOrFail, Attempts
      <4>4. m # n
        BY <1>1, <2>0, <4>2, <4>3
      <4> QED
        BY <1>0, <3>4, <4>2, <4>3, <4>4, OwnStep DEF RunStep, Own
    <3> QED
      BY <2>4, <3>1, <3>2, <3>3, <3>4 DEF RunActs
  <2> QED
    BY <2>1, <2>2, <2>3, <2>4, JobMoves
<1> QED
  BY <1>3, <1>4 DEF RunInv

-----------------------------------------------------------------------------
(***************************************************************************)
(* Volumes.  Past a permit a cleanup has names of closed Attempts only, so  *)
(* that what an active Attempt has is changed by its own run.              *)
(***************************************************************************)
LEMMA DockerMoves ==
  ASSUME [Next]_vars
  PROVE  /\ \/ volumes' = volumes
            \/ \E n \in Attempts : RunStep(n) \/ ComeUp(n)
            \/ \E c \in Cleaners : CleanVolume(c)
         /\ \/ helpers' = helpers
            \/ \E n \in Attempts : RunStep(n)
            \/ \E c \in Cleaners : CleanHelper(c)
         /\ \/ sandboxes' = sandboxes
            \/ \E n \in Attempts : RunStep(n) \/ ComeUp(n) \/ DestroyOrphan(n)
<1> USE DEF UnchangedDocker
<1>1. ASSUME NEW c \in Cleaners, CleanerStep(c)
      PROVE  /\ volumes' = volumes \/ CleanVolume(c)
             /\ helpers' = helpers \/ CleanHelper(c)
             /\ sandboxes' = sandboxes
  BY <1>1 DEF CleanerStep, Continue, AcquireCleanup, RevokeTokens, ListVolumes,
     PermitNames, TakeName, CleanHelper, PermitVolume, CleanVolume, EndCleanup
<1>2. ASSUME NEW n \in Attempts, DestroyOrphan(n)
      PROVE  volumes' = volumes /\ helpers' = helpers
  BY <1>2 DEF DestroyOrphan
<1>3. ASSUME NEW s \in Scans, StartScan(s) PROVE UnchangedDocker
  BY <1>3 DEF StartScan
<1>5. ASSUME NEW n \in Attempts, ComeUp(n) PROVE helpers' = helpers
  BY <1>5 DEF ComeUp
<1>4. ASSUME \/ OthersWrite \/ BootRequeues \/ LoseLock \/ UNCHANGED vars
             \/ \E n \in Attempts : Claim(n) \/ RunDies(n)
      PROVE  UnchangedDocker
  BY <1>4 DEF OthersWrite, BootRequeues, LoseLock, vars, Claim, RunDies
<1> QED
  BY <1>1, <1>2, <1>3, <1>4, <1>5 DEF Next, Works, Breaks

LEMMA CleanedIsClosed ==
  ASSUME IInv, NEW c \in Cleaners, CleanVolume(c) \/ CleanHelper(c)
  PROVE  /\ cleaners[c].at \in Attempts /\ cleaners[c].at <= job.latest
         /\ ~Serving(cleaners[c].at)
         /\ \A n \in Attempts : n # cleaners[c].at =>
              /\ volumes'[n] = volumes[n]
              /\ n \in helpers => n \in helpers'
<1>1. cleaners[c].pc \in Permits \ {"next"}
  BY DEF CleanVolume, CleanHelper, Permits
<1>2. /\ cleaners[c].at \in Attempts /\ cleaners[c].at <= job.latest
      /\ ~Serving(cleaners[c].at)
  BY <1>1 DEF IInv, CleanInv
<1>3. volumes \in [Attempts -> Volumes]
  BY Types DEF IInv
<1> QED
  BY <1>2, <1>3 DEF CleanVolume, CleanHelper

\* An Attempt becomes active with a run that has not started.
LEMMA ServingBefore ==
  ASSUME IInv, [Next]_vars, NEW n \in Attempts, Serving(n)', ~Serving(n)
  PROVE  runs'[n].pc \in {"idle", "claimed"}
<1>1. n > job.latest /\ job.latest \in Nat /\ n \in Nat
  BY JobEffect DEF Attempts
<1>2. runs[n].pc = "idle"
  BY <1>1 DEF IInv, RunInv
<1>3. ASSUME NEW m \in Attempts, RunStep(m) \/ RunDies(m) PROVE runs'[n] = runs[n]
  <2>1. Own(m)
    BY <1>3, OwnStep DEF IInv
  <2> QED
    BY <1>2, <2>1 DEF Own
<1>4. ASSUME NEW m \in Attempts, Claim(m) PROVE runs'[n].pc \in {"idle", "claimed"}
  BY <1>2, <1>4, GoToType DEF Claim, RunPcs, IInv
<1> QED
  BY <1>2, <1>3, <1>4, RunMoves

\* How a run's own steps carry the volume from empty to filled and mounted.
LEMMA OwnVolume ==
  ASSUME TypeOK, TypeOK', NEW n \in Attempts, RunStep(n) \/ RunDies(n),
         runs[n].pc \in Filling => volumes[n] = "empty",
         runs[n].pc \in Filled => volumes[n] = "filled"
  PROVE  /\ runs'[n].pc \in Filling => volumes'[n] = "empty"
         /\ runs'[n].pc \in Filled => volumes'[n] = "filled"
         /\ \/ sandboxes'[n] \in MountOf(runs'[n].pc)
            \/ /\ UNCHANGED <<job, sandboxes>>
               /\ runs'[n].pc \in {"mounted", "bind"}
               /\ \/ runs[n].pc = "mount" /\ sandboxes[n] # "asked"
                  \/ runs[n].pc = "mounted"
<1> USE Types DEF UnchangedDocker, UnchangedOwner, Filling, Filled
<1> USE DEF RunPcs, MountOf
<1>0. /\ [NoRun EXCEPT !.pc = "done"].pc = "done" /\ sandboxes'[n] \in Mounts
      /\ [NoRun EXCEPT !.pc = "done", !.lost = runs[n].lost].pc = "done"
  BY TypesNext, EndedRun
<1>1. CASE StartProvisioning(n) \/ AcquirePreparation(n) \/ MintTokens(n) \/ BeginProvision(n)
  BY <1>0, <1>1, GoToType DEF StartProvisioning, AcquirePreparation, MintTokens, BeginProvision
<1>2. CASE PreparePermits(n)
  BY <1>0, <1>2, GoToType DEF PreparePermits, Proceed
<1>3. CASE HandoffPermit(n)
  BY <1>0, <1>3, GoToType DEF HandoffPermit, Proceed
<1>4. CASE CreateVolume(n)
  BY <1>0, <1>4, GoToType DEF CreateVolume
<1>5. CASE CreateHelper(n)
  BY <1>0, <1>5, GoToType DEF CreateHelper, AfterMount
<1>6. CASE CopyFiles(n) \/ RemoveHelper(n)
  BY <1>0, <1>6, GoToType DEF CopyFiles, RemoveHelper
<1>7. CASE FinishPrepare(n)
  <2>1. volumes' = volumes /\ runs[n].pc = "unwritten" /\ runs'[n].pc \in {"mint", "undo"}
    BY <1>7 DEF FinishPrepare, RunRows
  <2> QED
    BY <1>0, <2>1
<1>8. CASE UndoPrepare(n)
  BY <1>0, <1>8, GoToType DEF UndoPrepare
<1>9. CASE CallProvision(n)
  <2>1. volumes' = volumes /\ runs[n].pc = "admitted" /\ runs'[n].pc \in {"mount", "error"}
    BY <1>9, GoToType DEF CallProvision, RunRows
  <2>2. runs'[n].pc = "mount" => sandboxes'[n] = "asked"
    BY <1>9, GoToType DEF CallProvision, RunRows
  <2> QED
    BY <1>0, <2>1, <2>2
<1>10. CASE GetHandle(n)
  <2>1. /\ UNCHANGED <<job, volumes, sandboxes>> /\ runs[n].pc = "mount"
        /\ sandboxes[n] # "asked"
    BY <1>10 DEF GetHandle, Contents
  <2>2. runs'[n].pc = "mounted"
    BY <1>10 DEF GetHandle, RunRows
  <2> QED
    BY <2>1, <2>2
<1>11. CASE Bind(n) \/ ReleasePreparation(n) \/ AgentEnds(n) \/ RetryOrFail(n)
  BY <1>0, <1>11, GoToType, EscapeType DEF Bind, ReleasePreparation, AgentEnds, RetryOrFail
<1>12. CASE PrepareFails(n) \/ Throws(n) \/ CatchError(n)
  BY <1>0, <1>12, GoToType, EscapeType DEF PrepareFails, Throws, CatchError
<1>13. CASE FinishRun(n)
  BY <1>0, <1>13 DEF FinishRun
<1>14. CASE RunDies(n)
  BY <1>0, <1>14 DEF RunDies
<1> QED
  BY <1>1, <1>2, <1>3, <1>4, <1>5, <1>6, <1>7, <1>8, <1>9, <1>10, <1>11, <1>12, <1>13,
     <1>14 DEF RunStep

\* A claimed Job becomes provisioning, nothing else does.
LEMMA ProvisioningBefore ==
  ASSUME IInv, [Next]_vars, job'.status = "provisioning"
  PROVE  job.status \in {"claimed", "provisioning"}
<1>0. TypeOK /\ job \in JobRows
  BY Types DEF IInv
<1>1. CASE job' = job
  BY <1>1
<1>2. CASE OthersWrite \/ BootRequeues
  BY <1>0, <1>2, OthersEffect
<1>3. CASE \E n \in Attempts : Claim(n)
  BY <1>0, <1>3 DEF Claim
<1>4. ASSUME NEW n \in Attempts, RunActs(n) PROVE job.status \in {"claimed", "provisioning"}
  BY <1>0, <1>4, EndType DEF RunActs, StartProvisioning, BeginProvision, Bind, AgentEnds,
     RetryOrFail, Escape, OwnsProvisioning, JobRows
<1> QED
  BY <1>1, <1>2, <1>3, <1>4, JobMoves

LEMMA VolumeInvStep ==
  ASSUME IInv, [Next]_vars
  PROVE  VolumeInv'
<1>0. /\ TypeOK /\ JobInv /\ RunInv /\ VolumeInv
      /\ volumes \in [Attempts -> Volumes] /\ sandboxes \in [Attempts -> Mounts]
  BY Types DEF IInv
<1>1. job.latest \in Nat /\ job'.latest \in Nat /\ job.latest <= job'.latest
  BY JobEffect
<1>2. ASSUME NEW n \in Attempts, volumes'[n] # "absent" \/ sandboxes'[n] # "none"
      PROVE  n <= job'.latest
  <2>1. n \in Nat /\ (volumes[n] # "absent" \/ sandboxes[n] # "none" => n <= job.latest)
        /\ (runs[n].pc # "idle" => n <= job.latest)
    BY <1>0 DEF Attempts, VolumeInv, RunInv
  <2>2. ASSUME NEW m \in Attempts, RunStep(m)
        PROVE  \/ volumes'[n] = volumes[n] /\ sandboxes'[n] = sandboxes[n]
               \/ runs[n].pc # "idle"
    <3>1. Own(m)
      BY <1>0, <2>2, OwnStep
    <3> QED
      BY <3>1 DEF Own
  <2>3. ASSUME NEW c \in Cleaners, CleanVolume(c), volumes'[n] # "absent"
        PROVE  volumes'[n] = volumes[n]
    BY <1>0, <2>3 DEF CleanVolume
  <2>4. ASSUME NEW m \in Attempts, ComeUp(m)
        PROVE  \/ volumes'[n] = volumes[n] /\ sandboxes'[n] = sandboxes[n]
               \/ sandboxes[n] # "none"
    BY <1>0, <2>4 DEF ComeUp
  <2>5. ASSUME NEW m \in Attempts, DestroyOrphan(m), sandboxes'[n] # "none"
        PROVE  sandboxes'[n] = sandboxes[n]
    BY <1>0, <2>5 DEF DestroyOrphan
  <2> QED
    BY <1>1, <2>1, <1>2, <2>2, <2>3, <2>4, <2>5, DockerMoves
<1>3. ASSUME NEW n \in Attempts, Serving(n)'
      PROVE  /\ runs'[n].pc \in Filling => volumes'[n] = "empty"
             /\ runs'[n].pc \in Filled => volumes'[n] = "filled"
             /\ job'.status = "provisioning" => sandboxes'[n] \in MountOf(runs'[n].pc)
  <2> DEFINE Goal == /\ runs'[n].pc \in Filling => volumes'[n] = "empty"
                     /\ runs'[n].pc \in Filled => volumes'[n] = "filled"
                     /\ job'.status = "provisioning" =>
                          sandboxes'[n] \in MountOf(runs'[n].pc)
  <2>0. TypeOK' /\ sandboxes'[n] \in Mounts
    BY <1>0, TypeStep, TypesNext
  <2>1. CASE ~Serving(n)
    BY <1>3, <2>0, <2>1, ServingBefore DEF Filling, Filled, MountOf
  <2>2. CASE Serving(n)
    <3>0. /\ runs[n].pc \in Filling => volumes[n] = "empty"
          /\ runs[n].pc \in Filled => volumes[n] = "filled"
          /\ job.status = "provisioning" => sandboxes[n] \in MountOf(runs[n].pc)
          /\ job.status = "claimed" => runs[n].pc \in BeforeStart
      BY <1>0, <2>2 DEF VolumeInv, RunInv
    <3>1. CASE RunStep(n) \/ RunDies(n)
      BY <1>0, <2>0, <3>0, <3>1, OwnVolume DEF MountOf
    <3>2. ASSUME runs'[n] = runs[n], volumes'[n] = volumes[n],
                 sandboxes'[n] = sandboxes[n] \/ DestroyOrphan(n)
          PROVE  Goal
      <4>1. CASE sandboxes'[n] = sandboxes[n]
        BY <2>0, <3>0, <3>2, <4>1, ProvisioningBefore DEF MountOf, BeforeStart
      <4>2. CASE DestroyOrphan(n)
        <5>1. /\ job.status \notin Executing \/ runs[n].pc \in {"error", "caught", "finally"}
              /\ job' = job
          BY <2>2, <4>2 DEF DestroyOrphan, Serving, UnchangedOwner
        <5> QED
          BY <2>0, <3>0, <3>2, <5>1 DEF Executing, Owned, MountOf
      <4> QED
        BY <3>2, <4>1, <4>2
    <3>3. ASSUME NEW m \in Attempts, m # n, RunStep(m) \/ RunDies(m) PROVE Goal
      <4>1. Own(m)
        BY <1>0, <3>3, OwnStep
      <4> QED
        BY <3>2, <3>3, <4>1 DEF Own
    <3>4. ASSUME NEW m \in Attempts, Claim(m) PROVE Goal
      <4>1. CASE m = n
        BY <1>0, <2>0, <3>4, <4>1, GoToType DEF Claim, RunPcs, Filling, Filled, MountOf
      <4>2. CASE m # n
        BY <1>0, <3>2, <3>4, <4>2, GoToType DEF Claim, RunPcs, UnchangedDocker
      <4> QED
        BY <4>1, <4>2
    <3>5. CASE ComeUp(n)
      <4>1. /\ runs' = runs /\ job' = job /\ sandboxes[n] = "asked"
            /\ volumes'[n] = AfterMount(n) /\ sandboxes'[n] = AfterMount(n)
        BY <1>0, <3>5 DEF ComeUp, UnchangedOwner
      <4>2. volumes[n] # "absent" => AfterMount(n) = volumes[n]
        BY DEF AfterMount
      <4> QED
        BY <2>0, <3>0, <4>1, <4>2 DEF Filled, MountOf
    <3>6. ASSUME NEW m \in Attempts, m # n, ComeUp(m)
          PROVE  volumes'[n] = volumes[n] /\ sandboxes'[n] = sandboxes[n]
      BY <1>0, <3>6 DEF ComeUp
    <3>7. ASSUME runs' = runs, ~\E m \in Attempts : RunStep(m), ~ComeUp(n) PROVE Goal
      <4>1. volumes'[n] = volumes[n]
        BY <2>2, <3>6, <3>7, DockerMoves, CleanedIsClosed
      <4>2. ASSUME NEW m \in Attempts, DestroyOrphan(m), m # n
            PROVE  sandboxes'[n] = sandboxes[n]
        BY <1>0, <4>2 DEF DestroyOrphan
      <4> QED
        BY <3>2, <3>6, <3>7, <4>1, <4>2, DockerMoves
    <3> QED
      BY <3>1, <3>3, <3>4, <3>5, <3>7, RunMoves
  <2> QED
    BY <2>1, <2>2
<1> QED
  BY <1>2, <1>3 DEF VolumeInv

-----------------------------------------------------------------------------
(***************************************************************************)
(* Handles.                                                                *)
(***************************************************************************)
LEMMA OwnHandle ==
  ASSUME TypeOK, NEW n \in Attempts, RunStep(n) \/ RunDies(n)
  PROVE  /\ runs'[n].pc = "done" \/ runs'[n].handle = runs[n].handle \/ runs'[n].handle
         /\ \/ runs'[n].pc \notin {"mounted", "bind"}
            \/ runs[n].pc \in {"mounted", "bind"}
            \/ runs'[n].handle
<1> USE Types DEF RunPcs
<1>0. /\ [NoRun EXCEPT !.pc = "done"].pc = "done"
      /\ [NoRun EXCEPT !.pc = "done", !.lost = runs[n].lost].pc = "done"
  BY EndedRun
<1>1. CASE StartProvisioning(n) \/ AcquirePreparation(n) \/ MintTokens(n) \/ BeginProvision(n)
  BY <1>1, GoToType DEF StartProvisioning, AcquirePreparation, MintTokens, BeginProvision
<1>2. CASE PreparePermits(n) \/ HandoffPermit(n)
  BY <1>2, GoToType DEF PreparePermits, HandoffPermit, Proceed
<1>3. CASE CreateVolume(n) \/ CreateHelper(n) \/ CopyFiles(n) \/ RemoveHelper(n)
  BY <1>3, GoToType DEF CreateVolume, CreateHelper, CopyFiles, RemoveHelper
<1>4. CASE FinishPrepare(n)
  BY <1>4 DEF FinishPrepare, RunRows
<1>5. CASE UndoPrepare(n) \/ PrepareFails(n)
  BY <1>5, GoToType DEF UndoPrepare, PrepareFails
<1>6. CASE CallProvision(n)
  <2>1. runs'[n].pc \in {"mount", "error"} /\ runs'[n].handle = runs[n].handle
    BY <1>6, GoToType DEF CallProvision, RunRows
  <2> QED
    BY <2>1
<1>7. CASE GetHandle(n)
  BY <1>7 DEF GetHandle, RunRows
<1>8. CASE Bind(n) \/ ReleasePreparation(n) \/ AgentEnds(n) \/ RetryOrFail(n)
  BY <1>8, GoToType, EscapeType DEF Bind, ReleasePreparation, AgentEnds, RetryOrFail
<1>9. CASE Throws(n) \/ CatchError(n)
  BY <1>9, GoToType, EscapeType DEF Throws, CatchError
<1>10. CASE FinishRun(n) \/ RunDies(n)
  BY <1>0, <1>10 DEF FinishRun, RunDies
<1> QED
  BY <1>1, <1>2, <1>3, <1>4, <1>5, <1>6, <1>7, <1>8, <1>9, <1>10 DEF RunStep

LEMMA HandleInvStep ==
  ASSUME IInv, [Next]_vars
  PROVE  HandleInv'
<1>0. /\ TypeOK /\ JobInv /\ RunInv /\ HandleInv /\ job \in JobRows
      /\ runs \in [Attempts -> RunRows]
  BY Types DEF IInv
<1>1. ASSUME NEW n \in Attempts, Claim(n)
      PROVE  /\ runs'[n].pc = "claimed" /\ job'.status = "claimed"
             /\ \A m \in Attempts : m # n => runs'[m] = runs[m]
  BY <1>0, <1>1, GoToType DEF Claim, RunPcs
<1>2. ASSUME NEW n \in Attempts, runs'[n].pc \in {"mounted", "bind"} PROVE runs'[n].handle
  <2>1. runs[n].pc \in {"mounted", "bind"} => runs[n].handle
    BY <1>0 DEF HandleInv
  <2>2. CASE RunStep(n) \/ RunDies(n)
    BY <1>0, <1>2, <2>1, <2>2, OwnHandle
  <2>3. ASSUME NEW m \in Attempts, m # n, RunStep(m) \/ RunDies(m) PROVE runs'[n] = runs[n]
    BY <1>0, <2>3, OwnStep DEF Own
  <2> QED
    BY <1>1, <1>2, <2>1, <2>2, <2>3, RunMoves
<1>3. ASSUME NEW n \in Attempts, Serving(n)', job'.status = "running"
      PROVE  runs'[n].pc = "done" \/ runs'[n].handle
  <2>1. CASE job' = job
    <3>1. Serving(n) /\ job.status = "running"
      BY <1>3, <2>1 DEF Serving
    <3>2. runs[n].pc = "done" \/ runs[n].handle
      BY <1>0, <3>1 DEF HandleInv
    <3>3. CASE RunStep(n) \/ RunDies(n)
      BY <1>0, <3>2, <3>3, OwnStep, OwnHandle DEF Own
    <3>4. ASSUME NEW m \in Attempts, m # n, RunStep(m) \/ RunDies(m) PROVE runs'[n] = runs[n]
      BY <1>0, <3>4, OwnStep DEF Own
    <3> QED
      BY <1>1, <1>3, <3>2, <3>3, <3>4, RunMoves
  <2>2. CASE OthersWrite \/ BootRequeues
    BY <1>0, <1>3, <2>2, OthersEffect
  <2>3. CASE \E m \in Attempts : Claim(m)
    BY <1>1, <1>3, <2>3
  <2>4. ASSUME NEW m \in Attempts, RunActs(m), job' # job
        PROVE  runs'[n].pc = "done" \/ runs'[n].handle
    <3>1. CASE Bind(m)
      <4>1. job.latest = m /\ GoTo(m, "bound") /\ runs[m].pc = "bind" /\ job'.latest = m
        BY <1>0, <2>4, <3>1 DEF Bind, OwnsProvisioning, JobRows
      <4>2. runs'[m].handle
        BY <1>0, <4>1, GoToType DEF HandleInv, RunPcs
      <4> QED
        BY <1>3, <4>1, <4>2 DEF Serving
    <3>2. CASE ~Bind(m)
      BY <1>0, <1>3, <2>4, <3>2, EndType DEF RunActs, StartProvisioning, BeginProvision,
         AgentEnds, RetryOrFail, Escape, OwnsProvisioning, JobRows
    <3> QED
      BY <3>1, <3>2
  <2> QED
    BY <2>1, <2>2, <2>3, <2>4, JobMoves
<1> QED
  BY <1>2, <1>3 DEF HandleInv

-----------------------------------------------------------------------------
(***************************************************************************)
(* Cleanups.                                                               *)
(***************************************************************************)
LEMMA CleanerMoves ==
  ASSUME [Next]_vars
  PROVE  /\ \/ cleaners' = cleaners
            \/ \E n \in Attempts : FinishRun(n)
            \/ \E s \in Scans : StartScan(s)
            \/ \E c \in Cleaners : CleanerStep(c)
<1>1. ASSUME NEW n \in Attempts, RunStep(n) PROVE cleaners' = cleaners \/ FinishRun(n)
  BY <1>1 DEF RunStep, StartProvisioning, BeginProvision, Bind, AgentEnds, RetryOrFail,
     AcquirePreparation, PreparePermits, Proceed, CreateVolume, CreateHelper, CopyFiles,
     RemoveHelper, FinishPrepare, PrepareFails, UndoPrepare, MintTokens, CallProvision,
     GetHandle, HandoffPermit, ReleasePreparation, Throws, CatchError
<1>2. \A n \in Attempts :
        Claim(n) \/ ComeUp(n) \/ DestroyOrphan(n) \/ RunDies(n) => cleaners' = cleaners
  BY DEF Claim, ComeUp, DestroyOrphan, RunDies
<1> QED
  BY <1>1, <1>2 DEF Next, Works, Breaks, vars, OthersWrite, BootRequeues, LoseLock

\* What CleanInv says of one cleanup.
Frozen(r) ==
  /\ \A n \in r.names : n <= job.latest /\ (r.pc \in Permits => ~Serving(n))
  /\ r.pc \in Permits \ {"next"} => r.at \in Attempts /\ r.at <= job.latest /\ ~Serving(r.at)

LEMMA ContinueFrozen ==
  ASSUME IInv, NEW c \in Cleaners, NEW condition, NEW next \in CleanerPcs,
         Continue(c, condition, next), Frozen([cleaners[c] EXCEPT !.pc = next]) \/ ~condition
  PROVE  Frozen(cleaners'[c]) /\ \A d \in Cleaners : d # c => cleaners'[d] = cleaners[d]
<1>0. TypeOK /\ cleaners \in [Cleaners -> CleanRows]
  BY Types DEF IInv
<1>1. CASE Quit(c)
  BY <1>0, <1>1, QuitType DEF Frozen, Permits
<1>2. CASE Move(c, next) /\ condition
  BY <1>0, <1>2 DEF Move
<1> QED
  BY <1>1, <1>2 DEF Continue

LEMMA CleanerFrozen ==
  ASSUME IInv, NEW c \in Cleaners, CleanerStep(c)
  PROVE  Frozen(cleaners'[c]) /\ \A d \in Cleaners : d # c => cleaners'[d] = cleaners[d]
<1> DEFINE Goal == /\ Frozen(cleaners'[c])
                   /\ \A d \in Cleaners : d # c => cleaners'[d] = cleaners[d]
<1>0. /\ TypeOK /\ VolumeInv /\ cleaners \in [Cleaners -> CleanRows]
      /\ volumes \in [Attempts -> Volumes]
  BY Types DEF IInv
<1>1. /\ \A n \in cleaners[c].names :
           n \in Attempts /\ n <= job.latest /\ (cleaners[c].pc \in Permits => ~Serving(n))
      /\ cleaners[c].pc \in Permits \ {"next"} =>
           /\ cleaners[c].at \in Attempts /\ cleaners[c].at <= job.latest
           /\ ~Serving(cleaners[c].at)
  BY <1>0 DEF IInv, CleanInv, CleanRows
<1>2. \A n \in Attempts : Labelled(n) => n <= job.latest
  BY <1>0 DEF VolumeInv, Labelled
<1>3. \A n : Permitted(c) => ~Serving(n)
  BY DEF Permitted, Serving
<1>4. \A pc \in CleanerPcs :
        /\ [cleaners[c] EXCEPT !.pc = pc].pc = pc
        /\ [cleaners[c] EXCEPT !.pc = pc].names = cleaners[c].names
        /\ [cleaners[c] EXCEPT !.pc = pc].at = cleaners[c].at
  BY <1>0 DEF CleanRows
<1> HIDE DEF Goal
<1>5. CASE Quit(c)
  BY <1>0, <1>5, QuitType DEF Frozen, Permits, Goal
<1>6. CASE AcquireCleanup(c) /\ ~Quit(c)
  <2>1. PICK names \in Hints(c) :
          cleaners' = [cleaners EXCEPT
             ![c].pc = IF c \in Finals THEN "revoke"
                       ELSE IF names = {} THEN "list" ELSE "listed",
             ![c].names = names,
             ![c].status = job.status, ![c].latest = job.latest]
    BY <1>6, Zenon DEF AcquireCleanup
  <2>2. \A n \in names : n <= job.latest
    BY <1>1, <1>2 DEF Hints
  <2>3. /\ cleaners'[c].names = names /\ cleaners'[c].pc \in {"revoke", "list", "listed"}
        /\ \A d \in Cleaners : d # c => cleaners'[d] = cleaners[d]
    BY <1>0, <2>1 DEF CleanRows
  <2> QED
    BY <2>2, <2>3 DEF Frozen, Permits, Goal
<1>7. CASE RevokeTokens(c)
  <2>1. Frozen([cleaners[c] EXCEPT !.pc = "listed"])
    BY <1>1, <1>4 DEF Frozen, CleanerPcs, Permits
  <2> QED
    BY <1>7, <2>1, ContinueFrozen DEF RevokeTokens, CleanerPcs, Goal
<1>8. CASE ListVolumes(c)
  <2>1. /\ cleaners'[c].names = {n \in Attempts : Labelled(n)} /\ cleaners'[c].pc = "listed"
        /\ \A d \in Cleaners : d # c => cleaners'[d] = cleaners[d]
    BY <1>0, <1>8 DEF ListVolumes, CleanRows
  <2> QED
    BY <1>2, <2>1 DEF Frozen, Permits, Goal
<1>9. CASE PermitNames(c)
  <2>1. Permitted(c) => Frozen([cleaners[c] EXCEPT !.pc = "next"])
    BY <1>1, <1>3, <1>4 DEF Frozen, CleanerPcs, Permits
  <2> QED
    BY <1>9, <2>1, ContinueFrozen DEF PermitNames, CleanerPcs, Goal
<1>10. CASE TakeName(c) /\ ~Quit(c)
  <2>1. PICK n \in cleaners[c].names, pc \in {"helper", "volume"} :
          cleaners' = [cleaners EXCEPT ![c].pc = pc, ![c].names = @ \ {n}, ![c].at = n]
    BY <1>10 DEF TakeName
  <2>2. /\ cleaners'[c].names = cleaners[c].names \ {n} /\ cleaners'[c].at = n
        /\ cleaners'[c].pc \in {"helper", "volume"}
        /\ \A d \in Cleaners : d # c => cleaners'[d] = cleaners[d]
    BY <1>0, <2>1 DEF CleanRows
  <2>3. cleaners[c].pc = "next"
    BY <1>10 DEF TakeName
  <2> QED
    BY <1>1, <2>2, <2>3 DEF Frozen, Permits, Goal
<1>11. CASE CleanHelper(c)
  <2>1. cleaners[c].pc = "helper" /\ Move(c, "volume")
    BY <1>11 DEF CleanHelper
  <2> QED
    BY <1>0, <1>1, <2>1, MoveType DEF Frozen, Permits, CleanerPcs, Goal
<1>12. CASE PermitVolume(c)
  <2>1. /\ Frozen([cleaners[c] EXCEPT !.pc = "next"])
        /\ Frozen([cleaners[c] EXCEPT !.pc = "rm"])
    BY <1>1, <1>4, <1>12 DEF PermitVolume, Frozen, CleanerPcs, Permits
  <2> QED
    BY <1>12, <2>1, ContinueFrozen DEF PermitVolume, CleanerPcs, Goal
<1>13. CASE CleanVolume(c)
  <2>1. cleaners[c].pc = "rm" /\ (Move(c, "volume") \/ Move(c, "next"))
    BY <1>13 DEF CleanVolume
  <2> QED
    BY <1>0, <1>1, <2>1, MoveType DEF Frozen, Permits, CleanerPcs, Goal
<1> QED
  BY <1>5, <1>6, <1>7, <1>8, <1>9, <1>10, <1>11, <1>12, <1>13 DEF CleanerStep, EndCleanup, Goal

LEMMA CleanInvStep ==
  ASSUME IInv, [Next]_vars
  PROVE  CleanInv'
<1>0. /\ TypeOK /\ CleanInv /\ RunInv /\ cleaners \in [Cleaners -> CleanRows]
      /\ cleaners' \in [Cleaners -> CleanRows]
  BY Types, TypesNext, TypeStep DEF IInv
<1>1. /\ job.latest \in Nat /\ job'.latest \in Nat /\ job.latest <= job'.latest
      /\ \A n \in Attempts : n <= job.latest /\ ~Serving(n) => n <= job'.latest /\ ~Serving(n)'
      /\ \A n \in Attempts : n <= job.latest => n <= job'.latest
  BY JobEffect DEF Attempts
<1>2. \A c \in Cleaners : cleaners[c].names \subseteq Attempts /\ cleaners'[c].names \subseteq Attempts
  BY <1>0 DEF CleanRows
<1>3. ASSUME NEW c \in Cleaners PROVE Frozen(cleaners[c])
  BY <1>0, <1>3 DEF CleanInv, Frozen
<1>4. ASSUME NEW c \in Cleaners, Frozen(cleaners'[c])
      PROVE  /\ \A n \in cleaners'[c].names :
                  n <= job'.latest /\ (cleaners'[c].pc \in Permits => ~Serving(n)')
             /\ cleaners'[c].pc \in Permits \ {"next"} =>
                  /\ cleaners'[c].at \in Attempts
                  /\ cleaners'[c].at <= job'.latest
                  /\ ~(job'.active /\ job'.latest = cleaners'[c].at)
  BY <1>1, <1>2, <1>4 DEF Frozen, Serving
<1>5. ASSUME NEW c \in Cleaners PROVE Frozen(cleaners'[c])
  <2>1. CASE cleaners'[c] = cleaners[c]
    BY <1>3, <2>1
  <2>2. ASSUME NEW n \in Attempts, FinishRun(n) PROVE Frozen(cleaners'[c])
    <3>1. n <= job.latest
      BY <1>0, <2>2 DEF RunInv, FinishRun
    <3>2. CASE c = Finally(n)
      <4>1. cleaners'[c].pc = "waiting" /\ cleaners'[c].names \subseteq {n}
        BY <1>0, <2>2, <3>2 DEF FinishRun, CleanRows
      <4> QED
        BY <3>1, <4>1 DEF Frozen, Permits
    <3>3. CASE c # Finally(n)
      BY <1>0, <2>1, <2>2, <3>3 DEF FinishRun
    <3> QED
      BY <3>2, <3>3
  <2>3. ASSUME NEW s \in Scans, StartScan(s) PROVE Frozen(cleaners'[c])
    <3>1. Move(s, "waiting") /\ s \in Cleaners
      BY <2>3, Members DEF StartScan
    <3> QED
      BY <1>0, <1>3, <2>1, <3>1, MoveType DEF Frozen, Permits, CleanerPcs
  <2>4. ASSUME NEW d \in Cleaners, CleanerStep(d) PROVE Frozen(cleaners'[c])
    BY <2>1, <2>4, CleanerFrozen
  <2> QED
    BY <2>1, <2>2, <2>3, <2>4, CleanerMoves
<1> QED
  BY <1>4, <1>5 DEF CleanInv, Serving

-----------------------------------------------------------------------------
(***************************************************************************)
(* Tokens: a run gets past the lock only while no cleanup holds it.        *)
(***************************************************************************)
LEMMA OwnUnlocked ==
  ASSUME TypeOK, NEW n \in Attempts, RunStep(n) \/ RunDies(n), lock # Free,
         runs[n].pc \in Unlocked
  PROVE  runs'[n].pc \in Unlocked
<1> USE DEF Unlocked
<1>0. /\ [NoRun EXCEPT !.pc = "done"].pc = "done" /\ runs \in [Attempts -> RunRows]
      /\ [NoRun EXCEPT !.pc = "done", !.lost = runs[n].lost].pc = "done"
  BY Types, EndedRun
<1>1. CASE StartProvisioning(n) \/ Throws(n) \/ CatchError(n) \/ RetryOrFail(n)
  BY <1>1, GoToType, EscapeType DEF StartProvisioning, Throws, CatchError, RetryOrFail, RunPcs
<1>2. CASE FinishRun(n) \/ RunDies(n)
  BY <1>0, <1>2 DEF FinishRun, RunDies
<1>3. ~AcquirePreparation(n)
  BY DEF AcquirePreparation
<1>4. ~\/ PreparePermits(n) \/ CreateVolume(n) \/ CreateHelper(n) \/ CopyFiles(n)
       \/ RemoveHelper(n) \/ FinishPrepare(n) \/ PrepareFails(n) \/ UndoPrepare(n)
       \/ MintTokens(n) \/ BeginProvision(n) \/ CallProvision(n) \/ GetHandle(n)
       \/ HandoffPermit(n) \/ Bind(n) \/ ReleasePreparation(n) \/ AgentEnds(n)
  BY DEF PreparePermits, CreateVolume, CreateHelper, CopyFiles, RemoveHelper, FinishPrepare,
     PrepareFails, UndoPrepare, MintTokens, BeginProvision, CallProvision, GetHandle,
     HandoffPermit, Bind, ReleasePreparation, AgentEnds
<1> QED
  BY <1>1, <1>2, <1>3, <1>4 DEF RunStep

\* A cleanup comes to hold the lock, and a finally to revoke, by acquiring only.
LEMMA RevokingBefore ==
  ASSUME IInv, [Next]_vars, NEW m \in Attempts,
         cleaners'[Finally(m)].pc = "revoke", lock' = Finally(m)
  PROVE  \/ cleaners[Finally(m)].pc = "revoke" /\ lock = Finally(m)
         \/ ~job.active /\ job' = job
<1>0. /\ TypeOK /\ cleaners \in [Cleaners -> CleanRows] /\ Finally(m) \in Cleaners
      /\ Finally(m) # Free /\ \A n \in Attempts : Preparer(n) # Finally(m)
  BY Types, Members DEF IInv, Free, Finally, Preparer
<1>1. ASSUME NEW c \in Cleaners, AcquireCleanup(c)
      PROVE  \/ ~job.active /\ job' = job
             \/ Quit(c)
  BY <1>1 DEF AcquireCleanup, MayClean
<1>2. ASSUME NEW c \in Cleaners, Quit(c)
      PROVE  cleaners[Finally(m)].pc = "revoke" /\ lock = Finally(m)
  BY <1>0, <1>2, QuitType
<1>3. ASSUME NEW c \in Cleaners, NEW next \in CleanerPcs \ {"revoke"}, Move(c, next),
             UNCHANGED lock
      PROVE  cleaners[Finally(m)].pc = "revoke" /\ lock = Finally(m)
  BY <1>0, <1>3, MoveType
<1>4. ASSUME NEW c \in Cleaners, CleanerStep(c), ~AcquireCleanup(c), ~Quit(c)
      PROVE  cleaners[Finally(m)].pc = "revoke" /\ lock = Finally(m)
  <2>1. CASE ListVolumes(c)
    BY <1>0, <2>1 DEF ListVolumes, CleanRows, UnchangedOwner
  <2>2. CASE TakeName(c)
    <3>1. PICK n \in cleaners[c].names, pc \in {"helper", "volume"} :
            /\ cleaners' = [cleaners EXCEPT ![c].pc = pc, ![c].names = @ \ {n}, ![c].at = n]
            /\ UNCHANGED lock
      BY <1>4, <2>2 DEF TakeName
    <3>2. cleaners'[c].pc = pc /\ \A d \in Cleaners : d # c => cleaners'[d] = cleaners[d]
      BY <1>0, <3>1 DEF CleanRows
    <3> QED
      BY <1>0, <3>1, <3>2
  <2>3. CASE CleanHelper(c) \/ CleanVolume(c)
    BY <1>3, <2>3 DEF CleanHelper, CleanVolume, UnchangedOwner, CleanerPcs
  <2>4. CASE RevokeTokens(c) \/ PermitNames(c) \/ PermitVolume(c)
    BY <1>3, <1>4, <2>4 DEF RevokeTokens, PermitNames, PermitVolume, Continue, CleanerPcs
  <2> QED
    BY <1>4, <2>1, <2>2, <2>3, <2>4 DEF CleanerStep, EndCleanup
<1>5. ASSUME NEW n \in Attempts, FinishRun(n)
      PROVE  cleaners[Finally(m)].pc = "revoke" /\ lock = Finally(m)
  <2>1. cleaners'[Finally(n)].pc = "waiting" /\ Finally(n) \in Cleaners
    BY <1>0, <1>5, Members DEF FinishRun, CleanRows
  <2>2. \A d \in Cleaners : d # Finally(n) => cleaners'[d] = cleaners[d]
    BY <1>0, <1>5 DEF FinishRun
  <2>3. lock' = lock \/ lock' = Free
    BY <1>0, <1>5, ReleaseType DEF FinishRun
  <2> QED
    BY <1>0, <2>1, <2>2, <2>3
<1>6. ASSUME NEW s \in Scans, StartScan(s)
      PROVE  cleaners[Finally(m)].pc = "revoke" /\ lock = Finally(m)
  BY <1>3, <1>6, Members DEF StartScan, CleanerPcs, UnchangedOwner
<1>7. ASSUME NEW n \in Attempts, RunStep(n) \/ RunDies(n), ~FinishRun(n)
      PROVE  cleaners' = cleaners /\ (lock' = lock \/ lock' = Free \/ lock' = Preparer(n))
  BY <1>7 DEF RunStep, StartProvisioning, BeginProvision, Bind, AgentEnds, RetryOrFail,
     AcquirePreparation, PreparePermits, Proceed, CreateVolume, CreateHelper, CopyFiles,
     RemoveHelper, FinishPrepare, PrepareFails, UndoPrepare, MintTokens, CallProvision,
     GetHandle, HandoffPermit, ReleasePreparation, Throws, CatchError, RunDies, Release,
     UnchangedOwner
<1>8. ASSUME NEW n \in Attempts, Claim(n) \/ ComeUp(n) \/ DestroyOrphan(n)
      PROVE  cleaners' = cleaners /\ lock' = lock
  BY <1>8 DEF Claim, ComeUp, DestroyOrphan, UnchangedOwner
<1>9. OthersWrite \/ BootRequeues \/ UNCHANGED vars => cleaners' = cleaners /\ lock' = lock
  BY DEF OthersWrite, BootRequeues, vars
<1>10. LoseLock => lock' = Free
  BY DEF LoseLock
<1> QED
  BY <1>0, <1>1, <1>2, <1>4, <1>5, <1>6, <1>7, <1>8, <1>9, <1>10 DEF Next, Works, Breaks

LEMMA RevokeInvStep ==
  ASSUME IInv, [Next]_vars
  PROVE  RevokeInv'
<1> SUFFICES ASSUME NEW m \in Attempts, NEW n \in Attempts, Serving(n)',
                    cleaners'[Finally(m)].pc = "revoke", lock' = Finally(m)
             PROVE  runs'[n].pc \in Unlocked
  BY DEF RevokeInv, Finally, Serving
<1>0. TypeOK /\ RevokeInv /\ Finally(m) # Free
  BY DEF IInv, Finally, Free
<1>1. CASE ~Serving(n)
  BY <1>1, ServingBefore DEF Unlocked
<1>2. CASE Serving(n)
  <2>1. cleaners[Finally(m)].pc = "revoke" /\ lock = Finally(m)
    BY <1>2, RevokingBefore DEF Serving
  <2>2. runs[n].pc \in Unlocked
    BY <1>0, <1>2, <2>1 DEF RevokeInv
  <2>3. CASE runs'[n] = runs[n]
    BY <2>2, <2>3
  <2>4. CASE RunStep(n) \/ RunDies(n)
    BY <1>0, <2>1, <2>2, <2>4, OwnUnlocked
  <2>5. ASSUME NEW k \in Attempts, k # n, RunStep(k) \/ RunDies(k) PROVE runs'[n] = runs[n]
    BY <1>0, <2>5, OwnStep DEF Own
  <2>6. ASSUME NEW k \in Attempts, Claim(k) PROVE runs'[n].pc \in Unlocked
    <3>1. runs'[k].pc = "claimed" /\ \A j \in Attempts : j # k => runs'[j] = runs[j]
      BY <1>0, <2>6, GoToType DEF Claim, RunPcs
    <3> QED
      BY <2>2, <3>1 DEF Unlocked
  <2> QED
    BY <2>3, <2>4, <2>5, <2>6, RunMoves
<1> QED
  BY <1>1, <1>2

-----------------------------------------------------------------------------
(***************************************************************************)
(* The running Job.                                                        *)
(***************************************************************************)
\* A run past the binding leaves volume and sandbox alone while its Job runs; one
\* in its finally may destroy the sandbox, and then says so.
LEMMA OwnRunning ==
  ASSUME TypeOK, NEW n \in Attempts, RunStep(n) \/ RunDies(n), AfterBind(runs[n])
  PROVE  /\ volumes' = volumes
         /\ \/ sandboxes' = sandboxes
            \/ sandboxes'[n] = "none" /\ runs'[n].pc = "done" /\ runs'[n].lost
<1> USE DEF UnchangedDocker, AfterBind
<1>1. ~\/ StartProvisioning(n) \/ AcquirePreparation(n) \/ PreparePermits(n)
       \/ CreateVolume(n) \/ CreateHelper(n) \/ CopyFiles(n) \/ RemoveHelper(n)
       \/ FinishPrepare(n) \/ PrepareFails(n) \/ UndoPrepare(n) \/ MintTokens(n)
       \/ BeginProvision(n) \/ CallProvision(n) \/ GetHandle(n) \/ HandoffPermit(n)
       \/ Bind(n)
  BY DEF StartProvisioning, AcquirePreparation, PreparePermits, CreateVolume, CreateHelper,
     CopyFiles, RemoveHelper, FinishPrepare, PrepareFails, UndoPrepare, MintTokens,
     BeginProvision, CallProvision, GetHandle, HandoffPermit, Bind
<1>2. CASE FinishRun(n)
  <2>1. runs[n].lost /\ runs \in [Attempts -> RunRows] /\ sandboxes \in [Attempts -> Mounts]
    BY <1>2, Types DEF FinishRun
  <2>2. runs'[n] = [NoRun EXCEPT !.pc = "done", !.lost = runs[n].lost]
    BY <1>2, <2>1 DEF FinishRun
  <2>3. runs'[n].pc = "done" /\ runs'[n].lost
    BY <2>1, <2>2, EndedRun
  <2>4. sandboxes' = sandboxes \/ sandboxes'[n] = "none"
    BY <1>2, <2>1 DEF FinishRun
  <2> QED
    BY <1>2, <2>3, <2>4 DEF FinishRun
<1> QED
  BY <1>1, <1>2 DEF RunStep, ReleasePreparation, AgentEnds, Throws, CatchError, RetryOrFail, RunDies

LEMMA RunningStep ==
  ASSUME IInv, [Next]_vars
  PROVE  RunsOnItsAssets'
<1> SUFFICES ASSUME job'.status = "running"
             PROVE  LET n == job'.latest IN
                    /\ volumes'[n] = "filled"
                    /\ \/ sandboxes'[n] = "filled"
                       \/ sandboxes'[n] = "none" /\ runs'[n].pc = "done" /\ runs'[n].lost
  BY DEF RunsOnItsAssets
<1>0. /\ TypeOK /\ JobInv /\ RunInv /\ VolumeInv /\ HandleInv /\ RunsOnItsAssets
      /\ job \in JobRows
      /\ volumes \in [Attempts -> Volumes] /\ sandboxes \in [Attempts -> Mounts]
  BY Types DEF IInv
<1>1. CASE \E n \in Attempts : Bind(n) /\ job' # job
  <2>1. PICK n \in Attempts : Bind(n) /\ job' # job
    BY <1>1
  <2>2. /\ Serving(n) /\ runs[n].pc = "bind" /\ job.status = "provisioning"
        /\ volumes' = volumes /\ sandboxes' = sandboxes
    BY <2>1 DEF Bind, OwnsProvisioning, Serving, UnchangedDocker
  <2>3. job'.latest = n
    BY <1>0, <2>1 DEF Bind, OwnsProvisioning, JobRows
  <2>4. volumes[n] = "filled" /\ sandboxes[n] = "filled"
    BY <1>0, <2>2 DEF VolumeInv, Filled, MountOf
  <2> QED
    BY <2>2, <2>3, <2>4
<1>2. CASE job' = job
  <2> DEFINE n == job.latest
             Gone == sandboxes[n] = "none" /\ runs[n].pc = "done" /\ runs[n].lost
             Left == sandboxes'[n] = "none" /\ runs'[n].pc = "done" /\ runs'[n].lost
  <2>1. job.status = "running" /\ n \in Attempts /\ Serving(n)
    BY <1>0, <1>2 DEF JobInv, Owned, Serving
  <2>2. volumes[n] = "filled" /\ (sandboxes[n] = "filled" \/ Gone)
    BY <1>0, <2>1 DEF RunsOnItsAssets
  <2>3. AfterBind(runs[n])
    BY <1>0, <2>1 DEF RunInv
  <2> HIDE DEF n
  <2>4. ASSUME NEW m \in Attempts, RunStep(m)
        PROVE  volumes'[n] = volumes[n] /\ (sandboxes'[n] = sandboxes[n] \/ Left)
    <3>1. CASE m = n
      BY <1>0, <2>3, <2>4, <3>1, OwnRunning
    <3>2. CASE m # n
      BY <1>0, <2>1, <2>4, <3>2, OwnStep DEF Own
    <3> QED
      BY <3>1, <3>2
  <2>5. ASSUME NEW c \in Cleaners, CleanVolume(c) PROVE volumes'[n] = volumes[n]
    BY <2>1, <2>5, CleanedIsClosed
  <2>6. ASSUME NEW m \in Attempts, DestroyOrphan(m) PROVE sandboxes'[n] = sandboxes[n]
    <3>0. runs[n].pc = "done" \/ runs[n].handle
      BY <1>0, <2>1 DEF HandleInv
    <3>1. m # n
      BY <2>1, <3>0, <2>6 DEF DestroyOrphan, Serving, Executing, Owned
    <3> QED
      BY <1>0, <2>1, <2>6, <3>1 DEF DestroyOrphan
  <2>7. ASSUME NEW m \in Attempts, ComeUp(m)
        PROVE  volumes'[n] = volumes[n] /\ sandboxes'[n] = sandboxes[n]
    BY <1>0, <2>1, <2>2, <2>7 DEF ComeUp
  <2>8. volumes'[n] = "filled" /\ (sandboxes'[n] = sandboxes[n] \/ Left)
    BY <2>2, <2>4, <2>5, <2>6, <2>7, DockerMoves
  <2>9. Gone => runs'[n] = runs[n]
    <3>1. ASSUME NEW m \in Attempts, RunStep(m) \/ RunDies(m), Gone PROVE runs'[n] = runs[n]
      BY <1>0, <2>1, <3>1, OwnStep DEF Own
    <3>2. ASSUME NEW m \in Attempts, Claim(m) PROVE FALSE
      BY <1>2, <2>1, <3>2 DEF Claim
    <3> QED
      BY <3>1, <3>2, RunMoves
  <2> QED
    BY <1>2, <2>2, <2>8, <2>9 DEF n
<1>3. CASE OthersWrite \/ BootRequeues
  BY <1>0, <1>3, OthersEffect
<1>4. CASE \E n \in Attempts : Claim(n)
  BY <1>0, <1>4 DEF Claim
<1>5. ASSUME NEW n \in Attempts, RunActs(n), ~Bind(n), job' # job PROVE FALSE
  <2>1. job'.status # "running"
    BY <1>0, <1>5, EndType DEF RunActs, StartProvisioning, BeginProvision, AgentEnds,
       RetryOrFail, Escape, OwnsProvisioning, JobRows
  <2> QED
    BY <2>1
<1> QED
  BY <1>1, <1>2, <1>3, <1>4, <1>5, JobMoves

LEMMA InvStep ==
  ASSUME IInv, [Next]_vars
  PROVE  IInv'
<1>1. TypeOK'
  BY TypeStep DEF IInv
<1>2. JobInv'
  BY JobEffect
<1> QED
  BY <1>1, <1>2, RunInvStep, VolumeInvStep, HandleInvStep, CleanInvStep, RevokeInvStep,
     RunningStep DEF IInv

\* A step that takes the writer or the volume of an active Attempt is a step of
\* its own run.
LEMMA UndisturbedStep ==
  ASSUME IInv, [Next]_vars, NEW n \in Attempts, Serving(n),
         \/ n \in helpers /\ n \notin helpers'
         \/ volumes[n] # "absent" /\ volumes'[n] = "absent"
  PROVE  runs[n].pc \in {"unwrite", "remove"}
<1>0. TypeOK /\ volumes \in [Attempts -> Volumes]
  BY Types DEF IInv
<1>1. ASSUME NEW c \in Cleaners, CleanVolume(c) \/ CleanHelper(c)
      PROVE  volumes'[n] = volumes[n] /\ (n \in helpers => n \in helpers')
  BY <1>1, CleanedIsClosed
<1>2. ASSUME NEW m \in Attempts, ComeUp(m)
      PROVE  helpers' = helpers /\ (volumes[n] # "absent" => volumes'[n] # "absent")
  BY <1>0, <1>2 DEF ComeUp, AfterMount
<1>3. PICK m \in Attempts : RunStep(m)
  BY <1>1, <1>2, DockerMoves
<1>4. m = n
  BY <1>0, <1>3, OwnStep DEF Own
<1>5. ~\/ StartProvisioning(n) \/ AcquirePreparation(n) \/ PreparePermits(n) \/ FinishPrepare(n)
       \/ PrepareFails(n) \/ MintTokens(n) \/ BeginProvision(n) \/ CallProvision(n)
       \/ GetHandle(n) \/ HandoffPermit(n) \/ Bind(n) \/ ReleasePreparation(n) \/ AgentEnds(n)
       \/ Throws(n) \/ CatchError(n) \/ RetryOrFail(n) \/ FinishRun(n)
  BY DEF UnchangedDocker, StartProvisioning, AcquirePreparation, PreparePermits, Proceed,
     FinishPrepare, PrepareFails, MintTokens, BeginProvision, CallProvision, GetHandle,
     HandoffPermit, Bind, ReleasePreparation, AgentEnds, Throws, CatchError, RetryOrFail, FinishRun
<1>6. ~\/ CreateVolume(n) \/ CreateHelper(n) \/ CopyFiles(n)
  BY <1>0 DEF CreateVolume, CreateHelper, CopyFiles, AfterMount
<1> QED
  BY <1>3, <1>4, <1>5, <1>6 DEF RunStep, RemoveHelper, UndoPrepare

-----------------------------------------------------------------------------
(***************************************************************************)
(* The lock.  Who holds it is between the step that took it and the one     *)
(* that gives it back; without a fault, whoever is there holds it.          *)
(***************************************************************************)
Fenced   == {"staged", "create", "created", "write", "written", "copy", "copied",
             "unwrite", "unwritten", "undo", "remove", "mint", "minted", "admitted",
             "mount", "mounted", "bind", "bound"}
Holding  == Fenced \cup {"error", "caught", "finally"}
Cleaning == CleanerPcs \ {"idle", "waiting"}

\* The lock of a Job is never left behind: a run that ended, was handed over to
\* its agent or has not asked for it does not hold it, nor does a cleanup that is
\* over, so that the next preparation or cleanup can have it
\* (shared-asset-lifecycle.ts, dispatcher.ts).
LockIsHeld ==
  /\ \A n \in Attempts : lock = Preparer(n) => runs[n].pc \in Holding
  /\ \A c \in Cleaners : lock = c => cleaners[c].pc \in Cleaning

\* Unless a connection broke or a process died, a preparation up to the binding
\* of its Job, and every cleanup, have the lock all the way, and so exclude each
\* other (shared-asset-lifecycle.ts).
LockExcludes ==
  faults = 0 =>
    /\ \A n \in Attempts : runs[n].pc \in Fenced => lock = Preparer(n)
    /\ \A c \in Cleaners : cleaners[c].pc \in Cleaning => lock = c

\* A run has one finally, and that is its end.
FinallyInv ==
  \A n \in Attempts : cleaners[Finally(n)].pc # "idle" => runs[n].pc = "done"

LEMMA LockNames ==
  /\ \A n \in Attempts : Preparer(n) # Free /\ Preparer(n) \notin Cleaners
  /\ Free \notin Cleaners
  /\ \A m, n \in Attempts : m # n =>
       Preparer(m) # Preparer(n) /\ Finally(m) # Finally(n)
  BY DEF Preparer, Finally, Free, Cleaners, Finals, Scans

\* What one step of a run does to its hold on the lock.
RunHolds(n) ==
  /\ lock' \in {lock, Free, Preparer(n)}
  /\ lock' # lock => lock \in {Free, Preparer(n)}
  /\ lock' = Preparer(n) /\ lock # lock' => runs'[n].pc \in Fenced
  /\ lock' = Preparer(n) /\ runs[n].pc \in Holding => runs'[n].pc \in Holding
  /\ runs'[n].pc \in Fenced =>
       lock' = Preparer(n) \/ (runs[n].pc \in Fenced /\ lock' = lock)

LEMMA RunHoldsStep ==
  ASSUME TypeOK, NEW n \in Attempts, RunStep(n)
  PROVE  RunHolds(n)
<1> USE Types DEF UnchangedOwner, RunHolds, Fenced, Holding
<1> USE DEF RunPcs
<1>0. /\ Preparer(n) # Free
      /\ [NoRun EXCEPT !.pc = "done", !.lost = runs[n].lost].pc = "done"
  BY LockNames, EndedRun
<1>1. CASE StartProvisioning(n) \/ MintTokens(n) \/ BeginProvision(n)
  BY <1>1, GoToType DEF StartProvisioning, MintTokens, BeginProvision
<1>2. CASE AcquirePreparation(n)
  <2>1. /\ lock = Free /\ runs[n].pc = "staging"
        /\ \/ lock' = Preparer(n) /\ GoTo(n, "staged")
           \/ lock' = lock /\ GoTo(n, "error")
    BY <1>2 DEF AcquirePreparation
  <2>2. \/ lock' = Preparer(n) /\ runs'[n].pc = "staged"
        \/ lock' = lock /\ runs'[n].pc = "error"
    BY <2>1, GoToType
  <2> QED
    BY <1>0, <2>1, <2>2
<1>3. CASE PreparePermits(n) \/ HandoffPermit(n)
  BY <1>3, GoToType DEF PreparePermits, HandoffPermit, Proceed
<1>4. CASE CreateVolume(n) \/ CreateHelper(n)
  BY <1>4, GoToType DEF CreateVolume, CreateHelper
<1>5. CASE CopyFiles(n) \/ RemoveHelper(n)
  BY <1>5, GoToType DEF CopyFiles, RemoveHelper
<1>6. CASE FinishPrepare(n)
  BY <1>6 DEF FinishPrepare, RunRows
<1>7. CASE UndoPrepare(n)
  BY <1>7, GoToType DEF UndoPrepare
<1>8. CASE CallProvision(n)
  BY <1>8, GoToType DEF CallProvision, RunRows
<1>9. CASE GetHandle(n)
  BY <1>9 DEF GetHandle, RunRows
<1>10. CASE Bind(n) \/ AgentEnds(n) \/ RetryOrFail(n)
  BY <1>10, GoToType, EscapeType DEF Bind, AgentEnds, RetryOrFail
<1>11. CASE ReleasePreparation(n)
  BY <1>0, <1>11, GoToType DEF ReleasePreparation, Release
<1>12. CASE PrepareFails(n) \/ Throws(n) \/ CatchError(n)
  BY <1>12, GoToType, EscapeType DEF PrepareFails, Throws, CatchError
<1>13. CASE FinishRun(n)
  BY <1>0, <1>13 DEF FinishRun, Release
<1> QED
  BY <1>1, <1>2, <1>3, <1>4, <1>5, <1>6, <1>7, <1>8, <1>9, <1>10, <1>11, <1>12, <1>13
     DEF RunStep

\* What one step of a cleanup does to its own.
CleanerHolds(c) ==
  /\ cleaners[c].pc # "idle" /\ \A d \in Cleaners : d # c => cleaners'[d] = cleaners[d]
  /\ lock' \in {lock, Free, c}
  /\ lock' # lock => lock \in {Free, c}
  /\ lock' = c /\ (lock = c => cleaners[c].pc \in Cleaning) => cleaners'[c].pc \in Cleaning
  /\ cleaners'[c].pc \in Cleaning =>
       lock' = c \/ (cleaners[c].pc \in Cleaning /\ lock' = lock)

LEMMA CleanerHoldsStep ==
  ASSUME TypeOK, NEW c \in Cleaners, CleanerStep(c)
  PROVE  CleanerHolds(c)
<1> USE Types DEF UnchangedOwner, CleanerHolds, Cleaning
<1> USE DEF CleanerPcs
<1>1. ASSUME Quit(c), cleaners[c].pc # "idle" PROVE CleanerHolds(c)
  BY <1>1, QuitType, LockNames DEF Quit, Release
<1>2. ASSUME NEW next \in Cleaning, Move(c, next), UNCHANGED lock, cleaners[c].pc \in Cleaning
      PROVE  CleanerHolds(c)
  BY <1>2, MoveType
<1>3. ASSUME NEW condition \in BOOLEAN, NEW next \in Cleaning,
             Continue(c, condition, next), cleaners[c].pc \in Cleaning
      PROVE  CleanerHolds(c)
  BY <1>1, <1>2, <1>3 DEF Continue
<1>4. CASE AcquireCleanup(c)
  <2>1. CASE Quit(c)
    BY <1>1, <1>4, <2>1 DEF AcquireCleanup
  <2>2. CASE ~Quit(c)
    <3>1. lock = Free /\ lock' = c /\ cleaners[c].pc = "waiting"
      BY <1>4, <2>2 DEF AcquireCleanup
    <3>2. PICK names \in Hints(c) :
            cleaners' = [cleaners EXCEPT
               ![c].pc = IF c \in Finals THEN "revoke"
                         ELSE IF names = {} THEN "list" ELSE "listed",
               ![c].names = names,
               ![c].status = job.status, ![c].latest = job.latest]
      BY <1>4, <2>2, Zenon DEF AcquireCleanup
    <3>3. cleaners'[c].pc \in {"revoke", "list", "listed"}
      BY <3>2 DEF CleanRows
    <3>4. \A d \in Cleaners : d # c => cleaners'[d] = cleaners[d]
      BY <3>2
    <3>5. cleaners'[c].pc \in Cleaning /\ cleaners[c].pc # "idle"
      BY <3>1, <3>3
    <3> HIDE DEF Cleaning
    <3> QED
      BY <3>1, <3>4, <3>5
  <2> QED
    BY <2>1, <2>2
<1>5. CASE RevokeTokens(c) \/ PermitNames(c)
  BY <1>3, <1>5 DEF RevokeTokens, PermitNames, Permitted
<1>6. CASE ListVolumes(c)
  BY <1>6 DEF ListVolumes, CleanRows
<1>7. CASE TakeName(c)
  <2>1. CASE Quit(c)
    BY <1>1, <1>7, <2>1 DEF TakeName
  <2>2. CASE ~Quit(c)
    <3>1. PICK n \in cleaners[c].names, pc \in {"helper", "volume"} :
            /\ cleaners' = [cleaners EXCEPT ![c].pc = pc, ![c].names = @ \ {n}, ![c].at = n]
            /\ UNCHANGED lock
      BY <1>7, <2>2 DEF TakeName
    <3>2. cleaners'[c].pc = pc /\ \A d \in Cleaners : d # c => cleaners'[d] = cleaners[d]
      BY <3>1 DEF CleanRows
    <3> QED
      BY <1>7, <3>1, <3>2 DEF TakeName
  <2> QED
    BY <2>1, <2>2
<1>8. CASE CleanHelper(c) \/ CleanVolume(c)
  BY <1>2, <1>8 DEF CleanHelper, CleanVolume
<1>9. CASE PermitVolume(c)
  BY <1>3, <1>9 DEF PermitVolume, Permitted, Labelled
<1>10. CASE EndCleanup(c)
  BY <1>1, <1>10 DEF EndCleanup
<1> QED
  BY <1>4, <1>5, <1>6, <1>7, <1>8, <1>9, <1>10 DEF CleanerStep

\* Who may write the rows of the cleanups, and the lock.
LEMMA LockMoves ==
  ASSUME [Next]_vars
  PROVE  \/ /\ UNCHANGED <<cleaners, lock, faults>>
            /\ runs' = runs \/ \E n \in Attempts : Claim(n)
         \/ \E n \in Attempts :
              RunStep(n) /\ UNCHANGED faults /\ (UNCHANGED cleaners \/ FinishRun(n))
         \/ \E c \in Cleaners : CleanerStep(c) /\ UNCHANGED <<runs, faults>>
         \/ \E s \in Scans : StartScan(s) /\ UNCHANGED <<runs, lock, faults>>
         \/ \E n \in Attempts : RunDies(n) /\ UNCHANGED cleaners
         \/ LoseLock /\ UNCHANGED <<runs, cleaners>>
<1>1. ASSUME NEW n \in Attempts, RunStep(n) PROVE UNCHANGED cleaners \/ FinishRun(n)
  BY <1>1 DEF RunStep, StartProvisioning, BeginProvision, Bind, AgentEnds, RetryOrFail,
     AcquirePreparation, PreparePermits, Proceed, CreateVolume, CreateHelper, CopyFiles,
     RemoveHelper, FinishPrepare, PrepareFails, UndoPrepare, MintTokens, CallProvision,
     GetHandle, HandoffPermit, ReleasePreparation, Throws, CatchError
<1>2. ASSUME NEW c \in Cleaners, CleanerStep(c) PROVE runs' = runs
  BY <1>2 DEF CleanerStep, Continue, AcquireCleanup, RevokeTokens, ListVolumes,
     PermitNames, TakeName, CleanHelper, PermitVolume, CleanVolume, EndCleanup
<1>3. ASSUME NEW s \in Scans, StartScan(s) PROVE UNCHANGED <<runs, lock>>
  BY <1>3 DEF StartScan, UnchangedOwner
<1>4. ASSUME NEW n \in Attempts, ComeUp(n) \/ DestroyOrphan(n)
      PROVE  UNCHANGED <<runs, cleaners, lock>>
  BY <1>4 DEF ComeUp, DestroyOrphan, UnchangedOwner
<1>5. ASSUME NEW n \in Attempts, Claim(n) PROVE UNCHANGED <<cleaners, lock>>
  BY <1>5 DEF Claim
<1>6. OthersWrite \/ BootRequeues => UNCHANGED <<runs, cleaners, lock>>
  BY DEF OthersWrite, BootRequeues
<1>7. ASSUME NEW n \in Attempts, RunDies(n) PROVE UNCHANGED cleaners
  BY <1>7 DEF RunDies
<1>8. LoseLock => UNCHANGED <<runs, cleaners>>
  BY DEF LoseLock
<1> QED
  BY <1>1, <1>2, <1>3, <1>4, <1>5, <1>6, <1>7, <1>8 DEF Next, Works, Breaks, vars

LockInv == LockIsHeld /\ LockExcludes /\ FinallyInv

LEMMA InitLock == Init => LockInv
<1> SUFFICES ASSUME Init PROVE LockInv
  OBVIOUS
<1>1. lock = Free /\ \A n \in Attempts : runs[n].pc = "idle"
  BY DEF Init, NoRun
<1>2. \A c \in Cleaners : cleaners[c].pc = "idle"
  BY DEF Init, NoCleaner
<1>3. LockIsHeld
  BY <1>1, LockNames DEF LockIsHeld
<1>4. LockExcludes
  BY <1>1, <1>2 DEF LockExcludes, Fenced, Cleaning
<1>5. FinallyInv
  BY <1>2, Members DEF FinallyInv
<1> QED
  BY <1>3, <1>4, <1>5 DEF LockInv

\* A claim is of a run that has not started.
LEMMA ClaimStarts ==
  ASSUME IInv, NEW n \in Attempts, Claim(n)
  PROVE  /\ runs[n].pc = "idle" /\ runs'[n].pc = "claimed"
         /\ \A m \in Attempts : m # n => runs'[m] = runs[m]
<1>0. TypeOK /\ RunInv /\ job \in JobRows
  BY Types DEF IInv
<1>1. runs[n].pc = "idle"
  <2>1. CASE job.active
    BY <1>0, <2>1 DEF Claim, RunInv, Serving
  <2>2. CASE ~job.active
    <3>1. n = job.latest + 1 /\ job.latest \in Nat
      BY <1>0, <2>2, AssetsAssumption DEF Claim, AssetsAssumption, JobRows
    <3>2. ~(n <= job.latest)
      BY <3>1
    <3> QED
      BY <1>0, <3>2 DEF RunInv
  <2> QED
    BY <2>1, <2>2
<1> QED
  BY <1>0, <1>1, GoToType DEF Claim, RunPcs

\* The end of a run starts its finally, which has not run before.
LEMMA FinishStarts ==
  ASSUME TypeOK, FinallyInv, NEW n \in Attempts, FinishRun(n)
  PROVE  /\ runs[n].pc = "finally" /\ runs'[n].pc = "done"
         /\ cleaners[Finally(n)].pc = "idle" /\ cleaners'[Finally(n)].pc = "waiting"
         /\ \A d \in Cleaners : d # Finally(n) => cleaners'[d] = cleaners[d]
<1>1. cleaners \in [Cleaners -> CleanRows] /\ runs \in [Attempts -> RunRows]
      /\ Finally(n) \in Cleaners
  BY Types, Members
<1>2. runs[n].pc = "finally" /\ runs'[n].pc = "done"
  BY <1>1, EndedRun DEF FinishRun
<1>3. cleaners[Finally(n)].pc = "idle"
  BY <1>2 DEF FinallyInv
<1>4. cleaners'[Finally(n)].pc = "waiting"
      /\ \A d \in Cleaners : d # Finally(n) => cleaners'[d] = cleaners[d]
  BY <1>1 DEF FinishRun, CleanRows
<1> QED
  BY <1>2, <1>3, <1>4

LEMMA LockInvStep ==
  ASSUME IInv, LockInv, [Next]_vars
  PROVE  LockInv'
<1>0. /\ TypeOK /\ LockIsHeld /\ LockExcludes /\ FinallyInv
      /\ cleaners \in [Cleaners -> CleanRows] /\ runs \in [Attempts -> RunRows]
  BY Types DEF IInv, LockInv
<1> USE DEF LockInv, LockIsHeld, LockExcludes, FinallyInv
<1>1. CASE UNCHANGED <<cleaners, lock, faults, runs>>
  BY <1>0, <1>1
<1>2. ASSUME NEW n \in Attempts, Claim(n), UNCHANGED <<cleaners, lock, faults>>
      PROVE  LockInv'
  <2>1. /\ runs[n].pc = "idle" /\ runs'[n].pc = "claimed"
        /\ \A m \in Attempts : m # n => runs'[m] = runs[m]
    BY <1>2, ClaimStarts
  <2>2. LockIsHeld' /\ LockExcludes'
    BY <1>0, <1>2, <2>1 DEF Holding, Fenced
  <2>3. FinallyInv'
    BY <1>0, <1>2, <2>1
  <2> QED
    BY <2>2, <2>3
<1>3. ASSUME NEW n \in Attempts, RunStep(n), UNCHANGED faults, UNCHANGED cleaners \/ FinishRun(n)
      PROVE  LockInv'
  <2>1. RunHolds(n) /\ Own(n)
    BY <1>0, <1>3, RunHoldsStep, OwnStep
  <2>2. \A m \in Attempts : m # n => runs'[m] = runs[m]
    BY <2>1 DEF Own
  <2>3. /\ cleaners[Finally(n)].pc = "idle" /\ Finally(n) \in Cleaners
        /\ cleaners'[Finally(n)].pc \in {"idle", "waiting"}
        /\ cleaners'[Finally(n)].pc # "idle" => runs'[n].pc = "done"
        /\ \A d \in Cleaners : d # Finally(n) => cleaners'[d] = cleaners[d]
    <3>1. cleaners[Finally(n)].pc = "idle"
      BY <1>0, <2>1 DEF Own
    <3> QED
      BY <1>0, <1>3, <3>1, FinishStarts, Members
  <2>4. \A c \in Cleaners : cleaners'[c].pc \in Cleaning <=> cleaners[c].pc \in Cleaning
    BY <2>3 DEF Cleaning
  <2>5. LockIsHeld'
    <3>1. ASSUME NEW m \in Attempts, lock' = Preparer(m) PROVE runs'[m].pc \in Holding
      <4>1. CASE m = n
        BY <1>0, <2>1, <3>1, <4>1 DEF RunHolds, Holding
      <4>2. CASE m # n
        BY <1>0, <2>1, <2>2, <3>1, <4>2, LockNames DEF RunHolds
      <4> QED
        BY <4>1, <4>2
    <3>2. ASSUME NEW c \in Cleaners, lock' = c PROVE cleaners'[c].pc \in Cleaning
      <4>1. lock = c
        BY <2>1, <3>2, LockNames DEF RunHolds
      <4> QED
        BY <1>0, <2>4, <4>1
    <3> QED
      BY <3>1, <3>2
  <2>6. LockExcludes'
    <3> SUFFICES ASSUME faults' = 0 PROVE LockExcludes'
      OBVIOUS
    <3>0. faults = 0
      BY <1>3
    <3>1. ASSUME NEW m \in Attempts, runs'[m].pc \in Fenced PROVE lock' = Preparer(m)
      <4>1. CASE m = n
        BY <1>0, <2>1, <3>0, <3>1, <4>1 DEF RunHolds
      <4>2. CASE m # n
        BY <1>0, <2>1, <2>2, <3>0, <3>1, <4>2, LockNames DEF RunHolds
      <4> QED
        BY <4>1, <4>2
    <3>2. ASSUME NEW c \in Cleaners, cleaners'[c].pc \in Cleaning PROVE lock' = c
      <4>1. lock = c
        BY <1>0, <2>4, <3>0, <3>2
      <4> QED
        BY <2>1, <4>1, LockNames DEF RunHolds
    <3> QED
      BY <3>1, <3>2
  <2>7. FinallyInv'
    <3> SUFFICES ASSUME NEW m \in Attempts, cleaners'[Finally(m)].pc # "idle"
                 PROVE  runs'[m].pc = "done"
      OBVIOUS
    <3>1. CASE m = n
      BY <2>3, <3>1
    <3>2. CASE m # n
      BY <1>0, <2>2, <2>3, <3>2, LockNames, Members
    <3> QED
      BY <3>1, <3>2
  <2> QED
    BY <2>5, <2>6, <2>7
<1>4. ASSUME NEW c \in Cleaners, CleanerStep(c), UNCHANGED <<runs, faults>> PROVE LockInv'
  <2>1. CleanerHolds(c)
    BY <1>0, <1>4, CleanerHoldsStep
  <2>2. LockIsHeld'
    <3>1. ASSUME NEW m \in Attempts, lock' = Preparer(m) PROVE runs'[m].pc \in Holding
      BY <1>0, <1>4, <2>1, <3>1, LockNames DEF CleanerHolds
    <3>2. ASSUME NEW d \in Cleaners, lock' = d PROVE cleaners'[d].pc \in Cleaning
      BY <1>0, <2>1, <3>2, LockNames DEF CleanerHolds
    <3> QED
      BY <3>1, <3>2
  <2>3. LockExcludes'
    <3> SUFFICES ASSUME faults' = 0 PROVE LockExcludes'
      OBVIOUS
    <3>0. faults = 0
      BY <1>4
    <3>1. ASSUME NEW m \in Attempts, runs'[m].pc \in Fenced PROVE lock' = Preparer(m)
      BY <1>0, <1>4, <2>1, <3>0, <3>1, LockNames DEF CleanerHolds
    <3>2. ASSUME NEW d \in Cleaners, cleaners'[d].pc \in Cleaning PROVE lock' = d
      BY <1>0, <2>1, <3>0, <3>2, LockNames DEF CleanerHolds
    <3> QED
      BY <3>1, <3>2
  <2>4. FinallyInv'
    <3> SUFFICES ASSUME NEW m \in Attempts, cleaners'[Finally(m)].pc # "idle"
                 PROVE  runs[m].pc = "done"
      BY <1>4
    <3>1. cleaners[Finally(m)].pc # "idle"
      BY <2>1, Members DEF CleanerHolds
    <3> QED
      BY <1>0, <3>1
  <2> QED
    BY <2>2, <2>3, <2>4
<1>5. ASSUME NEW s \in Scans, StartScan(s), UNCHANGED <<runs, lock, faults>> PROVE LockInv'
  <2>1. /\ s \in Cleaners /\ cleaners[s].pc = "idle" /\ cleaners'[s].pc = "waiting"
        /\ \A d \in Cleaners : d # s => cleaners'[d] = cleaners[d]
    BY <1>0, <1>5, Members, MoveType DEF StartScan, CleanerPcs
  <2>2. \A c \in Cleaners : cleaners'[c].pc \in Cleaning <=> cleaners[c].pc \in Cleaning
    BY <2>1 DEF Cleaning
  <2>3. \A n \in Attempts : Finally(n) # s /\ Finally(n) \in Cleaners
    <3>1. PICK i \in 1..NumScans : s = <<"scan", i>>
      BY DEF Scans
    <3> QED
      BY <3>1, Members DEF Finally
  <2>4. FinallyInv'
    BY <1>0, <1>5, <2>1, <2>3
  <2> QED
    BY <1>0, <1>5, <2>2, <2>4
<1>6. ASSUME NEW n \in Attempts, RunDies(n), UNCHANGED cleaners PROVE LockInv'
  <2>1. runs'[n].pc = "done" /\ \A m \in Attempts : m # n => runs'[m] = runs[m]
    BY <1>0, <1>6 DEF RunDies, NoRun
  <2>2. faults' # 0
    BY <1>0, AssetsAssumption, <1>6 DEF RunDies, Fault, TypeOK, AssetsAssumption
  <2>3. lock' # Preparer(n) /\ lock' \in {lock, Free}
    BY <1>6, LockNames DEF RunDies, Release
  <2>4. LockIsHeld'
    BY <1>0, <1>6, <2>1, <2>3, LockNames
  <2>5. FinallyInv'
    BY <1>0, <1>6, <2>1
  <2> QED
    BY <2>2, <2>4, <2>5
<1>7. CASE LoseLock /\ UNCHANGED <<runs, cleaners>>
  <2>1. faults' # 0
    BY <1>0, AssetsAssumption, <1>7 DEF LoseLock, Fault, TypeOK, AssetsAssumption
  <2>2. lock' = Free
    BY <1>7 DEF LoseLock
  <2>3. LockIsHeld' /\ FinallyInv'
    BY <1>0, <1>7, <2>2, LockNames
  <2> QED
    BY <2>1, <2>3
<1> QED
  BY <1>1, <1>2, <1>3, <1>4, <1>5, <1>6, <1>7, LockMoves

-----------------------------------------------------------------------------
\* The inductive invariant holds in every state, which the six theorems below
\* draw on (shared-asset-lifecycle.ts, shared-assets-volume.ts, dispatcher.ts).
THEOREM Invariance == Spec => [](IInv /\ LockInv)
<1>1. IInv /\ LockInv /\ [Next]_vars => (IInv /\ LockInv)'
  BY InvStep, LockInvStep
<1> QED
  BY <1>1, InitInv, InitLock, PTL DEF Spec

\* Type correctness, whatever breaks and whoever writes the Job.
THEOREM TypeCorrect == Spec => []TypeOK
<1>1. IInv => TypeOK
  BY DEF IInv
<1> QED
  BY <1>1, Invariance, PTL

\* A running Job has, in its volume and mounted in its sandbox, every file its
\* Attempt prepared (dispatcher.ts, shared-assets-volume.ts).
THEOREM AssetsSafe == Spec => []RunsOnItsAssets
<1>1. IInv => RunsOnItsAssets
  BY DEF IInv
<1> QED
  BY <1>1, Invariance, PTL

\* The finally of an earlier run that revokes the Job's tokens under its lock
\* finds no successor that has minted its own (dispatcher.ts, runJob).
THEOREM TokensSafe == Spec => []FinallySparesSuccessor
<1>1. IInv => FinallySparesSuccessor
  BY DEF IInv, RevokeInv, Unlocked, FinallySparesSuccessor
<1> QED
  BY <1>1, Invariance, PTL

\* The lock of a Job comes back: nobody who has ended, or is past the step that
\* returns it, has it (shared-asset-lifecycle.ts, dispatcher.ts).
THEOREM LockComesBack == Spec => []LockIsHeld
<1>1. LockInv => LockIsHeld
  BY DEF LockInv
<1> QED
  BY <1>1, Invariance, PTL

\* Preparations and cleanups exclude each other until a connection or a process
\* is lost; the theorems above and below hold even then
\* (shared-asset-lifecycle.ts).
THEOREM LockIsExclusive == Spec => []LockExcludes
<1>1. LockInv => LockExcludes
  BY DEF LockInv
<1> QED
  BY <1>1, Invariance, PTL

\* No cleanup takes the volume or the writer of an active Attempt, with its lock
\* or without (shared-asset-lifecycle.ts, shared-assets-volume.ts).
THEOREM PreparationSafe == Spec => PreparationUndisturbed
<1>1. IInv /\ [Next]_vars
      => [\A n \in Attempts :
            /\ Serving(n)
            /\ \/ n \in helpers /\ n \notin helpers'
               \/ volumes[n] # "absent" /\ volumes'[n] = "absent"
            => runs[n].pc \in {"unwrite", "remove"}
         ]_<<volumes, helpers>>
  BY UndisturbedStep
<1> QED
  BY <1>1, Invariance, PTL DEF Spec, PreparationUndisturbed
=============================================================================
