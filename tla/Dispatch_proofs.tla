---------------------------- MODULE Dispatch_proofs ----------------------------
(***************************************************************************)
(* Proofs about Dispatch, for any queue, any limits and any number of      *)
(* replicas: type correctness, the quotas, one hub per canvas, claims that *)
(* are run, and pauses that are respected.                                 *)
(***************************************************************************)
EXTENDS Dispatch, FiniteSetTheorems, WellFoundedInduction, TLAPS

RoundType == [pc: RoundPcs, cursor: 0..NumJobs, page: SUBSET Jobs, slots: Int,
              room: [Projects -> Int], batch: SUBSET Jobs]

-----------------------------------------------------------------------------
(***************************************************************************)
(* Finite sets of Jobs.                                                    *)
(***************************************************************************)

\* Every set of Jobs can be counted, and a part of it counts less.
LEMMA JobsFinite ==
    ASSUME NEW S \in SUBSET Jobs, NEW T \in SUBSET S
    PROVE  /\ IsFiniteSet(S) /\ IsFiniteSet(T)
           /\ Cardinality(S) \in Nat /\ Cardinality(T) \in Nat
           /\ Cardinality(T) <= Cardinality(S)
<1>1. IsFiniteSet(Jobs)
    BY FS_Interval, CountsAssumption DEF Jobs
<1>2. IsFiniteSet(S)
    BY <1>1, FS_Subset
<1>3. IsFiniteSet(T) /\ Cardinality(T) <= Cardinality(S)
    BY <1>2, FS_Subset
<1> QED
    BY <1>2, <1>3, FS_CardinalityType

\* A union counts at most what its parts count.
LEMMA UnionCount ==
    ASSUME NEW S \in SUBSET Jobs, NEW T \in SUBSET Jobs
    PROVE  Cardinality(S \cup T) <= Cardinality(S) + Cardinality(T)
<1>1. IsFiniteSet(S) /\ IsFiniteSet(T) /\ IsFiniteSet(S \cap T)
    BY JobsFinite
<1>2. /\ Cardinality(S) \in Nat /\ Cardinality(T) \in Nat
      /\ Cardinality(S \cap T) \in Nat
    BY <1>1, FS_CardinalityType
<1>3. Cardinality(S \cup T)
        = Cardinality(S) + Cardinality(T) - Cardinality(S \cap T)
    BY <1>1, FS_Union
<1> QED
    BY <1>2, <1>3

\* A page that is not empty has a last Job.
LEMMA LastExists ==
    ASSUME NEW page \in SUBSET Jobs, page # {}
    PROVE  LastOf(page) \in page
<1> DEFINE After(j) == {i \in page : i > j}
           Rests    == {After(j) : j \in page}
<1>1. Jobs \subseteq Int
    BY CountsAssumption DEF Jobs
<1>2. Rests \subseteq FiniteSubsetsOf(Jobs)
  <2> SUFFICES ASSUME NEW j \in page PROVE After(j) \in FiniteSubsetsOf(Jobs)
      OBVIOUS
  <2>1. After(j) \in SUBSET Jobs
      OBVIOUS
  <2>2. IsFiniteSet(After(j))
      BY <2>1, JobsFinite
  <2> QED
      BY <2>1, <2>2 DEF FiniteSubsetsOf
<1>3. IsWellFoundedOn(StrictSubsetOrdering(Jobs), FiniteSubsetsOf(Jobs))
    BY FS_StrictSubsetOrderingWellFounded
<1>4. Rests # {}
    OBVIOUS
<1>5. \E U \in Rests : \A V \in Rests : ~(<<V, U>> \in StrictSubsetOrdering(Jobs))
  <2> HIDE DEF Rests
  <2> QED
    BY <1>2, <1>3, <1>4, WFMin, Zenon
<1>6. PICK j \in page : \A V \in Rests : ~(<<V, After(j)>> \in StrictSubsetOrdering(Jobs))
    BY <1>5
<1>7. \A i \in page : i <= j
  <2> SUFFICES ASSUME NEW k \in page, ~(k <= j) PROVE FALSE
      OBVIOUS
  <2>1. k > j
      BY <1>1
  <2>a. k \in Int /\ j \in Int
      BY <1>1
  <2>b. After(k) \subseteq After(j)
    <3> SUFFICES ASSUME NEW i \in page, i > k PROVE i > j
        OBVIOUS
    <3>1. i \in Int
        BY <1>1
    <3> QED
        BY <3>1, <2>1, <2>a
  <2>c. k \in After(j)
      BY <2>1
  <2>d. ~(k > k)
      BY <2>a
  <2>2. After(k) \subseteq After(j) /\ k \in After(j) /\ k \notin After(k)
      BY <2>b, <2>c, <2>d
  <2>3. After(k) \in SUBSET Jobs /\ After(j) \in SUBSET Jobs
      OBVIOUS
  <2>4. <<After(k), After(j)>> \in StrictSubsetOrdering(Jobs)
      BY <2>2, <2>3 DEF StrictSubsetOrdering
  <2> QED
      BY <2>4, <1>6
<1> QED
    BY <1>7 DEF LastOf

-----------------------------------------------------------------------------
(***************************************************************************)
(* Types.                                                                  *)
(***************************************************************************)

LEMMA RoundTyped == TypeOK => round \in [Replicas -> RoundType]
    BY DEF TypeOK, RoundType

\* The rounds that are not in the middle of a page.
LEMMA IdleTypes ==
    /\ Idle \in RoundType /\ Fresh \in RoundType
    /\ [Idle EXCEPT !.pc = "page"] \in RoundType
    /\ \A batch \in SUBSET Jobs : Returning(batch) \in RoundType
<1>1. ProjectLimit \in [Projects -> Int]
  <2>1. ProjectLimit \in [Projects -> Nat]
      BY LimitsAssumption
  <2> QED
      BY <2>1
<1>2. 0 \in 0..NumJobs
    BY CountsAssumption
<1>3. Idle \in RoundType
  <2>1. {} \in SUBSET Jobs /\ 0 \in Int
      OBVIOUS
  <2>2. "idle" \in RoundPcs
      BY DEF RoundPcs
  <2> QED
      BY <1>1, <1>2, <2>1, <2>2 DEF Idle, RoundType
<1>4. \A pc \in RoundPcs : [Idle EXCEPT !.pc = pc] \in RoundType
    BY <1>3 DEF RoundType
<1>5. \A pc \in RoundPcs, batch \in SUBSET Jobs :
        [Idle EXCEPT !.pc = pc, !.batch = batch] \in RoundType
    BY <1>3 DEF RoundType
<1>6. "gates" \in RoundPcs /\ "page" \in RoundPcs /\ "return" \in RoundPcs
    BY DEF RoundPcs
<1> QED
    BY <1>3, <1>4, <1>5, <1>6 DEF Fresh, Returning

LEMMA SetRoundType ==
    ASSUME round \in [Replicas -> RoundType],
           NEW d \in Replicas, NEW r \in RoundType, SetRound(d, r)
    PROVE  round' \in [Replicas -> RoundType]
    BY DEF SetRound

LEMMA KickType ==
    ASSUME TypeOK, NEW d \in Replicas, Kick(d)
    PROVE  round' \in [Replicas -> RoundType] /\ kickAgain' \subseteq Replicas
    BY RoundTyped, IdleTypes DEF Kick, TypeOK

LEMMA MoveType ==
    ASSUME TypeOK, NEW j \in Jobs, NEW to \in Statuses, Move(j, to)
    PROVE  status' \in [Jobs -> Statuses]
    BY DEF Move, TypeOK

LEMMA DropType ==
    ASSUME TypeOK, NEW j \in Jobs, Drop(j)
    PROVE  inFlight' \in [Replicas -> SUBSET Jobs] /\ kickDue' \subseteq Jobs
    BY DEF Drop, TypeOK

LEMMA NotifyType ==
    ASSUME TypeOK, Notify
    PROVE  inbox' \subseteq Replicas
    BY DEF Notify, TypeOK

LEMMA SpendType ==
    ASSUME TypeOK, Spend
    PROVE  events' \in 0..MaxEvents
    BY CountsAssumption DEF Spend, TypeOK

\* The counts of a page are integers.
LEMMA CountsTyped ==
    ASSUME TypeOK
    PROVE  /\ Active \in SUBSET Jobs /\ Provisioning \in SUBSET Jobs
           /\ \A p \in Projects : OfProject(Active, p) \in SUBSET Jobs
           /\ Cardinality(Active) \in Nat /\ Cardinality(Provisioning) \in Nat
           /\ \A p \in Projects : Cardinality(OfProject(Active, p)) \in Nat
           /\ Slots \in Int /\ Room \in [Projects -> Int]
<1>1. Active \in SUBSET Jobs /\ Provisioning \in SUBSET Jobs
    BY DEF Active, Provisioning, In
<1>2. \A p \in Projects : OfProject(Active, p) \in SUBSET Jobs
    BY <1>1 DEF OfProject
<1>3. Cardinality(Active) \in Nat /\ Cardinality(Provisioning) \in Nat
    BY <1>1, JobsFinite
<1>4. \A p \in Projects : Cardinality(OfProject(Active, p)) \in Nat
    BY <1>2, JobsFinite
<1>5. Slots \in Int
    BY <1>3, CountsAssumption DEF Slots
<1>6. Room \in [Projects -> Int]
  <2>1. \A p \in Projects : ProjectLimit[p] \in Nat
      BY LimitsAssumption
  <2>2. \A p \in Projects : ProjectLimit[p] - Cardinality(OfProject(Active, p)) \in Int
      BY <2>1, <1>4
  <2> QED
      BY <2>2 DEF Room
<1> QED
    BY <1>1, <1>2, <1>3, <1>4, <1>5, <1>6

\* The types of a step, action by action.
LEMMA TypeStep == TypeOK /\ [Next]_vars => TypeOK'
<1> SUFFICES ASSUME TypeOK, [Next]_vars PROVE TypeOK'
    OBVIOUS
<1> USE DEF UnchangedSwitches, UnchangedDisk, UnchangedRuns, UnchangedRounds
<1>r. round \in [Replicas -> RoundType]
    BY RoundTyped
<1>1. ASSUME NEW d \in Replicas, Deliver(d) PROVE TypeOK'
  <2>1. round' \in [Replicas -> RoundType] /\ kickAgain' \subseteq Replicas
      BY <1>1, KickType DEF Deliver
  <2>2. inbox' \subseteq Replicas
      BY <1>1 DEF Deliver, TypeOK
  <2> QED
      BY <1>1, <2>1, <2>2 DEF Deliver, TypeOK, RoundType
<1>2. ASSUME NEW d \in Replicas, Gates(d) PROVE TypeOK'
  <2>1. round' \in [Replicas -> RoundType]
      BY <1>2, <1>r, SetRoundType, IdleTypes DEF Gates
  <2>2. seen' \in [Replicas -> {"ok", "full"}]
      BY <1>2 DEF Gates, TypeOK
  <2> QED
      BY <1>2, <2>1, <2>2 DEF Gates, TypeOK, RoundType
<1>3. ASSUME NEW d \in Replicas, TakePage(d) PROVE TypeOK'
  <2> DEFINE page == PageAfter(round[d].cursor)
             taken == [round[d] EXCEPT !.pc = "claim", !.page = page,
                                       !.slots = Slots, !.room = Room]
  <2>1. page \in SUBSET Jobs
      BY DEF PageAfter, Pending, In
  <2>2. round[d] \in RoundType
      BY <1>r
  <2>3. taken \in RoundType
    <3> HIDE DEF page
    <3> QED
      BY <2>1, <2>2, CountsTyped DEF RoundType, RoundPcs
  <2>4. Returning(round[d].batch) \in RoundType
      BY <2>2, IdleTypes DEF RoundType
  <2>5. round' \in [Replicas -> RoundType]
    <3> HIDE DEF taken
    <3> QED
      BY <1>3, <1>r, <2>3, <2>4, SetRoundType DEF TakePage, taken
  <2> QED
      BY <1>3, <2>5 DEF TakePage, TypeOK, RoundType
<1>4. ASSUME NEW d \in Replicas, ClaimPage(d) PROVE TypeOK'
  <2>1. PICK granted \in SUBSET Directed, won \in SUBSET Pending :
          /\ won \subseteq Candidates(d, granted)
          /\ status' = [j \in Jobs |-> IF j \in won THEN "claimed" ELSE status[j]]
          /\ SetRound(d, [Idle EXCEPT
              !.pc = IF More(d, won) THEN "page" ELSE "return",
              !.cursor = IF More(d, won) THEN LastOf(round[d].page) ELSE 0,
              !.batch = round[d].batch \cup won])
      BY <1>4 DEF ClaimPage, Candidates
  <2> DEFINE next == [Idle EXCEPT
              !.pc = IF More(d, won) THEN "page" ELSE "return",
              !.cursor = IF More(d, won) THEN LastOf(round[d].page) ELSE 0,
              !.batch = round[d].batch \cup won]
  <2>2. round[d] \in RoundType
      BY <1>r
  <2>3. won \in SUBSET Jobs
      BY DEF Pending, In
  <2>4. (IF More(d, won) THEN LastOf(round[d].page) ELSE 0) \in 0..NumJobs
    <3>1. CASE More(d, won)
      <4>1. Cardinality(round[d].page) = PageSize /\ round[d].page \in SUBSET Jobs
          BY <3>1, <2>2 DEF More, RoundType
      <4>2. round[d].page # {}
          BY <4>1, FS_EmptySet, CountsAssumption
      <4>3. LastOf(round[d].page) \in Jobs
          BY <4>1, <4>2, LastExists
      <4> QED
          BY <3>1, <4>3, CountsAssumption DEF Jobs
    <3>2. CASE ~More(d, won)
        BY <3>2, CountsAssumption
    <3> QED
        BY <3>1, <3>2
  <2>5. next \in RoundType
    <3>1. Idle \in RoundType
        BY IdleTypes
    <3>2. round[d].batch \cup won \in SUBSET Jobs
        BY <2>2, <2>3 DEF RoundType
    <3> QED
        BY <3>1, <3>2, <2>4 DEF RoundType, RoundPcs
  <2>6. round' \in [Replicas -> RoundType]
    <3> HIDE DEF next
    <3> QED
      BY <1>r, <2>1, <2>5, SetRoundType DEF next
  <2>7. status' \in [Jobs -> Statuses]
      BY <2>1 DEF TypeOK, Statuses
  <2> QED
      BY <1>4, <2>6, <2>7 DEF ClaimPage, TypeOK, RoundType
<1>5. ASSUME NEW d \in Replicas, Return(d) PROVE TypeOK'
  <2>1. round' \in [Replicas -> RoundType]
      BY <1>5, <1>r, SetRoundType, IdleTypes DEF Return
  <2>2. inFlight' \in [Replicas -> SUBSET Jobs]
      BY <1>5 DEF Return, TypeOK
  <2>3. kickAgain' \subseteq Replicas
      BY <1>5 DEF Return, TypeOK
  <2> QED
      BY <1>5, <2>1, <2>2, <2>3 DEF Return, TypeOK, RoundType
<1>6. ASSUME NEW d \in Replicas, PageFails(d) \/ RoundFails(d) PROVE TypeOK'
  <2>1. round[d].batch \in SUBSET Jobs
      BY <1>r DEF RoundType
  <2>2. round' \in [Replicas -> RoundType]
      BY <1>6, <1>r, <2>1, SetRoundType, IdleTypes DEF PageFails, RoundFails
  <2>3. events' \in 0..MaxEvents
      BY <1>6, SpendType DEF PageFails, RoundFails
  <2> QED
      BY <1>6, <2>2, <2>3 DEF PageFails, RoundFails, TypeOK, RoundType
<1>7. ASSUME NEW d \in Replicas, StartDispatcher(d) PROVE TypeOK'
    BY <1>7 DEF StartDispatcher, TypeOK
<1>8. ASSUME NEW d \in Replicas, StopDispatcher(d) PROVE TypeOK'
  <2>1. round' \in [Replicas -> RoundType]
      BY <1>8, <1>r, SetRoundType, IdleTypes DEF StopDispatcher
  <2>2. events' \in 0..MaxEvents
      BY <1>8, SpendType DEF StopDispatcher
  <2>3. enabled' \subseteq Replicas /\ inbox' \subseteq Replicas /\ kickAgain' \subseteq Replicas
      BY <1>8 DEF StopDispatcher, TypeOK
  <2> QED
      BY <1>8, <2>1, <2>2, <2>3 DEF StopDispatcher, TypeOK, RoundType
<1>9. ASSUME NEW d \in Replicas, NEW who, RefreshDisk(d, who) PROVE TypeOK'
  <2>1. round' \in [Replicas -> RoundType] /\ kickAgain' \subseteq Replicas
    <3>1. CASE Kick(d)
        BY <3>1, KickType
    <3>2. CASE UnchangedRounds
        BY <3>2, <1>r DEF TypeOK
    <3> QED
        BY <1>9, <3>1, <3>2 DEF RefreshDisk
  <2>2. seen' \in [Replicas -> {"ok", "full"}]
      BY <1>9 DEF RefreshDisk, TypeOK
  <2> QED
      BY <1>9, <2>1, <2>2 DEF RefreshDisk, TypeOK, RoundType
<1>10. ASSUME NEW d \in Replicas, NEW j \in Jobs, Bind(d, j) PROVE TypeOK'
  <2>1. status' \in [Jobs -> Statuses]
      BY <1>10, MoveType DEF Bind, Statuses
  <2> QED
      BY <1>10, <2>1 DEF Bind, TypeOK
<1>11. ASSUME NEW d \in Replicas, NEW j \in Jobs, KickAfterBind(d, j) PROVE TypeOK'
  <2>1. round' \in [Replicas -> RoundType] /\ kickAgain' \subseteq Replicas
      BY <1>11, KickType DEF KickAfterBind
  <2>2. kickDue' \subseteq Jobs
      BY <1>11 DEF KickAfterBind, TypeOK
  <2> QED
      BY <1>11, <2>1, <2>2 DEF KickAfterBind, TypeOK, RoundType
<1>12. ASSUME NEW j \in Jobs, Submit(j) \/ ReplyToHuman(j) PROVE TypeOK'
  <2>1. status' \in [Jobs -> Statuses] /\ inbox' \subseteq Replicas
      BY <1>12, MoveType, NotifyType DEF Submit, ReplyToHuman, Statuses
  <2> QED
      BY <1>12, <2>1 DEF Submit, ReplyToHuman, TypeOK
<1>13. ASSUME NEW j \in Jobs, Retry(j) PROVE TypeOK'
  <2>1. status' \in [Jobs -> Statuses] /\ inbox' \subseteq Replicas
      BY <1>13, MoveType, NotifyType DEF Retry, Statuses
  <2>2. inFlight' \in [Replicas -> SUBSET Jobs] /\ kickDue' \subseteq Jobs
      BY <1>13, DropType DEF Retry
  <2>3. events' \in 0..MaxEvents
      BY <1>13, SpendType DEF Retry
  <2> QED
      BY <1>13, <2>1, <2>2, <2>3 DEF Retry, TypeOK
<1>14. ASSUME NEW j \in Jobs, End(j) PROVE TypeOK'
  <2>1. status' \in [Jobs -> Statuses] /\ inbox' \subseteq Replicas
      BY <1>14, MoveType, NotifyType DEF End, Statuses
  <2>2. inFlight' \in [Replicas -> SUBSET Jobs] /\ kickDue' \subseteq Jobs
      BY <1>14, DropType DEF End
  <2>3. CanvasOf[j] \in Canvases
      BY DEF Canvases
  <2>4. finished' \subseteq Canvases
    <3>1. finished' = finished \/ finished' = finished \cup {CanvasOf[j]}
        BY <1>14 DEF End
    <3> QED
        BY <3>1, <2>3 DEF TypeOK
  <2> QED
      BY <1>14, <2>1, <2>2, <2>4 DEF End, TypeOK
<1>15. ASSUME NEW j \in Jobs, AskHuman(j) PROVE TypeOK'
  <2>1. status' \in [Jobs -> Statuses]
      BY <1>15, MoveType DEF AskHuman, Statuses
  <2>2. inFlight' \in [Replicas -> SUBSET Jobs] /\ kickDue' \subseteq Jobs
      BY <1>15, DropType DEF AskHuman
  <2>3. events' \in 0..MaxEvents
      BY <1>15, SpendType DEF AskHuman
  <2> QED
      BY <1>15, <2>1, <2>2, <2>3 DEF AskHuman, TypeOK
<1>16. ASSUME NEW j \in Jobs, Requeue(j) PROVE TypeOK'
  <2>1. status' \in [Jobs -> Statuses] /\ inbox' \subseteq Replicas
      BY <1>16, MoveType, NotifyType DEF Requeue, Statuses
  <2>2. events' \in 0..MaxEvents
      BY <1>16, SpendType DEF Requeue
  <2> QED
      BY <1>16, <2>1, <2>2 DEF Requeue, TypeOK
<1>17. ASSUME NEW c \in Canvases, LockCanvas(c) \/ UnlockCanvas(c) PROVE TypeOK'
  <2>1. events' \in 0..MaxEvents
      BY <1>17, SpendType DEF LockCanvas, UnlockCanvas, TypeOK
  <2>2. locked' \subseteq Canvases
      BY <1>17 DEF LockCanvas, UnlockCanvas, TypeOK
  <2> QED
      BY <1>17, <2>1, <2>2 DEF LockCanvas, UnlockCanvas, TypeOK
<1>18. ASSUME PausePlatformClaims \/ ResumePlatformClaims PROVE TypeOK'
  <2>1. events' \in 0..MaxEvents
      BY <1>18, SpendType DEF PausePlatformClaims, ResumePlatformClaims, TypeOK
  <2>2. paused' \in BOOLEAN /\ resumeDue' \in BOOLEAN
      BY <1>18 DEF PausePlatformClaims, ResumePlatformClaims, SetPaused, TypeOK
  <2> QED
      BY <1>18, <2>1, <2>2 DEF PausePlatformClaims, ResumePlatformClaims, SetPaused, TypeOK
<1>19. ASSUME NotifyResumed PROVE TypeOK'
  <2>1. inbox' \subseteq Replicas
      BY <1>19, NotifyType DEF NotifyResumed
  <2> QED
      BY <1>19, <2>1 DEF NotifyResumed, TypeOK
<1>20. ASSUME DiskMoves PROVE TypeOK'
  <2>1. events' \in 0..MaxEvents
      BY <1>20, SpendType DEF DiskMoves, TypeOK
  <2> QED
      BY <1>20, <2>1 DEF DiskMoves, TypeOK
<1>21. CASE UNCHANGED vars
    BY <1>21 DEF vars, TypeOK
<1> QED
    BY <1>1, <1>2, <1>3, <1>4, <1>5, <1>6, <1>7, <1>8, <1>9, <1>10, <1>11, <1>12,
       <1>13, <1>14, <1>15, <1>16, <1>17, <1>18, <1>19, <1>20, <1>21
       DEF Next, RoundStep

LEMMA TypeInit == Init => TypeOK
<1> SUFFICES ASSUME Init PROVE TypeOK
    OBVIOUS
<1>1. round \in [Replicas -> RoundType]
    BY IdleTypes DEF Init
<1>2. status \in [Jobs -> Statuses]
    BY DEF Init, Statuses
<1>3. seen \in [Replicas -> {"ok", "full"}] /\ inFlight \in [Replicas -> SUBSET Jobs]
    BY DEF Init
<1>4. events \in 0..MaxEvents
    BY CountsAssumption DEF Init
<1>5. /\ finished \subseteq Canvases /\ locked \subseteq Canvases
      /\ paused \in BOOLEAN /\ resumeDue \in BOOLEAN
      /\ disk \in {"ok", "full"} /\ kickDue \subseteq Jobs
      /\ enabled \subseteq Replicas /\ inbox \subseteq Replicas
      /\ kickAgain \subseteq Replicas
    BY DEF Init
<1> QED
    BY <1>1, <1>2, <1>3, <1>4, <1>5 DEF TypeOK, RoundType

\* The state of the queue, the switches and the rounds keeps its types
\* (dispatcher.ts, claimPendingJobs and kickDispatcher).
THEOREM TypeCorrect == Spec => []TypeOK
<1>1. Init => TypeOK
    BY TypeInit
<1>2. TypeOK /\ [Next]_vars => TypeOK'
    BY TypeStep
<1> QED
    BY <1>1, <1>2, PTL DEF Spec

-----------------------------------------------------------------------------
(***************************************************************************)
(* What a step does to the Jobs and to the claim under way.                *)
(***************************************************************************)

\* How a step that is no claim moves the Jobs.
EasyMove(j) ==
    \/ Move(j, "pending") \/ Move(j, "ended")
    \/ status[j] = "claimed" /\ Move(j, "running")
    \/ status[j] = "running" /\ Move(j, "waiting_human")

\* Only a claim page claims.
LEMMA StatusSteps ==
    ASSUME [Next]_vars
    PROVE  \/ UNCHANGED status
           \/ \E j \in Jobs : EasyMove(j)
           \/ \E d \in Replicas : ClaimPage(d)
<1>1. ASSUME NEW d \in Replicas,
             \/ Deliver(d) \/ RoundStep(d) \/ PageFails(d) \/ RoundFails(d)
             \/ StartDispatcher(d) \/ StopDispatcher(d)
             \/ \E who \in {"monitor", "readiness"} : RefreshDisk(d, who)
      PROVE  UNCHANGED status \/ ClaimPage(d)
    BY <1>1 DEF Deliver, RoundStep, Gates, TakePage, Return, PageFails, RoundFails,
                StartDispatcher, StopDispatcher, RefreshDisk
<1>2. ASSUME NEW d \in Replicas, NEW j \in Jobs, Bind(d, j) \/ KickAfterBind(d, j)
      PROVE  UNCHANGED status \/ EasyMove(j)
    BY <1>2 DEF Bind, KickAfterBind, EasyMove
<1>3. ASSUME NEW j \in Jobs,
             \/ Submit(j) \/ Retry(j) \/ End(j)
             \/ AskHuman(j) \/ ReplyToHuman(j) \/ Requeue(j)
      PROVE  EasyMove(j)
    BY <1>3 DEF Submit, Retry, End, AskHuman, ReplyToHuman, Requeue, EasyMove
<1>4. ASSUME \/ \E c \in Canvases : LockCanvas(c) \/ UnlockCanvas(c)
             \/ PausePlatformClaims \/ ResumePlatformClaims \/ NotifyResumed
             \/ DiskMoves
      PROVE  UNCHANGED status
    BY <1>4 DEF LockCanvas, UnlockCanvas, PausePlatformClaims, ResumePlatformClaims,
                NotifyResumed, DiskMoves, SetPaused
<1>5. UNCHANGED vars => UNCHANGED status
    BY DEF vars
<1> QED
    BY <1>1, <1>2, <1>3, <1>4, <1>5 DEF Next

\* The Jobs that are with an agent, or waiting for a human.
Held == In({"claimed", "running", "waiting_human"})

\* What is not a claim adds to no quota.
LEMMA NoClaimEases ==
    ASSUME TypeOK, [Next]_vars, \A d \in Replicas : ~ClaimPage(d)
    PROVE  Active' \subseteq Active /\ Provisioning' \subseteq Provisioning
           /\ Held' \subseteq Held
<1>1. CASE UNCHANGED status
    BY <1>1 DEF Active, Provisioning, Held, In
<1>2. ASSUME NEW j \in Jobs, EasyMove(j)
      PROVE  \A i \in Jobs :
                /\ status'[i] = "claimed" => status[i] = "claimed"
                /\ status'[i] = "running" => status[i] \in {"claimed", "running"}
                /\ status'[i] = "waiting_human" => status[i] \in {"running", "waiting_human"}
    BY <1>2 DEF EasyMove, Move, TypeOK
<1>3. ASSUME NEW j \in Jobs, EasyMove(j)
      PROVE  Active' \subseteq Active /\ Provisioning' \subseteq Provisioning
             /\ Held' \subseteq Held
    BY <1>2, <1>3 DEF Active, Provisioning, Held, In
<1> QED
    BY <1>1, <1>3, StatusSteps

\* A round that is set to something else than a claim leaves no new claim.
LEMMA SetRoundStands ==
    ASSUME TypeOK, NEW d \in Replicas, NEW r, r.pc # "claim", SetRound(d, r),
           NEW e \in Replicas, round'[e].pc = "claim"
    PROVE  round'[e] = round[e]
<1>1. round \in [Replicas -> RoundType]
    BY RoundTyped
<1> QED
    BY <1>1 DEF SetRound

LEMMA PcOf ==
    /\ Idle.pc = "idle" /\ Fresh.pc = "gates" /\ [Idle EXCEPT !.pc = "page"].pc = "page"
    /\ Idle.batch = {} /\ Fresh.batch = {} /\ [Idle EXCEPT !.pc = "page"].batch = {}
    /\ \A batch : Returning(batch).pc = "return" /\ Returning(batch).batch = batch
    BY DEF Idle, Fresh, Returning

LEMMA KickStands ==
    ASSUME TypeOK, NEW d \in Replicas, Kick(d),
           NEW e \in Replicas, round'[e].pc = "claim"
    PROVE  round'[e] = round[e]
<1>1. round' = round \/ SetRound(d, Fresh)
    BY DEF Kick, SetRound
<1>2. Fresh.pc # "claim"
    BY PcOf
<1> QED
    BY <1>1, <1>2, SetRoundStands

\* What the page of a claim has read stays as it is until the claim is made.
LEMMA ClaimStands ==
    ASSUME TypeOK, [Next]_vars, \A d \in Replicas : ~ClaimPage(d) /\ ~TakePage(d),
           NEW e \in Replicas, round'[e].pc = "claim"
    PROVE  round'[e] = round[e]
<1>1. ASSUME NEW d \in Replicas, Deliver(d) PROVE round'[e] = round[e]
    BY <1>1, KickStands DEF Deliver
<1>2. ASSUME NEW d \in Replicas, Gates(d) PROVE round'[e] = round[e]
  <2>1. SetRound(d, [Idle EXCEPT !.pc = "page"]) \/ SetRound(d, Returning({}))
      BY <1>2 DEF Gates
  <2> QED
      BY <2>1, PcOf, SetRoundStands
<1>3. ASSUME NEW d \in Replicas, Return(d) PROVE round'[e] = round[e]
  <2>1. SetRound(d, Fresh) \/ SetRound(d, Idle)
      BY <1>3 DEF Return
  <2> QED
      BY <2>1, PcOf, SetRoundStands
<1>4. ASSUME NEW d \in Replicas, PageFails(d) PROVE round'[e] = round[e]
  <2>1. SetRound(d, Returning(round[d].batch))
      BY <1>4 DEF PageFails
  <2> QED
      BY <2>1, PcOf, SetRoundStands
<1>5. ASSUME NEW d \in Replicas, RoundFails(d) PROVE round'[e] = round[e]
  <2>1. SetRound(d, Idle)
      BY <1>5 DEF RoundFails
  <2> QED
      BY <2>1, PcOf, SetRoundStands
<1>6. ASSUME NEW d \in Replicas, StopDispatcher(d) PROVE round'[e] = round[e]
  <2>1. SetRound(d, Returning({})) \/ UNCHANGED round
      BY <1>6 DEF StopDispatcher
  <2> QED
      BY <2>1, PcOf, SetRoundStands
<1>7. ASSUME NEW d \in Replicas, NEW who, RefreshDisk(d, who) PROVE round'[e] = round[e]
    BY <1>7, KickStands DEF RefreshDisk, UnchangedRounds
<1>8. ASSUME NEW d \in Replicas, NEW j \in Jobs, KickAfterBind(d, j)
      PROVE  round'[e] = round[e]
    BY <1>8, KickStands DEF KickAfterBind
<1>9. ASSUME \/ \E d \in Replicas : StartDispatcher(d)
             \/ \E d \in Replicas, j \in Jobs : Bind(d, j)
             \/ \E j \in Jobs : \/ Submit(j) \/ Retry(j) \/ End(j)
                                \/ AskHuman(j) \/ ReplyToHuman(j) \/ Requeue(j)
             \/ \E c \in Canvases : LockCanvas(c) \/ UnlockCanvas(c)
             \/ PausePlatformClaims \/ ResumePlatformClaims \/ NotifyResumed
             \/ DiskMoves
             \/ UNCHANGED vars
      PROVE  round'[e] = round[e]
    BY <1>9 DEF StartDispatcher, Bind, Submit, Retry, End, AskHuman, ReplyToHuman,
        Requeue, LockCanvas, UnlockCanvas, PausePlatformClaims, ResumePlatformClaims,
        SetPaused, NotifyResumed, DiskMoves, UnchangedRounds, vars
<1> QED
    BY <1>1, <1>2, <1>3, <1>4, <1>5, <1>6, <1>7, <1>8, <1>9 DEF Next, RoundStep

\* What a claim page leaves behind.
LEMMA ClaimLeaves ==
    ASSUME TypeOK, NEW d \in Replicas, ClaimPage(d)
    PROVE  \E granted \in SUBSET Directed, won \in SUBSET Pending :
              /\ won \subseteq Candidates(d, granted)
              /\ Greedy(d, won, granted)
              /\ \A j \in Jobs : status'[j] = IF j \in won THEN "claimed" ELSE status[j]
              /\ round'[d].pc \in {"page", "return"}
              /\ round'[d].batch = round[d].batch \cup won
              /\ \A e \in Replicas \ {d} : round'[e] = round[e]
<1>1. PICK granted \in SUBSET Directed, won \in SUBSET Pending :
          /\ won \subseteq Candidates(d, granted)
          /\ Greedy(d, won, granted)
          /\ status' = [j \in Jobs |-> IF j \in won THEN "claimed" ELSE status[j]]
          /\ SetRound(d, [Idle EXCEPT
              !.pc = IF More(d, won) THEN "page" ELSE "return",
              !.cursor = IF More(d, won) THEN LastOf(round[d].page) ELSE 0,
              !.batch = round[d].batch \cup won])
    BY DEF ClaimPage, Candidates
<1> DEFINE next == [Idle EXCEPT
              !.pc = IF More(d, won) THEN "page" ELSE "return",
              !.cursor = IF More(d, won) THEN LastOf(round[d].page) ELSE 0,
              !.batch = round[d].batch \cup won]
<1>2. next.pc \in {"page", "return"} /\ next.batch = round[d].batch \cup won
    BY DEF Idle
<1>3. round \in [Replicas -> RoundType]
    BY RoundTyped
<1>4. round' = [round EXCEPT ![d] = next]
    BY <1>1 DEF SetRound
<1>5. round'[d] = next /\ \A e \in Replicas \ {d} : round'[e] = round[e]
  <2> HIDE DEF next
  <2> QED
    BY <1>3, <1>4
<1> QED
    BY <1>1, <1>2, <1>5

-----------------------------------------------------------------------------
(***************************************************************************)
(* The quotas.  What the page of a claim has read is an upper bound until  *)
(* the claim is made: nobody else claims meanwhile (OneClaim), and every   *)
(* other step only frees slots (NoClaimEases).                             *)
(***************************************************************************)
OneClaim ==
    \A d, e \in Replicas : round[d].pc = "claim" /\ round[e].pc = "claim" => d = e

SlotsStand ==
    \A d \in Replicas : round[d].pc = "claim" =>
        /\ round[d].slots + Cardinality(Active) <= MaxGlobalJobs
        /\ round[d].slots + Cardinality(Provisioning) <= MaxConcurrentProvisioning
        /\ \A p \in Projects :
              round[d].room[p] + Cardinality(OfProject(Active, p)) <= ProjectLimit[p]

NotPaused == \A d \in Replicas : round[d].pc = "claim" => ~paused

QuotaInv == TypeOK /\ OneClaim /\ SlotsStand /\ NotPaused /\ WithinQuotas

\* Taking a page: it reads what is there, under the lock.
LEMMA TakePageQuota ==
    ASSUME QuotaInv, NEW d \in Replicas, TakePage(d)
    PROVE  OneClaim' /\ SlotsStand' /\ NotPaused' /\ WithinQuotas'
<1>t. TypeOK
    BY DEF QuotaInv
<1>r. round \in [Replicas -> RoundType]
    BY <1>t, RoundTyped
<1>1. \A e \in Replicas : round[e].pc # "claim"
    BY DEF TakePage, LockFree
<1>2. \A e \in Replicas \ {d} : round'[e] = round[e]
    BY <1>r DEF TakePage, SetRound
<1>3. \A e \in Replicas : round'[e].pc = "claim" => e = d
    BY <1>1, <1>2
<1>4. status' = status /\ paused' = paused
    BY DEF TakePage, UnchangedSwitches
<1>5. Active' = Active /\ Provisioning' = Provisioning
    BY <1>4 DEF Active, Provisioning, In
<1>6. ASSUME round'[d].pc = "claim"
      PROVE  ~paused /\ round'[d].slots = Slots /\ round'[d].room = Room
  <2> DEFINE held  == paused \/ Slots <= 0 \/ PageAfter(round[d].cursor) = {}
             taken == [round[d] EXCEPT !.pc = "claim", !.page = PageAfter(round[d].cursor),
                                       !.slots = Slots, !.room = Room]
  <2>1. round' = [round EXCEPT ![d] = IF held THEN Returning(round[d].batch) ELSE taken]
      BY DEF TakePage, SetRound
  <2>2. round'[d] = IF held THEN Returning(round[d].batch) ELSE taken
    <3> HIDE DEF held, taken
    <3> QED
      BY <2>1, <1>r
  <2>3. Returning(round[d].batch).pc # "claim"
      BY PcOf
  <2>4. ~held /\ round'[d] = taken
    <3> HIDE DEF held, taken
    <3> QED
      BY <1>6, <2>2, <2>3
  <2>5. round[d] \in RoundType
      BY <1>r
  <2>6. taken.slots = Slots /\ taken.room = Room
      BY <2>5 DEF RoundType
  <2>7. ~paused
      BY <2>4
  <2> HIDE DEF held, taken
  <2> QED
      BY <2>4, <2>6, <2>7
<1>7. /\ Slots + Cardinality(Active) <= MaxGlobalJobs
      /\ Slots + Cardinality(Provisioning) <= MaxConcurrentProvisioning
    BY <1>t, CountsTyped, CountsAssumption DEF Slots
<1>8. \A p \in Projects : Room[p] + Cardinality(OfProject(Active, p)) <= ProjectLimit[p]
  <2> SUFFICES ASSUME NEW p \in Projects
               PROVE  Room[p] + Cardinality(OfProject(Active, p)) <= ProjectLimit[p]
      OBVIOUS
  <2>1. Cardinality(OfProject(Active, p)) \in Nat /\ ProjectLimit[p] \in Nat
      BY <1>t, CountsTyped, LimitsAssumption
  <2>2. Room[p] = ProjectLimit[p] - Cardinality(OfProject(Active, p))
      BY DEF Room
  <2> QED
      BY <2>1, <2>2
<1>9. OneClaim'
    BY <1>3 DEF OneClaim
<1>10. SlotsStand'
  <2> SUFFICES ASSUME round'[d].pc = "claim"
               PROVE  /\ round'[d].slots + Cardinality(Active) <= MaxGlobalJobs
                      /\ round'[d].slots + Cardinality(Provisioning) <= MaxConcurrentProvisioning
                      /\ \A p \in Projects :
                           round'[d].room[p] + Cardinality(OfProject(Active, p)) <= ProjectLimit[p]
      BY <1>3, <1>5 DEF SlotsStand, OfProject
  <2> QED
      BY <1>6, <1>7, <1>8
<1>11. NotPaused'
    BY <1>3, <1>4, <1>6 DEF NotPaused
<1>12. WithinQuotas'
    BY <1>5 DEF QuotaInv, WithinQuotas, OfProject
<1> QED
    BY <1>9, <1>10, <1>11, <1>12

\* The claim itself: at most what was free when the page was read.
LEMMA ClaimPageQuota ==
    ASSUME QuotaInv, NEW d \in Replicas, ClaimPage(d)
    PROVE  OneClaim' /\ SlotsStand' /\ NotPaused' /\ WithinQuotas'
<1>t. TypeOK
    BY DEF QuotaInv
<1>1. PICK granted \in SUBSET Directed, won \in SUBSET Pending :
              /\ won \subseteq Candidates(d, granted)
              /\ Greedy(d, won, granted)
              /\ \A j \in Jobs : status'[j] = IF j \in won THEN "claimed" ELSE status[j]
              /\ round'[d].pc \in {"page", "return"}
              /\ \A e \in Replicas \ {d} : round'[e] = round[e]
    BY <1>t, ClaimLeaves
<1>2. round[d].pc = "claim"
    BY DEF ClaimPage
<1>3. \A e \in Replicas : round'[e].pc # "claim"
    BY <1>1, <1>2 DEF QuotaInv, OneClaim
<1>4. OneClaim' /\ SlotsStand' /\ NotPaused'
    BY <1>3 DEF OneClaim, SlotsStand, NotPaused
<1>5. won \in SUBSET Jobs
    BY DEF Pending, In
<1>6. Active' = Active \cup won /\ Provisioning' = Provisioning \cup won
    BY <1>1, <1>5 DEF Active, Provisioning, In
<1>7. round[d] \in RoundType
    BY <1>t, RoundTyped
<1>8. /\ round[d].slots \in Int
      /\ \A p \in Projects : round[d].room[p] \in Int
    BY <1>7 DEF RoundType
<1>9. Cardinality(won) \in Nat /\ Cardinality(won) <= round[d].slots
    BY <1>1, <1>5, JobsFinite DEF Greedy
<1>10. Cardinality(Active') <= MaxGlobalJobs
  <2>1. Active' \in SUBSET Jobs
      BY <1>5, <1>6, <1>t, CountsTyped
  <2>2. Cardinality(Active') \in Nat
      BY <2>1, JobsFinite
  <2>3. Cardinality(Active') <= Cardinality(Active) + Cardinality(won)
      BY <1>5, <1>6, <1>t, CountsTyped, UnionCount
  <2>4. round[d].slots + Cardinality(Active) <= MaxGlobalJobs
      BY <1>2 DEF QuotaInv, SlotsStand
  <2> QED
      BY <2>2, <2>3, <2>4, <1>8, <1>9, <1>t, CountsTyped, CountsAssumption
<1>11. Cardinality(Provisioning') <= MaxConcurrentProvisioning
  <2>1. Provisioning' \in SUBSET Jobs
      BY <1>5, <1>6, <1>t, CountsTyped
  <2>2. Cardinality(Provisioning') \in Nat
      BY <2>1, JobsFinite
  <2>3. Cardinality(Provisioning') <= Cardinality(Provisioning) + Cardinality(won)
      BY <1>5, <1>6, <1>t, CountsTyped, UnionCount
  <2>4. round[d].slots + Cardinality(Provisioning) <= MaxConcurrentProvisioning
      BY <1>2 DEF QuotaInv, SlotsStand
  <2> QED
      BY <2>2, <2>3, <2>4, <1>8, <1>9, <1>t, CountsTyped, CountsAssumption
<1>12. ASSUME NEW p \in Projects
       PROVE  Cardinality(OfProject(Active', p)) <= ProjectLimit[p]
  <2>1. OfProject(Active', p) = OfProject(Active, p) \cup OfProject(won, p)
      BY <1>6 DEF OfProject
  <2>2. OfProject(won, p) \in SUBSET Jobs /\ OfProject(Active, p) \in SUBSET Jobs
      BY <1>5, <1>t, CountsTyped DEF OfProject
  <2>3. CASE OfProject(won, p) = {}
    <3>1. OfProject(Active', p) = OfProject(Active, p)
        BY <2>1, <2>3
    <3> QED
        BY <3>1 DEF QuotaInv, WithinQuotas
  <2>4. CASE Cardinality(OfProject(won, p)) <= round[d].room[p]
    <3>1. Cardinality(OfProject(Active', p))
            <= Cardinality(OfProject(Active, p)) + Cardinality(OfProject(won, p))
        BY <2>1, <2>2, UnionCount
    <3>2. round[d].room[p] + Cardinality(OfProject(Active, p)) <= ProjectLimit[p]
        BY <1>2 DEF QuotaInv, SlotsStand
    <3>3. OfProject(Active', p) \in SUBSET Jobs
        BY <2>1, <2>2
    <3>4. /\ Cardinality(OfProject(Active', p)) \in Nat
          /\ Cardinality(OfProject(Active, p)) \in Nat
          /\ Cardinality(OfProject(won, p)) \in Nat
        BY <2>2, <3>3, JobsFinite
    <3>5. ProjectLimit[p] \in Nat
        BY LimitsAssumption
    <3> QED
        BY <2>4, <3>1, <3>2, <3>4, <3>5, <1>8
  <2> QED
      BY <1>1, <2>3, <2>4 DEF Greedy
<1>13. WithinQuotas'
    BY <1>10, <1>11, <1>12 DEF WithinQuotas, OfProject
<1> QED
    BY <1>4, <1>13

\* Any other step.
LEMMA OtherQuota ==
    ASSUME QuotaInv, [Next]_vars, \A d \in Replicas : ~ClaimPage(d) /\ ~TakePage(d)
    PROVE  OneClaim' /\ SlotsStand' /\ NotPaused' /\ WithinQuotas'
<1>t. TypeOK
    BY DEF QuotaInv
<1>1. \A e \in Replicas : round'[e].pc = "claim" => round'[e] = round[e]
    BY <1>t, ClaimStands
<1>2. Active' \subseteq Active /\ Provisioning' \subseteq Provisioning
    BY <1>t, NoClaimEases
<1>3. /\ Cardinality(Active') \in Nat /\ Cardinality(Active') <= Cardinality(Active)
      /\ Cardinality(Provisioning') \in Nat
      /\ Cardinality(Provisioning') <= Cardinality(Provisioning)
    BY <1>2, <1>t, CountsTyped, JobsFinite
<1>4. ASSUME NEW p \in Projects
      PROVE  /\ Cardinality(OfProject(Active', p)) \in Nat
             /\ Cardinality(OfProject(Active', p)) <= Cardinality(OfProject(Active, p))
  <2>1. OfProject(Active', p) \subseteq OfProject(Active, p)
      BY <1>2 DEF OfProject
  <2> QED
      BY <2>1, <1>t, CountsTyped, JobsFinite
<1>5. OneClaim'
    BY <1>1 DEF QuotaInv, OneClaim
<1>6. SlotsStand'
  <2> SUFFICES ASSUME NEW d \in Replicas, round'[d].pc = "claim"
               PROVE  /\ round'[d].slots + Cardinality(Active') <= MaxGlobalJobs
                      /\ round'[d].slots + Cardinality(Provisioning') <= MaxConcurrentProvisioning
                      /\ \A p \in Projects :
                           round'[d].room[p] + Cardinality(OfProject(Active', p)) <= ProjectLimit[p]
      BY DEF SlotsStand, OfProject
  <2>1. round'[d] = round[d]
      BY <1>1
  <2>2. round[d].slots \in Int /\ \A p \in Projects : round[d].room[p] \in Int
    <3>1. round[d] \in RoundType
        BY <1>t, RoundTyped
    <3> QED
        BY <3>1 DEF RoundType
  <2>3. /\ round[d].slots + Cardinality(Active) <= MaxGlobalJobs
        /\ round[d].slots + Cardinality(Provisioning) <= MaxConcurrentProvisioning
        /\ \A p \in Projects :
              round[d].room[p] + Cardinality(OfProject(Active, p)) <= ProjectLimit[p]
      BY <2>1 DEF QuotaInv, SlotsStand
  <2>4. /\ round[d].slots + Cardinality(Active') <= MaxGlobalJobs
        /\ round[d].slots + Cardinality(Provisioning') <= MaxConcurrentProvisioning
      BY <2>2, <2>3, <1>3, <1>t, CountsTyped, CountsAssumption
  <2>5. ASSUME NEW p \in Projects
        PROVE  round[d].room[p] + Cardinality(OfProject(Active', p)) <= ProjectLimit[p]
    <3>1. Cardinality(OfProject(Active, p)) \in Nat /\ ProjectLimit[p] \in Nat
        BY <1>t, CountsTyped, LimitsAssumption
    <3> QED
        BY <3>1, <2>2, <2>3, <1>4
  <2> QED
      BY <2>1, <2>4, <2>5
<1>7. NotPaused'
  <2>1. CASE PausePlatformClaims
    <3>1. \A e \in Replicas : round[e].pc # "claim"
        BY <2>1 DEF PausePlatformClaims, LockFree
    <3> QED
        BY <3>1, <1>1 DEF NotPaused
  <2>2. CASE ~PausePlatformClaims
    <3>1. paused' = paused \/ paused' = FALSE
        BY <2>2 DEF Next, RoundStep, Deliver, Gates, Return, PageFails, RoundFails,
            StartDispatcher, StopDispatcher, RefreshDisk, Bind, KickAfterBind,
            Submit, Retry, End, AskHuman, ReplyToHuman, Requeue, LockCanvas,
            UnlockCanvas, ResumePlatformClaims, SetPaused, NotifyResumed, DiskMoves,
            UnchangedSwitches, vars
    <3> QED
        BY <3>1, <1>1 DEF QuotaInv, NotPaused
  <2> QED
      BY <2>1, <2>2
<1>8. WithinQuotas'
  <2>1. \A p \in Projects : Cardinality(OfProject(Active', p)) <= ProjectLimit[p]
    <3> SUFFICES ASSUME NEW p \in Projects
                 PROVE  Cardinality(OfProject(Active', p)) <= ProjectLimit[p]
        OBVIOUS
    <3>1. Cardinality(OfProject(Active, p)) \in Nat /\ ProjectLimit[p] \in Nat
        BY <1>t, CountsTyped, LimitsAssumption
    <3>2. Cardinality(OfProject(Active, p)) <= ProjectLimit[p]
        BY DEF QuotaInv, WithinQuotas
    <3> QED
        BY <3>1, <3>2, <1>4
  <2>2. /\ Cardinality(Active) <= MaxGlobalJobs
        /\ Cardinality(Provisioning) <= MaxConcurrentProvisioning
      BY DEF QuotaInv, WithinQuotas
  <2>3. /\ Cardinality(Active') <= MaxGlobalJobs
        /\ Cardinality(Provisioning') <= MaxConcurrentProvisioning
      BY <2>2, <1>3, <1>t, CountsTyped, CountsAssumption
  <2> QED
      BY <2>1, <2>3 DEF WithinQuotas, OfProject
<1> QED
    BY <1>5, <1>6, <1>7, <1>8

LEMMA InitQuota == Init => QuotaInv
<1> SUFFICES ASSUME Init PROVE QuotaInv
    OBVIOUS
<1>1. TypeOK
    BY TypeInit
<1>2. \A d \in Replicas : round[d].pc # "claim"
    BY PcOf DEF Init
<1>3. Active = {} /\ Provisioning = {}
    BY DEF Init, Active, Provisioning, In
<1>4. \A p \in Projects : OfProject(Active, p) = {} /\ ProjectLimit[p] \in Nat
    BY <1>3, LimitsAssumption DEF OfProject
<1>5. Cardinality({}) = 0
    BY FS_EmptySet
<1>6. WithinQuotas
    BY <1>3, <1>4, <1>5, CountsAssumption DEF WithinQuotas
<1> QED
    BY <1>1, <1>2, <1>6 DEF QuotaInv, OneClaim, SlotsStand, NotPaused

LEMMA QuotaStep == QuotaInv /\ [Next]_vars => QuotaInv'
<1>1. QuotaInv /\ [Next]_vars => TypeOK'
    BY TypeStep DEF QuotaInv
<1>2. QuotaInv /\ [Next]_vars => OneClaim' /\ SlotsStand' /\ NotPaused' /\ WithinQuotas'
    BY TakePageQuota, ClaimPageQuota, OtherQuota
<1> QED
    BY <1>1, <1>2 DEF QuotaInv

LEMMA QuotaInvariant == Spec => []QuotaInv
    BY InitQuota, QuotaStep, PTL DEF Spec

\* However many replicas claim from counts read before, the quotas hold over all
\* Jobs (dispatcher.ts, claimPendingJobs).
THEOREM QuotasHold == Spec => []WithinQuotas
<1>1. QuotaInv => WithinQuotas
    BY DEF QuotaInv
<1> QED
    BY <1>1, QuotaInvariant, PTL

\* Once a pause has been committed nothing is claimed (platform-claims/store.ts,
\* readPlatformClaimsControl under the claim lock).
THEOREM PausesHold == Spec => PauseIsRespected
<1> DEFINE Respected ==
      \A j \in Jobs : status[j] # "claimed" /\ status'[j] = "claimed" => ~paused
<1>1. QuotaInv /\ [Next]_vars => [Respected]_<<status, paused>>
  <2> SUFFICES ASSUME QuotaInv, [Next]_vars, NEW j \in Jobs,
                      status[j] # "claimed", status'[j] = "claimed"
               PROVE  ~paused
      OBVIOUS
  <2>1. ~(UNCHANGED status)
      OBVIOUS
  <2>2. ASSUME NEW i \in Jobs, EasyMove(i) PROVE FALSE
      BY <2>2 DEF EasyMove, Move, QuotaInv, TypeOK
  <2>3. PICK d \in Replicas : ClaimPage(d)
      BY <2>1, <2>2, StatusSteps
  <2> QED
      BY <2>3 DEF ClaimPage, QuotaInv, NotPaused
<1> QED
    BY <1>1, QuotaInvariant, PTL DEF PauseIsRespected, Spec

-----------------------------------------------------------------------------
(***************************************************************************)
(* One hub per canvas.  The facts of the graph are read once for a page;   *)
(* of the hubs of one canvas in it the gate lets the oldest through only.  *)
(***************************************************************************)
HubInv == TypeOK /\ OneActiveHub

LEMMA HubStep == HubInv /\ [Next]_vars => HubInv'
<1> SUFFICES ASSUME HubInv, [Next]_vars PROVE HubInv'
    OBVIOUS
<1>t. TypeOK
    BY DEF HubInv
<1>1. TypeOK'
    BY <1>t, TypeStep
<1>2. ASSUME \A d \in Replicas : ~ClaimPage(d) PROVE OneActiveHub'
  <2>1. Held' \subseteq Held
      BY <1>2, <1>t, NoClaimEases
  <2> QED
      BY <2>1 DEF HubInv, OneActiveHub, Held, OfKind
<1>3. ASSUME NEW d \in Replicas, ClaimPage(d) PROVE OneActiveHub'
  <2>1. PICK granted \in SUBSET Directed, won \in SUBSET Pending :
          /\ won \subseteq Candidates(d, granted)
          /\ \A j \in Jobs : status'[j] = IF j \in won THEN "claimed" ELSE status[j]
      BY <1>3, <1>t, ClaimLeaves
  <2>2. won \in SUBSET Pending
      OBVIOUS
  <2>3. won \in SUBSET Jobs
      BY <2>2 DEF Pending, In
  <2>4. Held' = Held \cup won
      BY <2>1, <2>3 DEF Held, In
  <2>5. ASSUME NEW i \in won, KindOf[i] = "hub_reason"
        PROVE  HubGate(i, granted)
      BY <2>1, <2>5 DEF Candidates, GraphEligible
  <2>6. ASSUME NEW i \in won, KindOf[i] = "hub_reason", NEW j \in Held,
               KindOf[j] = "hub_reason", CanvasOf[i] = CanvasOf[j]
        PROVE  FALSE
      BY <2>5, <2>6 DEF HubGate, Held, OfKind, OnCanvas
  <2>7. ASSUME NEW i \in won, KindOf[i] = "hub_reason", NEW j \in won,
               KindOf[j] = "hub_reason", CanvasOf[i] = CanvasOf[j]
        PROVE  i = j
    <3>1. OldestOfKind(i) /\ OldestOfKind(j)
        BY <2>5, <2>7 DEF HubGate
    <3>2. CreatedAt[i] <= CreatedAt[j] /\ CreatedAt[j] <= CreatedAt[i]
        BY <3>1, <2>2, <2>7 DEF OldestOfKind, OfKind, OnCanvas
    <3>3. CreatedAt[i] \in Nat /\ CreatedAt[j] \in Nat
        BY <2>3, JobsAssumption
    <3> QED
        BY <3>2, <3>3, <2>3, JobsAssumption
  <2>8. ASSUME NEW i \in Held, KindOf[i] = "hub_reason", NEW j \in Held,
               KindOf[j] = "hub_reason", CanvasOf[i] = CanvasOf[j]
        PROVE  i = j
      BY <2>8 DEF HubInv, OneActiveHub, Held, OfKind
  <2>9. ASSUME NEW i \in Held', KindOf[i] = "hub_reason", NEW j \in Held',
               KindOf[j] = "hub_reason", CanvasOf[i] = CanvasOf[j]
        PROVE  i = j
      BY <2>4, <2>6, <2>7, <2>8, <2>9
  <2> QED
      BY <2>9 DEF OneActiveHub, Held, OfKind
<1> QED
    BY <1>1, <1>2, <1>3 DEF HubInv

\* At most one hub of a canvas is active, however many of them a page holds
\* (db/job-graph-eligibility.ts, graphEligibilityReason).
THEOREM OneHub == Spec => []OneActiveHub
<1>1. Init => HubInv
  <2> SUFFICES ASSUME Init PROVE HubInv
      OBVIOUS
  <2>1. In({"claimed", "running", "waiting_human"}) = {}
      BY DEF Init, In
  <2> QED
      BY <2>1, TypeInit DEF HubInv, OneActiveHub, OfKind
<1>2. HubInv => OneActiveHub
    BY DEF HubInv
<1> QED
    BY <1>1, <1>2, HubStep, PTL DEF Spec

-----------------------------------------------------------------------------
(***************************************************************************)
(* Claims that are run.  A round that has not passed its gates holds no    *)
(* claims (IdleEmpty), so that what sets a round anew loses none.          *)
(***************************************************************************)
IdleEmpty == \A d \in Replicas : round[d].pc \in {"idle", "gates"} => round[d].batch = {}

RunnerInv == TypeOK /\ IdleEmpty /\ ClaimedHasRunner

LEMMA SetRoundBatch ==
    ASSUME TypeOK, IdleEmpty, NEW d \in Replicas, NEW r, SetRound(d, r),
           r.pc \in {"idle", "gates"} => r.batch = {}
    PROVE  /\ IdleEmpty'
           /\ r.batch = round[d].batch => \A e \in Replicas : round'[e].batch = round[e].batch
<1>1. round \in [Replicas -> RoundType]
    BY RoundTyped
<1>2. round'[d] = r /\ \A e \in Replicas \ {d} : round'[e] = round[e]
    BY <1>1 DEF SetRound
<1> QED
    BY <1>2 DEF IdleEmpty

LEMMA KickBatch ==
    ASSUME TypeOK, IdleEmpty, NEW d \in Replicas, Kick(d)
    PROVE  IdleEmpty' /\ \A e \in Replicas : round'[e].batch = round[e].batch
<1>1. CASE UNCHANGED round
    BY <1>1 DEF IdleEmpty
<1>2. CASE round[d].pc = "idle" /\ SetRound(d, Fresh)
  <2>1. Fresh.batch = {} /\ round[d].batch = {}
      BY <1>2, PcOf DEF IdleEmpty
  <2> QED
      BY <2>1, <1>2, SetRoundBatch
<1> QED
    BY <1>1, <1>2 DEF Kick, SetRound

\* No step but the claim and the return touches the batches.
LEMMA BatchStands ==
    ASSUME TypeOK, IdleEmpty, [Next]_vars,
           \A d \in Replicas : ~ClaimPage(d) /\ ~Return(d)
    PROVE  IdleEmpty' /\ \A e \in Replicas : round'[e].batch = round[e].batch
<1> DEFINE Good == IdleEmpty' /\ \A e \in Replicas : round'[e].batch = round[e].batch
<1>r. round \in [Replicas -> RoundType]
    BY RoundTyped
<1>1. ASSUME NEW d \in Replicas, Deliver(d) PROVE Good
    BY <1>1, KickBatch DEF Deliver
<1>2. ASSUME NEW d \in Replicas, Gates(d) PROVE Good
  <2>1. SetRound(d, [Idle EXCEPT !.pc = "page"]) \/ SetRound(d, Returning({}))
      BY <1>2 DEF Gates
  <2>2. round[d].batch = {}
      BY <1>2 DEF Gates, IdleEmpty
  <2> QED
      BY <2>1, <2>2, PcOf, SetRoundBatch, ZenonT(40)
<1>3. ASSUME NEW d \in Replicas, TakePage(d) PROVE Good
  <2> DEFINE taken == [round[d] EXCEPT !.pc = "claim", !.page = PageAfter(round[d].cursor),
                                       !.slots = Slots, !.room = Room]
  <2>1. SetRound(d, taken) \/ SetRound(d, Returning(round[d].batch))
      BY <1>3 DEF TakePage
  <2>2. taken.pc = "claim" /\ taken.batch = round[d].batch
    <3>1. round[d] \in RoundType
        BY <1>r
    <3> QED
        BY <3>1 DEF RoundType
  <2> HIDE DEF taken
  <2>3. CASE SetRound(d, taken)
      BY <2>2, <2>3, SetRoundBatch
  <2>4. CASE SetRound(d, Returning(round[d].batch))
      BY <2>4, PcOf, SetRoundBatch
  <2> QED
      BY <2>1, <2>3, <2>4
<1>4. ASSUME NEW d \in Replicas, PageFails(d) PROVE Good
  <2>1. SetRound(d, Returning(round[d].batch))
      BY <1>4 DEF PageFails
  <2> QED
      BY <2>1, PcOf, SetRoundBatch
<1>5. ASSUME NEW d \in Replicas, RoundFails(d) PROVE Good
  <2>1. SetRound(d, Idle) /\ round[d].batch = {}
      BY <1>5 DEF RoundFails
  <2> QED
      BY <2>1, PcOf, SetRoundBatch
<1>6. ASSUME NEW d \in Replicas, StopDispatcher(d) PROVE Good
  <2>1. CASE UNCHANGED round
      BY <2>1 DEF IdleEmpty
  <2>2. CASE round[d].pc = "gates" /\ SetRound(d, Returning({}))
    <3>1. round[d].batch = {}
        BY <2>2 DEF IdleEmpty
    <3>2. Returning({}).pc = "return" /\ Returning({}).batch = {}
        BY PcOf
    <3> QED
        BY <3>1, <3>2, <2>2, SetRoundBatch
  <2> QED
      BY <1>6, <2>1, <2>2 DEF StopDispatcher
<1>7. ASSUME NEW d \in Replicas, NEW who, RefreshDisk(d, who) PROVE Good
  <2>1. CASE UNCHANGED round
      BY <2>1 DEF IdleEmpty
  <2> QED
      BY <1>7, <2>1, KickBatch DEF RefreshDisk, UnchangedRounds
<1>8. ASSUME NEW d \in Replicas, NEW j \in Jobs, KickAfterBind(d, j) PROVE Good
    BY <1>8, KickBatch DEF KickAfterBind
<1>9. ASSUME \/ \E d \in Replicas : StartDispatcher(d)
             \/ \E d \in Replicas, j \in Jobs : Bind(d, j)
             \/ \E j \in Jobs : \/ Submit(j) \/ Retry(j) \/ End(j)
                                \/ AskHuman(j) \/ ReplyToHuman(j) \/ Requeue(j)
             \/ \E c \in Canvases : LockCanvas(c) \/ UnlockCanvas(c)
             \/ PausePlatformClaims \/ ResumePlatformClaims \/ NotifyResumed
             \/ DiskMoves
             \/ UNCHANGED vars
      PROVE  Good
  <2>1. UNCHANGED round
      BY <1>9 DEF StartDispatcher, Bind, Submit, Retry, End, AskHuman, ReplyToHuman,
          Requeue, LockCanvas, UnlockCanvas, PausePlatformClaims, ResumePlatformClaims,
          SetPaused, NotifyResumed, DiskMoves, UnchangedRounds, vars
  <2> QED
      BY <2>1 DEF IdleEmpty
<1> QED
    BY <1>1, <1>2, <1>3, <1>4, <1>5, <1>6, <1>7, <1>8, <1>9 DEF Next, RoundStep

\* A Job is taken from its runner only when it is no longer claimed.
LEMMA RunnersStand ==
    ASSUME TypeOK, [Next]_vars, NEW e \in Replicas, NEW i \in inFlight[e],
           status'[i] = "claimed"
    PROVE  i \in inFlight'[e]
<1>1. i \in Jobs
    BY DEF TypeOK
<1>2. ASSUME NEW j \in Jobs, Drop(j), i # j PROVE i \in inFlight'[e]
    BY <1>2 DEF Drop
<1>3. ASSUME NEW j \in Jobs, NEW to, to # "claimed", Move(j, to) PROVE i # j
    BY <1>3 DEF Move, TypeOK
<1>4. ASSUME NEW j \in Jobs, Retry(j) \/ End(j) \/ AskHuman(j)
      PROVE  i \in inFlight'[e]
    BY <1>2, <1>3, <1>4 DEF Retry, End, AskHuman
<1>5. ASSUME NEW d \in Replicas, Return(d) PROVE i \in inFlight'[e]
    BY <1>5 DEF Return, TypeOK
<1>6. ASSUME NEW d \in Replicas,
             \/ Deliver(d) \/ Gates(d) \/ TakePage(d) \/ ClaimPage(d)
             \/ PageFails(d) \/ RoundFails(d)
             \/ StartDispatcher(d) \/ StopDispatcher(d)
             \/ \E who \in {"monitor", "readiness"} : RefreshDisk(d, who)
             \/ \E j \in Jobs : Bind(d, j) \/ KickAfterBind(d, j)
      PROVE  i \in inFlight'[e]
    BY <1>6 DEF Deliver, Gates, TakePage, ClaimPage, PageFails, RoundFails,
        StartDispatcher, StopDispatcher, RefreshDisk, Bind, KickAfterBind, UnchangedRuns
<1>7. ASSUME \/ \E j \in Jobs : Submit(j) \/ ReplyToHuman(j) \/ Requeue(j)
             \/ \E c \in Canvases : LockCanvas(c) \/ UnlockCanvas(c)
             \/ PausePlatformClaims \/ ResumePlatformClaims \/ NotifyResumed
             \/ DiskMoves
             \/ UNCHANGED vars
      PROVE  i \in inFlight'[e]
    BY <1>7 DEF Submit, ReplyToHuman, Requeue, LockCanvas, UnlockCanvas,
        PausePlatformClaims, ResumePlatformClaims, SetPaused, NotifyResumed, DiskMoves,
        UnchangedRuns, vars
<1> QED
    BY <1>4, <1>5, <1>6, <1>7 DEF Next, RoundStep

LEMMA RunnerStep == RunnerInv /\ [Next]_vars => RunnerInv'
<1> SUFFICES ASSUME RunnerInv, [Next]_vars PROVE RunnerInv'
    OBVIOUS
<1>t. TypeOK /\ IdleEmpty
    BY DEF RunnerInv
<1>r. round \in [Replicas -> RoundType]
    BY <1>t, RoundTyped
<1>i. \A j \in Jobs : status[j] = "claimed" =>
        \E e \in Replicas : j \in round[e].batch \/ j \in inFlight[e]
    BY DEF RunnerInv, ClaimedHasRunner, In
<1>1. TypeOK'
    BY <1>t, TypeStep
<1>2. ASSUME NEW d \in Replicas, ClaimPage(d) PROVE IdleEmpty' /\ ClaimedHasRunner'
  <2>1. PICK granted \in SUBSET Directed, won \in SUBSET Pending :
          /\ won \subseteq Candidates(d, granted)
          /\ \A j \in Jobs : status'[j] = IF j \in won THEN "claimed" ELSE status[j]
          /\ round'[d].pc \in {"page", "return"}
          /\ round'[d].batch = round[d].batch \cup won
          /\ \A e \in Replicas \ {d} : round'[e] = round[e]
      BY <1>2, <1>t, ClaimLeaves
  <2>2. IdleEmpty'
      BY <1>t, <2>1 DEF IdleEmpty
  <2>3. inFlight' = inFlight
      BY <1>2 DEF ClaimPage, UnchangedRuns
  <2>4. \A e \in Replicas : round[e].batch \subseteq round'[e].batch
      BY <2>1
  <2>5. ASSUME NEW j \in Jobs, status'[j] = "claimed"
        PROVE  \E e \in Replicas : j \in round'[e].batch \/ j \in inFlight'[e]
    <3>1. CASE j \in won
        BY <3>1, <2>1
    <3>2. CASE j \notin won
      <4>1. status[j] = "claimed"
          BY <3>2, <2>1, <2>5
      <4> QED
          BY <4>1, <1>i, <2>3, <2>4
    <3> QED
        BY <3>1, <3>2
  <2> QED
      BY <2>2, <2>5 DEF ClaimedHasRunner, In
<1>3. ASSUME NEW d \in Replicas, Return(d) PROVE IdleEmpty' /\ ClaimedHasRunner'
  <2>1. SetRound(d, Fresh) \/ SetRound(d, Idle)
      BY <1>3 DEF Return
  <2>2. IdleEmpty'
      BY <2>1, <1>t, PcOf, SetRoundBatch
  <2>3. status' = status
      BY <1>3 DEF Return
  <2>4. \A e \in Replicas \ {d} : round'[e] = round[e]
      BY <2>1, <1>r DEF SetRound
  <2>5. /\ inFlight'[d] = inFlight[d] \cup (round[d].batch \cap In({"claimed"}))
        /\ \A e \in Replicas : inFlight[e] \subseteq inFlight'[e]
      BY <1>3, <1>t DEF Return, TypeOK
  <2>6. ASSUME NEW j \in Jobs, status[j] = "claimed"
        PROVE  \E e \in Replicas : j \in round'[e].batch \/ j \in inFlight'[e]
    <3>1. PICK e \in Replicas : j \in round[e].batch \/ j \in inFlight[e]
        BY <1>i, <2>6
    <3>2. CASE j \in inFlight[e]
        BY <3>2, <2>5
    <3>3. CASE j \in round[e].batch /\ e = d
        BY <3>3, <2>5, <2>6 DEF In
    <3>4. CASE j \in round[e].batch /\ e # d
        BY <3>4, <2>4
    <3> QED
        BY <3>1, <3>2, <3>3, <3>4
  <2> QED
      BY <2>2, <2>3, <2>6 DEF ClaimedHasRunner, In
<1>4. ASSUME \A d \in Replicas : ~ClaimPage(d) /\ ~Return(d)
      PROVE  IdleEmpty' /\ ClaimedHasRunner'
  <2>1. IdleEmpty' /\ \A e \in Replicas : round'[e].batch = round[e].batch
      BY <1>4, <1>t, BatchStands
  <2>2. \A j \in Jobs : status'[j] = "claimed" => status[j] = "claimed"
      BY <1>4, <1>t, NoClaimEases DEF Provisioning, In
  <2>3. \A j \in Jobs, e \in Replicas :
          j \in inFlight[e] /\ status'[j] = "claimed" => j \in inFlight'[e]
      BY <1>t, RunnersStand
  <2>4. ASSUME NEW j \in Jobs, status'[j] = "claimed"
        PROVE  \E e \in Replicas : j \in round'[e].batch \/ j \in inFlight'[e]
    <3>1. PICK e \in Replicas : j \in round[e].batch \/ j \in inFlight[e]
        BY <1>i, <2>2, <2>4
    <3> QED
        BY <3>1, <2>1, <2>3, <2>4
  <2> QED
      BY <2>1, <2>4 DEF ClaimedHasRunner, In
<1> QED
    BY <1>1, <1>2, <1>3, <1>4 DEF RunnerInv

\* A committed claim reaches runJob (dispatcher.ts, claimPendingJobs and
\* kickDispatcher): a claimed Job is in a batch to be returned, or it has a run.
THEOREM ClaimsRun == Spec => []ClaimedHasRunner
<1>1. Init => RunnerInv
  <2> SUFFICES ASSUME Init PROVE RunnerInv
      OBVIOUS
  <2>1. IdleEmpty
      BY PcOf DEF Init, IdleEmpty
  <2>2. In({"claimed"}) = {}
      BY DEF Init, In
  <2> QED
      BY <2>1, <2>2, TypeInit DEF RunnerInv, ClaimedHasRunner
<1>2. RunnerInv => ClaimedHasRunner
    BY DEF RunnerInv
<1> QED
    BY <1>1, <1>2, RunnerStep, PTL DEF Spec
=============================================================================
