-------------------------- MODULE Completion_proofs --------------------------
(***************************************************************************)
(* Proofs about Completion, for any keys, requests, Attempts and limits:     *)
(* types, the exclusion of human requests and accepted completions, stored   *)
(* answers, the settlement, the hands of the repair chain, and the           *)
(* implementation of CompletionContract.                                     *)
(***************************************************************************)
EXTENDS Completion, FiniteSetTheorems, WellFoundedInduction, TLAPS

-----------------------------------------------------------------------------
(***************************************************************************)
(* The inductive invariant.                                                 *)
(***************************************************************************)
\* An Attempt no run has used and no receipt names.
Fresh(a) == exec[a].pc = "none" /\ \A r \in receipts : r.attempt # a

\* A running Job has its Attempt active; the Attempts to come are fresh.
JobInv ==
  /\ job.status = "running" => job.active /\ job.attempt \in Attempts
  /\ \A a \in Attempts :
       a > job.attempt \/ (a = job.attempt /\ job.status = "pending" /\ job.active)
         => Fresh(a)

\* The run of Attempt a cannot accept a human request any more, because of k.
Held(a, k) == exec[a].human # "yes" /\ (exec[a].done # None \/ exec[a].reservation = k)

\* executeReal has ended, and its semanticState with it.
Gone(a) == exec[a].pc \in {"failing", "retrying", "over"}

\* What an accepted proposal of key k and Attempt a asks of its run.
Bound(a, k) == Gone(a) \/ Held(a, k)

\* While a proposal holds the Job row, what was checked stays true.
LockInv ==
  /\ \A c \in Calls : calls[c].pc = "recording" <=> lock = c
  /\ lock # None =>
       /\ job.status = "running"
       /\ Accepted = {} /\ Prior(calls[lock].key) = {}
       /\ Rejected # {} => Owns(job.attempt)
       /\ calls[lock].verdict # "none"
       /\ calls[lock].verdict = "accepted" => Bound(job.attempt, calls[lock].key)

CallInv ==
  /\ \A c \in Calls : calls[c].pc # "idle" => calls[c].key \in Keys
  /\ AnswerIsStored

\* A key has one receipt, one receipt is accepted, and before any generation all
\* are of one Attempt.
ReceiptInv ==
  /\ \A r, q \in receipts : r.key = q.key => r = q
  /\ \A r, q \in Accepted : r = q
  /\ generation = 0 => \A r, q \in receipts : r.attempt = q.attempt

\* A run holds a done only of its accepted receipt, and the run of an accepted
\* receipt is gone or held by it.
ExecInv ==
  /\ registry # 0 => exec[registry].pc = "running"
  /\ \A a \in Attempts : Gone(a) => exec[a].human = "no"
  /\ \A a \in Attempts : exec[a].done # None =>
       \E r \in Accepted : r.key = exec[a].done /\ r.attempt = a
  /\ \A r \in Accepted : Bound(r.attempt, r.key)

EventInv ==
  /\ events # {} => job.status = "succeeded" /\ \E e \in events : events = {e}
  /\ \A e \in events : e.key # None => \E r \in Accepted : r.key = e.key

IInv ==
  TypeOK /\ JobInv /\ LockInv /\ CallInv /\ ReceiptInv /\ ExecInv /\ EventInv

ExecStates == [pc : {"none", "starting", "running", "settling", "returning", "failing",
                     "retrying", "over"},
               outcome : {"ok", "decided", "error", "truncated"}, done : Keys \cup {None},
               reservation : Keys \cup {None}, human : {"no", "asking", "yes"}]
CallStates == [pc : {"idle", "recording", "reconciling", "recorded", "restoring"},
               key : Keys \cup {None}, revision : Revisions,
               verdict : {"none", "accepted", "rejected"}, prepared : 0..MaxAttempts]
JobStates == [status : Statuses, attempt : 0..MaxAttempts, active : BOOLEAN]

-----------------------------------------------------------------------------
(***************************************************************************)
(* Types.                                                                   *)
(***************************************************************************)
\* Setting fields of a run keeps its type.
LEMMA ExecFields ==
  ASSUME NEW e \in ExecStates
  PROVE  /\ \A p \in {"none", "starting", "running", "settling", "returning", "failing",
                     "retrying", "over"} :
              /\ [e EXCEPT !.pc = p] \in ExecStates
              /\ \A o \in {"ok", "decided", "error", "truncated"} :
                   [e EXCEPT !.pc = p, !.outcome = o] \in ExecStates
         /\ \A h \in {"no", "asking", "yes"} : [e EXCEPT !.human = h] \in ExecStates
         /\ \A k \in Keys \cup {None} :
              /\ [e EXCEPT !.reservation = k] \in ExecStates
              /\ [e EXCEPT !.done = k, !.reservation = None] \in ExecStates
  BY ZenonT(40) DEF ExecStates

LEMMA NewStates ==
  /\ NewExec \in ExecStates /\ OverExec \in ExecStates
  /\ OverExec.pc = "over" /\ OverExec.human = "no" /\ OverExec.done = None
  /\ \A o \in {"error", "truncated"} :
       /\ Thrown(o) \in ExecStates /\ Thrown(o).pc = "failing"
       /\ Thrown(o).human = "no" /\ Thrown(o).done = None
  /\ NewCall \in CallStates /\ NewCall.pc = "idle" /\ NewCall.key = None
<1>1. NewExec \in ExecStates
  BY DEF NewExec, ExecStates
<1>2. OverExec \in ExecStates /\ OverExec.pc = "over" /\ OverExec.human = "no" /\ OverExec.done = None
  BY DEF OverExec, NewExec, ExecStates
<1>3. ASSUME NEW o \in {"error", "truncated"}
      PROVE  /\ Thrown(o) \in ExecStates /\ Thrown(o).pc = "failing"
             /\ Thrown(o).human = "no" /\ Thrown(o).done = None
  <2>1. Thrown(o) \in ExecStates
    BY <1>1, ExecFields DEF Thrown
  <2>2. Thrown(o).pc = "failing"
    BY <1>1 DEF Thrown, ExecStates
  <2>3. Thrown(o).human = "no" /\ Thrown(o).done = None
    BY DEF Thrown, NewExec
  <2> QED
    BY <2>1, <2>2, <2>3
<1>4. 0 \in Revisions /\ 0 \in 0..MaxAttempts
  BY CompletionAssumption DEF CompletionAssumption, Revisions
<1>5. NewCall \in CallStates /\ NewCall.pc = "idle" /\ NewCall.key = None
  BY <1>4 DEF NewCall, CallStates
<1> QED
  BY <1>1, <1>2, <1>3, <1>5

LEMMA InitInv == Init => IInv
  BY NewStates, CompletionAssumption
  DEF Init, IInv, TypeOK, JobInv, LockInv, CallInv, ReceiptInv, ExecInv, EventInv, Fresh,
      Held, Gone, Bound, AnswerIsStored, Accepted, Rejected, Prior, NewExec, NewCall, Statuses,
      CompletionAssumption, Attempts, Revisions

TypeView ==
  /\ job \in JobStates
  /\ generation \in 0..MaxAttempts
  /\ receipts \subseteq Receipt
  /\ events \subseteq [key : Keys \cup {None}, attempt : Attempts]
  /\ used \in 0..TerminalLimit
  /\ lock \in Calls \cup {None}
  /\ registry \in 0..MaxAttempts
  /\ exec \in [Attempts -> ExecStates]
  /\ calls \in [Calls -> CallStates]
  /\ faults \in 0..MaxFaults

LEMMA Types == (TypeOK <=> TypeView) /\ (TypeOK' <=> TypeView')
  BY Zenon DEF TypeOK, TypeView, JobStates, ExecStates, CallStates

\* Setting fields of a request keeps its type.
LEMMA CallFields ==
  ASSUME NEW e \in CallStates
  PROVE  /\ \A p \in {"idle", "recording", "reconciling", "recorded", "restoring"} :
              /\ [e EXCEPT !.pc = p] \in CallStates
              /\ [e EXCEPT !.pc = p, !.verdict = "none"] \in CallStates
         /\ [e EXCEPT !.pc = "recorded", !.verdict = "none", !.prepared = 0] \in CallStates
<1>1. 0 \in 0..MaxAttempts
  BY CompletionAssumption DEF CompletionAssumption
<1>2. \A p \in {"idle", "recording", "reconciling", "recorded", "restoring"} :
        /\ [e EXCEPT !.pc = p] \in CallStates
        /\ [e EXCEPT !.pc = p, !.verdict = "none"] \in CallStates
  BY DEF CallStates
<1>3. \A d \in CallStates : [d EXCEPT !.prepared = 0] \in CallStates
  BY <1>1 DEF CallStates
<1> QED
  BY <1>2, <1>3

LEMMA JobFields ==
  ASSUME NEW j \in JobStates, NEW st \in Statuses
  PROVE  /\ [j EXCEPT !.status = st] \in JobStates
         /\ \A b \in BOOLEAN : [j EXCEPT !.status = st, !.active = b] \in JobStates
<1>1. [j EXCEPT !.status = st] \in JobStates
  BY DEF JobStates
<1>2. \A d \in JobStates, b \in BOOLEAN : [d EXCEPT !.active = b] \in JobStates
  BY Zenon DEF JobStates
<1> QED
  BY <1>1, <1>2

\* What AnswerOf makes of a request: answered, or recorded with the receipt's
\* revision.
LEMMA AnswerOfEffect ==
  ASSUME calls \in [Calls -> CallStates], NEW c \in Calls, NEW r, AnswerOf(c, r)
  PROVE  \E d \in CallStates :
           /\ calls' = [calls EXCEPT ![c] = d]
           /\ \/ d = NewCall
              \/ /\ d.pc = "recorded" /\ d.key = calls[c].key
                 /\ d.revision = calls[c].revision /\ d.verdict = "none"
                 /\ r.revision = calls[c].revision /\ r.status = "persisted_deferred"
<1>1. CASE calls' = [calls EXCEPT ![c] = NewCall]
  BY <1>1, NewStates
<1>2. CASE /\ r.revision = calls[c].revision /\ r.status = "persisted_deferred"
           /\ calls' = [calls EXCEPT ![c].pc = "recorded", ![c].verdict = "none",
                                     ![c].prepared = 0]
  <2> DEFINE d == [calls[c] EXCEPT !.pc = "recorded", !.verdict = "none", !.prepared = 0]
  <2>1. d \in CallStates
    BY CallFields
  <2>2. /\ d.pc = "recorded" /\ d.key = calls[c].key
        /\ d.revision = calls[c].revision /\ d.verdict = "none"
    BY DEF CallStates
  <2>3. calls' = [calls EXCEPT ![c] = d]
    BY <1>2 DEF CallStates
  <2> HIDE DEF d
  <2> QED
    BY <1>2, <2>1, <2>2, <2>3
<1> QED
  BY <1>1, <1>2 DEF AnswerOf, Answer

LEMMA ReadFields ==
  ASSUME NEW k \in Keys, NEW n \in Revisions
  PROVE  [NewCall EXCEPT !.pc = "recorded", !.key = k, !.revision = n] \in CallStates
  BY NewStates DEF CallStates

LEMMA FaultTypes ==
  ASSUME faults \in 0..MaxFaults, Fault \/ NoFault
  PROVE  faults' \in 0..MaxFaults
  BY CompletionAssumption DEF Fault, NoFault, CompletionAssumption

LEMMA SettledTypes ==
  ASSUME exec \in [Attempts -> ExecStates], faults \in 0..MaxFaults,
         NEW a \in Attempts, NEW e \in ExecStates, Settled(a, e)
  PROVE  exec' \in [Attempts -> ExecStates] /\ faults' \in 0..MaxFaults
  BY NewStates, FaultTypes DEF Settled

\* The rate window keeps its type, whatever consumes of it.
WindowTyped == used \in 0..TerminalLimit

LEMMA WindowStep ==
  ASSUME WindowTyped,
         ConsumeTerminal \/ ConsumeStandard \/ UNCHANGED used
  PROVE  WindowTyped'
  BY CompletionAssumption
  DEF WindowTyped, ConsumeTerminal, ConsumeStandard, TerminalLeft, CompletionAssumption

\* Types after a step.
LEMMA TypeStep ==
  ASSUME IInv, [Next]_vars
  PROVE  TypeOK'
<1> SUFFICES TypeView'
  BY Types
<1>0. TypeView /\ JobInv /\ LockInv /\ CallInv /\ WindowTyped
  BY Types DEF IInv, TypeView, WindowTyped
<1> USE DEF TypeView, durable, memory
<1>1. ASSUME NEW c \in Calls, CallStep(c)
      PROVE  TypeView'
  <2>1. CASE ReadPrior(c)
    <3>1. PICK r \in Accepted :
            calls' = [calls EXCEPT ![c] = [NewCall EXCEPT !.pc = "recorded", !.key = r.key,
                                                          !.revision = r.revision]]
      BY <2>1 DEF ReadPrior
    <3>2. r.key \in Keys /\ r.revision \in Revisions
      BY <1>0, <3>1 DEF Accepted, Receipt
    <3>3. calls' \in [Calls -> CallStates]
      BY <1>0, <3>1, <3>2, ReadFields
    <3> QED
      BY <1>0, <2>1, <3>3 DEF ReadPrior
  <2>2. CASE RejectEarly(c)
    BY <1>0, <2>2, CompletionAssumption DEF RejectEarly, JobFree, Admissible, BeginRecord, CallStates, CompletionAssumption
  <2>3. CASE PrepareRejects(c)
    BY <1>0, <2>3, CompletionAssumption DEF PrepareRejects, JobFree, Admissible, BeginRecord, CallStates, JobStates, Attempts, CompletionAssumption
  <2>4. CASE PrepareAccepts(c)
    <3>1. exec' \in [Attempts -> ExecStates]
      <4>1. PICK k \in Keys, n \in Revisions :
              Admissible(k, n) /\ Reserved(job.attempt, k)
        BY <2>4 DEF PrepareAccepts
      <4> DEFINE e == exec[job.attempt]
                 v == IF e.done = None THEN k ELSE e.reservation
      <4>2. job.attempt \in Attempts
        BY <1>0, <4>1 DEF Admissible, JobInv
      <4>3. e \in ExecStates /\ v \in Keys \cup {None}
        BY <1>0, <4>2 DEF ExecStates
      <4>4. [e EXCEPT !.reservation = v] \in ExecStates
        BY <4>3, ExecFields
      <4>5. exec' = [exec EXCEPT ![job.attempt] = [e EXCEPT !.reservation = v]]
        BY <4>1 DEF Reserved
      <4> QED
        BY <1>0, <4>4, <4>5
    <3>2. calls' \in [Calls -> CallStates]
      BY <1>0, <2>4, CompletionAssumption
      DEF PrepareAccepts, BeginRecord, CallStates, JobStates, Attempts, CompletionAssumption
    <3> QED
      BY <1>0, <2>4, <3>1, <3>2 DEF PrepareAccepts, BeginRecord
  <2>5. CASE RecordCommits(c)
    <3>1. calls' \in [Calls -> CallStates]
      <4>1. CASE AnswerOf(c, NewReceipt(c))
        BY <1>0, <4>1, AnswerOfEffect
      <4>2. CASE calls' = [calls EXCEPT ![c].pc = "reconciling", ![c].verdict = "none"]
        BY <1>0, <4>2, CallFields
      <4> QED
        BY <2>5, <4>1, <4>2 DEF RecordCommits
    <3>2. WindowTyped'
      BY <1>0, <2>5, WindowStep DEF RecordCommits
    <3>3. NewReceipt(c) \in Receipt
      <4>1. lock = c /\ calls[c].key \in Keys /\ calls[c].revision \in Revisions
        BY <1>0, <2>5 DEF RecordCommits, LockInv, CallInv, CallStates
      <4>2. job.attempt \in Attempts
        BY <1>0, <4>1, CompletionAssumption DEF LockInv, JobInv, CompletionAssumption
      <4> QED
        BY <4>1, <4>2 DEF NewReceipt, Receipt
    <3>4. faults' \in 0..MaxFaults
      BY <1>0, <2>5, CompletionAssumption DEF RecordCommits, Fault, NoFault, CompletionAssumption
    <3> QED
      BY <1>0, <2>5, <3>1, <3>2, <3>3, <3>4 DEF RecordCommits, WindowTyped
  <2>6. CASE RecordFails(c)
    <3>1. calls' \in [Calls -> CallStates]
      BY <1>0, <2>6, CallFields DEF RecordFails
    <3>2. faults' \in 0..MaxFaults
      BY <1>0, <2>6, CompletionAssumption DEF RecordFails, Fault, NoFault, CompletionAssumption
    <3> QED
      BY <1>0, <2>6, <3>1, <3>2 DEF RecordFails
  <2>7. CASE ReconcileStored(c)
    <3>1. calls' \in [Calls -> CallStates]
      BY <1>0, <2>7, AnswerOfEffect DEF ReconcileStored
    <3> QED
      BY <1>0, <2>7, <3>1 DEF ReconcileStored
  <2>8. CASE ReconcileMissing(c)
    BY <1>0, <2>8, ExecFields, NewStates DEF ReconcileMissing, JobFree, Abort, Answer
  <2>9. CASE ReconcileFails(c)
    BY <1>0, <2>9, CompletionAssumption, NewStates DEF ReconcileFails, Answer, Fault, CompletionAssumption
  <2>10. CASE FindActive(c)
    BY <1>0, <2>10, CallFields DEF FindActive
  <2>11. CASE FindNone(c)
    BY <1>0, <2>11, NewStates DEF FindNone, Answer
  <2>12. CASE Restore(c)
    <3>1. PICK r \in Prior(calls[c].key) :
            exec' = [a \in Attempts |-> IF a = registry /\ a = r.attempt
                                         THEN Restored(exec[a], r.key) ELSE exec[a]]
      BY <2>12 DEF Restore
    <3>2. r.key \in Keys
      BY <1>0, <3>1 DEF Prior, Receipt
    <3>3. \A e \in ExecStates : Restored(e, r.key) \in ExecStates
      <4> TAKE e \in ExecStates
      <4>1. e.done \in Keys \cup {None}
        BY DEF ExecStates
      <4> QED
        BY <3>2, <4>1, ExecFields DEF Restored
    <3>4. exec' \in [Attempts -> ExecStates]
      BY <1>0, <3>1, <3>3
    <3> QED
      BY <1>0, <2>12, <3>4, NewStates DEF Restore, Answer
  <2> QED
    BY <1>1, <2>1, <2>2, <2>3, <2>4, <2>5, <2>6, <2>7, <2>8, <2>9, <2>10, <2>11, <2>12 DEF CallStep
<1>2. ASSUME NEW a \in Attempts, RunStep(a)
      PROVE  TypeView'
  <2>1. CASE AskHuman(a)
    BY <1>0, <2>1, ExecFields DEF AskHuman, HumanMayEnter
  <2>2. CASE EnterHuman(a)
    BY <1>0, <2>2, ExecFields DEF EnterHuman, HumanMayEnter
  <2>3. CASE DropHuman(a)
    BY <1>0, <2>3, ExecFields DEF DropHuman
  <2>4. CASE Register(a)
    <3>1. exec' \in [Attempts -> ExecStates]
      BY <1>0, <2>4, ExecFields DEF Register
    <3> QED
      BY <1>0, <2>4, <3>1, CompletionAssumption DEF Register, Attempts, CompletionAssumption
  <2>5. CASE RunEnds(a)
    <3>1. exec' \in [Attempts -> ExecStates]
      <4>1. PICK o \in {"ok", "decided", "error", "truncated"} :
              exec' = [exec EXCEPT ![a].pc = "settling", ![a].outcome = o]
        BY <2>5 DEF RunEnds
      <4>2. [exec[a] EXCEPT !.pc = "settling", !.outcome = o] \in ExecStates
        BY <1>0, ExecFields
      <4> QED
        BY <1>0, <4>1, <4>2
    <3> QED
      BY <1>0, <2>5, <3>1, CompletionAssumption DEF RunEnds, Attempts, CompletionAssumption
  <2>6. CASE SettleHuman(a)
    <3>1. /\ exec' \in [Attempts -> ExecStates]
          /\ faults' \in 0..MaxFaults
      BY <1>0, <2>6, ExecFields, SettledTypes DEF SettleHuman
    <3>2. job' \in JobStates
      BY <1>0, <2>6, JobFields DEF SettleHuman, Statuses
    <3>3. WindowTyped'
      BY <1>0, <2>6, WindowStep DEF SettleHuman
    <3> QED
      BY <1>0, <2>6, <3>1, <3>2, <3>3 DEF SettleHuman, WindowTyped
  <2>7. CASE SettleDone(a)
    <3>1. /\ exec' \in [Attempts -> ExecStates]
          /\ faults' \in 0..MaxFaults
      BY <1>0, <2>7, NewStates, SettledTypes DEF SettleDone
    <3>2. job' \in JobStates
      BY <1>0, <2>7, JobFields DEF SettleDone, Finalized, Statuses
    <3>3. WindowTyped'
      BY <1>0, <2>7, WindowStep DEF SettleDone
    <3>4. events' \subseteq [key : Keys \cup {None}, attempt : Attempts]
      <4>1. job.attempt \in Attempts
        BY <1>0, <2>7 DEF SettleDone, JobInv
      <4>2. exec[a].done \in Keys \cup {None}
        BY <1>0 DEF ExecStates
      <4> QED
        BY <1>0, <2>7, <4>1, <4>2 DEF SettleDone, Finalized
    <3> QED
      BY <1>0, <2>7, <3>1, <3>2, <3>3, <3>4 DEF SettleDone, Finalized, WindowTyped
  <2>8. CASE SettleThrows(a)
    <3>1. exec' \in [Attempts -> ExecStates]
      BY <1>0, <2>8, NewStates DEF SettleThrows
    <3>2. faults' \in 0..MaxFaults
      BY <1>0, <2>8, FaultTypes DEF SettleThrows
    <3> QED
      BY <1>0, <2>8, <3>1, <3>2 DEF SettleThrows
  <2>9. CASE ReturnQuietly(a)
    BY <1>0, <2>9, NewStates DEF ReturnQuietly
  <2>10. CASE ReturnWithDone(a)
    <3>1. /\ exec' \in [Attempts -> ExecStates]
          /\ faults' \in 0..MaxFaults
      BY <1>0, <2>10, NewStates, SettledTypes DEF ReturnWithDone
    <3>2. job' \in JobStates
      BY <1>0, <2>10, JobFields DEF ReturnWithDone, Finalized, Statuses
    <3>3. WindowTyped'
      BY <1>0, <2>10, WindowStep DEF ReturnWithDone
    <3>4. events' \subseteq [key : Keys \cup {None}, attempt : Attempts]
      <4>1. job.attempt \in Attempts
        BY <1>0, <2>10 DEF ReturnWithDone, JobInv
      <4>2. None \in Keys \cup {None}
        BY <1>0 DEF ExecStates
      <4> QED
        BY <1>0, <2>10, <4>1, <4>2 DEF ReturnWithDone, Finalized
    <3> QED
      BY <1>0, <2>10, <3>1, <3>2, <3>3, <3>4 DEF ReturnWithDone, Finalized, WindowTyped
  <2>11. CASE ReturnThrows(a)
    BY <1>0, <2>11, NewStates, FaultTypes DEF ReturnThrows
  <2>12. CASE Leave(a)
    BY <1>0, <2>12, NewStates DEF Leave
  <2>13. CASE TryRetry(a)
    BY <1>0, <2>13, ExecFields DEF TryRetry
  <2>14. CASE Retry(a)
    BY <1>0, <2>14, CompletionAssumption, NewStates DEF Retry, JobFree, JobStates, Statuses, Attempts, CompletionAssumption
  <2>15. CASE CloseFailed(a)
    BY <1>0, <2>15, CompletionAssumption, NewStates DEF CloseFailed, JobFree, Ended, JobStates, Statuses, Attempts, CompletionAssumption
  <2>16. CASE Escape(a)
    BY <1>0, <2>16, NewStates, FaultTypes DEF Escape
  <2> QED
    BY <1>2, <2>1, <2>2, <2>3, <2>4, <2>5, <2>6, <2>7, <2>8, <2>9, <2>10, <2>11, <2>12, <2>13, <2>14, <2>15, <2>16 DEF RunStep
<1>3. CASE StartRun
  <2>1. NextAttempt \in Attempts
    BY <1>3 DEF StartRun
  <2>2. exec' \in [Attempts -> ExecStates]
    BY <1>0, <1>3, <2>1, ExecFields DEF StartRun
  <2>3. job' \in JobStates
    BY <1>0, <1>3, <2>1 DEF StartRun, JobStates, Statuses, Attempts
  <2> QED
    BY <1>0, <1>3, <2>2, <2>3 DEF StartRun
<1>4. CASE StartRefused
  BY <1>0, <1>4, CompletionAssumption, NewStates DEF StartRefused, JobFree, NextAttempt, JobStates, Statuses, Attempts, CompletionAssumption
<1>5. CASE EndJob
  <2>1. job' \in JobStates
    BY <1>0, <1>5, JobFields DEF EndJob, Ended, Statuses
  <2> QED
    BY <1>0, <1>5, <2>1, CompletionAssumption DEF EndJob, Fault, CompletionAssumption
<1>6. CASE Requeue
  <2>1. job' \in JobStates
    BY <1>0, <1>6, JobFields DEF Requeue, Statuses
  <2>2. generation' \in 0..MaxAttempts
    BY <1>0, <1>6, CompletionAssumption DEF Requeue, JobStates, CompletionAssumption
  <2> QED
    BY <1>0, <1>6, <2>1, <2>2 DEF Requeue
<1>7. CASE HumanReply
  BY <1>0, <1>7, CompletionAssumption DEF HumanReply, JobFree, JobStates, Statuses, Attempts, CompletionAssumption
<1>8. CASE NewWindow
  BY <1>0, <1>8, CompletionAssumption DEF NewWindow, CompletionAssumption
<1>9. CASE Crash
  BY <1>0, <1>9, CompletionAssumption, NewStates DEF Crash, Fault, JobStates, Statuses, Attempts, CompletionAssumption
<1>10. CASE UNCHANGED vars
  BY <1>0, <1>10 DEF vars
<1> QED
  BY <1>1, <1>2, <1>3, <1>4, <1>5, <1>6, <1>7, <1>8, <1>9, <1>10 DEF Next

-----------------------------------------------------------------------------
(***************************************************************************)
(* What the steps leave alone.                                              *)
(***************************************************************************)
\* Only a commit adds a receipt.
LEMMA ReceiptsFrame ==
  ASSUME [Next]_vars
  PROVE  UNCHANGED receipts \/ \E c \in Calls : RecordCommits(c)
<1>1. ASSUME NEW c \in Calls, CallStep(c)
      PROVE  UNCHANGED receipts \/ \E d \in Calls : RecordCommits(d)
  BY <1>1 DEF CallStep, ReadPrior, RejectEarly, PrepareRejects, PrepareAccepts, RecordCommits,
    RecordFails, ReconcileStored, ReconcileMissing, ReconcileFails, FindActive, FindNone, Restore,
    durable, memory
<1>2. ASSUME NEW a \in Attempts, RunStep(a)
      PROVE  UNCHANGED receipts \/ \E c \in Calls : RecordCommits(c)
  BY <1>2 DEF RunStep, AskHuman, EnterHuman, DropHuman, Register, RunEnds, SettleHuman, SettleDone,
    SettleThrows, ReturnQuietly, ReturnWithDone, ReturnThrows, Leave, TryRetry, Retry, CloseFailed,
    Escape, durable, memory
<1>3. CASE \/ StartRun \/ StartRefused \/ EndJob \/ Requeue \/ HumanReply
           \/ NewWindow \/ Crash
  BY <1>3 DEF StartRun, StartRefused, EndJob, Requeue, HumanReply, NewWindow,
    Crash, durable, memory
<1>4. CASE UNCHANGED vars
  BY <1>4 DEF vars, durable, memory
<1> QED
  BY <1>1, <1>2, <1>3, <1>4 DEF Next

\* Under the lock of a proposal the Job row and its generation stay.
LEMMA LockedFrame ==
  ASSUME [Next]_vars
  PROVE  lock # None => UNCHANGED <<job, generation, events>>
<1>1. ASSUME NEW c \in Calls, CallStep(c)
      PROVE  lock # None => UNCHANGED <<job, generation, events>>
  BY <1>1 DEF CallStep, ReadPrior, RejectEarly, PrepareRejects, PrepareAccepts, RecordCommits,
    RecordFails, ReconcileStored, ReconcileMissing, ReconcileFails, FindActive, FindNone, Restore,
    durable, memory
<1>2. ASSUME NEW a \in Attempts, RunStep(a)
      PROVE  lock # None => UNCHANGED <<job, generation, events>>
  BY <1>2 DEF RunStep, AskHuman, EnterHuman, DropHuman, Register, RunEnds, SettleHuman, SettleDone,
    SettleThrows, ReturnQuietly, ReturnWithDone, ReturnThrows, Leave, TryRetry, Retry, CloseFailed,
    Escape, durable, memory, JobFree
<1>3. CASE \/ StartRun \/ StartRefused \/ EndJob \/ Requeue \/ HumanReply
           \/ NewWindow \/ Crash
  BY <1>3 DEF StartRun, StartRefused, EndJob, Requeue, HumanReply, NewWindow,
    Crash, durable, memory, JobFree
<1>4. CASE UNCHANGED vars
  BY <1>4 DEF vars, durable, memory
<1> QED
  BY <1>1, <1>2, <1>3, <1>4 DEF Next

\* Only a requeue admits a generation.
LEMMA GenerationFrame ==
  ASSUME [Next]_vars
  PROVE  UNCHANGED generation \/ Requeue
<1>1. ASSUME NEW c \in Calls, CallStep(c)
      PROVE  UNCHANGED generation \/ Requeue
  BY <1>1 DEF CallStep, ReadPrior, RejectEarly, PrepareRejects, PrepareAccepts, RecordCommits,
    RecordFails, ReconcileStored, ReconcileMissing, ReconcileFails, FindActive, FindNone, Restore,
    durable, memory
<1>2. ASSUME NEW a \in Attempts, RunStep(a)
      PROVE  UNCHANGED generation \/ Requeue
  BY <1>2 DEF RunStep, AskHuman, EnterHuman, DropHuman, Register, RunEnds, SettleHuman, SettleDone,
    SettleThrows, ReturnQuietly, ReturnWithDone, ReturnThrows, Leave, TryRetry, Retry, CloseFailed,
    Escape, durable, memory
<1>3. CASE \/ StartRun \/ StartRefused \/ EndJob \/ Requeue \/ HumanReply
           \/ NewWindow \/ Crash
  BY <1>3 DEF StartRun, StartRefused, EndJob, Requeue, HumanReply, NewWindow,
    Crash, durable, memory
<1>4. CASE UNCHANGED vars
  BY <1>4 DEF vars, durable, memory
<1> QED
  BY <1>1, <1>2, <1>3, <1>4 DEF Next

\* Requests and the lock change by steps of requests, or are lost.
LEMMA CallsFrame ==
  ASSUME [Next]_vars
  PROVE  UNCHANGED <<calls, lock>> \/ (\E c \in Calls : CallStep(c)) \/ Crash
<1>1. ASSUME NEW c \in Calls, CallStep(c)
      PROVE  UNCHANGED <<calls, lock>> \/ (\E d \in Calls : CallStep(d)) \/ Crash
  BY <1>1 DEF CallStep, ReadPrior, RejectEarly, PrepareRejects, PrepareAccepts, RecordCommits,
    RecordFails, ReconcileStored, ReconcileMissing, ReconcileFails, FindActive, FindNone, Restore,
    durable, memory
<1>2. ASSUME NEW a \in Attempts, RunStep(a)
      PROVE  UNCHANGED <<calls, lock>> \/ (\E c \in Calls : CallStep(c)) \/ Crash
  BY <1>2 DEF RunStep, AskHuman, EnterHuman, DropHuman, Register, RunEnds, SettleHuman, SettleDone,
    SettleThrows, ReturnQuietly, ReturnWithDone, ReturnThrows, Leave, TryRetry, Retry, CloseFailed,
    Escape, durable, memory
<1>3. CASE \/ StartRun \/ StartRefused \/ EndJob \/ Requeue \/ HumanReply
           \/ NewWindow \/ Crash
  BY <1>3 DEF StartRun, StartRefused, EndJob, Requeue, HumanReply, NewWindow,
    Crash, durable, memory
<1>4. CASE UNCHANGED vars
  BY <1>4 DEF vars, durable, memory
<1> QED
  BY <1>1, <1>2, <1>3, <1>4 DEF Next

\* The lock is taken by three steps.
LEMMA LockFrame ==
  ASSUME [Next]_vars
  PROVE  \/ lock' \in {lock, None}
         \/ \E c \in Calls : RejectEarly(c) \/ PrepareRejects(c) \/ PrepareAccepts(c)
<1>1. ASSUME NEW c \in Calls, CallStep(c)
      PROVE  \/ lock' \in {lock, None}
         \/ \E d \in Calls : RejectEarly(d) \/ PrepareRejects(d) \/ PrepareAccepts(d)
  BY <1>1 DEF CallStep, ReadPrior, RejectEarly, PrepareRejects, PrepareAccepts, RecordCommits,
    RecordFails, ReconcileStored, ReconcileMissing, ReconcileFails, FindActive, FindNone, Restore,
    durable, memory
<1>2. ASSUME NEW a \in Attempts, RunStep(a)
      PROVE  \/ lock' \in {lock, None}
         \/ \E c \in Calls : RejectEarly(c) \/ PrepareRejects(c) \/ PrepareAccepts(c)
  BY <1>2 DEF RunStep, AskHuman, EnterHuman, DropHuman, Register, RunEnds, SettleHuman, SettleDone,
    SettleThrows, ReturnQuietly, ReturnWithDone, ReturnThrows, Leave, TryRetry, Retry, CloseFailed,
    Escape, durable, memory
<1>3. CASE \/ StartRun \/ StartRefused \/ EndJob \/ Requeue \/ HumanReply
           \/ NewWindow \/ Crash
  BY <1>3 DEF StartRun, StartRefused, EndJob, Requeue, HumanReply, NewWindow,
    Crash, durable, memory
<1>4. CASE UNCHANGED vars
  BY <1>4 DEF vars, durable, memory
<1> QED
  BY <1>1, <1>2, <1>3, <1>4 DEF Next

\* A succeeded Job stays so, and events come with its success.
LEMMA EventsFrame ==
  ASSUME [Next]_vars
  PROVE  \/ UNCHANGED events /\ (job.status = "succeeded" => UNCHANGED job)
         \/ \E a \in Attempts : \E key \in {exec[a].done, None} :
              /\ job.status = "running" /\ UNCHANGED receipts
              /\ job' = [job EXCEPT !.status = "succeeded", !.active = FALSE]
              /\ events' = events \cup {[key |-> key, attempt |-> job.attempt]}
<1>1. ASSUME NEW c \in Calls, CallStep(c)
      PROVE  \/ UNCHANGED events /\ (job.status = "succeeded" => UNCHANGED job)
         \/ \E a \in Attempts : \E key \in {exec[a].done, None} :
              /\ job.status = "running" /\ UNCHANGED receipts
              /\ job' = [job EXCEPT !.status = "succeeded", !.active = FALSE]
              /\ events' = events \cup {[key |-> key, attempt |-> job.attempt]}
  BY <1>1 DEF CallStep, ReadPrior, RejectEarly, PrepareRejects, PrepareAccepts, RecordCommits,
    RecordFails, ReconcileStored, ReconcileMissing, ReconcileFails, FindActive, FindNone, Restore,
    durable, memory
<1>2. ASSUME NEW a \in Attempts, RunStep(a)
      PROVE  \/ UNCHANGED events /\ (job.status = "succeeded" => UNCHANGED job)
         \/ \E b \in Attempts : \E key \in {exec[b].done, None} :
              /\ job.status = "running" /\ UNCHANGED receipts
              /\ job' = [job EXCEPT !.status = "succeeded", !.active = FALSE]
              /\ events' = events \cup {[key |-> key, attempt |-> job.attempt]}
  BY <1>2 DEF RunStep, AskHuman, EnterHuman, DropHuman, Register, RunEnds, SettleHuman, SettleDone,
    SettleThrows, ReturnQuietly, ReturnWithDone, ReturnThrows, Leave, TryRetry, Retry, CloseFailed,
    Escape, durable, memory, Finalized
<1>3. CASE \/ StartRun \/ StartRefused \/ EndJob \/ Requeue \/ HumanReply
           \/ NewWindow \/ Crash
  BY <1>3 DEF StartRun, StartRefused, EndJob, Requeue, HumanReply, NewWindow,
    Crash, durable, memory
<1>4. CASE UNCHANGED vars
  BY <1>4 DEF vars, durable, memory
<1> QED
  BY <1>1, <1>2, <1>3, <1>4 DEF Next

\* What a step makes of one run.
Kept(a) == /\ exec'[a].done = exec[a].done /\ exec'[a].reservation = exec[a].reservation
           /\ exec'[a].human = exec[a].human

\* The run of the Attempt begins, or is refused.
Begins(a) == /\ job.status = "pending" /\ a = NextAttempt
             /\ job'.status # "pending" /\ job'.attempt = a

Shape(a) ==
  \/ exec'[a] = exec[a]
  \/ exec'[a] = OverExec /\ (exec[a].pc = "none" => Begins(a))
  \* executeReal throws
  \/ exec[a].pc # "none" /\ \E o \in {"error", "truncated"} : exec'[a] = Thrown(o)
  \* its control goes on
  \/ Kept(a) /\ (Gone(a)' <=> Gone(a)) /\ (exec[a].pc = "none" => Begins(a))
  \* a reservation
  \/ \E k \in Keys : /\ lock = None /\ Accepted = {} /\ exec[a].done = None
                      /\ exec'[a] = [exec[a] EXCEPT !.reservation = k]
  \* its release
  \/ \E k \in Keys : /\ lock = None /\ Prior(k) = {} /\ exec[a].reservation = k
                      /\ exec'[a] = [exec[a] EXCEPT !.reservation = None]
  \* a restored receipt
  \/ \E c \in Calls : \E r \in Prior(calls[c].key) :
       /\ calls[c].pc = "restoring" /\ r.attempt = a
       /\ exec'[a] = Restored(exec[a], r.key)
  \* a human request
  \/ registry = a /\ exec[a].human = "no" /\ exec'[a] = [exec[a] EXCEPT !.human = "asking"]
  \/ exec[a].human = "asking" /\ exec'[a] = [exec[a] EXCEPT !.human = "no"]
  \/ /\ exec[a].human = "asking" /\ HumanMayEnter(a)
     /\ exec'[a] = [exec[a] EXCEPT !.human = "yes"]

\* The Attempt a pending Job runs next is fresh.
LEMMA NextIsFresh ==
  ASSUME IInv, job.status = "pending", NextAttempt \in Attempts
  PROVE  Fresh(NextAttempt)
<1>1. job.attempt \in 0..MaxAttempts
  BY Types DEF IInv, TypeView, JobStates
<1>2. CASE job.active
  BY <1>2 DEF NextAttempt, IInv, JobInv
<1>3. CASE ~job.active
  BY <1>1, <1>3, CompletionAssumption DEF NextAttempt, IInv, JobInv, CompletionAssumption
<1> QED
  BY <1>2, <1>3

LEMMA ExecShape ==
  ASSUME IInv, [Next]_vars, NEW b \in Attempts
  PROVE  Shape(b)
<1>0. exec \in [Attempts -> ExecStates]
  BY Types DEF IInv, TypeView
<1>1. ASSUME NEW c \in Calls, CallStep(c)
      PROVE  Shape(b)
  <2>1. CASE ReadPrior(c)
    BY <1>0, <2>1 DEF ReadPrior, Shape, durable, memory
  <2>2. CASE RejectEarly(c)
    BY <1>0, <2>2 DEF RejectEarly, Shape, durable, memory
  <2>3. CASE PrepareRejects(c)
    BY <1>0, <2>3 DEF PrepareRejects, Shape, durable, memory
  <2>4. CASE PrepareAccepts(c)
    BY <1>0, <2>4 DEF PrepareAccepts, Shape, durable, memory, JobFree, Admissible, Reserved, ExecStates
  <2>5. CASE RecordCommits(c)
    BY <1>0, <2>5 DEF RecordCommits, Shape, durable, memory
  <2>6. CASE RecordFails(c)
    BY <1>0, <2>6 DEF RecordFails, Shape, durable, memory
  <2>7. CASE ReconcileStored(c)
    BY <1>0, <2>7 DEF ReconcileStored, Shape, durable, memory
  <2>8. CASE ReconcileMissing(c)
    <3>1. lock = None /\ Prior(calls[c].key) = {} /\ calls[c].key \in Keys
      BY <2>8 DEF ReconcileMissing, JobFree, IInv, CallInv
    <3> QED
      BY <1>0, <2>8, <3>1 DEF ReconcileMissing, Abort, Shape
  <2>9. CASE ReconcileFails(c)
    BY <1>0, <2>9 DEF ReconcileFails, Shape, durable, memory
  <2>10. CASE FindActive(c)
    BY <1>0, <2>10 DEF FindActive, Shape, durable, memory
  <2>11. CASE FindNone(c)
    BY <1>0, <2>11 DEF FindNone, Shape, durable, memory
  <2>12. CASE Restore(c)
    BY <1>0, <2>12 DEF Restore, Shape, durable, memory, Prior
  <2> QED
    BY <1>1, <2>1, <2>2, <2>3, <2>4, <2>5, <2>6, <2>7, <2>8, <2>9, <2>10, <2>11, <2>12 DEF CallStep
<1>2. ASSUME NEW a \in Attempts, RunStep(a)
      PROVE  Shape(b)
  <2>1. CASE AskHuman(a)
    BY <1>0, <2>1 DEF AskHuman, Shape, durable, memory
  <2>2. CASE EnterHuman(a)
    BY <1>0, <2>2 DEF EnterHuman, Shape, durable, memory
  <2>3. CASE DropHuman(a)
    BY <1>0, <2>3 DEF DropHuman, Shape, durable, memory
  <2>4. CASE Register(a)
    BY <1>0, <2>4 DEF Register, Shape, durable, memory, Kept, Gone, ExecStates
  <2>5. CASE RunEnds(a)
    BY <1>0, <2>5 DEF RunEnds, Shape, durable, memory, Kept, Gone, ExecStates
  <2>6. CASE SettleHuman(a)
    <3>1. exec[a].pc = "settling" /\ exec[a] \in ExecStates
      BY <1>0, <2>6 DEF SettleHuman
    <3>2. CASE exec' = [exec EXCEPT ![a] = [exec[a] EXCEPT !.pc = "returning", !.outcome = "ok"]]
      <4> DEFINE e == [exec[a] EXCEPT !.pc = "returning", !.outcome = "ok"]
      <4>1. /\ e.pc = "returning" /\ e.done = exec[a].done
            /\ e.reservation = exec[a].reservation /\ e.human = exec[a].human
        BY <3>1 DEF ExecStates
      <4>2. exec' = [exec EXCEPT ![a] = e]
        BY <3>2
      <4> HIDE DEF e
      <4>3. b = a => Kept(b) /\ (Gone(b)' <=> Gone(b)) /\ exec[b].pc # "none"
        BY <1>0, <3>1, <4>1, <4>2 DEF Kept, Gone
      <4>4. b # a => exec'[b] = exec[b]
        BY <1>0, <4>2
      <4> QED
        BY <4>3, <4>4 DEF Shape
    <3>3. CASE exec' = [exec EXCEPT ![a] = Thrown("error")]
      <4>1. IF b = a THEN exec[b].pc # "none" /\ exec'[b] = Thrown("error") ELSE exec'[b] = exec[b]
        BY <1>0, <3>1, <3>3
      <4> QED
        BY <4>1 DEF Shape
    <3> QED
      BY <2>6, <3>2, <3>3 DEF SettleHuman, Settled
  <2>7. CASE SettleDone(a)
    BY <1>0, <2>7 DEF SettleDone, Settled, Shape, ReadyToSettle
  <2>8. CASE SettleThrows(a)
    BY <1>0, <2>8 DEF SettleThrows, Shape
  <2>9. CASE ReturnQuietly(a)
    BY <1>0, <2>9 DEF ReturnQuietly, Shape, durable, memory
  <2>10. CASE ReturnWithDone(a)
    BY <1>0, <2>10 DEF ReturnWithDone, Settled, Shape
  <2>11. CASE ReturnThrows(a)
    BY <1>0, <2>11 DEF ReturnThrows, Shape
  <2>12. CASE Leave(a)
    BY <1>0, <2>12 DEF Leave, Shape, durable, memory
  <2>13. CASE TryRetry(a)
    BY <1>0, <2>13 DEF TryRetry, Shape, durable, memory, Kept, Gone, ExecStates
  <2>14. CASE Retry(a)
    BY <1>0, <2>14 DEF Retry, Shape
  <2>15. CASE CloseFailed(a)
    BY <1>0, <2>15 DEF CloseFailed, Shape
  <2>16. CASE Escape(a)
    BY <1>0, <2>16 DEF Escape, Shape
  <2> QED
    BY <1>2, <2>1, <2>2, <2>3, <2>4, <2>5, <2>6, <2>7, <2>8, <2>9, <2>10, <2>11, <2>12, <2>13, <2>14, <2>15, <2>16 DEF RunStep
<1>3. CASE StartRun
  <2>1. exec' = [exec EXCEPT ![NextAttempt].pc = "starting"]
    BY <1>3 DEF StartRun
  <2>2. exec[NextAttempt].pc = "none"
    BY <1>3, NextIsFresh DEF StartRun, Fresh
  <2> QED
    BY <1>0, <1>3, <2>1, <2>2 DEF StartRun, Shape, Kept, Gone, ExecStates, Begins
<1>4. CASE StartRefused
  BY <1>0, <1>4 DEF StartRefused, Shape, Begins
<1>5. CASE EndJob
  BY <1>0, <1>5 DEF EndJob, Shape, durable, memory
<1>6. CASE Requeue
  BY <1>0, <1>6 DEF Requeue, Shape, durable, memory
<1>7. CASE HumanReply
  BY <1>0, <1>7 DEF HumanReply, Shape, durable, memory
<1>8. CASE NewWindow
  BY <1>0, <1>8 DEF NewWindow, Shape, durable, memory
<1>9. CASE Crash
  BY <1>0, <1>9 DEF Crash, Shape, durable, memory
<1>10. CASE UNCHANGED vars
  BY <1>10 DEF vars, durable, memory, Shape
<1> QED
  BY <1>1, <1>2, <1>3, <1>4, <1>5, <1>6, <1>7, <1>8, <1>9, <1>10 DEF Next

\* A commit: what it adds, and what was checked for it under the lock.
LEMMA CommitEffect ==
  ASSUME IInv, NEW c \in Calls, RecordCommits(c)
  PROVE  /\ lock = c /\ lock' = None
         /\ UNCHANGED <<job, generation, events, exec, registry>>
         /\ receipts' = receipts \cup {NewReceipt(c)}
         /\ NewReceipt(c) \in Receipt
         /\ NewReceipt(c).key = calls[c].key /\ NewReceipt(c).attempt = job.attempt
         /\ NewReceipt(c).status = "persisted_deferred" <=> calls[c].verdict = "accepted"
         /\ job.status = "running" /\ job.attempt \in Attempts
         /\ Accepted = {} /\ Prior(calls[c].key) = {}
<1>1. lock = c /\ lock # None /\ calls[c].key \in Keys
  BY CompletionAssumption DEF RecordCommits, IInv, LockInv, CallInv, CompletionAssumption
<1>2. job.status = "running" /\ job.attempt \in Attempts
  BY <1>1 DEF IInv, LockInv, JobInv
<1>3. calls[c].revision \in Revisions
  BY Types DEF IInv, TypeView, CallStates
<1> QED
  BY <1>1, <1>2, <1>3 DEF RecordCommits, IInv, LockInv, NewReceipt, Receipt, memory

-----------------------------------------------------------------------------
(***************************************************************************)
(* The repair chain.                                                        *)
(***************************************************************************)
\* A nonempty set of receipts has a first and a last revision.
LEMMA LeastRevision ==
  ASSUME receipts \subseteq Receipt, NEW S \in SUBSET receipts, S # {}
  PROVE  \E r \in S : \A q \in S : r.revision <= q.revision
<1> DEFINE T == {r.revision : r \in S}
<1>1. T \subseteq Nat /\ T # {}
  BY CompletionAssumption DEF Receipt, Revisions, CompletionAssumption
<1>2. \E x \in T : \A y \in T : ~(<<y, x>> \in OpToRel(<, Nat))
  <2> HIDE DEF T
  <2> QED
    BY <1>1, WFMin, NatLessThanWellFounded, Zenon
<1>3. PICK x \in T : \A y \in T : x <= y
  <2> HIDE DEF T
  <2>1. PICK x \in T : \A y \in T : ~(<<y, x>> \in OpToRel(<, Nat))
    BY <1>2
  <2>2. ASSUME NEW y \in T
        PROVE  x <= y
    <3>1. x \in Nat /\ y \in Nat
      BY <1>1
    <3>2. ~(<<y, x>> \in OpToRel(<, Nat))
      BY <2>1
    <3>3. ~(y < x)
      BY <3>1, <3>2 DEF OpToRel
    <3> QED
      BY <3>1, <3>3
  <2> QED
    BY <2>2
<1> QED
  BY <1>3

LEMMA GreatestRevision ==
  ASSUME receipts \subseteq Receipt, NEW S \in SUBSET receipts, S # {}
  PROVE  \E r \in S : \A q \in S : q.revision <= r.revision
<1> DEFINE T == {RepairLimit - r.revision : r \in S}
<1>0. \A r \in S : r.revision \in Nat /\ RepairLimit - r.revision \in Nat
  BY CompletionAssumption DEF Receipt, Revisions, CompletionAssumption
<1>1. T \subseteq Nat /\ T # {}
  BY <1>0
<1>2. \E x \in T : \A y \in T : ~(<<y, x>> \in OpToRel(<, Nat))
  <2> HIDE DEF T
  <2> QED
    BY <1>1, WFMin, NatLessThanWellFounded, Zenon
<1>3. PICK x \in T : \A y \in T : x <= y
  <2> HIDE DEF T
  <2>1. PICK x \in T : \A y \in T : ~(<<y, x>> \in OpToRel(<, Nat))
    BY <1>2
  <2>2. ASSUME NEW y \in T
        PROVE  x <= y
    <3>1. x \in Nat /\ y \in Nat
      BY <1>1
    <3>2. ~(<<y, x>> \in OpToRel(<, Nat))
      BY <2>1
    <3>3. ~(y < x)
      BY <3>1, <3>2 DEF OpToRel
    <3> QED
      BY <3>1, <3>3
  <2> QED
    BY <2>2
<1>4. PICK r \in S : x = RepairLimit - r.revision
  BY <1>3
<1>5. \A q \in S : RepairLimit - r.revision <= RepairLimit - q.revision
  BY <1>3, <1>4
<1>6. \A q \in S : q.revision <= r.revision
  BY <1>0, <1>5, CompletionAssumption DEF CompletionAssumption
<1> QED
  BY <1>6

LEMMA ChainEnds ==
  ASSUME IInv
  PROVE  /\ receipts # {} => Latest \in receipts
         /\ Rejected # {} => FirstReject \in Rejected
<1>1. receipts \subseteq Receipt
  BY Types DEF IInv, TypeView
<1>2. ASSUME receipts # {}
      PROVE  Latest \in receipts
  BY <1>1, <1>2, GreatestRevision DEF Latest
<1>3. ASSUME Rejected # {}
      PROVE  FirstReject \in Rejected
  BY <1>1, <1>3, LeastRevision DEF FirstReject, Rejected
<1> QED
  BY <1>2, <1>3

\* Under the lock the chain is the Attempt's: by the newest generation, or because
\* all receipts are its own.
LEMMA ChainOwned ==
  ASSUME IInv, NEW c \in Calls, RecordCommits(c), receipts # {}
  PROVE  IF generation # 0 THEN job.attempt = generation
         ELSE \A r \in receipts : r.attempt = job.attempt
<1>1. receipts \subseteq Receipt /\ Accepted = {}
  BY CommitEffect, Types DEF IInv, TypeView
<1>2. receipts = Rejected
  BY <1>1 DEF Accepted, Rejected, Receipt
<1>3. Owns(job.attempt)
  BY <1>2, CommitEffect, CompletionAssumption DEF IInv, LockInv, CompletionAssumption
<1>4. FirstReject \in receipts
  BY <1>2, ChainEnds
<1> QED
  BY <1>3, <1>4 DEF Owns, IInv, ReceiptInv

LEMMA ReceiptStep ==
  ASSUME IInv, [Next]_vars
  PROVE  ReceiptInv'
<1>1. generation' = generation \/ generation' # 0
  <2>1. CASE Requeue
    BY <2>1, Types DEF Requeue, IInv, TypeView, JobStates
  <2>2. CASE ~Requeue
    BY <2>2, GenerationFrame
  <2> QED
    BY <2>1, <2>2
<1>2. CASE UNCHANGED receipts
  BY <1>1, <1>2 DEF IInv, ReceiptInv, Accepted
<1>3. ASSUME NEW c \in Calls, RecordCommits(c)
      PROVE  ReceiptInv'
  <2>1. \A r, q \in receipts' : r.key = q.key => r = q
    BY <1>3, CommitEffect DEF IInv, ReceiptInv, Prior
  <2>2. \A r, q \in Accepted' : r = q
    BY <1>3, CommitEffect DEF Accepted
  <2>3. generation' = 0 => \A r, q \in receipts' : r.attempt = q.attempt
    BY <1>3, CommitEffect, ChainOwned DEF IInv, ReceiptInv
  <2> QED
    BY <2>1, <2>2, <2>3 DEF ReceiptInv
<1> QED
  BY <1>2, <1>3, ReceiptsFrame

-----------------------------------------------------------------------------
(***************************************************************************)
(* Requests and the lock.                                                   *)
(***************************************************************************)
CallOk(b) ==
  /\ calls[b].pc = "recording" <=> lock = b
  /\ calls[b].pc # "idle" => calls[b].key \in Keys
  /\ calls[b].pc \in {"recorded", "restoring"} =>
       \E r \in Accepted : r.key = calls[b].key /\ r.revision = calls[b].revision

LEMMA AcceptedGrows ==
  ASSUME IInv, [Next]_vars
  PROVE  Accepted \subseteq Accepted'
  BY ReceiptsFrame, CommitEffect DEF Accepted

\* A request that is answered from a receipt.
LEMMA AnswerOk ==
  ASSUME IInv, NEW c \in Calls, NEW b \in Calls, NEW r \in receipts', AnswerOf(c, r),
         r.key = calls[c].key, calls[c].key \in Keys, lock' # c,
         calls[b].key \in Keys \/ calls[b].pc = "idle", CallOk(b),
         Accepted \subseteq Accepted', b # c => (lock' = b <=> lock = b)
  PROVE  CallOk(b)'
<1>0. calls \in [Calls -> CallStates]
  BY Types DEF IInv, TypeView
<1>1. PICK d \in CallStates :
        /\ calls' = [calls EXCEPT ![c] = d]
        /\ \/ d = NewCall
           \/ /\ d.pc = "recorded" /\ d.key = calls[c].key
              /\ d.revision = calls[c].revision /\ d.verdict = "none"
              /\ r.revision = calls[c].revision /\ r.status = "persisted_deferred"
  BY <1>0, AnswerOfEffect
<1>2. CASE b # c
  BY <1>0, <1>1, <1>2 DEF CallOk
<1>3. CASE b = c /\ d = NewCall
  BY <1>0, <1>1, <1>3, NewStates DEF CallOk
<1>4. CASE b = c /\ d # NewCall
  BY <1>0, <1>1, <1>4 DEF CallOk, Accepted
<1> QED
  BY <1>2, <1>3, <1>4

LEMMA CallsStep ==
  ASSUME IInv, [Next]_vars, NEW b \in Calls
  PROVE  CallOk(b)'
<1>0. /\ calls \in [Calls -> CallStates] /\ receipts \subseteq Receipt
      /\ \A d \in Calls : CallOk(d)
      /\ Accepted \subseteq Accepted' /\ None \notin Calls
  BY Types, AcceptedGrows, CompletionAssumption
  DEF IInv, TypeView, LockInv, CallInv, AnswerIsStored, CallOk, CompletionAssumption
<1>1. ASSUME NEW c \in Calls, CallStep(c)
      PROVE  CallOk(b)'
  <2>1. CASE ReadPrior(c)
    BY <1>0, <2>1, NewStates DEF ReadPrior, CallOk, CallStates, durable, memory, Accepted, Receipt
  <2>2. CASE RejectEarly(c)
    BY <1>0, <2>2 DEF RejectEarly, CallOk, CallStates, durable, memory, BeginRecord, JobFree
  <2>3. CASE PrepareRejects(c)
    BY <1>0, <2>3 DEF PrepareRejects, CallOk, CallStates, durable, memory, BeginRecord, JobFree
  <2>4. CASE PrepareAccepts(c)
    BY <1>0, <2>4 DEF PrepareAccepts, CallOk, CallStates, durable, memory, BeginRecord, JobFree
  <2>5. CASE RecordCommits(c)
    <3>1. lock = c /\ lock' = None /\ NewReceipt(c) \in receipts' /\ NewReceipt(c).key = calls[c].key
      BY <2>5, CommitEffect
    <3>2. calls[c].key \in Keys /\ (calls[b].key \in Keys \/ calls[b].pc = "idle")
      BY <1>0, <2>5 DEF RecordCommits, CallOk
    <3>3. CASE AnswerOf(c, NewReceipt(c))
      BY <1>0, <3>1, <3>2, <3>3, AnswerOk
    <3>4. CASE calls' = [calls EXCEPT ![c].pc = "reconciling", ![c].verdict = "none"]
      BY <1>0, <3>1, <3>4 DEF CallOk, CallStates
    <3> QED
      BY <2>5, <3>3, <3>4 DEF RecordCommits
  <2>6. CASE RecordFails(c)
    BY <1>0, <2>6 DEF RecordFails, CallOk, CallStates, durable, memory
  <2>7. CASE ReconcileStored(c)
    <3>1. lock = None /\ lock' = None /\ receipts' = receipts
      BY <2>7 DEF ReconcileStored, JobFree, durable
    <3>2. PICK r \in Prior(calls[c].key) : AnswerOf(c, r)
      BY <2>7 DEF ReconcileStored
    <3>3. calls[c].key \in Keys /\ (calls[b].key \in Keys \/ calls[b].pc = "idle")
      BY <1>0, <2>7 DEF ReconcileStored, CallOk
    <3> QED
      BY <1>0, <3>1, <3>2, <3>3, AnswerOk DEF Prior
  <2>8. CASE ReconcileMissing(c)
    BY <1>0, <2>8, NewStates DEF ReconcileMissing, CallOk, CallStates, durable, memory, Answer, JobFree
  <2>9. CASE ReconcileFails(c)
    BY <1>0, <2>9, NewStates DEF ReconcileFails, CallOk, CallStates, durable, memory, Answer
  <2>10. CASE FindActive(c)
    BY <1>0, <2>10 DEF FindActive, CallOk, CallStates, durable, memory
  <2>11. CASE FindNone(c)
    BY <1>0, <2>11, NewStates DEF FindNone, CallOk, CallStates, durable, memory, Answer
  <2>12. CASE Restore(c)
    BY <1>0, <2>12, NewStates DEF Restore, CallOk, CallStates, durable, memory, Answer
  <2> QED
    BY <1>1, <2>1, <2>2, <2>3, <2>4, <2>5, <2>6, <2>7, <2>8, <2>9, <2>10, <2>11, <2>12 DEF CallStep
<1>2. CASE UNCHANGED <<calls, lock>>
  BY <1>0, <1>2 DEF CallOk
<1>3. CASE Crash
  BY <1>0, <1>3, NewStates DEF Crash, CallOk
<1> QED
  BY <1>1, <1>2, <1>3, CallsFrame

\* The request that holds the lock stands until it lets go.
LEMMA LockedCall ==
  ASSUME IInv, [Next]_vars, lock # None, lock' = lock
  PROVE  UNCHANGED <<calls[lock], receipts, job, generation>>
<1>0. /\ calls \in [Calls -> CallStates] /\ lock \in Calls
      /\ calls[lock].pc = "recording"
  BY Types DEF IInv, TypeView, LockInv
<1>1. UNCHANGED <<job, generation>>
  BY LockedFrame
<1>2. UNCHANGED receipts
  BY ReceiptsFrame, CommitEffect
<1>3. ASSUME NEW c \in Calls, CallStep(c)
      PROVE  UNCHANGED calls[lock]
  <2>1. CASE ReadPrior(c)
    BY <1>0, <2>1 DEF ReadPrior, JobFree
  <2>2. CASE RejectEarly(c)
    BY <1>0, <2>2 DEF RejectEarly, JobFree
  <2>3. CASE PrepareRejects(c)
    BY <1>0, <2>3 DEF PrepareRejects, JobFree
  <2>4. CASE PrepareAccepts(c)
    BY <1>0, <2>4 DEF PrepareAccepts, JobFree
  <2>5. CASE RecordCommits(c)
    BY <1>0, <2>5 DEF RecordCommits
  <2>6. CASE RecordFails(c)
    BY <1>0, <2>6 DEF RecordFails
  <2>7. CASE ReconcileStored(c)
    BY <1>0, <2>7 DEF ReconcileStored, JobFree
  <2>8. CASE ReconcileMissing(c)
    BY <1>0, <2>8 DEF ReconcileMissing, JobFree
  <2>9. CASE ReconcileFails(c)
    BY <1>0, <2>9 DEF ReconcileFails, Answer
  <2>10. CASE FindActive(c)
    BY <1>0, <2>10 DEF FindActive
  <2>11. CASE FindNone(c)
    BY <1>0, <2>11 DEF FindNone, Answer
  <2>12. CASE Restore(c)
    BY <1>0, <2>12 DEF Restore, Answer
  <2> QED
    BY <1>3, <2>1, <2>2, <2>3, <2>4, <2>5, <2>6, <2>7, <2>8, <2>9, <2>10, <2>11, <2>12 DEF CallStep
<1>4. CASE UNCHANGED <<calls, lock>>
  BY <1>1, <1>2, <1>4
<1>5. ~Crash
  BY DEF Crash
<1> QED
  BY <1>1, <1>2, <1>3, <1>4, <1>5, CallsFrame

LEMMA RestoredKeeps ==
  ASSUME NEW e \in ExecStates, NEW k
  PROVE  Restored(e, k).pc = e.pc /\ Restored(e, k).human = e.human
  BY DEF Restored, ExecStates

\* A bound run stays bound when its reservation is not released.
LEMMA BoundKept ==
  ASSUME IInv, [Next]_vars, NEW a \in Attempts, NEW k \in Keys, Bound(a, k),
         lock # None \/ (Accepted # {} /\ Prior(k) # {})
  PROVE  Bound(a, k)'
<1> DEFINE e == exec[a]
           f == exec'[a]
<1>0. /\ exec \in [Attempts -> ExecStates] /\ receipts \subseteq Receipt
      /\ e \in ExecStates /\ None \notin Keys
      /\ registry # 0 => exec[registry].pc = "running"
      /\ Gone(a) => e.human = "no"
  BY Types, CompletionAssumption DEF IInv, TypeView, ExecInv, CompletionAssumption
<1>1. Shape(a)
  BY ExecShape
<1>2. CASE f = e
  BY <1>2 DEF Bound, Gone, Held
<1>3. CASE f = OverExec \/ \E o \in {"error", "truncated"} : f = Thrown(o)
  BY <1>3, NewStates DEF Bound, Gone
<1>4. CASE Kept(a) /\ (Gone(a)' <=> Gone(a))
  BY <1>4 DEF Bound, Kept, Held
<1>5. ASSUME NEW q \in Keys, Prior(q) = {}, lock = None, e.reservation = q,
             f = [e EXCEPT !.reservation = None]
      PROVE  Bound(a, k)'
  <2>1. q # k
    BY <1>5
  <2> QED
    BY <1>0, <1>5, <2>1 DEF Bound, Gone, Held, ExecStates
<1>6. ASSUME NEW q \in receipts, f = Restored(e, q.key)
      PROVE  Bound(a, k)'
  <2>1. q.key # None /\ f.pc = e.pc /\ f.human = e.human
    BY <1>0, <1>6, RestoredKeeps DEF Receipt
  <2>2. CASE e.human = "yes"
    BY <1>6, <2>1, <2>2 DEF Restored, Bound, Gone, Held
  <2>3. CASE e.human # "yes"
    <3>1. f.done = IF e.done = None THEN q.key ELSE e.done
      BY <1>0, <1>6, <2>3 DEF Restored, ExecStates
    <3> QED
      BY <2>1, <2>3, <3>1 DEF Bound, Gone, Held
  <2> QED
    BY <2>2, <2>3
<1>7. CASE \E h \in {"asking", "no"} : f = [e EXCEPT !.human = h]
  BY <1>0, <1>7 DEF Bound, Gone, Held, ExecStates
<1>8. CASE e.human = "asking" /\ HumanMayEnter(a) /\ f = [e EXCEPT !.human = "yes"]
  BY <1>0, <1>8 DEF HumanMayEnter, Bound, Gone, Held, ExecStates
<1> QED
  BY <1>1, <1>2, <1>3, <1>4, <1>5, <1>6, <1>7, <1>8 DEF Shape, Prior

LEMMA LockStep ==
  ASSUME IInv, [Next]_vars
  PROVE  LockInv'
<1>0. /\ exec \in [Attempts -> ExecStates] /\ calls \in [Calls -> CallStates]
      /\ receipts \subseteq Receipt /\ None \notin Calls /\ None \notin Keys
      /\ lock \in Calls \cup {None}
  BY Types, CompletionAssumption DEF IInv, TypeView, CompletionAssumption
<1>1. \A c \in Calls : calls'[c].pc = "recording" <=> lock' = c
  BY CallsStep DEF CallOk
<1> SUFFICES ASSUME lock' # None
             PROVE  /\ job'.status = "running"
                    /\ Accepted' = {} /\ Prior(calls[lock].key)' = {}
                    /\ Rejected' # {} => Owns(job.attempt)'
                    /\ calls'[lock'].verdict # "none"
                    /\ calls'[lock'].verdict = "accepted"
                         => Bound(job.attempt, calls[lock].key)'
  BY <1>1 DEF LockInv
<1>2. CASE lock' = lock
  <2>1. /\ calls'[lock] = calls[lock] /\ receipts' = receipts /\ job' = job
        /\ generation' = generation
    BY <1>2, LockedCall
  <2>2. calls[lock].key \in Keys
    BY <1>0, <1>2 DEF IInv, LockInv, CallInv
  <2>3. calls[lock].verdict = "accepted" => Bound(job.attempt, calls[lock].key)'
    <3> SUFFICES ASSUME calls[lock].verdict = "accepted"
                 PROVE  Bound(job.attempt, calls[lock].key)'
      OBVIOUS
    <3> DEFINE k == calls[lock].key
               a == job.attempt
    <3>1. Bound(a, k) /\ lock # None /\ a \in Attempts
      BY <1>2 DEF IInv, LockInv, JobInv
    <3>2. k \in Keys /\ k' = k /\ a' = a
      BY <1>2, <2>1, <2>2
    <3> HIDE DEF k, a
    <3>3. ASSUME NEW q \in Keys, NEW b \in Attempts, q = k, b = a
          PROVE  Bound(b, q)'
      BY <3>1, <3>3, BoundKept
    <3> QED
      BY <3>1, <3>2, <3>3 DEF Bound, Gone, Held, k, a
  <2> QED
    BY <1>2, <2>1, <2>3 DEF IInv, LockInv, Accepted, Prior, Rejected, Owns, FirstReject
<1>3. ASSUME NEW c \in Calls, RejectEarly(c) \/ PrepareRejects(c) \/ PrepareAccepts(c)
      PROVE  /\ job'.status = "running"
             /\ Accepted' = {} /\ Prior(calls[lock].key)' = {}
             /\ Rejected' # {} => Owns(job.attempt)'
             /\ calls'[lock'].verdict # "none"
             /\ calls'[lock'].verdict = "accepted"
                  => Bound(job.attempt, calls[lock].key)'
  <2>1. /\ UNCHANGED <<job, generation, receipts>> /\ lock' = c
        /\ \E k \in Keys, n \in Revisions : Admissible(k, n) /\ calls'[c].key = k
        /\ calls'[c].verdict # "none"
    BY <1>0, <1>3 DEF RejectEarly, PrepareRejects, PrepareAccepts, BeginRecord, durable
  <2>2. CASE calls'[c].verdict # "accepted"
    BY <2>1, <2>2 DEF Admissible, Accepted, Prior, Rejected, Owns, FirstReject
  <2>3. CASE PrepareAccepts(c)
    <3>1. PICK k \in Keys, n \in Revisions :
            Admissible(k, n) /\ Reserved(job.attempt, k) /\ calls'[c].key = k
      BY <1>0, <2>3 DEF PrepareAccepts, BeginRecord
    <3>2. job.attempt \in Attempts /\ exec[job.attempt].human # "yes"
      BY <2>3, <3>1 DEF PrepareAccepts, Admissible, IInv, JobInv
    <3>3. /\ exec'[job.attempt].human # "yes"
          /\ exec'[job.attempt].done # None \/ exec'[job.attempt].reservation = k
      BY <1>0, <3>1, <3>2 DEF Reserved, ExecStates
    <3> QED
      BY <2>1, <3>1, <3>3 DEF Bound, Held, Admissible, Accepted, Prior, Rejected, Owns, FirstReject
  <2> QED
    BY <1>0, <1>3, <2>2, <2>3 DEF RejectEarly, PrepareRejects, BeginRecord
<1> QED
  BY <1>2, <1>3, LockFrame

LEMMA CallInvStep ==
  ASSUME IInv, [Next]_vars
  PROVE  CallInv'
  BY CallsStep DEF CallOk, CallInv, AnswerIsStored

-----------------------------------------------------------------------------
(***************************************************************************)
(* The Job, its runs and its events.                                        *)
(***************************************************************************)
\* What a step makes of the Job.
JobShape ==
  \/ UNCHANGED job
  \/ /\ job.status = "pending" /\ NextAttempt \in Attempts /\ job'.attempt = NextAttempt
     /\ job'.status # "pending" /\ job'.status = "running" => job'.active
  \/ job'.attempt = job.attempt + 1 /\ job'.status = "pending"
  \/ job'.attempt = job.attempt /\ job'.status # "running" /\ ~job'.active
  \/ job'.attempt = job.attempt /\ job'.status = "waiting_human"

LEMMA JobFrame ==
  ASSUME IInv, [Next]_vars
  PROVE  JobShape
<1>0. job \in JobStates
  BY Types DEF IInv, TypeView
<1>1. ASSUME NEW c \in Calls, CallStep(c)
      PROVE  JobShape
  BY <1>1 DEF CallStep, ReadPrior, RejectEarly, PrepareRejects, PrepareAccepts, RecordCommits,
    RecordFails, ReconcileStored, ReconcileMissing, ReconcileFails, FindActive, FindNone, Restore,
    durable, memory, JobShape
<1>2. ASSUME NEW a \in Attempts, RunStep(a)
      PROVE  JobShape
  <2>1. CASE AskHuman(a)
    BY <1>0, <2>1 DEF AskHuman, JobShape, durable, memory
  <2>2. CASE EnterHuman(a)
    BY <1>0, <2>2 DEF EnterHuman, JobShape, durable, memory
  <2>3. CASE DropHuman(a)
    BY <1>0, <2>3 DEF DropHuman, JobShape, durable, memory
  <2>4. CASE Register(a)
    BY <1>0, <2>4 DEF Register, JobShape, durable, memory
  <2>5. CASE RunEnds(a)
    BY <1>0, <2>5 DEF RunEnds, JobShape, durable, memory
  <2>6. CASE SettleHuman(a)
    BY <1>0, <2>6 DEF SettleHuman, JobShape, JobStates
  <2>7. CASE SettleDone(a)
    BY <1>0, <2>7 DEF SettleDone, JobShape, Finalized, JobStates
  <2>8. CASE SettleThrows(a)
    BY <1>0, <2>8 DEF SettleThrows, JobShape, durable, memory
  <2>9. CASE ReturnQuietly(a)
    BY <1>0, <2>9 DEF ReturnQuietly, JobShape, durable, memory
  <2>10. CASE ReturnWithDone(a)
    BY <1>0, <2>10 DEF ReturnWithDone, JobShape, Finalized, JobStates
  <2>11. CASE ReturnThrows(a)
    BY <1>0, <2>11 DEF ReturnThrows, JobShape, durable, memory
  <2>12. CASE Leave(a)
    BY <1>0, <2>12 DEF Leave, JobShape, durable, memory
  <2>13. CASE TryRetry(a)
    BY <1>0, <2>13 DEF TryRetry, JobShape, durable, memory
  <2>14. CASE Retry(a)
    BY <1>0, <2>14 DEF Retry, JobShape, durable, memory
  <2>15. CASE CloseFailed(a)
    BY <1>0, <2>15 DEF CloseFailed, JobShape, Ended, JobStates
  <2>16. CASE Escape(a)
    BY <1>0, <2>16 DEF Escape, JobShape, durable, memory
  <2> QED
    BY <1>2, <2>1, <2>2, <2>3, <2>4, <2>5, <2>6, <2>7, <2>8, <2>9, <2>10, <2>11, <2>12, <2>13, <2>14, <2>15, <2>16 DEF RunStep
<1>3. CASE StartRun
  BY <1>0, <1>3 DEF StartRun, JobShape
<1>4. CASE StartRefused
  BY <1>0, <1>4 DEF StartRefused, JobShape
<1>5. CASE EndJob
  BY <1>0, <1>5 DEF EndJob, JobShape, Ended, JobStates
<1>6. CASE Requeue
  BY <1>0, <1>6 DEF Requeue, JobShape, JobStates
<1>7. CASE HumanReply
  BY <1>0, <1>7 DEF HumanReply, JobShape, JobStates
<1>8. CASE NewWindow
  BY <1>0, <1>8 DEF NewWindow, JobShape
<1>9. CASE Crash
  BY <1>0, <1>9 DEF Crash, JobShape, durable
<1>10. CASE UNCHANGED vars
  BY <1>10 DEF vars, durable, JobShape
<1> QED
  BY <1>1, <1>2, <1>3, <1>4, <1>5, <1>6, <1>7, <1>8, <1>9, <1>10 DEF Next

\* The Attempts to come after a step were to come before it.
LEMMA ToCome ==
  ASSUME IInv, [Next]_vars, NEW a \in Attempts,
         a > job'.attempt \/ (a = job'.attempt /\ job'.status = "pending" /\ job'.active)
  PROVE  Fresh(a)
<1>1. job.attempt \in Nat /\ a \in Nat /\ job \in JobStates
  BY Types, CompletionAssumption
  DEF IInv, TypeView, JobStates, Attempts, CompletionAssumption
<1>2. a > job.attempt \/ (a = job.attempt /\ job.status = "pending" /\ job.active)
  BY <1>1, JobFrame DEF JobShape, NextAttempt
<1> QED
  BY <1>2 DEF IInv, JobInv

\* What a step makes of the control of a run and its human request.
LEMMA RunFields ==
  ASSUME IInv, [Next]_vars, NEW a \in Attempts
  PROVE  \/ exec'[a] = OverExec /\ (exec[a].pc = "none" => Begins(a))
         \/ exec[a].pc # "none" /\ \E o \in {"error", "truncated"} : exec'[a] = Thrown(o)
         \/ Kept(a) /\ (Gone(a)' <=> Gone(a)) /\ (exec[a].pc = "none" => Begins(a))
         \/ /\ exec'[a].pc = exec[a].pc
            /\ \/ exec'[a].human \in {exec[a].human, "no"}
               \/ registry = a \/ exec[a].human = "asking"
<1> DEFINE e == exec[a]
           f == exec'[a]
<1>0. e \in ExecStates
  BY Types DEF IInv, TypeView
<1>1. Shape(a)
  BY ExecShape
<1>2. CASE \E k \in Keys \cup {None} : f = [e EXCEPT !.reservation = k]
  BY <1>0, <1>2 DEF ExecStates
<1>3. CASE \E k : f = Restored(e, k)
  BY <1>0, <1>3, RestoredKeeps
<1>4. CASE f = [e EXCEPT !.human = "no"]
  BY <1>0, <1>4 DEF ExecStates
<1>5. CASE (registry = a \/ e.human = "asking") /\ \E h : f = [e EXCEPT !.human = h]
  BY <1>0, <1>5 DEF ExecStates
<1> QED
  BY <1>1, <1>2, <1>3, <1>4, <1>5 DEF Shape

LEMMA JobStep ==
  ASSUME IInv, [Next]_vars
  PROVE  JobInv'
<1>1. job'.status = "running" => job'.active /\ job'.attempt \in Attempts
  BY JobFrame DEF JobShape, IInv, JobInv
<1>2. ASSUME NEW a \in Attempts,
             a > job'.attempt \/ (a = job'.attempt /\ job'.status = "pending" /\ job'.active)
      PROVE  Fresh(a)'
  <2>0. /\ exec \in [Attempts -> ExecStates] /\ exec[a] \in ExecStates
        /\ job'.attempt \in Nat /\ a \in Nat
    BY Types, TypeStep, CompletionAssumption
    DEF IInv, TypeView, JobStates, Attempts, CompletionAssumption
  <2>1. exec[a].pc = "none" /\ \A r \in receipts : r.attempt # a
    BY <1>2, ToCome DEF Fresh
  <2>2. ~Begins(a)
    BY <1>2, <2>0 DEF Begins
  <2>3. exec'[a].pc = "none"
    BY <2>1, <2>2, RunFields
  <2>4. ASSUME NEW r \in receipts'
        PROVE  r.attempt # a
    <3>1. CASE UNCHANGED receipts
      BY <2>1, <3>1
    <3>2. ASSUME NEW c \in Calls, RecordCommits(c)
          PROVE  r.attempt # a
      BY <1>2, <2>0, <2>1, <3>2, CommitEffect
    <3> QED
      BY <3>1, <3>2, ReceiptsFrame
  <2> QED
    BY <2>3, <2>4 DEF Fresh
<1> QED
  BY <1>1, <1>2 DEF JobInv

\* The registered run goes on running.
LEMMA RegistryStep ==
  ASSUME IInv, [Next]_vars
  PROVE  registry' # 0 => exec'[registry'].pc = "running"
<1>0. /\ exec \in [Attempts -> ExecStates] /\ registry \in {0} \cup Attempts
      /\ registry # 0 => exec[registry].pc = "running"
  BY Types, CompletionAssumption DEF IInv, TypeView, ExecInv, Attempts, CompletionAssumption
<1> DEFINE G == registry' # 0 => exec'[registry'].pc = "running"
<1>1. ASSUME NEW c \in Calls, CallStep(c)
      PROVE  G
  <2>1. CASE ReadPrior(c)
    BY <1>0, <2>1 DEF ReadPrior, memory
  <2>2. CASE RejectEarly(c)
    BY <1>0, <2>2 DEF RejectEarly, memory
  <2>3. CASE PrepareRejects(c)
    BY <1>0, <2>3 DEF PrepareRejects, memory
  <2>4. CASE PrepareAccepts(c)
    BY <1>0, <2>4 DEF PrepareAccepts, memory, Reserved, ExecStates
  <2>5. CASE RecordCommits(c)
    BY <1>0, <2>5 DEF RecordCommits, memory
  <2>6. CASE RecordFails(c)
    BY <1>0, <2>6 DEF RecordFails, memory
  <2>7. CASE ReconcileStored(c)
    BY <1>0, <2>7 DEF ReconcileStored, memory
  <2>8. CASE ReconcileMissing(c)
    BY <1>0, <2>8 DEF ReconcileMissing, memory, Abort, ExecStates
  <2>9. CASE ReconcileFails(c)
    BY <1>0, <2>9 DEF ReconcileFails, memory
  <2>10. CASE FindActive(c)
    BY <1>0, <2>10 DEF FindActive, memory
  <2>11. CASE FindNone(c)
    BY <1>0, <2>11 DEF FindNone, memory
  <2>12. CASE Restore(c)
    BY <1>0, <2>12, RestoredKeeps DEF Restore
  <2> QED
    BY <1>1, <2>1, <2>2, <2>3, <2>4, <2>5, <2>6, <2>7, <2>8, <2>9, <2>10, <2>11, <2>12 DEF CallStep
<1>2. ASSUME NEW a \in Attempts, RunStep(a)
      PROVE  G
  <2>1. CASE AskHuman(a)
    BY <1>0, <2>1 DEF AskHuman, memory, ExecStates
  <2>2. CASE EnterHuman(a)
    BY <1>0, <2>2 DEF EnterHuman, memory, ExecStates
  <2>3. CASE DropHuman(a)
    BY <1>0, <2>3 DEF DropHuman, memory, ExecStates
  <2>4. CASE Register(a)
    BY <1>0, <2>4 DEF Register, memory, ExecStates
  <2>5. CASE RunEnds(a)
    BY <1>0, <2>5 DEF RunEnds, memory, ExecStates
  <2>6. CASE SettleHuman(a)
    BY <1>0, <2>6 DEF SettleHuman, Settled, ExecStates
  <2>7. CASE SettleDone(a)
    BY <1>0, <2>7 DEF SettleDone, Settled, ReadyToSettle, ExecStates
  <2>8. CASE SettleThrows(a)
    BY <1>0, <2>8 DEF SettleThrows, memory, ExecStates
  <2>9. CASE ReturnQuietly(a)
    BY <1>0, <2>9 DEF ReturnQuietly, memory, ExecStates
  <2>10. CASE ReturnWithDone(a)
    BY <1>0, <2>10 DEF ReturnWithDone, Settled, ExecStates
  <2>11. CASE ReturnThrows(a)
    BY <1>0, <2>11 DEF ReturnThrows, memory, ExecStates
  <2>12. CASE Leave(a)
    BY <1>0, <2>12 DEF Leave, memory, ExecStates
  <2>13. CASE TryRetry(a)
    BY <1>0, <2>13 DEF TryRetry, memory, ExecStates
  <2>14. CASE Retry(a)
    BY <1>0, <2>14 DEF Retry, memory, ExecStates
  <2>15. CASE CloseFailed(a)
    BY <1>0, <2>15 DEF CloseFailed, memory, ExecStates
  <2>16. CASE Escape(a)
    BY <1>0, <2>16 DEF Escape, memory, ExecStates
  <2> QED
    BY <1>2, <2>1, <2>2, <2>3, <2>4, <2>5, <2>6, <2>7, <2>8, <2>9, <2>10, <2>11, <2>12, <2>13, <2>14, <2>15, <2>16 DEF RunStep
<1>3. CASE StartRun
  <2>1. exec[NextAttempt].pc = "none"
    BY <1>3, NextIsFresh DEF StartRun, Fresh
  <2> QED
    BY <1>0, <1>3, <2>1 DEF StartRun, ExecStates
<1>4. CASE StartRefused
  <2>1. exec[NextAttempt].pc = "none"
    BY <1>4, NextIsFresh DEF StartRefused, Fresh
  <2> QED
    BY <1>0, <1>4, <2>1 DEF StartRefused, ExecStates
<1>5. CASE EndJob
  BY <1>0, <1>5 DEF EndJob, memory
<1>6. CASE Requeue
  BY <1>0, <1>6 DEF Requeue, memory
<1>7. CASE HumanReply
  BY <1>0, <1>7 DEF HumanReply, memory
<1>8. CASE NewWindow
  BY <1>0, <1>8 DEF NewWindow, memory
<1>9. CASE Crash
  BY <1>0, <1>9 DEF Crash, memory
<1>10. CASE UNCHANGED vars
  BY <1>0, <1>10 DEF vars, memory
<1> QED
  BY <1>1, <1>2, <1>3, <1>4, <1>5, <1>6, <1>7, <1>8, <1>9, <1>10 DEF Next

LEMMA ExecStep ==
  ASSUME IInv, [Next]_vars
  PROVE  ExecInv'
<1>0. exec \in [Attempts -> ExecStates] /\ receipts \subseteq Receipt /\ None \notin Keys
  BY Types, CompletionAssumption DEF IInv, TypeView, CompletionAssumption
<1>1. registry' # 0 => exec'[registry'].pc = "running"
  BY RegistryStep
<1>2. ASSUME NEW a \in Attempts, Gone(a)'
      PROVE  exec'[a].human = "no"
  <2>1. exec[a] \in ExecStates /\ (Gone(a) => exec[a].human = "no")
    BY <1>0 DEF IInv, ExecInv
  <2>2. registry = a => exec[a].pc = "running"
    BY CompletionAssumption DEF IInv, ExecInv, Attempts, CompletionAssumption
  <2> QED
    BY <1>2, <2>1, <2>2, NewStates, RunFields DEF Kept, Gone
<1>3. ASSUME NEW a \in Attempts, exec'[a].done # None
      PROVE  \E r \in Accepted' : r.key = exec'[a].done /\ r.attempt = a
  <2>1. exec[a] \in ExecStates /\ Accepted \subseteq Accepted'
    BY <1>0, AcceptedGrows
  <2>2. CASE exec'[a].done = exec[a].done
    BY <1>3, <2>1, <2>2 DEF IInv, ExecInv
  <2>3. ASSUME NEW c \in Calls, NEW r \in Prior(calls[c].key), calls[c].pc = "restoring",
               r.attempt = a, exec'[a] = Restored(exec[a], r.key),
               exec'[a].done # exec[a].done
        PROVE  \E q \in Accepted' : q.key = exec'[a].done /\ q.attempt = a
    <3>1. PICK q \in Accepted : q.key = calls[c].key
      BY <2>3 DEF IInv, CallInv, AnswerIsStored
    <3>2. q = r
      BY <2>3, <3>1 DEF IInv, ReceiptInv, Prior, Accepted
    <3>3. exec'[a].done = r.key
      BY <2>1, <2>3 DEF Restored, ExecStates
    <3> QED
      BY <2>1, <2>3, <3>1, <3>2, <3>3
  <2>4. Shape(a)
    BY ExecShape
  <2> QED
    BY <1>3, <2>1, <2>2, <2>3, <2>4, NewStates DEF Shape, Kept, ExecStates
<1>4. ASSUME NEW r \in Accepted'
      PROVE  Bound(r.attempt, r.key)'
  <2>1. CASE r \in Accepted
    <3>1. /\ r.attempt \in Attempts /\ r.key \in Keys /\ Bound(r.attempt, r.key)
          /\ Accepted # {} /\ Prior(r.key) # {}
      BY <1>0, <2>1 DEF IInv, ExecInv, Accepted, Receipt, Prior
    <3>2. ASSUME NEW a \in Attempts, NEW k \in Keys, a = r.attempt, k = r.key
          PROVE  Bound(a, k)'
      BY <3>1, <3>2, BoundKept
    <3> QED
      BY <3>1, <3>2 DEF Bound, Gone, Held
  <2>2. CASE r \notin Accepted
    <3>1. ~UNCHANGED receipts
      BY <2>2 DEF Accepted
    <3>2. PICK c \in Calls : RecordCommits(c)
      BY <3>1, ReceiptsFrame
    <3>3. r = NewReceipt(c) /\ r.status = "persisted_deferred"
      BY <2>2, <3>2, CommitEffect DEF Accepted
    <3>4. r.attempt = job.attempt /\ r.key = calls[c].key /\ exec' = exec
      BY <3>2, <3>3, CommitEffect
    <3>5. Bound(job.attempt, calls[c].key)
      BY <3>2, <3>3, CommitEffect, CompletionAssumption DEF IInv, LockInv, CompletionAssumption
    <3> QED
      BY <3>4, <3>5 DEF Bound, Gone, Held
  <2> QED
    BY <2>1, <2>2
<1> QED
  BY <1>1, <1>2, <1>3, <1>4 DEF ExecInv

LEMMA EventStep ==
  ASSUME IInv, [Next]_vars
  PROVE  EventInv'
<1>0. Accepted \subseteq Accepted' /\ job \in JobStates
  BY AcceptedGrows, Types DEF IInv, TypeView
<1>1. CASE UNCHANGED events /\ (job.status = "succeeded" => UNCHANGED job)
  BY <1>0, <1>1 DEF IInv, EventInv
<1>2. ASSUME NEW a \in Attempts, NEW key \in {exec[a].done, None},
             job.status = "running", UNCHANGED receipts,
             job' = [job EXCEPT !.status = "succeeded", !.active = FALSE],
             events' = events \cup {[key |-> key, attempt |-> job.attempt]}
      PROVE  EventInv'
  <2>1. events = {}
    BY <1>2 DEF IInv, EventInv
  <2>2. key # None => \E r \in Accepted : r.key = key
    BY <1>2 DEF IInv, ExecInv
  <2>3. job'.status = "succeeded"
    BY <1>0, <1>2 DEF JobStates
  <2> DEFINE e == [key |-> key, attempt |-> job.attempt]
  <2>4. events' = {e} /\ e.key = key
    BY <1>2, <2>1
  <2> HIDE DEF e
  <2> QED
    BY <1>0, <2>2, <2>3, <2>4 DEF EventInv
<1> QED
  BY <1>1, <1>2, EventsFrame

LEMMA InvStep == IInv /\ [Next]_vars => IInv'
  BY TypeStep, JobStep, LockStep, CallInvStep, ReceiptStep, ExecStep, EventStep DEF IInv

LEMMA Invariance == Spec => []IInv
  BY InitInv, InvStep, PTL DEF Spec

-----------------------------------------------------------------------------
(***************************************************************************)
(* The theorems.                                                            *)
(***************************************************************************)
\* Job, receipts, requests and runs keep their types, for any keys and limits:
\* the window of terminal events is never overdrawn (consumeEventRateLimit).
THEOREM TypeCorrect == Spec => []TypeOK
  BY Invariance, PTL DEF IInv

\* AcceptedExcludesHuman always holds: the reservation of completionPhase
\* "prepare" keeps request_human out until the accepted done is restored.
THEOREM HumanExcluded == Spec => []AcceptedExcludesHuman
<1>1. IInv => AcceptedExcludesHuman
  <2> SUFFICES ASSUME IInv, NEW r \in Accepted
               PROVE  exec[r.attempt].human # "yes"
    BY DEF AcceptedExcludesHuman
  <2>1. r.attempt \in Attempts
    BY Types DEF IInv, TypeView, Accepted, Receipt
  <2> QED
    BY <2>1 DEF IInv, ExecInv, Bound, Held
<1> QED
  BY <1>1, Invariance, PTL

\* AnswerIsStored always holds: invokeDurableCompletion answers "accepted" only of
\* a receipt its transaction committed or the reconciliation read.
THEOREM AnswersStored == Spec => []AnswerIsStored
<1>1. IInv => AnswerIsStored
  BY DEF IInv, CallInv
<1> QED
  BY <1>1, Invariance, PTL

\* SettledIsAccepted always holds: the terminal ingestion applies one done, and
\* with a key only that of the accepted completion.
THEOREM SettlementSound == Spec => []SettledIsAccepted
<1>1. IInv => SettledIsAccepted
  <2> SUFFICES ASSUME IInv
               PROVE  Cardinality(events) <= 1
    BY DEF IInv, EventInv, SettledIsAccepted
  <2>1. CASE events = {}
    BY <2>1, FS_EmptySet
  <2>2. CASE events # {}
    <3>1. PICK e \in events : events = {e}
      BY <2>2 DEF IInv, EventInv
    <3>2. Cardinality({e}) = 1
      BY FS_Singleton
    <3> QED
      BY <3>1, <3>2
  <2> QED
    BY <2>1, <2>2
<1> QED
  BY <1>1, Invariance, PTL

\* ChainChangesHandsByGeneration holds of every step: recordCompletionProposal
\* asks assertRepairExecutionOwner under the Job row's lock.
THEOREM ChainKept == Spec => ChainChangesHandsByGeneration
<1>1. ASSUME IInv, [Next]_vars
      PROVE  [\A r \in receipts' \ receipts :
                receipts # {} => r.attempt \in {Latest.attempt, generation}]_vars
  <2> SUFFICES ASSUME NEW r \in receipts' \ receipts, receipts # {}
               PROVE  r.attempt \in {Latest.attempt, generation}
    OBVIOUS
  <2>1. PICK c \in Calls : RecordCommits(c)
    BY <1>1, ReceiptsFrame
  <2>2. r.attempt = job.attempt
    BY <1>1, <2>1, CommitEffect
  <2>3. Latest \in receipts
    BY <1>1, ChainEnds
  <2>4. IF generation # 0 THEN job.attempt = generation
        ELSE \A q \in receipts : q.attempt = job.attempt
    BY <1>1, <2>1, ChainOwned
  <2> QED
    BY <2>2, <2>3, <2>4
<1> QED
  BY <1>1, Invariance, PTL DEF Spec, ChainChangesHandsByGeneration

\* A run that holds a done, ended well and is the newest Attempt's of a Job that
\* runs has prepaid for its settlement.
LEMMA ReadyIsPrepaid ==
  ASSUME IInv, NEW a \in Attempts, a = job.attempt, job.status = "running",
         ReadyToSettle(a)
  PROVE  Prepaid(a)
  BY DEF IInv, JobInv, ExecInv, ReadyToSettle, Prepaid

\* AcceptedRunSettles holds of every step: hasPrepaidCompletion finds the receipt
\* of the done, so only a fault or what a Hub's decision adds to the bundle can fail
\* the run.
THEOREM AcceptedSettles == Spec => AcceptedRunSettles
<1>1. ASSUME IInv, [Next]_vars
      PROVE  [\A a \in Attempts :
                /\ a = job.attempt /\ job.status = "running" /\ ReadyToSettle(a)
                /\ exec'[a].pc = "failing"
                => exec[a].outcome = "decided" \/ faults' # faults]_vars
  <2> SUFFICES ASSUME NEW b \in Attempts, b = job.attempt, job.status = "running",
                      ReadyToSettle(b), exec[b].outcome # "decided", faults' = faults
               PROVE  exec'[b].pc # "failing"
    OBVIOUS
  <2>0. /\ exec \in [Attempts -> ExecStates] /\ exec[b].pc = "settling"
        /\ exec[b].human # "yes" /\ exec[b].outcome = "ok" /\ exec[b].done # None
        /\ Prepaid(b) /\ ~Fault
    BY <1>1, ReadyIsPrepaid, Types DEF IInv, TypeView, ReadyToSettle, Fault
  <2>1. ASSUME NEW c \in Calls, CallStep(c)
        PROVE  exec'[b].pc # "failing"
    <3>1. CASE ReadPrior(c)
      BY <2>0, <3>1 DEF ReadPrior, memory
    <3>2. CASE RejectEarly(c)
      BY <2>0, <3>2 DEF RejectEarly, memory
    <3>3. CASE PrepareRejects(c)
      BY <2>0, <3>3 DEF PrepareRejects, memory
    <3>4. CASE PrepareAccepts(c)
      BY <2>0, <3>4 DEF PrepareAccepts, memory, Reserved, ExecStates
    <3>5. CASE RecordCommits(c)
      BY <2>0, <3>5 DEF RecordCommits, memory
    <3>6. CASE RecordFails(c)
      BY <2>0, <3>6 DEF RecordFails, memory
    <3>7. CASE ReconcileStored(c)
      BY <2>0, <3>7 DEF ReconcileStored, memory
    <3>8. CASE ReconcileMissing(c)
      BY <2>0, <3>8 DEF ReconcileMissing, memory, Abort, ExecStates
    <3>9. CASE ReconcileFails(c)
      BY <2>0, <3>9 DEF ReconcileFails, memory
    <3>10. CASE FindActive(c)
      BY <2>0, <3>10 DEF FindActive, memory
    <3>11. CASE FindNone(c)
      BY <2>0, <3>11 DEF FindNone, memory
    <3>12. CASE Restore(c)
      BY <2>0, <3>12, RestoredKeeps DEF Restore
    <3> QED
      BY <2>1, <3>1, <3>2, <3>3, <3>4, <3>5, <3>6, <3>7, <3>8, <3>9, <3>10, <3>11, <3>12 DEF CallStep
  <2>2. ASSUME NEW a \in Attempts, RunStep(a)
        PROVE  exec'[b].pc # "failing"
    <3>1. CASE AskHuman(a)
      BY <2>0, <3>1 DEF AskHuman, ExecStates
    <3>2. CASE EnterHuman(a)
      BY <2>0, <3>2 DEF EnterHuman, ExecStates
    <3>3. CASE DropHuman(a)
      BY <2>0, <3>3 DEF DropHuman, ExecStates
    <3>4. CASE Register(a)
      BY <2>0, <3>4 DEF Register, ExecStates
    <3>5. CASE RunEnds(a)
      BY <2>0, <3>5 DEF RunEnds, ExecStates
    <3>6. CASE SettleHuman(a)
      BY <2>0, <3>6 DEF SettleHuman, Settled, ExecStates
    <3>7. CASE SettleDone(a)
      BY <2>0, <3>7, NewStates DEF SettleDone, Settled
    <3>8. CASE SettleThrows(a)
      <4>1. a # b
        BY <2>0, <3>8 DEF SettleThrows, IngestionThrows, ReadyToSettle
      <4> QED
        BY <2>0, <3>8, <4>1 DEF SettleThrows
    <3>9. CASE ReturnQuietly(a)
      BY <2>0, <3>9, NewStates DEF ReturnQuietly
    <3>10. CASE ReturnWithDone(a)
      BY <2>0, <3>10, NewStates DEF ReturnWithDone, Settled
    <3>11. CASE ReturnThrows(a)
      BY <2>0, <3>11 DEF ReturnThrows
    <3>12. CASE Leave(a)
      BY <2>0, <3>12, NewStates DEF Leave
    <3>13. CASE TryRetry(a)
      BY <2>0, <3>13 DEF TryRetry, ExecStates
    <3>14. CASE Retry(a)
      BY <2>0, <3>14, NewStates DEF Retry
    <3>15. CASE CloseFailed(a)
      BY <2>0, <3>15, NewStates DEF CloseFailed
    <3>16. CASE Escape(a)
      BY <2>0, <3>16 DEF Escape
    <3> QED
      BY <2>2, <3>1, <3>2, <3>3, <3>4, <3>5, <3>6, <3>7, <3>8, <3>9, <3>10, <3>11, <3>12, <3>13,
         <3>14, <3>15, <3>16 DEF RunStep
  <2>3. CASE StartRun \/ StartRefused
    BY <2>3 DEF StartRun, StartRefused
  <2>4. CASE EndJob
    BY <2>0, <2>4 DEF EndJob, memory
  <2>5. CASE Requeue
    BY <2>0, <2>5 DEF Requeue, memory
  <2>6. CASE HumanReply
    BY <2>0, <2>6 DEF HumanReply, memory
  <2>7. CASE NewWindow
    BY <2>0, <2>7 DEF NewWindow, memory
  <2>8. CASE Crash
    BY <2>0, <2>8, NewStates DEF Crash, memory
  <2>9. CASE UNCHANGED vars
    BY <2>0, <2>9 DEF vars, memory
  <2> QED
    BY <1>1, <2>1, <2>2, <2>3, <2>4, <2>5, <2>6, <2>7, <2>8, <2>9 DEF Next
<1> QED
  BY <1>1, Invariance, PTL DEF Spec, AcceptedRunSettles

-----------------------------------------------------------------------------
(***************************************************************************)
(* The contract.                                                            *)
(***************************************************************************)
Verdict(k) == IF Prior(k) = {} THEN "none"
              ELSE IF Prior(k) \subseteq Rejected THEN "rejected" ELSE "accepted"
Outcome == IF events = {} THEN <<>> ELSE <<(CHOOSE e \in events : TRUE).key>>
Verdicts == [k \in Keys |-> Verdict(k)]

\* A commit decides its proposal.
LEMMA CommitDecides ==
  ASSUME IInv, NEW c \in Calls, RecordCommits(c)
  PROVE  \E k \in Keys : \E v \in {"rejected", "accepted"} :
           /\ Outcome = <<>> /\ Verdicts[k] = "none"
           /\ \A q \in Keys : Verdicts[q] # "accepted"
           /\ Verdicts' = [Verdicts EXCEPT ![k] = v]
           /\ Outcome' = Outcome
<1> DEFINE n == NewReceipt(c)
           k == calls[c].key
           v == IF n.status = "rejected" THEN "rejected" ELSE "accepted"
<1>0. /\ receipts \subseteq Receipt /\ n \in Receipt /\ n.key = k /\ k \in Keys
      /\ receipts' = receipts \cup {n} /\ Prior(k) = {} /\ Accepted = {}
  BY CommitEffect, Types DEF IInv, TypeView, Receipt
<1>1. events = {} /\ events' = events
  BY CommitEffect DEF IInv, EventInv
<1>2. Outcome = <<>> /\ Outcome' = Outcome
  BY <1>1 DEF Outcome
<1>3. \A q \in Keys : Verdict(q) # "accepted"
  BY <1>0 DEF Verdict, Prior, Accepted, Rejected, Receipt
<1>4. Verdict(k) = "none"
  BY <1>0 DEF Verdict
<1> HIDE DEF n
<1>5. ASSUME NEW q \in Keys
      PROVE  Verdict(q)' = IF q = k THEN v ELSE Verdict(q)
  <2>1. CASE q = k
    <3>1. Prior(q)' = {n}
      BY <1>0, <2>1 DEF Prior
    <3>2. n \in Rejected' <=> n.status = "rejected"
      BY <1>0 DEF Rejected
    <3> QED
      BY <2>1, <3>1, <3>2 DEF Verdict
  <2>2. CASE q # k
    <3>1. Prior(q)' = Prior(q)
      BY <1>0, <2>2 DEF Prior
    <3>2. Prior(q) \subseteq Rejected' <=> Prior(q) \subseteq Rejected
      BY <1>0, <2>2 DEF Prior, Rejected
    <3> QED
      BY <2>2, <3>1, <3>2 DEF Verdict
  <2> QED
    BY <2>1, <2>2
<1> HIDE DEF v, k
<1>6. Verdicts' = [Verdicts EXCEPT ![k] = v]
  <2>1. \A q \in Keys : Verdicts'[q] = IF q = k THEN v ELSE Verdicts[q]
    BY <1>5 DEF Verdicts
  <2> QED
    BY <1>0, <2>1 DEF Verdicts
<1>7. v \in {"rejected", "accepted"}
  BY DEF v
<1> QED
  BY <1>0, <1>2, <1>3, <1>4, <1>6, <1>7 DEF Verdicts

\* An applied done settles the Job.
LEMMA DoneSettles ==
  ASSUME IInv, [Next]_vars, ~UNCHANGED events
  PROVE  \E k \in Keys \cup {None} :
           /\ Outcome = <<>> /\ (k # None => Verdicts[k] = "accepted")
           /\ Outcome' = <<k>> /\ Verdicts' = Verdicts
<1>0. PICK a \in Attempts : \E k \in {exec[a].done, None} :
        /\ job.status = "running" /\ UNCHANGED receipts
        /\ events' = events \cup {[key |-> k, attempt |-> job.attempt]}
  BY EventsFrame
<1>1. PICK k \in {exec[a].done, None} :
        /\ job.status = "running" /\ UNCHANGED receipts
        /\ events' = events \cup {[key |-> k, attempt |-> job.attempt]}
  BY <1>0
<1>2. events = {}
  BY <1>1 DEF IInv, EventInv
<1>3. k \in Keys \cup {None} /\ exec[a].done \in Keys \cup {None}
  BY <1>1, Types DEF IInv, TypeView, ExecStates
<1>4. Outcome = <<>>
  BY <1>2 DEF Outcome
<1>5. Outcome' = <<k>>
  <2> DEFINE e == [key |-> k, attempt |-> job.attempt]
  <2>1. events' = {e} /\ e.key = k
    BY <1>1, <1>2
  <2> HIDE DEF e
  <2>2. (CHOOSE x \in events' : TRUE) = e
    BY <2>1
  <2> QED
    BY <2>1, <2>2 DEF Outcome
<1>6. Verdicts' = Verdicts
  BY <1>1 DEF Verdicts, Verdict, Prior, Rejected
<1>7. ASSUME k # None
      PROVE  Verdicts[k] = "accepted"
  <2>1. PICK r \in Accepted : r.key = k
    BY <1>1, <1>7 DEF IInv, ExecInv
  <2>2. r \in Prior(k) /\ r \notin Rejected
    BY <2>1 DEF Accepted, Rejected, Prior
  <2> QED
    BY <1>3, <1>7, <2>2 DEF Verdicts, Verdict
<1> QED
  BY <1>3, <1>4, <1>5, <1>6, <1>7

\* The detailed model implements CompletionContract: over every interleaving of
\* requests, runs, recoveries and crashes the durable rows show one decision of
\* each proposal, none after an acceptance, and one end of the Job.
THEOREM CompletionImplementsContract == Spec => ImplementsContract
<1>1. Init => Contract!Init
  BY DEF Init, Contract!Init, Prior
<1>2. ASSUME IInv, [Next]_vars
      PROVE  \/ \E k \in Keys : \E v \in {"rejected", "accepted"} :
                  /\ Outcome = <<>> /\ Verdicts[k] = "none"
                  /\ \A q \in Keys : Verdicts[q] # "accepted"
                  /\ Verdicts' = [Verdicts EXCEPT ![k] = v]
                  /\ Outcome' = Outcome
             \/ \E k \in Keys \cup {None} :
                  /\ Outcome = <<>> /\ (k # None => Verdicts[k] = "accepted")
                  /\ Outcome' = <<k>> /\ Verdicts' = Verdicts
             \/ Outcome' = Outcome /\ Verdicts' = Verdicts
  <2>1. CASE ~UNCHANGED events
    BY <1>2, <2>1, DoneSettles
  <2>2. ASSUME NEW c \in Calls, RecordCommits(c)
        PROVE  \E k \in Keys : \E v \in {"rejected", "accepted"} :
                  /\ Outcome = <<>> /\ Verdicts[k] = "none"
                  /\ \A q \in Keys : Verdicts[q] # "accepted"
                  /\ Verdicts' = [Verdicts EXCEPT ![k] = v]
                  /\ Outcome' = Outcome
    BY <1>2, <2>2, CommitDecides
  <2>3. CASE UNCHANGED <<events, receipts>>
    BY <2>3 DEF Outcome, Verdicts, Verdict, Prior, Rejected
  <2> QED
    BY <1>2, <2>1, <2>2, <2>3, ReceiptsFrame
<1>3. IInv /\ [Next]_vars
        => [Contract!Next]_<<[k \in Keys |->
                                IF Prior(k) = {} THEN "none"
                                ELSE IF Prior(k) \subseteq Rejected THEN "rejected"
                                     ELSE "accepted"],
                             IF events = {} THEN <<>>
                             ELSE <<(CHOOSE e \in events : TRUE).key>>>>
  BY <1>2
  DEF Contract!Next, Contract!Decide, Contract!Settle, Verdicts, Verdict, Outcome
<1> QED
  BY <1>1, <1>3, Invariance, PTL DEF Spec, ImplementsContract, Contract!Spec

=============================================================================
