----------------------------- MODULE Completion -----------------------------
(***************************************************************************)
(* How one Job comes to its end: the durable proposal of mark_job_done      *)
(* (platform-api/completion.ts, event-ingestion/completion-receipt.ts), the *)
(* executor's control handler that prepares, commits or aborts it in memory *)
(* (executor-real.ts), request_human as its rival, the settlement of the    *)
(* terminal event, and the ways a Job with receipts gets another Attempt.   *)
(*                                                                          *)
(* A proposal is a key and a revision; the digest of its input is folded    *)
(* into the revision.  Receipts are ordered by revision, as they are by     *)
(* job_seq.  What schema, effects, tokens, deadlines and leases decide is   *)
(* left open: each may refuse or reject at any time.  Of a Hub's decision    *)
(* there is what it does to the settlement: it is one bundle with the done.  *)
(* JobLifecycle has the Job's other ways to end; here they are one action.   *)
(***************************************************************************)
EXTENDS Integers, FiniteSets

CONSTANTS
  Keys,          \* Idempotency-Keys of mark_job_done
  Calls,         \* requests of the Agent that may be under way at once
  None,          \* no key, no call
  IsHub,         \* the Job's role may decide as a Hub
  RepairLimit,   \* COMPLETION_REPAIR_LIMIT
  TerminalLimit, \* terminal events a rate window admits
  MaxAttempts,   \* bound: Attempts of the Job
  MaxFaults      \* bound: crashes, lost acknowledgements, failed reads and transactions,
                 \* ends by others

ASSUME CompletionAssumption ==
  /\ None \notin Keys /\ None \notin Calls
  /\ IsHub \in BOOLEAN
  /\ RepairLimit \in Nat \ {0} /\ TerminalLimit \in Nat /\ MaxAttempts \in Nat
  /\ MaxFaults \in Nat

VARIABLES
  job,        \* its status, its newest Attempt, is that Attempt active
  generation, \* target Attempt of the newest repair_generation, 0 before any
  receipts,   \* control_receipt rows of mark_job_done
  events,     \* done events the ingestion applied
  used,       \* terminal events counted in the current rate window
  lock,       \* the proposal whose transaction holds the Job row
  registry,   \* Attempt whose control handler is registered for the Job, or 0
  exec,       \* per Attempt: its executeReal call and semanticState
  calls,      \* per request: where invokeDurableCompletion stands
  faults      \* how many of MaxFaults have happened

durable == <<job, generation, receipts, events, used>>
memory  == <<registry, exec>>
vars    == <<durable, lock, memory, calls, faults>>

Attempts  == 1..MaxAttempts
Revisions == 0..(RepairLimit - 1) \* of any higher one Admissible is false

Receipt == [key : Keys, revision : Revisions, attempt : Attempts,
            status : {"rejected", "persisted_deferred"}]
Accepted == {r \in receipts : r.status = "persisted_deferred"}
Rejected == {r \in receipts : r.status = "rejected"}
Prior(k) == {r \in receipts : r.key = k}

Latest      == CHOOSE r \in receipts : \A q \in receipts : q.revision <= r.revision
FirstReject == CHOOSE r \in Rejected : \A q \in Rejected : r.revision <= q.revision

\* (mutant: before any generation every Attempt owns the chain)
OwnsByGenerationOnly(a) == generation # 0 => a = generation

\* Who owns the repair chain: the target of the newest generation, the Attempt of
\* the first rejection before any.
Owns(a) == a = IF generation # 0 THEN generation ELSE FirstReject.attempt

ExpectedRevision == IF receipts = {} THEN 0 ELSE Latest.revision + 1

Statuses == {"pending", "running", "waiting_human", "succeeded", "failed"}

NewExec == [pc |-> "none", outcome |-> "ok", done |-> None,
            reservation |-> None, human |-> "no"]
OverExec == [NewExec EXCEPT !.pc = "over"]
\* executeReal threw: its semanticState is gone, runJob's catch has the error.
Thrown(o) == [NewExec EXCEPT !.pc = "failing", !.outcome = o]
NewCall == [pc |-> "idle", key |-> None, revision |-> 0, verdict |-> "none",
            prepared |-> 0]

TypeOK ==
  /\ job \in [status : Statuses, attempt : 0..MaxAttempts, active : BOOLEAN]
  /\ generation \in 0..MaxAttempts
  /\ receipts \subseteq Receipt
  /\ events \subseteq [key : Keys \cup {None}, attempt : Attempts]
  /\ used \in 0..TerminalLimit
  /\ lock \in Calls \cup {None}
  /\ registry \in 0..MaxAttempts
  /\ exec \in [Attempts ->
       [pc : {"none", "starting", "running", "settling", "returning", "failing",
              "retrying", "over"},
        outcome : {"ok", "decided", "error", "truncated"}, done : Keys \cup {None},
        reservation : Keys \cup {None}, human : {"no", "asking", "yes"}]]
  /\ calls \in [Calls ->
       [pc : {"idle", "recording", "reconciling", "recorded", "restoring"},
        key : Keys \cup {None}, revision : Revisions,
        verdict : {"none", "accepted", "rejected"}, prepared : 0..MaxAttempts]]
  /\ faults \in 0..MaxFaults

Init ==
  /\ job = [status |-> "pending", attempt |-> 0, active |-> FALSE]
  /\ generation = 0 /\ receipts = {} /\ events = {}
  /\ used = 0
  /\ lock = None /\ registry = 0
  /\ exec = [a \in Attempts |-> NewExec]
  /\ calls = [c \in Calls |-> NewCall]
  /\ faults = 0

JobFree == lock = None

Fault   == faults < MaxFaults /\ faults' = faults + 1
NoFault == UNCHANGED faults

(***************************************************************************)
(* A request of the Agent: invokeDurableCompletion.                         *)
(***************************************************************************)
\* Answers that are not "accepted" are not told apart: rejected, conflict, refused,
\* unavailable, limited and uncertain.  A request that is answered so at once
\* changes nothing and is no step.
Answer(c) == calls' = [calls EXCEPT ![c] = NewCall]

\* The answer a stored receipt gives to a proposal: its result, or a conflict.
\* An accepted one is first restored to the run.
AnswerOf(c, r) ==
  IF r.revision = calls[c].revision /\ r.status = "persisted_deferred"
  THEN calls' = [calls EXCEPT ![c].pc = "recorded", ![c].verdict = "none",
                              ![c].prepared = 0]
  ELSE Answer(c)

\* recordCompletionProposal: the accepted proposal is sent once more.
ReadPrior(c) ==
  /\ calls[c].pc = "idle" /\ JobFree
  /\ \E r \in Accepted :
       calls' = [calls EXCEPT ![c] = [NewCall EXCEPT !.pc = "recorded", !.key = r.key,
                                                     !.revision = r.revision]]
  /\ UNCHANGED <<durable, lock, memory, faults>>

\* (mutant: a proposal is not refused when one was accepted)
AdmissibleAfterAcceptance(k, n) ==
  /\ Prior(k) = {}
  /\ job.status = "running" /\ job.active
  /\ Rejected # {} => Owns(job.attempt)
  /\ Cardinality(receipts) < RepairLimit
  /\ n = ExpectedRevision

\* What refuses a new proposal in every case; lease, cancellation, tokens,
\* recovery and lack of progress may refuse any.
Admissible(k, n) ==
  /\ Prior(k) = {}
  /\ job.status = "running" /\ job.active
  /\ Accepted = {}
  /\ Rejected # {} => Owns(job.attempt)
  /\ Cardinality(receipts) < RepairLimit
  /\ n = ExpectedRevision

\* The transaction goes on to its insert, with the Job row locked.
BeginRecord(c, k, n, verdict, prepared) ==
  /\ lock' = c
  /\ calls' = [calls EXCEPT ![c] = [pc |-> "recording", key |-> k, revision |-> n,
                                    verdict |-> verdict, prepared |-> prepared]]

\* A schema failure, or effects that are pending or unknown.
RejectEarly(c) ==
  /\ calls[c].pc = "idle" /\ JobFree
  /\ \E k \in Keys, n \in Revisions :
       Admissible(k, n) /\ BeginRecord(c, k, n, "rejected", 0)
  /\ UNCHANGED <<durable, memory, faults>>

\* input.prepare: the registered handler answers inside the transaction; it may
\* belong to another Attempt or hold a human request.  Without one, nothing.
PrepareRejects(c) ==
  /\ calls[c].pc = "idle" /\ JobFree
  /\ registry # 0
  /\ registry # job.attempt \/ exec[registry].human = "yes"
  /\ \E k \in Keys, n \in Revisions :
       Admissible(k, n) /\ BeginRecord(c, k, n, "rejected", job.attempt)
  /\ UNCHANGED <<durable, memory, faults>>

\* (mutant: preparing already sets the done of the run)
ReservedAndDone(a, k) ==
  exec' = [exec EXCEPT ![a].reservation = k, ![a].done = k]

Reserved(a, k) ==
  exec' = [exec EXCEPT ![a].reservation = IF exec[a].done = None THEN k ELSE @]

PrepareAccepts(c) ==
  /\ calls[c].pc = "idle" /\ JobFree
  /\ registry # 0 /\ registry = job.attempt /\ exec[registry].human # "yes"
  /\ \E k \in Keys, n \in Revisions :
       /\ Admissible(k, n)
       /\ BeginRecord(c, k, n, "accepted", job.attempt)
       /\ Reserved(job.attempt, k)
  /\ UNCHANGED <<durable, registry, faults>>

NewReceipt(c) ==
  [key |-> calls[c].key, revision |-> calls[c].revision, attempt |-> job.attempt,
   status |-> IF calls[c].verdict = "accepted" THEN "persisted_deferred" ELSE "rejected"]

\* (mutant: one event more than the window admits)
OneTooMany == used <= TerminalLimit

TerminalLeft == used < TerminalLimit

ConsumeTerminal == TerminalLeft /\ used' = used + 1

\* The standard bucket is open: how many rejections, facts, findings and decisions
\* it admits, and how many the run has sent.  Any of them may find it full.
ConsumeStandard == UNCHANGED used

\* The transaction commits; its acknowledgement may be lost.
RecordCommits(c) ==
  /\ calls[c].pc = "recording"
  /\ IF calls[c].verdict = "accepted" THEN ConsumeTerminal ELSE ConsumeStandard
  /\ receipts' = receipts \cup {NewReceipt(c)}
  /\ \/ /\ AnswerOf(c, NewReceipt(c))
        /\ NoFault
     \/ /\ calls' = [calls EXCEPT ![c].pc = "reconciling", ![c].verdict = "none"]
        /\ Fault
  /\ lock' = None
  /\ UNCHANGED <<job, generation, events, memory>>

\* (mutant: a failed transaction is answered like one that committed)
RecordFailsUnnoticed(c) ==
  /\ calls[c].pc = "recording" /\ Fault
  /\ AnswerOf(c, NewReceipt(c))
  /\ lock' = None
  /\ UNCHANGED <<durable, memory>>

\* It fails, for one because consumeEventRateLimit throws.
RecordFails(c) ==
  /\ calls[c].pc = "recording"
  /\ IF calls[c].verdict = "accepted" => ~TerminalLeft THEN NoFault ELSE Fault
  /\ calls' = [calls EXCEPT ![c].pc = "reconciling", ![c].verdict = "none"]
  /\ lock' = None
  /\ UNCHANGED <<durable, memory>>

(***************************************************************************)
(* The catch of invokeDurableCompletion: read the receipt under the Job     *)
(* lock; only a proved absence releases the reservation.                    *)
(***************************************************************************)
\* (mutant: the reservation of any key is released)
AbortAny(c) ==
  exec' = [a \in Attempts |->
             IF a = calls[c].prepared /\ registry = a
             THEN [exec[a] EXCEPT !.reservation = None] ELSE exec[a]]

Abort(c) ==
  exec' = [a \in Attempts |->
             IF a = calls[c].prepared /\ registry = a /\ exec[a].reservation = calls[c].key
             THEN [exec[a] EXCEPT !.reservation = None] ELSE exec[a]]

ReconcileStored(c) ==
  /\ calls[c].pc = "reconciling" /\ JobFree
  /\ \E r \in Prior(calls[c].key) : AnswerOf(c, r)
  /\ UNCHANGED <<durable, lock, memory, faults>>

ReconcileMissing(c) ==
  /\ calls[c].pc = "reconciling" /\ JobFree
  /\ Prior(calls[c].key) = {}
  /\ Abort(c)
  /\ Answer(c)
  /\ UNCHANGED <<durable, lock, registry, faults>>

ReconcileFails(c) ==
  /\ calls[c].pc = "reconciling" /\ Fault
  /\ Answer(c)
  /\ UNCHANGED <<durable, lock, memory>>

(***************************************************************************)
(* An accepted receipt is restored to the run that is still live.           *)
(***************************************************************************)
\* The statement that looks for the receipt's Attempt among the active.
FindActive(c) ==
  /\ calls[c].pc = "recorded"
  /\ job.status = "running" /\ job.active
  /\ \E r \in Accepted : r.key = calls[c].key /\ r.attempt = job.attempt
  /\ calls' = [calls EXCEPT ![c].pc = "restoring"]
  /\ UNCHANGED <<durable, lock, memory, faults>>

\* It finds none; lease, time, cancellation or effects may also hide it.
FindNone(c) ==
  /\ calls[c].pc = "recorded"
  /\ Answer(c)
  /\ UNCHANGED <<durable, lock, memory, faults>>

\* completionPhase "commit": the first done stands; a human request wins.
Restored(e, k) ==
  IF e.human = "yes" THEN e
  ELSE [e EXCEPT !.done = IF e.done = None THEN k ELSE e.done, !.reservation = None]

Restore(c) ==
  /\ calls[c].pc = "restoring"
  /\ \E r \in Prior(calls[c].key) :
       exec' = [a \in Attempts |-> IF a = registry /\ a = r.attempt
                                   THEN Restored(exec[a], r.key) ELSE exec[a]]
  /\ Answer(c)
  /\ UNCHANGED <<durable, lock, registry, faults>>

(***************************************************************************)
(* request_human: checked, preflighted in the database, checked again.      *)
(***************************************************************************)
HumanMayEnter(a) == exec[a].reservation = None /\ exec[a].done = None

AskHuman(a) ==
  /\ registry = a /\ exec[a].human = "no" /\ HumanMayEnter(a)
  /\ exec' = [exec EXCEPT ![a].human = "asking"]
  /\ UNCHANGED <<durable, lock, registry, calls, faults>>

EnterHuman(a) ==
  /\ exec[a].human = "asking" /\ HumanMayEnter(a)
  /\ exec' = [exec EXCEPT ![a].human = "yes"]
  /\ UNCHANGED <<durable, lock, registry, calls, faults>>

\* The preflight or the second check refuses.
DropHuman(a) ==
  /\ exec[a].human = "asking"
  /\ exec' = [exec EXCEPT ![a].human = "no"]
  /\ UNCHANGED <<durable, lock, registry, calls, faults>>

(***************************************************************************)
(* A run: executeReal between runJob's start and its catch.                 *)
(***************************************************************************)
\* The dispatcher's next Attempt: the one a retry created, or a new one.
NextAttempt == IF job.active THEN job.attempt ELSE job.attempt + 1

\* assertRepairExecutionOwner lets it run.
StartRun ==
  LET a == NextAttempt IN
  /\ job.status = "pending" /\ JobFree /\ a \in Attempts
  /\ Rejected # {} => Owns(a)
  /\ job' = [status |-> "running", attempt |-> a, active |-> TRUE]
  /\ exec' = [exec EXCEPT ![a].pc = "starting"]
  /\ UNCHANGED <<generation, receipts, events, used, lock, registry, calls, faults>>

\* It throws: no generation authorises the Attempt, or its budget is spent.
StartRefused ==
  LET a == NextAttempt IN
  /\ job.status = "pending" /\ JobFree /\ a \in Attempts
  /\ Rejected # {}
  /\ job' = [status |-> "failed", attempt |-> a, active |-> FALSE]
  /\ exec' = [exec EXCEPT ![a] = OverExec]
  /\ UNCHANGED <<generation, receipts, events, used, lock, registry, calls, faults>>

\* onRunReady: the newer registration replaces the older.
Register(a) ==
  /\ exec[a].pc = "starting"
  /\ exec' = [exec EXCEPT ![a].pc = "running"]
  /\ registry' = a
  /\ UNCHANGED <<durable, lock, calls, faults>>

\* The Agent is over; unregisterRuntimeHandler(jobId) removes whoever is there.
\* Without a done and a human request that is an error.  A Hub's completed run ends
\* "decided" when a decision belongs in its bundle: it submitted one, or executes no
\* Plan and owes it.
RunEnds(a) ==
  /\ exec[a].pc \in {"starting", "running"}
  /\ \E o \in {"ok", "decided", "error", "truncated"} :
       /\ o = "ok" => exec[a].done # None \/ exec[a].human # "no"
       /\ o = "decided" => IsHub /\ exec[a].done # None
       /\ exec' = [exec EXCEPT ![a].pc = "settling", ![a].outcome = o]
  /\ registry' = IF exec[a].pc = "running" THEN 0 ELSE registry
  /\ UNCHANGED <<durable, lock, calls, faults>>

\* (mutant: no done is prepaid)
NothingPrepaid(a) == FALSE

\* hasPrepaidCompletion: the receipt of the active Attempt that this done is.
Prepaid(a) ==
  /\ job.active
  /\ \E r \in Accepted : r.attempt = job.attempt /\ r.key = exec[a].done

\* appendAndApplyBundle applies a done.
Finalized(key) ==
  /\ events' = events \cup {[key |-> key, attempt |-> job.attempt]}
  /\ job' = [job EXCEPT !.status = "succeeded", !.active = FALSE]

\* The transaction committed; its acknowledgement may be lost, and executeReal throws.
Settled(a, e) ==
  \/ exec' = [exec EXCEPT ![a] = e] /\ NoFault
  \/ exec' = [exec EXCEPT ![a] = Thrown("error")] /\ Fault

SettleHuman(a) ==
  /\ exec[a].pc = "settling" /\ exec[a].human = "yes" /\ JobFree
  /\ job.status = "running"
  /\ ConsumeTerminal
  /\ job' = [job EXCEPT !.status = "waiting_human"]
  /\ Settled(a, [exec[a] EXCEPT !.pc = "returning", !.outcome = "ok"])
  /\ UNCHANGED <<generation, receipts, events, lock, registry, calls>>

ReadyToSettle(a) ==
  /\ exec[a].pc = "settling" /\ exec[a].human # "yes"
  /\ exec[a].outcome \in {"ok", "decided"} /\ exec[a].done # None

\* The bundle of the Hub's decision, unless it decides on no intent, and the done.
SettleDone(a) ==
  /\ ReadyToSettle(a) /\ JobFree
  /\ job.status = "running"
  /\ IF Prepaid(a) THEN UNCHANGED used ELSE ConsumeTerminal
  /\ Finalized(exec[a].done)
  /\ Settled(a, OverExec)
  /\ UNCHANGED <<generation, receipts, lock, registry, calls>>

\* assertSemanticJobRunning; consumeEventRateLimit of a full window; the request
\* for a human is refused; the Hub's decision is missing, refused by the checks
\* that are made again, or finds no room among the standard events.
IngestionThrows(a) ==
  \/ job.status # "running" /\ JobFree
  \/ exec[a].human = "yes"
  \/ ReadyToSettle(a) /\ exec[a].outcome = "decided"
  \/ ReadyToSettle(a) /\ JobFree /\ ~TerminalLeft /\ ~Prepaid(a)

\* The runner threw, which a human request does not survive; it returned a
\* failure, which it does; nothing was completed; the ingestion throws; or a
\* write before it or its transaction fails.
SettleThrows(a) ==
  /\ exec[a].pc = "settling"
  /\ \/ /\ \/ exec[a].outcome \in {"error", "truncated"}
           \/ exec[a].human # "yes" /\ exec[a].done = None
        /\ exec' = [exec EXCEPT ![a] = Thrown(IF exec[a].outcome = "truncated"
                                              THEN "truncated" ELSE "error")]
        /\ NoFault
     \/ /\ exec' = [exec EXCEPT ![a] = Thrown("error")]
        /\ (IngestionThrows(a) /\ NoFault) \/ Fault
  /\ UNCHANGED <<durable, lock, registry, calls>>

\* runJob after execute(): a Job that still runs gets a done of its own.  After
\* a human request it runs only if the reply was faster.
ReturnQuietly(a) ==
  /\ exec[a].pc = "returning"
  /\ job.status # "running"
  /\ exec' = [exec EXCEPT ![a] = OverExec]
  /\ UNCHANGED <<durable, lock, registry, calls, faults>>

ReturnWithDone(a) ==
  /\ exec[a].pc = "returning" /\ JobFree
  /\ job.status = "running" /\ ConsumeTerminal
  /\ Finalized(None)
  /\ Settled(a, OverExec)
  /\ UNCHANGED <<generation, receipts, lock, registry, calls>>

ReturnThrows(a) ==
  /\ exec[a].pc = "returning"
  /\ \/ job.status = "running" /\ ~TerminalLeft /\ JobFree /\ NoFault
     \/ Fault
  /\ exec' = [exec EXCEPT ![a] = Thrown("error")]
  /\ UNCHANGED <<durable, lock, registry, calls>>

(***************************************************************************)
(* runJob's catch: leave a newer Attempt or a waiting Job alone, try the    *)
(* automatic retry of a truncated stream or an exceeded context, or fail.   *)
(***************************************************************************)
Leave(a) ==
  /\ exec[a].pc = "failing"
  /\ a # job.attempt \/ job.status = "waiting_human"
  /\ exec' = [exec EXCEPT ![a] = OverExec]
  /\ UNCHANGED <<durable, lock, registry, calls, faults>>

TryRetry(a) ==
  /\ exec[a].pc = "failing"
  /\ a = job.attempt /\ job.status # "waiting_human"
  /\ exec[a].outcome = "truncated"
  /\ exec' = [exec EXCEPT ![a].pc = "retrying"]
  /\ UNCHANGED <<durable, lock, registry, calls, faults>>

\* retryTruncatedExecutionJob, retryContextWindowExceededJob: a budget, that is a
\* rejected receipt, forbids them; an accepted one is not asked for.
Retry(a) ==
  /\ exec[a].pc = "retrying" /\ JobFree
  /\ Rejected = {} /\ job.status = "running" /\ job.attempt < MaxAttempts
  /\ job' = [status |-> "pending", attempt |-> job.attempt + 1, active |-> TRUE]
  /\ exec' = [exec EXCEPT ![a] = OverExec]
  /\ UNCHANGED <<generation, receipts, events, used, lock, registry, calls, faults>>

Ended == [job EXCEPT !.status = "failed", !.active = FALSE]

\* Not retryable, forbidden or used up: the failing transaction reads the newest
\* Attempt again.
CloseFailed(a) ==
  /\ \/ exec[a].pc = "retrying"
     \/ exec[a].pc = "failing" /\ exec[a].outcome # "truncated"
  /\ JobFree
  /\ job' = IF a = job.attempt /\ job.status = "running" THEN Ended ELSE job
  /\ exec' = [exec EXCEPT ![a] = OverExec]
  /\ UNCHANGED <<generation, receipts, events, used, lock, registry, calls, faults>>

\* The catch itself throws, in a read or in its transaction; the Job stays.
Escape(a) ==
  /\ exec[a].pc \in {"failing", "retrying"} /\ Fault
  /\ exec' = [exec EXCEPT ![a] = OverExec]
  /\ UNCHANGED <<durable, lock, registry, calls>>

(***************************************************************************)
(* Everybody else.                                                          *)
(***************************************************************************)
\* The Reaper, a cancel or a timeout of the human wait.
EndJob ==
  /\ job.status \in {"pending", "running", "waiting_human"} /\ JobFree /\ Fault
  /\ job' = Ended
  /\ UNCHANGED <<generation, receipts, events, used, lock, memory, calls>>

\* readRepairRequeueAdmission; its other blockers may deny at any time.
RequeuePermitted ==
  /\ Accepted = {} /\ events = {}
  /\ Rejected # {} => Cardinality(receipts) < RepairLimit

\* The user's resume or rerun; admitRepairGeneration for a repair chain.
Requeue ==
  /\ job.status \in {"failed", "waiting_human"} /\ JobFree
  /\ RequeuePermitted
  /\ job.attempt < MaxAttempts
  /\ generation' = IF Rejected # {} THEN job.attempt + 1 ELSE generation
  /\ job' = [job EXCEPT !.status = "pending", !.active = FALSE]
  /\ UNCHANGED <<receipts, events, used, lock, memory, calls, faults>>

\* resumeWaitingHumanJob: a reply, or "ignore"; no generation is admitted.
HumanReply ==
  /\ job.status = "waiting_human" /\ JobFree
  /\ job' = [job EXCEPT !.status = "pending", !.active = FALSE]
  /\ UNCHANGED <<generation, receipts, events, used, lock, memory, calls, faults>>

NewWindow ==
  /\ used # 0
  /\ used' = 0
  /\ UNCHANGED <<job, generation, receipts, events, lock, memory, calls, faults>>

\* The process dies: runs, handlers and requests are gone, an open transaction
\* is rolled back.
Crash ==
  /\ Fault
  /\ exec' = [a \in Attempts |-> IF exec[a].pc = "none" THEN exec[a] ELSE OverExec]
  /\ registry' = 0
  /\ calls' = [c \in Calls |-> NewCall]
  /\ lock' = None
  /\ UNCHANGED durable

CallStep(c) ==
  \/ ReadPrior(c) \/ RejectEarly(c) \/ PrepareRejects(c) \/ PrepareAccepts(c)
  \/ RecordCommits(c) \/ RecordFails(c)
  \/ ReconcileStored(c) \/ ReconcileMissing(c) \/ ReconcileFails(c)
  \/ FindActive(c) \/ FindNone(c) \/ Restore(c)

RunStep(a) ==
  \/ AskHuman(a) \/ EnterHuman(a) \/ DropHuman(a)
  \/ Register(a) \/ RunEnds(a)
  \/ SettleHuman(a) \/ SettleDone(a) \/ SettleThrows(a)
  \/ ReturnQuietly(a) \/ ReturnWithDone(a) \/ ReturnThrows(a)
  \/ Leave(a) \/ TryRetry(a) \/ Retry(a) \/ CloseFailed(a) \/ Escape(a)

Next ==
  \/ \E c \in Calls : CallStep(c)
  \/ \E a \in Attempts : RunStep(a)
  \/ StartRun \/ StartRefused \/ EndJob \/ Requeue \/ HumanReply
  \/ NewWindow \/ Crash

Spec == Init /\ [][Next]_vars

(***************************************************************************)
(* Properties.                                                              *)
(***************************************************************************)
\* No Attempt holds an accepted completion and an accepted request_human: the
\* reservation stands from the preparation to the restored done, through lost
\* acknowledgements, other proposals that fail and requests still in preflight
\* (docs/REPAIR_FEEDBACK_DONE_REPAIR.md, "B2").
AcceptedExcludesHuman ==
  \A r \in Accepted : exec[r.attempt].human # "yes"

\* An Agent is told "accepted" only of a stored receipt: of its key and revision.
AnswerIsStored ==
  \A c \in Calls : calls[c].pc \in {"recorded", "restoring"} =>
    \E r \in Accepted : r.key = calls[c].key /\ r.revision = calls[c].revision

\* The Job is done at most once, and a done that carries a key is the accepted
\* completion of that key.
SettledIsAccepted ==
  /\ Cardinality(events) <= 1
  /\ \A e \in events : e.key # None =>
       \E r \in Accepted : r.key = e.key

\* A receipt of another Attempt than the one before is authorised by the newest
\* generation ("another Attempt may not continue the repair chain").
ChainChangesHandsByGeneration ==
  [][\A r \in receipts' \ receipts :
       receipts # {} => r.attempt \in {Latest.attempt, generation}]_vars

\* The run of the newest Attempt that ended well and holds its accepted done
\* fails at the settlement only by a fault: no full window refuses it, because the
\* receipt has paid for its place.  Of a Hub's run that decides this is not so, nor
\* the sentence "exhausted ordinary events cannot block a legitimate end": its
\* decision is in the same bundle, is checked again and takes a standard event's place.
AcceptedRunSettles ==
  [][\A a \in Attempts :
       /\ a = job.attempt /\ job.status = "running" /\ ReadyToSettle(a)
       /\ exec'[a].pc = "failing"
       => exec[a].outcome = "decided" \/ faults' # faults]_vars

\* One accepted completion per Job, rejected ones only before it, none of them
\* revised later, and no other end than by the accepted one or unproposed.
Contract == INSTANCE CompletionContract WITH
  verdict <- [k \in Keys |->
                IF Prior(k) = {} THEN "none"
                ELSE IF Prior(k) \subseteq Rejected THEN "rejected" ELSE "accepted"],
  outcome <- IF events = {} THEN <<>> ELSE <<(CHOOSE e \in events : TRUE).key>>

ImplementsContract == Contract!Spec
=============================================================================
