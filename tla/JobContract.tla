------------------------------ MODULE JobContract ------------------------------
(***************************************************************************)
(* What the Scheduler promises about one Job, without runs, sandboxes or   *)
(* effects: its status, the generation (how many Attempts it has had) and  *)
(* whether the newest of them is open.                                     *)
(*                                                                         *)
(*   - the status moves only along JOB_TRANSITIONS, or along one of the    *)
(*     recovery edges the lifecycle adapter declares as exceptions;        *)
(*   - succeeded and cancelled are final;                                  *)
(*   - whoever concludes the Job closes its Attempt in the same step;      *)
(*   - a generation is opened by a claim or by an automatic retry, one at  *)
(*     a time, and never opened again.                                     *)
(***************************************************************************)
EXTENDS Naturals

VARIABLES status, generation, open

vars == <<status, generation, open>>

Resumable == {"failed", "timeout", "orphan"}
Owned     == {"claimed", "provisioning", "running", "waiting_human"}

Init == status = "pending" /\ generation = 0 /\ open = FALSE

\* An Attempt left open by an automatic retry is used, else one is created.
Claim ==
    /\ status = "pending"
    /\ status' = "claimed"
    /\ generation' = IF open THEN generation ELSE generation + 1
    /\ open' = TRUE

Advance ==
    /\ open
    /\ <<status, status'>> \in {<<"claimed", "provisioning">>,
                                <<"provisioning", "running">>,
                                <<"running", "waiting_human">>}
    /\ UNCHANGED <<generation, open>>

\* The end of an execution, with its Attempt.
Conclude ==
    /\ status \in Owned
    /\ \/ status' \in {"failed", "cancelled"}
       \/ status \in {"claimed", "provisioning", "running"}
          /\ status' \in {"timeout", "orphan"}
       \/ status = "running" /\ status' = "succeeded"
    /\ open' = FALSE
    /\ UNCHANGED generation

\* A queued Job is cancelled with its Attempt, if it has one; the drain of
\* verify Jobs leaves that Attempt open.
CancelQueued ==
    /\ status = "pending"
    /\ status' = "cancelled"
    /\ open' \in {FALSE, open}
    /\ UNCHANGED generation

\* An automatic retry closes one Attempt and opens the next.
Retry ==
    /\ status \in {"claimed", "provisioning", "running"}
    /\ status' = "pending"
    /\ open /\ UNCHANGED open
    /\ generation' = generation + 1

\* A user's rerun or reply, and the recovery of a claim that did nothing.
Requeue ==
    /\ status \in Resumable \cup {"waiting_human", "claimed", "provisioning"}
    /\ status' = "pending"
    /\ open' = FALSE
    /\ UNCHANGED generation

Next == Claim \/ Advance \/ Conclude \/ CancelQueued \/ Retry \/ Requeue

Spec == Init /\ [][Next]_vars
=============================================================================
