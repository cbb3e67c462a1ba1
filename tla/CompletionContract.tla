-------------------------- MODULE CompletionContract --------------------------
(***************************************************************************)
(* What mark_job_done promises of one Job, whatever Attempts, requests and  *)
(* crashes it takes: each proposal is decided once; nothing is decided       *)
(* after one was accepted, nor after the Job is done; the Job is done once,  *)
(* by the accepted proposal or without any (the done of runJob itself).      *)
(***************************************************************************)
CONSTANTS Keys, None

VARIABLES
  verdict, \* per key: "none", "rejected" or "accepted"
  outcome  \* << >>, or one element: the key the Job is done by, or None

Init ==
  /\ verdict = [k \in Keys |-> "none"]
  /\ outcome = <<>>

\* verdict'[k] = v follows from the last conjunct but one; it rules most steps out.
Decide(k, v) ==
  /\ verdict[k] = "none" /\ verdict'[k] = v
  /\ outcome = <<>>
  /\ \A q \in Keys : verdict[q] # "accepted"
  /\ verdict' = [verdict EXCEPT ![k] = v]
  /\ UNCHANGED outcome

Settle(k) ==
  /\ outcome = <<>> /\ outcome' = <<k>>
  /\ k # None => verdict[k] = "accepted"
  /\ UNCHANGED verdict

Next ==
  \/ \E k \in Keys : \E v \in {"rejected", "accepted"} : Decide(k, v)
  \/ \E k \in Keys \cup {None} : Settle(k)

Spec == Init /\ [][Next]_<<verdict, outcome>>
=============================================================================
