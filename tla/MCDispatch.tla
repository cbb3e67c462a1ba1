------------------------------ MODULE MCDispatch ------------------------------
(***************************************************************************)
(* Instances of Dispatch: two projects and two canvases.                   *)
(***************************************************************************)
EXTENDS Dispatch, TLC

\* Safety: two hubs of one canvas, the younger first in the queue and both in
\* one page, and a role that shares the quota of a project with the older.
MCKindOf    == <<"hub_reason", "hub_reason", "role">>
MCCanvasOf  == <<"A", "A", "B">>
MCProjectOf == <<"q", "p", "p">>
MCCreatedAt == <<2, 1, 3>>
MCRecoveryTarget == <<0, 0, 0>>
MCProjectLimit == [p |-> 1, q |-> 1]

\* Replicas are interchangeable; used for safety only.
ReplicaSymmetry == Permutations(Replicas)

\* Liveness: a hub that waits for a role or is sent to recover its completion, a
\* report that waits for the hub, and a role in another task of the same project.
LiveKindOf    == <<"role", "hub_reason", "role", "report">>
LiveCanvasOf  == <<"A", "A", "B", "A">>
LiveProjectOf == <<"p", "q", "p", "q">>
LiveCreatedAt == <<1, 2, 3, 4>>
LiveRecoveryTarget == <<0, 1, 0, 0>>
LiveProjectLimit == [p |-> 1, q |-> 1]
=============================================================================
