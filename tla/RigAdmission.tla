----------------------------- MODULE RigAdmission -----------------------------
(***************************************************************************)
(* Which devices a rig may lend: the management requests of domains/device/ *)
(* routes.ts write the devices table and then push the whole admitted set   *)
(* to the rig's broker (rig-registry.ts), whose DeviceRegistry (device-     *)
(* broker registry.ts) keeps the last set and its revision, in memory and   *)
(* in a file.  Requests overlap, messages are lost or late, the broker      *)
(* restarts, and leases write the same table without a push.                *)
(*                                                                          *)
(* One rig: each has a broker and revisions of its own.  A device is its    *)
(* row; transport and model are left out.                                   *)
(***************************************************************************)
EXTENDS Integers

CONSTANTS
  Devices,   \* device keys
  Requests,  \* management requests; each is made at most once
  Ceiling,   \* DEVICE_BROKER_ALLOWED_KEYS, not empty
  MaxClock   \* bound of the clock that dates the rows

ASSUME RigAssumption == Ceiling \subseteq Devices /\ MaxClock \in Nat \ {0}

VARIABLES
  row,      \* devices: status ("absent" without a row) and updated_at
  leased,   \* devices with an unended row in device_leases
  history,  \* devices with any row in device_leases
  granted,  \* grants the broker issued and the Scheduler has not booked
  now,      \* the clock of the database
  req,      \* per request: where it stands and what it read for its push
  patch,    \* PATCH requests between their check and their write
  put,      \* per request: what became of its PUT /rig/devices
  broker,   \* the broker's registry in memory
  file,     \* what the registry's file holds, EmptyRegistry without one
  clean     \* ghost: requests since whose read nothing they push was touched

vars == <<row, leased, history, granted, now, req, patch, put, broker, file, clean>>

Statuses == {"absent", "idle", "leased", "maintenance", "revoked"}
Actions == {"register", "register_disabled", "enable", "maintenance", "revoke"}
Stages == {"new", "checked", "written", "read", "pushing", "ok", "stale",
           "unavailable", "refused"}

EmptyRegistry == [revision |-> 0, pushed |-> {}, reconciled |-> FALSE]

\* (mutant: the action is written as if it were the status)
StatusIsAction(action) == IF action = "register" THEN "idle" ELSE action

\* deviceStatusForAction, and registrationRow for the two registrations
StatusAfter(action) ==
  CASE action \in {"register", "enable"}                -> "idle"
    [] action \in {"register_disabled", "maintenance"}  -> "maintenance"
    [] action = "revoke"                                -> "revoked"

\* desiredRigDevices
Eligible == {d \in Devices : row[d].status \in {"idle", "leased"}}

\* DeviceRegistry.isUsable and the whitelist of LeaseStore: an empty set counts
\* as never pushed, and leaves the ceiling alone.
Usable == IF broker.pushed = {} THEN Ceiling ELSE broker.pushed \cap Ceiling

Later(a, b) == IF a >= b THEN a ELSE b

\* t is the newest updated_at of the devices D, 0 when there are none
IsNewest(t, D) ==
  /\ \A d \in D : row[d].at <= t
  /\ IF D = {} THEN t = 0 ELSE \E d \in D : row[d].at = t

\* nextRigRevision (mutant: not strictly above the broker's revision)
NextRigRevisionNotAbove(current, newest) == Later(current, newest)

NextRigRevision(current, newest) == Later(current + 1, newest)

(***************************************************************************)
(* The table.                                                               *)
(***************************************************************************)
Write(d, status) == row' = [row EXCEPT ![d] = [status |-> status, at |-> now]]

\* Pushes that are under way or over no longer push what the table holds.
Disturb == clean' = {}

Go(q, stage) == req' = [req EXCEPT ![q].stage = stage]

Init ==
  /\ row = [d \in Devices |-> [status |-> "absent", at |-> 0]]
  /\ leased = {} /\ history = {} /\ granted = {}
  /\ now = 1
  /\ req = [q \in Requests |->
              [stage |-> "new", want |-> {}, newest |-> 0, revision |-> 0]]
  /\ patch = {}
  /\ put = [q \in Requests |-> "none"]
  /\ broker = EmptyRegistry /\ file = EmptyRegistry
  /\ clean = {}

Tick ==
  /\ now < MaxClock
  /\ now' = now + 1
  /\ UNCHANGED <<row, leased, history, granted, req, patch, put, broker, file, clean>>

\* POST /devices: the upsert resets the status, also of a device that is lent.
Register(q, d, action) ==
  /\ req[q].stage = "new" /\ action \in {"register", "register_disabled"}
  /\ Write(d, StatusAfter(action))
  /\ Disturb /\ Go(q, "written")
  /\ UNCHANGED <<leased, history, granted, now, patch, put, broker, file>>

\* PATCH /devices/:id reads the device and its lease in statements of their own ...
PatchChecks(q, d, action) ==
  /\ req[q].stage = "new" /\ action \in {"enable", "maintenance", "revoke"}
  /\ row[d].status # "absent"
  /\ IF action = "revoke" /\ d \in leased
     THEN Go(q, "refused") /\ UNCHANGED patch
     ELSE Go(q, "checked") /\ patch' = patch \cup {[by |-> q, device |-> d, action |-> action]}
  /\ UNCHANGED <<row, leased, history, granted, now, put, broker, file, clean>>

\* ... and then writes the status by id, which is no row when it was deleted.
PatchWrites(p) ==
  /\ p \in patch
  /\ patch' = patch \ {p}
  /\ \/ /\ row[p.device].status # "absent"
        /\ Write(p.device, StatusAfter(p.action))
        /\ Disturb
     \/ /\ row[p.device].status = "absent"
        /\ UNCHANGED <<row, clean>>
  /\ Go(p.by, "written")
  /\ UNCHANGED <<leased, history, granted, now, put, broker, file>>

\* DELETE /devices/:id, one transaction, refused when a lease names the device
Delete(q, d) ==
  /\ req[q].stage = "new" /\ row[d].status # "absent"
  /\ IF d \in leased \cup history
     THEN Go(q, "refused") /\ UNCHANGED <<row, clean>>
     ELSE Go(q, "written") /\ Disturb /\ row' = [row EXCEPT ![d].status = "absent"]
  /\ UNCHANGED <<leased, history, granted, now, patch, put, broker, file>>

\* (mutant: the device is not set back)
EndLeaseKeepingStatus(d) ==
  /\ d \in leased
  /\ leased' = leased \ {d}
  /\ UNCHANGED <<row, history, granted, now, patch, put, broker, file>>

\* The end of a lease: the row ends and a device that is still 'leased' is idle.
EndLease(d) ==
  /\ d \in leased
  /\ leased' = leased \ {d}
  /\ IF row[d].status = "leased" THEN Write(d, "idle") ELSE UNCHANGED row
  /\ UNCHANGED <<history, granted, now, patch, put, broker, file>>

\* POST /device-leases/:id/release, which pushes as well
ForceRelease(q, d) ==
  /\ req[q].stage = "new"
  /\ EndLease(d) /\ Disturb /\ Go(q, "written")

\* A Job ends or the Reaper finds the lease expired: no push.
LeaseEnds(d) == EndLease(d) /\ Disturb /\ UNCHANGED req

(***************************************************************************)
(* Leases: the broker grants a usable device, later the Scheduler books it. *)
(***************************************************************************)
BrokerGrants(d) ==
  /\ d \in Usable /\ d \notin granted
  /\ granted' = granted \cup {d}
  /\ UNCHANGED <<row, leased, history, now, req, patch, put, broker, file, clean>>

\* acquireDeviceLeaseForJob: the upsert sets 'leased' whatever the status was;
\* device_leases_one_active rejects a second lease and rolls the upsert back.
Book(d) ==
  /\ d \in granted
  /\ granted' = granted \ {d}
  /\ \/ /\ d \notin leased
        /\ leased' = leased \cup {d} /\ history' = history \cup {d}
        /\ Write(d, "leased") /\ Disturb
     \/ UNCHANGED <<row, leased, history, clean>>
  /\ UNCHANGED <<now, req, patch, put, broker, file>>

(***************************************************************************)
(* pushDesiredDevices: read the rows, read the broker's revision, PUT.      *)
(***************************************************************************)
ReadRows(q) ==
  /\ req[q].stage = "written"
  /\ \E t \in 0 .. MaxClock :
       /\ IsNewest(t, Eligible)
       /\ req' = [req EXCEPT ![q].stage = "read", ![q].want = Eligible, ![q].newest = t]
  /\ clean' = IF \E p \in Requests : put[p] = "flying" THEN clean ELSE clean \cup {q}
  /\ UNCHANGED <<row, leased, history, granted, now, patch, put, broker, file>>

\* readRigAdmission and the send of the PUT
ReadRevision(q) ==
  /\ req[q].stage = "read"
  /\ req' = [req EXCEPT ![q].stage = "pushing",
                        ![q].revision = NextRigRevision(broker.revision, req[q].newest)]
  /\ put' = [put EXCEPT ![q] = "flying"]
  /\ clean' = clean \cap {q}
  /\ UNCHANGED <<row, leased, history, granted, now, patch, broker, file>>

Unreachable(q) ==
  /\ req[q].stage = "read"
  /\ Go(q, "unavailable")
  /\ UNCHANGED <<row, leased, history, granted, now, patch, put, broker, file, clean>>

\* DeviceRegistry.apply; writing the file is best effort.
PutArrives(q) ==
  /\ put[q] = "flying"
  /\ \/ /\ req[q].revision < broker.revision
        /\ put' = [put EXCEPT ![q] = "regressed"]
        /\ UNCHANGED <<broker, file>>
     \/ /\ req[q].revision = broker.revision /\ broker.reconciled
        /\ put' = [put EXCEPT ![q] = "replayed"]
        /\ UNCHANGED <<broker, file>>
     \/ /\ \/ req[q].revision > broker.revision
           \/ req[q].revision = broker.revision /\ ~broker.reconciled
        /\ put' = [put EXCEPT ![q] = "applied"]
        /\ broker' = [revision |-> req[q].revision, pushed |-> req[q].want, reconciled |-> TRUE]
        /\ file' \in {file, broker'}
  /\ UNCHANGED <<row, leased, history, granted, now, req, patch, clean>>

PutLost(q) ==
  /\ put[q] = "flying"
  /\ put' = [put EXCEPT ![q] = "lost"]
  /\ UNCHANGED <<row, leased, history, granted, now, req, patch, broker, file, clean>>

\* The answer, or the timeout: a PUT that timed out may still arrive.
Answered(q) ==
  /\ req[q].stage = "pushing"
  /\ Go(q, CASE put[q] \in {"applied", "replayed"} -> "ok"
             [] put[q] = "regressed"               -> "stale"
             [] OTHER                              -> "unavailable")
  /\ UNCHANGED <<row, leased, history, granted, now, patch, put, broker, file, clean>>

AnswerLost(q) ==
  /\ req[q].stage = "pushing" /\ put[q] \in {"applied", "replayed", "regressed"}
  /\ Go(q, "unavailable")
  /\ UNCHANGED <<row, leased, history, granted, now, patch, put, broker, file, clean>>

\* The broker restarts and loads its file, which may be gone or unreadable.
BrokerRestarts ==
  /\ broker' \in {EmptyRegistry, file} /\ file' = broker'
  /\ put' = [q \in Requests |-> IF put[q] = "flying" THEN "lost" ELSE put[q]]
  /\ Disturb
  /\ UNCHANGED <<row, leased, history, granted, now, req, patch>>

Next ==
  \/ Tick
  \/ BrokerRestarts
  \/ \E p \in patch : PatchWrites(p)
  \/ \E d \in Devices : LeaseEnds(d) \/ BrokerGrants(d) \/ Book(d)
  \/ \E q \in Requests :
       \/ \E d \in Devices :
            \/ Delete(q, d) \/ ForceRelease(q, d)
            \/ \E action \in Actions : Register(q, d, action) \/ PatchChecks(q, d, action)
       \/ ReadRows(q) \/ ReadRevision(q) \/ Unreachable(q)
       \/ PutArrives(q) \/ PutLost(q) \/ Answered(q) \/ AnswerLost(q)

Spec == Init /\ [][Next]_vars

(***************************************************************************)
(* Properties.                                                              *)
(***************************************************************************)
Registry == [revision : Nat, pushed : SUBSET Devices, reconciled : BOOLEAN]

\* The variables hold rows, requests and registries of the expected shape.
TypeOK ==
  /\ row \in [Devices -> [status : Statuses, at : 0 .. MaxClock]]
  /\ leased \subseteq Devices /\ history \subseteq Devices /\ granted \subseteq Devices
  /\ now \in 1 .. MaxClock
  /\ req \in [Requests -> [stage : Stages, want : SUBSET Devices, newest : Nat,
                           revision : Nat]]
  /\ patch \subseteq [by : Requests, device : Devices, action : Actions]
  /\ put \in [Requests -> {"none", "flying", "applied", "replayed", "regressed", "lost"}]
  /\ broker \in Registry /\ file \in Registry
  /\ clean \subseteq Requests

\* The devices table and the leases agree whatever managers, Jobs and the
\* Reaper write: a device shown as leased has an unended lease, and a device
\* with a lease or a lease history is never deleted (routes.ts DELETE,
\* application.ts release and acquire).
TableAgreesWithLeases ==
  \A d \in Devices :
    /\ row[d].status = "leased" => d \in leased
    /\ row[d].status = "absent" => d \notin leased \cup history

\* A push answered ok is in force: unless the table, the broker or another push
\* moved since its rows were read, the broker lends exactly the eligible devices
\* under its ceiling, however often it was pushed, restarted or timed out before
\* (rig-registry.ts: the revision is strictly above the broker's, so that the
\* set is not taken for a replay).  The push of no device at all is in force the
\* other way round, against what rig-registry.ts pushes it for: the registry
\* takes it for none, and the broker lends the whole ceiling (registry.ts).
QuietPushIsInForce ==
  \A q \in Requests :
    req[q].stage = "ok" /\ q \in clean =>
      Usable = IF Eligible = {} THEN Ceiling ELSE Eligible \cap Ceiling
=============================================================================
