------------------------- MODULE RigAdmission_proofs -------------------------
(***************************************************************************)
(* Types, the agreement of devices and leases, and the exactness of a quiet *)
(* push, for any devices, requests, ceiling and clock.                      *)
(***************************************************************************)
EXTENDS RigAdmission, TLAPS

Rows == [status : Statuses, at : 0 .. MaxClock]
Asked == [stage : Stages, want : SUBSET Devices, newest : Nat, revision : Nat]
Patches == [by : Requests, device : Devices, action : Actions]
Puts == {"none", "flying", "applied", "replayed", "regressed", "lost"}

LEMMA Types == TypeOK <=> /\ row \in [Devices -> Rows]
                          /\ leased \subseteq Devices
                          /\ history \subseteq Devices
                          /\ granted \subseteq Devices
                          /\ now \in 1 .. MaxClock
                          /\ req \in [Requests -> Asked]
                          /\ patch \subseteq Patches
                          /\ put \in [Requests -> Puts]
                          /\ broker \in Registry
                          /\ file \in Registry
                          /\ clean \subseteq Requests
  BY DEF TypeOK, Rows, Asked, Patches, Puts

LEMMA TypesNext == TypeOK' <=> /\ row' \in [Devices -> Rows]
                               /\ leased' \subseteq Devices
                               /\ history' \subseteq Devices
                               /\ granted' \subseteq Devices
                               /\ now' \in 1 .. MaxClock
                               /\ req' \in [Requests -> Asked]
                               /\ patch' \subseteq Patches
                               /\ put' \in [Requests -> Puts]
                               /\ broker' \in Registry
                               /\ file' \in Registry
                               /\ clean' \subseteq Requests
  BY DEF TypeOK, Rows, Asked, Patches, Puts

LEMMA StatusType ==
  ASSUME NEW action \in Actions
  PROVE  StatusAfter(action) \in Statuses /\ StatusAfter(action) \notin {"leased", "absent"}
  BY DEF Actions, Statuses, StatusAfter

LEMMA WriteType ==
  ASSUME TypeOK, NEW d \in Devices, NEW status \in Statuses, Write(d, status)
  PROVE  row' \in [Devices -> Rows]
<1>1. row \in [Devices -> Rows] /\ now \in 0 .. MaxClock
  BY Types, RigAssumption DEF RigAssumption
<1>2. [status |-> status, at |-> now] \in Rows
  BY <1>1 DEF Rows
<1> QED
  BY <1>1, <1>2 DEF Write

LEMMA GoType ==
  ASSUME TypeOK, NEW q \in Requests, NEW stage \in Stages, Go(q, stage)
  PROVE  /\ req' \in [Requests -> Asked]
         /\ \A p \in Requests :
              /\ req'[p].stage = IF p = q THEN stage ELSE req[p].stage
              /\ req'[p].want = req[p].want
              /\ req'[p].revision = req[p].revision
<1>1. req \in [Requests -> Asked]
  BY Types
<1>2. [req[q] EXCEPT !.stage = stage] \in Asked
  BY <1>1 DEF Asked
<1> QED
  BY <1>1, <1>2 DEF Go, Asked

LEMMA RevisionType ==
  ASSUME NEW current \in Nat, NEW newest \in Nat
  PROVE  NextRigRevision(current, newest) \in Nat /\ NextRigRevision(current, newest) > current
  BY DEF NextRigRevision, Later

LEMMA EmptyType == EmptyRegistry \in Registry
  BY DEF EmptyRegistry, Registry

-----------------------------------------------------------------------------
LEMMA InitType == Init => TypeOK
<1> SUFFICES ASSUME Init PROVE TypeOK
  OBVIOUS
<1>1. row \in [Devices -> Rows] /\ now \in 1 .. MaxClock
  BY RigAssumption DEF RigAssumption, Init, Rows, Statuses
<1>2. req \in [Requests -> Asked]
  BY DEF Init, Asked, Stages
<1>3. put \in [Requests -> Puts] /\ broker \in Registry /\ file \in Registry
  BY EmptyType DEF Init, Puts
<1> QED
  BY <1>1, <1>2, <1>3, Types DEF Init

LEMMA EndLeaseType ==
  ASSUME TypeOK, NEW d \in Devices, EndLease(d)
  PROVE  row' \in [Devices -> Rows]
<1>1. CASE row[d].status = "leased"
  BY <1>1, WriteType DEF EndLease, Statuses
<1>2. CASE row[d].status # "leased"
  BY <1>2, Types DEF EndLease
<1> QED
  BY <1>1, <1>2

\* Every step keeps the types: one case per action.
LEMMA TypeStep ==
  ASSUME TypeOK, [Next]_vars
  PROVE  TypeOK'
<1> USE Types, TypesNext
<1>1. CASE Tick
  <2>1. now' \in 1 .. MaxClock
    BY <1>1, RigAssumption DEF Tick, RigAssumption
  <2> QED
    BY <1>1, <2>1 DEF Tick
<1>2. CASE BrokerRestarts
  <2>1. put' \in [Requests -> Puts]
    BY <1>2 DEF BrokerRestarts, Puts
  <2>2. broker' \in Registry /\ file' \in Registry
    BY <1>2, EmptyType DEF BrokerRestarts
  <2> QED
    BY <1>2, <2>1, <2>2 DEF BrokerRestarts, Disturb
<1>3. ASSUME NEW p \in patch, PatchWrites(p) PROVE TypeOK'
  <2>1. p \in Patches /\ p.by \in Requests /\ p.device \in Devices /\ p.action \in Actions
    BY <1>3 DEF Patches
  <2>2. req' \in [Requests -> Asked]
    BY <1>3, <2>1, GoType DEF PatchWrites, Stages
  <2>3. row' \in [Devices -> Rows] /\ clean' \subseteq Requests
    BY <1>3, <2>1, StatusType, WriteType DEF PatchWrites, Disturb
  <2> QED
    BY <1>3, <2>2, <2>3 DEF PatchWrites
<1>4. ASSUME NEW d \in Devices, LeaseEnds(d) PROVE TypeOK'
  BY <1>4, EndLeaseType DEF LeaseEnds, EndLease, Disturb
<1>5. ASSUME NEW d \in Devices, BrokerGrants(d) PROVE TypeOK'
  BY <1>5 DEF BrokerGrants
<1>6. ASSUME NEW d \in Devices, Book(d) PROVE TypeOK'
  <2>1. row' \in [Devices -> Rows] /\ clean' \subseteq Requests
    BY <1>6, WriteType DEF Book, Disturb, Statuses
  <2>2. leased' \subseteq Devices /\ history' \subseteq Devices
    BY <1>6 DEF Book
  <2> QED
    BY <1>6, <2>1, <2>2 DEF Book
<1>7. ASSUME NEW q \in Requests, NEW d \in Devices, Delete(q, d) PROVE TypeOK'
  <2>1. req' \in [Requests -> Asked]
    BY <1>7, GoType DEF Delete, Stages
  <2>2. row' \in [Devices -> Rows]
    BY <1>7 DEF Delete, Rows, Statuses
  <2> QED
    BY <1>7, <2>1, <2>2 DEF Delete, Disturb
<1>8. ASSUME NEW q \in Requests, NEW d \in Devices, ForceRelease(q, d) PROVE TypeOK'
  <2>1. req' \in [Requests -> Asked]
    BY <1>8, GoType DEF ForceRelease, Stages
  <2> QED
    BY <1>8, <2>1, EndLeaseType DEF ForceRelease, EndLease, Disturb
<1>9. ASSUME NEW q \in Requests, NEW d \in Devices, NEW action \in Actions,
             Register(q, d, action)
      PROVE TypeOK'
  <2>1. req' \in [Requests -> Asked]
    BY <1>9, GoType DEF Register, Stages
  <2>2. row' \in [Devices -> Rows]
    BY <1>9, StatusType, WriteType DEF Register
  <2> QED
    BY <1>9, <2>1, <2>2 DEF Register, Disturb
<1>10. ASSUME NEW q \in Requests, NEW d \in Devices, NEW action \in Actions,
              PatchChecks(q, d, action)
       PROVE TypeOK'
  <2>1. req' \in [Requests -> Asked]
    BY <1>10, GoType DEF PatchChecks, Stages
  <2>2. patch' \subseteq Patches
    BY <1>10 DEF PatchChecks, Patches
  <2> QED
    BY <1>10, <2>1, <2>2 DEF PatchChecks
<1>11. ASSUME NEW q \in Requests, ReadRows(q) PROVE TypeOK'
  <2>1. PICK t \in 0 .. MaxClock :
          req' = [req EXCEPT ![q].stage = "read", ![q].want = Eligible, ![q].newest = t]
    BY <1>11 DEF ReadRows
  <2>3. t \in Nat /\ Eligible \in SUBSET Devices /\ "read" \in Stages
    BY RigAssumption DEF RigAssumption, Eligible, Stages
  <2>4. req' \in [Requests -> Asked]
    BY <2>1, <2>3, ZenonT(40) DEF Asked
  <2>2. clean' \subseteq Requests
    BY <1>11 DEF ReadRows
  <2> QED
    BY <1>11, <2>4, <2>2 DEF ReadRows
<1>12. ASSUME NEW q \in Requests, ReadRevision(q) PROVE TypeOK'
  <2>1. broker.revision \in Nat /\ req[q].newest \in Nat
    BY DEF Registry, Asked
  <2>2. NextRigRevision(broker.revision, req[q].newest) \in Nat
    BY <2>1, RevisionType
  <2>3. req' \in [Requests -> Asked]
    BY <1>12, <2>2, ZenonT(40) DEF ReadRevision, Asked, Stages
  <2>4. put' \in [Requests -> Puts] /\ clean' \subseteq Requests
    BY <1>12 DEF ReadRevision, Puts
  <2> QED
    BY <1>12, <2>3, <2>4 DEF ReadRevision
<1>13. ASSUME NEW q \in Requests, Unreachable(q) PROVE TypeOK'
  BY <1>13, GoType DEF Unreachable, Stages
<1>14. ASSUME NEW q \in Requests, PutArrives(q) PROVE TypeOK'
  <2>1. put' \in [Requests -> Puts]
    BY <1>14 DEF PutArrives, Puts
  <2>2. req[q].revision \in Nat /\ req[q].want \in SUBSET Devices
    BY DEF Asked
  <2>4. [revision |-> req[q].revision, pushed |-> req[q].want, reconciled |-> TRUE] \in Registry
    BY <2>2 DEF Registry
  <2>3. broker' \in Registry /\ file' \in Registry
    BY <1>14, <2>4 DEF PutArrives
  <2> QED
    BY <1>14, <2>1, <2>3 DEF PutArrives
<1>15. ASSUME NEW q \in Requests, PutLost(q) PROVE TypeOK'
  BY <1>15 DEF PutLost, Puts
<1>16. ASSUME NEW q \in Requests, Answered(q) PROVE TypeOK'
  <2>1. req' \in [Requests -> Asked]
    BY <1>16, GoType DEF Answered, Stages
  <2> QED
    BY <1>16, <2>1 DEF Answered
<1>17. ASSUME NEW q \in Requests, AnswerLost(q) PROVE TypeOK'
  BY <1>17, GoType DEF AnswerLost, Stages
<1>18. CASE UNCHANGED vars
  BY <1>18 DEF vars
<1> QED
  BY <1>1, <1>2, <1>3, <1>4, <1>5, <1>6, <1>7, <1>8, <1>9, <1>10, <1>11, <1>12, <1>13,
     <1>14, <1>15, <1>16, <1>17, <1>18 DEF Next

-----------------------------------------------------------------------------
(***************************************************************************)
(* Devices and leases.  Only Delete makes a row absent, only Book makes it   *)
(* leased, and a lease ends with its device set back.                       *)
(***************************************************************************)
LEMMA WriteRow ==
  ASSUME TypeOK, NEW d \in Devices, NEW status, Write(d, status)
  PROVE  \A e \in Devices : row'[e].status = IF e = d THEN status ELSE row[e].status
  BY Types DEF Write

LEMMA TableStep ==
  ASSUME TypeOK, TableAgreesWithLeases, [Next]_vars
  PROVE  TableAgreesWithLeases'
<1> USE DEF TableAgreesWithLeases
<1>1. CASE Tick
  BY <1>1 DEF Tick
<1>2. CASE BrokerRestarts
  BY <1>2 DEF BrokerRestarts
<1>3. ASSUME NEW p \in patch, PatchWrites(p) PROVE TableAgreesWithLeases'
  <2>1. p.device \in Devices /\ p.action \in Actions
    BY Types DEF Patches
  <2>2. CASE row[p.device].status = "absent"
    BY <1>3, <2>2 DEF PatchWrites
  <2>3. CASE row[p.device].status # "absent"
    <3>1. Write(p.device, StatusAfter(p.action)) /\ leased' = leased /\ history' = history
      BY <1>3, <2>3 DEF PatchWrites
    <3> QED
      BY <2>1, <2>3, <3>1, WriteRow, StatusType
  <2> QED
    BY <2>2, <2>3
<1>4. ASSUME NEW d \in Devices, EndLease(d) PROVE TableAgreesWithLeases'
  <2>1. CASE row[d].status = "leased"
    <3>1. Write(d, "idle") /\ leased' = leased \ {d} /\ history' = history
      BY <1>4, <2>1 DEF EndLease
    <3>2. \A e \in Devices : row'[e].status = IF e = d THEN "idle" ELSE row[e].status
      BY <3>1, WriteRow
    <3> QED
      BY <3>1, <3>2
  <2>2. CASE row[d].status # "leased"
    BY <1>4, <2>2 DEF EndLease
  <2> QED
    BY <2>1, <2>2
<1>5. ASSUME NEW d \in Devices, BrokerGrants(d) PROVE TableAgreesWithLeases'
  BY <1>5 DEF BrokerGrants
<1>6. ASSUME NEW d \in Devices, Book(d) PROVE TableAgreesWithLeases'
  <2>1. CASE UNCHANGED <<row, leased, history, clean>>
    BY <2>1
  <2>2. CASE leased' = leased \cup {d} /\ history' = history \cup {d} /\ Write(d, "leased")
    <3>1. \A e \in Devices : row'[e].status = IF e = d THEN "leased" ELSE row[e].status
      BY <2>2, WriteRow
    <3> QED
      BY <2>2, <3>1
  <2> QED
    BY <1>6, <2>1, <2>2 DEF Book
<1>7. ASSUME NEW q \in Requests, NEW d \in Devices, Delete(q, d)
      PROVE TableAgreesWithLeases'
  <2>1. CASE d \in leased \cup history
    BY <1>7, <2>1 DEF Delete
  <2>2. CASE d \notin leased \cup history
    <3>1. row' = [row EXCEPT ![d].status = "absent"] /\ leased' = leased /\ history' = history
      BY <1>7, <2>2 DEF Delete
    <3>2. \A e \in Devices : row'[e].status = IF e = d THEN "absent" ELSE row[e].status
      BY <3>1, Types DEF Rows
    <3> QED
      BY <2>2, <3>1, <3>2
  <2> QED
    BY <2>1, <2>2
<1>8. ASSUME NEW q \in Requests, NEW d \in Devices, NEW action \in Actions,
             Register(q, d, action)
      PROVE TableAgreesWithLeases'
  <2>1. Write(d, StatusAfter(action)) /\ leased' = leased /\ history' = history
    BY <1>8 DEF Register
  <2> QED
    BY <2>1, WriteRow, StatusType
<1>9. ASSUME UNCHANGED <<row, leased, history>> PROVE TableAgreesWithLeases'
  BY <1>9
<1>10. ASSUME NEW q \in Requests,
              \/ \E d \in Devices, action \in Actions : PatchChecks(q, d, action)
              \/ ReadRows(q) \/ ReadRevision(q) \/ Unreachable(q)
              \/ PutArrives(q) \/ PutLost(q) \/ Answered(q) \/ AnswerLost(q)
       PROVE UNCHANGED <<row, leased, history>>
  BY <1>10 DEF PatchChecks, ReadRows, ReadRevision, Unreachable, PutArrives, PutLost,
     Answered, AnswerLost
<1>11. CASE UNCHANGED vars
  BY <1>11, <1>9 DEF vars
<1>12. ASSUME NEW d \in Devices, LeaseEnds(d) \/ \E q \in Requests : ForceRelease(q, d)
       PROVE TableAgreesWithLeases'
  BY <1>12, <1>4 DEF LeaseEnds, ForceRelease
<1> QED
  BY <1>1, <1>2, <1>3, <1>5, <1>6, <1>7, <1>8, <1>9, <1>10, <1>11, <1>12 DEF Next

-----------------------------------------------------------------------------
(***************************************************************************)
(* A quiet push.  From the moment its rows are read a clean request wants    *)
(* the eligible devices and is the only one with a PUT on its way, which     *)
(* therefore finds the revision it was computed from.                       *)
(***************************************************************************)
Started == {"read", "pushing", "ok", "stale", "unavailable"}
Unsent == {"new", "checked", "written", "read", "refused"}

RequestsInOrder ==
  /\ \A q \in Requests :
       /\ req[q].stage \in Unsent => put[q] = "none"
       /\ req[q].stage = "ok" => put[q] \in {"applied", "replayed"}
  /\ \A p \in patch : req[p.by].stage = "checked"
  /\ \A p, r \in patch : p.by = r.by => p = r

CleanIsQuiet ==
  \A q \in clean :
    /\ req[q].stage \in Started
    /\ req[q].want = Eligible
    /\ \A p \in Requests : p # q => put[p] # "flying"
    /\ put[q] \notin {"replayed", "regressed"}
    /\ put[q] = "flying" => req[q].revision > broker.revision
    /\ put[q] = "applied" => broker.pushed = Eligible

PushInv == TypeOK /\ RequestsInOrder /\ CleanIsQuiet

LEMMA InitPush == Init => PushInv
<1> SUFFICES ASSUME Init PROVE RequestsInOrder /\ CleanIsQuiet
  BY InitType DEF PushInv
<1> QED
  BY DEF Init, RequestsInOrder, CleanIsQuiet, Unsent

\* What a step of one request does to the order of requests: the stage of q
\* changes, and nothing else that CleanIsQuiet looks at.
LEMMA StageKeepsOrder ==
  ASSUME PushInv, NEW q \in Requests, NEW stage \in Stages, Go(q, stage),
         UNCHANGED <<patch, put>>,
         \A p \in patch : p.by # q,
         stage \in Unsent => put[q] = "none",
         stage = "ok" => put[q] \in {"applied", "replayed"}
  PROVE  RequestsInOrder'
<1>1. \A p \in Requests : req'[p].stage = IF p = q THEN stage ELSE req[p].stage
  BY GoType DEF PushInv
<1>2. patch \subseteq Patches
  BY Types DEF PushInv
<1>3. \A p \in patch : p.by \in Requests
  BY <1>2 DEF Patches
<1> QED
  BY <1>1, <1>3 DEF PushInv, RequestsInOrder

LEMMA StageKeepsQuiet ==
  ASSUME PushInv, NEW q \in Requests, NEW stage \in Stages, Go(q, stage),
         UNCHANGED <<row, put, broker, clean>>,
         q \in clean => stage \in Started
  PROVE  CleanIsQuiet'
<1>1. \A p \in Requests : /\ req'[p].stage = IF p = q THEN stage ELSE req[p].stage
                          /\ req'[p].want = req[p].want
                          /\ req'[p].revision = req[p].revision
  BY GoType DEF PushInv
<1>2. clean \subseteq Requests
  BY Types DEF PushInv
<1> QED
  BY <1>1, <1>2 DEF PushInv, CleanIsQuiet, Eligible

LEMMA DisturbedIsQuiet == Disturb => CleanIsQuiet'
  BY DEF Disturb, CleanIsQuiet

\* Requests of a PATCH that is between its check and its write are checked,
\* and unsent.
LEMMA PatchIsChecked ==
  ASSUME PushInv, NEW p \in patch
  PROVE  p.by \in Requests /\ req[p.by].stage = "checked" /\ put[p.by] = "none"
<1>1. patch \subseteq Patches
  BY Types DEF PushInv
<1> QED
  BY <1>1 DEF Patches, PushInv, RequestsInOrder, Unsent

\* The requests leave the stage new, with or without a PATCH to write.
LEMMA NewRequest ==
  ASSUME PushInv, NEW q \in Requests, req[q].stage = "new"
  PROVE  put[q] = "none" /\ q \notin clean /\ \A p \in patch : p.by # q
<1>1. put[q] = "none" /\ q \notin clean
  BY DEF PushInv, RequestsInOrder, CleanIsQuiet, Unsent, Started
<1> QED
  BY <1>1, PatchIsChecked

\* Steps that leave requests, PUTs and PATCHes alone.
LEMMA AloneKeepsOrder ==
  ASSUME PushInv, UNCHANGED <<req, patch, put>>
  PROVE  RequestsInOrder'
  BY DEF PushInv, RequestsInOrder

LEMMA AloneKeepsQuiet ==
  ASSUME PushInv, UNCHANGED <<row, req, put, broker, clean>>
  PROVE  CleanIsQuiet'
  BY DEF PushInv, CleanIsQuiet, Eligible

LEMMA WriteSteps ==
  ASSUME PushInv, NEW q \in Requests, NEW d \in Devices
  PROVE  /\ Delete(q, d) => RequestsInOrder' /\ CleanIsQuiet'
         /\ ForceRelease(q, d) => RequestsInOrder' /\ CleanIsQuiet'
         /\ \A action \in Actions :
              Register(q, d, action) => RequestsInOrder' /\ CleanIsQuiet'
<1>1. ASSUME Delete(q, d) PROVE RequestsInOrder' /\ CleanIsQuiet'
  <2>1. put[q] = "none" /\ q \notin clean /\ \A p \in patch : p.by # q
    BY <1>1, NewRequest DEF Delete
  <2>2. CASE d \in leased \cup history
    <3>1. Go(q, "refused") /\ UNCHANGED <<row, clean, patch, put, broker>>
      BY <1>1, <2>2 DEF Delete
    <3> QED
      BY <2>1, <3>1, StageKeepsOrder, StageKeepsQuiet DEF Stages
  <2>3. CASE d \notin leased \cup history
    <3>1. Go(q, "written") /\ Disturb /\ UNCHANGED <<patch, put>>
      BY <1>1, <2>3 DEF Delete
    <3> QED
      BY <2>1, <3>1, StageKeepsOrder, DisturbedIsQuiet DEF Stages
  <2> QED
    BY <2>2, <2>3
<1>2. ASSUME ForceRelease(q, d) PROVE RequestsInOrder' /\ CleanIsQuiet'
  <2>1. put[q] = "none" /\ \A p \in patch : p.by # q
    BY <1>2, NewRequest DEF ForceRelease
  <2>2. Go(q, "written") /\ Disturb /\ UNCHANGED <<patch, put>>
    BY <1>2 DEF ForceRelease, EndLease
  <2> QED
    BY <2>1, <2>2, StageKeepsOrder, DisturbedIsQuiet DEF Stages
<1>3. ASSUME NEW action \in Actions, Register(q, d, action)
      PROVE RequestsInOrder' /\ CleanIsQuiet'
  <2>1. put[q] = "none" /\ \A p \in patch : p.by # q
    BY <1>3, NewRequest DEF Register
  <2>2. Go(q, "written") /\ Disturb /\ UNCHANGED <<patch, put>>
    BY <1>3 DEF Register
  <2> QED
    BY <2>1, <2>2, StageKeepsOrder, DisturbedIsQuiet DEF Stages
<1> QED
  BY <1>1, <1>2, <1>3

LEMMA PatchCheckStep ==
  ASSUME PushInv, NEW q \in Requests, NEW d \in Devices, NEW action \in Actions,
         PatchChecks(q, d, action)
  PROVE  RequestsInOrder' /\ CleanIsQuiet'
<1>1. put[q] = "none" /\ q \notin clean /\ \A p \in patch : p.by # q
  BY NewRequest DEF PatchChecks
<1>2. CASE action = "revoke" /\ d \in leased
  <2>1. Go(q, "refused") /\ UNCHANGED <<row, clean, patch, put, broker>>
    BY <1>2 DEF PatchChecks
  <2> QED
    BY <1>1, <2>1, StageKeepsOrder, StageKeepsQuiet DEF Stages
<1>3. CASE ~(action = "revoke" /\ d \in leased)
  <2> DEFINE new == [by |-> q, device |-> d, action |-> action]
  <2>1. Go(q, "checked") /\ patch' = patch \cup {new} /\ UNCHANGED <<row, clean, put, broker>>
    BY <1>3 DEF PatchChecks
  <2>2. \A p \in Requests : req'[p].stage = IF p = q THEN "checked" ELSE req[p].stage
    BY <2>1, GoType DEF PushInv, Stages
  <2>3. \A p \in patch' : p.by = q => p = new
    BY <1>1, <2>1
  <2>4. \A p \in patch' : req'[p.by].stage = "checked"
    BY <2>1, <2>2, PatchIsChecked
  <2>5. \A p, r \in patch' : p.by = r.by => p = r
    <3> SUFFICES ASSUME NEW p \in patch', NEW r \in patch', p.by = r.by PROVE p = r
      OBVIOUS
    <3>1. CASE p.by = q
      BY <3>1, <2>3
    <3>2. CASE p.by # q
      BY <3>2, <2>1 DEF PushInv, RequestsInOrder
    <3> QED
      BY <3>1, <3>2
  <2>6. RequestsInOrder'
    BY <1>1, <2>1, <2>2, <2>4, <2>5 DEF PushInv, RequestsInOrder
  <2> QED
    BY <1>1, <2>1, <2>6, StageKeepsQuiet DEF Stages
<1> QED
  BY <1>2, <1>3

LEMMA PatchWriteStep ==
  ASSUME PushInv, NEW p \in patch, PatchWrites(p)
  PROVE  RequestsInOrder' /\ CleanIsQuiet'
<1>1. p.by \in Requests /\ req[p.by].stage = "checked" /\ put[p.by] = "none"
  BY PatchIsChecked
<1>2. Go(p.by, "written") /\ patch' = patch \ {p} /\ UNCHANGED <<put, broker>>
  BY DEF PatchWrites
<1>3. \A r \in patch' : r \in patch /\ r.by # p.by /\ r.by \in Requests
  BY <1>2, PatchIsChecked DEF PushInv, RequestsInOrder
<1>4. \A r \in Requests : req'[r].stage = IF r = p.by THEN "written" ELSE req[r].stage
  BY <1>1, <1>2, GoType DEF PushInv, Stages
<1>5. RequestsInOrder'
  BY <1>1, <1>2, <1>3, <1>4 DEF PushInv, RequestsInOrder
<1>6. CASE Disturb
  BY <1>5, <1>6, DisturbedIsQuiet
<1>7. CASE UNCHANGED <<row, clean>>
  <2>1. p.by \notin clean
    BY <1>1 DEF PushInv, CleanIsQuiet, Started
  <2> QED
    BY <1>1, <1>2, <1>5, <1>7, <2>1, StageKeepsQuiet DEF Stages
<1> QED
  BY <1>6, <1>7 DEF PatchWrites

LEMMA ReadRowsStep ==
  ASSUME PushInv, NEW q \in Requests, ReadRows(q)
  PROVE  RequestsInOrder' /\ CleanIsQuiet'
<1>0. req \in [Requests -> Asked] /\ clean \subseteq Requests
  BY Types DEF PushInv
<1>1. PICK t \in 0 .. MaxClock :
        req' = [req EXCEPT ![q].stage = "read", ![q].want = Eligible, ![q].newest = t]
  BY DEF ReadRows
<1>2. \A p \in Requests : /\ req'[p].stage = IF p = q THEN "read" ELSE req[p].stage
                          /\ req'[p].want = IF p = q THEN Eligible ELSE req[p].want
                          /\ req'[p].revision = req[p].revision
  BY <1>0, <1>1 DEF Asked
<1>3. UNCHANGED <<row, patch, put, broker>> /\ req[q].stage = "written" /\ put[q] = "none"
  BY DEF ReadRows, PushInv, RequestsInOrder, Unsent
<1>4. \A p \in patch : p.by # q /\ p.by \in Requests
  BY <1>3, PatchIsChecked
<1>5. RequestsInOrder'
  BY <1>2, <1>3, <1>4 DEF PushInv, RequestsInOrder
<1>6. q \notin clean
  BY <1>3 DEF PushInv, CleanIsQuiet, Started
<1>7. Eligible' = Eligible
  BY <1>3 DEF Eligible
<1>8. \A p \in clean : /\ req'[p].stage \in Started /\ req'[p].want = Eligible'
                       /\ \A r \in Requests : r # p => put'[r] # "flying"
                       /\ put'[p] \notin {"replayed", "regressed"}
                       /\ put'[p] = "flying" => req'[p].revision > broker'.revision
                       /\ put'[p] = "applied" => broker'.pushed = Eligible'
  BY <1>0, <1>2, <1>3, <1>6, <1>7 DEF PushInv, CleanIsQuiet
<1>9. CASE \E p \in Requests : put[p] = "flying"
  <2>1. clean' = clean
    BY <1>9 DEF ReadRows
  <2> QED
    BY <1>5, <1>8, <2>1 DEF CleanIsQuiet
<1>10. CASE ~ \E p \in Requests : put[p] = "flying"
  <2>1. clean' = clean \cup {q}
    BY <1>10 DEF ReadRows
  <2> QED
    BY <1>2, <1>3, <1>5, <1>7, <1>8, <1>10, <2>1 DEF CleanIsQuiet, Started
<1> QED
  BY <1>9, <1>10

LEMMA ReadRevisionStep ==
  ASSUME PushInv, NEW q \in Requests, ReadRevision(q)
  PROVE  RequestsInOrder' /\ CleanIsQuiet'
<1> DEFINE revision == NextRigRevision(broker.revision, req[q].newest)
<1>0. /\ req \in [Requests -> Asked] /\ clean \subseteq Requests /\ put \in [Requests -> Puts]
      /\ broker.revision \in Nat
  BY Types DEF PushInv, Registry
<1>1. revision \in Nat /\ revision > broker.revision
  BY <1>0, RevisionType DEF Asked
<1>2. req' = [req EXCEPT ![q].stage = "pushing", ![q].revision = revision]
  BY DEF ReadRevision
<1> HIDE DEF revision
<1>3. \A p \in Requests : /\ req'[p].stage = IF p = q THEN "pushing" ELSE req[p].stage
                          /\ req'[p].want = req[p].want
                          /\ req'[p].revision = IF p = q THEN revision ELSE req[p].revision
  BY <1>0, <1>2 DEF Asked
<1>4. /\ UNCHANGED <<row, patch, broker>> /\ req[q].stage = "read" /\ clean' = clean \cap {q}
      /\ \A p \in Requests : put'[p] = IF p = q THEN "flying" ELSE put[p]
  BY <1>0 DEF ReadRevision
<1>5. \A p \in patch : p.by # q /\ p.by \in Requests
  BY <1>4, PatchIsChecked
<1>6. RequestsInOrder'
  BY <1>3, <1>4, <1>5 DEF PushInv, RequestsInOrder, Unsent
<1>7. CASE q \in clean
  <2>1. /\ req[q].want = Eligible /\ \A p \in Requests : p # q => put[p] # "flying"
    BY <1>7 DEF PushInv, CleanIsQuiet
  <2>2. Eligible' = Eligible
    BY <1>4 DEF Eligible
  <2> QED
    BY <1>1, <1>3, <1>4, <1>6, <2>1, <2>2 DEF CleanIsQuiet, Started
<1>8. CASE q \notin clean
  BY <1>4, <1>6, <1>8 DEF CleanIsQuiet
<1> QED
  BY <1>7, <1>8

\* The PUT of a clean request finds the revision below its own.
LEMMA PutArrivesStep ==
  ASSUME PushInv, NEW q \in Requests, PutArrives(q)
  PROVE  RequestsInOrder' /\ CleanIsQuiet'
<1>0. /\ put \in [Requests -> Puts] /\ clean \subseteq Requests /\ broker \in Registry
      /\ req \in [Requests -> Asked]
  BY Types DEF PushInv
<1>1. UNCHANGED <<row, req, patch, clean>> /\ put[q] = "flying"
  BY DEF PutArrives
<1>2. clean \subseteq {q}
  BY <1>0, <1>1 DEF PushInv, CleanIsQuiet
<1>3. PICK answer \in {"regressed", "replayed", "applied"} : put' = [put EXCEPT ![q] = answer]
  BY DEF PutArrives
<1>4. \A p \in Requests : put'[p] = IF p = q THEN answer ELSE put[p]
  BY <1>0, <1>3
<1>5. \A p \in patch : p.by \in Requests
  BY PatchIsChecked
<1>6. req[q].stage \notin Unsent /\ req[q].stage # "ok"
  BY <1>1 DEF PushInv, RequestsInOrder
<1>7. RequestsInOrder'
  BY <1>1, <1>4, <1>6 DEF PushInv, RequestsInOrder
<1>8. CASE q \in clean
  <2>1. req[q].want = Eligible /\ req[q].revision > broker.revision /\ req[q].stage \in Started
    BY <1>1, <1>8 DEF PushInv, CleanIsQuiet
  <2>2. req[q].revision \in Nat /\ broker.revision \in Nat
    BY <1>0 DEF Asked, Registry
  <2>3. put' = [put EXCEPT ![q] = "applied"] /\ broker'.pushed = req[q].want
    BY <2>1, <2>2 DEF PutArrives
  <2>4. put'[q] = "applied"
    BY <1>0, <2>3
  <2>5. \A p \in Requests : p # q => put'[p] # "flying"
    BY <1>4, <1>8 DEF PushInv, CleanIsQuiet
  <2> QED
    BY <1>1, <1>2, <1>7, <2>1, <2>3, <2>4, <2>5 DEF CleanIsQuiet, Eligible
<1>9. CASE q \notin clean
  BY <1>1, <1>2, <1>7, <1>9 DEF CleanIsQuiet
<1> QED
  BY <1>8, <1>9

LEMMA PutLostStep ==
  ASSUME PushInv, NEW q \in Requests, PutLost(q)
  PROVE  RequestsInOrder' /\ CleanIsQuiet'
<1>0. put \in [Requests -> Puts] /\ clean \subseteq Requests
  BY Types DEF PushInv
<1>1. /\ UNCHANGED <<row, req, patch, clean, broker>> /\ put[q] = "flying"
      /\ \A p \in Requests : put'[p] = IF p = q THEN "lost" ELSE put[p]
  BY <1>0 DEF PutLost
<1>2. req[q].stage \notin Unsent /\ req[q].stage # "ok"
  BY <1>1 DEF PushInv, RequestsInOrder
<1>3. RequestsInOrder'
  BY <1>1, <1>2 DEF PushInv, RequestsInOrder
<1> QED
  BY <1>0, <1>1, <1>3 DEF PushInv, CleanIsQuiet, Eligible

\* Every step keeps the order of requests and the quiet of the clean ones.
LEMMA PushStep ==
  ASSUME PushInv, [Next]_vars
  PROVE  PushInv'
<1>0. TypeOK'
  BY TypeStep DEF PushInv
<1> SUFFICES RequestsInOrder' /\ CleanIsQuiet'
  BY <1>0 DEF PushInv
<1>1. CASE Tick
  BY <1>1, AloneKeepsOrder, AloneKeepsQuiet DEF Tick
<1>2. CASE BrokerRestarts
  <2>1. UNCHANGED <<req, patch>> /\ Disturb
    BY <1>2 DEF BrokerRestarts
  <2>2. \A q \in Requests : put'[q] = IF put[q] = "flying" THEN "lost" ELSE put[q]
    BY <1>2 DEF BrokerRestarts
  <2>3. RequestsInOrder'
    BY <2>1, <2>2 DEF PushInv, RequestsInOrder
  <2> QED
    BY <2>1, <2>3, DisturbedIsQuiet
<1>3. ASSUME NEW p \in patch, PatchWrites(p) PROVE RequestsInOrder' /\ CleanIsQuiet'
  BY <1>3, PatchWriteStep
<1>4. ASSUME NEW d \in Devices, LeaseEnds(d) PROVE RequestsInOrder' /\ CleanIsQuiet'
  BY <1>4, AloneKeepsOrder, DisturbedIsQuiet DEF LeaseEnds, EndLease
<1>5. ASSUME NEW d \in Devices, BrokerGrants(d) PROVE RequestsInOrder' /\ CleanIsQuiet'
  BY <1>5, AloneKeepsOrder, AloneKeepsQuiet DEF BrokerGrants
<1>6. ASSUME NEW d \in Devices, Book(d) PROVE RequestsInOrder' /\ CleanIsQuiet'
  <2>1. UNCHANGED <<req, patch, put, broker>> /\ (Disturb \/ UNCHANGED <<row, clean>>)
    BY <1>6 DEF Book
  <2> QED
    BY <2>1, AloneKeepsOrder, AloneKeepsQuiet, DisturbedIsQuiet
<1>7. ASSUME NEW q \in Requests, NEW d \in Devices,
             \/ Delete(q, d) \/ ForceRelease(q, d)
             \/ \E action \in Actions : Register(q, d, action) \/ PatchChecks(q, d, action)
      PROVE RequestsInOrder' /\ CleanIsQuiet'
  BY <1>7, WriteSteps, PatchCheckStep
<1>8. ASSUME NEW q \in Requests, ReadRows(q) \/ ReadRevision(q)
      PROVE RequestsInOrder' /\ CleanIsQuiet'
  BY <1>8, ReadRowsStep, ReadRevisionStep
<1>9. ASSUME NEW q \in Requests, PutArrives(q) \/ PutLost(q)
      PROVE RequestsInOrder' /\ CleanIsQuiet'
  BY <1>9, PutArrivesStep, PutLostStep
<1>10. ASSUME NEW q \in Requests, Unreachable(q) PROVE RequestsInOrder' /\ CleanIsQuiet'
  <2>1. Go(q, "unavailable") /\ req[q].stage = "read" /\ UNCHANGED <<row, patch, put, broker, clean>>
    BY <1>10 DEF Unreachable
  <2>2. \A p \in patch : p.by # q
    BY <2>1, PatchIsChecked
  <2> QED
    BY <2>1, <2>2, StageKeepsOrder, StageKeepsQuiet DEF Stages, Started, Unsent
<1>11. ASSUME NEW q \in Requests, Answered(q) \/ AnswerLost(q)
       PROVE RequestsInOrder' /\ CleanIsQuiet'
  <2>1. req[q].stage = "pushing" /\ UNCHANGED <<row, patch, put, broker, clean>>
    BY <1>11 DEF Answered, AnswerLost
  <2>2. PICK stage \in {"ok", "stale", "unavailable"} :
          Go(q, stage) /\ (stage = "ok" => put[q] \in {"applied", "replayed"})
    BY <1>11 DEF Answered, AnswerLost
  <2>3. \A p \in patch : p.by # q
    BY <2>1, PatchIsChecked
  <2> QED
    BY <2>1, <2>2, <2>3, StageKeepsOrder, StageKeepsQuiet DEF Stages, Started, Unsent
<1>12. CASE UNCHANGED vars
  BY <1>12, AloneKeepsOrder, AloneKeepsQuiet DEF vars
<1> QED
  BY <1>1, <1>2, <1>3, <1>4, <1>5, <1>6, <1>7, <1>8, <1>9, <1>10, <1>11, <1>12 DEF Next

-----------------------------------------------------------------------------
\* Type correctness: the variables hold rows, requests and registries, whatever
\* managers, leases, messages and restarts do.
THEOREM TypeCorrect == Spec => []TypeOK
<1>1. Init => TypeOK
  BY InitType
<1>2. TypeOK /\ [Next]_vars => TypeOK'
  BY TypeStep
<1> QED
  BY <1>1, <1>2, PTL DEF Spec

\* The devices table agrees with the leases: 'leased' only with an unended
\* lease, deleted only without any (application.ts, routes.ts DELETE and PATCH).
THEOREM TableSafe == Spec => []TableAgreesWithLeases
<1>1. Init => TypeOK /\ TableAgreesWithLeases
  BY InitType DEF Init, TableAgreesWithLeases
<1>2. TypeOK /\ TableAgreesWithLeases /\ [Next]_vars => TypeOK' /\ TableAgreesWithLeases'
  BY TypeStep, TableStep
<1> QED
  BY <1>1, <1>2, PTL DEF Spec

\* After a quiet push that was answered ok the broker lends the eligible devices
\* under its ceiling, and all of the ceiling if none is eligible, however many
\* requests, late messages and restarts came before it (rig-registry.ts,
\* registry.ts).
THEOREM PushSafe == Spec => []QuietPushIsInForce
<1>1. Init => PushInv
  BY InitPush
<1>2. PushInv /\ [Next]_vars => PushInv'
  BY PushStep
<1>3. ASSUME PushInv PROVE QuietPushIsInForce
  <2>1. ASSUME NEW q \in Requests, req[q].stage = "ok", q \in clean
        PROVE  broker.pushed = Eligible
    BY <1>3, <2>1 DEF PushInv, RequestsInOrder, CleanIsQuiet
  <2> QED
    BY <2>1 DEF QuietPushIsInForce, Usable
<1> QED
  BY <1>1, <1>2, <1>3, PTL DEF Spec

=============================================================================
