------------------------ MODULE UploadCircuit_proofs ------------------------
(***************************************************************************)
(* Types and the two safety properties of UploadCircuit, for any Jobs,      *)
(* scopes and thresholds.                                                   *)
(***************************************************************************)
EXTENDS UploadCircuit, TLAPS

Circuits == [state : {"closed", "open", "half_open"},
             openedAt : {"none", "fresh", "cooled", "old"}]
ScopeStates == [waves : 0..MaxCount, wave : {"none", "upload", "other"},
                idle : BOOLEAN, recent : 0..MaxCount]

\* What the operators on circuits and scopes return.
LEMMA TrippedType ==
  ASSUME NEW c \in Circuits
  PROVE  Tripped(c) \in Circuits /\ Tripped(c).state = "open"
  BY DEF Circuits, Tripped

LEMMA HalfOpenedType ==
  ASSUME NEW c \in Circuits
  PROVE  HalfOpened(c) \in Circuits /\ (HalfOpened(c).state = "closed" <=> c.state = "closed")
  BY DEF Circuits, HalfOpened

LEMMA CountType ==
  ASSUME NEW n \in 0..MaxCount
  PROVE  Count(n) \in 0..MaxCount
  BY UploadAssumption DEF UploadAssumption, Count

LEMMA EmptyType == EmptyScope \in ScopeStates /\ ~Persistent(EmptyScope)
  BY UploadAssumption DEF UploadAssumption, EmptyScope, ScopeStates, Persistent

LEMMA FinalizedType ==
  ASSUME NEW st \in ScopeStates
  PROVE  /\ FinalizedWave(st) \in ScopeStates
         /\ FinalizedWave(st).recent = st.recent
<1> DEFINE waves == CASE st.wave = "upload" -> Count(st.waves)
                      [] st.wave = "other" -> 0
                      [] OTHER -> st.waves
<1>1. st.waves \in 0..MaxCount /\ st.wave \in {"none", "upload", "other"} /\ st.recent \in 0..MaxCount
  BY DEF ScopeStates
<1>2. Count(st.waves) \in 0..MaxCount
  BY <1>1, CountType
<1>3. 0 \in 0..MaxCount
  BY UploadAssumption DEF UploadAssumption
<1>4. waves \in 0..MaxCount
  BY <1>1, <1>2, <1>3
<1>5. FinalizedWave(st) = [st EXCEPT !.wave = "none", !.idle = FALSE, !.waves = waves]
  BY Zenon DEF FinalizedWave
<1> HIDE DEF waves
<1> QED
  BY <1>1, <1>4, <1>5 DEF ScopeStates

LEMMA RecordedType ==
  ASSUME NEW st \in ScopeStates, NEW upload \in BOOLEAN
  PROVE  Recorded(st, upload) \in ScopeStates
<1> DEFINE gone == st.wave # "none" /\ st.idle
           now == IF gone THEN FinalizedWave(st) ELSE st
<1>1. now \in ScopeStates
  BY FinalizedType
<1>2. Recorded(st, upload) =
        [now EXCEPT !.wave = IF upload /\ now.wave # "other" THEN "upload" ELSE "other",
                    !.idle = FALSE,
                    !.recent = IF upload THEN Count(now.recent) ELSE now.recent]
  BY DEF Recorded
<1> HIDE DEF now
<1>3. now.recent \in 0..MaxCount /\ Count(now.recent) \in 0..MaxCount
  BY <1>1, CountType DEF ScopeStates
<1> QED
  BY <1>1, <1>2, <1>3 DEF ScopeStates
-----------------------------------------------------------------------------
IInv == TypeOK /\ NoEvidenceWhileClosed

LEMMA Types == TypeOK => /\ circuit \in Circuits
                         /\ scopes \in [Scopes -> ScopeStates]
                         /\ pc \in [Jobs -> Controls]
                         /\ row \in [Jobs -> {"pending", "active", "ended"}]
                         /\ round \in {"idle", "probing", "claiming"}
                         /\ image \in BOOLEAN
  BY DEF TypeOK, Circuits, ScopeStates

LEMMA TypesBack == /\ circuit' \in Circuits
                   /\ scopes' \in [Scopes -> ScopeStates]
                   /\ pc' \in [Jobs -> Controls]
                   /\ row' \in [Jobs -> {"pending", "active", "ended"}]
                   /\ round' \in {"idle", "probing", "claiming"}
                   /\ image' \in BOOLEAN
                   => TypeOK'
  BY DEF TypeOK, Circuits, ScopeStates

\* A closed circuit with empty scopes is fine, whoever closed it.
LEMMA CloseKeeps ==
  ASSUME Close
  PROVE  circuit' \in Circuits /\ scopes' \in [Scopes -> ScopeStates] /\ NoEvidenceWhileClosed'
<1>1. circuit' \in Circuits
  BY DEF Close, ClosedCircuit, Circuits
<1>2. \A s \in Scopes : scopes'[s] = EmptyScope
  BY DEF Close
<1>3. \A s \in Scopes : ~Persistent(scopes'[s])
  BY <1>2, EmptyType
<1> QED
  BY <1>1, <1>3, EmptyType DEF Close, NoEvidenceWhileClosed, Persistent

\* Nothing that leaves the scopes alone and does not close the circuit can break it.
LEMMA ScopesKeep ==
  ASSUME IInv, scopes' = scopes, circuit'.state = "closed" => circuit.state = "closed"
  PROVE  NoEvidenceWhileClosed'
  BY DEF IInv, NoEvidenceWhileClosed, Persistent

LEMMA ProbeKeeps ==
  ASSUME IInv, ProbeOk \/ ProbeSkipped \/ ProbeFails
  PROVE  circuit' \in Circuits /\ scopes' \in [Scopes -> ScopeStates] /\ NoEvidenceWhileClosed'
<1>1. circuit \in Circuits /\ scopes \in [Scopes -> ScopeStates]
  BY Types DEF IInv
<1>2. CASE ProbeOk
  BY <1>1, <1>2, CloseKeeps, ScopesKeep DEF ProbeOk
<1>3. CASE ProbeSkipped
  BY <1>1, <1>3, ScopesKeep DEF ProbeSkipped
<1>4. CASE ProbeFails
  BY <1>1, <1>4, ScopesKeep, TrippedType DEF ProbeFails
<1> QED
  BY <1>2, <1>3, <1>4

\* An update of one scope that trips the circuit when the scope is persistent.
LEMMA UpdateKeeps ==
  ASSUME IInv, NEW s \in Scopes, NEW st \in ScopeStates,
         scopes' = [scopes EXCEPT ![s] = st],
         circuit' \in Circuits,
         circuit'.state = "closed" => circuit.state = "closed" /\ ~Persistent(st)
  PROVE  scopes' \in [Scopes -> ScopeStates] /\ NoEvidenceWhileClosed'
<1>1. scopes \in [Scopes -> ScopeStates]
  BY Types DEF IInv
<1>2. ASSUME circuit'.state = "closed", NEW r \in Scopes
      PROVE  ~Persistent(scopes'[r])
  <2>1. circuit.state = "closed" /\ ~Persistent(scopes[r])
    BY <1>2 DEF IInv, NoEvidenceWhileClosed
  <2>2. scopes'[r] = IF r = s THEN st ELSE scopes[r]
    BY <1>1
  <2> QED
    BY <1>2, <2>1, <2>2
<1>3. NoEvidenceWhileClosed'
  BY <1>2 DEF NoEvidenceWhileClosed, Persistent
<1> QED
  BY <1>1, <1>3
-----------------------------------------------------------------------------
LEMMA InitInv == Init => IInv
<1> SUFFICES ASSUME Init PROVE IInv
  OBVIOUS
<1>1. \A s \in Scopes : ~Persistent(scopes[s])
  BY EmptyType DEF Init
<1>2. scopes \in [Scopes -> ScopeStates]
  BY EmptyType DEF Init
<1>3. circuit \in Circuits
  BY DEF Init, ClosedCircuit, Circuits
<1> QED
  BY <1>1, <1>2, <1>3 DEF Init, IInv, TypeOK, NoEvidenceWhileClosed, Circuits, ScopeStates, Controls

\* One step of a run of j.
LEMMA RunKeeps ==
  ASSUME IInv, NEW j \in Jobs, Run(j)
  PROVE  IInv'
<1>0. /\ circuit \in Circuits /\ scopes \in [Scopes -> ScopeStates]
      /\ pc \in [Jobs -> Controls] /\ row \in [Jobs -> {"pending", "active", "ended"}]
      /\ round \in {"idle", "probing", "claiming"} /\ image \in BOOLEAN
  BY Types DEF IInv
<1>s. ScopeOf[j] \in Scopes /\ scopes[ScopeOf[j]] \in ScopeStates
  BY <1>0, UploadAssumption DEF UploadAssumption
<1>1. CASE RunPasses(j)
  BY <1>0, <1>1, TypesBack, ScopesKeep DEF RunPasses, Go, Controls, IInv
<1>2. CASE RunProbes(j)
  BY <1>0, <1>2, TypesBack, ScopesKeep, HalfOpenedType DEF RunProbes, Go, Controls, IInv
<1>3. CASE RunAnswered(j)
  <2>1. ProbeOk \/ ProbeSkipped \/ ProbeFails
    BY <1>3 DEF RunAnswered
  <2>2. pc' \in [Jobs -> Controls] /\ image' = image /\ row' = row /\ round' = round
    BY <1>0, <1>3 DEF RunAnswered, Go, Controls
  <2> QED
    BY <1>0, <2>1, <2>2, ProbeKeeps, TypesBack DEF IInv
<1>4. CASE RunSucceeds(j)
  <2>1. /\ pc' \in [Jobs -> Controls] /\ row' \in [Jobs -> {"pending", "active", "ended"}]
        /\ round' = round /\ image' = image
    BY <1>0, <1>4 DEF RunSucceeds, Go, Controls
  <2>2. circuit' \in Circuits /\ scopes' \in [Scopes -> ScopeStates] /\ NoEvidenceWhileClosed'
    <3>1. CASE circuit.state # "closed"
      BY <1>4, <3>1, CloseKeeps DEF RunSucceeds
    <3>2. CASE circuit.state = "closed"
      BY <1>0, <1>s, <1>4, <3>2, UpdateKeeps, EmptyType DEF RunSucceeds
    <3> QED
      BY <3>1, <3>2
  <2> QED
    BY <1>0, <2>1, <2>2, TypesBack DEF IInv
<1>5. CASE RunEndsUnrecorded(j)
  BY <1>0, <1>5, TypesBack, ScopesKeep DEF RunEndsUnrecorded, Go, Controls, IInv
<1>6. CASE RunFails(j)
  <2>1. /\ pc' \in [Jobs -> Controls] /\ row' = row /\ round' = round /\ image' = image
    BY <1>0, <1>6 DEF RunFails, Go, Controls
  <2>2. circuit' \in Circuits /\ scopes' \in [Scopes -> ScopeStates] /\ NoEvidenceWhileClosed'
    <3>1. CASE j \in Workers
      <4>1. PICK upload \in BOOLEAN :
              /\ scopes' = [scopes EXCEPT ![ScopeOf[j]] = Recorded(scopes[ScopeOf[j]], upload)]
              /\ circuit' = IF Persistent(Recorded(scopes[ScopeOf[j]], upload))
                            THEN Tripped(circuit) ELSE circuit
        BY <1>6, <3>1 DEF RunFails
      <4>2. Recorded(scopes[ScopeOf[j]], upload) \in ScopeStates
        BY <1>s, RecordedType
      <4>3. /\ circuit' \in Circuits
            /\ circuit'.state = "closed" => /\ circuit.state = "closed"
                                            /\ ~Persistent(Recorded(scopes[ScopeOf[j]], upload))
        BY <1>0, <4>1, TrippedType
      <4> QED
        BY <1>s, <4>1, <4>2, <4>3, UpdateKeeps
    <3>2. CASE j \notin Workers
      BY <1>0, <1>6, <3>2, ScopesKeep DEF RunFails
    <3> QED
      BY <3>1, <3>2
  <2> QED
    BY <1>0, <2>1, <2>2, TypesBack DEF IInv
<1>7. CASE CountActive(j)
  BY <1>0, <1>7, TypesBack, ScopesKeep DEF CountActive, Go, Controls, IInv
<1>8. CASE Seal(j)
  <2> DEFINE st == FinalizedWave(scopes[ScopeOf[j]])
  <2>1. /\ pc' \in [Jobs -> Controls] /\ row' = row /\ round' = round /\ image' = image
    BY <1>0, <1>8 DEF Seal, Go, Controls
  <2>2. st \in ScopeStates /\ st.recent = scopes[ScopeOf[j]].recent
    BY <1>s, FinalizedType
  <2>3. /\ scopes' = [scopes EXCEPT ![ScopeOf[j]] = st]
        /\ circuit' = IF st.waves >= WavesToTrip THEN Tripped(circuit) ELSE circuit
    BY <1>8 DEF Seal
  <2> HIDE DEF st
  <2>4. circuit' \in Circuits
    BY <1>0, <2>3, TrippedType
  <2>5. ASSUME circuit'.state = "closed"
        PROVE  circuit.state = "closed" /\ ~Persistent(st)
    <3>1. circuit.state = "closed" /\ ~(st.waves >= WavesToTrip)
      BY <1>0, <2>3, <2>5, TrippedType
    <3>2. ~(scopes[ScopeOf[j]].recent >= JobsToTrip)
      BY <1>s, <3>1 DEF IInv, NoEvidenceWhileClosed, Persistent
    <3> QED
      BY <2>2, <3>1, <3>2 DEF Persistent
  <2>6. scopes' \in [Scopes -> ScopeStates] /\ NoEvidenceWhileClosed'
    BY <1>s, <2>2, <2>3, <2>4, <2>5, UpdateKeeps
  <2> QED
    BY <1>0, <2>1, <2>4, <2>6, TypesBack DEF IInv
<1>9. CASE RowFails(j)
  BY <1>0, <1>9, TypesBack, ScopesKeep DEF RowFails, Go, Controls, IInv
<1> QED
  BY <1>1, <1>2, <1>3, <1>4, <1>5, <1>6, <1>7, <1>8, <1>9 DEF Run

LEMMA NextInv == IInv /\ [Next]_vars => IInv'
<1> SUFFICES ASSUME IInv, [Next]_vars PROVE IInv'
  OBVIOUS
<1>0. /\ circuit \in Circuits /\ scopes \in [Scopes -> ScopeStates]
      /\ pc \in [Jobs -> Controls] /\ row \in [Jobs -> {"pending", "active", "ended"}]
      /\ round \in {"idle", "probing", "claiming"} /\ image \in BOOLEAN
  BY Types DEF IInv
<1>1. CASE RoundPasses \/ RoundClaims
  <2>1. pc' \in [Jobs -> Controls] /\ row' \in [Jobs -> {"pending", "active", "ended"}]
    BY <1>0, <1>1 DEF RoundPasses, RoundClaims, Controls
  <2> QED
    BY <1>0, <1>1, <2>1, TypesBack, ScopesKeep DEF RoundPasses, RoundClaims, IInv
<1>2. CASE RoundProbes
  BY <1>0, <1>2, TypesBack, ScopesKeep, HalfOpenedType DEF RoundProbes, IInv
<1>3. CASE RoundAnswered
  <2>1. ProbeOk \/ ProbeSkipped \/ ProbeFails
    BY <1>3 DEF RoundAnswered
  <2>2. round' \in {"idle", "probing", "claiming"} /\ image' = image /\ row' = row /\ pc' = pc
    BY <1>3 DEF RoundAnswered
  <2> QED
    BY <1>0, <2>1, <2>2, ProbeKeeps, TypesBack DEF IInv
<1>4. ASSUME NEW j \in Jobs, Submit(j) \/ OthersEnd(j)
      PROVE  IInv'
  BY <1>0, <1>4, TypesBack, ScopesKeep DEF Submit, OthersEnd, IInv
<1>5. ASSUME NEW j \in Jobs, Run(j)
      PROVE  IInv'
  BY <1>5, RunKeeps
<1>6. CASE Restart
  <2>1. Close
    BY <1>6 DEF Restart, Close
  <2>2. /\ pc' \in [Jobs -> Controls] /\ row' \in [Jobs -> {"pending", "active", "ended"}]
        /\ round' = "idle" /\ image' \in BOOLEAN
    BY <1>0, <1>6 DEF Restart, Controls
  <2> QED
    BY <2>1, <2>2, CloseKeeps, TypesBack DEF IInv
<1>7. CASE OpenAges
  <2>1. circuit' \in Circuits /\ circuit'.state = circuit.state
    BY <1>0, <1>7 DEF OpenAges, Circuits
  <2> QED
    BY <1>0, <1>7, <2>1, TypesBack, ScopesKeep DEF OpenAges, IInv
<1>8. ASSUME NEW s \in Scopes, WaveGapPasses(s) \/ FailureExpires(s)
      PROVE  IInv'
  <2>1. scopes[s] \in ScopeStates
    BY <1>0
  <2>2. UNCHANGED <<circuit, pc, row, round, image>>
    BY <1>8 DEF WaveGapPasses, FailureExpires
  <2>3. CASE WaveGapPasses(s)
    <3> DEFINE st == [scopes[s] EXCEPT !.idle = TRUE]
    <3>1. scopes' = [scopes EXCEPT ![s] = st]
      BY <2>3 DEF WaveGapPasses
    <3>2. st \in ScopeStates /\ st.recent = scopes[s].recent /\ st.waves = scopes[s].waves
      BY <2>1 DEF ScopeStates
    <3> HIDE DEF st
    <3>3. circuit.state = "closed" => ~Persistent(st)
      BY <3>2 DEF IInv, NoEvidenceWhileClosed, Persistent
    <3>4. scopes' \in [Scopes -> ScopeStates] /\ NoEvidenceWhileClosed'
      BY <1>0, <2>2, <3>1, <3>2, <3>3, UpdateKeeps
    <3> QED
      BY <1>0, <2>2, <3>4, TypesBack DEF IInv
  <2>4. CASE FailureExpires(s)
    <3> DEFINE st == [scopes[s] EXCEPT !.recent = @ - 1]
    <3>1. scopes' = [scopes EXCEPT ![s] = st] /\ scopes[s].recent > 0
      BY <1>0, <2>4 DEF FailureExpires
    <3>2. scopes[s].recent \in 0..MaxCount /\ scopes[s].recent - 1 \in 0..MaxCount
      BY <2>1, <3>1, UploadAssumption DEF ScopeStates, UploadAssumption
    <3>3. st \in ScopeStates /\ st.recent = scopes[s].recent - 1 /\ st.waves = scopes[s].waves
      BY <2>1, <3>2 DEF ScopeStates
    <3> HIDE DEF st
    <3>4. circuit.state = "closed" => ~Persistent(st)
      BY <3>2, <3>3, UploadAssumption DEF IInv, NoEvidenceWhileClosed, Persistent, UploadAssumption
    <3>5. scopes' \in [Scopes -> ScopeStates] /\ NoEvidenceWhileClosed'
      BY <1>0, <2>2, <3>1, <3>3, <3>4, UpdateKeeps
    <3> QED
      BY <1>0, <2>2, <3>5, TypesBack DEF IInv
  <2> QED
    BY <1>8, <2>3, <2>4
<1>9. CASE UNCHANGED vars
  BY <1>9 DEF vars, IInv, TypeOK, NoEvidenceWhileClosed, Persistent
<1> QED
  BY <1>1, <1>2, <1>3, <1>4, <1>5, <1>6, <1>7, <1>8, <1>9 DEF Next, Round

\* Every reachable state is well typed.
THEOREM TypeCorrect == Spec => []TypeOK
<1>1. IInv => TypeOK
  BY DEF IInv
<1> QED
  BY <1>1, InitInv, NextInv, PTL DEF Spec

\* NoEvidenceWhileClosed of opensandbox-upload-circuit.ts, whatever the
\* thresholds and however many runs, probes and scopes feed the circuit.
THEOREM EvidenceSafe == Spec => []NoEvidenceWhileClosed
<1>1. IInv => NoEvidenceWhileClosed
  BY DEF IInv
<1> QED
  BY <1>1, InitInv, NextInv, PTL DEF Spec

\* The gate of runJob: no Job starts on an open circuit.
THEOREM GateSafe == Spec => OpenCircuitStartsNothing
<1> DEFINE Starts(j) == pc[j] \in {"claimed", "probing"} /\ pc'[j] = "running"
<1>1. ASSUME TypeOK, [Next]_vars, NEW j \in Jobs, Starts(j)
      PROVE  circuit'.state # "open"
  <2>0. pc \in [Jobs -> Controls] /\ circuit \in Circuits
    BY <1>1, Types
  <2>1. RunPasses(j) \/ RunAnswered(j)
    <3>1. ASSUME NEW k \in Jobs, Run(k)
          PROVE  RunPasses(j) \/ RunAnswered(j)
      <4>1. k = j
        BY <1>1, <2>0, <3>1 DEF Run, RunPasses, RunProbes, RunAnswered, RunSucceeds,
           RunEndsUnrecorded, RunFails, CountActive, Seal, RowFails, Go
      <4> QED
        BY <1>1, <2>0, <3>1, <4>1 DEF Run, RunProbes, RunSucceeds,
           RunEndsUnrecorded, RunFails, CountActive, Seal, RowFails, Go
    <3>2. ~Round /\ ~Restart
      BY <1>1, <2>0 DEF Round, RoundPasses, RoundProbes, RoundAnswered, RoundClaims, Restart
    <3>3. ~OpenAges /\ ~UNCHANGED vars
      BY <1>1, <2>0 DEF OpenAges, vars
    <3>4. \A k \in Jobs : ~Submit(k) /\ ~OthersEnd(k)
      BY <1>1, <2>0 DEF Submit, OthersEnd
    <3>5. \A s \in Scopes : ~WaveGapPasses(s) /\ ~FailureExpires(s)
      BY <1>1, <2>0 DEF WaveGapPasses, FailureExpires
    <3> QED
      BY <1>1, <3>1, <3>2, <3>3, <3>4, <3>5 DEF Next
  <2>2. CASE RunPasses(j)
    BY <2>2 DEF RunPasses, ShouldProbe
  <2>3. CASE RunAnswered(j)
    <3>1. CASE ProbeOk
      BY <2>0, <3>1 DEF ProbeOk, Close, ClosedCircuit
    <3>2. CASE ProbeSkipped /\ Go(j, IF circuit.state = "open" THEN "refused" ELSE "running")
      BY <1>1, <2>0, <3>2 DEF ProbeSkipped, Go
    <3>3. CASE ProbeFails /\ Go(j, "refused")
      BY <1>1, <2>0, <3>3 DEF Go
    <3> QED
      BY <2>3, <3>1, <3>2, <3>3 DEF RunAnswered
  <2> QED
    BY <2>1, <2>2, <2>3
<1>2. TypeOK /\ [Next]_vars => [\A j \in Jobs : Starts(j) => circuit'.state # "open"]_vars
  BY <1>1
<1> QED
  BY <1>2, TypeCorrect, PTL DEF Spec, OpenCircuitStartsNothing
=============================================================================
