----------------------- MODULE CanvasConvergence_proofs -----------------------
(***************************************************************************)
(* Rounds that agree with statuses, verdicts that stand, idleness that is   *)
(* explained and completion that is converged, for any findings and limits. *)
(*                                                                          *)
(* The lemmas follow the operators: first what each does to one finding,    *)
(* then to a canvas, then one lemma per action.                             *)
(***************************************************************************)
EXTENDS CanvasConvergence, TLAPS

\* Findings whose status and round agree.
Finding == {g \in FindingRecord : Agree(g)}

Keeps(g, h) == g.status \in Converged => h.status = g.status

\* The invariant of one canvas, but for what the last event must have left.
Sound(c) ==
  /\ c \in Canvases
  /\ \A f \in Findings : Agree(c.finding[f])
  /\ c.root # "running" \/ c.report # "none" => c.roleDone

\* The roots a trigger leaves alone
Over(c) == c.root \in {"analysis_complete", "succeeded"}

VerdictsKept(c, d) == \A f \in Findings : Keeps(c.finding[f], d.finding[f])

\* IdleIsExplained and CompleteIsConverged of any canvas
Explained(c) ==
  Busy(c) \/ Reporting(c) \/ c.due # {} \/ c.root # "running" \/ c.paused \/ c.stopped
    \/ c.parked # "no"

AtRest(c) ==
  c.root = "analysis_complete" /\ ~Busy(c) /\ c.due = {} /\ c.parked # "design"

Done(c) == AtRest(c) => FindingsConverged(c)

-----------------------------------------------------------------------------
(* One finding *)

LEMMA SaturateType ==
  ASSUME NEW n \in Nat, NEW top \in Nat
  PROVE  Saturate(n, top) \in Nat /\ Saturate(n, top) <= top
  BY DEF Saturate

LEMMA FindingShape ==
  ASSUME NEW g \in Finding
  PROVE  g \in FindingRecord /\ Agree(g)
  BY DEF Finding

LEMMA ConcludeType ==
  ASSUME NEW g \in Finding, NEW status \in Converged
  PROVE  /\ Conclude(g, status) \in Finding
         /\ Conclude(g, status).status = status
         /\ ~Open(Conclude(g, status))
         /\ Conclude(g, status).vjob = g.vjob
         /\ Conclude(g, status).follow = g.follow
         /\ Conclude(g, status).report = g.report
<1>1. Conclude(g, status) \in FindingRecord
  <2>1. status \in Statuses /\ "missing" \in Gates /\ "none" \in Prints /\ "closed" \in Rounds
    BY DEF Statuses, Gates, Prints, Rounds
  <2>2. 0 \in 0 .. EscalateAfter /\ 0 \in Nat
    BY DEF EscalateAfter
  <2> QED
    BY <2>1, <2>2 DEF Finding, FindingRecord, Conclude
<1>2. /\ Conclude(g, status).status = status
      /\ Conclude(g, status).round = IF Open(g) THEN "closed" ELSE g.round
      /\ Conclude(g, status).vjob = g.vjob
      /\ Conclude(g, status).follow = g.follow
      /\ Conclude(g, status).report = g.report
  BY DEF Finding, FindingRecord, Conclude
<1> QED
  BY <1>1, <1>2 DEF Finding, Agree, Converged, Open

LEMMA SettleType ==
  ASSUME NEW g \in Finding, NEW status \in Converged
  PROVE  /\ Settle(g, status) \in Finding
         /\ Settle(g, status).status = IF g.status = "confirmed" THEN "confirmed" ELSE status
         /\ Settle(g, status).vjob = g.vjob
         /\ Settle(g, status).follow = g.follow
         /\ Settle(g, status).report = g.report
<1>1. Conclude(g, status) \in Finding
  BY ConcludeType
<1> QED
  BY <1>1, ConcludeType DEF Settle, Finding, FindingRecord, Agree, Converged

LEMMA ConfirmType ==
  ASSUME NEW g \in Finding
  PROVE  /\ ConfirmFromFacts(g) \in Finding
         /\ ConfirmFromFacts(g).status = "confirmed"
         /\ ConfirmFromFacts(g).vjob = g.vjob
         /\ ConfirmFromFacts(g).follow = g.follow
         /\ ConfirmFromFacts(g).report
<1>1. "confirmed" \in Converged
  BY DEF Converged
<1>2. Conclude(g, "confirmed") \in FindingRecord
  BY <1>1, ConcludeType DEF Finding
<1>3. ConfirmFromFacts(g) \in FindingRecord
  BY <1>1, <1>2 DEF ConfirmFromFacts, FindingRecord, Rounds
<1>4. /\ ConfirmFromFacts(g).status = "confirmed"
      /\ ConfirmFromFacts(g).round = "closed"
      /\ ConfirmFromFacts(g).vjob = g.vjob
      /\ ConfirmFromFacts(g).follow = g.follow
      /\ ConfirmFromFacts(g).report
  BY <1>1, <1>2, ConcludeType DEF ConfirmFromFacts, FindingRecord
<1> QED
  BY <1>3, <1>4 DEF Finding, Agree

LEMMA RoundForType ==
  ASSUME NEW g \in Finding
  PROVE  /\ RoundFor(g) \in FindingRecord
         /\ RoundFor(g).vjob = g.vjob
         /\ RoundFor(g).follow = g.follow
         /\ RoundFor(g).report = g.report
<1>1. 0 \in 0 .. EscalateAfter /\ 0 \in Nat /\ "none" \in Prints
  BY DEF EscalateAfter, Prints
<1>2. g.attempt + 1 \in Nat
  BY DEF Finding, FindingRecord
<1>3. /\ InsertRound(g) \in FindingRecord
      /\ InsertRound(g).vjob = g.vjob
      /\ InsertRound(g).follow = g.follow
      /\ InsertRound(g).report = g.report
  BY <1>1, <1>2 DEF Finding, FindingRecord, InsertRound
<1> QED
  BY <1>3 DEF RoundFor, Finding

LEMMA WaitType ==
  ASSUME NEW g \in Finding
  PROVE  /\ WaitForEvidence(g) \in Finding
         /\ WaitForEvidence(g).vjob = g.vjob
         /\ WaitForEvidence(g).follow = g.follow
         /\ WaitForEvidence(g).report = g.report
<1>1. g.gate \in Prints /\ g.seen \in BOOLEAN
  BY DEF Finding, FindingRecord, Prints
<1> DEFINE r == RoundFor(g)
           h == [r EXCEPT !.status = "pending", !.round = "waiting", !.fp = g.gate,
                          !.snap = g.seen]
<1>2. r \in FindingRecord /\ r.vjob = g.vjob /\ r.follow = g.follow /\ r.report = g.report
  BY RoundForType
<1>3. WaitForEvidence(g) = h
  BY DEF WaitForEvidence
<1> HIDE DEF r
<1>4. h \in FindingRecord
  BY <1>1, <1>2 DEF FindingRecord, Statuses, Rounds
<1>5. /\ h.status = "pending" /\ h.round = "waiting"
      /\ h.vjob = g.vjob /\ h.follow = g.follow /\ h.report = g.report
  BY <1>2 DEF FindingRecord
<1> QED
  BY <1>3, <1>4, <1>5 DEF Finding, Agree

LEMMA StartVerifyType ==
  ASSUME NEW g \in Finding
  PROVE  /\ StartVerify(g) \in Finding
         /\ StartVerify(g).vjob = "active"
         /\ StartVerify(g).follow = g.follow
         /\ StartVerify(g).report = g.report
  BY RoundForType, ZenonT(40) DEF StartVerify, Finding, FindingRecord, Agree, Statuses, Rounds

LEMMA CreateType ==
  ASSUME NEW g \in Finding, g.status \notin Converged, NEW deep \in BOOLEAN, NEW manual \in BOOLEAN
  PROVE  /\ CreateVerifyRound(g, deep, manual) \in Finding
         /\ CreateVerifyRound(g, deep, manual).vjob \in {"active", g.vjob}
         /\ CreateVerifyRound(g, deep, manual).follow = g.follow
         /\ g.report => CreateVerifyRound(g, deep, manual).report
<1>1. Verdict(g.gate) \in Converged /\ "inconclusive" \in Converged
  BY DEF Verdict, Converged
<1>2. g.gate \in Gates
  BY DEF Finding, FindingRecord
<1>3. Settle(g, "inconclusive") \in Finding /\ Settle(g, Verdict(g.gate)) \in Finding
  BY <1>1, SettleType
<1>4. \/ CreateVerifyRound(g, deep, manual) = g
      \/ CreateVerifyRound(g, deep, manual) = Settle(g, "inconclusive")
      \/ CreateVerifyRound(g, deep, manual) = Settle(g, Verdict(g.gate))
      \/ CreateVerifyRound(g, deep, manual) = ConfirmFromFacts(g)
      \/ CreateVerifyRound(g, deep, manual) = WaitForEvidence(g)
      \/ CreateVerifyRound(g, deep, manual) = StartVerify(g)
  BY <1>2 DEF CreateVerifyRound, Gates
<1> QED
  BY <1>1, <1>4, SettleType, ConfirmType, WaitType, StartVerifyType, SMTT(30)

\* No verdict is given for a finding without evidence of a verdict, and none is
\* taken back.
LEMMA ReverifyType ==
  ASSUME NEW g \in Finding, g.status \notin Converged, NEW deep \in BOOLEAN,
         NEW pair \in BOOLEAN
  PROVE  /\ Reverify(g, deep, pair) \in Finding
         /\ Reverify(g, deep, pair).vjob \in {"active", g.vjob}
         /\ Reverify(g, deep, pair).follow = g.follow
<1> DEFINE counted == [g EXCEPT !.stuck = Saturate(@ + 1, Later(MaxNoProgress, 1))]
           marked  == IF g.round = "none" THEN g ELSE [g EXCEPT !.fp = g.gate, !.stuck = 0]
<1>1. Verdict(g.gate) \in Converged /\ "inconclusive" \in Converged
  BY DEF Verdict, Converged
<1>2. g \in FindingRecord /\ g.gate \in Gates /\ g.gate \in Prints /\ g.stuck + 1 \in Nat
  BY DEF Finding, FindingRecord, Prints
<1>3. Later(MaxNoProgress, 1) \in Nat
  BY ConvergenceAssumption DEF ConvergenceAssumption, Later
<1>4. Saturate(g.stuck + 1, Later(MaxNoProgress, 1)) \in Nat
  BY <1>2, <1>3, SaturateType
<1>5. /\ counted \in FindingRecord /\ counted.vjob = g.vjob /\ counted.follow = g.follow
      /\ counted.status = g.status /\ counted.round = g.round
  BY <1>2, <1>4 DEF FindingRecord
<1>6. /\ marked \in FindingRecord /\ marked.vjob = g.vjob /\ marked.follow = g.follow
      /\ marked.status = g.status /\ marked.round = g.round
  BY <1>2 DEF FindingRecord
<1>7. counted \in Finding /\ marked \in Finding
  BY <1>5, <1>6 DEF Finding, Agree
<1>8. \/ Reverify(g, deep, pair) = ConfirmFromFacts(g)
      \/ Reverify(g, deep, pair) = Settle(g, Verdict(g.gate))
      \/ Reverify(g, deep, pair) = counted
      \/ Reverify(g, deep, pair) = Settle(counted, "inconclusive")
      \/ Reverify(g, deep, pair) = CreateVerifyRound(marked, deep, FALSE)
  BY <1>2 DEF Reverify, Gates
<1>9. CreateVerifyRound(marked, deep, FALSE) \in Finding
      /\ CreateVerifyRound(marked, deep, FALSE).vjob \in {"active", g.vjob}
      /\ CreateVerifyRound(marked, deep, FALSE).follow = g.follow
  <2> HIDE DEF marked
  <2> QED
    BY <1>6, <1>7, CreateType
<1>10. /\ Settle(counted, "inconclusive") \in Finding
       /\ Settle(counted, "inconclusive").vjob = g.vjob
       /\ Settle(counted, "inconclusive").follow = g.follow
  <2> HIDE DEF counted
  <2> QED
    BY <1>1, <1>5, <1>7, SettleType
<1>11. /\ Settle(g, Verdict(g.gate)) \in Finding
       /\ Settle(g, Verdict(g.gate)).vjob = g.vjob
       /\ Settle(g, Verdict(g.gate)).follow = g.follow
  BY <1>1, SettleType
<1> HIDE DEF counted, marked
<1>12. CASE Reverify(g, deep, pair) = ConfirmFromFacts(g)
  BY <1>12, ConfirmType
<1>13. CASE Reverify(g, deep, pair) = Settle(g, Verdict(g.gate))
  BY <1>13, <1>11
<1>14. CASE Reverify(g, deep, pair) = counted
  BY <1>14, <1>5, <1>7
<1>15. CASE Reverify(g, deep, pair) = Settle(counted, "inconclusive")
  BY <1>15, <1>10
<1>16. CASE Reverify(g, deep, pair) = CreateVerifyRound(marked, deep, FALSE)
  BY <1>16, <1>9
<1> QED
  BY <1>8, <1>12, <1>13, <1>14, <1>15, <1>16

LEMMA MaybeReverifyType ==
  ASSUME NEW g \in Finding, NEW deep \in BOOLEAN, NEW pair \in BOOLEAN
  PROVE  /\ MaybeReverify(g, deep, pair) \in Finding
         /\ Keeps(g, MaybeReverify(g, deep, pair))
  BY ReverifyType DEF MaybeReverify, Keeps

LEMMA CloseFailedType ==
  ASSUME NEW g \in Finding, NEW status
  PROVE  /\ CloseFailed(g, status) \in Finding
         /\ CloseFailed(g, status).status \in {"pending", "inconclusive"}
         /\ CloseFailed(g, status).vjob = g.vjob
         /\ CloseFailed(g, status).report = g.report
<1>1. g \in FindingRecord /\ g.fails + 1 \in Nat /\ MaxAutoRetries \in Nat
  BY ConvergenceAssumption DEF ConvergenceAssumption, Finding, FindingRecord
<1>2. Saturate(g.fails + 1, MaxAutoRetries) \in Nat
  BY <1>1, SaturateType
<1>3. CASE RetriesLeft(g, status)
  <2> DEFINE h == [g EXCEPT !.status = "pending", !.round = "closed",
                            !.fails = Saturate(@ + 1, MaxAutoRetries)]
  <2>1. h \in FindingRecord
    BY <1>1, <1>2 DEF FindingRecord, Statuses, Rounds
  <2>2. /\ h.status = "pending" /\ h.round = "closed" /\ h.vjob = g.vjob
        /\ h.report = g.report
    BY <1>1 DEF FindingRecord
  <2>3. CloseFailed(g, status) = h
    BY <1>3 DEF CloseFailed
  <2> HIDE DEF h
  <2> QED
    BY <2>1, <2>2, <2>3 DEF Finding, Agree
<1>4. CASE ~RetriesLeft(g, status)
  <2> DEFINE k == Conclude(g, "inconclusive")
             h == [k EXCEPT !.outcomes = @ \cup {"inconclusive"}]
  <2>1. "inconclusive" \in Converged
    BY DEF Converged
  <2>2. k \in Finding /\ k.status = "inconclusive" /\ k.vjob = g.vjob /\ k.report = g.report
    BY <2>1, ConcludeType
  <2> HIDE DEF k
  <2>3. /\ h \in FindingRecord /\ h.status = k.status /\ h.round = k.round /\ h.vjob = k.vjob
        /\ h.report = k.report
    BY <2>1, <2>2 DEF Finding, FindingRecord
  <2>4. CloseFailed(g, status) = h
    BY <1>4 DEF CloseFailed, k
  <2> HIDE DEF h
  <2> QED
    BY <2>2, <2>3, <2>4 DEF Finding, Agree
<1> QED
  BY <1>3, <1>4

LEMMA FinalType ==
  ASSUME NEW g, NEW proposed
  PROVE  Final(g, proposed) \in Converged \cup {"rework"}
  BY DEF Final, Converged

LEMMA CloseSucceededType ==
  ASSUME NEW g \in Finding, NEW proposed
  PROVE  /\ CloseSucceeded(g, proposed) \in Finding
         /\ CloseSucceeded(g, proposed).status \in Converged \cup {"pending"}
<1> DEFINE final == Final(g, proposed)
<1>1. final \in Converged \cup {"rework"}
  BY FinalType
<1>2. CASE final = "rework"
  <2> DEFINE h == [g EXCEPT !.status = "pending", !.round = "closed", !.fails = 0]
  <2>1. h \in FindingRecord
    BY DEF Finding, FindingRecord, Statuses, Rounds
  <2>2. h.status = "pending" /\ h.round = "closed"
    BY DEF Finding, FindingRecord
  <2>3. CloseSucceeded(g, proposed) = h
    BY <1>2 DEF CloseSucceeded
  <2> HIDE DEF h
  <2> QED
    BY <2>1, <2>2, <2>3 DEF Finding, Agree
<1>3. CASE final # "rework"
  <2> DEFINE k == Conclude(g, final)
             h == [k EXCEPT !.outcomes = @ \cup {final},
                            !.report = @ \/ final = "confirmed"]
  <2>1. final \in Converged
    BY <1>1, <1>3
  <2>4. CloseSucceeded(g, proposed) = h
    BY <1>3 DEF CloseSucceeded
  <2> HIDE DEF final
  <2>2. k \in Finding /\ k.status = final
    BY <2>1, ConcludeType
  <2> HIDE DEF k
  <2>3. h \in FindingRecord /\ h.status = k.status /\ h.round = k.round
    BY <2>1, <2>2 DEF Finding, FindingRecord
  <2> HIDE DEF h
  <2> QED
    BY <2>1, <2>2, <2>3, <2>4 DEF Finding, Agree
<1> QED
  BY <1>2, <1>3

-----------------------------------------------------------------------------
(* The canvas *)

\* A step of the canvas: it stays sound and takes no verdict back.
Step(c, d) == Sound(d) /\ VerdictsKept(c, d)

\* The canvas stepped, and what it was left with is in order.
Quiet(c, e) == Step(c, e) /\ Explained(e) /\ Done(e)

Modes == {"normal", "idle", "force", "manual"}

LEMMA StepTrans ==
  ASSUME NEW c, NEW d, NEW e, Step(c, d), Step(d, e)
  PROVE  Step(c, e)
  BY DEF Step, VerdictsKept, Keeps

LEMMA FindingOf ==
  ASSUME NEW c, Sound(c), NEW f \in Findings
  PROVE  c.finding[f] \in Finding
  BY DEF Sound, Canvases, Finding

\* An edit that leaves the findings alone
LEMMA EditStep ==
  ASSUME NEW c, Sound(c), NEW d \in Canvases, d.finding = c.finding,
         d.root # "running" \/ d.report # "none" => d.roleDone
  PROVE  /\ Step(c, d)
         /\ FollowActive(d) <=> FollowActive(c)
         /\ VerifyActive(d) <=> VerifyActive(c)
         /\ FindingsConverged(d) <=> FindingsConverged(c)
         /\ d.report = c.report => (Reporting(d) <=> Reporting(c))
  BY DEF Step, Sound, VerdictsKept, Keeps, FollowActive, VerifyActive, FindingsConverged,
         Reporting

\* An edit of the findings alone
LEMMA WriteStep ==
  ASSUME NEW c, Sound(c), NEW F \in [Findings -> Finding], NEW d,
         d = [c EXCEPT !.finding = F],
         \A f \in Findings : Keeps(c.finding[f], F[f])
  PROVE  /\ Step(c, d)
         /\ d.finding = F
         /\ d.root = c.root /\ d.roles = c.roles /\ d.roleDone = c.roleDone /\ d.report = c.report
         /\ d.hubs = c.hubs /\ d.asking = c.asking /\ d.rounds = c.rounds
         /\ d.stopped = c.stopped /\ d.paused = c.paused /\ d.due = c.due
         /\ d.parked = c.parked
<1>1. F \in [Findings -> FindingRecord] /\ \A f \in Findings : Agree(F[f])
  BY DEF Finding
<1>2. d \in Canvases /\ d.finding = F
  BY <1>1 DEF Sound, Canvases
<1>3. /\ d.root = c.root /\ d.roles = c.roles /\ d.roleDone = c.roleDone /\ d.report = c.report
      /\ d.hubs = c.hubs /\ d.asking = c.asking /\ d.rounds = c.rounds
      /\ d.stopped = c.stopped /\ d.paused = c.paused /\ d.due = c.due
      /\ d.parked = c.parked
  BY DEF Sound, Canvases
<1> QED
  BY <1>1, <1>2, <1>3 DEF Step, Sound, VerdictsKept

LEMMA WithStep ==
  ASSUME NEW c, Sound(c), NEW f \in Findings, NEW g \in Finding, Keeps(c.finding[f], g)
  PROVE  /\ Step(c, With(c, f, g))
         /\ With(c, f, g).finding = [c.finding EXCEPT ![f] = g]
         /\ With(c, f, g).root = c.root /\ With(c, f, g).roles = c.roles
         /\ With(c, f, g).roleDone = c.roleDone /\ With(c, f, g).report = c.report /\ With(c, f, g).hubs = c.hubs
         /\ With(c, f, g).asking = c.asking /\ With(c, f, g).rounds = c.rounds
         /\ With(c, f, g).stopped = c.stopped /\ With(c, f, g).paused = c.paused
         /\ With(c, f, g).due = c.due /\ With(c, f, g).parked = c.parked
<1> DEFINE F == [c.finding EXCEPT ![f] = g]
<1>1. c.finding \in [Findings -> Finding]
  BY FindingOf DEF Sound, Canvases
<1>2. F \in [Findings -> Finding] /\ \A h \in Findings : Keeps(c.finding[h], F[h])
  BY <1>1 DEF Keeps
<1>3. With(c, f, g) = [c EXCEPT !.finding = F]
  BY DEF With
<1> HIDE DEF F
<1>4. F = [c.finding EXCEPT ![f] = g]
  BY DEF F
<1> QED
  BY <1>2, <1>3, <1>4, WriteStep

LEMMA SettleAllStep ==
  ASSUME NEW c, Sound(c), NEW statuses \in SUBSET {"pending", "verifying", "inconclusive"},
         NEW d, d = SettleAll(c, statuses)
  PROVE  /\ Step(c, d)
         /\ d.root = c.root /\ d.roles = c.roles /\ d.roleDone = c.roleDone /\ d.report = c.report
         /\ d.hubs = c.hubs /\ d.asking = c.asking /\ d.rounds = c.rounds
         /\ d.stopped = c.stopped /\ d.paused = c.paused /\ d.due = c.due
         /\ d.parked = c.parked
<1> DEFINE F == [f \in Findings |->
                   IF c.finding[f].status \in statuses
                   THEN Settle(c.finding[f], "inconclusive") ELSE c.finding[f]]
<1>1. "inconclusive" \in Converged
  BY DEF Converged
<1>2. ASSUME NEW f \in Findings
      PROVE  F[f] \in Finding /\ Keeps(c.finding[f], F[f])
  BY <1>1, FindingOf, SettleType DEF Keeps, Converged
<1>3. F \in [Findings -> Finding]
  BY <1>2
<1>4. d = [c EXCEPT !.finding = F]
  BY DEF SettleAll
<1> HIDE DEF F
<1> QED
  BY <1>2, <1>3, <1>4, WriteStep

LEMMA StopStep ==
  ASSUME NEW c, Sound(c)
  PROVE  /\ Step(c, Stop(c))
         /\ Stop(c).root = c.root
         /\ (\E f \in Findings : Waiting(c.finding[f])) => Stop(c).stopped
<1> DEFINE s == SettleAll(c, {"pending", "inconclusive"})
           d == [s EXCEPT !.stopped = TRUE]
<1>1. Step(c, s) /\ s.root = c.root
  BY SettleAllStep
<1>2. Stop(c) = d \/ (Stop(c) = c /\ \A f \in Findings : c.finding[f].status # "pending")
  BY DEF Stop
<1> HIDE DEF s
<1>3. s \in Canvases /\ (s.root # "running" \/ s.report # "none" => s.roleDone)
  BY <1>1 DEF Step, Sound
<1>4. /\ d \in Canvases /\ d.finding = s.finding /\ d.root = s.root
      /\ d.roleDone = s.roleDone /\ d.report = s.report /\ d.stopped
  BY <1>3 DEF Canvases
<1> HIDE DEF d
<1>5. Step(s, d)
  BY <1>1, <1>3, <1>4, EditStep DEF Step
<1>6. Step(c, d)
  BY <1>1, <1>5, StepTrans
<1>7. \A f \in Findings : Waiting(c.finding[f]) => c.finding[f].status = "pending"
  BY DEF Sound, Agree, Waiting
<1>8. Step(c, c)
  BY DEF Step, VerdictsKept, Keeps
<1> QED
  BY <1>1, <1>2, <1>4, <1>6, <1>7, <1>8

LEMMA DispatchedStep ==
  ASSUME NEW c, Sound(c), Over(c), c.roleDone, FindingsConverged(c), NEW e \in Dispatched(c)
  PROVE  Quiet(c, e)
<1> DEFINE d == [c EXCEPT !.root = "analysis_complete", !.report = "live"]
<1>1. d \in Canvases /\ d.finding = c.finding /\ d.roleDone /\ d.root = "analysis_complete"
  BY DEF Sound, Canvases
<1>2. e = c \/ e = d
  BY DEF Dispatched
<1> HIDE DEF d
<1>3. Step(c, d) /\ FindingsConverged(d)
  BY <1>1, EditStep
<1>4. Quiet(c, d)
  BY <1>1, <1>3 DEF Quiet, Explained, Done
<1>5. Quiet(c, c)
  BY DEF Quiet, Step, VerdictsKept, Keeps, Over, Explained, Done
<1> QED
  BY <1>2, <1>4, <1>5

LEMMA ExhaustedStep ==
  ASSUME NEW c, Sound(c), ~Over(c), NEW e \in Exhausted(c)
  PROVE  Quiet(c, e)
<1> DEFINE s == SettleAll(c, {"pending", "verifying"})
           a == [s EXCEPT !.root = "analysis_complete"]
           b == [s EXCEPT !.stopped = TRUE]
<1>1. Step(c, s) /\ s.root = c.root
  BY SettleAllStep
<1>2. \/ FindingsConverged(s) /\ s.roleDone /\ e \in Dispatched(a)
      \/ e = b
  BY DEF Exhausted
<1> HIDE DEF s
<1>3. s \in Canvases /\ Sound(s)
  BY <1>1 DEF Step, Sound
<1>4. /\ a \in Canvases /\ a.finding = s.finding /\ a.root = "analysis_complete"
      /\ a.roleDone = s.roleDone
  BY <1>3 DEF Canvases
<1>5. /\ b \in Canvases /\ b.finding = s.finding /\ b.root = s.root /\ b.stopped
      /\ b.roleDone = s.roleDone /\ b.report = s.report
  BY <1>3 DEF Canvases
<1> HIDE DEF a, b
<1>6. CASE FindingsConverged(s) /\ s.roleDone /\ e \in Dispatched(a)
  <2>1. Step(s, a) /\ Sound(a) /\ FindingsConverged(a)
    BY <1>3, <1>4, <1>6, EditStep DEF Step
  <2>2. Quiet(a, e)
    BY <1>4, <1>6, <2>1, DispatchedStep DEF Over
  <2> QED
    BY <1>1, <2>1, <2>2, StepTrans DEF Quiet
<1>7. CASE e = b
  <2>1. Step(s, b)
    BY <1>3, <1>5, EditStep DEF Sound
  <2> QED
    BY <1>1, <1>5, <1>7, <2>1, StepTrans DEF Quiet, Explained, Done, AtRest, Over
<1> QED
  BY <1>2, <1>6, <1>7

LEMMA InsertHubStep ==
  ASSUME NEW c, Sound(c)
  PROVE  /\ Step(c, InsertHub(c)) /\ Explained(InsertHub(c)) /\ Done(InsertHub(c))
<1> DEFINE d == [c EXCEPT !.hubs = @ + 1, !.parked = "no"]
<1>0. c \in Canvases /\ c.hubs + 1 \in Nat /\ c.hubs + 1 > 0
  BY DEF Sound, Canvases
<1>1. /\ d \in Canvases /\ d.finding = c.finding /\ d.root = c.root /\ d.roleDone = c.roleDone /\ d.report = c.report
      /\ d.hubs > 0
  BY <1>0 DEF Canvases
<1>2. InsertHub(c) = d
  BY DEF InsertHub
<1> HIDE DEF d
<1>3. Step(c, d)
  BY <1>1, EditStep DEF Sound
<1> QED
  BY <1>1, <1>2, <1>3 DEF Explained, Done, AtRest, Busy

LEMMA InsertHubForStep ==
  ASSUME NEW c, Sound(c), NEW f \in Findings
  PROVE  /\ Step(c, InsertHubFor(c, f)) /\ Explained(InsertHubFor(c, f))
         /\ Done(InsertHubFor(c, f))
<1> DEFINE g == [c.finding[f] EXCEPT !.hubFp = c.finding[f].fp,
                                     !.wakes = Saturate(@ + 1, EscalateAfter)]
           e == [c EXCEPT !.finding[f].hubFp = c.finding[f].fp,
                          !.finding[f].wakes = Saturate(@ + 1, EscalateAfter)]
<1>1. c.finding[f] \in Finding
  BY FindingOf
<1>2. Saturate(c.finding[f].wakes + 1, EscalateAfter) \in 0 .. EscalateAfter
  BY <1>1 DEF Finding, FindingRecord, EscalateAfter, Saturate
<1>3. g \in FindingRecord /\ g.status = c.finding[f].status /\ g.round = c.finding[f].round
  BY <1>1, <1>2 DEF Finding, FindingRecord
<1>4. g \in Finding /\ Keeps(c.finding[f], g)
  BY <1>1, <1>3 DEF Finding, Agree, Keeps
<1>5. c.finding \in [Findings -> FindingRecord] /\ c \in Canvases
  BY DEF Sound, Canvases
<1>6. e = With(c, f, g)
  BY <1>5 DEF With, Canvases
<1>7. InsertHubFor(c, f) = InsertHub(e)
  BY DEF InsertHubFor
<1> HIDE DEF g, e
<1>8. Step(c, e) /\ Sound(e)
  BY <1>4, <1>6, WithStep DEF Step
<1> QED
  BY <1>7, <1>8, InsertHubStep, StepTrans

LEMMA UnstopStep ==
  ASSUME NEW c, Sound(c), NEW mode \in Modes
  PROVE  Step(c, Unstop(c, mode)) /\ Unstop(c, mode).root = c.root
<1> DEFINE d == [c EXCEPT !.stopped = FALSE]
<1>1. /\ d \in Canvases /\ d.finding = c.finding /\ d.root = c.root /\ d.roleDone = c.roleDone /\ d.report = c.report
  BY DEF Sound, Canvases
<1>2. Unstop(c, mode) \in {c, d}
  BY DEF Unstop
<1> HIDE DEF d
<1>3. Step(c, d) /\ Step(c, c)
  BY <1>1, EditStep DEF Sound, Step, VerdictsKept, Keeps
<1> QED
  BY <1>1, <1>2, <1>3

\* What a trigger may leave: a Hub, a stop, a completion, or a reason to wait;
\* nothing at all when the analysis is over.
LEMMA TriggerStep ==
  ASSUME NEW c, Sound(c), NEW mode \in Modes, NEW e \in TriggerHub(c, mode)
  PROVE  /\ Step(c, e)
         /\ mode # "normal" => Explained(e)
         /\ ~Over(c) => Done(e)
         /\ Over(c) => e = c
<1> DEFINE d     == Unstop(c, mode)
           ready == {f \in Findings : Wakeable(d.finding[f])}
           stuck == ready = {} /\ \E f \in Findings : Waiting(d.finding[f])
           wait  == mode \in {"normal", "idle"} /\ VerifyActive(d)
<1>1. Step(c, d) /\ Sound(d) /\ d.root = c.root
  BY UnstopStep DEF Step
<1>2. ready \subseteq Findings
  OBVIOUS
<1>3. \/ Held(c, mode) /\ e = c
      \/ ~Held(c, mode) /\ Early(d, mode) /\ e = d
      \/ ~Held(c, mode) /\ stuck /\ e = Stop(d)
      \/ ~Held(c, mode) /\ wait /\ e = d
      \/ ~Held(c, mode) /\ ~wait /\ e \in Exhausted(d)
      \/ ~Held(c, mode) /\ ~wait /\ e = InsertHub(d)
      \/ ~Held(c, mode) /\ \E f \in ready : e = InsertHubFor(d, f)
  BY DEF TriggerHub
<1>4. ~Held(c, mode) => ~Over(c)
  BY DEF Held, Over
<1>5. Step(c, c) /\ (~Over(c) => Done(c))
  BY DEF Step, VerdictsKept, Keeps, Over, Done, AtRest
<1>6. ~Over(d) => Done(d)
  BY DEF Over, Done, AtRest
<1>16. Over(d) <=> Over(c)
  BY <1>1 DEF Over
<1>7. stuck => \E f \in Findings : Waiting(d.finding[f])
  OBVIOUS
<1>8. wait => mode \in {"normal", "idle"} /\ VerifyActive(d)
  OBVIOUS
<1> HIDE DEF d, ready, stuck, wait
<1>9. CASE Held(c, mode) /\ e = c
  BY <1>5, <1>9 DEF Held, Over, Explained
<1>10. CASE ~Held(c, mode) /\ Early(d, mode) /\ e = d
  <2>1. mode # "normal" => Explained(d)
    <3>1. d.hubs > 0 => Busy(d)
      BY DEF Busy
    <3> QED
      BY <3>1, <1>10 DEF Early, Runnable, Explained
  <2> QED
    BY <1>1, <1>4, <1>6, <1>10, <1>16, <2>1
<1>11. CASE ~Held(c, mode) /\ stuck /\ e = Stop(d)
  <2>1. Step(d, e) /\ e.root = d.root /\ e.stopped
    BY <1>1, <1>7, <1>11, StopStep
  <2> QED
    BY <1>1, <1>4, <1>11, <2>1, StepTrans DEF Explained, Done, AtRest, Over
<1>12. CASE ~Held(c, mode) /\ wait /\ e = d
  <2>1. Explained(d)
    BY <1>8, <1>12 DEF Explained, Busy
  <2> QED
    BY <1>1, <1>4, <1>6, <1>12, <1>16, <2>1
<1>13. CASE ~Held(c, mode) /\ ~wait /\ e \in Exhausted(d)
  BY <1>1, <1>4, <1>13, <1>16, ExhaustedStep, StepTrans DEF Quiet
<1>14. CASE ~Held(c, mode) /\ ~wait /\ e = InsertHub(d)
  BY <1>1, <1>4, <1>14, InsertHubStep, StepTrans
<1>15. CASE ~Held(c, mode) /\ \E f \in ready : e = InsertHubFor(d, f)
  BY <1>1, <1>2, <1>4, <1>15, InsertHubForStep, StepTrans
<1> QED
  BY <1>3, <1>9, <1>10, <1>11, <1>12, <1>13, <1>14, <1>15

LEMMA DispatchReportStep ==
  ASSUME NEW c, Sound(c), Over(c), NEW e \in DispatchReport(c)
  PROVE  Quiet(c, e)
<1> DEFINE d == [c EXCEPT !.root = "running", !.stopped = FALSE]
<1>1. c.roleDone
  BY DEF Sound, Over
<1>2. d \in Canvases /\ d.finding = c.finding /\ d.root = "running" /\ d.roleDone
  BY <1>1 DEF Sound, Canvases
<1>3. \/ e = c /\ Busy(c)
      \/ FindingsConverged(c) /\ e \in Dispatched(c)
      \/ e \in TriggerHub(d, "force")
  BY <1>1 DEF DispatchReport
<1> HIDE DEF d
<1>4. CASE e = c /\ Busy(c)
  BY <1>4 DEF Quiet, Step, VerdictsKept, Keeps, Explained, Done, AtRest
<1>5. CASE FindingsConverged(c) /\ e \in Dispatched(c)
  BY <1>1, <1>5, DispatchedStep
<1>6. CASE e \in TriggerHub(d, "force")
  <2>1. Step(c, d) /\ Sound(d) /\ ~Over(d)
    BY <1>2, EditStep DEF Step, Over
  <2>2. Step(d, e) /\ Explained(e) /\ Done(e)
    BY <1>6, <2>1, TriggerStep DEF Modes
  <2> QED
    BY <2>1, <2>2, StepTrans DEF Quiet
<1> QED
  BY <1>3, <1>4, <1>5, <1>6

LEMMA GiveBackStep ==
  ASSUME NEW c, Sound(c)
  PROVE  Quiet(c, GiveBack(c))
<1> DEFINE F == [f \in Findings |->
                   IF Waiting(c.finding[f]) THEN [c.finding[f] EXCEPT !.hubFp = "none"]
                                            ELSE c.finding[f]]
           p == [c EXCEPT !.parked = "design"]
           e == [p EXCEPT !.finding = F]
<1>1. ASSUME NEW f \in Findings
      PROVE  F[f] \in Finding /\ Keeps(c.finding[f], F[f])
  BY FindingOf DEF Finding, FindingRecord, Prints, Agree, Keeps
<1>2. F \in [Findings -> Finding]
  BY <1>1
<1>3. GiveBack(c) = e
  BY DEF GiveBack, Sound, Canvases
<1>4. p \in Canvases /\ p.finding = c.finding /\ p.root = c.root /\ p.roleDone = c.roleDone /\ p.report = c.report
      /\ p.parked = "design"
  BY DEF Sound, Canvases
<1>5. e = [p EXCEPT !.finding = F]
  OBVIOUS
<1> HIDE DEF F, p, e
<1>6. Step(c, p) /\ Sound(p)
  BY <1>4, EditStep DEF Step, Sound
<1>7. Step(p, e) /\ e.parked = "design"
  BY <1>1, <1>2, <1>4, <1>5, <1>6, WriteStep
<1> QED
  BY <1>3, <1>6, <1>7, StepTrans DEF Quiet, Explained, Done, AtRest

LEMMA AdvanceStep ==
  ASSUME NEW c, Sound(c), NEW failedHub \in BOOLEAN, NEW e \in Advance(c, failedHub)
  PROVE  Quiet(c, e)
<1> DEFINE d == [c EXCEPT !.parked = "no"]
<1>1. /\ d \in Canvases /\ d.finding = c.finding /\ d.root = c.root /\ d.roleDone = c.roleDone
      /\ d.report = c.report
  BY DEF Sound, Canvases
<1>2. \/ d.root = "report_failed" /\ e = d
      \/ d.root = "analysis_complete" /\ e \in DispatchReport(d)
      \/ d.root \in {"running", "succeeded"} /\ e = GiveBack(d)
      \/ d.root \in {"running", "succeeded"} /\ e \in TriggerHub(d, "idle")
  BY <1>1 DEF Advance, Canvases
<1> HIDE DEF d
<1>3. Step(c, d) /\ Sound(d)
  BY <1>1, EditStep DEF Step, Sound
<1>4. Quiet(d, e)
  <2>1. CASE d.root = "report_failed" /\ e = d
    BY <1>3, <2>1 DEF Quiet, Step, VerdictsKept, Keeps, Explained, Done, AtRest
  <2>2. CASE d.root = "analysis_complete" /\ e \in DispatchReport(d)
    BY <1>3, <2>2, DispatchReportStep DEF Over
  <2>3. CASE d.root \in {"running", "succeeded"} /\ e = GiveBack(d)
    BY <1>3, <2>3, GiveBackStep
  <2>4. CASE d.root \in {"running", "succeeded"} /\ e \in TriggerHub(d, "idle")
    <3>1. Step(d, e) /\ Explained(e) /\ (~Over(d) => Done(e)) /\ (Over(d) => e = d)
      BY <1>3, <2>4, TriggerStep DEF Modes
    <3>2. Done(e)
      BY <2>4, <3>1 DEF Done, AtRest
    <3> QED
      BY <3>1, <3>2 DEF Quiet
  <2> QED
    BY <1>2, <2>1, <2>2, <2>3, <2>4
<1> QED
  BY <1>3, <1>4, StepTrans DEF Quiet

LEMMA FinishStep ==
  ASSUME NEW c, Sound(c), NEW mode \in Modes, NEW e \in Finish(c, mode)
  PROVE  Quiet(c, e)
<1>1. PICK d \in TriggerHub(c, mode) : e \in Advance(d, FALSE)
  BY DEF Finish
<1>2. Step(c, d) /\ Sound(d)
  BY TriggerStep DEF Step
<1>3. Quiet(d, e)
  BY <1>1, <1>2, AdvanceStep
<1> QED
  BY <1>2, <1>3, StepTrans DEF Quiet

-----------------------------------------------------------------------------
(* The actions *)

Inv == Sound(canvas) /\ Explained(canvas) /\ Done(canvas) /\ disturbances \in 0 .. MaxDisturbances

LEMMA ParkedQuiet ==
  ASSUME NEW c, NEW e, Step(c, e), e.parked = "design"
  PROVE  Quiet(c, e)
  BY DEF Quiet, Explained, Done, AtRest

LEMMA BusyQuiet ==
  ASSUME NEW c, NEW e, Step(c, e), Busy(e)
  PROVE  Quiet(c, e)
  BY DEF Quiet, Explained, Done, AtRest

LEMMA OwedQuiet ==
  ASSUME NEW c, NEW e, Step(c, e), e.due # {}
  PROVE  Quiet(c, e)
  BY DEF Quiet, Explained, Done, AtRest

\* The edits that take a Job away, or give one
LEMMA VjobStep ==
  ASSUME NEW c, Sound(c), NEW f \in Findings, NEW status \in {"none", "active", "failed", "cancelled"},
         NEW d, d = [c EXCEPT !.finding[f].vjob = status]
  PROVE  /\ Step(c, d)
         /\ d.finding[f].vjob = status
         /\ d.due = c.due /\ d.parked = c.parked
<1> DEFINE g == [c.finding[f] EXCEPT !.vjob = status]
<1>1. c.finding[f] \in Finding /\ c \in Canvases /\ c.finding \in [Findings -> FindingRecord]
  BY FindingOf DEF Sound, Canvases
<1>2. /\ g \in FindingRecord /\ g.status = c.finding[f].status /\ g.round = c.finding[f].round
      /\ g.vjob = status
  BY <1>1 DEF Finding, FindingRecord
<1>3. g \in Finding /\ Keeps(c.finding[f], g)
  BY <1>1, <1>2 DEF Finding, Agree, Keeps
<1>4. d = With(c, f, g)
  BY <1>1 DEF With, Canvases
<1> HIDE DEF g
<1> DEFINE e == With(c, f, g)
<1>5. /\ Step(c, e) /\ e.finding = [c.finding EXCEPT ![f] = g]
      /\ e.due = c.due /\ e.parked = c.parked
  BY <1>3, WithStep
<1> HIDE DEF e
<1>6. e.finding[f] = g
  BY <1>1, <1>5
<1>7. d = e
  BY <1>4 DEF e
<1> QED
  BY <1>2, <1>5, <1>6, <1>7

LEMMA FollowStep ==
  ASSUME NEW c, Sound(c), NEW f \in Findings, NEW n \in Nat,
         NEW d, d = [c EXCEPT !.finding[f].follow = n]
  PROVE  /\ Step(c, d)
         /\ d.finding[f].follow = n
<1> DEFINE g == [c.finding[f] EXCEPT !.follow = n]
<1>1. c.finding[f] \in Finding /\ c \in Canvases /\ c.finding \in [Findings -> FindingRecord]
  BY FindingOf DEF Sound, Canvases
<1>2. /\ g \in FindingRecord /\ g.status = c.finding[f].status /\ g.round = c.finding[f].round
      /\ g.follow = n
  BY <1>1 DEF Finding, FindingRecord
<1>3. g \in Finding /\ Keeps(c.finding[f], g)
  BY <1>1, <1>2 DEF Finding, Agree, Keeps
<1>4. d = With(c, f, g)
  BY <1>1 DEF With, Canvases
<1> HIDE DEF g
<1> DEFINE e == With(c, f, g)
<1>5. /\ Step(c, e) /\ e.finding = [c.finding EXCEPT ![f] = g]
      /\ e.due = c.due /\ e.parked = c.parked
  BY <1>3, WithStep
<1> HIDE DEF e
<1>6. e.finding[f] = g
  BY <1>1, <1>5
<1>7. d = e
  BY <1>4 DEF e
<1> QED
  BY <1>2, <1>5, <1>6, <1>7

LEMMA LessFollowStep ==
  ASSUME NEW c, Sound(c), NEW f \in Findings, c.finding[f].follow > 0
  PROVE  Step(c, LessFollow(c, f))
<1>1. c.finding[f].follow - 1 \in Nat
  BY FindingOf DEF Finding, FindingRecord
<1>2. LessFollow(c, f) = [c EXCEPT !.finding[f].follow = c.finding[f].follow - 1]
  BY DEF LessFollow, Sound, Canvases
<1> HIDE DEF LessFollow
<1> QED
  BY <1>1, <1>2, FollowStep

LEMMA LessRoleStep ==
  ASSUME NEW c, Sound(c), c.roles > 0
  PROVE  Step(c, LessRole(c))
<1>1. c \in Canvases /\ c.roles - 1 \in Nat
  BY DEF Sound, Canvases
<1>2. /\ LessRole(c) \in Canvases /\ LessRole(c).finding = c.finding
      /\ LessRole(c).root = c.root /\ LessRole(c).roleDone = c.roleDone /\ LessRole(c).report = c.report
  BY <1>1 DEF LessRole, Canvases
<1> QED
  BY <1>2, EditStep DEF Sound

LEMMA LessHubStep ==
  ASSUME NEW c, Sound(c), c.hubs > 0
  PROVE  Step(c, [c EXCEPT !.hubs = @ - 1])
<1> DEFINE d == [c EXCEPT !.hubs = @ - 1]
<1>1. c \in Canvases /\ c.hubs - 1 \in Nat
  BY DEF Sound, Canvases
<1>2. d \in Canvases /\ d.finding = c.finding /\ d.root = c.root /\ d.roleDone = c.roleDone /\ d.report = c.report
  BY <1>1 DEF Canvases
<1> HIDE DEF d
<1>3. Step(c, d)
  BY <1>2, EditStep DEF Sound
<1> QED
  BY <1>3 DEF d

LEMMA ParkStep ==
  ASSUME NEW c, Sound(c)
  PROVE  Step(c, [c EXCEPT !.parked = "design"]) /\ [c EXCEPT !.parked = "design"].parked = "design"
<1> DEFINE d == [c EXCEPT !.parked = "design"]
<1>1. /\ d \in Canvases /\ d.finding = c.finding /\ d.root = c.root /\ d.roleDone = c.roleDone /\ d.report = c.report
      /\ d.parked = "design"
  BY DEF Sound, Canvases
<1> HIDE DEF d
<1>2. Step(c, d)
  BY <1>1, EditStep DEF Sound
<1> QED
  BY <1>1, <1>2 DEF d

LEMMA OweStep ==
  ASSUME NEW c, Sound(c), NEW kind \in {"work", "hub"}
  PROVE  Step(c, Owe(c, kind)) /\ Owe(c, kind).due # {}
<1> DEFINE d == [c EXCEPT !.due = @ \cup {kind}]
<1>1. /\ d \in Canvases /\ d.finding = c.finding /\ d.root = c.root /\ d.roleDone = c.roleDone /\ d.report = c.report
      /\ kind \in d.due
  BY DEF Sound, Canvases
<1>2. Owe(c, kind) = d
  BY DEF Owe
<1> HIDE DEF d
<1>3. Step(c, d)
  BY <1>1, EditStep DEF Sound
<1> QED
  BY <1>1, <1>2, <1>3

LEMMA ResumedStep ==
  ASSUME NEW c, Sound(c)
  PROVE  /\ Step(c, Resumed(c))
         /\ Busy(c) => Busy(Resumed(c))
         /\ c.asking > 0 => Busy(Resumed(c))
         /\ Resumed(c).root = c.root /\ Resumed(c).due = c.due /\ Resumed(c).parked = c.parked
         /\ Resumed(c).paused = c.paused /\ Resumed(c).stopped = c.stopped
         /\ Reporting(Resumed(c)) <=> Reporting(c)
<1> DEFINE d == [c EXCEPT !.asking = @ - 1, !.hubs = @ + 1]
<1>1. CASE c.asking > 0
  <2>1. c \in Canvases /\ c.asking - 1 \in Nat /\ c.hubs + 1 \in Nat /\ c.hubs + 1 > 0
    BY <1>1 DEF Sound, Canvases
  <2>2. /\ d \in Canvases /\ d.finding = c.finding /\ d.roleDone = c.roleDone /\ d.report = c.report
        /\ d.hubs > 0
        /\ d.root = c.root /\ d.due = c.due /\ d.parked = c.parked
        /\ d.paused = c.paused /\ d.stopped = c.stopped
    BY <2>1 DEF Canvases
  <2>3. Resumed(c) = d
    BY <1>1 DEF Resumed
  <2> HIDE DEF d
  <2>4. Step(c, d) /\ (Reporting(d) <=> Reporting(c))
    BY <2>2, EditStep DEF Sound
  <2> QED
    BY <2>2, <2>3, <2>4 DEF Busy
<1>2. CASE ~(c.asking > 0)
  BY <1>2 DEF Resumed, Step, VerdictsKept, Keeps
<1> QED
  BY <1>1, <1>2

LEMMA RoleDoneStep ==
  ASSUME NEW c, Sound(c)
  PROVE  Step(c, [c EXCEPT !.roleDone = TRUE])
<1> DEFINE d == [c EXCEPT !.roleDone = TRUE]
<1>1. d \in Canvases /\ d.finding = c.finding /\ d.roleDone
  BY DEF Sound, Canvases
<1> HIDE DEF d
<1>2. Step(c, d)
  BY <1>1, EditStep
<1> QED
  BY <1>2 DEF d

LEMMA UnstoppedStep ==
  ASSUME NEW c, Sound(c)
  PROVE  /\ Step(c, [c EXCEPT !.stopped = FALSE])
         /\ [c EXCEPT !.stopped = FALSE].root = c.root
<1> DEFINE d == [c EXCEPT !.stopped = FALSE]
<1>1. d \in Canvases /\ d.finding = c.finding /\ d.root = c.root /\ d.roleDone = c.roleDone /\ d.report = c.report
  BY DEF Sound, Canvases
<1> HIDE DEF d
<1>2. Step(c, d)
  BY <1>1, EditStep DEF Sound
<1> QED
  BY <1>1, <1>2 DEF d

LEMMA SelfStep ==
  ASSUME NEW c, Sound(c)
  PROVE  Step(c, c)
  BY DEF Step, VerdictsKept, Keeps

LEMMA FindingReportedStep ==
  ASSUME Inv, NEW f \in Findings, FindingReported(f)
  PROVE  Quiet(canvas, canvas')
<1> DEFINE g == [canvas.finding[f] EXCEPT !.status = "pending"]
<1>1. Sound(canvas) /\ canvas.finding[f] \in Finding
  BY FindingOf DEF Inv
<1>2. canvas.finding[f].status = "absent" /\ canvas.roles > 0
  BY DEF FindingReported
<1>3. g \in FindingRecord /\ g.status = "pending" /\ g.round = canvas.finding[f].round
  BY <1>1 DEF Finding, FindingRecord, Statuses
<1>4. g \in Finding /\ g.status \notin Converged
  BY <1>1, <1>2, <1>3 DEF Finding, Agree, Converged
<1>5. \/ canvas' = With(canvas, f, Settle(g, "inconclusive"))
      \/ canvas' = With(canvas, f, CreateVerifyRound(g, FALSE, FALSE))
  BY DEF FindingReported
<1> HIDE DEF g
<1>6. "inconclusive" \in Converged
  BY DEF Converged
<1>7. Settle(g, "inconclusive") \in Finding /\ CreateVerifyRound(g, FALSE, FALSE) \in Finding
  BY <1>4, <1>6, SettleType, CreateType
<1>8. ASSUME NEW h \in Finding
      PROVE  Step(canvas, With(canvas, f, h)) /\ With(canvas, f, h).roles = canvas.roles
  <2>1. Keeps(canvas.finding[f], h)
    BY <1>2 DEF Keeps, Converged
  <2> QED
    BY <1>1, <2>1, WithStep, ZenonT(40)
<1> DEFINE settled == Settle(g, "inconclusive")
           created == CreateVerifyRound(g, FALSE, FALSE)
<1>9. Step(canvas, canvas') /\ canvas'.roles = canvas.roles
  <2>1. settled \in Finding /\ created \in Finding
    BY <1>7
  <2>2. canvas' = With(canvas, f, settled) \/ canvas' = With(canvas, f, created)
    BY <1>5
  <2> HIDE DEF settled, created
  <2> QED
    BY <2>1, <2>2, <1>8
<1> QED
  BY <1>2, <1>9, BusyQuiet DEF Busy, RoleActive

LEMMA EvidenceReportedStep ==
  ASSUME Inv, NEW f \in Findings, NEW gate \in Gates, EvidenceReported(f, gate)
  PROVE  Quiet(canvas, canvas')
<1> DEFINE g == [canvas.finding[f] EXCEPT !.gate = gate, !.seen = TRUE]
<1>1. Sound(canvas) /\ canvas.finding[f] \in Finding /\ canvas.finding[f].follow > 0
  BY FindingOf DEF Inv, EvidenceReported
<1>2. /\ g \in FindingRecord /\ g.status = canvas.finding[f].status
      /\ g.round = canvas.finding[f].round /\ g.follow = canvas.finding[f].follow
  BY <1>1 DEF Finding, FindingRecord
<1>3. g \in Finding /\ Keeps(canvas.finding[f], g)
  BY <1>1, <1>2 DEF Finding, Agree, Keeps
<1>4. canvas' = With(canvas, f, g)
  BY DEF EvidenceReported
<1> HIDE DEF g
<1>5. Step(canvas, canvas') /\ canvas'.finding = [canvas.finding EXCEPT ![f] = g]
  BY <1>1, <1>3, <1>4, WithStep
<1>6. canvas.finding \in [Findings -> FindingRecord]
  BY <1>1 DEF Sound, Canvases
<1>7. canvas'.finding[f].follow > 0
  BY <1>1, <1>2, <1>5, <1>6
<1> QED
  BY <1>5, <1>7, BusyQuiet DEF Busy, RoleActive, FollowActive

LEMMA RoleSucceedsStep ==
  ASSUME Inv, RoleSucceeds
  PROVE  Quiet(canvas, canvas')
<1> DEFINE c == [LessRole(canvas) EXCEPT !.roleDone = TRUE]
<1>1. Step(canvas, LessRole(canvas)) /\ Sound(LessRole(canvas))
  BY LessRoleStep DEF Inv, RoleSucceeds, Step
<1>2. Step(canvas, c) /\ Sound(c)
  BY <1>1, RoleDoneStep, StepTrans DEF Step
<1>3. PICK mode \in {"normal", "force"} : canvas' \in Finish(c, mode)
  BY DEF RoleSucceeds
<1> HIDE DEF c
<1>4. Quiet(c, canvas')
  BY <1>2, <1>3, FinishStep DEF Modes
<1> QED
  BY <1>2, <1>4, StepTrans DEF Quiet

LEMMA FollowUpSucceedsStep ==
  ASSUME Inv, NEW f \in Findings, FollowUpSucceeds(f)
  PROVE  Quiet(canvas, canvas')
<1> DEFINE g == [canvas.finding[f] EXCEPT !.follow = @ - 1]
<1>1. Sound(canvas) /\ canvas.finding[f] \in Finding
  BY FindingOf DEF Inv
<1>2. canvas.finding[f].follow - 1 \in Nat
  BY <1>1 DEF FollowUpSucceeds, Finding, FindingRecord
<1>3. /\ g \in FindingRecord /\ g.status = canvas.finding[f].status
      /\ g.round = canvas.finding[f].round
  BY <1>1, <1>2 DEF Finding, FindingRecord
<1>4. g \in Finding
  BY <1>1, <1>3 DEF Finding, Agree
<1>5. PICK deep \in BOOLEAN, pair \in BOOLEAN :
        canvas' \in Finish([With(canvas, f, MaybeReverify(g, deep, pair)) EXCEPT !.roleDone = TRUE],
                           "normal")
  BY DEF FollowUpSucceeds
<1> HIDE DEF g
<1>6. MaybeReverify(g, deep, pair) \in Finding /\ Keeps(canvas.finding[f], MaybeReverify(g, deep, pair))
  BY <1>3, <1>4, MaybeReverifyType DEF Keeps
<1> DEFINE h == MaybeReverify(g, deep, pair)
           d == With(canvas, f, h)
           c == [d EXCEPT !.roleDone = TRUE]
<1>7. h \in Finding /\ Keeps(canvas.finding[f], h)
  BY <1>6
<1> HIDE DEF h
<1>8. Step(canvas, d) /\ Sound(d)
  BY <1>1, <1>7, WithStep DEF Step
<1> HIDE DEF d
<1>9. Step(d, c) /\ Sound(c)
  BY <1>8, RoleDoneStep DEF Step
<1>10. canvas' \in Finish(c, "normal")
  BY <1>5 DEF d, h
<1> HIDE DEF c
<1>11. Quiet(c, canvas')
  BY <1>9, <1>10, FinishStep DEF Modes
<1> QED
  BY <1>8, <1>9, <1>11, StepTrans DEF Quiet

\* The ends of a role, or of evidence Job f, that judge nothing
LEMMA RoleEndsStep ==
  ASSUME Inv, RoleFails \/ RoleReaped \/ RoleAbandoned
  PROVE  Quiet(canvas, canvas')
<1> DEFINE c == LessRole(canvas)
<1>1. Step(canvas, c) /\ Sound(c)
  BY LessRoleStep DEF Inv, RoleFails, RoleReaped, RoleAbandoned, Step
<1>2. \/ canvas' \in Advance(c, FALSE)
      \/ canvas' = Owe(c, "work")
      \/ canvas' = [c EXCEPT !.parked = "design"]
  BY DEF RoleFails, RoleReaped, RoleAbandoned
<1> HIDE DEF c
<1>3. CASE canvas' \in Advance(c, FALSE)
  BY <1>1, <1>3, AdvanceStep, StepTrans DEF Quiet
<1>4. CASE canvas' = Owe(c, "work")
  BY <1>1, <1>4, OweStep, StepTrans, OwedQuiet
<1>5. CASE canvas' = [c EXCEPT !.parked = "design"]
  BY <1>1, <1>5, ParkStep, StepTrans, ParkedQuiet
<1> QED
  BY <1>2, <1>3, <1>4, <1>5

LEMMA FollowUpEndsStep ==
  ASSUME Inv, NEW f \in Findings, FollowUpFails(f) \/ FollowUpReaped(f) \/ FollowUpAbandoned(f)
  PROVE  Quiet(canvas, canvas')
<1> DEFINE c == LessFollow(canvas, f)
<1>1. Step(canvas, c) /\ Sound(c)
  BY LessFollowStep DEF Inv, FollowUpFails, FollowUpReaped, FollowUpAbandoned, Step
<1>2. \/ canvas' \in Advance(c, FALSE)
      \/ canvas' = Owe(c, "work")
      \/ canvas' = [c EXCEPT !.parked = "design"]
  BY DEF FollowUpFails, FollowUpReaped, FollowUpAbandoned
<1> HIDE DEF c
<1>3. CASE canvas' \in Advance(c, FALSE)
  BY <1>1, <1>3, AdvanceStep, StepTrans DEF Quiet
<1>4. CASE canvas' = Owe(c, "work")
  BY <1>1, <1>4, OweStep, StepTrans, OwedQuiet
<1>5. CASE canvas' = [c EXCEPT !.parked = "design"]
  BY <1>1, <1>5, ParkStep, StepTrans, ParkedQuiet
<1> QED
  BY <1>2, <1>3, <1>4, <1>5

LEMMA OwedAdvanceStep ==
  ASSUME Inv, NEW kind, AdvanceOwed(kind) \/ AdvanceLost(kind)
  PROVE  Quiet(canvas, canvas')
<1> DEFINE c == [canvas EXCEPT !.due = @ \ {kind}]
           e == [canvas EXCEPT !.due = @ \ {kind}, !.parked = "design"]
<1>1. Sound(canvas) /\ canvas \in Canvases
  BY DEF Inv, Sound
<1>2. /\ c \in Canvases /\ c.finding = canvas.finding /\ c.root = canvas.root
      /\ c.roleDone = canvas.roleDone /\ c.report = canvas.report
  BY <1>1 DEF Canvases
<1>3. /\ e \in Canvases /\ e.finding = canvas.finding /\ e.root = canvas.root
      /\ e.roleDone = canvas.roleDone /\ e.report = canvas.report /\ e.parked = "design"
  BY <1>1 DEF Canvases
<1>4. canvas' \in Advance(c, kind = "hub") \/ canvas' = e
  BY DEF AdvanceOwed, AdvanceLost
<1> HIDE DEF c, e
<1>5. Step(canvas, c) /\ Sound(c) /\ Step(canvas, e)
  BY <1>1, <1>2, <1>3, EditStep DEF Sound, Step
<1>6. CASE canvas' \in Advance(c, kind = "hub")
  BY <1>5, <1>6, AdvanceStep, StepTrans DEF Quiet
<1>7. CASE canvas' = e
  BY <1>3, <1>5, <1>7, ParkedQuiet
<1> QED
  BY <1>4, <1>6, <1>7

LEMMA VerifySucceedsStep ==
  ASSUME Inv, NEW f \in Findings, NEW proposed \in Proposals, VerifySucceeds(f, proposed)
  PROVE  Quiet(canvas, canvas')
<1> DEFINE g == [canvas.finding[f] EXCEPT !.vjob = "none"]
           h == CloseSucceeded(g, proposed)
           b == With(canvas, f, g)
           c == With(canvas, f, h)
           d == [c EXCEPT !.stopped = FALSE]
<1>1. Sound(canvas) /\ canvas.finding[f] \in Finding
  BY FindingOf DEF Inv
<1>2. /\ g \in FindingRecord /\ g.status = canvas.finding[f].status
      /\ g.round = canvas.finding[f].round
  BY <1>1 DEF Finding, FindingRecord
<1>3. g \in Finding /\ Keeps(canvas.finding[f], g)
  BY <1>1, <1>2 DEF Finding, Agree, Keeps
<1>4. \/ canvas' \in Finish(b, "normal")
      \/ g.round = "job" /\ canvas' \in Finish(d, "force")
      \/ g.round = "job" /\ canvas' \in Finish(c, "force")
      \/ g.round = "job" /\ canvas' \in Finish(c, "normal")
  BY DEF VerifySucceeds
<1> HIDE DEF g
<1>5. h \in Finding
  BY <1>3, CloseSucceededType
<1>6. g.round = "job" => Keeps(canvas.finding[f], h)
  BY <1>2, <1>3 DEF Finding, Agree, Keeps, Converged
<1> HIDE DEF h
<1>7. Step(canvas, b) /\ Sound(b)
  BY <1>1, <1>3, WithStep DEF Step
<1>8. g.round = "job" => Step(canvas, c) /\ Sound(c)
  BY <1>1, <1>5, <1>6, WithStep DEF Step
<1> HIDE DEF b, c
<1>9. g.round = "job" => Step(canvas, d) /\ Sound(d)
  BY <1>8, UnstoppedStep, StepTrans DEF Step
<1> HIDE DEF d
<1>10. CASE canvas' \in Finish(b, "normal")
  BY <1>7, <1>10, FinishStep, StepTrans DEF Quiet, Modes
<1>11. CASE g.round = "job" /\ canvas' \in Finish(d, "force")
  BY <1>9, <1>11, FinishStep, StepTrans DEF Quiet, Modes
<1>12. CASE g.round = "job" /\ canvas' \in Finish(c, "force")
  BY <1>8, <1>12, FinishStep, StepTrans DEF Quiet, Modes
<1>13. CASE g.round = "job" /\ canvas' \in Finish(c, "normal")
  BY <1>8, <1>13, FinishStep, StepTrans DEF Quiet, Modes
<1> QED
  BY <1>4, <1>10, <1>11, <1>12, <1>13

LEMMA VerifyEndsStep ==
  ASSUME Inv, NEW f \in Findings,
         VerifyFails(f) \/ VerifyReaped(f) \/ VerifyCancelled(f) \/ VerifyRerun(f)
  PROVE  Quiet(canvas, canvas')
<1>1. ASSUME NEW status \in {"none", "active", "failed", "cancelled"}
      PROVE  /\ Step(canvas, VerifyEnds(f, status)) /\ Sound(VerifyEnds(f, status))
             /\ VerifyEnds(f, status).finding[f].vjob = status
  BY VjobStep DEF VerifyEnds, Inv, Step
<1>2. CASE VerifyFails(f)
  BY <1>1, <1>2, AdvanceStep, StepTrans DEF VerifyFails, Quiet
<1>3. CASE VerifyReaped(f)
  BY <1>1, <1>3, OweStep, StepTrans, OwedQuiet DEF VerifyReaped
<1>4. CASE VerifyCancelled(f)
  BY <1>1, <1>4, ParkStep, StepTrans, ParkedQuiet DEF VerifyCancelled
<1>5. CASE VerifyRerun(f)
  BY <1>1, <1>5, BusyQuiet DEF VerifyRerun, Busy, VerifyActive
<1> QED
  BY <1>2, <1>3, <1>4, <1>5

\* A round that is recovered was open: the canvas was not complete and at rest.
LEMMA RecoverVerifyStep ==
  ASSUME Inv, NEW f \in Findings, RecoverVerify(f)
  PROVE  Quiet(canvas, canvas')
<1> DEFINE g == canvas.finding[f]
           k == CloseFailed(g, g.vjob)
           h == [k EXCEPT !.vjob = IF @ = "failed" THEN @ ELSE "none"]
           c == With(canvas, f, h)
           d == [c EXCEPT !.stopped = FALSE]
<1>1. Sound(canvas) /\ g \in Finding /\ g.round = "job" /\ g.vjob \in {"failed", "cancelled"}
  BY FindingOf DEF Inv, RecoverVerify
<1>2. g.status = "verifying"
  BY <1>1 DEF Finding, Agree
<1>3. /\ k \in Finding /\ k.status \in {"pending", "inconclusive"} /\ k.vjob = g.vjob
      /\ k.report = g.report
  BY <1>1, CloseFailedType
<1>4. canvas' \in TriggerHub(d, "force") \/ canvas' = c
  BY DEF RecoverVerify
<1> HIDE DEF k
<1>5. /\ h \in FindingRecord /\ h.status = k.status /\ h.round = k.round
      /\ h.vjob \in {"none", "failed"} /\ h.report = g.report
  BY <1>1, <1>3 DEF Finding, FindingRecord
<1>6. h \in Finding /\ Keeps(canvas.finding[f], h)
  BY <1>2, <1>3, <1>5 DEF Finding, Agree, Keeps, Converged
<1> HIDE DEF h
<1>7. /\ Step(canvas, c) /\ Sound(c)
      /\ c.root = canvas.root /\ c.roles = canvas.roles
      /\ c.hubs = canvas.hubs /\ c.asking = canvas.asking
      /\ c.stopped = canvas.stopped /\ c.paused = canvas.paused /\ c.due = canvas.due
      /\ c.parked = canvas.parked /\ c.report = canvas.report
  <2>1. Step(canvas, c)
    BY <1>1, <1>6, WithStep
  <2>2. Sound(c)
    BY <2>1 DEF Step
  <2>3. /\ c.root = canvas.root /\ c.roles = canvas.roles
        /\ c.hubs = canvas.hubs /\ c.asking = canvas.asking /\ c.due = canvas.due
        /\ c.report = canvas.report
    BY <1>1 DEF c, With, Sound, Canvases
  <2>4. /\ c.stopped = canvas.stopped /\ c.paused = canvas.paused
        /\ c.parked = canvas.parked
    BY <1>1, <1>6, WithStep, ZenonT(40)
  <2> QED
    BY <2>1, <2>2, <2>3, <2>4
<1>8. \A e \in Findings : /\ c.finding[e].follow = IF e = f THEN h.follow ELSE canvas.finding[e].follow
                          /\ c.finding[e].vjob = IF e = f THEN h.vjob ELSE canvas.finding[e].vjob
                          /\ c.finding[e].report <=> canvas.finding[e].report
  <2>1. c.finding = [canvas.finding EXCEPT ![f] = h]
    BY <1>1, <1>6, WithStep
  <2>2. canvas.finding \in [Findings -> FindingRecord]
    BY <1>1 DEF Sound, Canvases
  <2> QED
    BY <1>5, <2>1, <2>2
<1>9. h.follow = g.follow
  <2>1. k.follow = g.follow
    <3>1. "inconclusive" \in Converged
      BY DEF Converged
    <3>2. /\ Conclude(g, "inconclusive") \in FindingRecord
          /\ Conclude(g, "inconclusive").follow = g.follow
      BY <1>1, <3>1, ConcludeType DEF Finding
    <3> QED
      BY <1>1, <3>2 DEF k, CloseFailed, Finding, FindingRecord
  <2> QED
    BY <2>1, <1>3 DEF h, Finding, FindingRecord
<1>10. Busy(c) <=> Busy(canvas)
  BY <1>1, <1>5, <1>7, <1>8, <1>9 DEF Busy, RoleActive, FollowActive, VerifyActive
<1>11. ~FindingsConverged(canvas)
  BY <1>2 DEF FindingsConverged, Converged
<1>16. Reporting(canvas) <=> Reporting(c)
  BY <1>7, <1>8 DEF Reporting
<1>12. Explained(c) /\ ~AtRest(c)
  BY <1>7, <1>10, <1>11, <1>16 DEF Inv, Explained, Done, AtRest
<1> HIDE DEF c
<1>13. Step(c, d) /\ Sound(d) /\ d.root = c.root
  BY <1>7, UnstoppedStep DEF Step
<1>14. CASE canvas' \in TriggerHub(d, "force")
  <2>1. /\ Step(d, canvas') /\ Explained(canvas')
        /\ ~Over(d) => Done(canvas')
        /\ Over(d) => canvas' = d
    BY <1>13, <1>14, TriggerStep DEF Modes
  <2>2. d.due = c.due /\ d.parked = c.parked /\ d.finding = c.finding
        /\ d.roles = c.roles /\ d.hubs = c.hubs /\ d.asking = c.asking
    BY <1>7 DEF Sound, Canvases
  <2>3. AtRest(d) <=> AtRest(c)
    BY <1>13, <2>2 DEF AtRest, Busy, RoleActive, FollowActive, VerifyActive
  <2>4. Done(canvas')
    BY <2>1, <2>3, <1>12 DEF Done
  <2> QED
    BY <1>7, <1>13, <2>1, <2>4, StepTrans DEF Quiet
<1>15. CASE canvas' = c
  BY <1>7, <1>12, <1>15 DEF Quiet, Done
<1> QED
  BY <1>4, <1>14, <1>15

LEMMA StartFollowStep ==
  ASSUME Inv, NEW f \in Findings, HubStartsFollowUp(f) \/ HumanStartsFollowUp(f)
  PROVE  Quiet(canvas, canvas')
<1> DEFINE c == OneMoreFollow(f)
<1>1. Sound(canvas) /\ canvas.finding[f] \in Finding
  BY FindingOf DEF Inv
<1>2. canvas.finding[f].follow + 1 \in Nat /\ canvas.finding[f].follow + 1 > 0
  BY <1>1 DEF Finding, FindingRecord
<1>3. c = [canvas EXCEPT !.finding[f].follow = canvas.finding[f].follow + 1]
  BY <1>1 DEF OneMoreFollow, Sound, Canvases
<1>4. canvas' = c \/ canvas' = Resumed(c)
  BY DEF HubStartsFollowUp, HumanStartsFollowUp
<1> HIDE DEF c
<1>5. Step(canvas, c) /\ c.finding[f].follow = canvas.finding[f].follow + 1
  BY <1>1, <1>2, <1>3, FollowStep
<1>6. Sound(c) /\ Busy(c)
  BY <1>2, <1>5 DEF Step, Busy, RoleActive, FollowActive
<1>7. CASE canvas' = c
  BY <1>5, <1>6, <1>7, BusyQuiet
<1>8. CASE canvas' = Resumed(c)
  BY <1>5, <1>6, <1>8, ResumedStep, StepTrans, BusyQuiet
<1> QED
  BY <1>4, <1>7, <1>8

LEMMA StartRoleStep ==
  ASSUME Inv, HubStartsRole \/ HumanStartsRole
  PROVE  Quiet(canvas, canvas')
<1>1. canvas \in Canvases /\ canvas.roles + 1 \in Nat /\ canvas.roles + 1 > 0 /\ Sound(canvas)
  BY DEF Inv, Sound, Canvases
<1>2. canvas' = [canvas EXCEPT !.roles = @ + 1]
  BY DEF HubStartsRole, HumanStartsRole
<1>3. /\ canvas' \in Canvases /\ canvas'.finding = canvas.finding /\ canvas'.root = canvas.root
      /\ canvas'.roleDone = canvas.roleDone /\ canvas'.report = canvas.report /\ canvas'.roles > 0
  BY <1>1, <1>2 DEF Canvases
<1>4. Step(canvas, canvas')
  BY <1>1, <1>3, EditStep DEF Sound
<1> QED
  BY <1>3, <1>4, BusyQuiet DEF Busy, RoleActive

LEMMA HubCompletesStep ==
  ASSUME Inv, HubCompletes
  PROVE  Quiet(canvas, canvas')
<1>1. canvas \in Canvases /\ Sound(canvas) /\ FindingsConverged(canvas) /\ canvas.roleDone
  BY DEF Inv, Sound, HubCompletes
<1>2. canvas' = [canvas EXCEPT !.root = "analysis_complete"]
  BY DEF HubCompletes
<1>3. /\ canvas' \in Canvases /\ canvas'.finding = canvas.finding
      /\ canvas'.root = "analysis_complete" /\ canvas'.roleDone = canvas.roleDone /\ canvas'.report = canvas.report
  BY <1>1, <1>2 DEF Canvases
<1>4. Step(canvas, canvas') /\ (FindingsConverged(canvas') <=> FindingsConverged(canvas))
  BY <1>1, <1>3, EditStep
<1> QED
  BY <1>1, <1>3, <1>4 DEF Quiet, Explained, Done

LEMMA HubEndsStep ==
  ASSUME Inv, HubFails \/ HubReaped
  PROVE  Quiet(canvas, canvas')
<1> DEFINE c == [canvas EXCEPT !.hubs = @ - 1]
<1>1. Step(canvas, c) /\ Sound(c)
  BY LessHubStep DEF Inv, HubFails, HubReaped, Step
<1>2. canvas' \in Advance(c, TRUE) \/ canvas' = Owe(c, "hub")
  BY DEF HubFails, HubReaped
<1> HIDE DEF c
<1>3. CASE canvas' \in Advance(c, TRUE)
  BY <1>1, <1>3, AdvanceStep, StepTrans DEF Quiet
<1>4. CASE canvas' = Owe(c, "hub")
  BY <1>1, <1>4, OweStep, StepTrans, OwedQuiet
<1> QED
  BY <1>2, <1>3, <1>4

LEMMA HubSucceedsStep ==
  ASSUME Inv, HubSucceeds
  PROVE  Quiet(canvas, canvas')
<1> DEFINE n == Saturate(canvas.rounds + 1, Later(MaxHubRounds, EscalateAfter))
           c == [canvas EXCEPT !.hubs = @ - 1, !.rounds = n]
<1>1. Sound(canvas) /\ canvas \in Canvases /\ canvas.hubs > 0 /\ canvas.rounds + 1 \in Nat
  BY DEF Inv, Sound, HubSucceeds, Canvases
<1>2. Later(MaxHubRounds, EscalateAfter) \in Nat
  BY ConvergenceAssumption DEF ConvergenceAssumption, Later, EscalateAfter
<1>3. n \in Nat /\ canvas.hubs - 1 \in Nat
  <2>1. n \in Nat
    BY <1>1, <1>2, SaturateType
  <2>2. canvas.hubs - 1 \in Nat
    BY <1>1 DEF Canvases
  <2> QED
    BY <2>1, <2>2
<1>4. canvas' \in Advance(c, FALSE)
  BY DEF HubSucceeds
<1> HIDE DEF n
<1>5. c \in Canvases /\ c.finding = canvas.finding /\ c.root = canvas.root
      /\ c.roleDone = canvas.roleDone /\ c.report = canvas.report
  BY <1>1, <1>3 DEF Canvases
<1> HIDE DEF c
<1>6. Step(canvas, c) /\ Sound(c)
  BY <1>1, <1>5, EditStep DEF Sound, Step
<1> QED
  BY <1>4, <1>6, AdvanceStep, StepTrans DEF Quiet

LEMMA HubCancelledStep ==
  ASSUME Inv, HubCancelled
  PROVE  Quiet(canvas, canvas')
<1>1. Sound(canvas) /\ canvas \in Canvases
  BY DEF Inv, Sound
<1>2. /\ canvas' \in Canvases /\ canvas'.finding = canvas.finding /\ canvas'.root = canvas.root
      /\ canvas'.roleDone = canvas.roleDone /\ canvas'.report = canvas.report /\ canvas'.parked = "design"
  <2>1. CASE canvas.hubs > 0 /\ canvas' = [canvas EXCEPT !.hubs = @ - 1, !.parked = "design"]
    <3>1. canvas.hubs - 1 \in Nat
      BY <1>1, <2>1 DEF Canvases
    <3> QED
      BY <1>1, <2>1, <3>1 DEF Canvases
  <2>2. CASE canvas.asking > 0 /\ canvas' = [canvas EXCEPT !.asking = @ - 1, !.parked = "design"]
    <3>1. canvas.asking - 1 \in Nat
      BY <1>1, <2>2 DEF Canvases
    <3> QED
      BY <1>1, <2>2, <3>1 DEF Canvases
  <2> QED
    BY <2>1, <2>2 DEF HubCancelled
<1>3. Step(canvas, canvas')
  BY <1>1, <1>2, EditStep DEF Sound
<1> QED
  BY <1>2, <1>3, ParkedQuiet

LEMMA HubAsksHumanStep ==
  ASSUME Inv, HubAsksHuman
  PROVE  Quiet(canvas, canvas')
<1>1. Sound(canvas) /\ canvas \in Canvases /\ canvas.hubs > 0
  BY DEF Inv, Sound, HubAsksHuman
<1>2. canvas.hubs - 1 \in Nat /\ canvas.asking + 1 \in Nat /\ canvas.asking + 1 > 0
  BY <1>1 DEF Canvases
<1>3. /\ canvas' \in Canvases /\ canvas'.finding = canvas.finding /\ canvas'.root = canvas.root
      /\ canvas'.roleDone = canvas.roleDone /\ canvas'.report = canvas.report /\ canvas'.asking > 0
  BY <1>1, <1>2 DEF HubAsksHuman, Canvases
<1>4. Step(canvas, canvas')
  BY <1>1, <1>3, EditStep DEF Sound
<1> QED
  BY <1>3, <1>4, BusyQuiet DEF Busy

LEMMA HumanRepliesStep ==
  ASSUME Inv, HumanReplies
  PROVE  Quiet(canvas, canvas')
  BY ResumedStep, BusyQuiet DEF Inv, HumanReplies

LEMMA HumanSettlesStep ==
  ASSUME Inv, NEW f \in Findings, HumanSettles(f)
  PROVE  Quiet(canvas, canvas')
<1> DEFINE g == canvas.finding[f]
           h == Settle(g, "needs_human")
           c == With(canvas, f, h)
<1>1. /\ Sound(canvas) /\ g \in Finding /\ canvas.asking > 0
      /\ g.status \in {"pending", "verifying", "needs_human"}
  BY FindingOf DEF Inv, HumanSettles
<1>2. "needs_human" \in Converged
  BY DEF Converged
<1>3. h \in Finding /\ Keeps(canvas.finding[f], h)
  BY <1>1, <1>2, SettleType DEF Keeps, Converged
<1>4. canvas' = Resumed(c)
  BY DEF HumanSettles
<1> HIDE DEF h
<1>5. Step(canvas, c) /\ Sound(c)
  BY <1>1, <1>3, WithStep DEF Step
<1>6. c.asking > 0
  BY <1>1 DEF With, Sound, Canvases
<1> HIDE DEF c
<1> QED
  BY <1>4, <1>5, <1>6, ResumedStep, StepTrans, BusyQuiet

\* A finding without a verdict is written: the canvas was not complete and at
\* rest, and nobody who was active is active no more.
LEMMA OpenFindingWritten ==
  ASSUME Inv, NEW f \in Findings, canvas.finding[f].status \notin Converged \cup {"absent"},
         NEW h \in Finding, h.vjob \in {"active", canvas.finding[f].vjob},
         h.follow = canvas.finding[f].follow, canvas.finding[f].report => h.report
  PROVE  Quiet(canvas, With(canvas, f, h)) /\ ~AtRest(With(canvas, f, h))
<1> DEFINE c == With(canvas, f, h)
<1>1. Sound(canvas) /\ Keeps(canvas.finding[f], h)
  BY DEF Inv, Keeps
<1>2. Step(canvas, c) /\ c.finding = [canvas.finding EXCEPT ![f] = h]
  BY <1>1, WithStep
<1>3. /\ c.root = canvas.root /\ c.roles = canvas.roles
      /\ c.hubs = canvas.hubs /\ c.asking = canvas.asking /\ c.due = canvas.due
      /\ c.stopped = canvas.stopped /\ c.paused = canvas.paused /\ c.parked = canvas.parked
      /\ c.report = canvas.report
  BY <1>1 DEF With, Sound, Canvases
<1>4. canvas.finding \in [Findings -> FindingRecord]
  BY <1>1 DEF Sound, Canvases
<1>5. \A e \in Findings :
        /\ c.finding[e].follow = canvas.finding[e].follow
        /\ canvas.finding[e].vjob = "active" => c.finding[e].vjob = "active"
        /\ canvas.finding[e].report => c.finding[e].report
  BY <1>2, <1>4
<1>6. Busy(canvas) => Busy(c)
  BY <1>3, <1>5 DEF Busy, RoleActive, FollowActive, VerifyActive
<1>7. ~FindingsConverged(canvas)
  BY DEF FindingsConverged
<1>9. Reporting(canvas) => Reporting(c)
  BY <1>3, <1>5 DEF Reporting
<1>8. Explained(c) /\ ~AtRest(c)
  BY <1>3, <1>6, <1>7, <1>9 DEF Inv, Explained, Done, AtRest
<1> QED
  BY <1>2, <1>8 DEF Quiet, Done

LEMMA HumanVerifiesStep ==
  ASSUME Inv, NEW f \in Findings, NEW deep \in BOOLEAN, HumanVerifies(f, deep)
  PROVE  Quiet(canvas, canvas')
<1> DEFINE g == canvas.finding[f]
           h == CreateVerifyRound(g, deep, TRUE)
           c == With(canvas, f, h)
<1>1. g \in Finding /\ g.status \in {"pending", "verifying"}
  BY FindingOf DEF Inv, HumanVerifies
<1>2. g.status \notin Converged \cup {"absent"}
  BY <1>1 DEF Converged
<1>3. /\ h \in Finding /\ h.vjob \in {"active", g.vjob} /\ h.follow = g.follow
      /\ g.report => h.report
  BY <1>1, <1>2, CreateType
<1>4. canvas' = c \/ canvas' = Resumed(c)
  BY DEF HumanVerifies
<1> HIDE DEF h
<1>5. Quiet(canvas, c) /\ ~AtRest(c)
  BY <1>2, <1>3, OpenFindingWritten
<1> HIDE DEF c
<1>6. CASE canvas' = c
  BY <1>5, <1>6
<1>7. CASE canvas' = Resumed(c)
  <2>1. /\ Step(c, canvas')
        /\ Busy(c) => Busy(canvas')
        /\ canvas'.root = c.root /\ canvas'.due = c.due /\ canvas'.parked = c.parked
        /\ canvas'.paused = c.paused /\ canvas'.stopped = c.stopped
        /\ Reporting(canvas') <=> Reporting(c)
    BY <1>5, <1>7, ResumedStep DEF Quiet, Step
  <2>2. Explained(canvas') /\ ~AtRest(canvas')
    BY <1>5, <2>1 DEF Quiet, Explained, AtRest
  <2> QED
    BY <1>5, <2>1, <2>2, StepTrans DEF Quiet, Done
<1> QED
  BY <1>4, <1>6, <1>7

LEMMA BootNormalizesStep ==
  ASSUME Inv, NEW f \in Findings, BootNormalizes(f)
  PROVE  Quiet(canvas, canvas')
<1> DEFINE g == canvas.finding[f]
           h == CreateVerifyRound(g, FALSE, FALSE)
<1>1. g \in Finding /\ g.status = "pending"
  BY FindingOf DEF Inv, BootNormalizes, Waiting, Finding, Agree
<1>2. g.status \notin Converged \cup {"absent"}
  BY <1>1 DEF Converged
<1>3. /\ h \in Finding /\ h.vjob \in {"active", g.vjob} /\ h.follow = g.follow
      /\ g.report => h.report
  BY <1>1, <1>2, CreateType
<1>4. canvas' = With(canvas, f, h)
  BY DEF BootNormalizes
<1> HIDE DEF h
<1> QED
  BY <1>2, <1>3, <1>4, OpenFindingWritten

LEMMA PauseStep ==
  ASSUME Inv, Pause
  PROVE  Quiet(canvas, canvas')
<1>1. Sound(canvas) /\ canvas \in Canvases
  BY DEF Inv, Sound
<1>2. PICK stale \in BOOLEAN : canvas' = [canvas EXCEPT !.paused = TRUE, !.stopped = stale]
  BY DEF Pause
<1>3. /\ canvas' \in Canvases /\ canvas'.finding = canvas.finding /\ canvas'.root = canvas.root
      /\ canvas'.roleDone = canvas.roleDone /\ canvas'.report = canvas.report /\ canvas'.paused
  BY <1>1, <1>2 DEF Canvases
<1>4. /\ canvas'.roles = canvas.roles /\ canvas'.hubs = canvas.hubs
      /\ canvas'.asking = canvas.asking /\ canvas'.due = canvas.due
  BY <1>1, <1>2 DEF Canvases
<1>5. canvas'.parked = canvas.parked
  BY <1>1, <1>2 DEF Canvases
<1>6. /\ Step(canvas, canvas')
      /\ FollowActive(canvas') <=> FollowActive(canvas)
      /\ VerifyActive(canvas') <=> VerifyActive(canvas)
      /\ FindingsConverged(canvas') <=> FindingsConverged(canvas)
  BY <1>1, <1>3, EditStep DEF Sound
<1>7. Busy(canvas') <=> Busy(canvas)
  BY <1>4, <1>6 DEF Busy, RoleActive
<1> QED
  BY <1>3, <1>4, <1>5, <1>6, <1>7 DEF Inv, Quiet, Explained, Done, AtRest

LEMMA ResumeStep ==
  ASSUME Inv, Resume
  PROVE  Quiet(canvas, canvas')
<1>1. Sound(canvas) /\ canvas \in Canvases
  BY DEF Inv, Sound
<1>2. /\ canvas' \in Canvases /\ canvas'.finding = canvas.finding /\ canvas'.root = canvas.root
      /\ canvas'.roleDone = canvas.roleDone /\ canvas'.report = canvas.report /\ canvas'.parked = "design"
  BY <1>1 DEF Resume, Canvases
<1>3. Step(canvas, canvas')
  BY <1>1, <1>2, EditStep DEF Sound
<1> QED
  BY <1>2, <1>3, ParkedQuiet

\* A trigger an operator asked for, after the flags were changed, leaves a canvas
\* that is over as it is.
LEMMA OperatorTriggerStep ==
  ASSUME Inv, NEW c \in Canvases, c.finding = canvas.finding, c.root = canvas.root,
         c.roleDone = canvas.roleDone, c.report = canvas.report, c.roles = canvas.roles,
         c.hubs = canvas.hubs, c.asking = canvas.asking, c.due = canvas.due,
         c.parked = canvas.parked,
         NEW mode \in Modes, mode # "normal", NEW e \in TriggerHub(c, mode)
  PROVE  Quiet(canvas, e)
<1>1. Sound(canvas)
  BY DEF Inv
<1>2. /\ Step(canvas, c) /\ Sound(c)
      /\ FollowActive(c) <=> FollowActive(canvas)
      /\ VerifyActive(c) <=> VerifyActive(canvas)
      /\ FindingsConverged(c) <=> FindingsConverged(canvas)
  BY <1>1, EditStep DEF Sound, Step
<1>3. Busy(c) <=> Busy(canvas)
  BY <1>2 DEF Busy, RoleActive
<1>4. Done(c)
  BY <1>2, <1>3 DEF Inv, Done, AtRest
<1>5. /\ Step(c, e) /\ Explained(e)
      /\ ~Over(c) => Done(e)
      /\ Over(c) => e = c
  BY <1>2, TriggerStep
<1> QED
  BY <1>2, <1>4, <1>5, StepTrans DEF Quiet

LEMMA RunHubNowStep ==
  ASSUME Inv, RunHubNow
  PROVE  Quiet(canvas, canvas')
<1> DEFINE c == [canvas EXCEPT !.paused = FALSE, !.stopped = FALSE]
<1>1. canvas \in Canvases
  BY DEF Inv, Sound
<1>2. /\ c \in Canvases /\ c.finding = canvas.finding /\ c.root = canvas.root
      /\ c.roleDone = canvas.roleDone /\ c.report = canvas.report /\ c.roles = canvas.roles
      /\ c.hubs = canvas.hubs /\ c.asking = canvas.asking /\ c.due = canvas.due
      /\ c.parked = canvas.parked
  BY <1>1 DEF Canvases
<1>3. canvas' \in TriggerHub(canvas, "manual") \/ canvas' \in TriggerHub(c, "manual")
  BY DEF RunHubNow
<1> HIDE DEF c
<1>4. "manual" \in Modes
  BY DEF Modes
<1>5. CASE canvas' \in TriggerHub(canvas, "manual")
  BY <1>1, <1>4, <1>5, OperatorTriggerStep
<1>6. CASE canvas' \in TriggerHub(c, "manual")
  BY <1>2, <1>4, <1>6, OperatorTriggerStep
<1> QED
  BY <1>3, <1>5, <1>6

LEMMA StartTaskStep ==
  ASSUME Inv, StartTask
  PROVE  Quiet(canvas, canvas')
<1>1. canvas \in Canvases /\ "idle" \in Modes
  BY DEF Inv, Sound, Modes
<1>2. canvas' \in TriggerHub(canvas, "idle")
  BY DEF StartTask
<1> QED
  BY <1>1, <1>2, OperatorTriggerStep

LEMMA HumanCommentsStep ==
  ASSUME Inv, HumanComments
  PROVE  Quiet(canvas, canvas')
<1> DEFINE c == [canvas EXCEPT !.stopped = FALSE]
<1>1. canvas \in Canvases /\ canvas' \in TriggerHub(c, "force")
  BY DEF Inv, Sound, HumanComments
<1>2. /\ c \in Canvases /\ c.finding = canvas.finding /\ c.root = canvas.root
      /\ c.roleDone = canvas.roleDone /\ c.report = canvas.report /\ c.roles = canvas.roles
      /\ c.hubs = canvas.hubs /\ c.asking = canvas.asking /\ c.due = canvas.due
      /\ c.parked = canvas.parked
  BY <1>1 DEF Canvases
<1> HIDE DEF c
<1>3. "force" \in Modes
  BY DEF Modes
<1> QED
  BY <1>1, <1>2, <1>3, OperatorTriggerStep

-----------------------------------------------------------------------------
(* Reports *)

LEMMA ForgottenStep ==
  ASSUME NEW c, Sound(c)
  PROVE  /\ Step(c, Forgotten(c)) /\ Explained(Forgotten(c))
         /\ Done(c) => Done(Forgotten(c))
<1> DEFINE mark == IF c.parked = "no" /\ c.root = "running" THEN "report" ELSE c.parked
           d == [c EXCEPT !.parked = mark]
<1>1. c \in Canvases /\ mark \in {"no", "design", "report"}
  BY DEF Sound, Canvases
<1>2. mark # "no" \/ c.root # "running"
  OBVIOUS
<1>3. c.root # "running" => mark = c.parked
  OBVIOUS
<1>4. Forgotten(c) = d
  BY DEF Forgotten
<1> HIDE DEF mark
<1>5. /\ d \in Canvases /\ d.finding = c.finding /\ d.root = c.root
      /\ d.roleDone = c.roleDone /\ d.report = c.report /\ d.parked = mark
      /\ d.roles = c.roles /\ d.hubs = c.hubs /\ d.asking = c.asking /\ d.due = c.due
  BY <1>1 DEF Canvases
<1> HIDE DEF d
<1>6. /\ Step(c, d)
      /\ FollowActive(d) <=> FollowActive(c)
      /\ VerifyActive(d) <=> VerifyActive(c)
      /\ FindingsConverged(d) <=> FindingsConverged(c)
  BY <1>5, EditStep DEF Sound
<1>7. Busy(d) <=> Busy(c)
  BY <1>5, <1>6 DEF Busy, RoleActive
<1>8. Done(c) => Done(d)
  BY <1>3, <1>5, <1>6, <1>7 DEF Done, AtRest
<1> QED
  BY <1>2, <1>4, <1>5, <1>6, <1>8 DEF Explained

LEMMA ReportFlagStep ==
  ASSUME Inv, NEW f \in Findings, NEW flag \in BOOLEAN,
         NEW d, d = [canvas EXCEPT !.finding[f].report = flag]
  PROVE  /\ Step(canvas, d) /\ Sound(d) /\ Done(d)
         /\ d.finding[f].report = flag
<1> DEFINE g == [canvas.finding[f] EXCEPT !.report = flag]
<1>1. /\ canvas.finding[f] \in Finding /\ canvas \in Canvases /\ Sound(canvas)
      /\ canvas.finding \in [Findings -> FindingRecord]
  BY FindingOf DEF Inv, Sound, Canvases
<1>2. /\ g \in FindingRecord /\ g.status = canvas.finding[f].status
      /\ g.round = canvas.finding[f].round /\ g.vjob = canvas.finding[f].vjob
      /\ g.follow = canvas.finding[f].follow /\ g.outcomes = canvas.finding[f].outcomes
      /\ g.report = flag
  BY <1>1 DEF Finding, FindingRecord
<1>3. g \in Finding /\ Keeps(canvas.finding[f], g)
  BY <1>1, <1>2 DEF Finding, Agree, Keeps
<1>4. d = With(canvas, f, g)
  BY <1>1 DEF With, Canvases
<1> HIDE DEF g
<1> DEFINE e == With(canvas, f, g)
<1>5. /\ Step(canvas, e) /\ e.finding = [canvas.finding EXCEPT ![f] = g]
      /\ e.root = canvas.root /\ e.roles = canvas.roles /\ e.hubs = canvas.hubs
      /\ e.asking = canvas.asking /\ e.due = canvas.due /\ e.parked = canvas.parked
  BY <1>1, <1>3, WithStep
<1> HIDE DEF e
<1>6. \A h \in Findings :
        /\ e.finding[h].status = canvas.finding[h].status
        /\ e.finding[h].round = canvas.finding[h].round
        /\ e.finding[h].vjob = canvas.finding[h].vjob
        /\ e.finding[h].follow = canvas.finding[h].follow
        /\ e.finding[h].outcomes = canvas.finding[h].outcomes
  BY <1>1, <1>2, <1>5
<1>7. e.finding[f].report = flag
  BY <1>1, <1>2, <1>5
<1>8. FindingsConverged(e) <=> FindingsConverged(canvas)
  BY <1>6 DEF FindingsConverged, Traced, Open
<1>9. Busy(e) <=> Busy(canvas)
  BY <1>5, <1>6 DEF Busy, RoleActive, FollowActive, VerifyActive
<1>10. Done(e)
  BY <1>5, <1>8, <1>9 DEF Inv, Done, AtRest
<1>11. d = e
  BY <1>4 DEF e
<1> QED
  BY <1>5, <1>7, <1>10, <1>11 DEF Step

LEMMA FindingReportEndsStep ==
  ASSUME Inv, NEW f \in Findings, FindingReportEnds(f)
  PROVE  Quiet(canvas, canvas')
<1> DEFINE d == [canvas EXCEPT !.finding[f].report = FALSE]
<1>1. Step(canvas, d) /\ Sound(d) /\ Done(d)
  BY ReportFlagStep
<1>2. canvas' = Forgotten(d)
  BY DEF FindingReportEnds
<1> HIDE DEF d
<1> QED
  BY <1>1, <1>2, ForgottenStep, StepTrans DEF Quiet

LEMMA HumanReportsFindingStep ==
  ASSUME Inv, NEW f \in Findings, HumanReportsFinding(f)
  PROVE  Quiet(canvas, canvas')
<1>1. Step(canvas, canvas') /\ Done(canvas') /\ canvas'.finding[f].report
  BY ReportFlagStep DEF HumanReportsFinding
<1> QED
  BY <1>1 DEF Quiet, Explained, Reporting

\* The edits of the root and of the report of the task
LEMMA ReportEditStep ==
  ASSUME Inv, canvas.root # "running" \/ canvas.report # "none",
         NEW root \in {"analysis_complete", "report_failed", "succeeded"},
         NEW report \in {"none", "live", "ended"},
         NEW d, d = [canvas EXCEPT !.root = root, !.report = report]
  PROVE  Step(canvas, d) /\ Sound(d) /\ d.root = root /\ d.report = report
<1>1. Sound(canvas) /\ canvas.roleDone
  BY DEF Inv, Sound
<1>2. /\ d \in Canvases /\ d.finding = canvas.finding /\ d.roleDone /\ d.root = root
      /\ d.report = report
  BY <1>1 DEF Sound, Canvases
<1> QED
  BY <1>1, <1>2, EditStep DEF Step

LEMMA ReportMarkStep ==
  ASSUME Inv, canvas.report # "none", NEW report \in {"live", "ended"},
         NEW d, d = [canvas EXCEPT !.report = report]
  PROVE  Step(canvas, d) /\ Sound(d) /\ Done(d) /\ d.root = canvas.root /\ d.report = report
<1>1. Sound(canvas) /\ canvas.roleDone
  BY DEF Inv, Sound
<1>2. /\ d \in Canvases /\ d.finding = canvas.finding /\ d.roleDone /\ d.root = canvas.root
      /\ d.report = report /\ d.roles = canvas.roles /\ d.hubs = canvas.hubs
      /\ d.asking = canvas.asking /\ d.due = canvas.due /\ d.parked = canvas.parked
  BY <1>1 DEF Sound, Canvases
<1>3. /\ Step(canvas, d)
      /\ FollowActive(d) <=> FollowActive(canvas)
      /\ VerifyActive(d) <=> VerifyActive(canvas)
      /\ FindingsConverged(d) <=> FindingsConverged(canvas)
  BY <1>1, <1>2, EditStep
<1>4. Busy(d) <=> Busy(canvas)
  BY <1>2, <1>3 DEF Busy, RoleActive
<1>5. Done(d)
  BY <1>2, <1>3, <1>4 DEF Inv, Done, AtRest
<1> QED
  BY <1>2, <1>3, <1>5 DEF Step

LEMMA ReportSucceedsStep ==
  ASSUME Inv, ReportSucceeds
  PROVE  Quiet(canvas, canvas')
<1>1. /\ canvas.report # "none"
      /\ canvas' = [canvas EXCEPT !.root = "succeeded", !.report = "ended"]
  BY DEF ReportSucceeds
<1>2. Step(canvas, canvas') /\ canvas'.root = "succeeded"
  BY <1>1, ReportEditStep
<1> QED
  BY <1>2 DEF Quiet, Explained, Done, AtRest

LEMMA ReportFailsStep ==
  ASSUME Inv, ReportFails
  PROVE  Quiet(canvas, canvas')
<1> DEFINE c == [canvas EXCEPT !.report = "ended"]
           b == [canvas EXCEPT !.root = "report_failed", !.report = "ended"]
           a == [canvas EXCEPT !.root = "analysis_complete", !.report = "ended"]
<1>1. canvas \in Canvases /\ canvas.report # "none"
  BY DEF Inv, Sound, ReportFails
<1>2. \/ canvas' = Forgotten(c)
      \/ canvas.root = "succeeded" /\ canvas' \in DispatchReport(c)
      \/ canvas' = b
      \/ canvas' \in DispatchReport(a)
  <2>1. [c EXCEPT !.root = "report_failed"] = b
    BY <1>1 DEF Canvases
  <2>2. [c EXCEPT !.root = "analysis_complete"] = a
    BY <1>1 DEF Canvases
  <2> QED
    BY <2>1, <2>2 DEF ReportFails
<1>3. /\ Step(canvas, c) /\ Sound(c) /\ Done(c) /\ c.root = canvas.root
  BY <1>1, ReportMarkStep
<1>4. Step(canvas, b) /\ b.root = "report_failed"
  BY <1>1, ReportEditStep
<1>5. Step(canvas, a) /\ Sound(a) /\ a.root = "analysis_complete"
  BY <1>1, ReportEditStep
<1> HIDE DEF a, b, c
<1>6. CASE canvas' = Forgotten(c)
  BY <1>3, <1>6, ForgottenStep, StepTrans DEF Quiet
<1>7. CASE canvas.root = "succeeded" /\ canvas' \in DispatchReport(c)
  BY <1>3, <1>7, DispatchReportStep, StepTrans DEF Quiet, Over
<1>8. CASE canvas' = b
  BY <1>4, <1>8 DEF Quiet, Explained, Done, AtRest
<1>9. CASE canvas' \in DispatchReport(a)
  BY <1>5, <1>9, DispatchReportStep, StepTrans DEF Quiet, Over
<1> QED
  BY <1>2, <1>6, <1>7, <1>8, <1>9

LEMMA RetryReportStep ==
  ASSUME Inv, RetryReport
  PROVE  Quiet(canvas, canvas')
<1> DEFINE a == [canvas EXCEPT !.root = "analysis_complete", !.report = "ended"]
<1>1. /\ canvas \in Canvases /\ canvas.report = "ended"
      /\ canvas' \in DispatchReport([canvas EXCEPT !.root = "analysis_complete"])
  BY DEF Inv, Sound, RetryReport
<1>2. [canvas EXCEPT !.root = "analysis_complete"] = a
  BY <1>1 DEF Canvases
<1>3. Step(canvas, a) /\ Sound(a) /\ a.root = "analysis_complete"
  BY <1>1, ReportEditStep
<1> HIDE DEF a
<1> QED
  BY <1>1, <1>2, <1>3, DispatchReportStep, StepTrans DEF Quiet, Over

LEMMA RerunReportStep ==
  ASSUME Inv, RerunReport
  PROVE  Quiet(canvas, canvas')
<1>1. Step(canvas, canvas') /\ Done(canvas') /\ canvas'.report = "live"
  BY ReportMarkStep DEF RerunReport
<1> QED
  BY <1>1 DEF Quiet, Explained, Reporting

LEMMA RefreshReportStep ==
  ASSUME Inv, RefreshReport
  PROVE  Quiet(canvas, canvas')
  BY DispatchReportStep DEF Inv, RefreshReport, Over

-----------------------------------------------------------------------------
LEMMA InvInit == Init => Inv
<1> SUFFICES ASSUME Init PROVE Inv
  OBVIOUS
<1>1. EmptyFinding \in FindingRecord /\ Agree(EmptyFinding)
  BY DEF EmptyFinding, FindingRecord, Statuses, Gates, Prints, Rounds, Converged, EscalateAfter,
         Agree
<1>2. /\ canvas \in Canvases /\ canvas.root = "running" /\ canvas.roles > 0
      /\ \A f \in Findings : canvas.finding[f] = EmptyFinding
  BY <1>1 DEF Init, Canvases
<1>3. disturbances \in 0 .. MaxDisturbances
  BY ConvergenceAssumption DEF ConvergenceAssumption, Init
<1>4. canvas.report = "none"
  BY DEF Init
<1>5. Sound(canvas)
  BY <1>1, <1>2, <1>4 DEF Sound
<1>6. Explained(canvas)
  BY <1>2 DEF Explained, Busy, RoleActive
<1>7. Done(canvas)
  BY <1>2 DEF Done, AtRest
<1> QED
  BY <1>3, <1>5, <1>6, <1>7 DEF Inv

LEMMA UndisturbedStep ==
  ASSUME Inv, Undisturbed
  PROVE  Quiet(canvas, canvas')
<1> USE DEF Undisturbed
<1>1. CASE RoleSucceeds
  BY <1>1, RoleSucceedsStep
<1>2. CASE RoleFails
  BY <1>2, RoleEndsStep
<1>3. ASSUME NEW kind \in {"work", "hub"}, AdvanceOwed(kind) \/ AdvanceLost(kind)
      PROVE  Quiet(canvas, canvas')
  BY <1>3, OwedAdvanceStep
<1>4. CASE HubStartsRole
  BY <1>4, StartRoleStep
<1>5. CASE HubCompletes
  BY <1>5, HubCompletesStep
<1>6. CASE HubSucceeds
  BY <1>6, HubSucceedsStep
<1>7. CASE HubFails
  BY <1>7, HubEndsStep
<1>8. CASE HumanReplies
  BY <1>8, HumanRepliesStep
<1>9. CASE ReportSucceeds
  BY <1>9, ReportSucceedsStep
<1>10. ASSUME NEW f \in Findings, FindingReported(f)
       PROVE  Quiet(canvas, canvas')
  BY <1>10, FindingReportedStep
<1>11. ASSUME NEW f \in Findings, HubStartsFollowUp(f)
       PROVE  Quiet(canvas, canvas')
  BY <1>11, StartFollowStep
<1>12. ASSUME NEW f \in Findings, NEW gate \in Gates, EvidenceReported(f, gate)
       PROVE  Quiet(canvas, canvas')
  BY <1>12, EvidenceReportedStep
<1>13. ASSUME NEW f \in Findings, FollowUpSucceeds(f)
       PROVE  Quiet(canvas, canvas')
  BY <1>13, FollowUpSucceedsStep
<1>14. ASSUME NEW f \in Findings, FollowUpFails(f)
       PROVE  Quiet(canvas, canvas')
  BY <1>14, FollowUpEndsStep
<1>15. ASSUME NEW f \in Findings, NEW proposed \in Proposals, VerifySucceeds(f, proposed)
       PROVE  Quiet(canvas, canvas')
  BY <1>15, VerifySucceedsStep
<1>16. ASSUME NEW f \in Findings, VerifyFails(f)
       PROVE  Quiet(canvas, canvas')
  BY <1>16, VerifyEndsStep
<1>17. ASSUME NEW f \in Findings, RecoverVerify(f)
       PROVE  Quiet(canvas, canvas')
  BY <1>17, RecoverVerifyStep
<1>18. CASE ReportFails
  BY <1>18, ReportFailsStep
<1>19. ASSUME NEW f \in Findings, FindingReportEnds(f)
       PROVE  Quiet(canvas, canvas')
  BY <1>19, FindingReportEndsStep
<1> QED
  BY <1>1, <1>2, <1>3, <1>4, <1>5, <1>6, <1>7, <1>8, <1>9, <1>10, <1>11, <1>12, <1>13,
     <1>14, <1>15, <1>16, <1>17, <1>18, <1>19

LEMMA DisturbedStep ==
  ASSUME Inv, Disturbed
  PROVE  Quiet(canvas, canvas')
<1> USE DEF Disturbed
<1>1. CASE RoleReaped \/ RoleAbandoned
  BY <1>1, RoleEndsStep
<1>2. CASE HubReaped
  BY <1>2, HubEndsStep
<1>3. CASE HubCancelled
  BY <1>3, HubCancelledStep
<1>4. CASE HubAsksHuman
  BY <1>4, HubAsksHumanStep
<1>5. CASE HumanStartsRole
  BY <1>5, StartRoleStep
<1>6. CASE Pause
  BY <1>6, PauseStep
<1>7. CASE Resume
  BY <1>7, ResumeStep
<1>8. CASE RunHubNow
  BY <1>8, RunHubNowStep
<1>9. CASE HumanComments
  BY <1>9, HumanCommentsStep
<1>10. ASSUME NEW f \in Findings, FollowUpReaped(f) \/ FollowUpAbandoned(f)
       PROVE  Quiet(canvas, canvas')
  BY <1>10, FollowUpEndsStep
<1>11. ASSUME NEW f \in Findings, VerifyReaped(f) \/ VerifyCancelled(f) \/ VerifyRerun(f)
       PROVE  Quiet(canvas, canvas')
  BY <1>11, VerifyEndsStep
<1>12. ASSUME NEW f \in Findings, HumanSettles(f)
       PROVE  Quiet(canvas, canvas')
  BY <1>12, HumanSettlesStep
<1>13. ASSUME NEW f \in Findings, HumanStartsFollowUp(f)
       PROVE  Quiet(canvas, canvas')
  BY <1>13, StartFollowStep
<1>14. ASSUME NEW f \in Findings, NEW deep \in BOOLEAN, HumanVerifies(f, deep)
       PROVE  Quiet(canvas, canvas')
  BY <1>14, HumanVerifiesStep
<1>15. ASSUME NEW f \in Findings, BootNormalizes(f)
       PROVE  Quiet(canvas, canvas')
  BY <1>15, BootNormalizesStep
<1>16. CASE StartTask
  BY <1>16, StartTaskStep
<1>17. CASE RetryReport
  BY <1>17, RetryReportStep
<1>18. CASE RerunReport
  BY <1>18, RerunReportStep
<1>19. CASE RefreshReport
  BY <1>19, RefreshReportStep
<1>20. ASSUME NEW f \in Findings, HumanReportsFinding(f)
       PROVE  Quiet(canvas, canvas')
  BY <1>20, HumanReportsFindingStep
<1> QED
  BY <1>1, <1>2, <1>3, <1>4, <1>5, <1>6, <1>7, <1>8, <1>9, <1>10, <1>11, <1>12, <1>13,
     <1>14, <1>15, <1>16, <1>17, <1>18, <1>19, <1>20

LEMMA InvStep ==
  ASSUME Inv, [Next]_vars
  PROVE  Inv' /\ VerdictsKept(canvas, canvas')
<1>1. CASE Next
  <2>1. Undisturbed \/ Disturbed
    BY <1>1 DEF Next
  <2>2. Quiet(canvas, canvas')
    BY <2>1, UndisturbedStep, DisturbedStep
  <2>3. disturbances' \in 0 .. MaxDisturbances
    BY <1>1, ConvergenceAssumption DEF ConvergenceAssumption, Next, Inv
  <2>4. Sound(canvas') /\ Explained(canvas') /\ Done(canvas') /\ VerdictsKept(canvas, canvas')
    BY <2>2 DEF Quiet, Step
  <2> QED
    BY <2>3, <2>4 DEF Inv, Sound, Explained, Done, AtRest, Busy, RoleActive, FollowActive,
                      VerifyActive, Reporting, FindingsConverged
<1>2. CASE UNCHANGED vars
  <2>1. canvas' = canvas /\ disturbances' = disturbances
    BY <1>2 DEF vars
  <2>2. VerdictsKept(canvas, canvas')
    BY <2>1 DEF VerdictsKept, Keeps
  <2> QED
    BY <2>1, <2>2 DEF Inv, Sound, Explained, Done, AtRest, Busy, RoleActive, FollowActive,
                      VerifyActive, Reporting, FindingsConverged
<1> QED
  BY <1>1, <1>2

LEMMA InvAlways == Spec => []Inv
<1>1. Inv /\ [Next]_vars => Inv'
  BY InvStep
<1> QED
  BY InvInit, <1>1, PTL DEF Spec

\* The canvas is a record of the expected shape whatever the findings and limits
\* are (the model of the rows of verify.ts and hub-orchestration).
THEOREM TypeCorrect == Spec => []TypeOK
<1>1. Inv => TypeOK
  BY DEF Inv, Sound, TypeOK
<1> QED
  BY InvAlways, <1>1, PTL

\* Rounds agree with statuses, through every path that writes either
\* (verify.ts, PATCH verify-status, boot).
THEOREM RoundsAgree == Spec => []RoundMatchesStatus
<1>1. Inv => RoundMatchesStatus
  BY DEF Inv, Sound, RoundMatchesStatus
<1> QED
  BY InvAlways, <1>1, PTL

\* No late, repeated or recovered Job changes a verdict.
THEOREM VerdictsSafe == Spec => VerdictStands
<1>1. Inv /\ [Next]_vars
        => [\A f \in Findings :
              canvas.finding[f].status \in Converged
                => canvas'.finding[f].status = canvas.finding[f].status]_vars
  BY InvStep DEF VerdictsKept, Keeps
<1> QED
  BY InvAlways, <1>1, PTL DEF Spec, VerdictStands

\* A canvas that stands still has a reason for it (advanceCanvasAfterTerminalJob).
THEOREM IdlenessExplained == Spec => []IdleIsExplained
<1>1. Inv => IdleIsExplained
  BY DEF Inv, Explained, IdleIsExplained, Moving, Runnable
<1> QED
  BY InvAlways, <1>1, PTL

\* A canvas that is complete and at rest has a verdict for every finding.
THEOREM CompletionSafe == Spec => []CompleteIsConverged
<1>1. Inv => CompleteIsConverged
  BY DEF Inv, Done, AtRest, CompleteIsConverged
<1> QED
  BY InvAlways, <1>1, PTL
=============================================================================
