------------------------ MODULE JudgeGradingProofs ------------------------
(***************************************************************************)
(* Proofs about JudgeGrading, for any judges, samples, floors and bounds,  *)
(* and about CompositeJudging, for any weights, bar and answers.           *)
(***************************************************************************)
EXTENDS CompositeJudging, TLAPS

\* While the order-swapped call is out the grade is entitled to gate.
Probing(s) ==
  pc[s] = "probing" =>
    /\ gate
    /\ primary[s] \in Responses
    /\ primary[s].status = "ok" /\ primary[s].parsed /\ ~primary[s].abstained
    /\ calibration # None
    /\ ~ProvenBad(calibration, asOf[s]) /\ ~Unusable(calibration, asOf[s])
    /\ calibration.fingerprint = primary[s].fingerprint

ProbingInv == \A s \in Samples : Probing(s)

\* Nothing is graded before the calibration is there to stay.
PhaseInv ==
  /\ Measuring => measurement.total # None
  /\ Measuring => calibration = None /\ \A s \in Samples : pc[s] = "idle"
  /\ \A s \in Samples : (pc[s] \in {"idle", "asking"}) => probe[s] = "none" /\ result[s] = None
  /\ \A s \in Samples : pc[s] = "probing" => probe[s] = "none" /\ result[s] = None
  /\ \A s \in Samples : pc[s] \in {"idle", "asking"} => calls[s] < MaxCalls

\* The matrix is of the judge the artifact names.
MatrixInv ==
  /\ Measuring => counted \subseteq {measurement.fingerprint}
  /\ ~Measuring /\ calibration = None => counted = {}
  /\ ~Measuring /\ calibration # None => counted \subseteq {calibration.fingerprint}

\* What is known of a finished grade.
Ended(s) ==
  pc[s] = "done" =>
    /\ result[s] \in [status : GradeStatus, hardGate : BOOLEAN]
    /\ result[s].status \in {"pass", "fail"} =>
         /\ primary[s] \in Responses
         /\ primary[s].status = "ok" /\ primary[s].parsed /\ ~primary[s].abstained
         /\ result[s].status = ScoreStatus(primary[s])
         /\ calibration # None => ~ProvenBad(calibration, asOf[s])
    /\ probe[s] # "none" =>
         /\ gate
         /\ calibration # None
         /\ ~ProvenBad(calibration, asOf[s]) /\ ~Unusable(calibration, asOf[s])
         /\ calibration.fingerprint = primary[s].fingerprint
    /\ result[s].hardGate =>
         /\ probe[s] \notin {"none", "flipped"}
         /\ Passes(primary[s])
         /\ result[s].status = "pass"

ResultInv == \A s \in Samples : Ended(s)

IInv == TypeOK /\ PhaseInv /\ ProbingInv /\ MatrixInv /\ ResultInv

(***************************************************************************)
(* Lemmas about the counts.                                                *)
(***************************************************************************)
\* A sample moves one counter up by one (measure.py 246-268).
LEMMA CountTyped ==
  ASSUME NEW counts \in [Counters -> Nat], NEW label \in Labels, NEW outcome \in Outcomes
  PROVE  Count(counts, label, outcome) \in [Counters -> Nat]
<1>1. CounterOf(label, outcome) \in Counters
  BY DEF CounterOf, Counters, Outcomes, Labels
<1>2. counts[CounterOf(label, outcome)] + 1 \in Nat
  BY <1>1
<1> QED
  BY <1>1, <1>2 DEF Count

\* Every answer has one outcome (measure.py 82-118).
LEMMA OutcomeTyped ==
  ASSUME NEW r, NEW fingerprint
  PROVE  Outcome(r, fingerprint) \in Outcomes
BY DEF Outcome, Outcomes

\* The measurement stays an artifact of the judge it was begun with.
LEMMA TallyTyped ==
  ASSUME measurement \in Artifacts(Fingerprints), measurement.total # None,
         NEW label \in Labels, NEW outcome \in Outcomes, Tally(label, outcome)
  PROVE  /\ measurement' \in Artifacts(Fingerprints)
         /\ measurement'.total # None
         /\ measurement'.fingerprint = measurement.fingerprint
<1>1. measurement.counts \in [Counters -> Nat] /\ measurement.total \in Nat
  BY DEF Artifacts
<1>2. Count(measurement.counts, label, outcome) \in [Counters -> Nat]
  BY <1>1, CountTyped
<1>3. measurement.total + 1 \in Nat
  BY <1>1
<1> QED
  BY <1>2, <1>3, RatesAssumption DEF Tally, Artifacts

(***************************************************************************)
(* The invariant.                                                          *)
(***************************************************************************)
\* Init establishes the invariant.
LEMMA InitInv == Init => IInv
<1> SUFFICES ASSUME Init PROVE IInv
  OBVIOUS
<1> USE GradingAssumption, RatesAssumption
<1>1. Fresh(live, now) \in Artifacts(Fingerprints) /\ Fresh(live, now).total # None
  BY DEF Init, Fresh, Artifacts, NoCounts
<1>2. /\ calibration \in Artifacts(Fingerprints) \union {None}
      /\ measurement \in Artifacts(Fingerprints) \union {None}
      /\ Measuring => measurement.total # None /\ calibration = None
  BY <1>1 DEF Init, Measuring
<1>3. TypeOK
  BY <1>2 DEF Init, TypeOK
<1> QED
  BY <1>2, <1>3 DEF Init, IInv, PhaseInv, ProbingInv, Probing, MatrixInv, ResultInv, Ended

\* The actions of the world and the measurement leave the grades alone; once a
\* grade has begun they leave the calibration alone too.
LEMMA MeasureInv ==
  ASSUME IInv, Measure
  PROVE  IInv'
<1> USE DEF IInv
<1>1. UNCHANGED <<live, now, gate, grading>> /\ Measuring
  BY DEF Measure, MeasureSample, MeasureRaises, Measured, world
<1>2. calibration = None /\ \A s \in Samples : pc[s] = "idle"
  BY <1>1 DEF PhaseInv
<1>3. CASE MeasureSample
  <2>1. PICK label \in Labels, r \in Responses :
          /\ Tally(label, Outcome(r, measurement.fingerprint))
          /\ counted' = IF Outcome(r, measurement.fingerprint) \in {"good", "bad"}
                        THEN counted \union {r.fingerprint} ELSE counted
    BY <1>3 DEF MeasureSample
  <2>2. /\ measurement' \in Artifacts(Fingerprints) /\ measurement'.total # None
        /\ measurement'.fingerprint = measurement.fingerprint
    BY <1>1, <2>1, OutcomeTyped, TallyTyped DEF PhaseInv, TypeOK, Measuring
  <2>3. counted' \subseteq Fingerprints /\ counted' \subseteq {measurement.fingerprint}
    BY <1>1, <2>1 DEF TypeOK, MatrixInv, Outcome, Responses
  <2>4. UNCHANGED calibration /\ Measuring'
    BY <1>3, <2>2, GradingAssumption DEF MeasureSample, Measuring
  <2> QED
    BY <1>1, <1>2, <2>2, <2>3, <2>4
    DEF TypeOK, PhaseInv, ProbingInv, Probing, MatrixInv, ResultInv, Ended, grading
<1>4. CASE MeasureRaises
  <2>1. /\ measurement' \in Artifacts(Fingerprints) /\ measurement'.total # None
        /\ measurement'.fingerprint = measurement.fingerprint
    BY <1>1, <1>4, TallyTyped DEF MeasureRaises, PhaseInv, TypeOK, Measuring, Outcomes
  <2>2. UNCHANGED <<calibration, counted>> /\ Measuring'
    BY <1>4, <2>1, GradingAssumption DEF MeasureRaises, Measuring
  <2> QED
    BY <1>1, <1>2, <2>1, <2>2
    DEF TypeOK, PhaseInv, ProbingInv, Probing, MatrixInv, ResultInv, Ended, grading
<1>5. CASE Measured
  BY <1>1, <1>2, <1>5
  DEF Measured, Measuring, TypeOK, PhaseInv, ProbingInv, Probing, MatrixInv, ResultInv, Ended, grading
<1> QED
  BY <1>3, <1>4, <1>5 DEF Measure

\* What every grade step leaves alone.
LEMMA GradeShape ==
  ASSUME IInv, NEW s \in Samples, Grade(s)
  PROVE  /\ UNCHANGED <<live, now, gate, calibration, measurement, counted>>
         /\ ~Measuring
         /\ \A t \in Samples \ {s} :
              /\ pc'[t] = pc[t] /\ asOf'[t] = asOf[t] /\ calls'[t] = calls[t]
              /\ primary'[t] = primary[t] /\ probe'[t] = probe[t] /\ result'[t] = result[t]
<1>1. UNCHANGED <<live, now, gate, calibration, measurement, counted>>
  BY DEF Grade, Begin, AskRaises, AskGarbled, AskAnswered, ProbeAnswered, ProbeRaises,
         world, evidence
<1>2. ~Measuring
  BY DEF IInv, PhaseInv, Grade, Begin, AskRaises, AskGarbled, AskAnswered,
         ProbeAnswered, ProbeRaises
<1>3. ASSUME NEW t \in Samples \ {s}
      PROVE  /\ pc'[t] = pc[t] /\ asOf'[t] = asOf[t] /\ calls'[t] = calls[t]
             /\ primary'[t] = primary[t] /\ probe'[t] = probe[t] /\ result'[t] = result[t]
  BY DEF IInv, TypeOK, Grade, Begin, AskRaises, AskGarbled, AskAnswered, ProbeAnswered,
         ProbeRaises, Goto, Finish
<1> QED
  BY <1>1, <1>2, <1>3

\* A finished grade is one of the statuses of GradeResult.
LEMMA FinishTyped ==
  ASSUME TypeOK, NEW s \in Samples, NEW status \in GradeStatus, NEW hardGate \in BOOLEAN,
         Finish(s, status, hardGate)
  PROVE  /\ pc' \in [Samples -> {"idle", "asking", "probing", "done"}]
         /\ result' \in [Samples -> [status : GradeStatus, hardGate : BOOLEAN] \union {None}]
         /\ pc'[s] = "done"
         /\ result'[s] = [status |-> status, hardGate |-> hardGate]
BY DEF TypeOK, Finish, Goto

\* A step of one grade keeps the invariant.
LEMMA GradeInv ==
  ASSUME IInv, NEW s \in Samples, Grade(s)
  PROVE  IInv'
<1> USE DEF IInv
<1>1. /\ UNCHANGED <<live, now, gate, calibration, measurement, counted>>
      /\ ~Measuring
      /\ \A t \in Samples \ {s} :
           /\ pc'[t] = pc[t] /\ asOf'[t] = asOf[t] /\ calls'[t] = calls[t]
           /\ primary'[t] = primary[t] /\ probe'[t] = probe[t] /\ result'[t] = result[t]
  BY GradeShape
<1>2. ~Measuring' /\ MatrixInv'
  BY <1>1 DEF MatrixInv, Measuring
<1>3. ASSUME TypeOK',
             pc[s]' \in {"idle", "asking"} => probe[s]' = "none" /\ result[s]' = None,
             pc[s]' = "probing" => probe[s]' = "none" /\ result[s]' = None,
             pc[s]' \in {"idle", "asking"} => calls[s]' < MaxCalls,
             Probing(s)', Ended(s)'
      PROVE  IInv'
  <2>1. PhaseInv'
    BY <1>1, <1>2, <1>3 DEF PhaseInv
  <2>2. ASSUME NEW t \in Samples PROVE Probing(t)' /\ Ended(t)'
    BY <1>1, <1>3, <2>2 DEF ProbingInv, ResultInv, Probing, Ended
  <2> QED
    BY <1>2, <1>3, <2>1, <2>2 DEF ProbingInv, ResultInv
<1>4. CASE Begin(s)
  <2>1. TypeOK'
    BY <1>4, <1>1 DEF Begin, Goto, TypeOK
  <2>2. pc'[s] = "asking" /\ probe'[s] = "none" /\ result'[s] = None /\ calls'[s] < MaxCalls
    BY <1>4, GradingAssumption DEF Begin, Goto, TypeOK, PhaseInv
  <2> QED
    BY <1>1, <1>2, <1>3, <2>1, <2>2 DEF Probing, Ended
<1>5. CASE AskRaises(s)
  <2>1. TypeOK'
    BY <1>5, <1>1, GradingAssumption
    DEF AskRaises, Goto, Finish, TypeOK, PhaseInv, GradeStatus
  <2>2. /\ pc'[s] = "done" /\ probe'[s] = "none"
        /\ result'[s] = [status |-> "error", hardGate |-> FALSE]
    BY <1>5 DEF AskRaises, Goto, Finish, TypeOK, PhaseInv
  <2> QED
    BY <1>1, <1>2, <1>3, <2>1, <2>2 DEF Probing, Ended, GradeStatus
<1>6. CASE AskGarbled(s)
  <2>1. TypeOK'
    <3>1. calls[s] + 1 \in 0..MaxCalls
      BY <1>6, GradingAssumption DEF AskGarbled, TypeOK, PhaseInv
    <3>2. calls' \in [Samples -> 0..MaxCalls]
      BY <1>6, <3>1 DEF AskGarbled, TypeOK
    <3>3. /\ pc' \in [Samples -> {"idle", "asking", "probing", "done"}]
          /\ result' \in [Samples -> [status : GradeStatus, hardGate : BOOLEAN] \union {None}]
      <4>1. CASE calls[s] + 1 < MaxCalls
        BY <1>6, <4>1 DEF AskGarbled, TypeOK
      <4>2. CASE ~(calls[s] + 1 < MaxCalls)
        <5>1. Finish(s, "error", FALSE)
          BY <1>6, <4>2 DEF AskGarbled
        <5> QED
          BY <5>1, FinishTyped DEF GradeStatus
      <4> QED
        BY <4>1, <4>2
    <3> QED
      BY <1>6, <1>1, <3>2, <3>3 DEF AskGarbled, TypeOK
  <2>2. /\ probe'[s] = "none"
        /\ \/ pc'[s] = "asking" /\ result'[s] = None /\ calls'[s] < MaxCalls
           \/ pc'[s] = "done" /\ result'[s] = [status |-> "error", hardGate |-> FALSE]
    BY <1>6 DEF AskGarbled, Goto, Finish, TypeOK, PhaseInv
  <2>3. CASE pc'[s] = "asking" /\ result'[s] = None /\ calls'[s] < MaxCalls
    BY <1>1, <1>2, <1>3, <2>1, <2>2, <2>3 DEF Probing, Ended
  <2>4. CASE pc'[s] = "done" /\ result'[s] = [status |-> "error", hardGate |-> FALSE]
    BY <1>1, <1>2, <1>3, <2>1, <2>2, <2>4 DEF Probing, Ended, GradeStatus
  <2> QED
    BY <2>2, <2>3, <2>4
<1>7. CASE AskAnswered(s)
  <2>1. PICK r \in Responses :
          /\ r.parsed
          /\ primary' = [primary EXCEPT ![s] = r]
          /\ IF Check(s, r) # "verdict" THEN Finish(s, Check(s, r), FALSE)
             ELSE IF MayGate(s) THEN Goto(s, "probing") /\ UNCHANGED result
             ELSE Finish(s, ScoreStatus(r), FALSE)
    BY <1>7 DEF AskAnswered
  <2>2. /\ pc[s] = "asking" /\ calls' = [calls EXCEPT ![s] = @ + 1]
        /\ UNCHANGED <<asOf, probe>> /\ probe[s] = "none" /\ result[s] = None
    BY <1>7 DEF AskAnswered, PhaseInv
  <2>3. Check(s, r) \in {"abstain", "error", "unavailable", "verdict"}
    BY DEF Check, Envelope
  <2>4. ScoreStatus(r) \in {"pass", "fail", "unavailable"}
    BY DEF ScoreStatus
  <2>5. primary'[s] = r
    BY <2>1 DEF TypeOK
  <2>6. TypeOK'
    <3>1. calls[s] + 1 \in 0..MaxCalls
      BY <2>2, GradingAssumption DEF TypeOK, PhaseInv
    <3>2. calls' \in [Samples -> 0..MaxCalls]
      BY <2>2, <3>1 DEF TypeOK
    <3>3. primary' \in [Samples -> Responses \union {None}]
      BY <2>1 DEF TypeOK
    <3>4. /\ pc' \in [Samples -> {"idle", "asking", "probing", "done"}]
          /\ result' \in [Samples -> [status : GradeStatus, hardGate : BOOLEAN] \union {None}]
      <4>1. CASE Check(s, r) # "verdict"
        BY <2>1, <2>3, <4>1, FinishTyped DEF GradeStatus
      <4>2. CASE Check(s, r) = "verdict" /\ MayGate(s)
        BY <2>1, <4>2 DEF TypeOK, Goto
      <4>3. CASE Check(s, r) = "verdict" /\ ~MayGate(s)
        BY <2>1, <2>4, <4>3, FinishTyped DEF GradeStatus
      <4> QED
        BY <4>1, <4>2, <4>3
    <3> QED
      BY <1>1, <2>2, <3>2, <3>3, <3>4 DEF TypeOK
  <2>7. ASSUME Check(s, r) = "verdict"
        PROVE  /\ r.status = "ok" /\ ~r.abstained /\ r.fingerprint = live
               /\ calibration # None => ~ProvenBad(calibration, asOf[s])
    BY <2>7 DEF Check, Envelope, HasProof, Responses
  <2>8. CASE Check(s, r) # "verdict"
    <3>1. /\ pc'[s] = "done"
          /\ result'[s] = [status |-> Check(s, r), hardGate |-> FALSE]
      BY <2>1, <2>8 DEF Finish, Goto, TypeOK
    <3> QED
      BY <1>1, <1>2, <1>3, <2>2, <2>3, <2>6, <2>8, <3>1
      DEF Probing, Ended, GradeStatus
  <2>9. CASE Check(s, r) = "verdict" /\ MayGate(s)
    <3>1. pc'[s] = "probing" /\ result'[s] = None
      BY <2>1, <2>2, <2>9 DEF Goto, TypeOK
    <3> QED
      BY <1>1, <1>2, <1>3, <2>1, <2>2, <2>5, <2>6, <2>7, <2>9, <3>1
      DEF Probing, Ended, MayGate
  <2>10. CASE Check(s, r) = "verdict" /\ ~MayGate(s)
    <3>1. /\ pc'[s] = "done"
          /\ result'[s] = [status |-> ScoreStatus(r), hardGate |-> FALSE]
      BY <2>1, <2>10 DEF Finish, Goto, TypeOK
    <3> QED
      BY <1>1, <1>2, <1>3, <2>1, <2>2, <2>4, <2>5, <2>6, <2>7, <2>10, <3>1
      DEF Probing, Ended, GradeStatus
  <2> QED
    BY <2>8, <2>9, <2>10
<1>8. ASSUME NEW outcome \in {"agreed", "flipped", "failed"}, NEW gates \in BOOLEAN,
             pc[s] = "probing",
             probe' = [probe EXCEPT ![s] = outcome],
             Finish(s, ScoreStatus(primary[s]), gates),
             gates => Passes(primary[s]) /\ outcome # "flipped",
             UNCHANGED <<asOf, calls, primary>>
      PROVE  IInv'
  <2>1. ScoreStatus(primary[s]) \in {"pass", "fail", "unavailable"}
    BY DEF ScoreStatus
  <2>2. TypeOK'
    BY <1>1, <1>8, <2>1 DEF TypeOK, Finish, Goto, GradeStatus
  <2>3. /\ pc'[s] = "done" /\ probe'[s] = outcome
        /\ result'[s] = [status |-> ScoreStatus(primary[s]), hardGate |-> gates]
    BY <1>8 DEF TypeOK, Finish, Goto
  <2>4. gates => ScoreStatus(primary[s]) = "pass"
    BY <1>8 DEF ScoreStatus
  <2>5. Probing(s)' /\ (pc[s]' = "done" /\ probe[s]' = outcome)
    BY <2>3 DEF Probing
  <2>6. /\ gate /\ primary[s] \in Responses
        /\ primary[s].status = "ok" /\ primary[s].parsed /\ ~primary[s].abstained
        /\ calibration # None
        /\ ~ProvenBad(calibration, asOf[s]) /\ ~Unusable(calibration, asOf[s])
        /\ calibration.fingerprint = primary[s].fingerprint
    BY <1>8 DEF ProbingInv, Probing
  <2>7. Ended(s)'
    BY <1>1, <1>8, <2>1, <2>3, <2>4, <2>6 DEF Ended, GradeStatus
  <2> QED
    BY <1>3, <2>2, <2>5, <2>7
<1>9. CASE ProbeAnswered(s)
  <2>1. PICK r \in Responses :
          /\ probe' = [probe EXCEPT ![s] = ProbeOutcome(s, r)]
          /\ Finish(s, ScoreStatus(primary[s]), Passes(primary[s]) /\ ~Flipped(s, r))
    BY <1>9 DEF ProbeAnswered, CanGate
  <2>2. /\ ProbeOutcome(s, r) \in {"agreed", "flipped", "failed"}
        /\ ProbeOutcome(s, r) = "flipped" => Flipped(s, r)
    BY DEF ProbeOutcome
  <2>3. (Passes(primary[s]) /\ ~Flipped(s, r)) \in BOOLEAN
    OBVIOUS
  <2>4. pc[s] = "probing" /\ UNCHANGED <<asOf, calls, primary>>
    BY <1>9 DEF ProbeAnswered
  <2> QED
    BY <1>8, <2>1, <2>2, <2>3, <2>4
<1>10. CASE ProbeRaises(s)
  <2>1. /\ pc[s] = "probing"
        /\ probe' = [probe EXCEPT ![s] = "failed"]
        /\ Finish(s, ScoreStatus(primary[s]), FALSE)
        /\ UNCHANGED <<asOf, calls, primary>>
    BY <1>10 DEF ProbeRaises
  <2>2. FALSE \in BOOLEAN /\ "failed" \in {"agreed", "flipped", "failed"}
    OBVIOUS
  <2> QED
    BY <1>8, <2>1, <2>2
<1> QED
  BY <1>4, <1>5, <1>6, <1>7, <1>9, <1>10 DEF Grade

\* No step of Next leaves the invariant.
LEMMA NextInv == IInv /\ [Next]_vars => IInv'
<1> SUFFICES ASSUME IInv, [Next]_vars PROVE IInv'
  OBVIOUS
<1>1. CASE Drift \/ Day
  <2>1. live' \in Fingerprints /\ now' \in 0..LastDay /\ UNCHANGED <<evidence, grading>>
    BY <1>1, GradingAssumption DEF Drift, Day, IInv, TypeOK
  <2> QED
    BY <2>1
    DEF IInv, TypeOK, PhaseInv, ProbingInv, Probing, MatrixInv, ResultInv, Ended, Measuring,
        evidence, grading
<1>2. CASE Measure
  BY <1>2, MeasureInv
<1>3. CASE \E s \in Samples : Grade(s)
  BY <1>3, GradeInv
<1>4. CASE UNCHANGED vars
  BY <1>4
  DEF IInv, TypeOK, PhaseInv, ProbingInv, Probing, MatrixInv, ResultInv, Ended, Measuring, vars
<1> QED
  BY <1>1, <1>2, <1>3, <1>4 DEF Next

(***************************************************************************)
(* The theorems.                                                           *)
(***************************************************************************)
\* The inductive invariant holds in every reachable state.
THEOREM Invariance == Spec => []IInv
<1>1. Init => IInv
  BY InitInv
<1>2. IInv /\ [Next]_vars => IInv'
  BY NextInv
<1> QED
  BY <1>1, <1>2, PTL DEF Spec

\* The types hold.
THEOREM TypeCorrect == Spec => []TypeOK
<1>1. IInv => TypeOK
  BY DEF IInv
<1> QED
  BY <1>1, Invariance, PTL

\* A grade that can block a release was earned: whatever the judge answers or
\* becomes meanwhile, and whatever the floors are (judge.py 366-388).
THEOREM GatingIsEarned == Spec => []GatesOnAuthority
<1>1. IInv => GatesOnAuthority
  <2> SUFFICES ASSUME IInv, NEW s \in Samples, Gates(s)
               PROVE  /\ gate /\ result[s].status = "pass" /\ Passes(primary[s])
                      /\ EarnedBy(s) = "gating"
                      /\ probe[s] \notin {"none", "flipped"}
    BY DEF GatesOnAuthority
  <2>1. /\ probe[s] \notin {"none", "flipped"} /\ Passes(primary[s]) /\ result[s].status = "pass"
    BY DEF IInv, ResultInv, Ended, Gates, Graded
  <2>2. /\ gate /\ calibration # None
        /\ ~ProvenBad(calibration, asOf[s]) /\ ~Unusable(calibration, asOf[s])
        /\ calibration.fingerprint = primary[s].fingerprint
    BY <2>1 DEF IInv, ResultInv, Ended, Gates, Graded
  <2> QED
    BY <2>1, <2>2 DEF EarnedBy, Authority
<1> QED
  BY <1>1, Invariance, PTL

\* The judge that grades with a gate is the one whose verdicts were counted.
THEOREM GatingJudgeWasMeasured == Spec => []GatedByTheMeasuredJudge
<1>1. IInv => GatedByTheMeasuredJudge
  <2> SUFFICES ASSUME IInv, NEW s \in Samples, Gates(s)
               PROVE  counted \subseteq {primary[s].fingerprint}
    BY DEF GatedByTheMeasuredJudge
  <2>1. calibration # None /\ calibration.fingerprint = primary[s].fingerprint
    BY DEF IInv, ResultInv, Ended, Gates, Graded
  <2>2. ~Measuring
    BY <2>1 DEF IInv, PhaseInv
  <2> QED
    BY <2>1, <2>2 DEF IInv, MatrixInv
<1> QED
  BY <1>1, Invariance, PTL

\* A judge that is proven bad gives no verdict.
THEOREM ProvenBadIsSilent == Spec => []ProvenBadGivesNoVerdict
<1>1. IInv => ProvenBadGivesNoVerdict
  BY DEF IInv, ResultInv, Ended, ProvenBadGivesNoVerdict, Graded
<1> QED
  BY <1>1, Invariance, PTL

\* Trouble with the judge is never counted against the system under test.
THEOREM FailuresAreVerdicts == Spec => []TroubleIsNotFailure
<1>1. IInv => TroubleIsNotFailure
  <2> SUFFICES ASSUME IInv, NEW s \in Samples, Graded(s), result[s].status = "fail"
               PROVE  /\ primary[s] \in Responses
                      /\ primary[s].status = "ok" /\ primary[s].parsed /\ ~primary[s].abstained
                      /\ primary[s].score = "low"
    BY DEF TroubleIsNotFailure
  <2>1. /\ primary[s] \in Responses
        /\ primary[s].status = "ok" /\ primary[s].parsed /\ ~primary[s].abstained
        /\ ScoreStatus(primary[s]) = "fail"
    BY DEF IInv, ResultInv, Ended, Graded
  <2>2. primary[s].score \in {"high", "low", None}
    BY <2>1 DEF Responses, Scores
  <2> QED
    BY <2>1, <2>2 DEF ScoreStatus, Passes
<1> QED
  BY <1>1, Invariance, PTL

(***************************************************************************)
(* The sums of a composite of two.  A sum over a set is the library's fold *)
(* (FiniteSetsExt), a function chosen to satisfy a recursive equation: the *)
(* first lemma says that there is one, and what it is on two places.       *)
(***************************************************************************)
One(s) == CHOOSE x \in s : TRUE

\* total folds + over the subsets of places, as the library does.
Folds(total, value, places) ==
  total = [s \in SUBSET places |-> IF s = {} THEN 0 ELSE value[One(s)] + total[s \ {One(s)}]]

SumOf(value, s) == (IF 1 \in s THEN value[1] ELSE 0) + (IF 2 \in s THEN value[2] ELSE 0)

\* The fold over the counted places of two exists and is the sum of their values
\* (the sums of _weighted_mean, composite.py 123-191).
LEMMA FoldOfTwo ==
  ASSUME NEW value \in [{1, 2} -> Nat], NEW places \in SUBSET {1, 2}
  PROVE  /\ \E total : Folds(total, value, places)
         /\ \A total : Folds(total, value, places) => total[places] = SumOf(value, places)
<1>1. \A s \in SUBSET places : s # {} => One(s) \in s
  BY DEF One
<1>2. value[1] \in Nat /\ value[2] \in Nat
  OBVIOUS
<1>3. Folds([s \in SUBSET places |-> SumOf(value, s)], value, places)
  <2> DEFINE h == [s \in SUBSET places |-> SumOf(value, s)]
  <2>1. ASSUME NEW s \in SUBSET places, s # {}
        PROVE  SumOf(value, s) = value[One(s)] + h[s \ {One(s)}]
    <3>1. One(s) \in s /\ h[s \ {One(s)}] = SumOf(value, s \ {One(s)})
      BY <1>1, <2>1
    <3>2. CASE One(s) = 1
      BY <1>2, <3>1, <3>2 DEF SumOf
    <3>3. CASE One(s) = 2
      BY <1>2, <3>1, <3>3 DEF SumOf
    <3> QED
      BY <3>1, <3>2, <3>3
  <2>2. SumOf(value, {}) = 0
    BY DEF SumOf
  <2> QED
    BY <2>1, <2>2 DEF Folds
<1>4. ASSUME NEW k, Folds(k, value, places)
      PROVE  k[places] = SumOf(value, places)
  <2>1. /\ k[{}] = 0
        /\ \A s \in SUBSET places : s # {} => k[s] = value[One(s)] + k[s \ {One(s)}]
    BY <1>4 DEF Folds
  <2>2. ASSUME NEW i \in {1, 2}, NEW s \in SUBSET places, s = {i}
        PROVE  k[s] = value[i]
    <3>1. One(s) = i /\ s \ {One(s)} = {} /\ s # {}
      BY <1>1, <2>2
    <3>2. k[s \ {One(s)}] = 0
      BY <2>1, <3>1
    <3>3. k[s] = value[One(s)] + k[s \ {One(s)}]
      BY <2>1, <3>1
    <3> QED
      BY <1>2, <3>1, <3>2, <3>3
  <2>3. CASE places = {1, 2}
    <3>1. One(places) \in {1, 2} /\ k[places] = value[One(places)] + k[places \ {One(places)}]
      BY <1>1, <2>1, <2>3
    <3>2. CASE One(places) = 1
      <4>1. k[places \ {One(places)}] = value[2]
        BY <2>2, <2>3, <3>2
      <4> QED
        BY <1>2, <2>3, <3>1, <3>2, <4>1 DEF SumOf
    <3>3. CASE One(places) = 2
      <4>1. k[places \ {One(places)}] = value[1]
        BY <2>2, <2>3, <3>3
      <4> QED
        BY <1>2, <2>3, <3>1, <3>3, <4>1 DEF SumOf
    <3> QED
      BY <3>1, <3>2, <3>3
  <2>4. CASE places = {}
    BY <2>1, <2>4 DEF SumOf
  <2>5. ASSUME NEW i \in {1, 2}, places = {i}
        PROVE  k[places] = SumOf(value, places)
    <3>1. k[places] = value[i]
      BY <2>2, <2>5
    <3> QED
      BY <1>2, <2>5, <3>1 DEF SumOf
  <2>6. places = {} \/ places = {1} \/ places = {2} \/ places = {1, 2}
    OBVIOUS
  <2> QED
    BY <2>3, <2>4, <2>5, <2>6
<1> QED
  BY <1>3, <1>4

\* The weight of the counted components.
LEMMA WeightOfTwo ==
  ASSUME NEW components, NEW places \in SUBSET {1, 2},
         \A i \in places : components[i].weight \in Nat
  PROVE  WeightOf(components, places) =
           SumOf([i \in {1, 2} |-> IF i \in places THEN components[i].weight ELSE 0], places)
<1> DEFINE value == [i \in {1, 2} |-> IF i \in places THEN components[i].weight ELSE 0]
           P(k) == k = [s \in SUBSET places |->
             IF s = {} THEN 0
             ELSE components[CHOOSE x \in s : TRUE].weight + k[s \ {CHOOSE x \in s : TRUE}]]
<1>1. WeightOf(components, places) = (CHOOSE k : P(k))[places]
  BY Zenon DEF WeightOf, MapThenSumSet, MapThenFoldSet
<1>2. ASSUME NEW k PROVE P(k) <=> Folds(k, value, places)
  <2>1. ASSUME NEW s \in SUBSET places, s # {}
        PROVE  value[One(s)] = components[One(s)].weight
    BY <2>1 DEF One
  <2>2. P(k) <=> k = [s \in SUBSET places |->
             IF s = {} THEN 0 ELSE components[One(s)].weight + k[s \ {One(s)}]]
    BY Zenon DEF One
  <2> HIDE DEF P, value
  <2> QED
    BY <2>1, <2>2 DEF Folds
<1>3. /\ \E total : Folds(total, value, places)
      /\ \A total : Folds(total, value, places) => total[places] = SumOf(value, places)
  <2>1. value \in [{1, 2} -> Nat]
    OBVIOUS
  <2> HIDE DEF value
  <2> QED
    BY <2>1, FoldOfTwo
<1> HIDE DEF P, value
<1>4. P(CHOOSE k : P(k))
  BY <1>2, <1>3, Zenon
<1> QED
  BY <1>1, <1>2, <1>3, <1>4 DEF value

\* The numerator of the mean over the counted components.
LEMMA SumOfTwo ==
  ASSUME NEW components, NEW children, Counted(children) \subseteq {1, 2},
         \A i \in Counted(children) : components[i].weight * children[i].score \in Nat
  PROVE  WeightedSum(components, children) =
           SumOf([i \in {1, 2} |-> IF i \in Counted(children)
                               THEN components[i].weight * children[i].score ELSE 0],
                 Counted(children))
<1> DEFINE places == Counted(children)
           value == [i \in {1, 2} |-> IF i \in places
                                      THEN components[i].weight * children[i].score ELSE 0]
           P(k) == k = [s \in SUBSET places |->
             IF s = {} THEN 0
             ELSE components[CHOOSE x \in s : TRUE].weight * children[CHOOSE x \in s : TRUE].score
               + k[s \ {CHOOSE x \in s : TRUE}]]
<1>1. WeightedSum(components, children) = (CHOOSE k : P(k))[places]
  BY Zenon DEF WeightedSum, MapThenSumSet, MapThenFoldSet
<1>2. ASSUME NEW k PROVE P(k) <=> Folds(k, value, places)
  <2>1. ASSUME NEW s \in SUBSET places, s # {}
        PROVE  value[One(s)] = components[One(s)].weight * children[One(s)].score
    BY <2>1 DEF One
  <2>2. P(k) <=> k = [s \in SUBSET places |->
             IF s = {} THEN 0 ELSE components[One(s)].weight * children[One(s)].score + k[s \ {One(s)}]]
    BY Zenon DEF One
  <2> HIDE DEF P, value
  <2> QED
    BY <2>1, <2>2 DEF Folds
<1>3. /\ \E total : Folds(total, value, places)
      /\ \A total : Folds(total, value, places) => total[places] = SumOf(value, places)
  <2>1. value \in [{1, 2} -> Nat] /\ places \in SUBSET {1, 2}
    OBVIOUS
  <2> HIDE DEF value, places
  <2> QED
    BY <2>1, FoldOfTwo
<1> HIDE DEF P, value, places
<1>4. P(CHOOSE k : P(k))
  BY <1>2, <1>3, Zenon
<1> QED
  BY <1>1, <1>2, <1>3, <1>4 DEF value, places

(***************************************************************************)
(* The composite of a check and a judge.                                   *)
(***************************************************************************)
\* What a component without a verdict, or with one, has for a score.
CheckGiven(check) ==
  \/ check = Result("pass", Full)
  \/ check = Result("fail", 0)
  \/ check.status \in NonDefinitive /\ check.score = NoScore

\* A rule's verdict is all or nothing.
LEMMA VerdictsAreWhole == \A good : CheckGiven(Verdict(good))
BY DEF CheckGiven, Verdict

\* Without a verdict there is no score.
LEMMA TroubleHasNoScore == \A status \in NonDefinitive : CheckGiven(NoVerdict(status))
BY DEF CheckGiven, NoVerdict, Result

\* The first component gives full marks, none, or no score at all: the rule
\* graders have no partial credit (exact.py, grounding.py, harness.py).
LEMMA FirstResultsGiven == \A check \in FirstResults : CheckGiven(check)
<1> USE VerdictsAreWhole, TroubleHasNoScore
<1>1. /\ "error" \in NonDefinitive /\ "abstain" \in NonDefinitive
      /\ "unavailable" \in NonDefinitive
  BY DEF NonDefinitive
<1>2. ASSUME NEW x, NEW v PROVE CheckGiven(SchemaGrade(x, v))
  BY <1>1 DEF SchemaGrade
<1>3. ASSUME NEW x, NEW r, NEW m PROVE CheckGiven(ExactGrade(x, r, m))
  BY <1>1 DEF ExactGrade
<1>4. ASSUME NEW x, NEW t, NEW o, NEW a PROVE CheckGiven(GroundedGrade(x, t, o, a))
  BY <1>1 DEF GroundedGrade
<1>5. ASSUME NEW reply PROVE CheckGiven(MapHarnessResult(reply))
  BY <1>1 DEF MapHarnessResult
<1>6. ASSUME NEW x, NEW p, NEW reply PROVE CheckGiven(HarnessGrade(x, p, reply))
  BY <1>1, <1>5 DEF HarnessGrade
<1>7. ASSUME NEW kind \in Checks, NEW check \in CheckResults[kind]
      PROVE  CheckGiven(check)
  <2>1. CASE kind = "schema"
    BY <1>2, <1>7, <2>1 DEF CheckResults
  <2>2. CASE kind = "exact"
    BY <1>3, <1>7, <2>2 DEF CheckResults
  <2>3. CASE kind = "grounded"
    BY <1>4, <1>7, <2>3 DEF CheckResults
  <2>4. CASE kind = "harness"
    BY <1>6, <1>7, <2>4 DEF CheckResults
  <2>5. CASE kind = "swebench"
    BY <1>6, <1>7, <2>5 DEF CheckResults
  <2> QED
    BY <2>1, <2>2, <2>3, <2>4, <2>5, CompositeAssumption
<1> QED
  BY <1>1, <1>7 DEF FirstResults

\* What a judge with this status may add, as ScoresOf says.
JudgeGiven(judge) ==
  \/ judge.status = "pass" /\ judge.score \in 1..Full
  \/ judge.status = "fail"
  \/ judge.status \in NonDefinitive /\ judge.score = NoScore

\* A product of naturals is zero only with one of its factors.
LEMMA ZeroProduct == \A m, n \in Nat : m * n \in Nat /\ (m * n = 0 => m = 0 \/ n = 0)
OBVIOUS

\* The grade of a check and a judge: only a passed check lets the sample pass, a
\* failed one fails it and blocks, and without a failing verdict the mean is not
\* zero unless its weights are (composite.py 123-191).
LEMMA CompositeOfTwo ==
  ASSUME NEW w \in Nat \X Nat, NEW check, NEW judge, CheckGiven(check), JudgeGiven(judge),
         gate \in BOOLEAN
  PROVE  LET grade == CompositeGrade(Pair(w), <<check, judge>>) IN
         /\ grade.status \in {"pass", "partial"} => check.status = "pass"
         /\ check.status = "fail" => grade.status = "fail" /\ grade.hardGate
         /\ grade.status = "fail" => "fail" \in {check.status, judge.status}
<1> DEFINE components == Pair(w)
           children == <<check, judge>>
           grade == CompositeGrade(components, children)
           missing == MissingRequired(components, children)
           total == WeightedTotal(components, children)
           sum == WeightedSum(components, children)
<1>1. /\ components[1] = [weight |-> w[1], hardGate |-> TRUE]
      /\ components[2] = [weight |-> w[2], hardGate |-> gate]
      /\ DOMAIN components = {1, 2} /\ w[1] \in Nat /\ w[2] \in Nat
  BY DEF Pair
<1>2. children[1] = check /\ children[2] = judge /\ DOMAIN children = {1, 2}
  OBVIOUS
<1> HIDE DEF components, children
<1>3. 1 \in HardGates(components) /\ HardGates(components) \subseteq {1, 2}
  BY <1>1 DEF HardGates
<1>4. /\ check.status = "fail" => HardGateFailed(components, children)
      /\ HardGateFailed(components, children) => "fail" \in {check.status, judge.status}
  BY <1>2, <1>3 DEF HardGateFailed
<1>5. check.status \in NonDefinitive => check.status \in missing
  BY <1>2, <1>3 DEF MissingRequired
<1>6. check.status \in {"pass", "fail"} \union NonDefinitive
  BY DEF CheckGiven, Result
<1>7. grade = [status |-> CompositeStatus(components, children),
               hardGate |-> HardGateFailed(components, children)]
  BY DEF CompositeGrade
<1>8. ASSUME check.status = "pass", judge.status # "fail", total # 0
      PROVE  sum # 0
  <2> DEFINE counted2 == Counted(children)
  <2>1. Full \in Nat \ {0} /\ NoScore \notin 0..Full
    BY GradeRulesAssumption
  <2>2. check.score = Full /\ 1 \in counted2 /\ counted2 \subseteq {1, 2}
    BY <1>2, <1>8, <2>1 DEF Counted, CheckGiven, Result, NonDefinitive
  <2>3. 2 \in counted2 => judge.score \in 1..Full
    BY <1>2, <1>8 DEF Counted, JudgeGiven
  <2> HIDE DEF counted2
  <2> DEFINE judged == IF 2 \in counted2 THEN w[2] * judge.score ELSE 0
  <2>4. w[1] * Full \in Nat /\ (2 \in counted2 => w[2] * judge.score \in Nat)
    BY <1>1, <2>1, <2>3, ZeroProduct
  <2>5. sum = w[1] * Full + judged
    <3>1. \A i \in counted2 : components[i].weight * children[i].score \in Nat
      <4>1. components[1].weight * children[1].score = w[1] * Full
        BY <1>1, <1>2, <2>2
      <4>2. components[2].weight * children[2].score = w[2] * judge.score
        BY <1>1, <1>2
      <4> QED
        BY <2>2, <2>4, <4>1, <4>2
    <3>2. sum = SumOf([i \in {1, 2} |-> IF i \in counted2
                               THEN components[i].weight * children[i].score ELSE 0], counted2)
      BY <2>2, <3>1, SumOfTwo DEF counted2
    <3> QED
      BY <1>1, <1>2, <2>2, <3>2 DEF SumOf
  <2>6. total = Full * (w[1] + (IF 2 \in counted2 THEN w[2] ELSE 0))
    <3>1. \A i \in counted2 : components[i].weight \in Nat
      BY <1>1, <2>2
    <3>2. WeightOf(components, counted2) =
            SumOf([i \in {1, 2} |-> IF i \in counted2 THEN components[i].weight ELSE 0], counted2)
      BY <2>2, <3>1, WeightOfTwo
    <3>3. WeightOf(components, counted2) = w[1] + (IF 2 \in counted2 THEN w[2] ELSE 0)
      BY <1>1, <2>2, <3>2 DEF SumOf
    <3> QED
      BY <3>3 DEF WeightedTotal, counted2
  <2>7. SUFFICES ASSUME sum = 0 PROVE total = 0
    BY <1>8
  <2>8. judged \in Nat
    BY <2>4
  <2>9. w[1] * Full = 0 /\ judged = 0
    BY <2>4, <2>5, <2>7, <2>8
  <2>10. w[1] = 0
    BY <1>1, <2>1, <2>9, ZeroProduct
  <2>11. 2 \in counted2 => w[2] = 0
    BY <1>1, <2>1, <2>3, <2>9, ZeroProduct
  <2>12. w[1] + (IF 2 \in counted2 THEN w[2] ELSE 0) = 0
    BY <2>10, <2>11
  <2> QED
    BY <2>1, <2>6, <2>12
<1> HIDE DEF total, sum, missing, grade
<1>9. grade.status = CompositeStatus(components, children)
  BY <1>7
<1>10. /\ grade.status \in {"pass", "partial"} => missing = {}
       /\ grade.status = "fail" =>
            \/ HardGateFailed(components, children)
            \/ missing = {} /\ total # 0 /\ sum = 0
  BY <1>9 DEF CompositeStatus, MeanStatus, total, sum, missing
<1>11. grade.status \in {"pass", "partial"} => ~HardGateFailed(components, children)
  BY <1>9 DEF CompositeStatus
<1> QED
  <2>1. /\ grade.status \in {"pass", "partial"} => check.status = "pass"
        /\ check.status = "fail" => grade.status = "fail" /\ grade.hardGate
        /\ grade.status = "fail" => "fail" \in {check.status, judge.status}
    <3>1. grade.status \in {"pass", "partial"} => check.status = "pass"
      BY <1>4, <1>5, <1>6, <1>10, <1>11
    <3>2. check.status = "fail" => grade.status = "fail" /\ grade.hardGate
      BY <1>4, <1>7, <1>9 DEF CompositeStatus
    <3>3. ASSUME grade.status = "fail", check.status # "fail", judge.status # "fail" PROVE FALSE
      BY <1>4, <1>5, <1>6, <1>8, <1>10, <3>3
    <3> QED
      BY <3>1, <3>2, <3>3
  <2> QED
    BY <2>1 DEF grade, components, children

\* A step of the run leaves a grade that was given as it is.
LEMMA GradedStaysGraded ==
  ASSUME IInv, [Next]_vars, NEW s \in Samples, Graded(s)
  PROVE  Graded(s)' /\ UNCHANGED result[s]
<1>1. CASE Drift \/ Day \/ UNCHANGED vars
  BY <1>1 DEF Drift, Day, vars, evidence, grading, Graded
<1>2. CASE Measure
  BY <1>2 DEF Measure, MeasureSample, MeasureRaises, Measured, world, grading, Graded
<1>3. ASSUME NEW t \in Samples, Grade(t)
      PROVE  Graded(s)' /\ UNCHANGED result[s]
  <2>1. CASE t = s
    BY <1>3, <2>1
    DEF Grade, Begin, AskRaises, AskGarbled, AskAnswered, ProbeAnswered, ProbeRaises, Graded
  <2>2. CASE t # s
    BY <1>3, <2>2, GradeShape DEF Graded
  <2> QED
    BY <2>1, <2>2
<1> QED
  BY <1>1, <1>2, <1>3 DEF Next

\* What is known of a composite: it was made of a grade, and what the two
\* theorems below say of it.
Composed(s) ==
  Combined(s) =>
    /\ Graded(s)
    /\ composite[s].status \in {"pass", "partial"} => composite[s].check = "pass"
    /\ composite[s].check = "fail" => composite[s].status = "fail" /\ composite[s].hardGate
    /\ composite[s].status = "fail" => "fail" \in {composite[s].check, result[s].status}

CompositeInv ==
  /\ IInv
  /\ DOMAIN composite = Samples
  /\ \A s \in Samples : Composed(s)

\* The scores of the judge's grade are those a composite can count on.
LEMMA ScoresAreGiven ==
  ASSUME IInv, NEW s \in Samples, Graded(s), NEW score \in ScoresOf(s)
  PROVE  JudgeGiven(Result(result[s].status, score))
<1>1. result[s].status \in GradeStatus
  BY DEF IInv, ResultInv, Ended, Graded
<1> QED
  BY <1>1, CompositeAssumption, GradeRulesAssumption
  DEF ScoresOf, JudgeGiven, Result, GradeStatus, NonDefinitive

\* Combining keeps it.
LEMMA CombineInv ==
  ASSUME CompositeInv, NEW s \in Samples, Combine(s)
  PROVE  CompositeInv'
<1>1. UNCHANGED vars /\ Graded(s)
  BY DEF Combine
<1>2. IInv' /\ \A t \in Samples : Graded(t)' = Graded(t)
  BY <1>1, NextInv DEF CompositeInv, Graded, vars
<1>3. PICK check \in FirstResults, w \in Weights, score \in ScoresOf(s) :
        composite' = [composite EXCEPT ![s] =
          [check |-> check.status,
           status |-> CompositeGrade(Pair(w), <<check, Result(result[s].status, score)>>).status,
           hardGate |-> CompositeGrade(Pair(w), <<check, Result(result[s].status, score)>>).hardGate]]
  BY DEF Combine
<1> DEFINE judge == Result(result[s].status, score)
           grade == CompositeGrade(Pair(w), <<check, judge>>)
<1>4. /\ grade.status \in {"pass", "partial"} => check.status = "pass"
      /\ check.status = "fail" => grade.status = "fail" /\ grade.hardGate
      /\ grade.status = "fail" => "fail" \in {check.status, judge.status}
  <2>1. CheckGiven(check) /\ JudgeGiven(judge) /\ w \in Nat \X Nat /\ gate \in BOOLEAN
    BY <1>1, FirstResultsGiven, ScoresAreGiven, CompositeAssumption DEF CompositeInv, IInv, TypeOK
  <2> HIDE DEF judge
  <2> QED
    BY <2>1, CompositeOfTwo
<1>5. judge.status = result[s].status /\ result' = result
  BY <1>1 DEF Result, vars
<1> HIDE DEF judge, grade
<1>6. /\ DOMAIN composite' = Samples
      /\ composite'[s] = [check |-> check.status, status |-> grade.status, hardGate |-> grade.hardGate]
      /\ \A t \in Samples \ {s} : composite'[t] = composite[t]
  BY <1>3 DEF CompositeInv, judge, grade
<1>7. Composed(s)'
  BY <1>1, <1>2, <1>4, <1>5, <1>6 DEF Composed
<1>8. ASSUME NEW t \in Samples \ {s} PROVE Composed(t)'
  BY <1>2, <1>5, <1>6 DEF Composed, CompositeInv, Combined
<1> QED
  BY <1>2, <1>6, <1>7, <1>8 DEF CompositeInv

\* No step of the judge or of the composites leaves it.
LEMMA CompositeNextInv == CompositeInv /\ [CompositeNext]_compositeVars => CompositeInv'
<1> SUFFICES ASSUME CompositeInv, [CompositeNext]_compositeVars PROVE CompositeInv'
  OBVIOUS
<1>1. CASE [Next]_vars /\ UNCHANGED composite
  <2>1. IInv'
    BY <1>1, NextInv DEF CompositeInv
  <2>2. ASSUME NEW s \in Samples PROVE Composed(s)'
    BY <1>1, GradedStaysGraded DEF CompositeInv, Composed, Combined
  <2> QED
    BY <1>1, <2>1, <2>2 DEF CompositeInv
<1>2. CASE \E s \in Samples : Combine(s)
  BY <1>2, CombineInv
<1> QED
  BY <1>1, <1>2 DEF CompositeNext, compositeVars

\* A run with composites is a run of the judge: every theorem above holds of it too.
THEOREM CompositesLeaveTheJudgeAlone == CompositeSpec => Spec
<1>1. CompositeInit => Init
  BY DEF CompositeInit
<1>2. [CompositeNext]_compositeVars => [Next]_vars
  BY DEF CompositeNext, compositeVars, Combine, vars
<1> QED
  BY <1>1, <1>2, PTL DEF CompositeSpec, Spec

\* The composites keep their invariant, and so the judge's.
THEOREM CompositeInvariance == CompositeSpec => []CompositeInv
<1>1. CompositeInit => CompositeInv
  <2> SUFFICES ASSUME CompositeInit PROVE CompositeInv
    OBVIOUS
  <2>1. IInv
    BY InitInv DEF CompositeInit
  <2> QED
    BY <2>1 DEF CompositeInit, CompositeInv, Composed, Combined
<1> QED
  BY <1>1, CompositeNextInv, PTL DEF CompositeSpec

\* No opinion of a judge stands in for a check, whatever the weights, the bar and
\* the answers are (composite.py 10-16, 123-191).
THEOREM CheckDecides == CompositeSpec => []JudgeNeverRescues
<1>1. CompositeInv => JudgeNeverRescues
  BY DEF CompositeInv, Composed, JudgeNeverRescues
<1> QED
  BY <1>1, CompositeInvariance, PTL

\* A sample fails only when a component gave it a failing verdict (composite.py
\* 6-12, 17-21).
THEOREM CompositeFailuresAreVerdicts == CompositeSpec => []TroubleIsNeverAFailingComposite
<1>1. CompositeInv => TroubleIsNeverAFailingComposite
  BY DEF CompositeInv, Composed, TroubleIsNeverAFailingComposite
<1> QED
  BY <1>1, CompositeInvariance, PTL
===========================================================================
