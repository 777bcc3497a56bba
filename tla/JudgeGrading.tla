--------------------------- MODULE JudgeGrading ---------------------------
(***************************************************************************)
(* JudgeGrader.grade (graders/judge.py) on the samples of a run, and the   *)
(* measurement (graders/measure.py) its calibration came from.  The judge  *)
(* is a live service: between two calls its fingerprint may change, and    *)
(* time passes while a call is out.  A handler runs alone from one await   *)
(* on the judge to the next; one action is one such stretch.               *)
(***************************************************************************)
EXTENDS CalibrationEvidence

CONSTANTS
  Samples,       \* the samples to grade, side by side
  Fingerprints,  \* of the judges that may answer
  Supplied,      \* calibrations handed to the grader that were not measured here
  LabeledSet,    \* bound: how many labeled samples a measurement reads
  MaxCalls,      \* _MAXIMUM_PARSE_RETRIES + 1
  LastDay,       \* bound on the clock
  Lifetime,      \* days from calibrated_at to expires_at
  Threshold      \* the calibration's own bar

ASSUME GradingAssumption ==
  /\ {LabeledSet, LastDay, Lifetime} \subseteq Nat
  /\ MaxCalls \in Nat \ {0}
  /\ Threshold \in 0..Scale
  /\ None \notin Fingerprints \union Artifacts(Fingerprints)
  /\ Supplied \subseteq Artifacts(Fingerprints) \union {None}

Verdicts == {"yes", "no"}
Scores == {"high", "low", None}     \* at least pass_score_threshold, or less
EnvelopeStatus == {"ok", "refused", "failure"}  \* failure: rate_limited, timeout, error

Responses ==
  [status : EnvelopeStatus, parsed : BOOLEAN, abstained : BOOLEAN,
   verdict : Verdicts, score : Scores, fingerprint : Fingerprints]

GradeStatus == {"pass", "fail", "error", "abstain", "unavailable"}

VARIABLES
  live,         \* judge.fingerprint
  now,
  gate,         \* the grader's constructor argument
  calibration,  \* the grader's artifact, None until it is measured or if there is none
  measurement,  \* the artifact being measured
  counted,      \* the judges whose verdicts went into its matrix
  pc,           \* of each grade call
  asOf,         \* its `now`, read once at its start
  calls,        \* the answers to its request so far
  primary,      \* the answer it goes by
  probe,        \* what became of the order-swapped call
  result        \* [status, hardGate], or None

vars == <<live, now, gate, calibration, measurement, counted,
          pc, asOf, calls, primary, probe, result>>

world == <<live, now>>
evidence == <<gate, calibration, measurement, counted>>
grading == <<pc, asOf, calls, primary, probe, result>>

Measuring == measurement # None

Fresh(fingerprint, day) ==
  [fingerprint |-> fingerprint, calibratedAt |-> day, expiresAt |-> day + Lifetime,
   threshold |-> Threshold, total |-> 0, counts |-> NoCounts]

Init ==
  /\ live \in Fingerprints
  /\ now = 0
  /\ gate \in BOOLEAN
  /\ \/ calibration \in Supplied /\ measurement = None
     \/ calibration = None /\ measurement = Fresh(live, now)
  /\ counted = {}
  /\ pc = [s \in Samples |-> "idle"]
  /\ asOf = [s \in Samples |-> 0]
  /\ calls = [s \in Samples |-> 0]
  /\ primary = [s \in Samples |-> None]
  /\ probe = [s \in Samples |-> "none"]
  /\ result = [s \in Samples |-> None]

(***************************************************************************)
(* The world.                                                              *)
(***************************************************************************)
Drift ==
  /\ live' \in Fingerprints \ {live}
  /\ UNCHANGED <<now, evidence, grading>>

Day ==
  /\ now < LastDay
  /\ now' = now + 1
  /\ UNCHANGED <<live, evidence, grading>>

(***************************************************************************)
(* measure_calibration.                                                    *)
(***************************************************************************)
Passes(r) == r.score = "high"

\* Mutant: whoever answers is counted.
OutcomeOfAnyone(r, fingerprint) ==
  IF r.status # "ok" \/ ~r.parsed THEN "errored"
  ELSE IF r.abstained THEN "abstained"
  ELSE IF Passes(r) THEN "good" ELSE "bad"

\* _classify_response.
Outcome(r, fingerprint) ==
  IF r.status = "refused" THEN "abstained"
  ELSE IF r.status # "ok" \/ r.fingerprint # fingerprint \/ ~r.parsed THEN "errored"
  ELSE IF r.abstained THEN "abstained"
  ELSE IF r.score = None THEN "errored"
  ELSE IF Passes(r) THEN "good" ELSE "bad"

Tally(label, outcome) ==
  measurement' = [measurement EXCEPT
    !.counts = Count(@, label, outcome), !.total = @ + 1]

MeasureSample ==
  /\ Measuring /\ measurement.total < LabeledSet
  /\ \E label \in Labels, r \in Responses :
       LET outcome == Outcome(r, measurement.fingerprint) IN
       /\ Tally(label, outcome)
       /\ counted' = IF outcome \in {"good", "bad"} THEN counted \union {r.fingerprint}
                     ELSE counted
  /\ UNCHANGED <<world, gate, calibration, grading>>

\* The judge raised: that sample is an error and the next one is asked.
MeasureRaises ==
  /\ Measuring /\ measurement.total < LabeledSet
  /\ \E label \in Labels : Tally(label, "errored")
  /\ UNCHANGED <<world, gate, calibration, counted, grading>>

Measured ==
  /\ Measuring /\ measurement.total = LabeledSet
  /\ calibration' = measurement
  /\ measurement' = None
  /\ UNCHANGED <<world, gate, counted, grading>>

(***************************************************************************)
(* grade.                                                                  *)
(***************************************************************************)
Goto(s, phase) == pc' = [pc EXCEPT ![s] = phase]

\* _result.
Finish(s, status, hardGate) ==
  /\ Goto(s, "done")
  /\ result' = [result EXCEPT ![s] = [status |-> status, hardGate |-> hardGate]]

Begin(s) ==
  /\ ~Measuring
  /\ pc[s] = "idle"
  /\ Goto(s, "asking")
  /\ asOf' = [asOf EXCEPT ![s] = now]
  /\ UNCHANGED <<world, evidence, calls, primary, probe, result>>

\* _judge_with_bounded_retries: an exception is not asked again.
AskRaises(s) ==
  /\ pc[s] = "asking"
  /\ calls' = [calls EXCEPT ![s] = @ + 1]
  /\ Finish(s, "error", FALSE)
  /\ UNCHANGED <<world, evidence, asOf, primary, probe>>

\* Mutant: the count of tries starts over.
AskGarbledForever(s) ==
  /\ pc[s] = "asking"
  /\ calls' = [calls EXCEPT ![s] = (@ + 1) % MaxCalls]
  /\ UNCHANGED <<world, evidence, pc, asOf, primary, probe, result>>

\* An answer that does not parse is asked again, until the tries are used up.
AskGarbled(s) ==
  /\ pc[s] = "asking"
  /\ \E r \in Responses : ~r.parsed
  /\ calls' = [calls EXCEPT ![s] = @ + 1]
  /\ IF calls[s] + 1 < MaxCalls
     THEN UNCHANGED <<pc, result>>
     ELSE Finish(s, "error", FALSE)
  /\ UNCHANGED <<world, evidence, asOf, primary, probe>>

\* No _calibration_failure_reason, and a gate was asked for.
MayGate(s) ==
  /\ gate
  /\ calibration # None
  /\ calibration.fingerprint = live
  /\ ~Unusable(calibration, asOf[s])

ScoreStatus(r) == IF Passes(r) THEN "pass" ELSE IF r.score = None THEN "unavailable" ELSE "fail"

\* _non_ok_envelope_result.
Envelope(r) ==
  IF r.status = "refused" THEN "abstain" ELSE IF r.status # "ok" THEN "error" ELSE "none"

\* _unusable_calibration_result.
HasProof(s) == calibration # None /\ ProvenBad(calibration, asOf[s])

\* The checks of grade in their order; "verdict" when none of them ends it.
Check(s, r) ==
  IF Envelope(r) # "none" THEN Envelope(r)
  ELSE IF r.fingerprint # live THEN "error"
  ELSE IF r.abstained THEN "abstain"
  ELSE IF HasProof(s) THEN "unavailable"
  ELSE "verdict"

AskAnswered(s) ==
  /\ pc[s] = "asking"
  /\ \E r \in Responses :
       /\ r.parsed
       /\ primary' = [primary EXCEPT ![s] = r]
       /\ IF Check(s, r) # "verdict" THEN Finish(s, Check(s, r), FALSE)
          ELSE IF MayGate(s) THEN Goto(s, "probing") /\ UNCHANGED result
          ELSE Finish(s, ScoreStatus(r), FALSE)
  /\ calls' = [calls EXCEPT ![s] = @ + 1]
  /\ UNCHANGED <<world, evidence, asOf, probe>>

\* _position_bias_failure_reason: the second answer is only compared when it is
\* one; whatever else came back lets the first stand.
Flipped(s, r) == r.parsed /\ ~r.abstained /\ r.verdict # primary[s].verdict

\* can_gate.
CanGate(s, r) == Passes(primary[s]) /\ ~Flipped(s, r)

ProbeOutcome(s, r) ==
  IF r.status # "ok" THEN "failed"
  ELSE IF Flipped(s, r) THEN "flipped"
  ELSE "agreed"

ProbeAnswered(s) ==
  /\ pc[s] = "probing"
  /\ \E r \in Responses :
       /\ probe' = [probe EXCEPT ![s] = ProbeOutcome(s, r)]
       /\ Finish(s, ScoreStatus(primary[s]), CanGate(s, r))
  /\ UNCHANGED <<world, evidence, asOf, calls, primary>>

ProbeRaises(s) ==
  /\ pc[s] = "probing"
  /\ probe' = [probe EXCEPT ![s] = "failed"]
  /\ Finish(s, ScoreStatus(primary[s]), FALSE)
  /\ UNCHANGED <<world, evidence, asOf, calls, primary>>

Grade(s) ==
  \/ Begin(s) \/ AskRaises(s) \/ AskGarbled(s) \/ AskAnswered(s)
  \/ ProbeAnswered(s) \/ ProbeRaises(s)

Measure == MeasureSample \/ MeasureRaises \/ Measured

Next == Drift \/ Day \/ Measure \/ \E s \in Samples : Grade(s)

Spec == Init /\ [][Next]_vars

\* The judge answers or raises in the end, and the event loop goes on with
\* what was waiting for it.
FairSpec == Spec /\ WF_vars(Measure) /\ \A s \in Samples : WF_vars(Grade(s))

(***************************************************************************)
(* Properties.                                                             *)
(***************************************************************************)
TypeOK ==
  /\ live \in Fingerprints /\ now \in 0..LastDay /\ gate \in BOOLEAN
  /\ calibration \in Artifacts(Fingerprints) \union {None}
  /\ measurement \in Artifacts(Fingerprints) \union {None}
  /\ counted \subseteq Fingerprints
  /\ pc \in [Samples -> {"idle", "asking", "probing", "done"}]
  /\ asOf \in [Samples -> 0..LastDay]
  /\ calls \in [Samples -> 0..MaxCalls]
  /\ primary \in [Samples -> Responses \union {None}]
  /\ probe \in [Samples -> {"none", "agreed", "flipped", "failed"}]
  /\ result \in [Samples -> [status : GradeStatus, hardGate : BOOLEAN] \union {None}]

Graded(s) == pc[s] = "done"
Gates(s) == Graded(s) /\ result[s].hardGate

EarnedBy(s) == Authority(calibration, primary[s].fingerprint, asOf[s])

\* A grade can block a release only if the judge that gave it has earned that
\* by every floor, the answer is a pass, and the order-swapped call did not
\* contradict it, although the live judge may change while either call is out
\* (judge.py 366-388).
GatesOnAuthority ==
  \A s \in Samples : Gates(s) =>
    /\ gate /\ result[s].status = "pass" /\ Passes(primary[s])
    /\ EarnedBy(s) = "gating"
    /\ probe[s] \notin {"none", "flipped"}

\* The verdicts in the matrix behind a gating grade are verdicts of the judge
\* that graded, from the first labeled sample measured to the sample graded
\* (measure.py 82-118, judge.py 473-495, 651-659).
GatedByTheMeasuredJudge ==
  \A s \in Samples : Gates(s) => counted \subseteq {primary[s].fingerprint}

\* With proof that the judge is bad no verdict is reported, not even an
\* advisory pass (judge.py 518-557).
ProvenBadGivesNoVerdict ==
  \A s \in Samples :
    Graded(s) /\ calibration # None /\ ProvenBad(calibration, asOf[s])
      => result[s].status \notin {"pass", "fail"}

\* A sample only fails on a verdict: a judge that raised, declined, reported
\* trouble of its own or could not be understood is never counted against the
\* system under test (judge.py 402-471, ADR-0020).
TroubleIsNotFailure ==
  \A s \in Samples : Graded(s) /\ result[s].status = "fail" =>
    /\ primary[s] \in Responses
    /\ primary[s].status = "ok" /\ primary[s].parsed /\ ~primary[s].abstained
    /\ primary[s].score = "low"

\* "If the order-swapped call itself fails, that failure blocks gating too"
\* (judge.py 63-65).
FailedProbeBlocks ==
  \A s \in Samples : probe[s] = "failed" => ~Gates(s)

\* The bounded retries end: every sample gets its grade however often the judge
\* answers something that does not parse (judge.py 699-736).
EverySampleGraded == \A s \in Samples : <>Graded(s)
===========================================================================
