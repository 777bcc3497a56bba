-------------------------- MODULE CompositeJudging --------------------------
(***************************************************************************)
(* A judge behind an objective check, as one CompositeGrader: what         *)
(* build_grounded_citation_grader (graders/grounding.py) and the graders   *)
(* of the command line (cli/runs.py) put together.  The judge is the state *)
(* machine of JudgeGrading; the check is one of the rules of GradeRules.   *)
(***************************************************************************)
EXTENDS JudgeGrading, GradeRules

CONSTANTS
  Checks,   \* the deterministic graders that may stand first, by kind
  Weights,  \* <<of the check, of the judge>>
  Answers,  \* what the system under test may have cited
  HighScore \* the least score a judge passes, of Full (pass_score_threshold)

ASSUME CompositeAssumption ==
  /\ Checks \subseteq {"schema", "exact", "grounded", "harness", "swebench"}
  /\ Weights \subseteq Nat \X Nat
  /\ HighScore \in 1..Full

VARIABLE composite  \* of each sample: [check, status, hardGate], or None

compositeVars == <<vars, composite>>

CompositeInit ==
  /\ Init
  /\ gate <=> (Measuring \/ calibration # None)
  /\ composite = [s \in Samples |-> None]

\* The components, in their order: allow_gate is "a calibration was supplied".
Pair(w) == << [weight |-> w[1], hardGate |-> TRUE], [weight |-> w[2], hardGate |-> gate] >>

\* The score of the judge's answer, on the scale of the composite.
ScoresOf(s) ==
  IF result[s].status = "pass" THEN HighScore..Full
  ELSE IF result[s].status = "fail" THEN 0..(HighScore - 1)
  ELSE {NoScore}

\* What each kind of first component can give to an execution; what raised is an
\* error of that component.
CheckResults ==
  [schema |-> {SchemaGrade(x, v) : x \in Executions, v \in BOOLEAN},
   exact |-> {ExactGrade(x, r, m) : x \in Executions, r, m \in BOOLEAN},
   grounded |->
     {GroundedGrade(x, t, o, a) : x \in Executions, t, o \in BOOLEAN, a \in Answers},
   harness |-> {HarnessGrade(x, p, r) : x \in Executions, p \in BOOLEAN, r \in Replies},
   swebench |->
     {HarnessGrade(x, p, SweBenchReply(c, e, f)) :
        x \in Executions, p, c, e \in BOOLEAN, f \in [1..2 -> ReportFiles]}]

FirstResults == {NoVerdict("error")} \union UNION {CheckResults[kind] : kind \in Checks}

\* _grade_component of both, in order, and the grade made of them.
Combine(s) ==
  /\ Graded(s) /\ composite[s] = None
  /\ \E check \in FirstResults, w \in Weights, score \in ScoresOf(s) :
       LET children == <<check, Result(result[s].status, score)>>
           grade == CompositeGrade(Pair(w), children) IN
       composite' = [composite EXCEPT ![s] =
         [check |-> check.status, status |-> grade.status, hardGate |-> grade.hardGate]]
  /\ UNCHANGED vars

CompositeNext ==
  \/ Next /\ UNCHANGED composite
  \/ \E s \in Samples : Combine(s)

CompositeSpec == CompositeInit /\ [][CompositeNext]_compositeVars

\* As in JudgeGrading, and the event loop goes on to combine what it has.
CompositeFairSpec ==
  /\ CompositeSpec
  /\ WF_compositeVars(Measure /\ UNCHANGED composite)
  /\ \A s \in Samples :
       /\ WF_compositeVars(Grade(s) /\ UNCHANGED composite)
       /\ WF_compositeVars(Combine(s))

(***************************************************************************)
(* Properties.                                                             *)
(***************************************************************************)
Combined(s) == composite[s] # None

\* No opinion of a judge stands in for a check: a sample passes, or has partial
\* credit, only when its objective check passed; when that check failed the
\* sample fails and blocks, whatever the judge said or however it broke
\* (composite.py 10-16, 123-191).
JudgeNeverRescues ==
  \A s \in Samples : Combined(s) =>
    /\ composite[s].status \in {"pass", "partial"} => composite[s].check = "pass"
    /\ composite[s].check = "fail" => composite[s].status = "fail" /\ composite[s].hardGate

\* And no trouble of a judge, nor of the check, becomes a failure of the system
\* under test: a sample fails only when a component gave it a failing verdict
\* (composite.py 6-12, 17-21).
TroubleIsNeverAFailingComposite ==
  \A s \in Samples : Combined(s) /\ composite[s].status = "fail" =>
    "fail" \in {composite[s].check, result[s].status}

\* "supplying a calibration makes the judge *eligible* to gate, not automatically
\* trusted" (grounding.py 558-561): when the check passed, only a judge whose
\* calibration holds for it blocks the sample.
JudgeBlocksOnlyWithAuthority ==
  \A s \in Samples :
    Combined(s) /\ composite[s].check = "pass" /\ composite[s].hardGate
      => EarnedBy(s) = "gating"
===========================================================================
