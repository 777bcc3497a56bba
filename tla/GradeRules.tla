----------------------------- MODULE GradeRules -----------------------------
(***************************************************************************)
(* The graders that decide by rule (graders/exact.py, composite.py,        *)
(* grounding.py, harness.py) and how CompositeGrader makes one grade of    *)
(* several.  A grader is a function of the execution it is shown; what it  *)
(* reads of the answer is in the fields of "execution" and "answer".       *)
(***************************************************************************)
EXTENDS Integers, Sequences, FiniteSetsExt

CONSTANTS
  Full,      \* the score 1.0, in units of the smallest score told apart
  NoScore,   \* score=None
  Documents, \* ids of the sample's documents
  Required   \* metadata["required_evidence"]

ASSUME GradeRulesAssumption ==
  /\ Full \in Nat \ {0}
  /\ NoScore \notin 0..Full
  /\ Required \subseteq Documents /\ Required # {}

NonDefinitive == {"abstain", "error", "unavailable"}
Status == {"pass", "fail", "partial"} \union NonDefinitive

Result(status, score) == [status |-> status, score |-> score]

Verdict(good) == IF good THEN Result("pass", Full) ELSE Result("fail", 0)
NoVerdict(status) == Result(status, NoScore)

\* What a grader sees: the output may be there, be nothing, or have been moved
\* out of the result ("spilled") or lost on the way.
Executions == [completed : BOOLEAN, output : {"inline", "nothing", "spilled", "lost"}]

Answered(execution) == execution.completed /\ execution.output = "inline"

\* SchemaGrader.grade.
SchemaGrade(execution, valid) ==
  IF ~Answered(execution) THEN NoVerdict("unavailable") ELSE Verdict(valid)

\* ExactMatchGrader.grade; matches is the comparison of the two canonical texts.
ExactGrade(execution, reference, matches) ==
  IF ~Answered(execution) THEN NoVerdict("unavailable")
  ELSE IF ~reference THEN NoVerdict("abstain")
  ELSE Verdict(matches)

(***************************************************************************)
(* GroundedCitationGrader: an answer with its citations of documents.      *)
(***************************************************************************)
\* doc may be an id no document has; verbatim: _quote_is_faithful of that
\* document; substantive: at least MIN_SUBSTANTIVE_QUOTE_TOKENS words.
Citations(unknown) ==
  [doc : Documents \union {unknown}, verbatim : BOOLEAN, substantive : BOOLEAN]

Covered(answer) ==
  {c.doc : c \in {d \in answer.citations : d.verbatim /\ d.substantive}} \intersect Documents

Resolved(answer) == {c \in answer.citations : c.doc \in Documents}

\* _run_checks and _all_checks_passed.
AllChecksPassed(answer) ==
  /\ answer.wellFormed /\ ~answer.blank
  /\ \E c \in answer.citations : c.substantive
  /\ Resolved(answer) = answer.citations
  /\ \A c \in Resolved(answer) : c.verbatim
  /\ Required \subseteq Covered(answer)
  /\ ~answer.leaksCanary

\* The payload is the structured output, or the output when there is none.
GroundedGrade(execution, structured, oracle, answer) ==
  IF ~execution.completed \/ (~structured /\ execution.output # "inline")
  THEN NoVerdict("unavailable")
  ELSE IF ~oracle THEN NoVerdict("abstain")
  ELSE Verdict(AllChecksPassed(answer))

(***************************************************************************)
(* HarnessGrader: a reply of the external harness is a verdict only when   *)
(* the harness completed and says whether the task is resolved.            *)
(***************************************************************************)
Replies ==
  [status : {"completed", "unavailable", "error"}, resolved : {"yes", "no", "unsaid"}]

\* What a file the harness left behind holds for the instance: nothing of it, or
\* a report, with or without its verdict.
Reports == {"yes", "no", "unsaid"}
ReportFiles == Reports \union {"unreadable", "foreign"}

\* _read_instance_report: the first file, by name, that reports on the instance.
InstanceReport(files) ==
  LET found == {i \in DOMAIN files : files[i] \in Reports} IN
  IF found = {} THEN "none" ELSE files[Min(found)]

\* _result_from_report: no verdict is made up for a report that has none.
ResultFromReport(report) ==
  [status |-> IF report \in {"yes", "no"} THEN "completed" ELSE "error", resolved |-> report]

\* SweBenchDockerHarnessExecutor.execute; evaluated: the harness process ended well
\* and left a report.
SweBenchReply(capable, evaluated, files) ==
  IF ~capable THEN [status |-> "unavailable", resolved |-> "unsaid"]
  ELSE IF ~evaluated \/ InstanceReport(files) = "none"
  THEN [status |-> "error", resolved |-> "unsaid"]
  ELSE ResultFromReport(InstanceReport(files))

MapHarnessResult(reply) ==
  IF reply.status = "unavailable" THEN NoVerdict("unavailable")
  ELSE IF reply.status = "error" THEN NoVerdict("error")
  ELSE IF reply.resolved = "unsaid" THEN NoVerdict("unavailable")
  ELSE Verdict(reply.resolved = "yes")

\* A lost or moved output is the grader's trouble; no output is nothing to verify.
HarnessGrade(execution, predicts, reply) ==
  IF ~execution.completed THEN NoVerdict("unavailable")
  ELSE IF execution.output \in {"spilled", "lost"} THEN NoVerdict("error")
  ELSE IF execution.output = "nothing" THEN NoVerdict("unavailable")
  ELSE IF ~predicts THEN NoVerdict("error")
  ELSE MapHarnessResult(reply)

(***************************************************************************)
(* CompositeGrader.grade over its components and what each of them gave.   *)
(***************************************************************************)
Components == [weight : Nat, hardGate : BOOLEAN]

\* The components whose score counts, by place.
Counted(children) ==
  {i \in DOMAIN children :
     children[i].status \notin NonDefinitive /\ children[i].score # NoScore}

WeightOf(components, places) == MapThenSumSet(LAMBDA i : components[i].weight, places)

\* _weighted_mean, as a numerator over a denominator of whole scores.
WeightedSum(components, children) ==
  MapThenSumSet(LAMBDA i : components[i].weight * children[i].score, Counted(children))

WeightedTotal(components, children) == Full * WeightOf(components, Counted(children))

HardGates(components) == {i \in DOMAIN components : components[i].hardGate}

\* Mutant: whatever is not a pass fails.
HardGateNotPassed(components, children) ==
  \E i \in HardGates(components) : children[i].status # "pass"

HardGateFailed(components, children) ==
  \E i \in HardGates(components) : children[i].status = "fail"

MissingRequired(components, children) ==
  {children[i].status : i \in HardGates(components)} \intersect NonDefinitive

MeanStatus(sum, total) ==
  IF sum = 0 THEN "fail" ELSE IF sum >= total THEN "pass" ELSE "partial"

\* Mutant: the missing components are looked at before the failed ones.
CompositeStatusMissingFirst(components, children) ==
  LET missing == MissingRequired(components, children)
      total == WeightedTotal(components, children) IN
  IF "error" \in missing THEN "error"
  ELSE IF missing # {} THEN "unavailable"
  ELSE IF HardGateFailed(components, children) THEN "fail"
  ELSE IF total = 0 THEN "unavailable"
  ELSE MeanStatus(WeightedSum(components, children), total)

CompositeStatus(components, children) ==
  LET missing == MissingRequired(components, children)
      total == WeightedTotal(components, children) IN
  IF HardGateFailed(components, children) THEN "fail"
  ELSE IF "error" \in missing THEN "error"
  ELSE IF missing # {} THEN "unavailable"
  ELSE IF total = 0 THEN "unavailable"
  ELSE MeanStatus(WeightedSum(components, children), total)

\* The grade blocks a release only when a hard-gated component failed.
CompositeGrade(components, children) ==
  [status |-> CompositeStatus(components, children),
   hardGate |-> HardGateFailed(components, children)]
===========================================================================
