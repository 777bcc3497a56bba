---------------------------- MODULE RunStatistics ----------------------------
(***************************************************************************)
(* What is counted of a finished run: the runner's summary, the recount    *)
(* and estimates of stats/aggregate.py, pass@k of stats/reliability.py and *)
(* the study summary of stats/study.py.  A run's rows are a function from  *)
(* its recorded attempts <<sample, attempt>> to their results; a run that  *)
(* stopped early has fewer of them than the manifest asked for.            *)
(***************************************************************************)
EXTENDS PythonNone, Integers, FiniteSetsExt, Functions, Combinatorics

CONSTANTS
  Attempts, \* manifest.attempts
  BadLabel  \* an evidence["study"] that is no valid label

ExecutionStatuses == {"completed", "error", "failed", "timeout", "cancelled"}
GradeStatuses == {"pass", "fail", "partial", "abstain", "unavailable", "error"}

\* grade.evidence["study"]; answer_correct is only there for an accepted answer.
StudyLabels ==
  [expected : {"accept", "reject"}, actual : {"accepted", "rejected"}, correct : BOOLEAN]

Rows == [execution : ExecutionStatuses, grade : GradeStatuses \union {None},
         score : Nat \union {None}, label : StudyLabels \union {BadLabel, None}]

ASSUME RunStatisticsAssumption ==
  /\ Attempts \in Nat \ {0}
  /\ None \notin GradeStatuses /\ {None, BadLabel} \intersect StudyLabels = {}

\* The answer of a function that raises.
Refused == [refused |-> TRUE]

SamplesOf(rows) == {slot[1] : slot \in DOMAIN rows}

\* _attempts_by_sample_id.
AttemptsOf(rows, sample) == {slot \in DOMAIN rows : slot[1] = sample}

Counted(rows, P(_)) == Quantify(DOMAIN rows, LAMBDA slot : P(rows[slot]))

(***************************************************************************)
(* The two counts of a run's outcomes.                                     *)
(***************************************************************************)
Buckets ==
  {"passed", "failed", "partial", "errors", "timeouts", "cancelled", "abstained", "unavailable"}

BucketOfGrade ==
  [pass |-> "passed", fail |-> "failed", partial |-> "partial", abstain |-> "abstained",
   unavailable |-> "unavailable", error |-> "errors"]

\* aggregate.py _classify.
Classify(row) ==
  IF row.execution = "error" THEN "errors"
  ELSE IF row.execution = "timeout" THEN "timeouts"
  ELSE IF row.execution = "cancelled" THEN "cancelled"
  ELSE IF row.execution = "failed" THEN "failed"
  ELSE IF row.grade = None THEN "errors" ELSE BucketOfGrade[row.grade]

Recount(rows) == [b \in Buckets |-> Counted(rows, LAMBDA row : Classify(row) = b)]

\* runner.py _summarize: the execution and the grade each feed a counter.
BucketOfExecution ==
  [error |-> "errors", failed |-> "errors", timeout |-> "timeouts", cancelled |-> "cancelled"]

\* Mutant: an execution the target reported as failed is left out.
SummarizeForgetsFailed(rows) == [b \in Buckets |->
  Counted(rows, LAMBDA row : row.execution \notin {"completed", "failed"}
                               /\ BucketOfExecution[row.execution] = b)
  + Counted(rows, LAMBDA row : row.grade # None /\ BucketOfGrade[row.grade] = b)]

Summarize(rows) == [b \in Buckets |->
  Counted(rows, LAMBDA row : row.execution # "completed"
                               /\ BucketOfExecution[row.execution] = b)
  + Counted(rows, LAMBDA row : row.grade # None /\ BucketOfGrade[row.grade] = b)]

(***************************************************************************)
(* Estimates.  An interval is named by its method and by the observations  *)
(* its width is computed from; with too few of them it is None.  Fractions *)
(* are pairs <<numerator, denominator>>.                                   *)
(***************************************************************************)
SameFraction(p, q) == p[1] * q[2] = q[1] * p[2]

PassesOf(rows, sample) ==
  Quantify(AttemptsOf(rows, sample), LAMBDA slot : Classify(rows[slot]) = "passed")

ClusterPassProportions(rows) ==
  [sample \in SamplesOf(rows) |->
     <<PassesOf(rows, sample), Cardinality(AttemptsOf(rows, sample))>>]

ClusteredInterval(means) ==
  IF Cardinality(DOMAIN means) < 2 THEN None
  ELSE [method |-> "cluster_robust", units |-> means]

WilsonInterval(successes, total) ==
  IF total = 0 THEN None ELSE [method |-> "wilson", units |-> <<successes, total>>]

Scored(rows) == {slot \in DOMAIN rows : rows[slot].score # None}

MeanScore(rows, slots) ==
  <<MapThenSumSet(LAMBDA slot : rows[slot].score, slots), Cardinality(slots)>>

ClusterMeanScores(rows) ==
  [sample \in {slot[1] : slot \in Scored(rows)} |->
     MeanScore(rows, AttemptsOf(rows, sample) \intersect Scored(rows))]

ScoreEstimate(rows) ==
  IF Cardinality(Scored(rows)) < 2 THEN None
  ELSE [mean |-> MeanScore(rows, Scored(rows)),
        interval |-> IF Attempts > 1 THEN ClusteredInterval(ClusterMeanScores(rows))
                     ELSE [method |-> "flat",
                           units |-> [slot \in Scored(rows) |-> rows[slot].score]]]

AggregateRun(rows) ==
  LET counts == Recount(rows)
      total == Cardinality(DOMAIN rows)
  IN [counts |-> counts,
      rate |-> <<counts["passed"], total>>,
      interval |-> IF Attempts > 1 THEN ClusteredInterval(ClusterPassProportions(rows))
                   ELSE WilsonInterval(counts["passed"], total),
      score |-> ScoreEstimate(rows)]

\* Mutant: with exactly k failures the draw of all of them is forgotten.
PassAtKForgetsAllFailures(n, c, k) ==
  IF n - c <= k THEN <<1, 1>> ELSE <<choose(n, k) - choose(n - c, k), choose(n, k)>>

\* reliability.py pass_at_k, with the binomials themselves for their logarithms.
PassAtK(n, c, k) ==
  IF n - c < k THEN <<1, 1>> ELSE <<choose(n, k) - choose(n - c, k), choose(n, k)>>

\* _is_pass of compare.py and the test of pass_at_k_by_sample.
IsPass(row) == row.grade = "pass"

PassAtKBySample(rows, k) ==
  [sample \in {s \in SamplesOf(rows) : Cardinality(AttemptsOf(rows, s)) >= k} |->
     LET attempts == AttemptsOf(rows, sample)
     IN PassAtK(Cardinality(attempts), Quantify(attempts, LAMBDA slot : IsPass(rows[slot])), k)]

\* build_report_aggregates.
ReportAggregates(rows) ==
  LET estimates == PassAtKBySample(rows, Attempts)
  IN [run |-> AggregateRun(rows),
      passAtK |-> IF Attempts > 1 /\ DOMAIN estimates # {} THEN estimates ELSE None]

(***************************************************************************)
(* A study: an answer is accepted or rejected, rightly or wrongly.         *)
(***************************************************************************)
Definitive(row) == row.execution = "completed" /\ row.grade \in {"pass", "fail"}

Category(label) ==
  IF label.expected = "accept" /\ label.actual = "accepted" /\ label.correct
  THEN "correct_acceptance"
  ELSE IF label.actual = "accepted" THEN "wrong_acceptance"
  ELSE IF label.expected = "reject" THEN "correct_rejection" ELSE "unnecessary_rejection"

Categories ==
  {"correct_acceptance", "wrong_acceptance", "correct_rejection", "unnecessary_rejection"}

\* _study_record raises for a malformed label, of an eligible row or not.
Malformed(rows) == \E slot \in DOMAIN rows : rows[slot].label = BadLabel

Labelled(rows) ==
  {slot \in DOMAIN rows : Definitive(rows[slot]) /\ rows[slot].label # None}

SummarizeStudy(rows) ==
  IF Malformed(rows) THEN Refused
  ELSE LET rightly(slot) == Category(rows[slot].label) \in {"correct_acceptance",
                                                           "correct_rejection"}
       IN [refused |-> FALSE,
           categories |->
             [c \in Categories |->
                Quantify(Labelled(rows), LAMBDA slot : Category(rows[slot].label) = c)],
           operational |->
             [s \in ExecutionStatuses \ {"completed"} |->
                Counted(rows, LAMBDA row : row.execution = s)],
           grades |->
             [g \in (GradeStatuses \ {"pass", "fail"}) \union {None} |->
                Counted(rows, LAMBDA row : row.execution = "completed" /\
                  (row.grade = g \/ (g = None /\ Definitive(row) /\ row.label = None)))],
           tasks |->
             [sample \in {slot[1] : slot \in Labelled(rows)} |->
                \A slot \in Labelled(rows) : slot[1] = sample => rightly(slot)]]
=============================================================================
