------------------------------ MODULE RunReport ------------------------------
(***************************************************************************)
(* Two runs of one manifest as they grow (models/runs.py), attempt by      *)
(* attempt, in any order and for as long as each of them goes on: every    *)
(* state is a pair of run results, whole or cut short, that "evalkit       *)
(* report" and "evalkit compare" may be given (cli/reports.py).            *)
(***************************************************************************)
EXTENDS RunComparison, Sequences

CONSTANTS
  Samples,
  LeftOutcomes,  \* what an attempt of the baseline run may end as
  RightOutcomes  \* and an attempt of the other run

\* Only a completed execution is graded, and a label is part of a grade.
ASSUME RunReportAssumption ==
  /\ IsFiniteSet(Samples)
  /\ LeftOutcomes \union RightOutcomes \subseteq Rows
  /\ \A row \in LeftOutcomes \union RightOutcomes :
       /\ row.execution # "completed" => row.grade = None
       /\ row.grade = None => row.score = None /\ row.label = None

VARIABLES left, right
reportVars == <<left, right>>

Slots == Samples \X (1..Attempts)

NoRows == [slot \in {} |-> None]

ReportInit == left = NoRows /\ right = NoRows

With(rows, slot, row) == [s \in DOMAIN rows \union {slot} |-> IF s = slot THEN row ELSE rows[s]]

\* The runner appends one result for an attempt, and never a second one.
RecordLeft(slot, row) ==
  /\ slot \notin DOMAIN left
  /\ left' = With(left, slot, row)
  /\ UNCHANGED right

RecordRight(slot, row) ==
  /\ slot \notin DOMAIN right
  /\ right' = With(right, slot, row)
  /\ UNCHANGED left

ReportNext == \E slot \in Slots :
  \/ \E row \in LeftOutcomes : RecordLeft(slot, row)
  \/ \E row \in RightOutcomes : RecordRight(slot, row)

ReportSpec == ReportInit /\ [][ReportNext]_reportVars
-----------------------------------------------------------------------------
Runs == {left, right}

\* aggregate.py:9-15 and runner.py:1001: the runner's summary and the report's
\* recount place every attempt once.  They differ in two kinds of attempt only:
\* an execution the target reported as failed is an error of the summary and a
\* failure of the recount, and a completed attempt that was never graded is in
\* no counter of the summary and an error of the recount.
RecountMovesOnlyTwoKinds ==
  \A rows \in Runs :
    LET failed == Counted(rows, LAMBDA row : row.execution = "failed")
        ungraded == Counted(rows, LAMBDA row : row.execution = "completed" /\ row.grade = None)
        summary == Summarize(rows)
        recount == AggregateRun(rows).counts
    IN /\ SumFunction(recount) = Cardinality(DOMAIN rows)
       /\ SumFunction(summary) = Cardinality(DOMAIN rows) - ungraded
       /\ recount["failed"] = summary["failed"] + failed
       /\ recount["errors"] = summary["errors"] - failed + ungraded
       /\ \A b \in Buckets \ {"failed", "errors"} : recount[b] = summary[b]

\* reliability.py:60: pass@k is the share, among all ways of taking k of a
\* sample's attempts, of those with a pass among them; the report has it for
\* exactly the samples with all their attempts.
PassAtKIsTheShareOfDraws ==
  \A rows \in Runs :
    /\ \A k \in 1..Attempts : \A sample \in DOMAIN PassAtKBySample(rows, k) :
         LET draws == kSubset(k, AttemptsOf(rows, sample))
             lucky == {draw \in draws : \E slot \in draw : IsPass(rows[slot])}
         IN SameFraction(PassAtKBySample(rows, k)[sample],
                         <<Cardinality(lucky), Cardinality(draws)>>)
    /\ ReportAggregates(rows).passAtK # None =>
         DOMAIN ReportAggregates(rows).passAtK
           = {s \in Samples : AllOf(s) \subseteq DOMAIN rows}

\* compare.py:405-470 and the addendum of ADR-0016: the interval is about the
\* quantity the estimate is.  Drawing every unit once gives the estimate, so that
\* it lies between the least and the greatest resample, and differing attempts of
\* one sample still give an interval with a width.
IntervalIsOfTheEstimate ==
  LET comparison == CompareRuns(left, right)
  IN ~comparison.refused =>
       /\ \E mean \in comparison.resamples : SameFraction(mean, comparison.estimate)
       /\ comparison.samples < 2 /\ Cardinality(Range(Deltas(left, right))) > 1 =>
            \E m, n \in comparison.resamples : ~SameFraction(m, n)

Mirrored(p, q) == SameFraction(<<-p[1], p[2]>>, q)

\* compare.py:405 and experiment.py:43: neither run is favoured.  Exchanging
\* them turns the sign of the difference and changes neither what was paired
\* nor what was left out nor the p-value.
ExchangedRunsMirror ==
  /\ LET one == CompareRuns(left, right)
         other == CompareRuns(right, left)
     IN /\ one.refused = other.refused
        /\ ~one.refused => /\ Mirrored(one.estimate, other.estimate)
                           /\ one.paired = other.paired /\ one.samples = other.samples
  /\ \A pair \in {<<CompareArms(left, right), CompareArms(right, left)>>,
                  <<CompareStudies(left, right), CompareStudies(right, left)>>} :
       /\ pair[1].refused = pair[2].refused
       /\ ~pair[1].refused => /\ Mirrored(pair[1].delta, pair[2].delta)
                              /\ pair[1].excluded = pair[2].excluded
                              /\ pair[1].p = pair[2].p

\* study.py:113: every attempt is in one category, one operational failure or
\* one grade outcome, whatever labels the rows carry that do not count.
StudyPlacesEveryAttempt ==
  \A rows \in Runs :
    LET study == SummarizeStudy(rows)
    IN ~study.refused =>
         SumFunction(study.categories) + SumFunction(study.operational)
           + SumFunction(study.grades) = Cardinality(DOMAIN rows)

\* study_compare.py:11-19: an instance that two arms are compared on has in the
\* comparison the verdict it has in each arm's own summary, and an arm whose
\* summary is refused for a malformed label is not compared.
PairedInstancesKeepTheirVerdict ==
  LET study == CompareStudies(left, right)
  IN ~study.refused =>
       /\ ~SummarizeStudy(left).refused /\ ~SummarizeStudy(right).refused
       /\ \A sample \in DOMAIN study.outcomes :
            study.outcomes[sample] = <<SummarizeStudy(left).tasks[sample],
                                       SummarizeStudy(right).tasks[sample]>>

\* An estimate in a report and the interval around it are about the draws the
\* report says they are about (stats/aggregate.py, stats/reliability.py).
EstimatesAreOfTheirDraws == PassAtKIsTheShareOfDraws /\ IntervalIsOfTheEstimate

\* Every attempt and every instance counts once and as what it is, alone in its
\* arm's summary, paired with the other arm, and whichever arm comes first.
InstancesKeepTheirVerdict ==
  StudyPlacesEveryAttempt /\ PairedInstancesKeepTheirVerdict /\ ExchangedRunsMirror

New == (DOMAIN left' \ DOMAIN left) \union (DOMAIN right' \ DOMAIN right)

\* compare.py:437: an attempt only one of the runs has changes nothing that is
\* reported of the pair, so a run that was cut short is not compared on what it
\* did not do.
LoneAttemptsChangeNothing ==
  [][New \intersect DOMAIN left' \intersect DOMAIN right' = {} =>
       CompareRuns(left', right') = CompareRuns(left, right)]_reportVars
=============================================================================
