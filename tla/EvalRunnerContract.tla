------------------------- MODULE EvalRunnerContract -------------------------
(* EvalRunner implements RunContract: the run's phase and its slots. *)
EXTENDS EvalRunner

RunPhase ==
  IF run = "returned" THEN "returned"
  ELSE IF run \in {"raised", "rejected"} THEN "raised"
  ELSE "open"

Contract ==
  INSTANCE RunContract WITH
    Outcomes <- SampleResult, NoOutcome <- NoResult,
    phase <- RunPhase, outcome <- results

\* A caller of run() sees what RunContract promises: outcomes are written once,
\* a run returns only with a full plan, and an ended run stays as it is (as
\* long as no component raises CancelledError of its own accord).
MeetsContract == Contract!Spec
=============================================================================
