---------------------------- MODULE MCEvalRunner ----------------------------
(* Instances of EvalRunner for TLC. *)
EXTENDS EvalRunnerContract

Answer(status, output, error, artifacts) ==
  [status |-> status, output |-> output, error |-> error, artifacts |-> artifacts]

\* One answer of each kind the spill and the summary tell apart.
RichAnswers ==
  {Answer("completed", "small", "none", {}),
   Answer("completed", "large", "none", {"output_spill_error"}),
   Answer("completed", "grows", "none", {}),
   Answer("failed", "large", "target", {}),
   Answer("cancelled", "none", "none", {})}

\* Enough to tell a graded attempt from one that is not.
FewAnswers ==
  {Answer("completed", "small", "none", {}), Answer("failed", "small", "target", {})}
=============================================================================
