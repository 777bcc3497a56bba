SPECIFICATION FairSpec
CONSTANTS
  N = 3
  Concurrency = 2
  TargetAnswers <- FewAnswers
  Verdicts = {"pass"}
  HasCheckpoint = TRUE
  RetryInterrupted = TRUE
  PolicyCompiles = FALSE
  CallbacksRaise = TRUE
  ComponentsCancel = TRUE
  Cancellable = TRUE
INVARIANTS
  NoOrphans
  IntentBeforeEffect
  ReturnedRunIsDurable
PROPERTIES
  RunEnds
