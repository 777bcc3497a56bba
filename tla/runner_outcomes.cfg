SPECIFICATION FairSpec
CONSTANTS
  N = 3
  Concurrency = 2
  TargetAnswers <- RichAnswers
  Verdicts = {"pass"}
  HasCheckpoint = TRUE
  RetryInterrupted = TRUE
  PolicyCompiles = TRUE
  CallbacksRaise = TRUE
  ComponentsCancel = FALSE
  Cancellable = TRUE
INVARIANTS
  ResultIsTruthful
  EventsMatchSlots
PROPERTIES
  MeetsContract
