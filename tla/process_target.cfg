SPECIFICATION ProcessFairSpec
CONSTANTS
  None = None
  PipeSize = 1
  MaxRequest = 2
  Targets <- MCTargets
INVARIANTS
  NothingLeftRunning
  CallsAreReported
PROPERTIES
  ExchangeEnds
  EndsWithItsChild
