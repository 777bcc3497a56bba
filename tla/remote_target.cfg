SPECIFICATION FairSpec
CONSTANTS
  Attempts = {a1, a2}
  Kinds <- AllKinds
  Threads = 1
  MaxRetries = 2
  None = None
INVARIANTS
  RetriesAreEarned
PROPERTIES
  NothingStartsLate
  AttemptsEnd
