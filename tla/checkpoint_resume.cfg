SPECIFICATION FairSpec
CONSTANTS
  Processes = {1, 2, 3}
  Attempts = {a1, a2}
  Inputs = {x, y}
  None = None
CONSTRAINT StartedInOrder
INVARIANTS
  NoReplayWithoutOptIn
  ReturnsOwnInputs
PROPERTIES
  KeepsLedger
  ResumeCompletes
