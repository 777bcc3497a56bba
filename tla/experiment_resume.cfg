SPECIFICATION FairSpec
CONSTANTS
  Processes = {1, 2, 3}
  ArmCount = 2
  HelmArms = {2}
  Data = {d}
  Code = {c1, c2}
  MaxEdits = 1
  None = None
CONSTRAINT StartedInOrder
INVARIANTS
  VerifiedBeforeWork
  NoReplayWithoutOptIn
  OneEditIsNoticed
PROPERTIES
  ResumeCompletes
