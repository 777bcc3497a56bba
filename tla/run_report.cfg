SPECIFICATION ExportedSpec
CONSTANTS
  Samples = {s1, s2}
  Attempts = 2
  None = None
  Absent = Absent
  BadLabel = BadLabel
  LeftOutcomes <- MCLeftOutcomes
  RightOutcomes <- MCRightOutcomes
  Exports = {"left", "right"}
  Calibrated = {"right"}
  Cases <- MCCases
  MaxExported = 1
SYMMETRY Symmetry
INVARIANTS
  RecountMovesOnlyTwoKinds
  EstimatesAreOfTheirDraws
  InstancesKeepTheirVerdict
  ExportSaysTheSame
  FinishedExportsAreWhole
PROPERTIES
  LoneAttemptsChangeNothing
CHECK_DEADLOCK FALSE
