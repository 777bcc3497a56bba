SPECIFICATION CompositeFairSpec
CONSTANTS
  Scale = 2
  MinTNR = 1
  MinTPR = 1
  MaxNonVerdictRate = 0
  MinimumClass = 1
  MaxAge = 1
  ZSquared = 10000
  None = None
  Samples = {s1}
  Fingerprints = {"f", "g"}
  Supplied <- MCSupplied
  LabeledSet = 2
  MaxCalls = 2
  LastDay = 2
  Lifetime = 2
  Threshold = 1
  Full = 2
  NoScore = NoScore
  HighScore = 1
  Documents = {"d1", "d2"}
  Required = {"d1", "d2"}
  Checks = {"schema", "exact", "grounded", "harness", "swebench"}
  Weights <- MCWeights
  Answers <- MCAnswers
INVARIANTS
  GatedByTheMeasuredJudge
  JudgeNeverRescues
  TroubleIsNeverAFailingComposite
PROPERTIES
  EverySampleGraded
