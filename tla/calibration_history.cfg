SPECIFICATION HostGateSpec
CONSTANTS
  Scale = 20
  MinTNR = 19
  MinTPR = 17
  MaxNonVerdictRate = 1
  MinimumClass = 30
  MaxAge = 2
  ZSquared = 38415
  None = None
  Baselines <- MCBaselines
  Terms <- MCTerms
  Fingerprints <- MCFingerprints
  MaxSamples = 1
  LastDay = 4
CHECK_DEADLOCK FALSE
INVARIANTS
  SeventyThreeNegatives
  GatingNameNeedsLiveEvidence
PROPERTIES
  AuthorityDecays
