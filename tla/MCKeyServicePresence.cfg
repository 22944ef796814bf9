SPECIFICATION Spec
CONSTANTS
  s1 = s1
  s2 = s2
  r1 = r1
  r2 = r2
  None = None
  Keep = Keep
  Sessions = {s1, s2}
  Refs = {r1, r2}
  NormalTtl = 2
  StepUpTtl = 1
  MaxHandles = 2
  MaxRefs = 1
  MaxTime = 2
  MaxVaults = 1
  MaxImports = 1
  MaxKdfs = 2
  MaxRecords = 4
  MaxGrants = 2
  MaxFaults = 1
SYMMETRY MCSymmetry
CONSTRAINT MCBound
INVARIANTS
  PresenceSurvivesPassphrase
CHECK_DEADLOCK FALSE
