CONSTANTS
  r1 = r1
  r2 = r2
  r3 = r3
  Rules = {r1, r2, r3}
  RuleSets <- ThreeRules
  Builds = {b1}
  MaxConcurrency = 2
  MaxBatches = 3
  MaxEdits = 1
SPECIFICATION Spec
PROPERTY FailedIsNotCached
CHECK_DEADLOCK FALSE
