CONSTANTS
  r1 = r1
  r2 = r2
  r3 = r3
  Rules = {r1, r2, r3}
  RuleSets <- ThreeRules
  Builds = {b1, b2}
  MaxConcurrency = 2
  MaxBatches = 2
  MaxEdits = 1
SPECIFICATION Spec
INVARIANTS
  DependenciesFirst
  CalmIsCurrent
SYMMETRY Interchangeable
PROPERTY IsBuildService
CHECK_DEADLOCK FALSE
