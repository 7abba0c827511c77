CONSTANTS
  root = root
  base = base
  feature = feature
  rule = rule
  test = test
  Contexts = {root, base, feature}
  Rules = {rule}
  Tests = {test}
  Children <- TreeChildren
  Depends <- TreeDepends
  Requires <- TreeRequires
  Slots = {1, 2}
  MaxChanges = 3
  MaxStops = 2
  MaxFaults = 1
SPECIFICATION FairSpec
INVARIANTS
  StatusIsCurrent
  FileIsCurrent
  RulesWereTold
PROPERTIES
  StatusCatchesUp
CHECK_DEADLOCK FALSE
