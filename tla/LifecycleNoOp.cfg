CONSTANTS
  root = root
  base = base
  feature = feature
  rule = rule
  test = test
  Contexts = {root, base, feature}
  Rules = {rule}
  Tests = {test}
  Children <- TreeChildren
  Depends <- TreeDepends
  Requires <- TreeRequires
  Slots = {1, 2}
  MaxChanges = 3
  MaxStops = 0
  MaxFaults = 0
SPECIFICATION Spec
INVARIANTS
  NoOpIsSilent
CHECK_DEADLOCK FALSE
