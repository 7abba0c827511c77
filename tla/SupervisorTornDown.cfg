CONSTANTS
  Projects = {p1}
  CrashBudget = 2
  MaxManagers = 1
  MaxWorkers = 2
  MaxRestarts = 0
SPECIFICATION Spec
INVARIANT TornDownIsGone
CHECK_DEADLOCK FALSE
