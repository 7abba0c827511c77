CONSTANTS
  Projects = {p1}
  CrashBudget = 2
  MaxManagers = 2
  MaxWorkers = 3
  MaxRestarts = 0
SPECIFICATION Spec
INVARIANT OneWorkerPerProject
CHECK_DEADLOCK FALSE
