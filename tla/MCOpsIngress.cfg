CONSTANTS
  Projects = {ops, p1}
  OpsProject = ops
  CrashBudget = 2
  MaxManagers = 2
  MaxWorkers = 3
  MaxRestarts = 1
SPECIFICATION OpsSpec
INVARIANTS
  EventsKeepOrder
PROPERTY EventsReachAWorker
CHECK_DEADLOCK FALSE
