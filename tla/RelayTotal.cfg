CONSTANTS
  Projects = {p1}
  CrashBudget = 2
  MaxManagers = 1
  MaxWorkers = 1
  MaxRestarts = 0
  Conns = {c1}
SPECIFICATION RelaySpec
INVARIANT TotalIsConnectionCount
CHECK_DEADLOCK FALSE
