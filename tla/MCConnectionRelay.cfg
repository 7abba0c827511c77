CONSTANTS
  Projects = {p1}
  CrashBudget = 2
  MaxManagers = 2
  MaxWorkers = 3
  MaxRestarts = 1
  Conns = {c1}
SPECIFICATION RelaySpec
INVARIANTS
  OpenIsAnnounced
  ClosedIsForgotten
CHECK_DEADLOCK FALSE
