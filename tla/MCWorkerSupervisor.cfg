CONSTANTS
  Projects = {p1}
  CrashBudget = 2
  MaxManagers = 3
  MaxWorkers = 3
  MaxRestarts = 1
SPECIFICATION FairSpec
INVARIANTS
  NoLostWorker
  CoalescedCreation
  ReadyIsBacked
  NoSilentDeath
PROPERTIES
  DownIsResolved
  ShutdownReturns
CHECK_DEADLOCK FALSE
