CONSTANTS
  InitTimeout = 30
  WatchdogInterval = 2
  MissedThreshold = 3
  HeartbeatTimeout = 12
  CheckInterval = 3
  CrashWindow = 6
  CrashBudget = 5
  DeadCooldown = 90
  BackoffBase = 1
  BackoffMax = 3
SPECIFICATION Spec
PROPERTY StartHasFiveMinutes
