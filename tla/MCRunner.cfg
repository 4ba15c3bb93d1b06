CONSTANTS
  e1 = e1
  e2 = e2
  Events <- MCEvents
  Poison <- MCPoison
  MaxAttempts = 2
  BatchSize = 2
  Reconciling = TRUE
  CrashBound = 1
SPECIFICATION Spec
CHECK_DEADLOCK FALSE
PROPERTY JobsKeepRunning
PROPERTY StopsWhenTold
