SPECIFICATION FairSpec
CONSTANTS
  QueueSize = 1
  BacklogLimit = 1
  MaxRecoveries = 3
  MaxAttempts = 1
  MaxEvents = 2
  MaxOpens = 2
  MaxFaults = 1
INVARIANTS ScreenIsHistory CursorCovered
PROPERTIES CatchesUp
CHECK_DEADLOCK FALSE
