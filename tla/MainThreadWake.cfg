SPECIFICATION WakeFairSpec
CONSTANTS
  Items = {i1, i2, i3}
  MaxFailed = 2
INVARIANTS
  QueuedIsWoken
  FlagHasWake
  AsleepIsNotified
  ExitsOnlyRaced
PROPERTIES
  SentRuns
CHECK_DEADLOCK FALSE
