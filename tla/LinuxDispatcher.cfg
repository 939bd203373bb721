SPECIFICATION FairSpec
CONSTANTS
  Workers = {w1, w2}
  Main = main
  Timer = timer
  j1 = j1
  j2 = j2
  j3 = j3
  PoolJobs = {j1, j2, j3}
  MainJobs = {m1, m2}
  TimerJobs = {d1}
  PriorityOf <- HighLowLow
  Panicking = {j1, j2}
  Together = {{j1, j2, m1, m2, d1}, {j1, j2, j3, m1, d1}}
  None = None
INVARIANTS SleepersAreNotNeeded QueuedIsPinged NoWorkerPanics
PROPERTIES KeepsPromise DispatchedRuns
CHECK_DEADLOCK FALSE
