SPECIFICATION LoopFairSpec
CONSTANTS
  LoopThreads = {main, worker}
  PerformThreads = {main}
  Runners = {main}
  MaxRuns = 2
  Timers = {x1}
  Interval = 1
  MaxLate = 0
  NoTimer = NoTimer
  Nobody = Nobody
CHECK_DEADLOCK FALSE
PROPERTY
  SyncPerformsReturn
