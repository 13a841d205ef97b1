SPECIFICATION AudioSpec
CONSTANTS
  AudioQueues = {q1, q2}
  AqBuffers = {b1, b2}
  MaxSources = 1
  MaxEnqueued = 2
  ResetsPrimed = TRUE
  NoSource = NoSource
CHECK_DEADLOCK FALSE
INVARIANT
  QueuesInSync
