SPECIFICATION ServicesSpec
CONSTANTS
  MaxHost = 4
  Threads = {a1, a2}
  Durations = {3, 16}
  MIN_CHUNK_SIZE = 4
  PAGE_SIZE = 8
  AddressBits = 6
  StackLow = 40
  NullSize = 8
  Segments <- MCSegments
  Header = 1
  Sizes = {5, 12, 61}
  Alignments = {8}
  MaxBlocks = 3
  AudioQueues = {a1, a2}
  AqBuffers = {b1, b2}
  MaxSources = 1
  MaxEnqueued = 3
  ResetsPrimed = FALSE
  NoSource = NoSource
  ObjThreads = {t1, t2}
  Objs = {b1, b2}
  Pools = {p1, p2}
  Slots = {a1, a2}
  MaxRefs = 2
  MaxNested = 2
  LoadsWhileDying = FALSE
  nil = nil
  CondThreads = {a1, a2, a3}
  Conditions = {0, 1}
  Uses = {"NSCondition", "NSConditionLock"}
  LoopThreads = {main, worker}
  PerformThreads = {main}
  Runners = {main}
  MaxRuns = 2
  Timers = {a1, a2}
  Interval = 1
  MaxLate = 0
  NoTimer = NoTimer
  Nobody = Nobody
  MaxThreads = 3
  SyncObjects = {"obj"}
  NSLocks = {}
  NSRecursiveLocks = {"nsr"}
  RwLocks = {"rw"}
  MaxIds = 3
  MaxDepth = 2
SYMMETRY ServicesSymmetry
CHECK_DEADLOCK FALSE
INVARIANTS
  Continuity
  Lockstep
  ChunksWellFormed
  AllocFindsRoom
  QueuesInSync
  DevicesOwned
  RefcountExact
  DeallocOnce
  WeakTableExact
  PoolsOwnedOnce
  ConditionExclusive
  CondQueueExact
  NoLostWakeup
  TimersOwned
  OneShotOnce
  SyncPerformsPaired
  SyncTableExact
PROPERTIES
  Monotonic
  NoEarlyWake
  SleepsExactly
  HandedOutZeroed
  NoBytesLost
  ImplementsHeap
  ImplementsLocks
