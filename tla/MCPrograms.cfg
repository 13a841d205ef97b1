SPECIFICATION ProgramsSpec
CONSTANTS
  MaxThreads = 3
  Imports = {}
  Misuse = {}
  PMutexes = {1}
  PTypes = {"NORMAL", "ERRORCHECK", "RECURSIVE"}
  MaxMutexes = 2
  MaxCount = 2
  Conds = {1}
  GuestSems = {1}
  HeapSems = {2}
  SemNames = {"n"}
  MaxSems = 2
  MaxValue = 1
  MaxSuspend = 2
INVARIANTS
  TypeOK
  MutualExclusion
  LocksBalanced
  WaitersKeepMutexAlive
  WakeupsJustified
  QueuesExactWithoutReinit
  TimeoutsPending
  SemConservation
  SemWaitersExact
  RunsOnlyRunnable
  ContextsConserved
  DeadlockIsReal
PROPERTIES
  LiveRunnableRuns
  LiveDeadlinesHonoured
  LiveJoinersReturn
