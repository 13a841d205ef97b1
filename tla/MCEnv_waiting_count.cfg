SPECIFICATION Spec
CONSTANTS
  MaxThreads = 3
  Imports <- CondDestroyCalls
  Misuse = {}
  PMutexes = {1}
  PTypes = {}
  MaxMutexes = 1
  MaxCount = 1
  Conds = {1}
  GuestSems = {}
  HeapSems = {}
  SemNames = {}
  MaxSems = 0
  MaxValue = 0
  MaxSuspend = 0
INVARIANTS
  WaitersKeepMutexAlive
