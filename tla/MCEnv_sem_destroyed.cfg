SPECIFICATION Spec
CONSTANTS
  MaxThreads = 2
  Imports <- BlockCalls
  Misuse = {"sem_destroy_busy"}
  PMutexes = {}
  PTypes = {}
  MaxMutexes = 0
  MaxCount = 0
  Conds = {}
  GuestSems = {1}
  HeapSems = {}
  SemNames = {}
  MaxSems = 1
  MaxValue = 1
  MaxSuspend = 0
INVARIANT
  SemWaitTookToken
