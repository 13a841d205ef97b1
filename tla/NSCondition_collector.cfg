SPECIFICATION CollectedSpec
CONSTANTS
  CondThreads = {c1, c2}
  Conditions = {0}
  Uses = {"NSCondition"}
CHECK_DEADLOCK FALSE
INVARIANT
  StoppedStaysStopped
