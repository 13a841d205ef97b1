SPECIFICATION ObjcSpec
CONSTANTS
  ObjThreads = {t1}
  Objs = {o1}
  Pools = {p1}
  Slots = {s1}
  MaxRefs = 2
  MaxNested = 2
  LoadsWhileDying = TRUE
  nil = nil
CHECK_DEADLOCK FALSE
INVARIANT
  HeldObjectsExist
