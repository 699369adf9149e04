\* A thread that clears the queue and one that puts.
CONSTANTS
  Threads = {t1, t2}
  Objects = {o1}
  Null = Null
  Capacity = 1
SPECIFICATION Spec
INVARIANT ResetFindsNothing
CHECK_DEADLOCK FALSE
