\* Three threads, so that two of them can wait while the third clears, and a
\* queue of one place, which is empty or full.
CONSTANTS
  t1 = t1
  t2 = t2
  t3 = t3
  o1 = o1
  o2 = o2
  o3 = o3
  o4 = o4
  Threads <- MCThreads
  Objects <- MCObjects
  Null = Null
  Capacity = 1
SYMMETRY Symmetry
SPECIFICATION Spec
INVARIANTS TypeOK OneOwner NothingElseIsLost IndInv
\* Every thread may be waiting for a message.
CHECK_DEADLOCK FALSE
