SPECIFICATION Spec
CONSTANTS
  t1 = t1
  t2 = t2
  t3 = t3
  Threads = {t1, t2, t3}
  NoThread = NoThread
  d1 = d1
  d2 = d2
  Dispatches = {d1, d2}
  MaxCount = 2
  MaxTokens = 2
  Counts <- MCCounts
  Events = {e1, e2}
  Ids = {i1}
  NoId = NoId
  NoEvent = NoEvent
  b1 = b1
  b2 = b2
  Bits = {b1, b2}
  Requests <- MCRequests
  Pools = {o1, o2}
  PoolIds = {p1, p2}
  Moved = Moved
  NoPool = NoPool
  Slots = {s1}
  Pointers = {q1, q2}
  NoBlock = NoBlock
  Plans <- MCPlans
INVARIANTS
  TypeOK
  BeliefIsOwnership
  TokensAreConserved
  ReleaseThrowsOnlyOverbooked
  WaitsTellTheTruth
  OneHandleEach
  UsedIsOwned
  DeleterFailsAfterAMove
  LockIsBalanced
  ListIsASnapshot
PROPERTY ImplementsStdSemaphore
\* Threads may all have ended, or wait, or the program.
CHECK_DEADLOCK FALSE
