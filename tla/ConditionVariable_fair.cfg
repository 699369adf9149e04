\* Waits that time out, and waits that only a notification ends.
CONSTANTS
  w1 = w1
  w2 = w2
  n1 = n1
  NoThread = NoThread
  Dangling = Dangling
  Waiters <- MCWaiters
  Notifiers <- MCNotifiers
  Timeouts = {"finite"}
  UntimedTicks = {"forever"}
  MaxNodes = 2
SPECIFICATION FairSpec
INVARIANT PendingEntriesAreLive
PROPERTIES ImplementsStd NotifiedWaiterReturns TimedWaitReturns
