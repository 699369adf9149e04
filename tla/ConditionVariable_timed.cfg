\* Every kind of timeout; wait() polls, as it does at 1000 ticks per second.
CONSTANTS
  w1 = w1
  w2 = w2
  n1 = n1
  NoThread = NoThread
  Dangling = Dangling
  Waiters <- MCWaiters
  Notifiers <- MCNotifiers
  Timeouts = {"negative", "finite", "forever"}
  UntimedTicks = {"zero"}
  MaxNodes = 2
SPECIFICATION Spec
INVARIANTS TypeOK NoStrandedWaiter NotifyNeverTerminates IndInv
