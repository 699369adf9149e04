\* wait() alone, at 1000 ticks per second.
CONSTANTS
  w1 = w1
  w2 = w2
  n1 = n1
  NoThread = NoThread
  Dangling = Dangling
  Waiters <- MCWaiters
  Notifiers <- MCNotifiers
  Timeouts = {}
  UntimedTicks = {"zero"}
  MaxNodes = 2
SPECIFICATION Spec
INVARIANT NoStaleIterator
