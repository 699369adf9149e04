\* A periodic and a one-shot timer, and a queue that can hold two expiries.
CONSTANTS
  Timers = {p, o}
  Once = {o}
  QueueLength = 2
SPECIFICATION FairSpec
INVARIANTS TypeOK NoCallbackAfterFalse OneLateCallback TerminatedByARace IndInv
PROPERTY PeriodicIsCalled
