\* One client, two handles and one control block are enough.
CONSTANTS
  Clients = {c1}
  Handles = {h1, h2}
  Blocks = {b1}
  NoBlock = NoBlock
  NoHandle = NoHandle
  MaxRuns = 2
SPECIFICATION Spec
INVARIANT JoinableIsNotKilled
CHECK_DEADLOCK FALSE
