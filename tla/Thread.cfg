\* Two clients that share three handles, three control blocks and three routines:
\* enough for two routines that join each other while a client joins the third.
CONSTANTS
  Clients = {c1, c2}
  Handles = {h1, h2, h3}
  Blocks = {b1, b2, b3}
  NoBlock = NoBlock
  NoHandle = NoHandle
  MaxRuns = 3
SPECIFICATION FairSpec
INVARIANTS TypeOK JoinableIdIsOwn NoOrphanBlock JoinedHasEnded NobodyJoinsItself
PROPERTY JoinComesBack
\* Two routines that join each other wait for ever, and a program may end.
CHECK_DEADLOCK FALSE
