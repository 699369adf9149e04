CONSTANTS
  RepHalf = 128
  TickMod = 8
  Den = 10
SPECIFICATION GridSpec
INVARIANT LongWaitsForever
