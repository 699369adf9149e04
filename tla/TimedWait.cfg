\* A tick that is not a whole number of microseconds, durations that fit, and
\* a clock that does not wrap.
CONSTANTS
  RepHalf = 256
  TickMod = 16
  Den = 10
  Freq = 7
  FirstCount = 0
  Durations <- MCDurations
  MaxNow = 20
SPECIFICATION MCSpec
INVARIANTS TypeOK EarlyByTwoTicks DeadlineIsMet ExactWhenItFits UntimedWaitPolls
