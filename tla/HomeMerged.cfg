CONSTANTS
  Cap = 11
  MinElapsed = 0
  IdleTime = 10
  ResetTime = 2
  SendTime = 0
  MayOverrun = FALSE
  BuzzTime = 10
  Blinks = 10
  MaxBacklog = 8
SPECIFICATION HomeSpec
INVARIANTS
  OneMessageAtATime
