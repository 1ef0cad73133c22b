CONSTANTS
  Cap = 6
  MinElapsed <- MCMinElapsed
  IdleTime = 5
  ResetTime = 1
  SendTime = 2
  MayOverrun = TRUE
SPECIFICATION Spec
PROPERTIES
  TimesOutAfterIdleTime
