CONSTANTS
  Cap = 5
  MinElapsed = 0
  IdleTime = 4
  ResetTime = 1
  SendTime = 0
  MayOverrun = FALSE
  Threshold = 2
  Limit = 4
  W = 3
  Distances <- Sharply
SPECIFICATION SystemSpec
INVARIANTS
  ReadsOnlyPastData
PROPERTIES
  GestureAdvancesOnNewFall
  BeginsOnNewFallAfterReset
  ExpectedFallAdvances
