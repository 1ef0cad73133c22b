CONSTANTS
  Cap = 6
  MinElapsed <- MCMinElapsed
  IdleTime = 5
  ResetTime = 1
  SendTime = 2
  MayOverrun = FALSE
SPECIFICATION FairSpec
INVARIANTS
  TypeOK
  ElapsedIsTrue
PROPERTIES
  ImplementsGesture
  GestureEnds
