CONSTANTS
  TimerLimit = 3
  MaxTimer = 6
SPECIFICATION FairSpec
INVARIANTS
  SilentWhenPaused
  NothingFlaggedAway
PROPERTIES
  MeasuresThePulse
  KeepsMeasuring
