CONSTANTS
  N = 8
  W = 3
  MaxSamples = 14
  PushesPerScan = 1
  Values <- MCValues
SPECIFICATION ScanSpec
INVARIANTS
  TypeOK
  FullAtArrayEnd
  QueueStaysSound
  AccessesAreSound
  AssertionsHoldUnlessTorn
PROPERTIES
  ImplementsSlidingWindow
CHECK_DEADLOCK FALSE
