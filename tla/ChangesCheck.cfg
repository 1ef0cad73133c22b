CONSTANTS
  W = 6
  Threshold = 2
  Limit = 4
  Distances = {0, 1, 2, 4, 6}
SPECIFICATION WindowSpec
INVARIANTS
  ScanMatchesRuns
PROPERTIES
  SharpDetectionsStay
