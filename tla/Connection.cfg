CONSTANTS
  None = None
  Threads = {t1, t2}
  Networks = {n1, n2}
  Unsupported = {n2}
SPECIFICATION ConnSpec
INVARIANTS
  ConnTypeOK
  JoinsOwnNetwork
  StatusIsTrue
PROPERTIES
  CallsReturn
