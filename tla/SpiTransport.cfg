CONSTANTS
  Size = 6
  MaxOps = 4
  CommandLen = 2
  SendLen = 3
SPECIFICATION TransportSpec
INVARIANTS
  TransportTypeOK
  NothingUnreadIsLost
  StartsClean
  RiseIsSeen
  SendsOwnBytes
PROPERTIES
  CommandsEnd
  ImplementsCommands
CHECK_DEADLOCK FALSE
