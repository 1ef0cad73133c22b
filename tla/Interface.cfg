CONSTANTS
  None = None
  u1 = u1
  t1 = t1
  p1 = p1
  p2 = p2
  Ids <- MCIds
  Peers = {p1, p2}
  Handles = {u1, t1}
  Udp = {u1}
  PacketSize = 2
  MaxInbox = 1
SPECIFICATION InterfaceSpec
INVARIANTS
  SocketTypeOK
  NoDangling
  SharedOnlyIfDropped
  AstrayOnlyIfUnconfirmed
  DatagramsAreFromPeer
PROPERTIES
  DataIsAnnounced
