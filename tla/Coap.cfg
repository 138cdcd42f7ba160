CONSTANTS
  Transports = {"udp", "dtls"}
  Addr = {a1, a2}
  Conn = {c1, c2}
  None = None
  MaxDatagrams = 3
  MaxReplies = 2
SPECIFICATION CoapFairSpec
CHECK_DEADLOCK FALSE
INVARIANTS
  TypeOK
  MapCoherent
  RelayedToOwner
  ReaderServes
  ForwardedIfApproved
  ForwardedUntilRefused
  SocketsOutliveGoroutines
PROPERTIES
  SilentConnReclaimed
  SessionEnds
