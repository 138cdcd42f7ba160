CONSTANTS
  b1 = b1
  b2 = b2
  Body = {b1, b2}
  ClientPackets <- PlainUp
  BrokerPackets <- HandshakeDown
  PreIc <- RewritingIc
  PostIc <- NilIc
  ErrsCap = 2
  NotifyMayFail = FALSE
  Stalling = {"in", "out"}
  MaxPackets <- OneUpTwoDown
SPECIFICATION FairSpec
CHECK_DEADLOCK FALSE
PROPERTIES
  HangUpEndsSession
  NoGoroutineLeft
  DownIsRelay
