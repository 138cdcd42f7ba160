CONSTANTS
  Payload = {p1, p2}
  Stalling = {"in", "out"}
  MaxMessages = 2
SPECIFICATION FairServe
CHECK_DEADLOCK FALSE
INVARIANTS
  ServeTypeOK
  PublishedIsDelivered
  SessionCleanedUp
  AnsweredOnce
  ForwardedIfApproved
PROPERTIES
  UpIsRelay
  DownIsRelay
  OneEndEndsAll
