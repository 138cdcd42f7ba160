CONSTANTS
  Payload = {p1}
  Stalling = {}
  MaxMessages = 1
SPECIFICATION Spec
CHECK_DEADLOCK FALSE
INVARIANT PublishedReachesServer
