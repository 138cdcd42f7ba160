CONSTANTS
  b1 = b1
  b2 = b2
  Body = {b1, b2}
  ClientPackets <- VettedUp
  BrokerPackets <- PublishDown
  PreIc <- RewritingIc
  PostIc <- DroppingIc
  ErrsCap = 2
  NotifyMayFail = TRUE
  Stalling = {}
  MaxPackets <- TwoUpOneDown
SPECIFICATION Spec
CHECK_DEADLOCK FALSE
INVARIANTS
  TypeOK
  VettedBeforeDelivered
  NotifiedAfterDelivery
  BlockedOnlyByNotifyErrors
PROPERTIES
  UpIsRelay
  
