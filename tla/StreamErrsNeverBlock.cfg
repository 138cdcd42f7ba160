CONSTANTS
  b1 = b1
  b2 = b2
  Body = {b1}
  ClientPackets <- NotifyingUp
  BrokerPackets = {}
  PreIc <- NilIc
  PostIc <- NilIc
  ErrsCap = 2
  NotifyMayFail = TRUE
  Stalling = {}
  MaxPackets <- FourUp
SPECIFICATION Spec
CHECK_DEADLOCK FALSE
INVARIANT ErrsNeverBlock
