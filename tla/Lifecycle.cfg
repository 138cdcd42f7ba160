CONSTANTS
  N = 4
  Loop <- OneOfEach
  MaxClients = 1
SPECIFICATION FairSpec
CHECK_DEADLOCK FALSE
INVARIANTS
  StoppedForReason
  PortsReleased
  OpenPortServed
PROPERTIES
  ServedWhileListening
  ShutdownCompletes
