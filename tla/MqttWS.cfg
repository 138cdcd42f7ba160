CONSTANTS
  PacketLen = 2
  MaxUp = 4
  MaxDown = 2
  MaxUpEnds = 1
  MaxDownEnds = 0
  Stalling = {"out"}
SPECIFICATION FairSpec
CHECK_DEADLOCK FALSE
INVARIANT TypeOK
PROPERTIES
  PacketsRelayed
  AllRelayed
