CONSTANTS
  Transports = {"udp"}
  Addr = {a1}
  Conn = {c1, c2}
  None = None
  MaxDatagrams = 2
  MaxReplies = 2
SPECIFICATION CoapSpec
CHECK_DEADLOCK FALSE
INVARIANT ResponsesRelayed
