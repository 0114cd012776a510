SPECIFICATION ClientSpec
CONSTANTS
  MaxPackets = 2
  MaxContent = 2
  MaxWrites = 2
  MaxSize = 2
  NoHead = NoHead
INVARIANTS
  ClientTypeOK
  PacketsAreDecoded
  WrittenCountsPackets
CHECK_DEADLOCK FALSE
