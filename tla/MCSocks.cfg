SPECIFICATION FairSpec
CONSTANTS
  Commands = {"connect", "udp", "bind"}
  Dests = {"name", "ip6", "foreign"}
  MaxData = 2
  HostLimit = 3
  BufferSize = 12
  None = None
INVARIANTS
  
  ConnectedMeansGranted
  
  BytesWrittenCountsUserData

  
CHECK_DEADLOCK FALSE
