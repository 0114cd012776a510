SPECIFICATION FairSpec
CONSTANTS
  Statuses = {"200", "refused", "garbled"}
  MaxData = 3
  MaxCalls = 3
INVARIANTS
  TunnelIntact
  BytesWrittenCountsUserData
PROPERTIES
  ConnectConcludes
  CloseConcludes
CHECK_DEADLOCK FALSE
