SPECIFICATION FairSpec
CONSTANTS
  a = a
  b = b
  c = c
  d = d
  Servers <- MCServers
  MaxServers = 3
  MaxCalls = 3
  None = None
  NoAddr = NoAddr
INVARIANTS
  TimerCoversQuery
  ServersInOrder
PROPERTIES
  FailureOnlyAfterAllServers
  SearchEnds
