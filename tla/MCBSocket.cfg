SPECIFICATION FairSpec
CONSTANTS
  a = a
  b = b
  Servers <- MCServers
  MaxServers = 2
  MaxCalls = 3
  MaxBytes = 3
  None = None
  NoAddr = NoAddr
INVARIANTS
  
  ReadStreamIntact
  IdleIsQuiet
PROPERTIES
  HostAttemptConcludes
CHECK_DEADLOCK FALSE
