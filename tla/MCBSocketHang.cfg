SPECIFICATION FairSpec
CONSTANTS
  a = a
  b = b
  Servers <- MCServers
  MaxServers = 2
  MaxCalls = 2
  MaxBytes = 2
  None = None
  NoAddr = NoAddr
PROPERTY
  ServerAttemptConcludes
CHECK_DEADLOCK FALSE
