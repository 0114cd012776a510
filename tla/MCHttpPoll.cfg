SPECIFICATION FairSpec
CONSTANTS
  Statuses = {"200", "refused"}
  Keys = 3
  WriteIn = {"connected", "bytesWritten", "readyRead"}
  CloseIn = {"connected", "bytesWritten", "readyRead"}
  MaxData = 2
  MaxCalls = 2
  None = None
INVARIANTS
  KeysChain
  SentOnce
  ReceivedInOrder
PROPERTIES
  CloseConcludes
  PostServiceSpec
CHECK_DEADLOCK FALSE
