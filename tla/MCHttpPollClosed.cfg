SPECIFICATION Spec
CONSTANTS
  Statuses = {"200"}
  Keys = 3
  WriteIn = {}
  CloseIn = {"syncFinished"}
  MaxData = 1
  MaxCalls = 1
  None = None
INVARIANTS
  QuietWhenClosed
CHECK_DEADLOCK FALSE
