SPECIFICATION FairSpec
CONSTANTS
  MaxBytes = 4
  Chunk = 2
  Room = 2
INVARIANTS
  OutputInOrder
  ClosedAfterLastByte
PROPERTIES
  CloseConcludes
CHECK_DEADLOCK FALSE
