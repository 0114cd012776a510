SPECIFICATION FairSpec
CONSTANTS
  MaxBytes = 3
  Chunk = 2
  Room = 2
PROPERTY
  DelayedCloseFinishes
CHECK_DEADLOCK FALSE
