SPECIFICATION Spec
CONSTANTS
  MaxRecords = 3
  MaxSegments = 3
  MaxCrashes = 2
  MaxPending = 1
  HighWater = 2
  TailKinds = {"short", "garbled"}
  FsyncNames = TRUE
INVARIANT TornRestatementFallsBack
CHECK_DEADLOCK FALSE
