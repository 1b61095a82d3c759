SPECIFICATION FairGzSpec
CONSTANTS
  r1 = r1
  r2 = r2
  d1 = d1
  d2 = d2
  Request <- MCRequest
  Device <- MCDevice
  StartsAlone = TRUE
  Faults <- MCFaults
  MaxSims = 3
INVARIANT GzTypeOK
INVARIANT ModelIsListed
 
INVARIANT LeftBehindBounded
PROPERTY SpawnIsAnswered
CHECK_DEADLOCK FALSE
