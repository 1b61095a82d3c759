SPECIFICATION FairVideoDroneSpec
CONSTANTS
  v1 = v1
  v2 = v2
  Viewer <- MCViewer
  Sessions = 2
  Lag = 0
  Tries = 2
  MaxFrames = 2
  Faults <- AllFaults
INVARIANT VideoDroneTypeOK
INVARIANT RunningIsFound
INVARIANT InOrder
INVARIANT NoStreamWithoutSession
PROPERTY AbandonedEnds
PROPERTY PlayerLetGo
CHECK_DEADLOCK FALSE
