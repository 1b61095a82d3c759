SPECIFICATION FairVideoSpec
CONSTANTS
  v1 = v1
  v2 = v2
  Viewer <- MCViewer
  Sessions = 2
  Lag = 1
  Tries = 2
  MaxFrames = 2
  Faults <- NoFaults
PROPERTY SubscriberServed
CHECK_DEADLOCK FALSE
