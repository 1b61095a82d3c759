SPECIFICATION MissionSpec
CONSTANTS
  p1 = p1
  p2 = p2
  p3 = p3
  bravo = bravo
  tango = tango
  d1 = d1
  d2 = d2
  t1 = t1
  t2 = t2
  none = none
  config = config
  Slug <- OneSlug
  Dev <- OneDev
  Task <- OneTask
  Writer <- ThreeWriters
  NoSlug = none
  Config = config
  Message <- MCMessage
  Ops <- AllOps
  Alone <- NoOps
  Faults <- AllFaults
  MaxRequests = 4
  MaxCommits = 8
SYMMETRY Symmetry
INVARIANT MissionTypeOK
INVARIANT AckedIsInLog
INVARIANT LogInTimeOrder
PROPERTY AppendOnly
PROPERTY ImplementsLog
 
CHECK_DEADLOCK FALSE
