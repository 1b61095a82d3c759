SPECIFICATION FairMissionSpec
CONSTANTS
  p1 = p1
  p2 = p2
  p3 = p3
  bravo = bravo
  tango = tango
  d1 = d1
  d2 = d2
  t1 = t1
  t2 = t2
  none = none
  config = config
  Slug <- OneSlug
  Dev <- OneDev
  Task <- OneTask
  Writer <- TwoWriters
  NoSlug = none
  Config = config
  Message <- MCMessage
  Ops <- PushRaceOps
  Alone <- NoOps
  Faults <- NoFaults
  MaxRequests = 3
  MaxCommits = 6
PROPERTY TrustLeadsToJoin
CHECK_DEADLOCK FALSE
