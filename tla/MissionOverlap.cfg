SPECIFICATION MissionSpec
CONSTANTS
  p1 = p1
  p2 = p2
  p3 = p3
  bravo = bravo
  tango = tango
  d1 = d1
  d2 = d2
  t1 = t1
  t2 = t2
  none = none
  config = config
  Slug <- TwoSlugs
  Dev <- OneDev
  Task <- OneTask
  Writer <- ThreeWriters
  NoSlug = none
  Config = config
  Message <- MCMessage
  Ops <- Requests
  Alone <- Deletion
  Faults <- CallFaults
  MaxRequests = 5
  MaxCommits = 10
SYMMETRY Symmetry
INVARIANT IndexNamesRoster
INVARIANT BacklogIsPublished
INVARIANT RegisteredHasRepo
INVARIANT NoOrphanRepo
INVARIANT NeverPanics
CHECK_DEADLOCK FALSE
