SPECIFICATION FairEventsSpec
CONSTANTS
  p1 = p1
  bravo = bravo
  d1 = d1
  t1 = t1
  none = none
  config = config
  Slug <- MCSlug
  Dev <- MCDev
  Task <- MCTask
  Writer <- MCWriter
  NoSlug = none
  Config = config
  Message <- MCMessage
  Ops <- MCOps
  Alone <- Requests
  Faults <- NoFaults
  Progress <- MCProgress
  MaxRequests = 6
  MaxCommits = 12
  MaxPending = 2
INVARIANT EventsTypeOK
 
INVARIANT OutboxTellsRoster
 
INVARIANT ViewIsTrueUnlessOvertaken
 
CHECK_DEADLOCK FALSE
