SPECIFICATION FairFanoutSpec
CONSTANTS
  s1 = s1
  s2 = s2
  Sub <- MCSub
  Buffer = 2
  MaxEvents = 5
INVARIANT FanoutTypeOK
INVARIANT GaplessWhileOpen
PROPERTY ImplementsFeed
PROPERTY SlowLeaves
PROPERTY AllPublished
CHECK_DEADLOCK FALSE
