CONSTANTS
  Producers = {p1, p2}
  Consumers = {c1, c2, c3}
  MaxPushes = 4
SPECIFICATION FairSpec
INVARIANTS
  WakeupsCovered
  NeverPopsEmpty
PROPERTIES
  StopEnds
CHECK_DEADLOCK FALSE
