CONSTANTS
  Conns = {c1, c2, c3}
  Fds = {4, 5}
  MaxSend = 1
  WriteFails = {TRUE, FALSE}
  Resets = {c3}
SPECIFICATION FairSpec
INVARIANTS
  TypeOK
  OpenOwned
  EventsCurrent
  NoEdgeLost
  CountCovers
  ReleaseClosesAll
  ReportedOnce
PROPERTIES
  AllHanded
  ReleaseReturns
CHECK_DEADLOCK FALSE
