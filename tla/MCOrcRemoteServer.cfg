CONSTANTS
  Clients = {c1, c2}
  s1 = s1
  s2 = s2
  Sources = {s1, s2}
  Packets <- Mixed
  MaxCmds = 2
  MaxPart = 3
  WriteFails = {TRUE, FALSE}
SPECIFICATION FairSpec
INVARIANTS
  AnsweredInOrder
  WritersInOrder
  PartsFit
PROPERTIES
  ImplementsCommandLog
  RequestsAnswered
CHECK_DEADLOCK FALSE
