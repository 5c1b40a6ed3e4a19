CONSTANTS
  Clients = {c1}
  s1 = s1
  s2 = s2
  Sources = {s1}
  Packets <- WriteAndRead
  MaxCmds = 3
  MaxPart = 1
  WriteFails = {FALSE}
SPECIFICATION FairSpec
PROPERTIES
  RequestsAnswered
CHECK_DEADLOCK FALSE
