CONSTANTS
  Conns = {c1}
  Fds = {4}
  MaxSend = 1
  WriteFails = {FALSE}
  Resets = {}
SPECIFICATION FairSpec
PROPERTIES
  ClientsLeft
CHECK_DEADLOCK FALSE
