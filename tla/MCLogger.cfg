CONSTANTS
  t1 = t1
  t2 = t2
  Threads = {t1, t2}
  Fds = {4, 5}
  MaxLines = 2
  Pieces = 1
  TooLong <- MCTooLong
  Capacity = 1
  MaxRestarts = 1
SPECIFICATION FairSpec
INVARIANTS
  IntactIfAlone
  OwnDescriptor
  NoGaps
PROPERTIES
  CallReturns
CHECK_DEADLOCK FALSE
