CONSTANTS
  MID <- MCMID
  Base = 16
  MaxPayload = 2
  lenCRC = 2
  Crc <- MCCrc
  Payloads <- MCPayloads
  Noise = {}
  MaxBuffLen = 4
  StackOutcomes = {TRUE}
  Garbage = 255
  MaxSends = 2
  MaxNoise = 0
  ReadLen = 6
  MaxTries = 5
SPECIFICATION FairSpec
INVARIANTS
  DeliversReceived
  ResultSaysWhy
PROPERTIES
  OnRecvReturns
  LoopEnds
  ImplementsChannel
CHECK_DEADLOCK FALSE
