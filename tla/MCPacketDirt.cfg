CONSTANTS
  MID <- MCMID
  Base = 16
  MaxPayload = 2
  lenCRC = 2
  Crc <- MCCrc
  Payloads <- MCPayloads
  Noise <- MCStray
  MaxBuffLen = 4
  StackOutcomes = {TRUE}
  Garbage = 255
  MaxSends = 2
  MaxNoise = 1
SPECIFICATION Spec
INVARIANTS
  DirtSkipped
CHECK_DEADLOCK FALSE
