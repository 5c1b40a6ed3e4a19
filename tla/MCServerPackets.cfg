CONSTANTS
  MID <- MCMID
  Base = 16
  MaxPayload = 1
  lenCRC = 2
  Crc <- MCCrc
  Payloads <- MCPayloads
  Noise = {}
  MaxBuffLen = 12
  StackOutcomes = {TRUE}
  Garbage = 255
  MaxSends = 1
  MaxNoise = 1
  Keys = {k1, k2}
  MaxFaults = 1
SYMMETRY Entries
SPECIFICATION ServerSpec
INVARIANTS
  OwnPacketsOnly
  FreshClientServed
CHECK_DEADLOCK FALSE
