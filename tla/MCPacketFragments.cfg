CONSTANTS
  MID <- MCMID
  Base = 16
  MaxPayload = 1
  lenCRC = 2
  Crc <- MCCrc
  Payloads <- MCSameLength
  Noise = {}
  MaxBuffLen = 12
  StackOutcomes = {TRUE}
  Garbage = 255
  MaxSends = 1
  MaxNoise = 0
  Keys = {k1, k2}
  MaxFaults = 0
SPECIFICATION ServerSpec
CONSTRAINT LastByteApart
INVARIANTS
  FragmentsDelivered
CHECK_DEADLOCK FALSE
