CONSTANTS
  MID <- MCMID
  Base = 16
  MaxPayload = 2
  lenCRC = 2
  Crc <- MCCrc
  Payloads <- MCPayloads
  Noise <- MCNoise
  MaxBuffLen = 12
  StackOutcomes = {TRUE, FALSE}
  Garbage = 255
  MaxSends = 2
  MaxNoise = 1
SPECIFICATION Spec
INVARIANTS
  ParserConsistent
  DeliveredWereSent
  DeliversAmongNoise
  ChecksumTells
PROPERTIES
  FrameAdvances
CHECK_DEADLOCK FALSE
