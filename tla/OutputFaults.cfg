CONSTANTS
  ChunkSize = 5
  Overhead = 1
  MaxPayload = 9
  WideBytes = 3
  Printed <- MCFewOrEleven
  LineLengths = {1, 6}
  WideLengths = {4}
  MaxLines = 3
  Attempts = 2
  Env = {"raise", "net", "connect", "ack", "delay", "kill", "shutdown"}
  MaxFaults = 2
SPECIFICATION FairSpec
INVARIANTS TypeOK ChunksSound OneHonestAnswer
PROPERTIES OutputAnswered
CHECK_DEADLOCK FALSE
