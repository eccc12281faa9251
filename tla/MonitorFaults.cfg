CONSTANTS
  MaxSaves = 2
  MaxStarts = 3
  MaxStops = 2
  MaxFaults = 1
  Env = {"http", "connect", "fetch", "scale", "lost"}
SPECIFICATION FairSpec
INVARIANTS TypeOK SettledIsCurrent OneStream
PROPERTIES IngestionFollows
CHECK_DEADLOCK FALSE
