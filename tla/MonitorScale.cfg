CONSTANTS
  MaxSaves = 2
  MaxStarts = 2
  MaxStops = 1
  MaxFaults = 0
  Env = {}
SPECIFICATION FairSpec
PROPERTIES ReplicasFollow
CHECK_DEADLOCK FALSE
