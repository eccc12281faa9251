CONSTANTS
  Kinds = {"batch", "workflow"}
  MaxJobs = 2
  MaxPolls = 1
  MaxFaults = 1
  MaxChanges = 2
SPECIFICATION FairSpec
INVARIANTS TypeOK   RunningIsWatched
PROPERTIES DisabledIsQuiet MonitorsEnd
CHECK_DEADLOCK FALSE
