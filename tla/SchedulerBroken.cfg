CONSTANTS
  Kinds = {"batch"}
  MaxJobs = 2
  MaxPolls = 1
  MaxFaults = 1
  MaxChanges = 2
SPECIFICATION Spec
INVARIANTS CompletedIsDone
CHECK_DEADLOCK FALSE
