CONSTANTS
  NumJobs = 2
  BatchSize = 1
  Rounds = 3
  PerJob = 1
  Modes = {TRUE, FALSE}
  Env = {"exit", "deadline", "lost", "vanish", "spawn", "api"}
SPECIFICATION FairSpec
INVARIANTS TypeOK NoOutputMissed SuccessHasOutputs NoLateProcessing 
PROPERTIES WaitReturns
CHECK_DEADLOCK FALSE
