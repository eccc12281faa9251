CONSTANTS
  solo = solo
  pair = pair
  empty = empty
  direct = direct
  Msgs = {solo}
  Wrapped = {}
  Size <- MCSize
  NumHandlers = 2
  Batching = {1}
  Matches <- MCMatches
  MaxEvents = 2
  MaxDelay = 2
  SweepPeriod = 1
  SlowActions = FALSE
  MaxDeliver = 2
  MaxConcurrent = 2
  Env = {"crash", "edit", "stale", "config", "pause", "flush", "action"}
  MaxCrashes = 1
SPECIFICATION Spec
INVARIANTS OnePlace AckedImmediateExecuted
