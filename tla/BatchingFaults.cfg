CONSTANTS
  solo = solo
  pair = pair
  empty = empty
  direct = direct
  Msgs = {pair, direct}
  Wrapped = {pair}
  Size <- MCSize
  NumHandlers = 2
  Batching = {1}
  Matches <- MCMatches
  MaxEvents = 2
  MaxDelay = 2
  SweepPeriod = 1
  SlowActions = TRUE
  MaxDeliver = 2
  MaxConcurrent = 2
  Env = {"redis", "action"}
  MaxCrashes = 0
SPECIFICATION Spec
INVARIANTS TypeOK
PROPERTIES FateSpec
