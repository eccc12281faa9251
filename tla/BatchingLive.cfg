CONSTANTS
  solo = solo
  pair = pair
  empty = empty
  direct = direct
  Msgs = {solo, pair}
  Wrapped = {pair}
  Size <- MCSize
  NumHandlers = 2
  Batching = {1}
  Matches <- MCMatches
  MaxEvents = 2
  MaxDelay = 2
  SweepPeriod = 1
  SlowActions = FALSE
  MaxDeliver = 2
  MaxConcurrent = 2
  Env = {"ack"}
  MaxCrashes = 0
SPECIFICATION FairSpec
PROPERTIES EverySlipExecuted EveryMessageSettles
