CONSTANTS
  Publications = {m1}
  Consumers = {c1}
  FetchLimit = 1
  MaxRetries = 1
  MaxCrashes = 0
  Results <- MCTakeOrLeave
SPECIFICATION LoopSpec
PROPERTIES
  RetriesEnd
  EveryMessageSettles
CHECK_DEADLOCK FALSE
