CONSTANTS
  Calls = {k1, k2}
  Writes = {w1}
  MaxConns = 1
  MayNestOwn = TRUE
SPECIFICATION FairSpec
INVARIANTS
  ReturnTellsOutcome
  ConnectionsComeBack
  OnlyExhaustionBlocks
PROPERTIES
  AtomicUnits
  EveryCallReturns
CHECK_DEADLOCK FALSE
