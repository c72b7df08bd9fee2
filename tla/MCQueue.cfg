CONSTANTS
  Publications = {m1}
  Consumers = {c1, c2}
  FetchLimit = 2
  MaxRetries = 1
  MaxCrashes = 1
  Results <- MCReports
SYMMETRY Symmetry
SPECIFICATION Spec
INVARIANTS
  AckedWereAccepted
  PublishedIsStored
PROPERTY PromiseKept
CHECK_DEADLOCK FALSE
