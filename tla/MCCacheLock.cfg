CONSTANTS
  Clients = {c1, c2, c3}
  Nobody = Nobody
  Durations = {0, 2, 3}
  Punctual = TRUE
SPECIFICATION LockFairSpec
PROPERTY LeaseKept
PROPERTY LockComesFree
