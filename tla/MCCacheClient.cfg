CONSTANTS
  Users = {u1, u2}
  Subscribers = {s1}
  Disconnects = {d1, d2}
  Final = {d2}
  MaxFaults = 2
SPECIFICATION FairSpec
INVARIANTS
  DisconnectCloses
  OneLateClient
PROPERTIES
  GoroutineStops
  ReusableAfterDisconnect
CHECK_DEADLOCK FALSE
