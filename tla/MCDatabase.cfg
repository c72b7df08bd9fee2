CONSTANTS
  Users = {u1, u2}
  Disconnects = {d1, d2}
  Final = {d2}
  MaxFaults = 1
  MayHang = TRUE
SPECIFICATION FairSpec
INVARIANTS
  ServedPoolsAreMigrated
  OneLateInstall
  OnePoolPerFault
  DisconnectCloses
PROPERTIES
  DisconnectCompletes
  ReusableAfterDisconnect
CHECK_DEADLOCK FALSE
