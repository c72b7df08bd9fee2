CONSTANTS
  Users = {u1}
  Disconnects = {d1}
  Final = {d1}
  MaxFaults = 1
  MayHang = FALSE
SPECIFICATION Spec
INVARIANT AllPoolsReleased
CHECK_DEADLOCK FALSE
