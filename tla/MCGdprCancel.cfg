CONSTANTS
  Users = {u1}
  NoUser = NoUser
  Slots = {r1}
  JobIds = {j1, j2}
  Grace = 2
  Attempts = 1
  MaxStalls = 0
  Horizon = 1
SPECIFICATION Spec
CHECK_DEADLOCK FALSE
INVARIANT
  CancelledInTimeIsKept
