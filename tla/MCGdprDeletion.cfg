CONSTANTS
  Users = {u1}
  NoUser = NoUser
  Slots = {r1, r2}
  JobIds = {j1, j2}
  Grace = 2
  Attempts = 2
  MaxStalls = 1
  Horizon = 1
SPECIFICATION FairSpec
CHECK_DEADLOCK FALSE
INVARIANTS
  InactiveHasCleanupPath
  JobNeverEarly
  OnlyLeftOverJobsBreakThePromise
PROPERTY
  QueuedDeletionIsCarriedOut
