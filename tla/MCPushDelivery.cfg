CONSTANTS
  Users = {u1, u2}
  NoUser = NoUser
  Tokens = {t1, t2}
  Jobs = {j1}
  Attempts = 3
  MaxStalls = 1
  MaxId = 2
SPECIFICATION FairSpec
CHECK_DEADLOCK FALSE
INVARIANTS
  PushInv
PROPERTIES
  RegistrationsAreTheirOwners
  
