CONSTANTS
  g1 = g1
  g2 = g2
  a1 = a1
  google = google
  apple = apple
  e1 = e1
  e2 = e2
  NoUser = NoUser
  NoIdentity = NoIdentity
  NoEmail = NoEmail
  Users = {u1, u2}
  Identities = {g1, g2, a1}
  Providers = {google, apple}
  ProviderOf <- MCProviderOf
  Emails = {e1, e2}
  LowerOf <- MCLowerOf
  EmailOf <- MCEmailOf
  Verified = {g1, a1}
  Requests = {q1, q2}
  Keys = {k1}
  Contents = {x1}
  Workers = {q1, q2}
  MaxWrites = 3
  MaxFaults = 1
SPECIFICATION PartsSpec
SYMMETRY Symmetry
INVARIANTS
  SessionsFollowLinks
  LinkedUsersExist
  UndisturbedUnlinkKeepsAMethod
  StorageInv
