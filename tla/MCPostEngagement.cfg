CONSTANTS
  Users = {u1, u2}
  NoUser = NoUser
  Posts = {p1, p2}
  NoPost = NoPost
  Slots = {s1, s2}
SPECIFICATION Spec
SYMMETRY Symmetry
CHECK_DEADLOCK FALSE
INVARIANTS
  CountMatchesRows
  UndisturbedToggleIsExact
  PinsBoundedByRequests
