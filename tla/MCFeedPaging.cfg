CONSTANTS
  p1 = p1
  p2 = p2
  p3 = p3
  a1 = a1
  a2 = a2
  Posts = {p1, p2, p3}
  Authors = {a1, a2}
  AuthorOf <- MCAuthorOf
  Readers = {r1}
  Limits = {1, 2}
  Ttl = 1
  Lag = 1
  MaxTime = 2
SPECIFICATION Spec
SYMMETRY Symmetry
INVARIANTS
  PagesGoBack
  NothingIsSkipped
  NothingStaleIsServed
