CONSTANTS
  Calls = {c1, c2, c3}
  Pings = {c3}
  Sockets = {s1, s2}
  MaxSeq = 2
  MaxChunks = 1
  NoCall = NoCall
  NoSocket = NoSocket
SPECIFICATION Spec
INVARIANTS
  AnswersAreWhole
  PendingIsInflight
  
PROPERTIES
  QueriesEnd
