CONSTANTS
  a = a  b = b  c = c
  x = x  y = y  z = z
  s = s  p = p
  Node = {a, b, x, y}
  Client = {x, y}
  Subject = {s}
  Pub = {p}
  MatchedBy <- MatchOne
  Link <- ReconnectLink
  Est <- ReconnectEst
  Acc <- ReconnectAcc
  Initial = {1, 2}
  HeldLimit = 1
  Buffered = FALSE
  MaxChanges = 3
  MaxLosses = 1
  MaxOverflows = 0
SPECIFICATION FairSpec
INVARIANTS
  TypeOK
  NeighboursToldExactly
  RoutingExact
PROPERTIES
  ComesToRest
CHECK_DEADLOCK FALSE
