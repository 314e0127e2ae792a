CONSTANTS
  a = a  b = b  c = c
  x = x  y = y  z = z
  s = s  p = p
  Node = {a, b, c, x, y, z}
  Client = {x, y, z}
  Subject = {s}
  Pub = {p}
  MatchedBy <- MatchOne
  Link <- StarLink
  Est <- StarEst
  Acc <- StarAcc
  Initial = {1, 2, 3, 4}
  HeldLimit = 2
  Buffered = FALSE
  MaxChanges = 3
  MaxLosses = 0
  MaxOverflows = 1
SPECIFICATION Spec
INVARIANTS
  DueIsDelivered
  NoDuplicates
  NoPublishHeldForCheck
  
CHECK_DEADLOCK FALSE
