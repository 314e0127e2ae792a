CONSTANTS
  a = a
  b = b
  c = c
  d = d
  Node = {a, b, c}
  Link <- TriangleLink
  Est <- TriangleEst
  Acc <- TriangleAcc
  Initial = {1}
  MaxAttempts = 2
  MaxLosses = 0
  Timeouts = FALSE
  PromptHello = FALSE
  PromptDecision = TRUE
SPECIFICATION Spec
INVARIANTS
  JoinedForest
\* the program stops once every check is over and every message is received
CHECK_DEADLOCK FALSE
