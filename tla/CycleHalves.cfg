CONSTANTS
  a = a
  b = b
  c = c
  d = d
  Node = {a, b, c, d}
  Link <- HalvesLink
  Est <- HalvesEst
  Acc <- HalvesAcc
  Initial = {1, 2}
  MaxAttempts = 2
  MaxLosses = 1
  Timeouts = TRUE
  PromptHello = TRUE
  PromptDecision = TRUE
SPECIFICATION Spec
INVARIANTS
  
  FinalRefusalIsRight
PROPERTIES
  Refinement
\* the program stops once every check is over and every message is received
CHECK_DEADLOCK FALSE
