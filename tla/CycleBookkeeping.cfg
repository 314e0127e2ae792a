CONSTANTS
  a = a
  b = b
  c = c
  d = d
  Node = {a, b, c}
  Link <- ChainLink
  Est <- ChainEst
  Acc <- ChainAcc
  Initial = {1, 2}
  MaxAttempts = 2
  MaxLosses = 1
  Timeouts = FALSE
  PromptHello = FALSE
  PromptDecision = FALSE
SPECIFICATION FairSpec
INVARIANTS
  TypeOK
  
  CheckingExact
PROPERTIES
  EveryCheckEnds
\* the program stops once every check is over and every message is received
CHECK_DEADLOCK FALSE
