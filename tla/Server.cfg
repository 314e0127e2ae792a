CONSTANTS
  u1 = u1
  u2 = u2
  Upstreams <- TwoUpstreams
  Listens = 1
  FirstDelay = 1
  MaxDelay = 60
  MaxChanges = 2
  WaitsCap = 8
SPECIFICATION Spec
INVARIANTS
  TypeOK
  DelayIsExact
  OneConnectionEach
  FinalMeansFinal
PROPERTIES
  GetsThere
\* a server that has exited does nothing more
CHECK_DEADLOCK FALSE
