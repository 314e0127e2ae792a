CONSTANTS
  Down = {d1}
  Up = {u1, u2}
  Initially = {u1}
  Talkers = {u1}
  Unwanted = {u2}
  MaxFrames = 3
  MaxFaults = 1
  QueueLimit = 2
  ServerWaits = TRUE
  ListenLate = FALSE
SPECIFICATION Spec
PROPERTIES
  
  FailuresAreNoticed
INVARIANTS
  TypeOK
  ReportedOnce
  QueuesAreServed
  NothingLeftOpen
\* the node stops once it is closed, or nobody wants anything of it
CHECK_DEADLOCK FALSE
