CONSTANTS
  Requests = 2
  Conns = 2
  WithTimeout = {}
  MaxFailures = 1
  MaxReplies = 1
  MaxCloses = 1
SPECIFICATION Spec
INVARIANTS
  NotReportedTwice
  NoneLeftWaiting
  OneConnection
  RegistrationsTold
\* the client stops once every request is over and it has been closed
CHECK_DEADLOCK FALSE
