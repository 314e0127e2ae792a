CONSTANTS
  Requests = 2
  Conns = 1
  WithTimeout = {1}
  MaxFailures = 1
  MaxReplies = 1
  MaxCloses = 1
SPECIFICATION FairSpec
INVARIANT
  TypeOK
PROPERTIES
  EverythingEnds
  Implements
\* the client stops once every request is over and it has been closed
CHECK_DEADLOCK FALSE
