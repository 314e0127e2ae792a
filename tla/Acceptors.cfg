CONSTANTS
  Callback = {k1, k2}
  MaxAccepts = 3
  MaxStops = 2
  MaxLosses = 1
  MaxRequests = 2
SPECIFICATION Spec
INVARIANTS
  CalledOncePerRequest
\* users need not call anything
CHECK_DEADLOCK FALSE
