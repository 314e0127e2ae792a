CONSTANTS
  x = x
  y = y
  Part = {x, y}
  Wildcard = wild
  Subject <- ShortAndPattern
  Given <- ShortAndLong
  Callback = {k1, k2}
  MaxSubscribes = 3
  MaxUnsubscribes = 1
  MaxConnects = 2
  MaxPublishes = 1
SPECIFICATION Spec
SYMMETRY Symmetry
INVARIANTS
  DeliveredExactly
  TellsExactly
  StaysRegistered
\* users need not call anything
CHECK_DEADLOCK FALSE
