\* What the child is given to run.
CONSTANTS
  Workers = {w1, w2}
  Count = 2
  Connections = {k1}
  Acceptor = Acceptor
  Child = business
  Capacity = 1
  MaxSends = 1
  MaxFails = 0
  None = None
SPECIFICATION Spec
INVARIANT BusinessBound
CHECK_DEADLOCK FALSE
