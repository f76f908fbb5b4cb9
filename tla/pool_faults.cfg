\* Two workers, two adders, every hazard.
CONSTANTS
  Workers = {w1, w2}
  Adders = {a1, a2}
  Tasks = {t1, t2, t3}
  Endless = {}
  Hazards = {"exit", "refuse", "fdlimit", "close", "startfail"}
  Listener = Listener
  None = None
SYMMETRY PoolSymmetry
SPECIFICATION Spec
INVARIANTS TypeOK HeldOnce InOrder SingleOwner PointersLive Blame
PROPERTY TasksAsPromised
CHECK_DEADLOCK FALSE
