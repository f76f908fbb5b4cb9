\* One adder; two calls that return and one that, once begun, never does.
CONSTANTS
  Workers = {w1, w2}
  Adders = {a1}
  Tasks = {t1, t2, t3}
  Endless = {t3}
  Hazards = {"exit"}
  Listener = Listener
  None = None
SPECIFICATION FairSpec
INVARIANT NotAllBlocked
PROPERTIES EveryTaskRuns FirstTaskRuns
CHECK_DEADLOCK FALSE
