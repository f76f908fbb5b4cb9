\* How long Stop waits.
CONSTANTS
  Objects = {o1, o2}
  Hazards = {"return", "poll"}
  MaxNow = 3
  None = None
SPECIFICATION Spec
INVARIANT StopWaits
CHECK_DEADLOCK FALSE
