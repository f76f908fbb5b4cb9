\* Two threads, a fair scheduler, functions that return or do not.
CONSTANTS
  Objects = {o1, o2}
  Hazards = {"return", "poll", "createfail", "pause"}
  MaxNow = 3
  None = None
SPECIFICATION FairSpec
INVARIANTS TypeOK ValidIsTrue Blame
PROPERTY StoppedEnds
CHECK_DEADLOCK FALSE
