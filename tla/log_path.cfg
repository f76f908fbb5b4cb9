\* Three runs of the log server, one after another or at once; two threads trace.
CONSTANTS
  Servers = {s1, s2, s3}
  Threads = {a1, a2}
  Hazards = {"kill", "fail"}
  None = None
SPECIFICATION FairSpec
INVARIANTS TypeOK StaleOnce TakenByCollision
PROPERTIES MuteNeedsCollision CollisionClears
CHECK_DEADLOCK FALSE
