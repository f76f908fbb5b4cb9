\* Three tracing threads compete for one descriptor; everything may go wrong.
\* No symmetry, because a liveness property is checked too.
CONSTANTS
  Threads = {a1, a2, a3}
  Fds = {f1}
  MaxLogs = 2
  Capacity = 2
  Backlog = 2
  Hazards = {"exit", "close", "epollerr", "refuse"}
  Listener = Listener
  None = None
SPECIFICATION FairSpec
INVARIANTS TypeOK MapOwnsFds NothingLost Blame
PROPERTIES AcceptedIsWritten LogAsPromised
CHECK_DEADLOCK FALSE
