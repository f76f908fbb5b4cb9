\* Four connections, three of which fit into the descriptor table; WaitEvents
\* reports two at a time.
CONSTANTS
  MaxPassed = 4
  Workers = {w1, w2}
  Count = 2
  Capacity = 1
  Room = 3
  EventSize = 2
  MaxResets = 1
SPECIFICATION FairSpec
INVARIANTS TypeOK Accounted Blame
PROPERTIES EveryAnnounced LookedAt HiddenStays
CHECK_DEADLOCK FALSE
