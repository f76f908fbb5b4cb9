\* One connection whose client sends something.
CONSTANTS
  MaxPassed = 1
  Workers = {w1}
  Count = 1
  Capacity = 1
  Room = 1
  EventSize = 2
  MaxResets = 0
SPECIFICATION FairSpec
PROPERTY RequestReceived
CHECK_DEADLOCK FALSE
