\* Two workers of CServer and the clients of its port.
CONSTANTS
  Workers = {w1, w2}
  Count = 2
  Connections = {k1, k2, k3}
  Acceptor = Acceptor
  Child = business
  Capacity = 2
  MaxSends = 3
  MaxFails = 2
  None = None
SPECIFICATION FairSpec
INVARIANTS TypeOK HandedOver Blame
PROPERTY EveryConnectionTaken
CHECK_DEADLOCK FALSE
