\* One child of each kind, forked in any order by a parent that may end at any time.
CONSTANTS
  logServer = logServer
  client = client
  business = business
  Children <- MCChildren
  Entry <- MCEntry
  Fds = {f1, f2}
  MaxSends = 2
  Capacity = 2
  Parent = Parent
SPECIFICATION FairSpec
INVARIANTS TypeOK LogEndsLast Delivered Blame
PROPERTY NoneLeftBehind
CHECK_DEADLOCK FALSE
