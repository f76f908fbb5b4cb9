\* Who ends the log server.
CONSTANTS
  logServer = logServer
  client = client
  business = business
  Children <- MCChildren
  Entry <- MCEntry
  Fds = {f1}
  MaxSends = 1
  Capacity = 1
  Parent = Parent
SPECIFICATION FairSpec
PROPERTY SignalEnds
CHECK_DEADLOCK FALSE
