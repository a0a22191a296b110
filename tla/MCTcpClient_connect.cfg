CONSTANTS
  Threads = {TRUE, FALSE}
  MaxRefusals = 2
  MaxStops = 1
SPECIFICATION FairSpec
INVARIANTS
  ChannelIsSafe
  SocketIsOwned
  DestroyedIsUnused
PROPERTIES
  ConnectResolves
CHECK_DEADLOCK FALSE
