CONSTANTS
  c1 = c1
  c2 = c2
  c3 = c3
  f1 = f1
  f2 = f2
  null = null
  Channels <- MCChannels
  Fds <- MCFds
  Fd <- MCFd
  NoChannel = null
  InitReady = 1
SPECIFICATION FairSpec
INVARIANTS
  TypeOK
  AssertsHold
  RecordsAgree
  InterestIsWatched
  PendingIsListed
PROPERTIES
  ReadyIsServed
