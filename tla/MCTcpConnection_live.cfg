CONSTANTS
  c = c
  f = f
  null = null
  Channels <- MCChannels
  Fds <- MCFds
  Fd <- MCFd
  NoChannel = null
  channel_ = c
  fd_ = f
  Setups = {{"msg_cb_"}}
  highWaterMark_ = 2
  UserCalls = {"Send", "StartRead", "StopRead", "Shutdown"}
  CallbackCalls = {"Send", "StartRead", "StopRead", "ForceClose"}
  PeerEnds = {"FIN", "RST"}
  MsgSizes = {3}
  SndBuf = 2
  MaxCalls = 2
  MaxChunks = 2
  MaxQueue = 1
SPECIFICATION FairSpec
INVARIANTS
  StreamIntegrity
PROPERTIES
  DataIsRead
  BufferDrains
  ShutdownCompletes
  PeerEndNoticed
  ClosedIsDestroyed
