CONSTANTS
  c = c
  f = f
  null = null
  Channels <- MCChannels
  Fds <- MCFds
  Fd <- MCFd
  NoChannel = null
  channel_ = c
  fd_ = f
  Setups = {{"msg_cb_"}}
  highWaterMark_ = 2
  UserCalls = {"StopRead", "ForceClose"}
  CallbackCalls = {}
  PeerEnds = {"RST"}
  MsgSizes = {1, 3}
  SndBuf = 2
  MaxCalls = 1
  MaxChunks = 1
  MaxQueue = 2
SPECIFICATION Spec
INVARIANTS
  RemoveIsListed
