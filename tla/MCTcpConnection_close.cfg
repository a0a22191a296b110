CONSTANTS
  c = c
  f = f
  null = null
  Channels <- MCChannels
  Fds <- MCFds
  Fd <- MCFd
  NoChannel = null
  channel_ = c
  fd_ = f
  Setups = {{"msg_cb_"}, {"same_loop"}, {"same_loop", "msg_cb_", "written_cb_", "high_water_cb_"}}
  highWaterMark_ = 2
  UserCalls = {"Send", "Shutdown", "ForceClose"}
  CallbackCalls = {"Shutdown", "ForceClose"}
  PeerEnds = {"FIN", "RST"}
  MsgSizes = {1, 3}
  SndBuf = 2
  MaxCalls = 2
  MaxChunks = 1
  MaxQueue = 2
SPECIFICATION Spec
INVARIANTS
  TypeOK
  WritingIffBuffered
  FinAfterData
  AssertsHold
  HandlersRunAlive
PROPERTIES
  IsConnectionLife
  StateAdvances
