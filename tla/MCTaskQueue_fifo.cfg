CONSTANTS
  Producers = {p}
  MaxTasks = 10
  InitSize = 2
  MAX_BLOCK_SIZE = 4
  InitBlocks = 1
  MaxBlocks = 3
  None = None
SPECIFICATION FairSpec
INVARIANTS
  TypeOK
  AssertsHold
PROPERTIES
  IsFifo
  PostedIsRun
