CONSTANTS
  Producers = {p, q}
  MaxTasks = 2
  InitSize = 2
  MAX_BLOCK_SIZE = 2
  InitBlocks = 2
  MaxBlocks = 3
  None = None
SPECIFICATION Spec
INVARIANTS
  NoTaskLost
