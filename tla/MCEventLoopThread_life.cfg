CONSTANTS
  MaxTasks = 3
SPECIFICATION FairSpec
INVARIANTS
  ThreadTypeOK
  LoopExists
PROPERTIES
  GetLoopReturns
  DestructorReturns
  QuitReturns
  QueuedIsRun
