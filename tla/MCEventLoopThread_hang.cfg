CONSTANTS
  MaxTasks = 3
SPECIFICATION FairSpec
PROPERTIES
  DestructorAlwaysReturns
