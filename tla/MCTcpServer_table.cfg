CONSTANTS
  ThreadNums = {3}
  hardware_concurrency = 2
  LowFds = 0
  FdLimit = 4
  AcceptErrors = {"ECONNABORTED", "ENFILE"}
  MaxArrivals = 2
  MaxCloses = 2
  MaxOpens = 1
SPECIFICATION FairSpec
INVARIANTS
  TypeOK
  DescriptorsAreKept
  TableIsExact
PROPERTIES
  ArrivalIsHandled
  ClosedIsReleased
  LifeIsKept
CHECK_DEADLOCK FALSE
