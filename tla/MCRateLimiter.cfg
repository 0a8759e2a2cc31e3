SPECIFICATION FairSpec
CONSTANTS
  Addresses = {a1, a2}
  MaxRequests = 2
  Window = 1
  NoData = NoData
  MaxTime = 5
  MaxCount = 3
INVARIANTS
  TypeOK
  BurstBound
  RefusalEarned
PROPERTIES
  WindowsLeave
CHECK_DEADLOCK FALSE
