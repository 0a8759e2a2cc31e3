SPECIFICATION FairSpec
CONSTANTS
  Requests = {r1, r2, r3}
  EnableTracing = TRUE
  QueueSize = 2
  ShutdownTimeout = 2
INVARIANTS
  TypeOK
  CutAtDeadline
  EarlySpansSettled
PROPERTIES
  SignalEnds
CHECK_DEADLOCK FALSE
