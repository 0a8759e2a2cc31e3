SPECIFICATION FairSpec
CONSTANTS
  MaxMsgs = 3
  None = None
INVARIANTS
  TypeOK
  DeliveredInOrder
  ErrorsHaveCause
PROPERTIES
  RelayDelivers
  ClientGoneReturns
  TargetGoneReturns
  ForwardersStop
CHECK_DEADLOCK FALSE
