SPECIFICATION FairSpec
CONSTANTS
  MaxMsgs = 1
  None = None
INVARIANT
  ForwardsToItsClient
CHECK_DEADLOCK FALSE
