SPECIFICATION FairSpec
CONSTANTS
  Callers = {c1, c2, c3}
  FailureThreshold = 2
  ResetTimeout = 1
  CounterMod = 5
  MaxTime = 5
INVARIANTS
  TypeOK
  OpenIsQuiet
  CountsMatchCalls
  HalfOpenNotStuck
  ProbesWithinQuota
PROPERTIES
  MovesEarned
  QuotaFrees
