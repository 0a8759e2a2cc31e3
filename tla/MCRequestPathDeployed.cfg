SPECIFICATION FairSpec
CONSTANTS
  Callers = {c1, c2}
  Services = {s1}
  EnableCircuitBreaker = FALSE
  EnableRetry = FALSE
  EnableCache = TRUE
  FailureThreshold = 1
  ResetTimeout = 1
  MaxRetries = 1
  ProxyTimeout = 1
  MaxSends = 2
  TTL = 1
  CounterMod = 3
  MaxTime = 5
  Empty = Empty
INVARIANT
  StalenessBound
PROPERTY
  EveryCallAnswered
