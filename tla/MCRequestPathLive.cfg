SPECIFICATION FairSpec
CONSTANTS
  Callers = {c1, c2}
  Services = {s1}
  EnableCircuitBreaker = TRUE
  EnableRetry = TRUE
  EnableCache = FALSE
  FailureThreshold = 1
  ResetTimeout = 1
  MaxRetries = 1
  ProxyTimeout = 1
  MaxSends = 1
  TTL = 1
  CounterMod = 3
  MaxTime = 2
  Empty = Empty
PROPERTY
  BreakerSpec
