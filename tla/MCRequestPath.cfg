SPECIFICATION Spec
CONSTANTS
  Callers = {c1, c2}
  Services = {s1}
  EnableCircuitBreaker = TRUE
  EnableRetry = TRUE
  EnableCache = TRUE
  FailureThreshold = 1
  ResetTimeout = 1
  MaxRetries = 1
  ProxyTimeout = 1
  MaxSends = 2
  TTL = 1
  CounterMod = 3
  MaxTime = 2
  Empty = Empty
SYMMETRY Interchangeable
INVARIANTS
  TypeOK
  ProbeBudget
  ExecutionsBounded
