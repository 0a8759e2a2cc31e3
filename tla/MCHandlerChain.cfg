SPECIFICATION Spec
CONSTANTS
  Requests = {r1}
  Services <- MCServices
  WebSockets = {"consumer"}
  Targeted = {"api", "consumer"}
  Paths <- MCPaths
  MatchedBy <- MCMatchedBy
  EnableJWT = TRUE
  EnableAPIKey = TRUE
  EnableMetrics = TRUE
  EnableCircuitBreaker = TRUE
  EnableRetry = TRUE
  EnableCache = TRUE
  MaxRetries = 2
  FailureThreshold = 2
  ResetTimeout = 1
  CounterMod = 5
  MaxTime = 4
INVARIANTS
  TypeOK
  ServedByResponsible
  Guarded
  SuccessMeansServed
  WorkAdds
PROPERTIES
  ClosedByAnswer
