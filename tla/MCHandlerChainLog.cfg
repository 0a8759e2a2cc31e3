SPECIFICATION Spec
CONSTANTS
  Requests = {r1}
  Services <- MCServices
  WebSockets = {"consumer"}
  Targeted = {"api", "consumer"}
  Paths <- MCPaths
  MatchedBy <- MCMatchedBy
  EnableJWT = FALSE
  EnableAPIKey = FALSE
  EnableMetrics = TRUE
  EnableCircuitBreaker = FALSE
  EnableRetry = FALSE
  EnableCache = TRUE
  MaxRetries = 0
  FailureThreshold = 2
  ResetTimeout = 1
  CounterMod = 5
  MaxTime = 4
INVARIANT LoggedAsAnswered
