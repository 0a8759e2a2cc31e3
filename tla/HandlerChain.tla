---------------------------- MODULE HandlerChain ----------------------------
(***************************************************************************)
(* The way of a request through the handlers that server.New and           *)
(* router.RegisterService register with Fiber, one behind the other.       *)
(*                                                                         *)
(* A handler answers, fails, or calls c.Next(), which runs the next        *)
(* handler whose route matches and comes back with its error; the handler  *)
(* may then do something with it.  The ones that do are on the request's   *)
(* stack.  c.Next() never goes back: it starts behind the route tried      *)
(* last, also when Forward calls it a second time from inside the retrier. *)
(* Two services may match one path, and then handleHTTP runs inside        *)
(* handleHTTP, an Execute of the breaker inside an Execute of the breaker. *)
(*                                                                         *)
(* Left out, as they hand on what they are given: otelfiber, recover (no   *)
(* handler panics), compress, requestid, CORS.  Requests are GETs, and     *)
(* name their service in the query, so that a key of the cache is theirs   *)
(* alone (AliasedKeys has the others).                                     *)
(***************************************************************************)
EXTENDS Integers, Sequences, FiniteSets, SequencesExt

CONSTANTS
  Requests,         \* handled at the same time
  Services,         \* cfg.Services, a sequence; its entries, by name
  WebSockets,       \* those with enable_websocket
  Targeted,         \* those with a target
  Paths,            \* request paths that are neither of the two below
  MatchedBy,        \* the services whose base path a path has
  EnableJWT, EnableAPIKey, EnableMetrics,
  EnableCircuitBreaker, EnableRetry, EnableCache, MaxRetries,
  FailureThreshold, ResetTimeout, CounterMod, MaxTime  \* as in Breaker

ServiceSet == ToSet(Services)

(* An entry stands for itself, also when its name is given twice.          *)
ASSUME ChainAssumption ==
  /\ Services \in Seq(ServiceSet) /\ IsInjective(Services)
  /\ WebSockets \subseteq ServiceSet /\ Targeted \subseteq ServiceSet
  /\ MatchedBy \in [Paths -> SUBSET ServiceSet]
  /\ {"/health", "/metrics"} \cap Paths = {}
  /\ {EnableJWT, EnableAPIKey, EnableMetrics,
      EnableCircuitBreaker, EnableRetry, EnableCache} \subseteq BOOLEAN
  /\ MaxRetries \in Nat

VARIABLES
  now, cb, inside, ticket, wrapped,   \* Breaker's
  call,                               \* the requests
  cached                              \* whose answer the cache has for a path

(* Each handleHTTP of a request is a caller of its own.                    *)
B == INSTANCE Breaker WITH Callers <- Requests \X ServiceSet

ASSUME ChainBreakerAssumption == B!BreakerAssumption

breakerVars == <<now, cb, inside, ticket, wrapped>>
vars == <<now, cb, inside, ticket, wrapped, call, cached>>

Attempts == IF EnableRetry THEN MaxRetries + 1 ELSE 1

(* "upgrade" has Upgrade: websocket and no Connection: upgrade, a          *)
(* "handshake" has both.                                                   *)
Kinds == {"plain", "upgrade", "handshake"}

(* The credentials a request can lack.                                     *)
Credentials ==
  (IF EnableJWT THEN {"jwt"} ELSE {}) \cup (IF EnableAPIKey THEN {"apikey"} ELSE {})

Handler(name, service) == [name |-> name, service |-> service]

Installed(on, name) == IF on THEN <<Handler(name, "none")>> ELSE <<>>

(* Bug variant: the services in another order, as from a map.              *)
ServiceHandlersReversed ==
  [i \in 1 .. 2 * Len(Services) |->
     Handler(IF i % 2 = 1 THEN "ws" ELSE "http", Services[Len(Services) - (i - 1) \div 2])]

(* RegisterService, for every service in the configuration's order: its    *)
(* WebSocket route, which is nobody's route when the service has none, and *)
(* its HTTP route.                                                         *)
ServiceHandlers ==
  [i \in 1 .. 2 * Len(Services) |->
     Handler(IF i % 2 = 1 THEN "ws" ELSE "http", Services[(i + 1) \div 2])]

(* Bug variant: the endpoints are registered before the middleware.        *)
ChainEndpointsFirst ==
  Installed(TRUE, "logger") \o Installed(EnableMetrics, "/metrics")
    \o Installed(TRUE, "/health")
    \o Installed(EnableJWT, "jwt") \o Installed(EnableAPIKey, "apikey")
    \o Installed(EnableMetrics, "prometheus") \o ServiceHandlers

(* The routes, in the order of New and registerRoutes.                     *)
Chain ==
  Installed(TRUE, "logger")
    \o Installed(EnableJWT, "jwt") \o Installed(EnableAPIKey, "apikey")
    \o Installed(EnableMetrics, "prometheus") \o Installed(EnableMetrics, "/metrics")
    \o Installed(TRUE, "/health") \o ServiceHandlers

IsRoute(h, path) ==
  CASE h.name = "ws"   -> path \in Paths /\ h.service \in MatchedBy[path] \cap WebSockets
    [] h.name = "http" -> path \in Paths /\ h.service \in MatchedBy[path]
    [] h.name \in {"/health", "/metrics"} -> path = h.name
    [] OTHER -> TRUE

(* c.Next() leaves out the routes behind the last one that are before i.   *)
Skips(r, i) == \A j \in r.at + 1 .. i - 1 : ~IsRoute(Chain[j], r.path)

Idle ==
  [pc       |-> "idle",
   path     |-> "/health",
   kind     |-> "plain",
   creds    |-> {},
   at       |-> 0,        \* c.indexRoute
   stack    |-> <<>>,     \* the handlers that wait for their c.Next()
   attempt  |-> [s \in ServiceSet |-> 0],   \* of the retrier of each
   err      |-> 0,        \* the status of the error being returned, or 0
   status   |-> 200,      \* c.Response().StatusCode()
   logged   |-> 0,        \* the status in the log line, if there is one
   served   |-> {},       \* history: who was asked to answer it, or was
                          \* when the answer it got from the cache was new
   forwards |-> 0,        \* history: calls of Forward
   failures |-> 0]        \* history: failures it reported to the breaker

Returning(r, err) == [r EXCEPT !.pc = "return", !.err = err]
Answering(r, status) == [Returning(r, 0) EXCEPT !.status = status]
Served(r, by) == [r EXCEPT !.served = @ \cup {by}]
Waiting(r, h) == [r EXCEPT !.stack = Append(@, h)]

Top(r) == r.stack[Len(r.stack)]
Caller(c) == <<c, Top(call[c]).service>>

(* The request steps from r to one of rs, and nothing else changes.        *)
Step(c, rs) ==
  /\ \E r \in rs : call' = [call EXCEPT ![c] = r]
  /\ UNCHANGED <<breakerVars, cached>>

-----------------------------------------------------------------------------

Init ==
  /\ B!Init
  /\ call = [c \in Requests |-> Idle]
  /\ cached = [p \in Paths |-> {}]

Arrive(c, path, kind, creds) ==
  /\ call[c].pc = "idle"
  /\ Step(c, {[Idle EXCEPT !.pc = "next", !.path = path, !.kind = kind,
                           !.creds = creds]})

(* No route is left.                                                       *)
NotFound(c) ==
  /\ call[c].pc = "next"
  /\ Skips(call[c], Len(Chain) + 1)
  /\ Step(c, {[Returning(call[c], 404) EXCEPT !.at = Len(Chain)]})

(***************************************************************************)
(* The handlers: what each may make of a request r up to its own c.Next(), *)
(* its answer, its error, or the breaker.                                  *)
(***************************************************************************)

(* JWT and APIKey.                                                         *)
Authenticate(r, h) == IF h.name \in r.creds THEN r ELSE Returning(r, 401)

Prometheus(r, h) == IF r.path = "/metrics" THEN r ELSE Waiting(r, h)

Endpoint(r, h) == Served(Answering(r, 200), h.name)

(* A handshake is accepted, or the upgrader finds something wrong with it, *)
(* writes its 400, and the error that is returned says 426.                *)
WebSocketRoute(r, h) ==
  LET s == Served(r, h.service) IN
  IF r.kind # "handshake" THEN {r}
  ELSE {Answering(s, 101), [Returning(s, 426) EXCEPT !.status = 400]}

HTTPRoute(r, h) ==
  CASE r.kind = "handshake" -> r
    [] r.kind # "handshake" /\ h.service \notin Targeted -> Returning(r, 503)
    [] OTHER -> [Waiting(r, h) EXCEPT !.pc = "execute", !.attempt[h.service] = 1]

(* c.Next() finds a route and calls its handler.                           *)
Enter(c, i) ==
  LET h == Chain[i]
      r == [call[c] EXCEPT !.at = i]
  IN
  /\ call[c].pc = "next"
  /\ i > call[c].at /\ IsRoute(h, r.path) /\ Skips(call[c], i)
  /\ Step(c, CASE h.name = "logger"               -> {Waiting(r, h)}
               [] h.name \in {"jwt", "apikey"}    -> {Authenticate(r, h)}
               [] h.name = "prometheus"           -> {Prometheus(r, h)}
               [] h.name \in {"/health", "/metrics"} -> {Endpoint(r, h)}
               [] h.name = "ws"                   -> WebSocketRoute(r, h)
               [] h.name = "http"                 -> {HTTPRoute(r, h)})

(* handleHTTP enters the breaker, if there is one, or is kept out of it.   *)
Execute(c) ==
  /\ call[c].pc = "execute"
  /\ IF EnableCircuitBreaker THEN B!Admit(Caller(c)) ELSE UNCHANGED breakerVars
  /\ call' = [call EXCEPT ![c].pc = "forward"]
  /\ UNCHANGED cached

Refuse(c, err) ==
  /\ call[c].pc = "execute"
  /\ EnableCircuitBreaker
  /\ \/ err = 503 /\ B!RefuseOpen(Caller(c))
     \/ err = 500 /\ B!RefuseTooMany(Caller(c))
  /\ call' = [call EXCEPT ![c] =
       [Returning(call[c], err) EXCEPT !.stack = Front(@)]]
  /\ UNCHANGED cached

(* Bug variant: a request that is not for the HTTP proxy is a success.     *)
PassOnSkips(c) ==
  LET r == [call[c] EXCEPT !.forwards = @ + 1] IN
  /\ call[c].pc = "forward" /\ r.kind = "upgrade"
  /\ Step(c, {Returning(r, 0)})

(* Forward does no proxying of upgrades,                                   *)
PassOn(c) ==
  LET r == [call[c] EXCEPT !.forwards = @ + 1] IN
  /\ call[c].pc = "forward" /\ r.kind = "upgrade"
  /\ Step(c, {[r EXCEPT !.pc = "next"]})

(* or sends what the cache has for the path,                               *)
Hit(c) ==
  LET r == [call[c] EXCEPT !.forwards = @ + 1] IN
  /\ call[c].pc = "forward" /\ r.kind # "upgrade"
  /\ EnableCache
  /\ Step(c, {Returning(Served(r, s), 0) : s \in cached[r.path]})

(* or asks the service: its answer is relayed, and stored if it is a 200,  *)
(* or there is none.  How long a stored answer is fresh is in RequestPath; *)
(* here one that was stored may be found, or not.                          *)
Fetch(c) ==
  LET r == Served([call[c] EXCEPT !.forwards = @ + 1], Top(call[c]).service)
      Stored == [cached EXCEPT ![r.path] = {Top(r).service}]
  IN
  /\ call[c].pc = "forward" /\ r.kind # "upgrade"
  /\ \/ /\ call' = [call EXCEPT ![c] = Answering(r, 200)]
        /\ cached' = IF EnableCache THEN Stored ELSE cached
        /\ UNCHANGED breakerVars
     \/ Step(c, {Answering(r, 500), Returning(r, 502)})

Forward(c) == PassOn(c) \/ Hit(c) \/ Fetch(c)

Returned(c, name) ==
  /\ call[c].pc = "return"
  /\ call[c].stack # <<>>
  /\ Top(call[c]).name = name

(* Bug variants: Next starts again behind this service, and one attempt    *)
(* too many.                                                               *)
RetryFromHere(c) ==
  LET s == Top(call[c]).service IN
  /\ Returned(c, "http")
  /\ call[c].err # 0 /\ call[c].attempt[s] < Attempts
  /\ Step(c, {[call[c] EXCEPT !.pc = "forward", !.attempt[s] = @ + 1,
                 !.at = CHOOSE i \in 1 .. Len(Chain) : Chain[i] = Top(call[c])]})

RetryOnceMore(c) ==
  LET s == Top(call[c]).service IN
  /\ Returned(c, "http")
  /\ call[c].err # 0 /\ call[c].attempt[s] <= Attempts
  /\ Step(c, {[call[c] EXCEPT !.pc = "forward", !.attempt[s] = @ + 1]})

(* The retrier tries again.                                                *)
Retry(c) ==
  LET s == Top(call[c]).service IN
  /\ Returned(c, "http")
  /\ call[c].err # 0 /\ call[c].attempt[s] < Attempts
  /\ Step(c, {[call[c] EXCEPT !.pc = "forward", !.attempt[s] = @ + 1]})

(* It does not, and handleHTTP returns through the breaker.                *)
Leave(c) ==
  LET r == call[c] IN
  /\ Returned(c, "http")
  /\ r.err = 0 \/ r.attempt[Top(r).service] >= Attempts
  /\ IF EnableCircuitBreaker
     THEN B!Report(Caller(c), r.err = 0) ELSE UNCHANGED breakerVars
  /\ call' = [call EXCEPT ![c] =
       [r EXCEPT !.stack = Front(@), !.attempt[Top(r).service] = 0,
                 !.failures = IF r.err = 0 THEN @ ELSE @ + 1]]
  /\ UNCHANGED cached

(* The metrics middleware counts the request and hands on the error.       *)
Count(c) ==
  /\ Returned(c, "prometheus")
  /\ Step(c, {[call[c] EXCEPT !.stack = Front(@)]})

(* Bug variant: the logger hands on no error at all.                       *)
LogDropsError(c) ==
  LET r == [call[c] EXCEPT !.stack = Front(@)] IN
  /\ Returned(c, "logger")
  /\ Step(c, {[r EXCEPT !.logged = r.status, !.err = 0]})

(* The logger writes a line with the response's status as it is before     *)
(* the error handler sees the error; for two paths it writes nothing and   *)
(* returns nil.                                                            *)
Log(c) ==
  LET r == [call[c] EXCEPT !.stack = Front(@)] IN
  /\ Returned(c, "logger")
  /\ Step(c, {IF r.path \in {"/health", "/metrics"}
              THEN [r EXCEPT !.err = 0] ELSE [r EXCEPT !.logged = r.status]})

(* Fiber's error handler, the default one, turns an error into its status. *)
Answer(c) ==
  LET r == call[c] IN
  /\ r.pc = "return" /\ r.stack = <<>>
  /\ Step(c, {[r EXCEPT !.pc = "done", !.err = 0,
                        !.status = IF r.err = 0 THEN @ ELSE r.err]})

Done(c) == call[c].pc = "done" /\ Step(c, {Idle})

Tick == B!Tick /\ UNCHANGED <<call, cached>>

Next ==
  \/ \E c \in Requests, path \in Paths \cup {"/health", "/metrics"},
        kind \in Kinds, creds \in SUBSET Credentials :
       (path \notin Paths => kind = "plain") /\ Arrive(c, path, kind, creds)
  \/ \E c \in Requests :
       \/ NotFound(c) \/ Execute(c) \/ Forward(c) \/ Retry(c) \/ Leave(c)
       \/ Count(c) \/ Log(c) \/ Answer(c) \/ Done(c)
  \/ \E c \in Requests, i \in 1 .. Len(Chain) : Enter(c, i)
  \/ \E c \in Requests, err \in {500, 503} : Refuse(c, err)
  \/ Tick

Spec == Init /\ [][Next]_vars

-----------------------------------------------------------------------------

(* Where a request can be; the handlers that wait are in the order of      *)
(* their routes, and none waits twice.                                     *)
TypeOK ==
  /\ B!TypeOK
  /\ cached \in [Paths -> SUBSET ServiceSet]
  /\ \A c \in Requests : LET r == call[c] IN
       /\ r.pc \in {"idle", "next", "execute", "forward", "return", "done"}
       /\ r.at \in 0 .. Len(Chain)
       /\ \A i, j \in 1 .. Len(r.stack) : i < j =>
            \E k, l \in 1 .. r.at :
              k < l /\ Chain[k] = r.stack[i] /\ Chain[l] = r.stack[j]
       /\ r.attempt \in [ServiceSet -> 0 .. Attempts]
       /\ r.err \in {0, 401, 404, 426, 500, 502, 503}
       /\ r.status \in {101, 200, 400, 401, 404, 426, 500, 502, 503}

(* Who has to answer a request, by the configuration alone: the endpoint,  *)
(* for a handshake the first service that matches and takes WebSockets,    *)
(* for other requests the first one that matches if it has a target, and   *)
(* nobody for an upgrade that is no handshake.                             *)
FirstOf(set) ==
  IF set = {} THEN {}
  ELSE {Services[CHOOSE i \in 1 .. Len(Services) :
          Services[i] \in set /\ \A j \in 1 .. i - 1 : Services[j] \notin set]}

Responsible(r) ==
  CASE r.path = "/health"  -> {"/health"}
    [] r.path = "/metrics" -> IF EnableMetrics THEN {"/metrics"} ELSE {}
    [] r.path \in Paths /\ r.kind = "plain"     -> FirstOf(MatchedBy[r.path]) \cap Targeted
    [] r.path \in Paths /\ r.kind = "handshake" -> FirstOf(MatchedBy[r.path] \cap WebSockets)
    [] OTHER -> {}

(* No request is answered by anyone else, however its retries walk on      *)
(* through the routes, nor with what anyone else answered before.          *)
ServedByResponsible ==
  \A c \in Requests : call[c].served \subseteq Responsible(call[c])

(* Nothing answers a request, and no function runs in the breaker for it,  *)
(* unless it has every credential that the configuration asks for.         *)
Guarded ==
  \A c \in Requests :
    call[c].served # {} \/ call[c].forwards > 0 => call[c].creds = Credentials

(* A client is told of success only when someone has answered, now or, if  *)
(* the cache has the answer, before; apart from the two paths for which    *)
(* the logger loses the error: there a request without credentials gets an *)
(* empty 200.                                                              *)
SuccessMeansServed ==
  \A c \in Requests : LET r == call[c] IN
    r.pc = "done" /\ r.status < 400 =>
      r.served # {} \/ r.path \in {"/health", "/metrics"}

(* The work of a request that several services match adds up and does not  *)
(* multiply: retriers nest, but each c.Next() happens once.  In particular *)
(* a request fails at most once per service in the breaker.                *)
WorkAdds ==
  \A c \in Requests : LET r == call[c]
                          n == IF r.path \in Paths THEN Cardinality(MatchedBy[r.path]) ELSE 0
                      IN  r.forwards <= n * Attempts /\ r.failures <= n

(* The breaker closes again only on the answer of an upstream, which may   *)
(* be one that the cache has kept (nobody is asked then): a request that   *)
(* Forward passes on, in whichever depth, does not count as one.           *)
ClosedByAnswer ==
  [][cb.state = "half-open" /\ cb'.state = "closed" =>
       \E c \in Requests : call'[c] # call[c] /\ call[c].served # {}]_vars

(* logger.go: "Determine log level based on status code".  The status that *)
(* is logged is the one the client gets.                                   *)
LoggedAsAnswered ==
  \A c \in Requests :
    call[c].pc = "done" /\ call[c].logged # 0 => call[c].logged = call[c].status
=============================================================================
