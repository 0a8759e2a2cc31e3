# A model of the API gateway

TLA+ modules, TLC configurations and TLAPS proofs for the Go gateway in this repository: a Fiber
server that forwards HTTP requests and WebSocket sessions to services, with an in-memory response
cache, a circuit breaker and a retrier.

Paths below are relative to the root of the repository.

## 1. Inventory

| part | source | state | operations | interacts with |
|---|---|---|---|---|
| circuit breaker | `internal/resilience/circuitbreaker.go` | gobreaker's state, generation, counts, expiry, under a mutex | `Execute`, `State`, `StateString` | wraps the retrier or `Forward`; one for all services |
| retrier | `internal/resilience/retry.go` | none of its own | `Execute` | runs inside the breaker, wraps `Forward` |
| response cache | `pkg/cache/cache.go` | a map under an RWMutex, a cleaner goroutine, its ticker, a stop channel | `Set`, `SetWithExpiration`, `Get`, `Delete`, `Clear`, `Count`, `Close` | called by `Forward` |
| HTTP proxy | `internal/proxy/http.go` | an `http.Client` that follows redirects and replays, the cache | `Forward` | upstream services, cache |
| WebSocket proxy | `internal/proxy/websocket.go` | per session: handler, two goroutines, `errChan`, `done`, two connections | `ProxyWebSocket` | client and target; gofiber/websocket's pool of `Conn`s |
| router | `internal/router/router.go` | fixed after start | `RegisterService`, `handleHTTP`, `handleWebSocket`, `getTarget` | all of the above |
| rate limiter | `internal/middleware/ratelimit.go` | windows per address under a mutex, a cleaner | `isLimited`, `removeExpired`, `Close` | nothing installs it |
| timeout helper | `internal/resilience/timeout.go` | a goroutine per call | `Execute` | nothing calls it |
| middleware | `internal/middleware/{auth,logger,metrics,security}.go` | counters of the metrics | one handler each | order set in `internal/server/server.go` |
| server | `internal/server/server.go`, `cmd/gateway/main.go` | the Fiber app, the tracer's cleanup | `New`, `Start`, `Shutdown` | signals |
| configuration | `internal/config`, `config.yaml` | read once | `Load` | its values are the modules' constants |
| logging, tracing, metrics, status | `pkg/...` | | wrappers | output only |

What makes each part correct, and what is hard about it:

* **Breaker.** `Execute` is two critical sections with a function of any length between them, so
  results arrive in later generations than their calls. A result must count once, in the generation
  that admitted it, or not at all; the half-open quota must neither be overrun nor be used up for
  good; counts are `uint32` and are never cleared while the breaker is closed.
* **Retrier.** It repeats any error, inside the breaker's function. What matters is what the
  upstream gets to see: how many probes, how many executions of a request that is not idempotent,
  with the `http.Client` asking again, unseen, inside each attempt.
* **Cache.** `Set` and the cleaner read the clock before they wait for the lock. Readers must not
  be able to tell that there is a cleaner, expired entries must not stay, `Close` must return. A
  key may be a string whose bytes fiber overwrites (`c.Path()`).
* **HTTP proxy.** Concurrent fetches of one key fill the cache in any order, after a download of
  any length below the client's timeout. A cached answer counts as a success of the breaker's.
* **WebSocket proxy.** Four actors, two connections, a handover from the handshake to the
  forwarders, a return that does not wait for the goroutines, and a `Conn` that the library
  pools and hands to the next client.
* **Router.** Patterns overlap (`/games/ice-age-royal/*` precedes
  `/games/ice-age-royal/consumer/*`), and `Forward` calls `c.Next()` from inside the breaker.
* **Rate limiter.** Windows that are replaced when they expire, by the request or by the cleaner.
* **Middleware.** Each handler may answer, fail or call the next one and see its error on the way
  back; what it reads there (a status) may not be final yet.
* **Server.** The tracer and the requests in flight share one shutdown deadline; exports may fail
  or hang; the signal may arrive before the port is bound.

The hazards, each at its line, are in `PROJECT.json` with the properties that watch over them.

## 2. Plan

The order in which the modules were written, the most important behaviour first:

1. `Breaker` with `BreakerProofs`: the core, used by everything else.
2. `TTLMap` (abstract), `ResponseCache` (detailed), `ResponseCacheProofs`.
3. `RequestPath`: composes `Breaker` and `TTLMap` with the retrier and `Forward`; `RequestPathProofs`.
4. `WebSocketRelay` with `WebSocketRelayProofs`.
5. `AliasedKeys` with `AliasedKeysProofs`: what the cache returns when the bytes of its keys are
   overwritten.
6. `RateLimiter` with `RateLimiterProofs`.
7. `HandlerChain` with `HandlerChainProofs`: the middleware, overlapping services and with them an
   `Execute` inside an `Execute`, and what the logger sees of an error.
8. `Lifecycle` with `LifecycleProofs`: start, signal, shutdown with requests and sessions in flight.

What is left: writes that never end in `WebSocketRelay` (a peer that stops reading), and a property
that says on which paths the logger does see the status of the answer. `timeout.go` is worth a module once something calls it: today no
code says what may happen to a late result.

## 3. Modules

```
Breaker <-- BreakerProofs              TTLMap <== ResponseCache <-- ResponseCacheProofs
   ^  ^                                   ^            (implements)
   |  |  INSTANCE                         |  INSTANCE
   |  +------------ RequestPath ----------+            WebSocketRelay <-- WebSocketRelayProofs
   |                     ^                             RateLimiter    <-- RateLimiterProofs
   |             RequestPathProofs                     Lifecycle      <-- LifecycleProofs
   +--- HandlerChain <-- HandlerChainProofs            AliasedKeys    <-- AliasedKeysProofs
```

Each `MC...` module extends one specification and gives it the definitions a run needs.
Operators headed "Bug variant" are plausible mistakes in the operator that follows them;
nothing uses them, they are there to show that each property notices one.

### Breaker

`cb` is gobreaker's state, generation, `Counts` (without the one counter nothing reads) and
expiry; `ticket` is the generation each caller got from `beforeRequest`; `inside` the callers
whose function is running.

| action | code |
|---|---|
| `Admit` | `Execute` up to `fn()`: `currentState`, then `onRequest` |
| `RefuseOpen`, `RefuseTooMany` | `Execute` returns `ErrOpenState` (503) or `ErrTooManyRequests` (not translated) |
| `Report` | `fn` returned or panicked: `afterRequest` |
| `ReadState` | `State`, `StateString`: they too let an expired open state lapse |
| `Tick` | the clock |

gobreaker 1.0.0 is not in the repository: its operators are modelled from what
`circuitbreaker.go` uses of it and marked external in the map. `ReadyToTrip` is the repository's
own callback, with the division in `float64` replaced by what it decides, including a division by
a counter that wrapped to zero. `wrapped` is a history variable: some counter of this generation
passed its width. A zero threshold or timeout means gobreaker's defaults (one probe, sixty seconds).

### TTLMap and ResponseCache

`TTLMap` is what a caller of the cache may rely on: entries vanish the instant they expire and
otherwise only by a call, a `Get` returns what is there, and every call takes effect at one instant.
`Count` promises least: the code returns the size of the map, expired items included, so the abstract
one may be any number that leaves no entry out.
`last` is the call that has just taken effect, with its result, so that the refinement compares
what callers see: a cleaner that removed a live entry could not pass for a `Remove`.
`ResponseCache` is the code, split where the clock is read and where the lock is taken:
`SetStart` and `SetStore`, `TakeTick` and `Sweep`, `CloseStart` and `Stop`; `Get`, `Delete`,
`Clear` and `Count` are one critical section each. `due` is the ticker's channel, of capacity one.
`Live` is the refinement mapping: the items that have not expired by now.

### RequestPath

`call[c]` is one request: `Enter` (router, breaker's entry), `Refuse`, `PassOn` (an `Upgrade:
websocket` request that is no complete handshake and goes on to a 404, which counts as a
failure and is retried), `Hit`, `Send`, `Receive`, `Store`, `TimeOut` (the client's timeout, then
`AfterError`: the retrier), `Return` (the breaker's exit). `Lose` is any other failure of the call,
with the same consequence. `Resend` is `net/http` inside one `client.Do`: it follows redirects (the
client of `http.go:43-46` sets no `CheckRedirect`) and replays what an idle connection has lost, GETs
and POSTs with an `Idempotency-Key`; `sends` counts the requests of one `client.Do`, up to
`MaxSends`. `Serve` and `ServeLate` are the upstream, which may execute a request after the gateway has
given up on it. The breaker is `Breaker`, with its own actions as conjuncts; the cache is used through
`TTLMap`, which `ResponseCache` is proved to implement. Sleeping between attempts is the time a
request spends in `forward`.

Abstracted: URLs, headers, what bodies say (a GET's body is the instant it was produced), tracing.
A service has one cache key. Two restrictions, each lifted by a module of its own: keys are
immutable, which is true of requests with a query, whose key `Sprintf` builds (`AliasedKeys` is
about the others, and `AliasQueriesAnswered` shows that the two do not mix), and no path belongs to two services (in `HandlerChain` they do). A target URL
that does not parse fails on every attempt, like a `Lose` that nobody served. The end of
the download and `Set`'s reading of the clock are one step, `Receive`: a goroutine that is held up
between the two would make a body older than `StalenessBound` says, by as much.

### HandlerChain

`Chain` is the sequence of handlers that `server.New` and `RegisterService` register under the
switches of the configuration. `call[c]` is one request: `at`, the route it tried last; `stack`, the
handlers that are waiting for their `c.Next()`; `attempt`, where the retrier of each
service is. `cached[p]` is the service, if any, whose answer the cache has for path `p`. The breaker is `Breaker`, with a caller per request and service. `c.Next()` only ever
goes forward, also when `Forward` calls it again from inside the retrier, and two services that
match one path put `handleHTTP` inside `handleHTTP`.

| action | code |
|---|---|
| `Arrive`, `NotFound` | the request with its credentials; fiber has no further route |
| `Enter` | `c.Next()` runs the next route: `Authenticate` (JWT, API key), `Prometheus`, `Endpoint` (`/health`, `/metrics`), `WebSocketRoute`, `HTTPRoute` |
| `Execute`, `Refuse` | the breaker lets `handleHTTP`'s function in or not |
| `Forward` | `PassOn`: an upgrade request; `Hit`: an answer from the cache; `Fetch`: an answer, cached if it is a 200, or an error from the target |
| `Retry`, `Leave` | the retrier with the error of an attempt; the breaker's exit and `handleHTTP`'s translation of the error |
| `Count`, `Log` | metrics and logger, back from `c.Next()`; the logger loses the error on two paths |
| `Answer`, `Done` | fiber's error handler sets the status (external) |

Left out are the handlers that hand on what they are given: otelfiber, recover, compress, requestid,
CORS. Requests are GETs. A cached answer is found or not, at any time: how long it is fresh is
`RequestPath`'s subject. An upgrade that fails leaves the upgrader's own 400 behind, which is what the
logger then sees of it.

### AliasedKeys

`buffer[c]` is the path buffer of a pooled fiber `Ctx`; a key is either a string of its own or that
buffer. An entry keeps the place that its key's hash gave it when it was last hashed, and a key that
reads as the buffer does now. `Acquire` and `Release` are fiber's pool, `Hit`, `Miss` and `Store` the
cache's part of `Forward`, `Rehash` a map that grows and moves an entry to where its key's present
bytes say. `Hit` is any entry with an equal key, since a map of up to eight entries is one bucket that
is searched by comparing keys and in a larger one two hashes may lead to the same place; `Miss` is
possible when no such entry is where the hash says, since a larger map may look in another bucket.
`Store` replaces such an entry, or adds one. Paths have the same length. `QueriesAnswered` says where the
wrong answers end: at requests with a query.

### RateLimiter

`ips` is the map, `cleaning` the cleaner's goroutine, `passed` a history of what was let through.
`OpenWindow` and `CountRequest` are a call of `RateLimit`'s handler, with `isLimited` under its lock:
the first makes a window, the second counts in one and refuses above `max`. `RemoveExpired` is the
cleaner and `Close` its end. `server.go` does not install the limiter, so its clients are whoever
calls the handler.

### Lifecycle

`main` walks through `Boot`, `Notify`, `Shutdown`, `Flush`, `CloseListener`, `Drain`, `Exit`:
`main.go`, then `server.Shutdown`, which closes the tracer and then the app with one context, of which
`left` is what remains. `listener` is the goroutine of `Start`. `Accept` and `Finish` are requests,
which end answered or as WebSocket sessions that nobody counts any more. A span that ends is queued, or
lost when the batch processor's queue (`QueueSize`) is full, or dropped when the tracer is closed;
`Export` and `ExportFails` are the processor, which does not try again what it could not export. `BootFails` and `ListenFails` are the ends by `Fatal` (or a panic in `New`), `SignalKills` is
a signal that comes before `signal.Notify`.

### WebSocketRelay

`main` is the handler, `fwd[d]` the goroutine of direction `d`, `held[d]` a message between its
read and its write, `errs` the fill of `errChan`. `DialSucceeds` opens the target connection and, for
Socket.IO, arms its read deadline; `ReadHello`, `WriteHello`, `ReadReply`, `WriteReply` are the
handshake; `TakeError` is the receive on `errChan` with the deferred `close(done)`; `Return` is the
deferred `targetConn.Close()`. `Release` and `Reuse` are gofiber/websocket: after the handler it takes
the connection out of its `Conn`, and hands the `Conn` to a later client. `LatePanic`, `LateRead` and
`LateWrite` are a forwarder that uses the `Conn` after that.

## 4. Runs

| run | instance | distinct states | shows |
|---|---|---|---|
| `breaker` | 3 callers, threshold 2, cooldown 1, counters mod 5, clock to 5 | 39 thousand | `OpenIsQuiet`, `CountsMatchCalls`, `HalfOpenNotStuck`, `ProbesWithinQuota`, `MovesEarned`, `QuotaFrees` |
| `cache` | 2 keys, 1 writer, 2 callers of `Close`, TTL 2, durations default and never, clock to 4 | 283 thousand | `HitsAreFresh`, `TTLMapSpec`, `ExpiredLeaves`, `FirstCloseReturns` |
| `path` | 2 requests at a time, threshold 1, 1 retry, 2 upstream requests per `client.Do`, timeout 1, TTL 1, all features on, clock to 2 | 4.8 million | `ProbeBudget`, `ExecutionsBounded` |
| `path_live` | the same without the cache, 1 upstream request per `client.Do` | 321 thousand | `BreakerSpec`: it implements `Breaker`, fairness included |
| `path_deployed` | what `config.yaml` ships: cache on, breaker and retries off; 2 upstream requests per `client.Do`, clock to 5 | 174 thousand | `StalenessBound`, `EveryCallAnswered` |
| `relay` | 3 messages a side | 51 thousand | `DeliveredInOrder`, `ErrorsHaveCause`, `RelayDelivers`, `ClientGoneReturns`, `TargetGoneReturns`, `ForwardersStop` |
| `relay_late` | 1 message a side | a counterexample | `ForwardsToItsClient` does not hold |
| `limiter` | 2 addresses, max 2, window 1, 3 counted requests, clock to 5 | 244 thousand | `BurstBound`, `RefusalEarned`, `WindowsLeave` |
| `chain` | 1 request, 2 overlapping services, 3 paths, all features on (cache included), threshold 2, 2 retries, cooldown 1, clock to 4 | 1.2 million | `ServedByResponsible`, `Guarded`, `SuccessMeansServed`, `WorkAdds`, `ClosedByAnswer` |
| `chain_log` | the same services with the switches of `config.yaml` | a counterexample | `LoggedAsAnswered` does not hold |
| `alias` | 1 `Ctx`, 2 paths | a counterexample | `AnswersItsPath` does not hold |
| `lifecycle` | 3 requests, tracing on, a queue of 2 spans, timeout 2 | 12.9 thousand | `CutAtDeadline`, `EarlySpansSettled`, `SignalEnds` |

Why these bounds suffice. *Breaker*: three callers are one more than the quota, so that the quota is
contended while an old call is still out; cooldown 1 and clock 5 allow two full rounds of open,
half-open and open or closed; counters mod 5 wrap within a few calls, with calls of the same
generation running. *Cache*: clock 4 with TTL 2 has a sweep under way across an expiry and an item
that is stored after it expired; one writer suffices for the properties of readers, as the map is
written under the lock. *RequestPath*: two requests are enough for an old body to overtake a newer
one and for a stale result to meet a probe; the attempts and the quota differ, so that exceeding one
is not hidden by the other; two upstream requests per `client.Do` are one more than what the gateway
itself asks. With a cooldown of 1, clock 2 reaches the half-open state; how old a cached body gets
takes a longer clock, which `path_deployed` has. `path` was checked once with the clock to 3 as well,
`StalenessBound` included (12.4 million states). The safety run takes requests as interchangeable; no liveness run does.
*Relay*: with Socket.IO one message passes through the handshake, one through a forwarder, and one
can be on its way when the session ends. *Limiter*: clock 5 has two whole windows and the start
of a third, one address at the end of its window while the other's begins; three counted requests
are one more than max. *Chain*: one request visits the breaker once per service it matches, so the
nested executions are there with one; a threshold of two lets an inner failure be counted without
opening the circuit for the outer one, and requests follow one another, through every state of the
breaker, with and without an answer in the cache. *Lifecycle*: three requests can be answered before the signal, in flight
during it, and accepted after it, in one run; timeout 2 can expire in the flush or in the drain.

`MaxTime`, `MaxMsgs` and `MaxCount` are the only bounds that the program does not have. In
`ResponseCache` the ticker goes on firing when the clock has reached its bound, and in `RequestPath`
the client's timeout has passed then. `CounterMod` is 2^32 in the program, `QueueSize` the SDK's
2048, and `MaxSends` is what `net/http` makes of one call at most: up to ten requests by redirects, and
the replays, for which it gives no number.

Deadlock is checked except for the relay, whose sessions end, the lifecycle, whose process ends, and
the limiter, which stands still when it has been closed, its clock is at the bound and nobody calls.

### Fairness

* `Breaker`: a function that was let in returns (`http.Client.Timeout`, when it is not zero;
  `path_live` shows that the request path provides it). Nothing makes requests arrive.
* `ResponseCache`: time passes, the cleaner runs; `Stop` is strongly fair because Go's `select`
  picks at random among ready cases and the cleaner comes back to it again and again.
* `RequestPath`: a goroutine that can go on does, and time passes. What ends the waiting for an upstream
  is the client's timeout (`TimeOut`) and nothing else: `Lose`, `Resend` and `Serve` owe nothing. With
  `ProxyTimeout` 0, which is no timeout, TLC finds both `EveryCallAnswered` and `BreakerSpec` violated.
* `WebSocketRelay`: handler and forwarders run, the deadline passes, the library releases the
  connection. Peers and the next client owe nothing. Writes end: there is no write deadline, so this
  asks of a peer that stopped reading to start again or to leave.
* `RateLimiter`: the ticker fires as long as the cleaner is there.
* `Lifecycle`: `main` goes on and time passes. Requests need not end; an export need neither succeed nor fail.
* `HandlerChain` and `AliasedKeys` state safety only.

### Findings

**A message goes to another client.** `websocket.go:330` says "Forward messages from target to
client". `relay_late` ends in a state where a message of the session has been written to another client: the target's message is read, the client
leaves, the handler takes the other forwarder's error and returns, the library pools the `Conn` and
gives it to the next client, and only then the forwarder calls `c.WriteMessage`. If the
`Conn` has not been given away yet the same call dereferences a nil connection in a goroutine that
nothing recovers (`LatePanic`). Waiting for both goroutines before the return would remove both.

**A path is answered with another path's body.** `http.go:179` says "getCacheKey generates a cache
key from path and query". Without a query it returns `c.Path()`, which fiber does not copy
(`Immutable` is not set), and `http.go:161` stores that string as the key. The next request that gets
the same `Ctx` overwrites it: in `alias` the entry stored for one path is found under the other.
It also follows that the cleaner, which deletes by key, no longer finds such an entry. Copying
the path, as `Sprintf` does when there is a query, would remove both. The damage ends there, which
is proved: a request with a query always gets its own path's body (`QueriesAnswered`). A map that
grows makes it no better and no worse: it hashes such a key by its present bytes, and finds the old
body under the new path for good.

**Errors are logged as successes.** `logger.go:44` says "Determine log level based on status code",
but when a handler has returned an error without setting a status, that is still 200: fiber's error
handler sets it after the logger has returned the error. (A failed WebSocket upgrade is logged with
the upgrader's 400 where the client gets a 426.) `chain_log` shows a 404 that is logged as "Request completed successfully"; the
status label of the metrics (`metrics.go:26`) is read at the same point.

What the other runs say of the code is weaker than one might expect, and is stated as it is: retries
multiply the half-open quota, and the redirects and replays of each attempt multiply it again
(`ProbeBudget`); a probe that is answered from the cache closes the breaker although no service has been
asked (`ClosedByAnswer`); a cached body may be a client timeout older than its TTL (`StalenessBound`); a
POST may be executed more than once, also within one attempt (`ExecutionsBounded`); a
second `Close` never returns (`FirstCloseReturns` speaks of the first) and `Count` counts expired items
(`TTLMapSpec`); a Socket.IO target that leaves during the client's part of the handshake goes unnoticed
(`TargetGoneReturns`); almost twice the limiter's max can pass within one window's length, and a max of
0 lets one through (`BurstBound`); a request without credentials to `/health` or `/metrics` gets an
empty 200, as the logger returns nil there (`SuccessMeansServed`); services that overlap add their
attempts and their failures (`WorkAdds`); the shutdown does not wait for WebSocket sessions, exports no
span of a request answered after it began (the tracer is closed first), loses spans whose export
fails, lets a flush that hangs use up the time for the draining, and cuts everything off when the
signal came before the port was bound (`CutAtDeadline`, `EarlySpansSettled`).

## 5. Proofs

`tlapm` checks every theorem to its leaves; assumptions are those on the constants, which TLC
evaluates in each run.

**BreakerProofs**, for any set of callers smaller than the width of a counter, any threshold, cooldown
and width: `BreakerTypeOK`, `BreakerOpenIsQuiet`, `BreakerCountsMatchCalls`,
`BreakerHalfOpenNotStuck`, `BreakerProbesWithinQuota` and the action property `BreakerMovesEarned`,
all from `BreakerInvariant`. None of these invariants is inductive: that a late result is ignored depends on every ticket being at most the
current generation (so that a fresh generation has no call of its own, `FreshSound`); and the quota
needs, for the half-open state, the equation requests = successes + running calls without the proviso
that nothing wrapped, which the quota itself guarantees (`HalfOpenBooks`). `IInv` says these
things of a breaker and its calls (`Sound`, `Exact`); one lemma per change (`CurrentSound`, `AdmittedSound`, `SucceededSound`, `FailedSound`, `UncountedSound`) moves
them through the functional state machine, and one per operation (`LapseStep`, `AdmitStep`,
`ReportStep`) lifts them to the actions. `MovesEarned` needs the invariant for one case: a step moves
once at most, because a call that was let in before the breaker opened cannot report into the
half-open state that the same step has just brought about.

**ResponseCacheProofs**, for any keys, writers, durations and TTL: `CacheTypeOK`;
`CacheHitsAreFresh`; `CacheImplementsTTLMap`, a refinement under `Live`. Its heart is `SweepRefines`:
the cleaner's clock is at most the current one, so what it removes had already vanished for readers.
`StoreRefines` covers an item that expired before it was stored, `GetRefines` what a reader is told,
`CountRefines` that the size of the map is a number and no entry is left out, for which only finitely
many keys may have items (`FinitelyStored`).

**RequestPathProofs**, for any requests, services, threshold, retries, timeout, TTL, switches and number
of upstream requests per `client.Do`:
`PathTypeOK`, `PathProbeBudget`, `PathStalenessBound`, `PathExecutionsBounded`, and
`PathImplementsBreaker`: every step is a step of `Breaker` or leaves it alone, so whatever
`BreakerProofs` says of its specification holds of the request path: `PathBreakerSound` and
`PathMovesEarned` say it in the path's own terms. `PathUsesTTLMap` is the other half of the
composition: all that the path does to the cache are `TTLMap`'s ticks and puts, so nothing it sees
depends on `ResponseCache` having a cleaner and a lock. `PathIInv` has four parts.
`CallInv` says of each request how often it was sent and executed (`Tried`) and how long ago
(`Timed`). `CacheInv` dates every entry and every body on its way by the instant the upstream
produced it. The third part is the invariant of `BreakerProofs` itself. `BudgetInv` is the one that
makes `ProbeBudget` inductive: what a half-open period has sent plus what its probes may still send is
at most its requests times `MostSends`, the attempts times the sends of each; the second summand is the
cardinality of a set of pairs (request, number of the upstream request), and each `Send` and each
`Resend` takes one pair out of it.

**RateLimiterProofs**, for any addresses, max and window, negative max included: `LimiterTypeOK`,
`LimiterBurstBound`, `LimiterRefusalEarned`. The invariant says how the requests let through fall
into windows: windows do not overlap (`Disjoint`), none has more than its quota (`WithinQuota`), its first
request is the one that opened it (`Opened`), and the entry in the map is the last of them
(`Current`). A request that comes 2 * quota - 1 places after another is therefore behind the whole
length of a window that began no earlier than that other one.

**WebSocketRelayProofs**, for sessions of any length: `RelayTypeOK`, `RelayDeliveredInOrder`,
`RelayErrorsHaveCause`. `RelayIInv` says where handler and forwarders can be (`Places`), what follows from
it for connections and errors (`Control`), and that each direction is a pipe: what was received, what
the forwarder or the handshake holds and what is queued are, one behind the other, the messages sent
(`Pipes`). The handover from the handshake to the forwarders is where the last is needed.

**LifecycleProofs**, for any requests and timeout: `LifecycleTypeOK`, `LifecycleCutAtDeadline`,
`LifecycleEarlySpansSettled`. `EarlyTaken` is what makes the last inductive: who was answered before the
shutdown met a processor that was running, so its span cannot have been dropped.

**HandlerChainProofs**, for any sequence of services that overlap in any way, any requests at the same
time, threshold, retries and switches: `ChainTypeOK`, `ChainServedByResponsible`, `ChainGuarded`,
`ChainSuccessMeansServed`, `ChainWorkAdds`, `ChainClosedByAnswer`, `ChainBreakerBalanced`, and
`ChainImplementsBreaker` with `ChainBreakerSound` and `ChainMovesEarned`. `IInv` says of each request
four things, and one of all of them:

* `Stacked`: the handlers that wait for their `c.Next()` were found at rising places of the chain, so
  a service waits once at most and its entry into the breaker is never doubled.
* `Placed`: who can be waiting. Only the logger, the metrics and services with a target that match the
  path, and these only when all the credentials were shown; a request that is no upgrade gets no
  further than the first of them.
* `Answered`: none of the routes that a request has passed would have answered it. It is what makes
  `ServedByResponsible` inductive, together with the fact that routes are tried in order also when a
  retry walks on, and `Guarded` rests on it: the checks of credentials precede every service.
* `Worked`: the calls of `Forward` are at most the cardinality of a set of pairs (service, attempt)
  that only grows, and the failures at most that of the services reached and left. `WorkAdds`
  follows, since both sets lie among the services that match. A service that was left counts with all
  its attempts, used or not, which is why this is a set and no sum.
* `Balanced`: the breaker's callers are the waiting `handleHTTP`s, but for the one that has not been
  let in yet. Each `Enter`, `Execute`, `Refuse` and `Leave` is by this a step of `Breaker`, whose
  invariant is then used as it stands.

**AliasedKeysProofs**, for any contexts and paths: `AliasQueriesAnswered`. That `None` is not a context
is a hypothesis of the theorem, as the module has no assumptions. The invariant ties an entry's body to
its key where the key has bytes of its own; keys that were overwritten, and where in the map an entry
is, are left open. The run `alias` is about the property that fails.

The assumptions are `BreakerAssumption`, `CacheAssumption`, `PathAssumption`,
`PathBreakerAssumption`, `ChainAssumption`, `ChainBreakerAssumption`, `LimiterAssumption`,
`LifecycleAssumption` and their like in the other
modules: ranges of constants, and values that stand for "nothing" being no values.

Only model-checked: everything about liveness (`QuotaFrees`, `ExpiredLeaves`, `FirstCloseReturns`,
`BreakerSpec` with its fairness, `EveryCallAnswered`, the relay's leads-to properties,
`WindowsLeave`, `SignalEnds`), which is out of the prover's reach. What the findings show
(`ForwardsToItsClient`, `AnswersItsPath`, `LoggedAsAnswered`) are counterexamples that TLC finds. Every
other property of a run is a theorem.

## 6. Not modelled

* `internal/resilience/timeout.go`: nothing calls it, so nothing says what a late result may do.
* `internal/middleware/security.go`: its handlers are never installed.
* Configuration: read once; its values are the modules' constants. Parsing is a library's.
* Logging, metrics and status helpers keep no state that another part reads. Of the tracing only
  what the shutdown depends on is in `Lifecycle`.
* Header, subprotocol and URL rewriting, prefix stripping, compression and the contents of messages
  are data that no property here tells apart.
* A write to a WebSocket peer that never ends. Isolation of services that share the breaker: one
  service's failures do open the circuit for all, and nothing in the repository says otherwise.
* Deployment files.
