----------------------------- MODULE RequestPath -----------------------------
(***************************************************************************)
(* The life of a proxied request: router.handleHTTP wraps the circuit      *)
(* breaker around the retrier around httpProxy.Forward.                    *)
(*                                                                         *)
(* Breaker is used as it is: entering and leaving Execute are its Admit    *)
(* and Report, and what it left open, the function in between, is here.    *)
(* The response cache is used through what it promises, TTLMap.            *)
(*                                                                         *)
(* A service has one cacheable resource, so a service is its cache key;    *)
(* the key is taken for a string of its own, as it is when the request     *)
(* has a query.  No path belongs to two services.                          *)
(* The body of a GET is known by the instant at which the upstream         *)
(* produced it; other bodies are never told apart.                         *)
(***************************************************************************)
EXTENDS Integers, FiniteSets

CONSTANTS
  Callers,               \* requests handled at the same time
  Services,              \* services with a target; one without answers 503
                         \* before the breaker and changes nothing
  EnableCircuitBreaker, EnableRetry, EnableCache,
  FailureThreshold, ResetTimeout, MaxRetries,
  ProxyTimeout,          \* http.Client.Timeout, in clock units; 0 is none
  MaxSends,              \* upstream requests that one client.Do makes, at most
  TTL,                   \* cfg.Proxy.CacheTTL, in clock units
  CounterMod, MaxTime,   \* as in Breaker
  Empty                  \* no answer, no item

(* The client follows redirects, up to ten requests, and its transport     *)
(* sends again what an idle connection has lost: GETs, and POSTs that      *)
(* carry an Idempotency-Key.  It gives no number for both together.        *)
ASSUME PathAssumption ==
  /\ EnableCircuitBreaker \in BOOLEAN
  /\ EnableRetry \in BOOLEAN
  /\ EnableCache \in BOOLEAN
  /\ MaxRetries \in Nat
  /\ ProxyTimeout \in Nat /\ MaxSends \in Nat \ {0}
  /\ TTL \in Nat \ {0}
  /\ Empty \notin [status : {200, 500}, body : Nat]

VARIABLES
  now, cb, inside, ticket, wrapped,   \* Breaker's
  live,                               \* TTLMap's
  call,         \* where each request is
  probeSends    \* history: upstream requests by the probes of this
                \* half-open period

B == INSTANCE Breaker

ASSUME PathBreakerAssumption == B!BreakerAssumption

Bodies     == 0 .. MaxTime
CacheItems == [value : Bodies, expiration : 1 .. MaxTime + TTL]

C == INSTANCE TTLMap WITH Keys <- Services, Items <- CacheItems, last <- Empty

breakerVars == <<now, cb, inside, ticket, wrapped>>

vars == <<now, cb, inside, ticket, wrapped, live, call, probeSends>>

(* "upgrade" is a request with Upgrade: websocket that is not a complete   *)
(* WebSocket handshake: the router lets it through to Forward.             *)
Kinds == {"GET", "POST", "upgrade"}

Idle ==
  [pc      |-> "idle",
   kind    |-> "GET",
   service |-> Empty,
   attempt |-> 0,         \* of the retrier, from 1
   sentAt  |-> 0,         \* when client.Do began
   sends   |-> 0,         \* the upstream requests it has made
   answer  |-> Empty,     \* the upstream's to the last, until it is received
   item    |-> Empty,     \* about to be cached
   ok      |-> FALSE,     \* what Forward returned
   runs    |-> 0,         \* history: times the upstream executed a POST
   late    |-> 0]         \* history: POSTs given up on, not yet executed

Attempts == IF EnableRetry THEN MaxRetries + 1 ELSE 1

(* What a request can cost the upstream.                                   *)
MostSends == Attempts * MaxSends

(* client.Do is behind it.                                                 *)
Over(r) == [r EXCEPT !.sentAt = 0, !.sends = 0, !.answer = Empty]

(* The upstream may still execute a POST that it has not answered.         *)
Abandoned(r) ==
  [r EXCEPT !.late = IF r.kind = "POST" /\ r.answer = Empty THEN @ + 1 ELSE @]

InTime(r) == ProxyTimeout = 0 \/ now <= r.sentAt + ProxyTimeout

(* Bug variants: one attempt too many, and attempts without end.           *)
AfterErrorOneMore(r) ==
  IF EnableRetry /\ r.attempt <= MaxRetries + 1
  THEN [Over(r) EXCEPT !.pc = "forward", !.attempt = @ + 1]
  ELSE [Over(r) EXCEPT !.pc = "returning", !.ok = FALSE]

AfterErrorForever(r) ==
  [Over(r) EXCEPT !.pc = "forward"]

(* Forward returned an error.  The retrier treats every error alike and    *)
(* has one backoff per retry; when they are used up the last error is      *)
(* returned.  The sleep is the time the request stays in "forward".        *)
AfterError(r) ==
  IF EnableRetry /\ r.attempt <= MaxRetries
  THEN [Over(r) EXCEPT !.pc = "forward", !.attempt = @ + 1]
  ELSE [Over(r) EXCEPT !.pc = "returning", !.ok = FALSE]

(* Forward relayed a response, whatever its status.                        *)
Relayed(r) ==
  [Over(r) EXCEPT !.pc = "returning", !.ok = TRUE, !.item = Empty]

IsProbe(c) ==
  cb.state = "half-open" /\ c \in inside /\ ticket[c] = cb.generation

NoteSends(n) ==
  probeSends' = IF cb'.generation # cb.generation THEN 0 ELSE probeSends + n

-----------------------------------------------------------------------------

Init ==
  /\ B!Init
  /\ C!Init
  /\ call = [c \in Callers |-> Idle]
  /\ probeSends = 0

(* handleHTTP up to the start of the breaker's function.                   *)
Enter(c, k, s) ==
  /\ call[c].pc = "idle"
  /\ IF EnableCircuitBreaker THEN B!Admit(c) ELSE UNCHANGED breakerVars
  /\ call' = [call EXCEPT ![c] =
       [Idle EXCEPT !.pc = "forward", !.kind = k, !.service = s, !.attempt = 1]]
  /\ NoteSends(0)
  /\ UNCHANGED live

(* The breaker does not let the request in.                                *)
Refuse(c) ==
  /\ call[c].pc = "idle"
  /\ EnableCircuitBreaker
  /\ B!RefuseOpen(c) \/ B!RefuseTooMany(c)
  /\ NoteSends(0)
  /\ UNCHANGED <<live, call>>

(* Forward calls c.Next(), no later handler matches: 404, an error.        *)
PassOn(c) ==
  /\ call[c].pc = "forward"
  /\ call[c].kind = "upgrade"
  /\ call' = [call EXCEPT ![c] = AfterError(@)]
  /\ UNCHANGED <<breakerVars, live, probeSends>>

Cached(c) == EnableCache /\ call[c].kind = "GET" /\ live[call[c].service] # Empty

Hit(c) ==
  /\ call[c].pc = "forward"
  /\ Cached(c)
  /\ call' = [call EXCEPT ![c] = Relayed(@)]
  /\ UNCHANGED <<breakerVars, live, probeSends>>

(* client.Do                                                               *)
Send(c) ==
  /\ call[c].pc = "forward"
  /\ call[c].kind # "upgrade"
  /\ ~Cached(c)
  /\ call' = [call EXCEPT ![c].pc = "sent", ![c].sentAt = now, ![c].sends = 1]
  /\ UNCHANGED <<breakerVars, live>>
  /\ NoteSends(IF IsProbe(c) THEN 1 ELSE 0)

(* External: net/http, in client.Do, asks again, as a redirect tells it to *)
(* or because the connection was lost.                                     *)
Resend(c) ==
  LET r == call[c] IN
  /\ r.pc = "sent" /\ r.sends < MaxSends /\ InTime(r)
  /\ r.answer # Empty => r.answer.status # 200
  /\ call' = [call EXCEPT ![c] =
       [Abandoned(r) EXCEPT !.sends = @ + 1, !.answer = Empty]]
  /\ UNCHANGED <<breakerVars, live>>
  /\ NoteSends(IF IsProbe(c) THEN 1 ELSE 0)

(* External: the upstream executes the request and answers, with a 200 or  *)
(* with anything else.                                                     *)
Serve(c, status) ==
  /\ call[c].pc = "sent"
  /\ call[c].answer = Empty
  /\ LET r == call[c] IN
     call' = [call EXCEPT ![c] = [r EXCEPT
       !.answer = [status |-> status,
                   body   |-> IF r.kind = "GET" THEN now ELSE 0],
       !.runs   = IF r.kind = "POST" THEN r.runs + 1 ELSE r.runs]]
  /\ UNCHANGED <<breakerVars, live, probeSends>>

(* External: it executes a request the gateway has stopped waiting for.    *)
ServeLate(c) ==
  /\ call[c].late > 0
  /\ call' = [call EXCEPT ![c].late = @ - 1, ![c].runs = @ + 1]
  /\ UNCHANGED <<breakerVars, live, probeSends>>

(* External: client.Do or io.ReadAll fails, there is no connection or it   *)
(* is lost for good.                                                       *)
Lose(c) ==
  /\ call[c].pc = "sent"
  /\ call' = [call EXCEPT ![c] = AfterError(Abandoned(@))]
  /\ UNCHANGED <<breakerVars, live, probeSends>>

(* Bug variant: the client of the proxy has no timeout.                    *)
NoTimeOut(c) == call[c].pc = "idle" /\ UNCHANGED vars

(* The client's timeout, for all that one client.Do asks and for reading   *)
(* the body.  When the clock has reached its bound it has passed too.      *)
TimeOut(c) ==
  /\ ProxyTimeout # 0
  /\ now >= call[c].sentAt + ProxyTimeout \/ now = MaxTime
  /\ Lose(c)

(* Bug variant: an answer counts however late it is.                       *)
ReceiveAnyTime(c) ==
  LET r == call[c] IN
  /\ r.pc = "sent"
  /\ r.answer # Empty
  /\ call' = [call EXCEPT ![c] =
       IF EnableCache /\ r.kind = "GET" /\ r.answer.status = 200
       THEN [Over(r) EXCEPT !.pc = "storing",
                            !.item = [value      |-> r.answer.body,
                                      expiration |-> now + TTL]]
       ELSE Relayed(r)]
  /\ UNCHANGED <<breakerVars, live, probeSends>>

(* The whole body arrives within the client's timeout.  For a GET answered *)
(* 200, cache.Set reads the clock here and takes its lock in Store; that   *)
(* the goroutine may be held up before it reads the clock is left out.     *)
Receive(c) ==
  LET r == call[c] IN
  /\ r.pc = "sent"
  /\ r.answer # Empty
  /\ InTime(r)
  /\ call' = [call EXCEPT ![c] =
       IF EnableCache /\ r.kind = "GET" /\ r.answer.status = 200
       THEN [Over(r) EXCEPT !.pc = "storing",
                            !.item = [value      |-> r.answer.body,
                                      expiration |-> now + TTL]]
       ELSE Relayed(r)]
  /\ UNCHANGED <<breakerVars, live, probeSends>>

Store(c) ==
  /\ call[c].pc = "storing"
  /\ C!Put(call[c].service, call[c].item)
  /\ call' = [call EXCEPT ![c] = Relayed(@)]
  /\ UNCHANGED <<cb, inside, ticket, wrapped, probeSends>>

(* The retrier has returned and with it the breaker's function.            *)
Return(c) ==
  /\ call[c].pc = "returning"
  /\ IF EnableCircuitBreaker
     THEN B!Report(c, call[c].ok) ELSE UNCHANGED breakerVars
  /\ call' = [call EXCEPT ![c] = Idle]
  /\ NoteSends(0)
  /\ UNCHANGED live

Tick ==
  /\ B!Tick
  /\ C!Tick
  /\ UNCHANGED <<call, probeSends>>

Gateway(c) ==
  PassOn(c) \/ Hit(c) \/ Send(c) \/ TimeOut(c) \/ Receive(c) \/ Store(c) \/ Return(c)

Next ==
  \/ \E c \in Callers, k \in Kinds, s \in Services : Enter(c, k, s)
  \/ \E c \in Callers :
       Refuse(c) \/ Gateway(c) \/ Resend(c) \/ ServeLate(c) \/ Lose(c)
  \/ \E c \in Callers, status \in {200, 500} : Serve(c, status)
  \/ Tick

Spec == Init /\ [][Next]_vars

(* A goroutine that can go on does, and time passes: waiting for the       *)
(* upstream ends because of the client's timeout.  Nothing is asked of     *)
(* clients, upstreams or the network.                                      *)
FairSpec == Spec /\ WF_vars(Tick) /\ \A c \in Callers : WF_vars(Gateway(c))

-----------------------------------------------------------------------------

(* Where a request can be and what it carries there.                       *)
TypeOK ==
  /\ B!TypeOK
  /\ live \in [Services -> CacheItems \cup {Empty}]
  /\ call \in [Callers ->
       [pc      : {"idle", "forward", "sent", "storing", "returning"},
        kind    : Kinds,
        service : Services \cup {Empty},
        attempt : 0 .. Attempts,
        sentAt  : 0 .. MaxTime,
        sends   : 0 .. MaxSends,
        answer  : [status : {200, 500}, body : Bodies] \cup {Empty},
        item    : CacheItems \cup {Empty},
        ok      : BOOLEAN,
        runs    : 0 .. MostSends,
        late    : 0 .. MostSends]]
  /\ probeSends \in Nat

(* The request path keeps the breaker's contract, its fairness included:   *)
(* whatever the upstream does, and however often the retrier tries again,  *)
(* every function the breaker lets in returns and is reported.             *)
BreakerSpec == B!FairSpec

(* What a recovering upstream gets to bear: the half-open quota, times the *)
(* attempts, since retries happen inside the breaker, times what the       *)
(* client makes of each, since redirects and replays happen inside it.     *)
ProbeBudget ==
  cb.state = "half-open" => probeSends <= B!MaxRequests * MostSends

(* A cached body was the upstream's current one at most a TTL and a client *)
(* timeout ago: the TTL runs from the end of the download, and between the *)
(* upstream's answer and the lock of the cache everything may be slow.  A  *)
(* client without a timeout would give no bound.                           *)
StalenessBound ==
  \A s \in Services :
    live[s] # Empty /\ ProxyTimeout # 0 => now <= live[s].value + ProxyTimeout + TTL

(* What the client of a POST may conclude.  A relayed answer means it was  *)
(* executed.  In no case is that once: it was, or still will be, executed  *)
(* at most as often as the attempts, each with its redirects and replays,  *)
(* have asked for it, since those that timed out may have been executed.   *)
ExecutionsBounded ==
  \A c \in Callers : call[c].kind = "POST" =>
    /\ call[c].runs + call[c].late <= MostSends
    /\ call[c].pc = "returning" /\ call[c].ok => call[c].runs >= 1

(* Every request is answered, also when the upstream never is.             *)
EveryCallAnswered ==
  \A c \in Callers : call[c].pc # "idle" ~> call[c].pc = "idle"
=============================================================================
