------------------------- MODULE HandlerChainProofs -------------------------
(***************************************************************************)
(* Safety of the chain of handlers, for any services in any order and      *)
(* overlapping in any way, any number of requests and retries, and with    *)
(* each feature on or off.                                                 *)
(***************************************************************************)
EXTENDS HandlerChain, FiniteSetTheorems, TLAPS

Names == {"logger", "jwt", "apikey", "prometheus", "/metrics", "/health", "ws", "http"}

Handlers == [name : Names, service : ServiceSet \cup {"none"}]

Endpoints == {"/health", "/metrics"}

(* Where a request is, and what it can hold.                               *)
Stages   == {"idle", "next", "execute", "forward", "return", "done"}
Depths   == 0 .. Len(Chain)
Stacks   == Seq(Handlers)
Tries    == [ServiceSet -> 0 .. Attempts]
Errors   == {0, 401, 404, 426, 500, 502, 503}
Statuses == {101, 200, 400, 401, 404, 426, 500, 502, 503}
Targets  == Paths \cup Endpoints
Keys     == SUBSET Credentials
Answers  == SUBSET (ServiceSet \cup Endpoints)

Calls ==
  [pc : Stages, path : Targets, kind : Kinds, creds : Keys, at : Depths,
   stack : Stacks, attempt : Tries, err : Errors, status : Statuses, logged : Nat,
   served : Answers, forwards : Nat, failures : Nat]

(* The handlers that wait were found at rising places of the chain.        *)
Stacked(r) ==
  /\ \A i \in 1 .. Len(r.stack) : \E k \in 1 .. r.at : Chain[k] = r.stack[i]
  /\ \A i, j \in 1 .. Len(r.stack) : i < j =>
       \E k, l \in 1 .. r.at :
         k < l /\ Chain[k] = r.stack[i] /\ Chain[l] = r.stack[j]

(* Who of them was let by: only services that were asked for, and only on  *)
(* requests that a service proxies.                                        *)
Waits(r, h) ==
  \/ h.name \in {"logger", "prometheus"}
  \/ /\ h.name = "http"
     /\ r.path \in Paths /\ h.service \in MatchedBy[r.path] \cap Targeted
     /\ r.kind # "handshake"
     /\ r.creds = Credentials
     /\ r.attempt[h.service] >= 1
     /\ r.kind = "plain" => FirstOf(MatchedBy[r.path]) = {h.service}

Placed(r) ==
  /\ r.path \notin Paths => r.kind = "plain"
  /\ \A i \in 1 .. Len(r.stack) : Waits(r, r.stack[i])
  /\ r.pc \in {"execute", "forward"} => r.stack # <<>> /\ Top(r).name = "http"
  /\ r.pc = "execute" => r.attempt[Top(r).service] = 1
  /\ r.pc \in {"idle", "done"} => r.stack = <<>>

(* What a request that goes on has behind it: the credentials it was asked *)
(* for, and no route that would have answered it.                          *)
Passed(r, h) ==
  /\ h.name \in {"jwt", "apikey"} => h.name \in r.creds
  /\ r.kind = "plain" /\ IsRoute(h, r.path) => h.name # "http"
  /\ r.kind = "handshake" /\ IsRoute(h, r.path) => h.name # "ws"

Answered(r) ==
  /\ r.pc = "next" => \A k \in 1 .. r.at : Passed(r, Chain[k])
  /\ r.served \subseteq Responsible(r)
  /\ r.served # {} \/ r.forwards > 0 => r.creds = Credentials
  /\ (r.pc = "return" /\ r.err = 0) \/ (r.pc = "done" /\ r.status < 400)
       => r.served # {} \/ r.path \in Endpoints

(***************************************************************************)
(* The work of a request, as sets: the services it has reached, those that *)
(* are still waiting for it, and the attempts that Forward was called for. *)
(***************************************************************************)
Reached(r) ==
  {s \in ServiceSet : /\ r.path \in Paths /\ s \in MatchedBy[r.path]
                      /\ \E k \in 1 .. r.at : Chain[k] = Handler("http", s)}

Waiters(r) ==
  {s \in ServiceSet : \E i \in 1 .. Len(r.stack) : r.stack[i] = Handler("http", s)}

(* The attempt that has not called Forward yet.                            *)
Pending(r, s, n) ==
  r.pc \in {"execute", "forward"} /\ s = Top(r).service /\ n = r.attempt[s]

Spent(r) ==
  {p \in Reached(r) \X (1 .. Attempts) :
     p[1] \in Waiters(r) => p[2] <= r.attempt[p[1]] /\ ~Pending(r, p[1], p[2])}

Worked(r) ==
  /\ r.forwards <= Cardinality(Spent(r))
  /\ r.failures <= Cardinality(Reached(r) \ Waiters(r))

Sound(r) == Stacked(r) /\ Placed(r) /\ Answered(r) /\ Worked(r)

(* The breaker's callers are the services that wait, but for the one that  *)
(* has not been let in yet.                                                *)
Inside(r) == {s \in Waiters(r) : ~(r.pc = "execute" /\ s = Top(r).service)}

Balanced ==
  inside = IF EnableCircuitBreaker
           THEN {p \in Requests \X ServiceSet : p[2] \in Inside(call[p[1]])} ELSE {}

(* What the cache has for a path came from who has to answer for it.       *)
Kept ==
  /\ cached \in [Paths -> SUBSET ServiceSet]
  /\ \A p \in Paths : cached[p] \subseteq FirstOf(MatchedBy[p]) \cap Targeted

IInv ==
  /\ call \in [Requests -> Calls]
  /\ \A c \in Requests : Sound(call[c])
  /\ Balanced
  /\ Kept

-----------------------------------------------------------------------------

(***************************************************************************)
(* The chain: the middleware and the endpoints, then two routes for each   *)
(* service.                                                                *)
(***************************************************************************)

Middleware ==
  Installed(TRUE, "logger")
    \o Installed(EnableJWT, "jwt") \o Installed(EnableAPIKey, "apikey")
    \o Installed(EnableMetrics, "prometheus") \o Installed(EnableMetrics, "/metrics")
    \o Installed(TRUE, "/health")

(* What the fields of a request are.                                       *)
LEMMA Typed ==
  ASSUME NEW r \in Calls
  PROVE  /\ r.pc \in {"idle", "next", "execute", "forward", "return", "done"}
         /\ r.path \in Paths \cup Endpoints /\ r.kind \in Kinds
         /\ r.creds \subseteq Credentials
         /\ r.at \in 0 .. Len(Chain) /\ r.at \in Int
         /\ r.stack \in Seq(Handlers)
         /\ r.attempt \in [ServiceSet -> 0 .. Attempts]
         /\ r.served \subseteq ServiceSet \cup Endpoints
         /\ r.forwards \in Nat /\ r.failures \in Nat
BY DEF Calls, Stages, Depths, Stacks, Tries, Targets, Keys, Answers

(* What the constants are.                                                 *)
LEMMA ConstantFacts ==
  /\ Len(Services) \in Nat /\ Services \in [1 .. Len(Services) -> ServiceSet]
  /\ \A s \in ServiceSet : \E a \in 1 .. Len(Services) : Services[a] = s
  /\ \A a, b \in 1 .. Len(Services) : Services[a] = Services[b] => a = b
  /\ Attempts \in Nat /\ Attempts >= 1
  /\ Paths \cap Endpoints = {}
  /\ \A p \in Paths : MatchedBy[p] \subseteq ServiceSet
<1>1. Services \in Seq(ServiceSet) /\ IsInjective(Services)
  BY ChainAssumption
<1>2. /\ Len(Services) \in Nat /\ Services \in [1 .. Len(Services) -> ServiceSet]
      /\ DOMAIN Services = 1 .. Len(Services)
  BY <1>1
<1>3. \A s \in ServiceSet : \E a \in 1 .. Len(Services) : Services[a] = s
  BY <1>2 DEF ServiceSet, ToSet
<1>4. \A a, b \in 1 .. Len(Services) : Services[a] = Services[b] => a = b
  BY <1>1, <1>2 DEF IsInjective
<1>5. Attempts \in Nat /\ Attempts >= 1
  BY ChainAssumption DEF Attempts
<1>6. Paths \cap Endpoints = {} /\ \A p \in Paths : MatchedBy[p] \subseteq ServiceSet
  BY ChainAssumption DEF Endpoints
<1> QED BY <1>2, <1>3, <1>4, <1>5, <1>6

(* The routes of the services, two by two.                                 *)
LEMMA ServiceHandlersFacts ==
  /\ ServiceHandlers \in Seq(Handlers)
  /\ Len(ServiceHandlers) = 2 * Len(Services)
  /\ \A a \in 1 .. Len(Services) :
       /\ 2 * a - 1 \in 1 .. 2 * Len(Services) /\ 2 * a \in 1 .. 2 * Len(Services)
       /\ ServiceHandlers[2 * a - 1] = Handler("ws", Services[a])
       /\ ServiceHandlers[2 * a] = Handler("http", Services[a])
  /\ \A i \in 1 .. 2 * Len(Services) : \E a \in 1 .. Len(Services) :
       i = 2 * a - 1 \/ i = 2 * a
<1>1. \A i \in 1 .. 2 * Len(Services) :
        /\ (i + 1) \div 2 \in 1 .. Len(Services)
        /\ i % 2 = 1 => i = 2 * ((i + 1) \div 2) - 1
        /\ i % 2 # 1 => i = 2 * ((i + 1) \div 2)
  BY ConstantFacts
<1>2. \A a \in 1 .. Len(Services) :
        /\ 2 * a - 1 \in 1 .. 2 * Len(Services) /\ 2 * a \in 1 .. 2 * Len(Services)
        /\ (2 * a - 1) % 2 = 1 /\ ((2 * a - 1) + 1) \div 2 = a
        /\ (2 * a) % 2 = 0 /\ (2 * a + 1) \div 2 = a
  BY ConstantFacts
<1>3. \A i \in 1 .. 2 * Len(Services) :
        Handler(IF i % 2 = 1 THEN "ws" ELSE "http", Services[(i + 1) \div 2]) \in Handlers
  BY <1>1, ConstantFacts DEF Handler, Handlers, Names
<1>4. 2 * Len(Services) \in Nat
  BY ConstantFacts
<1>5. ServiceHandlers \in Seq(Handlers) /\ Len(ServiceHandlers) = 2 * Len(Services)
  BY <1>3, <1>4 DEF ServiceHandlers
<1>6. \A a \in 1 .. Len(Services) :
        /\ ServiceHandlers[2 * a - 1] = Handler("ws", Services[a])
        /\ ServiceHandlers[2 * a] = Handler("http", Services[a])
  BY <1>2 DEF ServiceHandlers
<1> QED BY <1>1, <1>2, <1>5, <1>6

(* The middleware and the endpoints in their order, and which of them the  *)
(* configuration switches on.                                              *)
Layers == <<"logger", "jwt", "apikey", "prometheus", "/metrics", "/health">>

SwitchedOn(k) ==
  CASE k = 2 -> EnableJWT [] k = 3 -> EnableAPIKey [] k \in {4, 5} -> EnableMetrics
    [] OTHER -> TRUE

(* s is what is switched on of the first m layers, in their order.         *)
Layered(s, m) ==
  /\ s \in Seq(Handlers)
  /\ \A i \in 1 .. Len(s) : \E k \in 1 .. m : SwitchedOn(k) /\ s[i] = Handler(Layers[k], "none")
  /\ \A i, j \in 1 .. Len(s), k, l \in 1 .. m :
       s[i] = Handler(Layers[k], "none") /\ s[j] = Handler(Layers[l], "none") => (i < j <=> k < l)
  /\ \A k \in 1 .. m : SwitchedOn(k) => \E i \in 1 .. Len(s) : s[i] = Handler(Layers[k], "none")

(* The layers differ.                                                      *)
LEMMA LayersDiffer ==
  /\ \A k \in 1 .. 6 : Handler(Layers[k], "none") \in Handlers
  /\ \A k, l \in 1 .. 6 : Handler(Layers[k], "none") = Handler(Layers[l], "none") => k = l
<1>1. \A k \in 1 .. 6 : k = 1 \/ k = 2 \/ k = 3 \/ k = 4 \/ k = 5 \/ k = 6
  OBVIOUS
<1>2. \A k, l \in 1 .. 6 : Layers[k] = Layers[l] => k = l
  BY <1>1 DEF Layers
<1>3. \A k \in 1 .. 6 : Layers[k] \in Names
  BY <1>1 DEF Layers, Names
<1> QED BY <1>2, <1>3 DEF Handler, Handlers

(* One more layer.                                                         *)
LEMMA LayeredStep ==
  ASSUME NEW m \in 0 .. 5, NEW s, Layered(s, m),
         NEW h, h = Handler(Layers[m + 1], "none"),
         NEW t, IF SwitchedOn(m + 1) THEN t = s \o <<h>> ELSE t = s
  PROVE  Layered(t, m + 1)
<1>1. s \in Seq(Handlers) /\ Len(s) \in Nat
  BY DEF Layered
<1>2. \A k \in 1 .. m + 1 : k = m + 1 \/ k \in 1 .. m
  OBVIOUS
<1>3. \A k \in 1 .. m : k < m + 1 /\ k \in 1 .. 6 /\ k \in 1 .. m + 1
  OBVIOUS
<1>4. m + 1 \in 1 .. 6 /\ m + 1 \in 1 .. m + 1
  OBVIOUS
<1>5. h \in Handlers /\ \A k \in 1 .. m : h # Handler(Layers[k], "none")
  BY <1>3, <1>4, LayersDiffer
<1>6. CASE ~SwitchedOn(m + 1)
  <2>1. t = s
    BY <1>6
  <2>2. \A i \in 1 .. Len(s) : s[i] # h
    BY <1>5 DEF Layered
  <2> QED BY <1>1, <1>2, <1>3, <1>6, <2>1, <2>2 DEF Layered
<1>7. CASE SwitchedOn(m + 1)
  <2>1. t = s \o <<h>>
    BY <1>7
  <2>2. /\ t \in Seq(Handlers) /\ Len(t) = Len(s) + 1
        /\ \A i \in 1 .. Len(s) : t[i] = s[i]
        /\ t[Len(s) + 1] = h
    BY <1>1, <1>5, <2>1
  <2>3. \A i \in 1 .. Len(t) : i = Len(s) + 1 \/ i \in 1 .. Len(s)
    BY <1>1, <2>2
  <2>4. \A i \in 1 .. Len(s) : t[i] # h /\ i < Len(s) + 1 /\ i \in 1 .. Len(t)
    BY <1>1, <1>5, <2>2 DEF Layered
  <2>5. \A i \in 1 .. Len(t) : \E k \in 1 .. m + 1 :
          SwitchedOn(k) /\ t[i] = Handler(Layers[k], "none")
    BY <1>3, <1>4, <1>7, <2>2, <2>3 DEF Layered
  <2>6. \A k \in 1 .. m + 1 : SwitchedOn(k) =>
          \E i \in 1 .. Len(t) : t[i] = Handler(Layers[k], "none")
    <3> SUFFICES ASSUME NEW k \in 1 .. m + 1, SwitchedOn(k)
                 PROVE  \E i \in 1 .. Len(t) : t[i] = Handler(Layers[k], "none")
      OBVIOUS
    <3>1. CASE k = m + 1
      <4>1. Len(s) + 1 \in 1 .. Len(t)
        BY <1>1, <2>2
      <4> QED BY <2>2, <3>1, <4>1
    <3>2. CASE k \in 1 .. m
      BY <2>2, <2>4, <3>2 DEF Layered
    <3> QED BY <1>2, <3>1, <3>2
  <2>7. ASSUME NEW i \in 1 .. Len(t), NEW j \in 1 .. Len(t),
               NEW k \in 1 .. m + 1, NEW l \in 1 .. m + 1,
               t[i] = Handler(Layers[k], "none"), t[j] = Handler(Layers[l], "none")
        PROVE  i < j <=> k < l
    <3>1. k \in 1 .. 6 /\ l \in 1 .. 6
      OBVIOUS
    <3>2. k = m + 1 <=> i = Len(s) + 1
      BY <1>4, <2>2, <2>3, <2>4, <2>7, <3>1, LayersDiffer
    <3>3. l = m + 1 <=> j = Len(s) + 1
      BY <1>4, <2>2, <2>3, <2>4, <2>7, <3>1, LayersDiffer
    <3>4. CASE i \in 1 .. Len(s) /\ j \in 1 .. Len(s)
      <4>1. k \in 1 .. m /\ l \in 1 .. m
        BY <1>1, <1>2, <2>4, <3>2, <3>3, <3>4
      <4>2. s[i] = Handler(Layers[k], "none") /\ s[j] = Handler(Layers[l], "none")
        BY <2>2, <2>7, <3>4
      <4> QED BY <3>4, <4>1, <4>2 DEF Layered
    <3>5. CASE i = Len(s) + 1 \/ j = Len(s) + 1
      BY <1>1, <1>2, <2>2, <2>3, <3>2, <3>3, <3>5
    <3> QED BY <2>3, <3>4, <3>5
  <2> QED BY <2>2, <2>5, <2>6, <2>7 DEF Layered
<1> QED BY <1>6, <1>7

(* The middleware, whatever of it is installed.                            *)
LEMMA MiddlewareLayered == Layered(Middleware, 6)
<1> DEFINE s1 == Installed(TRUE, "logger")
           s2 == s1 \o Installed(EnableJWT, "jwt")
           s3 == s2 \o Installed(EnableAPIKey, "apikey")
           s4 == s3 \o Installed(EnableMetrics, "prometheus")
           s5 == s4 \o Installed(EnableMetrics, "/metrics")
           s6 == s5 \o Installed(TRUE, "/health")
<1>1. /\ SwitchedOn(1) /\ (SwitchedOn(2) <=> EnableJWT) /\ (SwitchedOn(3) <=> EnableAPIKey)
      /\ (SwitchedOn(4) <=> EnableMetrics) /\ (SwitchedOn(5) <=> EnableMetrics)
      /\ SwitchedOn(6)
  BY ChainAssumption DEF SwitchedOn
<1>2. /\ Layers[1] = "logger" /\ Layers[2] = "jwt" /\ Layers[3] = "apikey"
      /\ Layers[4] = "prometheus" /\ Layers[5] = "/metrics" /\ Layers[6] = "/health"
  BY DEF Layers
<1>3. ASSUME NEW s \in Seq(Handlers), NEW on \in BOOLEAN, NEW n, NEW h, h = Handler(n, "none")
      PROVE  IF on THEN s \o Installed(on, n) = s \o <<h>> ELSE s \o Installed(on, n) = s
  <2>1. CASE on
    BY <1>3, <2>1, Zenon DEF Installed
  <2>2. CASE ~on
    <3>1. Installed(on, n) = <<>>
      BY <2>2, Zenon DEF Installed
    <3>2. s \o <<>> = s
      OBVIOUS
    <3> QED BY <2>2, <3>1, <3>2, Zenon
  <2> QED BY <2>1, <2>2
<1>4. ASSUME NEW m \in 0 .. 5, NEW s, Layered(s, m), NEW on \in BOOLEAN,
             on <=> SwitchedOn(m + 1)
      PROVE  Layered(s \o Installed(on, Layers[m + 1]), m + 1)
  <2> DEFINE h == Handler(Layers[m + 1], "none")
             t == s \o Installed(on, Layers[m + 1])
  <2>1. s \in Seq(Handlers)
    BY <1>4, Zenon DEF Layered
  <2>2. IF on THEN t = s \o <<h>> ELSE t = s
    BY <1>3, <2>1, Zenon
  <2>3. IF SwitchedOn(m + 1) THEN t = s \o <<h>> ELSE t = s
    BY <1>4, <2>2, Zenon
  <2> QED BY <1>4, <2>3, LayeredStep, Zenon
<1>5. EnableJWT \in BOOLEAN /\ EnableAPIKey \in BOOLEAN /\ EnableMetrics \in BOOLEAN
  BY ChainAssumption
<1>6. 0 \in 0 .. 5 /\ 0 + 1 = 1 /\ 1 \in 0 .. 5 /\ 1 + 1 = 2 /\ 2 \in 0 .. 5 /\ 2 + 1 = 3
      /\ 3 \in 0 .. 5 /\ 3 + 1 = 4 /\ 4 \in 0 .. 5 /\ 4 + 1 = 5 /\ 5 \in 0 .. 5 /\ 5 + 1 = 6
  OBVIOUS
<1>7. Layered(s1, 1)
  <2>1. Layered(<<>>, 0)
    BY DEF Layered
  <2>2. s1 = <<Handler("logger", "none")>>
    BY Zenon DEF Installed
  <2>3. Handler("logger", "none") \in Handlers
    BY DEF Handler, Handlers, Names
  <2>4. ASSUME NEW h \in Handlers PROVE <<h>> = <<>> \o <<h>>
    OBVIOUS
  <2>5. IF SwitchedOn(0 + 1) THEN s1 = <<>> \o <<Handler("logger", "none")>> ELSE s1 = <<>>
    BY <1>1, <1>6, <2>2, <2>3, <2>4, Zenon
  <2>6. Layered(s1, 0 + 1)
    <3> HIDE DEF s1
    <3> QED BY <1>2, <1>6, <2>1, <2>5, LayeredStep, Zenon
  <2> QED BY <1>6, <2>6, Zenon
<1>8. Layered(s2, 2)
  BY <1>1, <1>2, <1>4, <1>5, <1>6, <1>7, Zenon
<1>9. Layered(s3, 3)
  BY <1>1, <1>2, <1>4, <1>5, <1>6, <1>8, Zenon
<1>10. Layered(s4, 4)
  BY <1>1, <1>2, <1>4, <1>5, <1>6, <1>9, Zenon
<1>11. Layered(s5, 5)
  BY <1>1, <1>2, <1>4, <1>5, <1>6, <1>10, Zenon
<1>12. Layered(s6, 6)
  BY <1>1, <1>2, <1>4, <1>5, <1>6, <1>11, Zenon
<1> QED BY <1>12 DEF Middleware

(* What of it the routes behind it rely on.                                *)
LEMMA MiddlewareFacts ==
  /\ Middleware \in Seq(Handlers) /\ Len(Middleware) \in Nat
  /\ \A i \in 1 .. Len(Middleware) :
       /\ Middleware[i].name \notin {"ws", "http"}
       /\ Middleware[i].name = "/metrics" => EnableMetrics
       /\ Middleware[i].name \in {"jwt", "apikey"} => Middleware[i].name \in Credentials
       /\ Middleware[i].name \in Endpoints =>
            \A n \in Credentials : \E k \in 1 .. i - 1 : Middleware[k].name = n
  /\ \A i, j \in 1 .. Len(Middleware) : Middleware[i] = Middleware[j] => i = j
  /\ \A n \in Credentials : \E k \in 1 .. Len(Middleware) : Middleware[k].name = n
<1>1. Middleware \in Seq(Handlers) /\ Len(Middleware) \in Nat
  BY MiddlewareLayered DEF Layered
<1>2. \A k \in 1 .. 6 :
        /\ Layers[k] \notin {"ws", "http"}
        /\ Layers[k] = "/metrics" => k = 5
        /\ (Layers[k] = "jwt" => k = 2) /\ (Layers[k] = "apikey" => k = 3)
        /\ Layers[k] \in Endpoints => k >= 5
  <2>1. \A k \in 1 .. 6 : k = 1 \/ k = 2 \/ k = 3 \/ k = 4 \/ k = 5 \/ k = 6
    OBVIOUS
  <2> QED BY <2>1 DEF Layers, Endpoints
<1>3. ASSUME NEW n \in Credentials
      PROVE  \E k \in {2, 3} : SwitchedOn(k) /\ Layers[k] = n
  <2>1. \/ EnableJWT /\ n = "jwt"
        \/ EnableAPIKey /\ n = "apikey"
    BY DEF Credentials
  <2>2. (EnableJWT => SwitchedOn(2)) /\ (EnableAPIKey => SwitchedOn(3))
    BY DEF SwitchedOn
  <2>3. Layers[2] = "jwt" /\ Layers[3] = "apikey"
    BY DEF Layers
  <2> QED BY <2>1, <2>2, <2>3
<1>4. ASSUME NEW n \in Credentials
      PROVE  \E k \in 1 .. Len(Middleware) : \E l \in {2, 3} :
               Middleware[k] = Handler(Layers[l], "none") /\ Middleware[k].name = n
  <2>1. PICK l \in {2, 3} : SwitchedOn(l) /\ Layers[l] = n
    BY <1>3
  <2>2. l \in 1 .. 6
    OBVIOUS
  <2>3. PICK k \in 1 .. Len(Middleware) : Middleware[k] = Handler(Layers[l], "none")
    BY <2>1, <2>2, MiddlewareLayered DEF Layered
  <2> QED BY <2>1, <2>3 DEF Handler
<1>5. ASSUME NEW i \in 1 .. Len(Middleware)
      PROVE  /\ Middleware[i].name \notin {"ws", "http"}
             /\ Middleware[i].name = "/metrics" => EnableMetrics
             /\ Middleware[i].name \in {"jwt", "apikey"} =>
                  Middleware[i].name \in Credentials
             /\ Middleware[i].name \in Endpoints =>
                  \A n \in Credentials : \E k \in 1 .. i - 1 : Middleware[k].name = n
  <2>1. PICK k \in 1 .. 6 : SwitchedOn(k) /\ Middleware[i] = Handler(Layers[k], "none")
    BY MiddlewareLayered DEF Layered
  <2>2. Middleware[i].name = Layers[k]
    BY <2>1 DEF Handler
  <2>3. (k = 5 => EnableMetrics) /\ (k = 2 => EnableJWT) /\ (k = 3 => EnableAPIKey)
    BY <2>1 DEF SwitchedOn
  <2>5. Layers[k] \in {"jwt", "apikey"} => Layers[k] \in Credentials
    BY <1>2, <2>3 DEF Credentials
  <2>4. ASSUME NEW n \in Credentials, k >= 5
        PROVE  \E j \in 1 .. i - 1 : Middleware[j].name = n
    <3>1. PICK j \in 1 .. Len(Middleware), l \in {2, 3} :
            Middleware[j] = Handler(Layers[l], "none") /\ Middleware[j].name = n
      BY <1>4
    <3>2. l \in 1 .. 6 /\ l < k
      BY <2>4
    <3>3. j < i
      BY <2>1, <3>1, <3>2, MiddlewareLayered DEF Layered
    <3> QED BY <1>1, <3>1, <3>3
  <2> QED BY <1>2, <2>2, <2>3, <2>4, <2>5
<1>6. ASSUME NEW i \in 1 .. Len(Middleware), NEW j \in 1 .. Len(Middleware),
             Middleware[i] = Middleware[j]
      PROVE  i = j
  <2>1. PICK k \in 1 .. 6 : Middleware[i] = Handler(Layers[k], "none")
    BY MiddlewareLayered DEF Layered
  <2>2. (i < j <=> k < k) /\ (j < i <=> k < k)
    BY <1>6, <2>1, MiddlewareLayered DEF Layered
  <2>3. ~(i < j) /\ ~(j < i)
    BY <2>2
  <2> QED BY <1>1, <2>3
<1> QED BY <1>1, <1>4, <1>5, <1>6

(* Where the routes of the services are: behind the middleware.            *)
LEMMA ChainPlaces ==
  /\ Chain \in Seq(Handlers)
  /\ Len(Chain) = Len(Middleware) + 2 * Len(Services)
  /\ \A i \in 1 .. Len(Middleware) : Chain[i] = Middleware[i]
  /\ \A a \in 1 .. Len(Services) :
       /\ Chain[Len(Middleware) + 2 * a - 1] = Handler("ws", Services[a])
       /\ Chain[Len(Middleware) + 2 * a] = Handler("http", Services[a])
  /\ \A i \in 1 .. Len(Chain) :
       \/ i \in 1 .. Len(Middleware)
       \/ \E a \in 1 .. Len(Services) : i = Len(Middleware) + 2 * a - 1
                                        \/ i = Len(Middleware) + 2 * a
<1>1. Chain = Middleware \o ServiceHandlers
  BY Zenon DEF Chain, Middleware
<1>2. /\ Middleware \in Seq(Handlers) /\ ServiceHandlers \in Seq(Handlers)
      /\ Len(Middleware) \in Nat /\ Len(ServiceHandlers) = 2 * Len(Services)
      /\ Len(Services) \in Nat
  BY MiddlewareFacts, ServiceHandlersFacts, ConstantFacts
<1>a. ASSUME NEW s \in Seq(Handlers), NEW t \in Seq(Handlers)
      PROVE  /\ s \o t \in Seq(Handlers) /\ Len(s \o t) = Len(s) + Len(t)
             /\ \A i \in 1 .. Len(s) : (s \o t)[i] = s[i]
             /\ \A i \in 1 .. Len(t) : (s \o t)[Len(s) + i] = t[i]
  OBVIOUS
<1>3. /\ Chain \in Seq(Handlers) /\ Len(Chain) = Len(Middleware) + 2 * Len(Services)
      /\ \A i \in 1 .. Len(Middleware) : Chain[i] = Middleware[i]
      /\ \A i \in 1 .. 2 * Len(Services) : Chain[Len(Middleware) + i] = ServiceHandlers[i]
  <2>1. /\ Chain \in Seq(Handlers)
        /\ Len(Chain) = Len(Middleware) + Len(ServiceHandlers)
        /\ \A i \in 1 .. Len(Middleware) : Chain[i] = Middleware[i]
        /\ \A i \in 1 .. Len(ServiceHandlers) :
             Chain[Len(Middleware) + i] = ServiceHandlers[i]
    BY <1>1, <1>2, <1>a, Zenon
  <2> QED BY <1>2, <2>1, Zenon
<1>4. ASSUME NEW a \in 1 .. Len(Services)
      PROVE  /\ Chain[Len(Middleware) + 2 * a - 1] = Handler("ws", Services[a])
             /\ Chain[Len(Middleware) + 2 * a] = Handler("http", Services[a])
  <2>1. Len(Middleware) + (2 * a - 1) = Len(Middleware) + 2 * a - 1
    BY <1>2
  <2> QED BY <1>3, <2>1, ServiceHandlersFacts
<1>5. ASSUME NEW i \in 1 .. Len(Chain), i \notin 1 .. Len(Middleware)
      PROVE  \E a \in 1 .. Len(Services) : i = Len(Middleware) + 2 * a - 1
                                           \/ i = Len(Middleware) + 2 * a
  <2>1. i - Len(Middleware) \in 1 .. 2 * Len(Services)
    BY <1>2, <1>3, <1>5
  <2>2. PICK a \in 1 .. Len(Services) :
          i - Len(Middleware) = 2 * a - 1 \/ i - Len(Middleware) = 2 * a
    BY <2>1, ServiceHandlersFacts
  <2> QED BY <1>2, <2>2
<1> QED BY <1>3, <1>4, <1>5

(* What the proofs below know of the chain: no handler is there twice, the *)
(* credentials are asked for before anything answers, and the services     *)
(* have their routes in the configuration's order.                         *)
LEMMA ChainFacts ==
  /\ Len(Chain) \in Nat
  /\ \A i \in 1 .. Len(Chain) :
       /\ Chain[i] \in Handlers
       /\ Chain[i].name = "/metrics" => EnableMetrics
       /\ Chain[i].name \in {"jwt", "apikey"} => Chain[i].name \in Credentials
       /\ Chain[i].name \in Endpoints \cup {"ws", "http"} =>
            \A n \in Credentials : \E k \in 1 .. i - 1 : Chain[k].name = n
       /\ Chain[i].name \in {"ws", "http"} =>
            \E a \in 1 .. Len(Services) : Chain[i] = Handler(Chain[i].name, Services[a])
  /\ \A i, j \in 1 .. Len(Chain) : Chain[i] = Chain[j] => i = j
  /\ \A n \in {"ws", "http"}, a \in 1 .. Len(Services) :
       \E i \in 1 .. Len(Chain) : Chain[i] = Handler(n, Services[a])
  /\ \A n \in {"ws", "http"}, a, b \in 1 .. Len(Services), i, j \in 1 .. Len(Chain) :
       Chain[i] = Handler(n, Services[a]) /\ Chain[j] = Handler(n, Services[b]) /\ a < b
         => i < j
<1> DEFINE M == Len(Middleware)
           S == Len(Services)
<1>1. M \in Nat /\ S \in Nat /\ Len(Chain) \in Nat /\ Len(Chain) = M + 2 * S
  BY MiddlewareFacts, ConstantFacts, ChainPlaces
<1>2. \A n, m, s, t : Handler(n, s) = Handler(m, t) => n = m /\ s = t
  BY DEF Handler
<1>3. \A n, s : Handler(n, s).name = n /\ Handler(n, s).service = s
  BY DEF Handler
<1>4. \A i \in 1 .. Len(Chain) : Chain[i] \in Handlers
  BY ChainPlaces
<1>5. \A a \in 1 .. S : M + 2 * a - 1 \in 1 .. Len(Chain) /\ M + 2 * a \in 1 .. Len(Chain)
  BY <1>1
<1>6. ASSUME NEW i \in 1 .. Len(Chain), Chain[i].name \in {"ws", "http"}
      PROVE  \E a \in 1 .. S : /\ Chain[i] = Handler(Chain[i].name, Services[a])
                               /\ i = IF Chain[i].name = "ws" THEN M + 2 * a - 1
                                      ELSE M + 2 * a
  <2>1. i \notin 1 .. M
    BY <1>6, MiddlewareFacts, ChainPlaces
  <2>2. PICK a \in 1 .. S : i = M + 2 * a - 1 \/ i = M + 2 * a
    BY <2>1, ChainPlaces
  <2>3. CASE i = M + 2 * a - 1
    BY <1>3, <2>3, ChainPlaces
  <2>4. CASE i = M + 2 * a
    BY <1>3, <2>4, ChainPlaces
  <2> QED BY <2>2, <2>3, <2>4
<1>7. ASSUME NEW i \in 1 .. Len(Chain), Chain[i].name \notin {"ws", "http"}
      PROVE  i \in 1 .. M /\ Chain[i] = Middleware[i]
  <2>1. ASSUME NEW a \in 1 .. S PROVE i # M + 2 * a - 1 /\ i # M + 2 * a
    <3>1. /\ Chain[M + 2 * a - 1] = Handler("ws", Services[a])
          /\ Chain[M + 2 * a] = Handler("http", Services[a])
      BY ChainPlaces
    <3>2. Chain[M + 2 * a - 1].name = "ws" /\ Chain[M + 2 * a].name = "http"
      BY <1>3, <3>1, Zenon
    <3> QED BY <1>7, <3>2
  <2> QED BY <2>1, ChainPlaces
<1>8. ASSUME NEW i \in 1 .. Len(Chain), Chain[i].name \in Endpoints \cup {"ws", "http"},
             NEW n \in Credentials
      PROVE  \E k \in 1 .. i - 1 : Chain[k].name = n
  <2>1. CASE Chain[i].name \in {"ws", "http"}
    <3>1. i > M
      BY <1>1, <1>6, <2>1
    <3>2. PICK k \in 1 .. M : Middleware[k].name = n
      BY MiddlewareFacts
    <3>3. Chain[k] = Middleware[k]
      BY <3>2, ChainPlaces
    <3>4. k \in 1 .. i - 1
      BY <1>1, <3>1
    <3> QED BY <3>2, <3>3, <3>4
  <2>2. CASE Chain[i].name \notin {"ws", "http"}
    <3>1. i \in 1 .. M /\ Chain[i] = Middleware[i] /\ Middleware[i].name \in Endpoints
      BY <1>7, <1>8, <2>2
    <3>2. PICK k \in 1 .. i - 1 : Middleware[k].name = n
      BY <3>1, MiddlewareFacts
    <3>3. k \in 1 .. M
      BY <1>1, <3>1
    <3> QED BY <3>2, <3>3, ChainPlaces
  <2> QED BY <2>1, <2>2
<1>9. ASSUME NEW i \in 1 .. Len(Chain), NEW j \in 1 .. Len(Chain), Chain[i] = Chain[j]
      PROVE  i = j
  <2>1. CASE Chain[i].name \in {"ws", "http"}
    <3>1. PICK a \in 1 .. S : /\ Chain[i] = Handler(Chain[i].name, Services[a])
                              /\ i = IF Chain[i].name = "ws" THEN M + 2 * a - 1
                                     ELSE M + 2 * a
      BY <1>6, <2>1
    <3>2. PICK b \in 1 .. S : /\ Chain[j] = Handler(Chain[j].name, Services[b])
                              /\ j = IF Chain[j].name = "ws" THEN M + 2 * b - 1
                                     ELSE M + 2 * b
      BY <1>6, <1>9, <2>1
    <3>3. Services[a] = Services[b]
      BY <1>2, <1>9, <3>1, <3>2
    <3>4. a = b
      BY <3>3, ConstantFacts
    <3> QED BY <1>9, <3>1, <3>2, <3>4
  <2>2. CASE Chain[i].name \notin {"ws", "http"}
    BY <1>7, <1>9, <2>2, MiddlewareFacts
  <2> QED BY <2>1, <2>2
<1>10. \A n \in {"ws", "http"}, a \in 1 .. S :
         \E i \in 1 .. Len(Chain) : Chain[i] = Handler(n, Services[a])
  BY <1>5, ChainPlaces
<1>11. ASSUME NEW n \in {"ws", "http"}, NEW a \in 1 .. S, NEW b \in 1 .. S,
              NEW i \in 1 .. Len(Chain), NEW j \in 1 .. Len(Chain),
              Chain[i] = Handler(n, Services[a]), Chain[j] = Handler(n, Services[b]), a < b
       PROVE  i < j
  <2>1. CASE n = "ws"
    <3>1. Chain[i] = Chain[M + 2 * a - 1] /\ Chain[j] = Chain[M + 2 * b - 1]
      BY <1>11, <2>1, ChainPlaces, Zenon
    <3>2. i = M + 2 * a - 1 /\ j = M + 2 * b - 1
      BY <1>5, <1>9, <3>1, Zenon
    <3> QED BY <1>1, <1>11, <3>2
  <2>2. CASE n = "http"
    <3>1. Chain[i] = Chain[M + 2 * a] /\ Chain[j] = Chain[M + 2 * b]
      BY <1>11, <2>2, ChainPlaces, Zenon
    <3>2. i = M + 2 * a /\ j = M + 2 * b
      BY <1>5, <1>9, <3>1, Zenon
    <3> QED BY <1>1, <1>11, <3>2
  <2> QED BY <2>1, <2>2
<1>12. \A i \in 1 .. Len(Chain) :
         /\ Chain[i].name = "/metrics" => EnableMetrics
         /\ Chain[i].name \in {"jwt", "apikey"} => Chain[i].name \in Credentials
  BY <1>7, MiddlewareFacts
<1> QED BY <1>1, <1>4, <1>6, <1>8, <1>9, <1>10, <1>11, <1>12

-----------------------------------------------------------------------------
(***************************************************************************)
(* One request: what moving along the chain, pushing and popping do to     *)
(* what is counted about it.                                               *)
(***************************************************************************)

(* There are finitely many services, for a path too.                       *)
LEMMA ServicesFinite ==
  /\ IsFiniteSet(ServiceSet)
  /\ \A p \in Paths : Cardinality(MatchedBy[p]) \in Nat
<1>1. IsFiniteSet(ServiceSet)
  <2>1. Services \in Surjection(1 .. Len(Services), ServiceSet)
    BY ConstantFacts DEF Surjection
  <2>2. IsFiniteSet(1 .. Len(Services))
    BY ConstantFacts, FS_Interval
  <2> QED BY <2>1, <2>2, FS_Surjection
<1>2. \A p \in Paths : MatchedBy[p] \subseteq ServiceSet
  BY ConstantFacts
<1> QED BY <1>1, <1>2, FS_Subset, FS_CardinalityType

(* There are finitely many services, and so of all that is counted.        *)
LEMMA Countable ==
  ASSUME NEW r \in Calls
  PROVE  /\ IsFiniteSet(Spent(r)) /\ Cardinality(Spent(r)) \in Nat
         /\ IsFiniteSet(Reached(r) \ Waiters(r))
         /\ Cardinality(Reached(r) \ Waiters(r)) \in Nat
<1>1. IsFiniteSet(ServiceSet)
  BY ServicesFinite
<1>2. IsFiniteSet(ServiceSet \X (1 .. Attempts))
  <2>1. IsFiniteSet(1 .. Attempts)
    BY ConstantFacts, FS_Interval
  <2> QED BY <1>1, <2>1, FS_Product
<1>3. /\ Spent(r) \subseteq ServiceSet \X (1 .. Attempts)
      /\ Reached(r) \ Waiters(r) \subseteq ServiceSet
  BY DEF Spent, Reached
<1> QED BY <1>1, <1>2, <1>3, FS_Subset, FS_CardinalityType

(* And no more than the configuration has services for the path.           *)
LEMMA Bounded ==
  ASSUME NEW r \in Calls,
         NEW n, n = IF r.path \in Paths THEN Cardinality(MatchedBy[r.path]) ELSE 0
  PROVE  /\ Cardinality(Spent(r)) <= n * Attempts
         /\ Cardinality(Reached(r) \ Waiters(r)) <= n
<1>1. IsFiniteSet(ServiceSet)
  BY ServicesFinite
<1>2. Attempts \in Nat /\ IsFiniteSet(1 .. Attempts) /\ Cardinality(1 .. Attempts) = Attempts
  BY ConstantFacts, FS_Interval
<1>3. CASE r.path \in Paths
  <2> DEFINE m == MatchedBy[r.path]
  <2>1. IsFiniteSet(m) /\ Cardinality(m) \in Nat
    BY <1>1, <1>3, ConstantFacts, FS_Subset, FS_CardinalityType
  <2>2. /\ IsFiniteSet(m \X (1 .. Attempts))
        /\ Cardinality(m \X (1 .. Attempts)) = Cardinality(m) * Attempts
    BY <1>2, <2>1, FS_Product
  <2>3. Spent(r) \subseteq m \X (1 .. Attempts) /\ Reached(r) \ Waiters(r) \subseteq m
    BY <1>3 DEF Spent, Reached
  <2>4. /\ Cardinality(Spent(r)) <= Cardinality(m \X (1 .. Attempts))
        /\ Cardinality(Reached(r) \ Waiters(r)) <= Cardinality(m)
    BY <2>1, <2>2, <2>3, FS_Subset
  <2> QED BY <1>3, <2>2, <2>4
<1>4. CASE r.path \notin Paths
  <2>1. Spent(r) = {} /\ Reached(r) \ Waiters(r) = {}
    BY <1>4 DEF Spent, Reached
  <2>2. n = 0 /\ n * Attempts = 0
    BY <1>2, <1>4
  <2> QED BY <2>1, <2>2, FS_EmptySet
<1> QED BY <1>3, <1>4

(* A larger set has no fewer elements, and one that is new makes one more. *)
LEMMA OneMore ==
  ASSUME NEW S, NEW T, IsFiniteSet(T), S \subseteq T
  PROVE  /\ Cardinality(S) \in Nat /\ Cardinality(T) \in Nat
         /\ Cardinality(S) <= Cardinality(T)
         /\ \A x \in T \ S : Cardinality(S) + 1 <= Cardinality(T)
<1>1. IsFiniteSet(S) /\ Cardinality(S) \in Nat /\ Cardinality(T) \in Nat
      /\ Cardinality(S) <= Cardinality(T)
  BY FS_Subset, FS_CardinalityType
<1>2. ASSUME NEW x \in T \ S PROVE Cardinality(S) + 1 <= Cardinality(T)
  <2>1. IsFiniteSet(S \cup {x}) /\ Cardinality(S \cup {x}) = Cardinality(S) + 1
    BY <1>1, <1>2, FS_AddElement
  <2>2. S \cup {x} \subseteq T
    BY <1>2
  <2> QED BY <2>1, <2>2, FS_Subset
<1> QED BY <1>1, <1>2

(* The work that is counted, when what counts it only grows.               *)
LEMMA WorkedGrows ==
  ASSUME NEW r \in Calls, NEW q \in Calls, Worked(r),
         Spent(r) \subseteq Spent(q),
         Reached(r) \ Waiters(r) \subseteq Reached(q) \ Waiters(q),
         \/ q.forwards = r.forwards
         \/ /\ q.forwards = r.forwards + 1
            /\ \E p \in Spent(q) : p \notin Spent(r),
         \/ q.failures = r.failures
         \/ /\ q.failures = r.failures + 1
            /\ \E s \in Reached(q) \ Waiters(q) : s \notin Reached(r) \ Waiters(r)
  PROVE  Worked(q)
<1>1. r.forwards \in Nat /\ r.failures \in Nat
  BY Typed
<1>2. /\ Cardinality(Spent(r)) \in Nat /\ Cardinality(Spent(q)) \in Nat
      /\ Cardinality(Spent(r)) <= Cardinality(Spent(q))
      /\ \A x \in Spent(q) \ Spent(r) : Cardinality(Spent(r)) + 1 <= Cardinality(Spent(q))
  BY Countable, OneMore
<1>3. q.forwards <= Cardinality(Spent(q))
  BY <1>1, <1>2 DEF Worked
<1> DEFINE R == Reached(r) \ Waiters(r)
           Q == Reached(q) \ Waiters(q)
<1>4. /\ Cardinality(R) \in Nat /\ Cardinality(Q) \in Nat
      /\ Cardinality(R) <= Cardinality(Q)
      /\ \A x \in Q \ R : Cardinality(R) + 1 <= Cardinality(Q)
  BY Countable, OneMore
<1>5. r.failures <= Cardinality(R)
  BY DEF Worked
<1>6. q.failures <= Cardinality(Q)
  <2> HIDE DEF R, Q
  <2>1. \/ q.failures = r.failures
        \/ q.failures = r.failures + 1 /\ (\E s \in Q : s \notin R)
    BY DEF R, Q
  <2> QED BY <1>1, <1>4, <1>5, <2>1
<1> QED BY <1>3, <1>6 DEF Worked

(* A handler that waits for its c.Next() is a service's when it is the     *)
(* proxy.                                                                  *)
LEMMA WaitersReached ==
  ASSUME NEW r \in Calls, Stacked(r), Placed(r)
  PROVE  /\ Waiters(r) \subseteq Reached(r)
         /\ \A i \in 1 .. Len(r.stack) : r.stack[i].name = "http" =>
              /\ r.stack[i] = Handler("http", r.stack[i].service)
              /\ r.stack[i].service \in Waiters(r)
<1>1. r.stack \in Seq(Handlers)
  BY Typed
<1>2. ASSUME NEW i \in 1 .. Len(r.stack), r.stack[i].name = "http"
      PROVE  /\ r.stack[i] = Handler("http", r.stack[i].service)
             /\ r.path \in Paths /\ r.stack[i].service \in MatchedBy[r.path]
             /\ r.stack[i].service \in ServiceSet
  <2>1. r.stack[i] \in Handlers
    BY <1>1
  <2>2. r.path \in Paths /\ r.stack[i].service \in MatchedBy[r.path]
    BY <1>2 DEF Placed, Waits
  <2> QED BY <1>2, <2>1, <2>2, ConstantFacts DEF Handlers, Handler
<1>3. ASSUME NEW s \in Waiters(r) PROVE s \in Reached(r)
  <2>1. PICK i \in 1 .. Len(r.stack) : r.stack[i] = Handler("http", s)
    BY DEF Waiters
  <2>2. r.stack[i].name = "http" /\ r.stack[i].service = s
    BY <2>1 DEF Handler
  <2>3. PICK k \in 1 .. r.at : Chain[k] = r.stack[i]
    BY DEF Stacked
  <2> QED BY <1>2, <2>1, <2>2, <2>3 DEF Reached
<1> QED BY <1>2, <1>3 DEF Waiters

(* Who waits for a request waits for what it becomes.                      *)
LEMMA WaitsKept ==
  ASSUME NEW r, NEW q, NEW h, Waits(r, h),
         q.path = r.path, q.kind = r.kind, q.creds = r.creds,
         h.name = "http" => q.attempt[h.service] >= 1
  PROVE  Waits(q, h)
BY DEF Waits

(* Going on, or back, with the same handlers waiting.                      *)
LEMMA SameStack ==
  ASSUME NEW r \in Calls, NEW q \in Calls, Stacked(r), Placed(r),
         q.stack = r.stack, q.at >= r.at,
         q.path = r.path, q.kind = r.kind, q.creds = r.creds,
         \A s \in ServiceSet : q.attempt[s] >= r.attempt[s],
         q.pc \notin {"execute", "idle", "done"},
         q.pc = "forward" => q.stack # <<>> /\ Top(q).name = "http"
  PROVE  /\ Stacked(q) /\ Placed(q)
         /\ Waiters(q) = Waiters(r) /\ Reached(r) \subseteq Reached(q)
<1>1. /\ q.at \in Nat /\ r.at \in Nat /\ q.stack \in Seq(Handlers)
      /\ r.attempt \in [ServiceSet -> 0 .. Attempts]
      /\ q.attempt \in [ServiceSet -> 0 .. Attempts]
  BY ChainFacts, Typed
<1>2. \A k \in 1 .. r.at : k \in 1 .. q.at
  BY <1>1
<1>3. Stacked(q)
  BY <1>2 DEF Stacked
<1>4. ASSUME NEW i \in 1 .. Len(q.stack) PROVE Waits(q, q.stack[i])
  <2> DEFINE h == q.stack[i]
  <2>1. Waits(r, h)
    BY <1>4 DEF Placed
  <2>2. h.name = "http" => h.service \in ServiceSet
    BY <2>1, ConstantFacts DEF Waits
  <2>3. h.service \in ServiceSet /\ r.attempt[h.service] >= 1 => q.attempt[h.service] >= 1
    BY <1>1, ConstantFacts
  <2>4. h.name = "http" => r.attempt[h.service] >= 1
    BY <2>1 DEF Waits
  <2> HIDE DEF h
  <2>5. Waits(q, h)
    BY <2>1, <2>2, <2>3, <2>4, WaitsKept
  <2> QED BY <2>5 DEF h
<1>5. Placed(q)
  BY <1>4 DEF Placed
<1>6. Waiters(q) = Waiters(r)
  BY DEF Waiters
<1>7. Reached(r) \subseteq Reached(q)
  BY <1>2 DEF Reached
<1> QED BY <1>3, <1>5, <1>6, <1>7

(* A handler that calls c.Next() joins those that wait.                    *)
LEMMA PushStacked ==
  ASSUME NEW r \in Calls, NEW q \in Calls, Stacked(r), Placed(r),
         NEW i \in 1 .. Len(Chain), i > r.at,
         q.stack = Append(r.stack, Chain[i]), q.at = i, q.path = r.path
  PROVE  /\ Stacked(q) /\ Reached(r) \subseteq Reached(q)
         /\ Top(q) = Chain[i] /\ q.stack # <<>>
         /\ \A j \in 1 .. Len(q.stack) :
              \/ q.stack[j] = Chain[i]
              \/ j \in 1 .. Len(r.stack) /\ q.stack[j] = r.stack[j]
         /\ \A s \in Reached(r) : Chain[i] # Handler("http", s)
         /\ Waiters(q) = Waiters(r) \cup
                           {s \in ServiceSet : Chain[i] = Handler("http", s)}
<1> DEFINE L == Len(r.stack)
<1>1. /\ r.at \in Nat /\ i \in Nat /\ r.stack \in Seq(Handlers) /\ Len(Chain) \in Nat
      /\ Chain[i] \in Handlers /\ r.at \in 0 .. Len(Chain) /\ L \in Nat
  BY ChainFacts, Typed
<1>2. /\ Len(q.stack) = L + 1 /\ q.stack[L + 1] = Chain[i]
      /\ \A j \in 1 .. L : q.stack[j] = r.stack[j]
  BY <1>1
<1>3. \A j \in 1 .. Len(q.stack) : j = L + 1 \/ j \in 1 .. L
  BY <1>1, <1>2
<1>4. \A k \in 1 .. r.at : k \in 1 .. i /\ k < i /\ k \in 1 .. Len(Chain)
  BY <1>1
<1>5. i \in 1 .. i
  BY <1>1
<1>6. Stacked(q)
  <2>1. ASSUME NEW j \in 1 .. Len(q.stack) PROVE \E k \in 1 .. q.at : Chain[k] = q.stack[j]
    BY <1>2, <1>3, <1>4, <1>5 DEF Stacked
  <2>2. ASSUME NEW a \in 1 .. Len(q.stack), NEW b \in 1 .. Len(q.stack), a < b
        PROVE  \E k, l \in 1 .. q.at :
                 k < l /\ Chain[k] = q.stack[a] /\ Chain[l] = q.stack[b]
    <3>1. a \in 1 .. L
      BY <1>1, <1>3, <2>2
    <3>2. CASE b = L + 1
      <4>1. PICK k \in 1 .. r.at : Chain[k] = r.stack[a]
        BY <3>1 DEF Stacked
      <4> QED BY <1>2, <1>4, <1>5, <3>1, <3>2, <4>1
    <3>3. CASE b \in 1 .. L
      <4>1. PICK k \in 1 .. r.at, l \in 1 .. r.at :
              k < l /\ Chain[k] = r.stack[a] /\ Chain[l] = r.stack[b]
        BY <2>2, <3>1, <3>3 DEF Stacked
      <4> QED BY <1>2, <1>4, <3>1, <3>3, <4>1
    <3> QED BY <1>3, <3>2, <3>3
  <2> QED BY <2>1, <2>2 DEF Stacked
<1>7. Reached(r) \subseteq Reached(q)
  BY <1>4 DEF Reached
<1>8. Top(q) = Chain[i] /\ q.stack # <<>>
  BY <1>1, <1>2 DEF Top
<1>9. ASSUME NEW s \in Reached(r) PROVE Chain[i] # Handler("http", s)
  <2>1. PICK k \in 1 .. r.at : Chain[k] = Handler("http", s)
    BY DEF Reached
  <2> QED BY <1>1, <1>4, <2>1, ChainFacts
<1>10. L + 1 \in 1 .. Len(q.stack) /\ \A j \in 1 .. L : j \in 1 .. Len(q.stack)
  BY <1>1, <1>2
<1>11. Waiters(q) = Waiters(r) \cup {s \in ServiceSet : Chain[i] = Handler("http", s)}
  BY <1>2, <1>3, <1>10 DEF Waiters
<1> QED BY <1>2, <1>3, <1>6, <1>7, <1>8, <1>9, <1>11

(* The one that its c.Next() returns to leaves them.                       *)
LEMMA PopStacked ==
  ASSUME NEW r \in Calls, NEW q \in Calls, Stacked(r), Placed(r),
         r.stack # <<>>, q.stack = Front(r.stack), q.pc = "return",
         q.at = r.at, q.path = r.path, q.kind = r.kind, q.creds = r.creds,
         \A s \in ServiceSet :
           q.attempt[s] = r.attempt[s] \/ Top(r) = Handler("http", s)
  PROVE  /\ Stacked(q) /\ Placed(q) /\ Reached(q) = Reached(r)
         /\ Waiters(q) = Waiters(r) \ {s \in ServiceSet : Top(r) = Handler("http", s)}
         /\ Spent(r) \subseteq Spent(q)
         /\ Reached(r) \ Waiters(r) \subseteq Reached(q) \ Waiters(q)
<1> DEFINE L == Len(r.stack)
<1>1. /\ r.at \in Nat /\ r.stack \in Seq(Handlers) /\ Len(Chain) \in Nat
      /\ r.at \in 0 .. Len(Chain) /\ L \in Nat /\ L >= 1
  BY ChainFacts, Typed
<1>2. /\ Len(q.stack) = L - 1
      /\ \A j \in 1 .. L - 1 : q.stack[j] = r.stack[j]
  BY <1>1 DEF Front
<1>3. \A j \in 1 .. L : j = L \/ (j \in 1 .. L - 1 /\ j < L)
  BY <1>1
<1>4. \A j \in 1 .. Len(q.stack) : j \in 1 .. L /\ j < L /\ L \in 1 .. L
  BY <1>1, <1>2
<1>5. \A k \in 1 .. r.at : k \in 1 .. Len(Chain)
  BY <1>1
<1>6. ASSUME NEW j \in 1 .. Len(q.stack) PROVE q.stack[j] # Top(r)
  <2>1. PICK k \in 1 .. r.at, l \in 1 .. r.at :
          k < l /\ Chain[k] = r.stack[j] /\ Chain[l] = r.stack[L]
    BY <1>4 DEF Stacked
  <2>2. Chain[k] # Chain[l]
    BY <1>1, <1>5, <2>1, ChainFacts
  <2> QED BY <1>2, <2>1, <2>2 DEF Top
<1>7. Stacked(q)
  <2>1. ASSUME NEW j \in 1 .. Len(q.stack) PROVE j \in 1 .. L /\ q.stack[j] = r.stack[j]
    BY <1>1, <1>2
  <2>2. ASSUME NEW j \in 1 .. Len(q.stack) PROVE \E k \in 1 .. q.at : Chain[k] = q.stack[j]
    BY <2>1 DEF Stacked
  <2>3. ASSUME NEW a \in 1 .. Len(q.stack), NEW b \in 1 .. Len(q.stack), a < b
        PROVE  \E k, l \in 1 .. q.at :
                 k < l /\ Chain[k] = q.stack[a] /\ Chain[l] = q.stack[b]
    BY <2>1, <2>3 DEF Stacked
  <2> QED BY <2>2, <2>3 DEF Stacked
<1>8. ASSUME NEW j \in 1 .. Len(q.stack) PROVE Waits(q, q.stack[j])
  <2> DEFINE h == q.stack[j]
  <2>a. h = r.stack[j] /\ j \in 1 .. L
    BY <1>1, <1>2, <1>4
  <2>1. Waits(r, h) /\ h \in Handlers
    <3> HIDE DEF h
    <3> QED BY <1>1, <2>a DEF Placed
  <2>2. h.name = "http" => h.service \in ServiceSet /\ h = Handler("http", h.service)
    BY <2>1, ConstantFacts DEF Waits, Handlers, Handler
  <2>3. h.name = "http" => q.attempt[h.service] = r.attempt[h.service]
    BY <1>6, <2>2
  <2>4. h.name = "http" => r.attempt[h.service] >= 1
    BY <2>1 DEF Waits
  <2> HIDE DEF h
  <2>5. Waits(q, h)
    BY <2>1, <2>3, <2>4, WaitsKept
  <2> QED BY <2>5 DEF h
<1>9. Placed(q)
  BY <1>8 DEF Placed
<1>10. Reached(q) = Reached(r)
  BY DEF Reached
<1>11. Top(r) = r.stack[L]
  BY DEF Top
<1>12. Waiters(q) = Waiters(r) \ {s \in ServiceSet : Top(r) = Handler("http", s)}
  <2>1. ASSUME NEW s \in Waiters(q) PROVE s \in Waiters(r) /\ Top(r) # Handler("http", s)
    BY <1>2, <1>4, <1>6 DEF Waiters
  <2>2. ASSUME NEW s \in Waiters(r), Top(r) # Handler("http", s) PROVE s \in Waiters(q)
    <3>1. PICK j \in 1 .. L : r.stack[j] = Handler("http", s)
      BY DEF Waiters
    <3>2. j \in 1 .. L - 1
      BY <1>3, <1>11, <2>2, <3>1
    <3> QED BY <1>2, <3>1, <3>2 DEF Waiters
  <2>3. Waiters(q) \subseteq ServiceSet /\ Waiters(r) \subseteq ServiceSet
    BY DEF Waiters
  <2> QED BY <2>1, <2>2, <2>3
<1>13. Spent(r) \subseteq Spent(q)
  <2> SUFFICES ASSUME NEW p \in Spent(r) PROVE p \in Spent(q)
    OBVIOUS
  <2>1. p \in Reached(q) \X (1 .. Attempts)
    BY <1>10 DEF Spent
  <2>2. p[1] \in Waiters(q) => p[1] \in Waiters(r) /\ q.attempt[p[1]] = r.attempt[p[1]]
    BY <1>12 DEF Waiters
  <2>3. ~Pending(q, p[1], p[2])
    BY DEF Pending
  <2> QED BY <2>1, <2>2, <2>3 DEF Spent
<1> QED BY <1>7, <1>9, <1>10, <1>12, <1>13

-----------------------------------------------------------------------------
(***************************************************************************)
(* What a request that comes to a route has behind it.                     *)
(***************************************************************************)

(* The first service of a set is in it, with none before it.               *)
LEMMA FirstOfIs ==
  ASSUME NEW set, NEW a \in 1 .. Len(Services), Services[a] \in set,
         \A b \in 1 .. a - 1 : Services[b] \notin set
  PROVE  FirstOf(set) = {Services[a]}
<1> DEFINE First(i) == Services[i] \in set /\ \A j \in 1 .. i - 1 : Services[j] \notin set
<1>1. Len(Services) \in Nat
  BY ConstantFacts
<1>2. ASSUME NEW i \in 1 .. Len(Services), First(i) PROVE i = a
  <2>1. ~(i < a) /\ ~(a < i)
    BY <1>1, <1>2
  <2> QED BY <1>1, <2>1
<1>3. First(a)
  OBVIOUS
<1>4. (CHOOSE i \in 1 .. Len(Services) : First(i)) = a
  <2> HIDE DEF First
  <2> QED BY <1>2, <1>3
<1> QED BY <1>4 DEF FirstOf

(* Nothing that c.Next() left out, or passed, answers the request.         *)
LEMMA NoneBefore ==
  ASSUME NEW r \in Calls, Answered(r), r.pc = "next",
         NEW i \in 1 .. Len(Chain), i > r.at, Skips(r, i),
         NEW k \in 1 .. i - 1
  PROVE  /\ k \in 1 .. Len(Chain)
         /\ Passed(r, Chain[k])
         /\ k \notin 1 .. r.at => ~IsRoute(Chain[k], r.path)
<1>1. r.at \in Nat /\ Len(Chain) \in Nat
  BY ChainFacts, Typed
<1>2. k \in 1 .. Len(Chain)
  BY <1>1
<1>3. CASE k \in 1 .. r.at
  BY <1>2, <1>3 DEF Answered
<1>4. CASE k \notin 1 .. r.at
  <2>1. k \in r.at + 1 .. i - 1
    BY <1>1, <1>4
  <2>2. ~IsRoute(Chain[k], r.path)
    BY <2>1 DEF Skips
  <2>3. Chain[k].name \notin {"jwt", "apikey"}
    BY <2>2 DEF IsRoute
  <2> QED BY <1>2, <1>4, <2>2, <2>3 DEF Passed
<1> QED BY <1>3, <1>4

(* Whatever answers was asked for with every credential.                   *)
LEMMA Authenticated ==
  ASSUME NEW r \in Calls, Answered(r), r.pc = "next",
         NEW i \in 1 .. Len(Chain), i > r.at, Skips(r, i),
         Chain[i].name \in Endpoints \cup {"ws", "http"}
  PROVE  r.creds = Credentials
<1>1. ASSUME NEW n \in Credentials PROVE n \in r.creds
  <2>1. PICK k \in 1 .. i - 1 : Chain[k].name = n
    BY ChainFacts
  <2>2. n \in {"jwt", "apikey"}
    BY DEF Credentials
  <2> QED BY <2>1, <2>2, NoneBefore DEF Passed
<1>2. r.creds \subseteq Credentials
  BY Typed
<1> QED BY <1>1, <1>2

(* A request comes to the route of the service that has to answer it, and  *)
(* to no other's.                                                          *)
LEMMA ComesToFirst ==
  ASSUME NEW r \in Calls, Answered(r), r.pc = "next",
         NEW i \in 1 .. Len(Chain), i > r.at, Skips(r, i),
         IsRoute(Chain[i], r.path)
  PROVE  /\ Chain[i].name = "http" /\ r.kind = "plain" =>
              FirstOf(MatchedBy[r.path]) = {Chain[i].service}
         /\ Chain[i].name = "ws" /\ r.kind = "handshake" =>
              FirstOf(MatchedBy[r.path] \cap WebSockets) = {Chain[i].service}
<1>1. \A n, s : Handler(n, s).name = n /\ Handler(n, s).service = s
  BY DEF Handler
<1>2. ASSUME NEW a \in 1 .. Len(Services), NEW b \in 1 .. a - 1,
             NEW n \in {"ws", "http"}, Chain[i] = Handler(n, Services[a]),
             n = "http" => r.kind = "plain", n = "ws" => r.kind = "handshake"
      PROVE  ~IsRoute(Handler(n, Services[b]), r.path)
  <2>1. b \in 1 .. Len(Services) /\ b < a
    BY ConstantFacts
  <2>2. PICK k \in 1 .. Len(Chain) : Chain[k] = Handler(n, Services[b])
    BY <2>1, ChainFacts
  <2>3. k < i
    BY <1>2, <2>1, <2>2, ChainFacts
  <2>4. k \in 1 .. i - 1
    BY <2>3, ChainFacts
  <2>5. Passed(r, Chain[k])
    BY <2>4, NoneBefore
  <2>6. Chain[k].name = n
    BY <1>1, <2>2
  <2> QED BY <1>2, <2>2, <2>5, <2>6 DEF Passed
<1>3. ASSUME Chain[i].name = "http", r.kind = "plain"
      PROVE  FirstOf(MatchedBy[r.path]) = {Chain[i].service}
  <2>1. PICK a \in 1 .. Len(Services) : Chain[i] = Handler("http", Services[a])
    BY <1>3, ChainFacts
  <2>2. Chain[i].service = Services[a]
    BY <1>1, <2>1
  <2>3. r.path \in Paths /\ Services[a] \in MatchedBy[r.path]
    BY <1>3, <2>2 DEF IsRoute
  <2>4. ASSUME NEW b \in 1 .. a - 1 PROVE Services[b] \notin MatchedBy[r.path]
    <3>1. ~IsRoute(Handler("http", Services[b]), r.path)
      BY <1>2, <1>3, <2>1
    <3> QED BY <1>1, <2>3, <3>1 DEF IsRoute
  <2> QED BY <2>2, <2>3, <2>4, FirstOfIs
<1>4. ASSUME Chain[i].name = "ws", r.kind = "handshake"
      PROVE  FirstOf(MatchedBy[r.path] \cap WebSockets) = {Chain[i].service}
  <2>1. PICK a \in 1 .. Len(Services) : Chain[i] = Handler("ws", Services[a])
    BY <1>4, ChainFacts
  <2>2. Chain[i].service = Services[a]
    BY <1>1, <2>1
  <2>3. r.path \in Paths /\ Services[a] \in MatchedBy[r.path] \cap WebSockets
    BY <1>4, <2>2 DEF IsRoute
  <2>4. ASSUME NEW b \in 1 .. a - 1
        PROVE  Services[b] \notin MatchedBy[r.path] \cap WebSockets
    <3>1. ~IsRoute(Handler("ws", Services[b]), r.path)
      BY <1>2, <1>4, <2>1
    <3> QED BY <1>1, <2>3, <3>1 DEF IsRoute
  <2> DEFINE set == MatchedBy[r.path] \cap WebSockets
  <2>5. Services[a] \in set /\ \A b \in 1 .. a - 1 : Services[b] \notin set
    BY <2>3, <2>4
  <2>6. FirstOf(set) = {Services[a]}
    <3> HIDE DEF set
    <3> QED BY <2>5, FirstOfIs
  <2> QED BY <2>2, <2>6
<1> QED BY <1>3, <1>4

(* A handler that passes the request on leaves it passed.                  *)
LEMMA PassedOn ==
  ASSUME NEW r \in Calls, Answered(r), r.pc = "next",
         NEW i \in 1 .. Len(Chain), i > r.at, Skips(r, i), Passed(r, Chain[i]),
         NEW q \in Calls, q.at = i,
         q.path = r.path, q.kind = r.kind, q.creds = r.creds
  PROVE  \A k \in 1 .. q.at : Passed(q, Chain[k])
<1> SUFFICES ASSUME NEW k \in 1 .. i PROVE Passed(q, Chain[k])
  OBVIOUS
<1>1. k = i \/ k \in 1 .. i - 1
  BY ChainFacts
<1>2. Passed(r, Chain[k])
  BY <1>1, NoneBefore
<1> QED BY <1>2 DEF Passed

-----------------------------------------------------------------------------
(***************************************************************************)
(* What a request becomes.                                                 *)
(***************************************************************************)

(* q is a sound request, with as many calls in the breaker as r has.       *)
Follows(r, q) == q \in Calls /\ Sound(q) /\ Inside(q) = Inside(r)

(* Who is responsible is a matter of path and kind.                        *)
LEMMA SameResponsible ==
  ASSUME NEW r, NEW q, q.path = r.path, q.kind = r.kind
  PROVE  Responsible(q) = Responsible(r)
BY DEF Responsible

(* A request that has no handler waiting and has done nothing.             *)
LEMMA FreshFollows ==
  ASSUME NEW q \in Calls, q.pc \in {"idle", "next"}, q.at = 0, q.stack = <<>>,
         q.served = {}, q.forwards = 0, q.failures = 0,
         q.path \notin Paths => q.kind = "plain"
  PROVE  Sound(q) /\ Inside(q) = {}
<1>1. Stacked(q) /\ Placed(q) /\ Answered(q)
  BY DEF Stacked, Placed, Answered
<1>2. Worked(q)
  <2>1. Cardinality(Spent(q)) \in Nat /\ Cardinality(Reached(q) \ Waiters(q)) \in Nat
    BY Countable, Zenon
  <2> QED BY <2>1 DEF Worked
<1>3. Inside(q) = {}
  BY DEF Inside, Waiters
<1> QED BY <1>1, <1>2, <1>3 DEF Sound

(* One that goes on or turns back with the same handlers waiting; if it    *)
(* was at the point of calling Forward, it may have.                       *)
LEMMA SameStackFollows ==
  ASSUME NEW r \in Calls, NEW q \in Calls, Sound(r), Answered(q),
         r.pc # "execute", q.pc \in {"next", "return"},
         q.stack = r.stack, q.at >= r.at, q.attempt = r.attempt,
         q.path = r.path, q.kind = r.kind, q.creds = r.creds,
         q.failures = r.failures,
         \/ q.forwards = r.forwards
         \/ q.forwards = r.forwards + 1 /\ r.pc = "forward"
  PROVE  Follows(r, q)
<1>1. Stacked(r) /\ Placed(r) /\ Worked(r)
  BY DEF Sound
<1>2. r.attempt \in [ServiceSet -> 0 .. Attempts] /\ Attempts \in Nat
  BY ConstantFacts, Typed
<1>3. /\ Stacked(q) /\ Placed(q)
      /\ Waiters(q) = Waiters(r) /\ Reached(r) \subseteq Reached(q)
  BY <1>1, <1>2, SameStack
<1>4. Spent(r) \subseteq Spent(q)
  BY <1>3 DEF Spent, Pending
<1>5. ASSUME r.pc = "forward" PROVE \E p \in Spent(q) : p \notin Spent(r)
  <2> DEFINE s == Top(r).service
             p == <<s, r.attempt[s]>>
  <2>1. r.stack # <<>> /\ Top(r).name = "http" /\ r.stack \in Seq(Handlers)
    BY <1>1, <1>5, Typed DEF Placed
  <2>2. Len(r.stack) \in 1 .. Len(r.stack) /\ Top(r) = r.stack[Len(r.stack)]
    BY <2>1 DEF Top
  <2>3. s \in Waiters(r) /\ Waits(r, Top(r))
    BY <1>1, <2>1, <2>2, WaitersReached DEF Placed
  <2>4. s \in Reached(q) /\ s \in ServiceSet
    BY <1>1, <1>3, <2>3, WaitersReached DEF Waiters
  <2>5. r.attempt[s] \in 1 .. Attempts
    BY <1>2, <2>1, <2>3, <2>4 DEF Waits
  <2>6. p \notin Spent(r)
    BY <1>5, <2>3 DEF Spent, Pending
  <2>7. p \in Spent(q)
    BY <1>2, <2>4, <2>5 DEF Spent, Pending
  <2> QED BY <2>6, <2>7
<1>6. Worked(q)
  BY <1>1, <1>3, <1>4, <1>5, WorkedGrows
<1>7. Inside(q) = Inside(r)
  BY <1>3 DEF Inside
<1> QED BY <1>3, <1>6, <1>7 DEF Follows, Sound

(* One that a handler which waits for its c.Next() has passed on.          *)
LEMMA PushFollows ==
  ASSUME NEW r \in Calls, NEW q \in Calls, Sound(r), Answered(q), r.pc = "next",
         NEW i \in 1 .. Len(Chain), i > r.at, Waits(q, Chain[i]),
         q.stack = Append(r.stack, Chain[i]), q.at = i,
         q.path = r.path, q.kind = r.kind, q.creds = r.creds,
         q.failures = r.failures, q.forwards = r.forwards,
         \A s \in ServiceSet : q.attempt[s] = r.attempt[s] \/ Chain[i] = Handler("http", s),
         \/ q.pc = "next" /\ Chain[i].name # "http"
         \/ /\ q.pc = "execute" /\ Chain[i].name = "http"
            /\ q.attempt[Chain[i].service] = 1
  PROVE  Follows(r, q)
<1>1. Stacked(r) /\ Placed(r) /\ Worked(r)
  BY DEF Sound
<1>2. /\ Stacked(q) /\ Reached(r) \subseteq Reached(q)
      /\ Top(q) = Chain[i] /\ q.stack # <<>>
      /\ \A j \in 1 .. Len(q.stack) :
           \/ q.stack[j] = Chain[i]
           \/ j \in 1 .. Len(r.stack) /\ q.stack[j] = r.stack[j]
      /\ \A s \in Reached(r) : Chain[i] # Handler("http", s)
      /\ Waiters(q) = Waiters(r) \cup {s \in ServiceSet : Chain[i] = Handler("http", s)}
  BY <1>1, PushStacked
<1>3. Waiters(r) \subseteq Reached(r)
  BY <1>1, WaitersReached
<1>4. Chain[i] \in Handlers
  BY ChainFacts
<1>5. Chain[i].name = "http" => /\ Chain[i].service \in ServiceSet
                                /\ Chain[i] = Handler("http", Chain[i].service)
  BY <1>4, ConstantFacts DEF Waits, Handlers, Handler
<1>6. \A s \in ServiceSet : Chain[i] = Handler("http", s) =>
        Chain[i].name = "http" /\ s = Chain[i].service
  BY DEF Handler
<1>7. ASSUME NEW j \in 1 .. Len(q.stack) PROVE Waits(q, q.stack[j])
  <2>1. CASE q.stack[j] = Chain[i]
    BY <2>1
  <2>2. CASE j \in 1 .. Len(r.stack) /\ q.stack[j] = r.stack[j]
    <3> DEFINE h == r.stack[j]
    <3>1. Waits(r, h)
      BY <1>1, <2>2 DEF Placed
    <3>2. h.name = "http" => h.service \in Waiters(r) /\ h = Handler("http", h.service)
      BY <1>1, <2>2, WaitersReached
    <3>3. h.name = "http" => q.attempt[h.service] = r.attempt[h.service]
      BY <1>2, <1>3, <3>2 DEF Waiters
    <3>4. h.name = "http" => r.attempt[h.service] >= 1
      BY <3>1 DEF Waits
    <3> HIDE DEF h
    <3>5. Waits(q, h)
      BY <3>1, <3>3, <3>4, WaitsKept
    <3> QED BY <2>2, <3>5 DEF h
  <2> QED BY <1>2, <2>1, <2>2
<1>8. Placed(q)
  BY <1>1, <1>2, <1>7 DEF Placed
<1>9. Spent(r) \subseteq Spent(q)
  <2> SUFFICES ASSUME NEW p \in Spent(r) PROVE p \in Spent(q)
    OBVIOUS
  <2>1. p \in Reached(r) \X (1 .. Attempts) /\ p \in Reached(q) \X (1 .. Attempts)
    BY <1>2 DEF Spent
  <2>2. Chain[i] # Handler("http", p[1]) /\ p[1] \in ServiceSet
    BY <1>2, <2>1 DEF Reached
  <2>3. p[1] \in Waiters(q) => p[1] \in Waiters(r)
    BY <1>2, <2>2
  <2>4. q.attempt[p[1]] = r.attempt[p[1]]
    BY <2>2
  <2>5. ~Pending(q, p[1], p[2])
    BY <1>2, <1>5, <2>2 DEF Pending
  <2> QED BY <2>1, <2>3, <2>4, <2>5 DEF Spent
<1>10. Reached(r) \ Waiters(r) \subseteq Reached(q) \ Waiters(q)
  BY <1>2
<1>11. Worked(q)
  BY <1>1, <1>9, <1>10, WorkedGrows
<1>12. Inside(q) = Inside(r)
  <2>1. Waiters(r) \subseteq ServiceSet
    BY DEF Waiters
  <2>2. CASE Chain[i].name # "http"
    BY <1>2, <1>6, <2>2 DEF Inside
  <2>3. CASE Chain[i].name = "http"
    <3>1. Waiters(q) = Waiters(r) \cup {Chain[i].service}
      BY <1>2, <1>5, <1>6, <2>3
    <3>2. Chain[i].service \notin Waiters(r)
      BY <1>2, <1>3, <1>5, <2>3
    <3> QED BY <1>2, <2>3, <3>1, <3>2 DEF Inside
  <2> QED BY <2>2, <2>3
<1> QED BY <1>2, <1>8, <1>11, <1>12 DEF Follows, Sound

(* One whose topmost handler has come back from its c.Next(), or has not   *)
(* been let in; a proxy's failure may have been counted.                   *)
LEMMA PopFollows ==
  ASSUME NEW r \in Calls, NEW q \in Calls, Sound(r), Answered(q),
         r.stack # <<>>, q.stack = Front(r.stack), q.pc = "return",
         q.at = r.at, q.path = r.path, q.kind = r.kind, q.creds = r.creds,
         q.forwards = r.forwards,
         \A s \in ServiceSet :
           q.attempt[s] = r.attempt[s] \/ Top(r) = Handler("http", s),
         \/ q.failures = r.failures
         \/ q.failures = r.failures + 1 /\ Top(r).name = "http"
  PROVE  /\ q \in Calls /\ Sound(q)
         /\ Top(r).name # "http" /\ r.pc # "execute" => Inside(q) = Inside(r)
         /\ Top(r).name = "http" =>
              /\ Top(r).service \in Waiters(r)
              /\ Inside(q) = Waiters(r) \ {Top(r).service}
<1>1. Stacked(r) /\ Placed(r) /\ Worked(r)
  BY DEF Sound
<1>2. /\ Stacked(q) /\ Placed(q) /\ Reached(q) = Reached(r)
      /\ Waiters(q) = Waiters(r) \ {s \in ServiceSet : Top(r) = Handler("http", s)}
      /\ Spent(r) \subseteq Spent(q)
      /\ Reached(r) \ Waiters(r) \subseteq Reached(q) \ Waiters(q)
  BY <1>1, PopStacked
<1>3. Inside(q) = Waiters(q)
  BY DEF Inside
<1>4. CASE Top(r).name # "http"
  <2>1. \A s : Top(r) # Handler("http", s)
    BY <1>4 DEF Handler
  <2>2. Waiters(q) = Waiters(r)
    BY <1>2, <2>1
  <2>3. Worked(q)
    BY <1>1, <1>2, <1>4, WorkedGrows
  <2>4. r.pc # "execute" => Inside(r) = Waiters(r)
    BY DEF Inside
  <2> QED BY <1>2, <1>3, <1>4, <2>2, <2>3, <2>4 DEF Sound
<1>5. CASE Top(r).name = "http"
  <2> DEFINE s == Top(r).service
  <2>1. Len(r.stack) \in 1 .. Len(r.stack) /\ Top(r) = r.stack[Len(r.stack)]
    BY Typed DEF Top
  <2>2. s \in Waiters(r) /\ Top(r) = Handler("http", s)
    BY <1>1, <1>5, <2>1, WaitersReached
  <2>3. s \in ServiceSet /\ \A t : Top(r) = Handler("http", t) => t = s
    BY <2>2 DEF Waiters, Handler
  <2>4. Waiters(q) = Waiters(r) \ {s}
    BY <1>2, <2>2, <2>3
  <2>5. s \in Reached(q) \ Waiters(q) /\ s \notin Reached(r) \ Waiters(r)
    BY <1>1, <1>2, <2>2, <2>4, WaitersReached
  <2>6. Worked(q)
    BY <1>1, <1>2, <2>5, WorkedGrows
  <2> QED BY <1>2, <1>3, <1>5, <2>2, <2>4, <2>6 DEF Sound
<1> QED BY <1>4, <1>5

(* One whose proxy is let in by the breaker, or tries once more.           *)
LEMMA ForwardingFollows ==
  ASSUME NEW r \in Calls, NEW q \in Calls, Sound(r), Answered(q),
         r.stack # <<>>, Top(r).name = "http",
         q.stack = r.stack, q.pc = "forward",
         q.at = r.at, q.path = r.path, q.kind = r.kind, q.creds = r.creds,
         q.forwards = r.forwards, q.failures = r.failures,
         \/ r.pc = "execute" /\ q.attempt = r.attempt
         \/ r.pc = "return" /\ q.attempt = [r.attempt EXCEPT ![Top(r).service] = @ + 1]
  PROVE  /\ q \in Calls /\ Sound(q)
         /\ Top(r).service \in Waiters(r) /\ Inside(q) = Waiters(r)
<1> DEFINE s == Top(r).service
<1>1. Stacked(r) /\ Placed(r) /\ Worked(r)
  BY DEF Sound
<1>2. /\ r.attempt \in [ServiceSet -> 0 .. Attempts] /\ r.stack \in Seq(Handlers)
      /\ Attempts \in Nat /\ r.at \in Nat
  BY ConstantFacts, Typed
<1>3. Len(r.stack) \in 1 .. Len(r.stack) /\ Top(r) = r.stack[Len(r.stack)]
  BY <1>2 DEF Top
<1>4. s \in Waiters(r) /\ s \in ServiceSet
  BY <1>1, <1>3, WaitersReached DEF Waiters
<1>5. /\ \A t \in ServiceSet : t # s => q.attempt[t] = r.attempt[t]
      /\ r.pc = "execute" => q.attempt[s] = r.attempt[s]
      /\ r.pc = "return" => q.attempt[s] = r.attempt[s] + 1
  BY <1>2, <1>4
<1>6. r.attempt[s] \in Nat /\ \A t \in ServiceSet : r.attempt[t] \in Nat
  BY <1>2, <1>4
<1>7. r.pc \in {"execute", "return"}
  OBVIOUS
<1>8. \A t \in ServiceSet : q.attempt[t] >= r.attempt[t]
  <2> SUFFICES ASSUME NEW t \in ServiceSet PROVE q.attempt[t] >= r.attempt[t]
    OBVIOUS
  <2> QED BY <1>5, <1>6, <1>7
<1>9. Top(q) = Top(r)
  BY DEF Top
<1>10. /\ Stacked(q) /\ Placed(q)
       /\ Waiters(q) = Waiters(r) /\ Reached(r) \subseteq Reached(q)
  BY <1>1, <1>2, <1>8, <1>9, SameStack
<1>11. Spent(r) \subseteq Spent(q)
  <2> SUFFICES ASSUME NEW p \in Spent(r) PROVE p \in Spent(q)
    OBVIOUS
  <2>1. /\ p \in Reached(r) \X (1 .. Attempts) /\ p \in Reached(q) \X (1 .. Attempts)
        /\ p[1] \in ServiceSet /\ p[2] \in Nat
    BY <1>2, <1>10 DEF Spent, Reached
  <2>2. p[1] \in Waiters(r) => p[2] <= r.attempt[p[1]] /\ ~Pending(r, p[1], p[2])
    BY DEF Spent
  <2>3. p[1] \in Waiters(r) => p[2] <= q.attempt[p[1]] /\ ~Pending(q, p[1], p[2])
    <3>1. CASE p[1] = s
      BY <1>5, <1>6, <1>7, <1>9, <2>1, <2>2, <3>1 DEF Pending
    <3>2. CASE p[1] # s
      BY <1>5, <1>9, <2>1, <2>2, <3>2 DEF Pending
    <3> QED BY <3>1, <3>2
  <2> QED BY <1>10, <2>1, <2>3 DEF Spent
<1>12. Worked(q)
  BY <1>1, <1>10, <1>11, WorkedGrows
<1>13. Inside(q) = Waiters(r)
  BY <1>10 DEF Inside
<1> QED BY <1>4, <1>10, <1>12, <1>13 DEF Sound

-----------------------------------------------------------------------------
(***************************************************************************)
(* Entering a route.                                                       *)
(***************************************************************************)

(* r is at its c.Next(), and the next route that matches is the i-th.      *)
AtRoute(r, i) ==
  /\ r \in Calls /\ Sound(r) /\ r.pc = "next"
  /\ i \in 1 .. Len(Chain) /\ i > r.at
  /\ IsRoute(Chain[i], r.path) /\ Skips(r, i)

(* Two requests that differ in how far they are and what came of it.       *)
Alike(r, q) ==
  /\ q.path = r.path /\ q.kind = r.kind /\ q.creds = r.creds
  /\ q.attempt = r.attempt /\ q.failures = r.failures /\ q.forwards = r.forwards

(* To move is to change the place only.                                    *)
LEMMA Moved ==
  ASSUME NEW r \in Calls, NEW i \in Depths, NEW q, q = [r EXCEPT !.at = i]
  PROVE  /\ q \in Calls /\ Alike(r, q) /\ q.at = i
         /\ q.pc = r.pc /\ q.err = r.err /\ q.stack = r.stack /\ q.served = r.served
BY DEF Calls, Alike

(* To return is to have an error, or none.                                 *)
LEMMA Turned ==
  ASSUME NEW r \in Calls, NEW err \in Errors, NEW q, q = Returning(r, err)
  PROVE  /\ q \in Calls /\ Alike(r, q) /\ q.pc = "return" /\ q.err = err
         /\ q.at = r.at /\ q.stack = r.stack /\ q.served = r.served
<1>1. "return" \in Stages
  BY DEF Stages
<1> QED BY <1>1 DEF Calls, Alike, Returning

(* To answer is to return with a status and no error.                      *)
LEMMA AnsweredWith ==
  ASSUME NEW r \in Calls, NEW status \in Statuses, NEW q, q = Answering(r, status)
  PROVE  /\ q \in Calls /\ Alike(r, q) /\ q.pc = "return" /\ q.err = 0
         /\ q.at = r.at /\ q.stack = r.stack /\ q.served = r.served
<1> DEFINE t == Returning(r, 0)
<1>1. 0 \in Errors
  BY DEF Errors
<1>2. /\ t \in Calls /\ Alike(r, t) /\ t.pc = "return" /\ t.err = 0
      /\ t.at = r.at /\ t.stack = r.stack /\ t.served = r.served
  BY <1>1, Turned
<1>3. q = [t EXCEPT !.status = status]
  BY DEF Answering
<1> HIDE DEF t
<1> QED BY <1>2, <1>3 DEF Calls, Alike

(* To be served is to have been asked.                                     *)
LEMMA ServedBy ==
  ASSUME NEW r \in Calls, NEW by \in ServiceSet \cup Endpoints, NEW q, q = Served(r, by)
  PROVE  /\ q \in Calls /\ Alike(r, q) /\ q.pc = r.pc /\ q.err = r.err
         /\ q.at = r.at /\ q.stack = r.stack /\ q.served = r.served \cup {by}
<1>1. r.served \cup {by} \in Answers
  BY Typed DEF Answers
<1>2. q = [r EXCEPT !.served = r.served \cup {by}]
  BY DEF Served
<1> QED BY <1>1, <1>2 DEF Calls, Alike

(* To wait is to be on the stack.                                          *)
LEMMA Waited ==
  ASSUME NEW r \in Calls, NEW h \in Handlers, NEW q, q = Waiting(r, h)
  PROVE  /\ q \in Calls /\ Alike(r, q) /\ q.at = r.at
         /\ q.pc = r.pc /\ q.stack = Append(r.stack, h) /\ q.served = r.served
<1>1. r.stack \in Seq(Handlers)
  BY Typed
<1>2. Append(r.stack, h) \in Stacks
  BY <1>1 DEF Stacks
<1>3. q = [r EXCEPT !.stack = Append(r.stack, h)]
  BY DEF Waiting
<1>4. q \in Calls
  BY <1>2, <1>3 DEF Calls
<1> QED BY <1>3, <1>4 DEF Alike, Calls

(* A request turned back with an error.                                    *)
LEMMA ErrorFollows ==
  ASSUME NEW r \in Calls, Sound(r), r.pc = "next",
         NEW q \in Calls, q.pc = "return", q.err # 0, q.at >= r.at,
         q.stack = r.stack, q.attempt = r.attempt,
         q.path = r.path, q.kind = r.kind, q.creds = r.creds,
         q.served = r.served, q.failures = r.failures, q.forwards = r.forwards
  PROVE  Follows(r, q)
<1>1. Answered(r)
  BY DEF Sound
<1>2. Answered(q)
  BY <1>1, SameResponsible DEF Answered
<1> QED BY <1>2, SameStackFollows

(* A handler that only passes the request on.                              *)
LEMMA PassFollows ==
  ASSUME NEW r, NEW i, AtRoute(r, i), Passed(r, Chain[i])
  PROVE  Follows(r, [r EXCEPT !.at = i])
<1> DEFINE q == [r EXCEPT !.at = i]
<1>1. /\ r \in Calls /\ Sound(r) /\ r.pc = "next" /\ Answered(r)
      /\ i \in 1 .. Len(Chain) /\ i > r.at /\ Skips(r, i)
  BY DEF AtRoute, Sound
<1>a. i \in Depths
  BY <1>1, ChainFacts DEF Depths
<1>2. /\ q \in Calls /\ q.at = i /\ q.pc = "next"
      /\ q.stack = r.stack /\ q.attempt = r.attempt
      /\ q.path = r.path /\ q.kind = r.kind /\ q.creds = r.creds
      /\ q.served = r.served /\ q.failures = r.failures /\ q.forwards = r.forwards
  BY <1>1, <1>a, Moved DEF Alike
<1> HIDE DEF q
<1>3. \A k \in 1 .. q.at : Passed(q, Chain[k])
  BY <1>1, <1>2, PassedOn
<1>4. Answered(q)
  BY <1>1, <1>2, <1>3, SameResponsible DEF Answered
<1>5. q.at >= r.at
  BY <1>1, <1>2, ChainFacts, Typed
<1>6. Follows(r, q)
  BY <1>1, <1>2, <1>4, <1>5, SameStackFollows
<1> QED BY <1>6 DEF q

(* The logger and the metrics wait.                                        *)
LEMMA WaitFollows ==
  ASSUME NEW r, NEW i, AtRoute(r, i), Chain[i].name \in {"logger", "prometheus"}
  PROVE  Follows(r, Waiting([r EXCEPT !.at = i], Chain[i]))
<1> DEFINE q == Waiting([r EXCEPT !.at = i], Chain[i])
<1>1. /\ r \in Calls /\ Sound(r) /\ r.pc = "next" /\ Answered(r)
      /\ i \in 1 .. Len(Chain) /\ i > r.at /\ Skips(r, i)
  BY DEF AtRoute, Sound
<1> DEFINE m == [r EXCEPT !.at = i]
<1>2. /\ m \in Calls /\ Alike(r, m) /\ m.at = i /\ Chain[i] \in Handlers
      /\ m.pc = r.pc /\ m.stack = r.stack /\ m.served = r.served
  <2>1. i \in Depths /\ Chain[i] \in Handlers
    BY <1>1, ChainFacts DEF Depths
  <2> QED BY <1>1, <2>1, Moved
<1>3. /\ q \in Calls /\ q.at = i /\ q.pc = "next"
      /\ q.stack = Append(r.stack, Chain[i]) /\ q.attempt = r.attempt
      /\ q.path = r.path /\ q.kind = r.kind /\ q.creds = r.creds
      /\ q.served = r.served /\ q.failures = r.failures /\ q.forwards = r.forwards
  <2> HIDE DEF m
  <2>1. q = Waiting(m, Chain[i])
    BY DEF m
  <2>2. /\ q \in Calls /\ Alike(m, q) /\ q.at = m.at
        /\ q.pc = m.pc /\ q.stack = Append(m.stack, Chain[i]) /\ q.served = m.served
    <3> HIDE DEF q
    <3> QED BY <1>2, <2>1, Waited
  <2> HIDE DEF q
  <2> QED BY <1>1, <1>2, <2>2 DEF Alike
<1> HIDE DEF q
<1>4. Passed(r, Chain[i]) /\ Waits(q, Chain[i])
  BY DEF Passed, Waits
<1>5. \A k \in 1 .. q.at : Passed(q, Chain[k])
  BY <1>1, <1>3, <1>4, PassedOn
<1>6. Answered(q)
  BY <1>1, <1>3, <1>5, SameResponsible DEF Answered
<1>7. Follows(r, q)
  BY <1>1, <1>3, <1>4, <1>6, PushFollows
<1> QED BY <1>7 DEF q

(* An endpoint, or the WebSocket route of the right service, answers.      *)
LEMMA AnswerFollows ==
  ASSUME NEW r, NEW i, AtRoute(r, i),
         NEW by, \/ Chain[i].name \in Endpoints /\ by = Chain[i].name
                 \/ /\ Chain[i].name = "ws" /\ r.kind = "handshake"
                    /\ by = Chain[i].service,
         NEW q \in Calls, q.pc = "return", q.at = i, q.served = r.served \cup {by},
         q.stack = r.stack, q.attempt = r.attempt,
         q.path = r.path, q.kind = r.kind, q.creds = r.creds,
         q.failures = r.failures, q.forwards = r.forwards
  PROVE  Follows(r, q)
<1>1. /\ r \in Calls /\ Sound(r) /\ r.pc = "next" /\ Answered(r)
      /\ i \in 1 .. Len(Chain) /\ i > r.at /\ Skips(r, i)
      /\ IsRoute(Chain[i], r.path)
  BY DEF AtRoute, Sound
<1>2. r.creds = Credentials
  BY <1>1, Authenticated
<1>3. by \in Responsible(r)
  <2>1. CASE Chain[i].name \in Endpoints /\ by = Chain[i].name
    <3>1. r.path = Chain[i].name
      BY <1>1, <2>1 DEF IsRoute, Endpoints
    <3>2. Chain[i].name = "/metrics" => EnableMetrics
      BY <1>1, ChainFacts
    <3>3. by = "/health" \/ by = "/metrics"
      BY <2>1 DEF Endpoints
    <3>4. CASE by = "/health"
      <4>1. Responsible(r) = {"/health"}
        <5>1. r.path = "/health" /\ r.path \notin Paths
          BY <2>1, <3>1, <3>4, ConstantFacts DEF Endpoints
        <5> QED BY <5>1 DEF Responsible
      <4> QED BY <3>4, <4>1
    <3>5. CASE by = "/metrics"
      <4>1. r.path = "/metrics" /\ EnableMetrics
        BY <2>1, <3>1, <3>2, <3>5
      <4>2. Responsible(r) = {"/metrics"}
        <5>1. r.path # "/health" /\ r.path \notin Paths
          BY <4>1, ConstantFacts DEF Endpoints
        <5> QED BY <4>1, <5>1 DEF Responsible
      <4> QED BY <3>5, <4>2
    <3> QED BY <3>3, <3>4, <3>5
  <2>2. CASE Chain[i].name = "ws" /\ r.kind = "handshake" /\ by = Chain[i].service
    <3>1. FirstOf(MatchedBy[r.path] \cap WebSockets) = {by}
      BY <1>1, <2>2, ComesToFirst
    <3>2. r.path \in Paths
      BY <1>1, <2>2 DEF IsRoute
    <3>3. r.path # "/health" /\ r.path # "/metrics"
      BY <3>2, ConstantFacts DEF Endpoints
    <3>4. Responsible(r) = FirstOf(MatchedBy[r.path] \cap WebSockets)
      BY <2>2, <3>2, <3>3 DEF Responsible
    <3> QED BY <3>1, <3>4
  <2> QED BY <2>1, <2>2
<1>4. q.served \subseteq Responsible(q)
  BY <1>1, <1>3, SameResponsible DEF Answered
<1>5. Answered(q)
  BY <1>2, <1>4 DEF Answered
<1>6. q.at >= r.at
  BY <1>1, ChainFacts, Typed
<1> QED BY <1>1, <1>5, <1>6, SameStackFollows

(* A service's proxy takes the request on.                                 *)
LEMMA ProxyFollows ==
  ASSUME NEW r, NEW i, AtRoute(r, i),
         Chain[i].name = "http", r.kind # "handshake", Chain[i].service \in Targeted
  PROVE  Follows(r, [Waiting([r EXCEPT !.at = i], Chain[i]) EXCEPT
                       !.pc = "execute", !.attempt[Chain[i].service] = 1])
<1> DEFINE s == Chain[i].service
           m == [r EXCEPT !.at = i]
           w == Waiting(m, Chain[i])
           q == [w EXCEPT !.pc = "execute", !.attempt[s] = 1]
<1>1. /\ r \in Calls /\ Sound(r) /\ r.pc = "next" /\ Answered(r)
      /\ i \in 1 .. Len(Chain) /\ i > r.at /\ Skips(r, i)
      /\ IsRoute(Chain[i], r.path)
  BY DEF AtRoute, Sound
<1>2. /\ m \in Calls /\ Alike(r, m) /\ m.at = i /\ Chain[i] \in Handlers
      /\ m.pc = r.pc /\ m.stack = r.stack /\ m.served = r.served
  <2>1. i \in Depths /\ Chain[i] \in Handlers
    BY <1>1, ChainFacts DEF Depths
  <2> QED BY <1>1, <2>1, Moved
<1>a. /\ w \in Calls /\ Alike(r, w) /\ w.at = i
      /\ w.stack = Append(r.stack, Chain[i]) /\ w.served = r.served
  <2>1. /\ w \in Calls /\ Alike(m, w) /\ w.at = m.at
        /\ w.stack = Append(m.stack, Chain[i]) /\ w.served = m.served
    <3> HIDE DEF m
    <3> QED BY <1>2, Waited
  <2> HIDE DEF m, w
  <2> QED BY <1>2, <2>1 DEF Alike
<1>3. r.path \in Paths /\ s \in MatchedBy[r.path] /\ s \in ServiceSet
  BY <1>1, ConstantFacts DEF IsRoute
<1>4. Chain[i] = Handler("http", s)
  BY <1>2 DEF Handlers, Handler
<1>5. /\ r.attempt \in [ServiceSet -> 0 .. Attempts] /\ 1 \in 0 .. Attempts
      /\ [r.attempt EXCEPT ![s] = 1] \in [ServiceSet -> 0 .. Attempts]
  <2>1. r.attempt \in [ServiceSet -> 0 .. Attempts]
    BY <1>1, Typed
  <2>2. 1 \in 0 .. Attempts
    BY ConstantFacts
  <2> HIDE DEF s
  <2> QED BY <2>1, <2>2
<1>6. /\ q \in Calls /\ q.at = i /\ q.pc = "execute"
      /\ q.stack = Append(r.stack, Chain[i]) /\ q.attempt = [r.attempt EXCEPT ![s] = 1]
      /\ q.path = r.path /\ q.kind = r.kind /\ q.creds = r.creds
      /\ q.served = r.served /\ q.failures = r.failures /\ q.forwards = r.forwards
  <2> HIDE DEF w, s
  <2>1. q = [w EXCEPT !.pc = "execute", !.attempt = [r.attempt EXCEPT ![s] = 1]]
    BY <1>a DEF Alike
  <2> HIDE DEF q
  <2>2. q \in Calls
    BY <1>a, <1>5, <2>1 DEF Calls, Stages, Tries
  <2> QED BY <1>a, <2>1, <2>2 DEF Alike, Calls
<1> HIDE DEF q
<1>7. /\ q.attempt[s] = 1
      /\ \A t \in ServiceSet : q.attempt[t] = r.attempt[t] \/ Chain[i] = Handler("http", t)
  BY <1>3, <1>4, <1>5, <1>6
<1>8. r.creds = Credentials
  BY <1>1, Authenticated
<1>9. r.kind = "plain" => FirstOf(MatchedBy[r.path]) = {s}
  BY <1>1, ComesToFirst
<1>10. Waits(q, Chain[i])
  BY <1>3, <1>6, <1>7, <1>8, <1>9 DEF Waits
<1>11. Answered(q)
  BY <1>1, <1>6, SameResponsible DEF Answered
<1>12. Follows(r, q)
  BY <1>1, <1>6, <1>7, <1>10, <1>11, PushFollows
<1> QED BY <1>12 DEF q

-----------------------------------------------------------------------------
(***************************************************************************)
(* Coming back.                                                            *)
(***************************************************************************)

(* The topmost handler's request, when that is a service's proxy.          *)
LEMMA TopWaits ==
  ASSUME NEW r \in Calls, Sound(r), r.stack # <<>>, Top(r).name = "http"
  PROVE  LET s == Top(r).service IN
         /\ Top(r) = Handler("http", s) /\ s \in Waiters(r) /\ s \in ServiceSet
         /\ r.path \in Paths /\ s \in MatchedBy[r.path] \cap Targeted
         /\ r.kind # "handshake" /\ r.creds = Credentials
         /\ r.kind = "plain" => FirstOf(MatchedBy[r.path]) = {s}
<1>1. Stacked(r) /\ Placed(r)
  BY DEF Sound
<1>2. Len(r.stack) \in 1 .. Len(r.stack) /\ Top(r) = r.stack[Len(r.stack)]
  BY Typed DEF Top
<1>3. Waits(r, Top(r))
  BY <1>1, <1>2 DEF Placed
<1>4. Top(r) = Handler("http", Top(r).service) /\ Top(r).service \in Waiters(r)
  BY <1>1, <1>2, WaitersReached
<1>5. Top(r).service \in ServiceSet
  BY <1>4 DEF Waiters
<1> QED BY <1>3, <1>4, <1>5 DEF Waits

(* Forward relays an upstream's answer, or has none, or has an old one.    *)
LEMMA RelayFollows ==
  ASSUME NEW r \in Calls, Sound(r), r.pc = "forward", r.kind # "upgrade",
         NEW s, s \in FirstOf(MatchedBy[r.path]) \cap Targeted,
         NEW q \in Calls, q.pc = "return", q.served = r.served \cup {s},
         q.stack = r.stack, q.at = r.at, q.attempt = r.attempt,
         q.path = r.path, q.kind = r.kind, q.creds = r.creds,
         q.failures = r.failures, q.forwards = r.forwards + 1
  PROVE  Follows(r, q)
<1>1. Answered(r) /\ r.stack # <<>> /\ Top(r).name = "http"
  BY DEF Sound, Placed
<1>2. r.path \in Paths /\ r.kind # "handshake" /\ r.creds = Credentials
  BY <1>1, TopWaits
<1>3. r.kind = "plain"
  BY <1>2, Typed DEF Kinds
<1>4. r.path # "/health" /\ r.path # "/metrics"
  BY <1>2, ConstantFacts DEF Endpoints
<1>5. Responsible(r) = FirstOf(MatchedBy[r.path]) \cap Targeted
  BY <1>2, <1>3, <1>4 DEF Responsible
<1>6. q.served \subseteq Responsible(q)
  BY <1>1, <1>5, SameResponsible DEF Answered
<1>7. Answered(q)
  BY <1>2, <1>6 DEF Answered
<1>8. q.at >= r.at
  BY Typed
<1> QED BY <1>7, <1>8, SameStackFollows

(* The service that Forward was called for is the one that has to answer.  *)
LEMMA AsksFirst ==
  ASSUME NEW r \in Calls, Sound(r), r.pc = "forward", r.kind # "upgrade"
  PROVE  LET s == Top(r).service IN
         /\ r.path \in Paths /\ s \in ServiceSet
         /\ s \in FirstOf(MatchedBy[r.path]) \cap Targeted
<1>1. r.stack # <<>> /\ Top(r).name = "http"
  BY DEF Sound, Placed
<1>2. LET s == Top(r).service IN
      /\ s \in ServiceSet /\ r.path \in Paths /\ s \in Targeted /\ r.kind # "handshake"
      /\ r.kind = "plain" => FirstOf(MatchedBy[r.path]) = {s}
  BY <1>1, TopWaits
<1>3. r.kind = "plain"
  BY <1>2, Typed DEF Kinds
<1> QED BY <1>2, <1>3

(* Forward does not proxy upgrades: c.Next(), from inside the proxy.       *)
LEMMA PassOnFollows ==
  ASSUME NEW r \in Calls, Sound(r), r.pc = "forward", r.kind = "upgrade",
         NEW q \in Calls, q.pc = "next", q.served = r.served,
         q.stack = r.stack, q.at = r.at, q.attempt = r.attempt,
         q.path = r.path, q.kind = r.kind, q.creds = r.creds,
         q.failures = r.failures, q.forwards = r.forwards + 1
  PROVE  Follows(r, q)
<1>1. Answered(r) /\ r.stack # <<>> /\ Top(r).name = "http"
  BY DEF Sound, Placed
<1>2. r.creds = Credentials
  BY <1>1, TopWaits
<1>3. ASSUME NEW k \in 1 .. q.at PROVE Passed(q, Chain[k])
  <2>1. k \in 1 .. Len(Chain)
    BY ChainFacts, Typed
  <2>2. Chain[k].name \in {"jwt", "apikey"} => Chain[k].name \in Credentials
    BY <2>1, ChainFacts
  <2> QED BY <1>2, <2>2 DEF Passed
<1>4. Answered(q)
  BY <1>1, <1>2, <1>3, SameResponsible DEF Answered
<1>5. q.at >= r.at
  BY Typed
<1> QED BY <1>4, <1>5, SameStackFollows

(* A handler comes back with its error, or with success when there was one.*)
LEMMA BackAnswered ==
  ASSUME NEW r \in Calls, Sound(r), NEW q \in Calls, q.pc = "return",
         q.path = r.path, q.kind = r.kind, q.creds = r.creds,
         q.served = r.served, q.forwards = r.forwards,
         q.err # 0 \/ (r.pc = "return" /\ r.err = 0) \/ r.path \in Endpoints
  PROVE  Answered(q)
<1>1. Answered(r)
  BY DEF Sound
<1> QED BY <1>1, SameResponsible DEF Answered

(* The front of the stack is a stack.                                      *)
LEMMA FrontStack ==
  ASSUME NEW r \in Calls, r.stack # <<>>
  PROVE  Front(r.stack) \in Stacks
BY Typed DEF Front, Stacks

-----------------------------------------------------------------------------
(***************************************************************************)
(* The actions.                                                            *)
(***************************************************************************)

(* The calls in the breaker follow those of one request.                   *)
LEMMA OneRequest ==
  ASSUME IInv, NEW c \in Requests, NEW q \in Calls, Sound(q),
         call' = [call EXCEPT ![c] = q],
         inside' = IF EnableCircuitBreaker
                   THEN {p \in Requests \X ServiceSet :
                           p[2] \in Inside(IF p[1] = c THEN q ELSE call[p[1]])}
                   ELSE {},
         cached' = cached \/ Kept'
  PROVE  IInv'
<1>1. call \in [Requests -> Calls] /\ \A d \in Requests : Sound(call[d])
  BY DEF IInv
<1>2. call' \in [Requests -> Calls]
      /\ \A d \in Requests : call'[d] = IF d = c THEN q ELSE call[d]
  BY <1>1
<1>3. \A d \in Requests : Sound(call'[d])
  BY <1>1, <1>2
<1>4. inside' = IF EnableCircuitBreaker
                THEN {p \in Requests \X ServiceSet : p[2] \in Inside(call'[p[1]])} ELSE {}
  <2>1. \A p \in Requests \X ServiceSet :
          Inside(call'[p[1]]) = Inside(IF p[1] = c THEN q ELSE call[p[1]])
    BY <1>2
  <2> QED BY <2>1, Zenon
<1>5. Kept'
  BY DEF IInv, Kept
<1> QED BY <1>2, <1>3, <1>4, <1>5 DEF IInv, Balanced

(* A step that the breaker has no part in.                                 *)
LEMMA QuietKeeps ==
  ASSUME IInv, NEW c \in Requests, NEW q, Follows(call[c], q),
         call' = [call EXCEPT ![c] = q], inside' = inside,
         cached' = cached \/ Kept'
  PROVE  IInv'
<1>1. q \in Calls /\ Sound(q) /\ Inside(q) = Inside(call[c])
  BY DEF Follows
<1>2. \A p \in Requests \X ServiceSet :
        Inside(IF p[1] = c THEN q ELSE call[p[1]]) = Inside(call[p[1]])
  BY <1>1
<1>3. inside = IF EnableCircuitBreaker
               THEN {p \in Requests \X ServiceSet : p[2] \in Inside(call[p[1]])} ELSE {}
  BY DEF IInv, Balanced
<1>4. inside' = IF EnableCircuitBreaker
                THEN {p \in Requests \X ServiceSet :
                        p[2] \in Inside(IF p[1] = c THEN q ELSE call[p[1]])}
                ELSE {}
  BY <1>2, <1>3, Zenon
<1> QED BY <1>1, <1>4, OneRequest

(* Idle is a request.                                                      *)
LEMMA IdleCall == Idle \in Calls
<1>1. [s \in ServiceSet |-> 0] \in Tries
  BY ConstantFacts DEF Tries
<1>2. 0 \in Depths /\ <<>> \in Stacks
  BY ChainFacts DEF Depths, Stacks
<1>3. /\ "idle" \in Stages /\ "/health" \in Targets /\ "plain" \in Kinds /\ {} \in Keys
      /\ 0 \in Errors /\ 200 \in Statuses /\ {} \in Answers
  BY DEF Stages, Targets, Endpoints, Kinds, Keys, Errors, Statuses, Answers
<1> QED BY <1>1, <1>2, <1>3 DEF Idle, Calls

(* A request arrives.                                                      *)
LEMMA ArriveKeeps ==
  ASSUME IInv, NEW c \in Requests, NEW path \in Paths \cup {"/health", "/metrics"},
         NEW kind \in Kinds, NEW creds \in SUBSET Credentials,
         path \notin Paths => kind = "plain", Arrive(c, path, kind, creds)
  PROVE  IInv'
<1> DEFINE q == [Idle EXCEPT !.pc = "next", !.path = path, !.kind = kind, !.creds = creds]
           r == call[c]
<1>1. r.pc = "idle" /\ call' = [call EXCEPT ![c] = q] /\ inside' = inside
      /\ cached' = cached
  BY DEF Arrive, Step, breakerVars
<1>2. r \in Calls /\ Sound(r)
  BY DEF IInv
<1>3. path \in Targets /\ creds \in Keys /\ "next" \in Stages
  BY DEF Targets, Endpoints, Keys, Stages
<1>4. q \in Calls
  BY <1>3, IdleCall DEF Calls
<1>5. /\ q.pc = "next" /\ q.at = 0 /\ q.stack = <<>> /\ q.served = {} /\ q.forwards = 0
      /\ q.failures = 0 /\ q.path = path /\ q.kind = kind
  BY DEF Idle
<1>6. Sound(q) /\ Inside(q) = {}
  <2> HIDE DEF q
  <2> QED BY <1>4, <1>5, FreshFollows
<1>7. Inside(r) = {}
  BY <1>1, <1>2 DEF Sound, Placed, Inside, Waiters
<1>8. Follows(r, q)
  BY <1>4, <1>6, <1>7 DEF Follows
<1> QED BY <1>1, <1>8, QuietKeeps

(* It is over.                                                             *)
LEMMA DoneKeeps ==
  ASSUME IInv, NEW c \in Requests, Done(c)
  PROVE  IInv'
<1> DEFINE r == call[c]
<1>1. r.pc = "done" /\ call' = [call EXCEPT ![c] = Idle] /\ inside' = inside
      /\ cached' = cached
  BY DEF Done, Step, breakerVars
<1>2. r \in Calls /\ Sound(r)
  BY DEF IInv
<1>3. Sound(Idle) /\ Inside(Idle) = {}
  <2>1. /\ Idle.pc = "idle" /\ Idle.at = 0 /\ Idle.stack = <<>> /\ Idle.served = {}
        /\ Idle.forwards = 0 /\ Idle.failures = 0 /\ Idle.kind = "plain"
    BY DEF Idle
  <2> QED BY <2>1, IdleCall, FreshFollows
<1>4. Inside(r) = {}
  BY <1>1, <1>2 DEF Sound, Placed, Inside, Waiters
<1>5. Follows(r, Idle)
  BY <1>3, <1>4, IdleCall DEF Follows
<1> QED BY <1>1, <1>5, QuietKeeps

(* No route is left.                                                       *)
LEMMA NotFoundKeeps ==
  ASSUME IInv, NEW c \in Requests, NotFound(c)
  PROVE  IInv'
<1> DEFINE r == call[c]
           q == [Returning(r, 404) EXCEPT !.at = Len(Chain)]
<1>1. r.pc = "next" /\ call' = [call EXCEPT ![c] = q] /\ inside' = inside
      /\ cached' = cached
  BY DEF NotFound, Step, breakerVars
<1>2. r \in Calls /\ Sound(r)
  BY DEF IInv
<1>3. Len(Chain) \in Depths /\ 404 \in Errors
  BY ChainFacts DEF Depths, Errors
<1>4. /\ q \in Calls /\ q.pc = "return" /\ q.err = 404 /\ q.at = Len(Chain)
      /\ Alike(r, q) /\ q.stack = r.stack /\ q.served = r.served
  <2> DEFINE t == Returning(r, 404)
  <2>1. /\ t \in Calls /\ Alike(r, t) /\ t.pc = "return" /\ t.err = 404
        /\ t.at = r.at /\ t.stack = r.stack /\ t.served = r.served
    BY <1>2, <1>3, Turned
  <2>2. /\ q \in Calls /\ Alike(t, q) /\ q.at = Len(Chain)
        /\ q.pc = t.pc /\ q.err = t.err /\ q.stack = t.stack /\ q.served = t.served
    <3>1. q = [t EXCEPT !.at = Len(Chain)]
      OBVIOUS
    <3> HIDE DEF t, q
    <3> QED BY <1>3, <2>1, <3>1, Moved
  <2> HIDE DEF t, q, r
  <2> QED BY <2>1, <2>2 DEF Alike
<1>5. q.at >= r.at
  BY <1>2, <1>4, Typed, ChainFacts
<1>6. Follows(r, q)
  <2> HIDE DEF q, r
  <2> QED BY <1>1, <1>2, <1>4, <1>5, ErrorFollows DEF Alike
<1> QED BY <1>1, <1>6, QuietKeeps

(* A route is entered: by its handler.                                     *)
LEMMA EnterKeeps ==
  ASSUME IInv, NEW c \in Requests, NEW i \in 1 .. Len(Chain), Enter(c, i)
  PROVE  IInv'
<1> DEFINE r == call[c]
           m == [r EXCEPT !.at = i]
           h == Chain[i]
           n == h.name
<1>1. AtRoute(r, i)
  <2>1. r \in Calls /\ Sound(r)
    BY DEF IInv
  <2>2. r.path = m.path
    BY <2>1 DEF Calls
  <2> QED BY <2>1, <2>2 DEF Enter, AtRoute
<1>2. h \in Handlers /\ i \in Depths /\ n \in Names
  BY ChainFacts DEF Depths, Handlers
<1>3. /\ m \in Calls /\ Alike(r, m) /\ m.at = i
      /\ m.pc = r.pc /\ m.stack = r.stack /\ m.served = r.served
  BY <1>1, <1>2, Moved DEF AtRoute
<1>4. inside' = inside
      /\ cached' = cached
  BY DEF Enter, Step, breakerVars
<1>5. /\ r \in Calls /\ Sound(r) /\ r.pc = "next" /\ i \in 1 .. Len(Chain)
      /\ IsRoute(h, r.path) /\ m.at >= r.at
  BY <1>1, <1>3, ChainFacts, Typed DEF AtRoute
<1>6. SUFFICES \E q : Follows(r, q) /\ call' = [call EXCEPT ![c] = q]
  BY <1>4, QuietKeeps
<1>7. ASSUME NEW err \in Errors \ {0} PROVE Follows(r, Returning(m, err))
  <2> DEFINE q == Returning(m, err)
  <2>1. /\ q \in Calls /\ Alike(m, q) /\ q.pc = "return" /\ q.err = err
        /\ q.at = m.at /\ q.stack = m.stack /\ q.served = m.served
    <3> HIDE DEF m
    <3> QED BY <1>3, Turned
  <2> HIDE DEF q, m, r
  <2>2. Follows(r, q)
    BY <1>3, <1>5, <2>1, ErrorFollows DEF Alike
  <2> QED BY <2>2 DEF q
<1>8. CASE n = "logger"
  <2>1. call' = [call EXCEPT ![c] = Waiting(m, h)]
    BY <1>8 DEF Enter, Step
  <2> QED BY <1>1, <1>8, <2>1, WaitFollows
<1>9. CASE n \in {"jwt", "apikey"}
  <2>1. call' = [call EXCEPT ![c] = IF n \in m.creds THEN m ELSE Returning(m, 401)]
    BY <1>9 DEF Enter, Step, Authenticate
  <2>2. CASE n \in m.creds
    <3>1. Passed(r, h)
      BY <1>3, <1>9, <2>2 DEF Passed, Alike
    <3>2. Follows(r, m)
      BY <1>1, <3>1, PassFollows
    <3> QED BY <2>1, <2>2, <3>2
  <2>3. CASE n \notin m.creds
    <3>1. Follows(r, Returning(m, 401))
      BY <1>7 DEF Errors
    <3> QED BY <2>1, <2>3, <3>1
  <2> QED BY <2>2, <2>3
<1>10. CASE n = "prometheus"
  <2>1. call' = [call EXCEPT ![c] = IF m.path = "/metrics" THEN m ELSE Waiting(m, h)]
    BY <1>10 DEF Enter, Step, Prometheus
  <2>2. Passed(r, h)
    BY <1>10 DEF Passed
  <2>3. Follows(r, m) /\ Follows(r, Waiting(m, h))
    BY <1>1, <1>10, <2>2, PassFollows, WaitFollows
  <2> QED BY <2>1, <2>3
<1>11. CASE n \in Endpoints
  <2> DEFINE t == Answering(m, 200)
             q == Served(t, n)
  <2>1. call' = [call EXCEPT ![c] = q]
    BY <1>11 DEF Enter, Step, Endpoint, Endpoints
  <2>2. /\ t \in Calls /\ Alike(m, t) /\ t.pc = "return"
        /\ t.at = m.at /\ t.stack = m.stack /\ t.served = m.served
    <3> HIDE DEF m
    <3>1. 200 \in Statuses
      BY DEF Statuses
    <3> QED BY <1>3, <3>1, AnsweredWith
  <2>3. /\ q \in Calls /\ Alike(t, q) /\ q.pc = t.pc
        /\ q.at = t.at /\ q.stack = t.stack /\ q.served = t.served \cup {n}
    <3> HIDE DEF t
    <3>1. n \in ServiceSet \cup Endpoints
      BY <1>11
    <3> QED BY <2>2, <3>1, ServedBy
  <2>4. Follows(r, q)
    <3> HIDE DEF q, t, m, r, n
    <3>1. /\ q \in Calls /\ Alike(r, q) /\ q.pc = "return"
          /\ q.at = i /\ q.stack = r.stack /\ q.served = r.served \cup {n}
      BY <1>3, <2>2, <2>3 DEF Alike
    <3>2. h.name \in Endpoints /\ n = h.name
      BY <1>11 DEF n
    <3> QED BY <1>1, <3>1, <3>2, AnswerFollows DEF Alike
  <2> QED BY <2>1, <2>4
<1>12. CASE n = "ws"
  <2> DEFINE t == Served(m, h.service)
             refused == [Returning(t, 426) EXCEPT !.status = 400]
  <2>1. \/ m.kind # "handshake" /\ call' = [call EXCEPT ![c] = m]
        \/ m.kind = "handshake" /\ call' = [call EXCEPT ![c] = Answering(t, 101)]
        \/ m.kind = "handshake" /\ call' = [call EXCEPT ![c] = refused]
    BY <1>12 DEF Enter, Step, WebSocketRoute
  <2>2. CASE m.kind # "handshake" /\ call' = [call EXCEPT ![c] = m]
    <3>1. Passed(r, h)
      BY <1>3, <1>12, <2>2 DEF Passed, Alike
    <3> QED BY <1>1, <2>2, <3>1, PassFollows
  <2>3. ASSUME m.kind = "handshake",
               NEW q, q = Answering(t, 101) \/ q = refused
        PROVE  Follows(r, q)
    <3>1. h.service \in ServiceSet
      BY <1>5, <1>12, ConstantFacts DEF IsRoute
    <3>2. /\ t \in Calls /\ Alike(m, t)
          /\ t.at = m.at /\ t.stack = m.stack /\ t.served = m.served \cup {h.service}
      <4> HIDE DEF m
      <4> QED BY <1>3, <3>1, ServedBy
    <3>3. /\ q \in Calls /\ Alike(t, q) /\ q.pc = "return"
          /\ q.at = t.at /\ q.stack = t.stack /\ q.served = t.served
      <4> HIDE DEF t
      <4>1. 101 \in Statuses /\ 400 \in Statuses /\ 426 \in Errors
        BY DEF Statuses, Errors
      <4>2. CASE q = Answering(t, 101)
        BY <3>2, <4>1, <4>2, AnsweredWith
      <4>3. CASE q = refused
        <5> DEFINE u == Returning(t, 426)
        <5>1. /\ u \in Calls /\ Alike(t, u) /\ u.pc = "return"
              /\ u.at = t.at /\ u.stack = t.stack /\ u.served = t.served
          BY <3>2, <4>1, Turned
        <5>2. q = [u EXCEPT !.status = 400]
          BY <4>3
        <5> HIDE DEF u
        <5> QED BY <4>1, <5>1, <5>2 DEF Calls, Alike
      <4> QED BY <2>3, <4>2, <4>3
    <3> HIDE DEF t, m, r, n
    <3>4. /\ q \in Calls /\ Alike(r, q) /\ q.pc = "return"
          /\ q.at = i /\ q.stack = r.stack /\ q.served = r.served \cup {h.service}
      BY <1>3, <3>2, <3>3 DEF Alike
    <3>5. Chain[i].name = "ws" /\ r.kind = "handshake"
      BY <1>3, <1>12, <2>3 DEF n, Alike
    <3> QED BY <1>1, <3>4, <3>5, AnswerFollows DEF Alike
  <2> QED BY <2>1, <2>2, <2>3
<1>13. CASE n = "http"
  <2>1. call' = [call EXCEPT ![c] = HTTPRoute(m, h)]
    BY <1>13 DEF Enter, Step
  <2>2. CASE m.kind = "handshake"
    <3>1. HTTPRoute(m, h) = m
      BY <2>2 DEF HTTPRoute
    <3>2. Passed(r, h)
      BY <1>3, <1>13, <2>2 DEF Passed, Alike
    <3> QED BY <1>1, <2>1, <3>1, <3>2, PassFollows
  <2>3. CASE m.kind # "handshake" /\ h.service \notin Targeted
    <3>1. HTTPRoute(m, h) = Returning(m, 503)
      BY <2>3 DEF HTTPRoute
    <3>2. Follows(r, Returning(m, 503))
      BY <1>7 DEF Errors
    <3> QED BY <2>1, <3>1, <3>2
  <2>4. CASE m.kind # "handshake" /\ h.service \in Targeted
    <3>1. HTTPRoute(m, h) =
            [Waiting(m, h) EXCEPT !.pc = "execute", !.attempt[h.service] = 1]
      BY <2>4 DEF HTTPRoute
    <3>2. r.kind # "handshake"
      BY <1>3, <2>4 DEF Alike
    <3>3. Follows(r, HTTPRoute(m, h))
      <4>1. h.name = "http" /\ h.service \in Targeted
        BY <1>13, <2>4
      <4>2. Follows(r, [Waiting(m, h) EXCEPT !.pc = "execute", !.attempt[h.service] = 1])
        BY <1>1, <3>2, <4>1, ProxyFollows, Zenon
      <4> QED BY <3>1, <4>2, Zenon
    <3> QED BY <2>1, <3>3
  <2> QED BY <2>2, <2>3, <2>4
<1> QED BY <1>2, <1>8, <1>9, <1>10, <1>11, <1>12, <1>13 DEF Names, Endpoints

(* Forward is called: f is the request with that call counted.             *)
LEMMA Called ==
  ASSUME NEW r \in Calls
  PROVE  LET f == [r EXCEPT !.forwards = @ + 1] IN
         /\ f \in Calls /\ f.path = r.path /\ f.kind = r.kind /\ f.creds = r.creds
         /\ f.attempt = r.attempt /\ f.failures = r.failures /\ f.forwards = r.forwards + 1
         /\ f.stack = r.stack /\ f.at = r.at /\ f.served = r.served
         /\ f.pc = r.pc
BY DEF Calls

(* It leaves upgrades to the next handler.                                 *)
LEMMA PassOnKeeps ==
  ASSUME IInv, NEW c \in Requests, PassOn(c)
  PROVE  IInv'
<1> DEFINE r == call[c]
           f == [r EXCEPT !.forwards = @ + 1]
           q == [f EXCEPT !.pc = "next"]
<1>1. /\ r.pc = "forward" /\ f.kind = "upgrade" /\ call' = [call EXCEPT ![c] = q]
      /\ inside' = inside /\ cached' = cached
  BY DEF PassOn, Step, breakerVars
<1>2. r \in Calls /\ Sound(r)
  BY DEF IInv
<1>3. /\ f \in Calls /\ f.path = r.path /\ f.kind = r.kind /\ f.creds = r.creds
      /\ f.attempt = r.attempt /\ f.failures = r.failures /\ f.forwards = r.forwards + 1
      /\ f.stack = r.stack /\ f.at = r.at /\ f.served = r.served
  <2> HIDE DEF r
  <2> QED BY <1>2, Called
<1>4. /\ q \in Calls /\ q.pc = "next" /\ Alike(f, q)
      /\ q.stack = f.stack /\ q.at = f.at /\ q.served = f.served
  <2>1. "next" \in Stages
    BY DEF Stages
  <2> HIDE DEF f
  <2> QED BY <1>3, <2>1 DEF Calls, Alike
<1>5. Follows(r, q)
  <2> HIDE DEF q, f, r
  <2> QED BY <1>1, <1>2, <1>3, <1>4, PassOnFollows DEF Alike
<1> QED BY <1>1, <1>5, QuietKeeps

(* Its own request returns, with who answered.                             *)
LEMMA ServedFollows ==
  ASSUME NEW r \in Calls, Sound(r), r.pc = "forward", r.kind # "upgrade",
         NEW s \in ServiceSet, s \in FirstOf(MatchedBy[r.path]) \cap Targeted,
         NEW q, LET v == Served([r EXCEPT !.forwards = @ + 1], s) IN
                \/ q = Returning(v, 0) \/ q = Returning(v, 502)
                \/ q = Answering(v, 200) \/ q = Answering(v, 500)
  PROVE  Follows(r, q)
<1> DEFINE f == [r EXCEPT !.forwards = @ + 1]
           v == Served(f, s)
<1>1. /\ f \in Calls /\ f.path = r.path /\ f.kind = r.kind /\ f.creds = r.creds
      /\ f.attempt = r.attempt /\ f.failures = r.failures /\ f.forwards = r.forwards + 1
      /\ f.stack = r.stack /\ f.at = r.at /\ f.served = r.served
  BY Called
<1>2. /\ v \in Calls /\ Alike(f, v)
      /\ v.at = f.at /\ v.stack = f.stack /\ v.served = f.served \cup {s}
  <2> HIDE DEF f
  <2> QED BY <1>1, ServedBy
<1>3. /\ q \in Calls /\ Alike(v, q) /\ q.pc = "return"
      /\ q.at = v.at /\ q.stack = v.stack /\ q.served = v.served
  <2>1. \/ \E e \in Errors : q = Returning(v, e)
        \/ \E t \in Statuses : q = Answering(v, t)
    BY DEF Statuses, Errors
  <2> HIDE DEF v
  <2> QED BY <1>2, <2>1, AnsweredWith, Turned
<1>4. q.served = r.served \cup {s}
  BY <1>1, <1>2, <1>3
<1> HIDE DEF f, v
<1> QED BY <1>1, <1>2, <1>3, <1>4, RelayFollows DEF Alike

(* The cache has an answer.                                                *)
LEMMA HitKeeps ==
  ASSUME IInv, NEW c \in Requests, Hit(c)
  PROVE  IInv'
<1> DEFINE r == call[c]
           f == [r EXCEPT !.forwards = @ + 1]
<1>1. r \in Calls /\ Sound(r) /\ Kept
  BY DEF IInv
<1>2. f.path = r.path /\ f.kind = r.kind
  BY <1>1, Called
<1>3. /\ r.pc = "forward" /\ r.kind # "upgrade" /\ inside' = inside /\ cached' = cached
      /\ \E s \in cached[r.path] :
           call' = [call EXCEPT ![c] = Returning(Served(f, s), 0)]
  <2> HIDE DEF r
  <2> QED BY <1>2 DEF Hit, Step, breakerVars, r
<1>4. PICK s \in cached[r.path] : call' = [call EXCEPT ![c] = Returning(Served(f, s), 0)]
  BY <1>3
<1>5. s \in ServiceSet /\ s \in FirstOf(MatchedBy[r.path]) \cap Targeted
  BY <1>1, <1>3, AsksFirst DEF Kept
<1>6. Follows(r, Returning(Served(f, s), 0))
  <2> HIDE DEF r
  <2> QED BY <1>1, <1>3, <1>5, ServedFollows
<1> QED BY <1>3, <1>4, <1>6, QuietKeeps

(* The upstream is asked.                                                  *)
LEMMA FetchKeeps ==
  ASSUME IInv, NEW c \in Requests, Fetch(c)
  PROVE  IInv'
<1> DEFINE r == call[c]
           f == [r EXCEPT !.forwards = @ + 1]
           s == Top(r).service
           v == Served(f, s)
<1>1. r \in Calls /\ Sound(r) /\ Kept
  BY DEF IInv
<1>2. /\ f.path = r.path /\ f.kind = r.kind /\ f.stack = r.stack
      /\ f.served = r.served
  BY <1>1, Called
<1>3. Top(f).service = s
  BY <1>2 DEF Top
<1>4. r.pc = "forward" /\ r.kind # "upgrade" /\ v.path = r.path /\ Top(v).service = s
  <2>1. f \in Calls
    BY <1>1, Called
  <2>2. v.kind = f.kind /\ v.path = f.path /\ v.stack = f.stack
    <3> HIDE DEF f, s
    <3> QED BY <2>1 DEF Served, Calls
  <2>3. r.pc = "forward" /\ v.kind # "upgrade"
    <3> HIDE DEF v
    <3> QED BY <1>3 DEF Fetch, v
  <2> QED BY <1>2, <2>2, <2>3 DEF Top
<1>5. /\ r.path \in Paths /\ s \in ServiceSet
      /\ s \in FirstOf(MatchedBy[r.path]) \cap Targeted
  BY <1>1, <1>4, AsksFirst
<1>6. /\ inside' = inside
      /\ cached' = cached \/ cached' = [cached EXCEPT ![r.path] = {s}]
      /\ \/ call' = [call EXCEPT ![c] = Answering(v, 200)]
         \/ call' = [call EXCEPT ![c] = Answering(v, 500)]
         \/ call' = [call EXCEPT ![c] = Returning(v, 502)]
  <2> HIDE DEF v
  <2> QED BY <1>3, <1>4 DEF Fetch, Step, breakerVars, v
<1>7. cached' = cached \/ Kept'
  <2> HIDE DEF r, s
  <2> QED BY <1>1, <1>5, <1>6 DEF Kept
<1>8. PICK q : /\ call' = [call EXCEPT ![c] = q]
               /\ q = Answering(v, 200) \/ q = Answering(v, 500) \/ q = Returning(v, 502)
  BY <1>6
<1>9. Follows(r, q)
  <2> HIDE DEF r, s
  <2> QED BY <1>1, <1>4, <1>5, <1>8, ServedFollows
<1> QED BY <1>6, <1>7, <1>8, <1>9, QuietKeeps

(* The metrics, then the logger, come back from their c.Next().            *)
LEMMA CountKeeps ==
  ASSUME IInv, NEW c \in Requests, Count(c)
  PROVE  IInv'
<1> DEFINE r == call[c]
           q == [r EXCEPT !.stack = Front(@)]
<1>1. /\ r \in Calls /\ Sound(r) /\ r.pc = "return" /\ r.stack # <<>>
      /\ Top(r).name = "prometheus"
      /\ call' = [call EXCEPT ![c] = q] /\ inside' = inside
      /\ cached' = cached
  BY DEF IInv, Count, Returned, Step, breakerVars
<1>2. Front(r.stack) \in Stacks
  BY <1>1, FrontStack
<1>3. /\ q \in Calls /\ Alike(r, q) /\ q.pc = r.pc /\ q.err = r.err /\ q.at = r.at
      /\ q.stack = Front(r.stack) /\ q.served = r.served
  <2> HIDE DEF r
  <2> QED BY <1>1, <1>2 DEF Calls, Alike
<1>4. Follows(r, q)
  <2> HIDE DEF r, q
  <2>1. Answered(q)
    BY <1>1, <1>3, BackAnswered DEF Alike
  <2> QED BY <1>1, <1>3, <2>1, PopFollows DEF Alike, Follows
<1> QED BY <1>1, <1>4, QuietKeeps

(* The logger drops the error of two paths only.                           *)
LEMMA LogKeeps ==
  ASSUME IInv, NEW c \in Requests, Log(c)
  PROVE  IInv'
<1> DEFINE r == call[c]
           p == [r EXCEPT !.stack = Front(@)]
<1>1. /\ r \in Calls /\ Sound(r) /\ r.pc = "return" /\ r.stack # <<>>
      /\ Top(r).name = "logger" /\ inside' = inside
      /\ cached' = cached
  BY DEF IInv, Log, Returned, Step, breakerVars
<1>2. Front(r.stack) \in Stacks
  BY <1>1, FrontStack
<1>3. /\ p \in Calls /\ Alike(r, p) /\ p.pc = r.pc /\ p.err = r.err /\ p.at = r.at
      /\ p.stack = Front(r.stack) /\ p.served = r.served /\ p.status \in Nat
  <2> HIDE DEF r
  <2> QED BY <1>1, <1>2 DEF Calls, Alike, Statuses
<1>4. PICK q : /\ call' = [call EXCEPT ![c] = q]
               /\ \/ q = [p EXCEPT !.err = 0] /\ p.path \in Endpoints
                  \/ q = [p EXCEPT !.logged = p.status]
  BY DEF Log, Step, Endpoints
<1>5. /\ q \in Calls /\ Alike(p, q) /\ q.pc = p.pc /\ q.at = p.at
      /\ q.stack = p.stack /\ q.served = p.served
      /\ q.err = p.err \/ p.path \in Endpoints
  <2>1. 0 \in Errors
    BY DEF Errors
  <2> HIDE DEF p
  <2> QED BY <1>3, <1>4, <2>1 DEF Calls, Alike
<1>6. Follows(r, q)
  <2> HIDE DEF r, p
  <2>1. Answered(q)
    BY <1>1, <1>3, <1>5, BackAnswered DEF Alike
  <2> QED BY <1>1, <1>3, <1>5, <2>1, PopFollows DEF Alike, Follows
<1> QED BY <1>1, <1>4, <1>6, QuietKeeps

(* The error handler answers.                                              *)
LEMMA AnswerKeeps ==
  ASSUME IInv, NEW c \in Requests, Answer(c)
  PROVE  IInv'
<1> DEFINE r == call[c]
           status == IF r.err = 0 THEN r.status ELSE r.err
           q == [r EXCEPT !.pc = "done", !.err = 0, !.status = status]
<1>1. /\ r \in Calls /\ Sound(r) /\ r.pc = "return" /\ r.stack = <<>> /\ inside' = inside
      /\ cached' = cached
  BY DEF IInv, Answer, Step, breakerVars
<1>2. call' = [call EXCEPT ![c] = q]
  <2>1. q = [r EXCEPT !.pc = "done", !.err = 0,
                      !.status = IF r.err = 0 THEN @ ELSE r.err]
    OBVIOUS
  <2> QED BY <2>1, Zenon DEF Answer, Step
<1>3. status \in Statuses /\ (r.err # 0 => status >= 400)
  <2>1. r.err \in Errors /\ r.status \in Statuses
    BY <1>1 DEF Calls
  <2> QED BY <2>1 DEF Errors, Statuses
<1>4. /\ q \in Calls /\ Alike(r, q) /\ q.pc = "done" /\ q.at = r.at /\ q.err = 0
      /\ q.stack = r.stack /\ q.served = r.served /\ q.status = status
  <2>1. "done" \in Stages /\ 0 \in Errors
    BY DEF Stages, Errors
  <2> HIDE DEF r, status
  <2> QED BY <1>1, <1>3, <2>1 DEF Calls, Alike
<1>5. Waiters(q) = {} /\ Waiters(r) = {}
  BY <1>1, <1>4 DEF Waiters
<1>6. Follows(r, q)
  <2>1. r.err # 0 => ~(status < 400)
    <3>1. status \in Nat
      BY <1>3 DEF Statuses
    <3> HIDE DEF status
    <3> QED BY <1>3, <3>1
  <2> HIDE DEF r, q, status
  <2>2. Stacked(r) /\ Placed(r) /\ Answered(r) /\ Worked(r)
    BY <1>1 DEF Sound
  <2>3. Stacked(q) /\ Placed(q)
    BY <1>1, <1>4, <2>2 DEF Stacked, Placed, Alike
  <2>4. Answered(q)
    BY <1>1, <1>4, <2>1, <2>2, SameResponsible DEF Answered, Alike
  <2>5. Reached(q) = Reached(r)
    BY <1>4 DEF Reached, Alike
  <2>6. Spent(q) = Spent(r)
    BY <1>5, <2>5 DEF Spent
  <2>7. Worked(q)
    BY <1>4, <1>5, <2>2, <2>5, <2>6 DEF Worked, Alike
  <2>8. Inside(q) = Inside(r)
    BY <1>5 DEF Inside
  <2> QED BY <1>4, <2>3, <2>4, <2>7, <2>8 DEF Follows, Sound
<1> QED BY <1>1, <1>2, <1>6, QuietKeeps

(* The proxies of two requests, or of two services, are different callers. *)
LEMMA OneCaller ==
  ASSUME NEW f \in [Requests -> SUBSET ServiceSet], NEW c \in Requests,
         NEW s \in ServiceSet, NEW g \in SUBSET ServiceSet
  PROVE  LET in(h) == {p \in Requests \X ServiceSet : p[2] \in h[p[1]]} IN
         /\ g = f[c] \cup {s} => in([f EXCEPT ![c] = g]) = in(f) \cup {<<c, s>>}
         /\ g = f[c] \ {s} => in([f EXCEPT ![c] = g]) = in(f) \ {<<c, s>>}
<1>1. \A d \in Requests : [f EXCEPT ![c] = g][d] = IF d = c THEN g ELSE f[d]
  OBVIOUS
<1>2. \A p \in Requests \X ServiceSet : p = <<c, s>> <=> p[1] = c /\ p[2] = s
  OBVIOUS
<1> QED BY <1>1, <1>2

(* The calls in the breaker when a request has let one in, or out.         *)
LEMMA CallersFollow ==
  ASSUME IInv, EnableCircuitBreaker, NEW c \in Requests, NEW q, NEW s \in ServiceSet,
         Inside(q) \subseteq ServiceSet
  PROVE  LET in == {p \in Requests \X ServiceSet :
                      p[2] \in Inside(IF p[1] = c THEN q ELSE call[p[1]])} IN
         /\ Inside(q) = Inside(call[c]) \cup {s} => in = inside \cup {<<c, s>>}
         /\ Inside(q) = Inside(call[c]) \ {s} => in = inside \ {<<c, s>>}
<1> DEFINE f == [d \in Requests |-> Inside(call[d])]
           g == [f EXCEPT ![c] = Inside(q)]
           in(h) == {p \in Requests \X ServiceSet : p[2] \in h[p[1]]}
<1>1. f \in [Requests -> SUBSET ServiceSet]
  BY DEF Inside, Waiters
<1>2. inside = in(f)
  <2>1. inside = {p \in Requests \X ServiceSet : p[2] \in Inside(call[p[1]])}
    BY DEF IInv, Balanced
  <2>2. \A p \in Requests \X ServiceSet : f[p[1]] = Inside(call[p[1]])
    OBVIOUS
  <2> QED BY <2>1, <2>2
<1>3. {p \in Requests \X ServiceSet :
         p[2] \in Inside(IF p[1] = c THEN q ELSE call[p[1]])} = in(g)
  <2>1. \A p \in Requests \X ServiceSet :
          g[p[1]] = Inside(IF p[1] = c THEN q ELSE call[p[1]])
    OBVIOUS
  <2> QED BY <2>1
<1>4. f[c] = Inside(call[c])
  OBVIOUS
<1>5. /\ Inside(q) = f[c] \cup {s} => in(g) = in(f) \cup {<<c, s>>}
      /\ Inside(q) = f[c] \ {s} => in(g) = in(f) \ {<<c, s>>}
  BY <1>1, OneCaller
<1> QED BY <1>2, <1>3, <1>4, <1>5

(* The breaker lets a proxy in.                                            *)
LEMMA ExecuteKeeps ==
  ASSUME IInv, NEW c \in Requests, Execute(c)
  PROVE  IInv'
<1> DEFINE r == call[c]
           s == Top(r).service
           q == [r EXCEPT !.pc = "forward"]
<1>1. /\ call \in [Requests -> Calls] /\ r \in Calls /\ Sound(r) /\ r.pc = "execute"
      /\ call' = [call EXCEPT ![c] = q]
  BY DEF IInv, Execute
<1>2. r.stack # <<>> /\ Top(r).name = "http" /\ Answered(r)
  BY <1>1 DEF Sound, Placed
<1>3. /\ q \in Calls /\ Alike(r, q) /\ q.pc = "forward" /\ q.at = r.at
      /\ q.stack = r.stack /\ q.served = r.served
  <2>1. "forward" \in Stages
    BY DEF Stages
  <2> HIDE DEF r
  <2> QED BY <1>1, <2>1 DEF Calls, Alike
<1>4. Sound(q) /\ s \in Waiters(r) /\ Inside(q) = Waiters(r)
  <2> HIDE DEF r, q, s
  <2>1. Answered(q)
    BY <1>2, <1>3, SameResponsible DEF Answered, Alike
  <2> QED BY <1>1, <1>2, <1>3, <2>1, ForwardingFollows DEF Alike, s
<1>5. Waiters(r) \subseteq ServiceSet
  BY DEF Waiters
<1>6. Inside(r) = Waiters(r) \ {s}
  BY <1>1 DEF Inside
<1>7. s \in ServiceSet /\ Inside(q) \subseteq ServiceSet /\ Inside(q) = Inside(r) \cup {s}
  <2> HIDE DEF r, q, s
  <2> QED BY <1>4, <1>5, <1>6
<1> DEFINE in == {p \in Requests \X ServiceSet :
                    p[2] \in Inside(IF p[1] = c THEN q ELSE call[p[1]])}
<1>8. inside' = IF EnableCircuitBreaker THEN in ELSE {}
  <2>1. CASE EnableCircuitBreaker
    <3>1. inside' = inside \cup {<<c, s>>}
      BY <2>1 DEF Execute, Caller, B!Admit
    <3>2. in = inside \cup {<<c, s>>}
      <4> HIDE DEF q, s
      <4> QED BY <1>7, <2>1, CallersFollow
    <3> QED BY <2>1, <3>1, <3>2
  <2>2. CASE ~EnableCircuitBreaker
    BY <2>2 DEF Execute, breakerVars, IInv, Balanced
  <2> QED BY <2>1, <2>2
<1>9. cached' = cached
  BY DEF Execute
<1> QED BY <1>1, <1>3, <1>4, <1>8, <1>9, OneRequest

(* One that the breaker has refused.                                       *)
LEMMA RefusedKeeps ==
  ASSUME IInv, NEW c \in Requests, NEW err \in Errors \ {0}, call[c].pc = "execute",
         call' = [call EXCEPT ![c] =
                    [Returning(call[c], err) EXCEPT !.stack = Front(@)]],
         inside' = inside, cached' = cached
  PROVE  IInv'
<1> DEFINE r == call[c]
           s == Top(r).service
           t == Returning(r, err)
           q == [t EXCEPT !.stack = Front(@)]
<1>1. r \in Calls /\ Sound(r) /\ r.pc = "execute"
  BY DEF IInv
<1>2. call' = [call EXCEPT ![c] = q]
  OBVIOUS
<1>3. r.stack # <<>> /\ Top(r).name = "http"
  BY <1>1 DEF Sound, Placed
<1>4. /\ t \in Calls /\ Alike(r, t) /\ t.pc = "return" /\ t.err = err
      /\ t.at = r.at /\ t.stack = r.stack /\ t.served = r.served
  <2> HIDE DEF r
  <2> QED BY <1>1, Turned
<1>5. /\ q \in Calls /\ Alike(t, q) /\ q.pc = t.pc /\ q.err = t.err /\ q.at = t.at
      /\ q.stack = Front(t.stack) /\ q.served = t.served
  <2> HIDE DEF t, r
  <2>1. Front(t.stack) \in Stacks
    BY <1>3, <1>4, FrontStack
  <2> QED BY <1>4, <2>1 DEF Calls, Alike
<1>6. Sound(q) /\ Inside(q) = Inside(r)
  <2> HIDE DEF r, q, t
  <2>1. Answered(q)
    BY <1>1, <1>4, <1>5, BackAnswered DEF Alike
  <2>2. Sound(q) /\ Inside(q) = Waiters(r) \ {Top(r).service}
    BY <1>1, <1>3, <1>4, <1>5, <2>1, PopFollows DEF Alike
  <2>3. Inside(r) = Waiters(r) \ {Top(r).service}
    BY <1>1 DEF Inside
  <2> QED BY <2>2, <2>3
<1>7. Follows(r, q)
  BY <1>5, <1>6 DEF Follows
<1> QED BY <1>2, <1>7, QuietKeeps

(* The breaker refuses it.                                                 *)
LEMMA RefuseKeeps ==
  ASSUME IInv, NEW c \in Requests, NEW err \in Errors \ {0}, Refuse(c, err)
  PROVE  IInv'
<1>1. /\ call[c].pc = "execute"
      /\ call' = [call EXCEPT ![c] =
                    [Returning(call[c], err) EXCEPT !.stack = Front(@)]]
      /\ B!RefuseOpen(Caller(c)) \/ B!RefuseTooMany(Caller(c))
      /\ cached' = cached
  BY Zenon DEF Refuse
<1>2. inside' = inside
  BY <1>1, Zenon DEF B!RefuseOpen, B!RefuseTooMany, B!breakerVars
<1> QED BY <1>1, <1>2, RefusedKeeps, Zenon

(* The retrier tries again.                                                *)
LEMMA RetryKeeps ==
  ASSUME IInv, NEW c \in Requests, Retry(c)
  PROVE  IInv'
<1> DEFINE r == call[c]
           s == Top(r).service
           q == [r EXCEPT !.pc = "forward", !.attempt[s] = @ + 1]
<1>1. /\ call \in [Requests -> Calls] /\ r \in Calls /\ Sound(r) /\ r.pc = "return"
      /\ r.stack # <<>> /\ Top(r).name = "http" /\ r.attempt[s] < Attempts
      /\ inside' = inside
      /\ cached' = cached
  BY DEF IInv, Retry, Returned, Step, breakerVars
<1>2. call' = [call EXCEPT ![c] = q]
  BY DEF Retry, Step
<1>3. s \in Waiters(r) /\ s \in ServiceSet /\ Answered(r)
  BY <1>1, TopWaits DEF Sound
<1>4. [r.attempt EXCEPT ![s] = @ + 1] \in Tries
  <2>1. r.attempt \in [ServiceSet -> 0 .. Attempts] /\ Attempts \in Nat
    BY <1>1, Typed, ConstantFacts
  <2>2. r.attempt[s] + 1 \in 0 .. Attempts
    BY <1>1, <1>3, <2>1
  <2> HIDE DEF s
  <2> QED BY <2>1, <2>2 DEF Tries
<1>5. /\ q \in Calls /\ q.pc = "forward" /\ q.at = r.at
      /\ q.stack = r.stack /\ q.served = r.served
      /\ q.path = r.path /\ q.kind = r.kind /\ q.creds = r.creds
      /\ q.failures = r.failures /\ q.forwards = r.forwards
      /\ q.attempt = [r.attempt EXCEPT ![s] = @ + 1]
  <2>1. "forward" \in Stages
    BY DEF Stages
  <2> HIDE DEF r, s
  <2> QED BY <1>1, <1>4, <2>1 DEF Calls
<1>6. Follows(r, q)
  <2> HIDE DEF r, q
  <2>1. Answered(q)
    BY <1>3, <1>5, SameResponsible DEF Answered
  <2>2. Sound(q) /\ Inside(q) = Waiters(r)
    BY <1>1, <1>5, <2>1, ForwardingFollows
  <2>3. Inside(r) = Waiters(r)
    BY <1>1 DEF Inside
  <2> QED BY <1>5, <2>2, <2>3 DEF Follows
<1> QED BY <1>1, <1>2, <1>6, QuietKeeps

(* The proxy returns through the breaker.                                  *)
LEMMA LeaveKeeps ==
  ASSUME IInv, NEW c \in Requests, Leave(c)
  PROVE  IInv'
<1> DEFINE r == call[c]
           s == Top(r).service
           n == IF r.err = 0 THEN r.failures ELSE r.failures + 1
           q == [r EXCEPT !.stack = Front(@), !.attempt[s] = 0, !.failures = n]
<1>1. /\ call \in [Requests -> Calls] /\ r \in Calls /\ Sound(r) /\ r.pc = "return"
      /\ r.stack # <<>> /\ Top(r).name = "http"
  BY DEF IInv, Leave, Returned
<1>2. call' = [call EXCEPT ![c] = q]
  <2>1. q = [r EXCEPT !.stack = Front(@), !.attempt[s] = 0,
                      !.failures = IF r.err = 0 THEN @ ELSE @ + 1]
    BY <1>1 DEF Calls
  <2> QED BY <2>1, Zenon DEF Leave
<1>3. /\ Top(r) = Handler("http", s) /\ s \in Waiters(r) /\ s \in ServiceSet
  BY <1>1, TopWaits
<1>4. [r.attempt EXCEPT ![s] = 0] \in Tries /\ Front(r.stack) \in Stacks /\ n \in Nat
  <2>1. r.attempt \in [ServiceSet -> 0 .. Attempts] /\ Attempts \in Nat /\ r.failures \in Nat
    BY <1>1, Typed, ConstantFacts
  <2>2. Front(r.stack) \in Stacks
    BY <1>1, FrontStack
  <2>3. n \in Nat
    BY <2>1
  <2>4. [r.attempt EXCEPT ![s] = 0] \in Tries
    <3>1. 0 \in 0 .. Attempts
      BY <2>1
    <3> HIDE DEF s, r
    <3> QED BY <2>1, <3>1 DEF Tries
  <2> QED BY <2>2, <2>3, <2>4
<1>5. /\ q \in Calls /\ q.pc = r.pc /\ q.err = r.err /\ q.at = r.at
      /\ q.stack = Front(r.stack) /\ q.served = r.served
      /\ q.path = r.path /\ q.kind = r.kind /\ q.creds = r.creds
      /\ q.failures = n /\ q.forwards = r.forwards
      /\ q.attempt = [r.attempt EXCEPT ![s] = 0]
  <2> HIDE DEF r, s, n
  <2> QED BY <1>1, <1>4 DEF Calls
<1>6. \A t \in ServiceSet : q.attempt[t] = r.attempt[t] \/ Top(r) = Handler("http", t)
  <2>1. r.attempt \in [ServiceSet -> 0 .. Attempts]
    BY <1>1, Typed
  <2> HIDE DEF r, q, s
  <2> QED BY <1>3, <1>5, <2>1
<1>7. Sound(q) /\ Inside(q) = Waiters(r) \ {s}
  <2>1. q.failures = r.failures \/ q.failures = r.failures + 1
    BY <1>5
  <2> HIDE DEF r, q, n
  <2>2. Answered(q)
    <3>1. Answered(r)
      BY <1>1 DEF Sound
    <3> QED BY <1>1, <1>5, <3>1, SameResponsible DEF Answered
  <2> QED BY <1>1, <1>5, <1>6, <2>1, <2>2, PopFollows
<1>8. Inside(r) = Waiters(r) /\ Waiters(r) \subseteq ServiceSet
  BY <1>1 DEF Inside, Waiters
<1>9. Inside(q) \subseteq ServiceSet /\ Inside(q) = Inside(r) \ {s}
  BY <1>7, <1>8
<1> DEFINE in == {p \in Requests \X ServiceSet :
                    p[2] \in Inside(IF p[1] = c THEN q ELSE call[p[1]])}
<1>10. inside' = IF EnableCircuitBreaker THEN in ELSE {}
  <2>1. CASE EnableCircuitBreaker
    <3>1. inside' = inside \ {<<c, s>>}
      BY <2>1 DEF Leave, Caller, B!Report
    <3>2. in = inside \ {<<c, s>>}
      <4> HIDE DEF q, s
      <4> QED BY <1>3, <1>9, <2>1, CallersFollow
    <3> QED BY <2>1, <3>1, <3>2
  <2>2. CASE ~EnableCircuitBreaker
    BY <2>2 DEF Leave, breakerVars, IInv, Balanced
  <2> QED BY <2>1, <2>2
<1>11. cached' = cached
  BY DEF Leave
<1> QED BY <1>2, <1>5, <1>7, <1>10, <1>11, OneRequest

-----------------------------------------------------------------------------
(***************************************************************************)
(* The invariant.                                                          *)
(***************************************************************************)

(* It holds at the start.                                                  *)
LEMMA InitIInv == Init => IInv
<1> SUFFICES ASSUME Init PROVE IInv
  OBVIOUS
<1>1. call = [c \in Requests |-> Idle] /\ inside = {}
  BY DEF Init, B!Init
<1>2. Sound(Idle) /\ Inside(Idle) = {}
  <2>1. /\ Idle.pc = "idle" /\ Idle.at = 0 /\ Idle.stack = <<>> /\ Idle.served = {}
        /\ Idle.forwards = 0 /\ Idle.failures = 0 /\ Idle.kind = "plain"
    BY DEF Idle
  <2> QED BY <2>1, IdleCall, FreshFollows
<1>3. \A c \in Requests : call[c] = Idle
  BY <1>1
<1>4. call \in [Requests -> Calls] /\ \A c \in Requests : Sound(call[c])
  BY <1>1, <1>2, <1>3, IdleCall
<1>5. \A p \in Requests \X ServiceSet : Inside(call[p[1]]) = {}
  BY <1>2, <1>3
<1>6. Balanced
  BY <1>1, <1>5 DEF Balanced
<1>7. Kept
  BY DEF Init, Kept
<1> QED BY <1>4, <1>6, <1>7 DEF IInv

(* And whatever happens keeps it.                                          *)
LEMMA NextIInv == IInv /\ [Next]_vars => IInv'
<1> SUFFICES ASSUME IInv, [Next]_vars PROVE IInv'
  OBVIOUS
<1>1. ASSUME NEW c \in Requests, NEW path \in Paths \cup {"/health", "/metrics"},
             NEW kind \in Kinds, NEW creds \in SUBSET Credentials,
             path \notin Paths => kind = "plain", Arrive(c, path, kind, creds)
      PROVE  IInv'
  BY <1>1, ArriveKeeps
<1>2. ASSUME NEW c \in Requests,
             \/ NotFound(c) \/ Execute(c) \/ Forward(c) \/ Retry(c) \/ Leave(c)
             \/ Count(c) \/ Log(c) \/ Answer(c) \/ Done(c)
      PROVE  IInv'
  <2>1. CASE Forward(c)
    BY <2>1, PassOnKeeps, HitKeeps, FetchKeeps DEF Forward
  <2> QED BY <1>2, <2>1, NotFoundKeeps, ExecuteKeeps, RetryKeeps, LeaveKeeps,
             CountKeeps, LogKeeps, AnswerKeeps, DoneKeeps
<1>3. ASSUME NEW c \in Requests, NEW i \in 1 .. Len(Chain), Enter(c, i) PROVE IInv'
  BY <1>3, EnterKeeps
<1>4. ASSUME NEW c \in Requests, NEW err \in {500, 503}, Refuse(c, err) PROVE IInv'
  <2>1. err \in Errors \ {0}
    BY DEF Errors
  <2> QED BY <1>4, <2>1, RefuseKeeps, Zenon
<1>5. CASE Tick
  BY <1>5 DEF Tick, B!Tick, IInv, Balanced, Kept
<1>6. CASE UNCHANGED vars
  BY <1>6 DEF vars, IInv, Balanced, Kept
<1> QED BY <1>1, <1>2, <1>3, <1>4, <1>5, <1>6 DEF Next

-----------------------------------------------------------------------------
(***************************************************************************)
(* The breaker in the chain.  P is Breaker again, with its proofs; its     *)
(* actions are B's, so its invariant holds here too, although a request    *)
(* can be several of its callers at a time.                                *)
(***************************************************************************)

P == INSTANCE BreakerProofs WITH Callers <- Requests \X ServiceSet

(* P counts as B does.                                                     *)
LEMMA SameFinite ==
  /\ \A S : P!IsFiniteSet(S) <=> B!IsFiniteSet(S)
  /\ \A S : P!Cardinality(S) = B!Cardinality(S)
<1>1. ASSUME NEW S PROVE P!IsFiniteSet(S) <=> B!IsFiniteSet(S)
  BY Zenon DEF P!IsFiniteSet, B!IsFiniteSet
<1>2. ASSUME NEW S PROVE P!Cardinality(S) = B!Cardinality(S)
  BY Zenon DEF P!Cardinality, B!Cardinality
<1> QED BY <1>1, <1>2

(* The settings the breaker is proved for.                                 *)
LEMMA SameAssumption == P!BreakerAssumption
BY ChainBreakerAssumption, SameFinite DEF P!BreakerAssumption, B!BreakerAssumption

(* The breaker starts as P's.                                              *)
LEMMA BreakerStarts == B!Init => P!IInv
<1>1. P!Init => P!IInv
  BY P!InitIInv, SameAssumption
<1>2. B!Init => P!Init
  BY Zenon DEF B!Init, P!Init
<1> QED BY <1>1, <1>2

(* P's invariant, kept by a step that B's breaker takes.                   *)
LEMMA BreakerKeeps == P!IInv /\ [P!Next]_breakerVars => P!IInv'
<1>1. P!IInv /\ [P!Next]_(P!breakerVars) => P!IInv'
  BY P!NextIInv, SameAssumption
<1> QED BY <1>1 DEF breakerVars, P!breakerVars

(* gobreaker's functions are the same in both.                             *)
LEMMA SameFunctions ==
  /\ \A b : P!Current(b) = B!Current(b)
  /\ \A b, t, ok : P!Reported(b, t, ok) = B!Reported(b, t, ok)
<1>1. \A n : P!Increment(n) = B!Increment(n)
  BY DEF P!Increment, B!Increment
<1>2. P!MaxRequests = B!MaxRequests /\ P!Cooldown = B!Cooldown
  BY DEF P!MaxRequests, B!MaxRequests, P!Cooldown, B!Cooldown
<1>3. \A b, t : P!SetState(b, t) = B!SetState(b, t)
  BY <1>2 DEF P!SetState, B!SetState
<1>4. \A b : P!ReadyToTrip(b) <=> B!ReadyToTrip(b)
  BY DEF P!ReadyToTrip, B!ReadyToTrip
<1>5. ASSUME NEW b PROVE P!Current(b) = B!Current(b)
  BY <1>3 DEF P!Current, B!Current
<1>6. ASSUME NEW b PROVE P!Succeeded(b) = B!Succeeded(b)
  <2>1. P!Increment(b.successes) = B!Increment(b.successes)
        /\ P!Increment(b.streak) = B!Increment(b.streak)
    BY <1>1
  <2> QED BY <1>2, <1>3, <2>1, Zenon DEF P!Succeeded, B!Succeeded
<1>7. ASSUME NEW b PROVE P!Failed(b) = B!Failed(b)
  <2>1. P!Increment(b.failures) = B!Increment(b.failures)
    BY <1>1
  <2> QED BY <1>3, <1>4, <2>1 DEF P!Failed, B!Failed
<1>8. ASSUME NEW b, NEW t, NEW ok PROVE P!Reported(b, t, ok) = B!Reported(b, t, ok)
  BY <1>6, <1>7 DEF P!Reported, B!Reported
<1> QED BY <1>5, <1>8

(* A step of B's breaker is a step of P's.                                 *)
LEMMA BreakersSteps == [B!Next]_breakerVars => [P!Next]_breakerVars
<1> DEFINE Callers == Requests \X ServiceSet
<1>1. ASSUME NEW c \in Callers, B!Admit(c) PROVE P!Admit(c)
  BY <1>1, SameFunctions DEF B!Admit, P!Admit, B!Admitted, P!Admitted, B!NoteWrap,
     P!NoteWrap, B!MaxRequests, P!MaxRequests, B!Increment, P!Increment
<1>2. ASSUME NEW c \in Callers, B!RefuseOpen(c) \/ B!RefuseTooMany(c)
      PROVE  P!RefuseOpen(c) \/ P!RefuseTooMany(c)
  BY <1>2, SameFunctions DEF B!RefuseOpen, P!RefuseOpen, B!RefuseTooMany,
     P!RefuseTooMany, B!NoteWrap, P!NoteWrap, B!MaxRequests, P!MaxRequests,
     B!breakerVars, P!breakerVars
<1>3. ASSUME NEW c \in Callers, NEW ok \in BOOLEAN, B!Report(c, ok) PROVE P!Report(c, ok)
  BY <1>3, SameFunctions DEF B!Report, P!Report, B!NoteWrap, P!NoteWrap
<1>4. B!ReadState => P!ReadState
  BY SameFunctions DEF B!ReadState, P!ReadState, B!NoteWrap, P!NoteWrap
<1>5. B!Tick => P!Tick
  BY DEF B!Tick, P!Tick
<1> QED BY <1>1, <1>2, <1>3, <1>4, <1>5 DEF B!Next, P!Next

(* The proxy at the top of a request's stack is a caller of the breaker.   *)
LEMMA CallerIs ==
  ASSUME IInv, NEW c \in Requests, call[c].stack # <<>>, Top(call[c]).name = "http"
  PROVE  Caller(c) \in Requests \X ServiceSet
<1>1. call[c] \in Calls /\ Sound(call[c])
  BY DEF IInv
<1>2. Top(call[c]).service \in ServiceSet
  BY <1>1, TopWaits
<1> QED BY <1>2 DEF Caller

(* A step of the chain is a step of its breaker, or none.                  *)
LEMMA StepsBreaker == IInv /\ [Next]_vars => [B!Next]_breakerVars
<1> SUFFICES ASSUME IInv, [Next]_vars PROVE [B!Next]_breakerVars
  OBVIOUS
<1>1. ASSUME NEW c \in Requests, call[c].pc = "execute"
      PROVE  Caller(c) \in Requests \X ServiceSet
  <2>1. Placed(call[c])
    BY DEF IInv, Sound
  <2> QED BY <1>1, <2>1, CallerIs DEF Placed
<1>2. ASSUME NEW c \in Requests, Execute(c) PROVE [B!Next]_breakerVars
  <2>1. CASE EnableCircuitBreaker
    BY <1>1, <1>2, <2>1 DEF Execute, B!Next
  <2>2. CASE ~EnableCircuitBreaker
    BY <1>2, <2>2 DEF Execute
  <2> QED BY <2>1, <2>2
<1>3. ASSUME NEW c \in Requests, NEW err \in {500, 503}, Refuse(c, err)
      PROVE  [B!Next]_breakerVars
  BY <1>1, <1>3 DEF Refuse, B!Next
<1>4. ASSUME NEW c \in Requests, Leave(c) PROVE [B!Next]_breakerVars
  <2>1. Caller(c) \in Requests \X ServiceSet
    BY <1>4, CallerIs DEF Leave, Returned
  <2>2. CASE EnableCircuitBreaker
    <3>1. B!Report(Caller(c), call[c].err = 0)
      BY <1>4, <2>2, Zenon DEF Leave
    <3>2. (call[c].err = 0) \in BOOLEAN
      OBVIOUS
    <3>3. \E p \in Requests \X ServiceSet, ok \in BOOLEAN : B!Report(p, ok)
      BY <2>1, <3>1, <3>2, Zenon
    <3> QED BY <3>3, Zenon DEF B!Next
  <2>3. CASE ~EnableCircuitBreaker
    BY <1>4, <2>3 DEF Leave
  <2> QED BY <2>2, <2>3
<1>5. CASE Tick
  BY <1>5 DEF Tick, B!Next
<1>6. CASE UNCHANGED vars
  BY <1>6 DEF vars, breakerVars
<1>7. ASSUME NEW c \in Requests,
             \/ NotFound(c) \/ Forward(c) \/ Retry(c)
             \/ Count(c) \/ Log(c) \/ Answer(c) \/ Done(c)
      PROVE  UNCHANGED breakerVars
  BY <1>7 DEF NotFound, Forward, PassOn, Hit, Fetch, Retry, Count, Log, Answer, Done, Step
<1>8. ASSUME NEW c \in Requests, NEW i \in 1 .. Len(Chain), Enter(c, i)
      PROVE  UNCHANGED breakerVars
  BY <1>8, Zenon DEF Enter, Step
<1>9. ASSUME NEW c \in Requests, NEW path, NEW kind, NEW creds, Arrive(c, path, kind, creds)
      PROVE  UNCHANGED breakerVars
  BY <1>9 DEF Arrive, Step
<1> QED BY <1>2, <1>3, <1>4, <1>5, <1>6, <1>7, <1>8, <1>9 DEF Next

-----------------------------------------------------------------------------
(***************************************************************************)
(* What holds of the chain.                                                *)
(***************************************************************************)

(* The inductive invariant holds in every state.                           *)
THEOREM ChainInvariant == Spec => []IInv
<1> QED BY InitIInv, NextIInv, PTL DEF Spec

(* Nested as its callers may be, the breaker in the chain is the breaker:  *)
(* a handleHTTP inside a handleHTTP enters and leaves it as any caller     *)
(* does, once and in turn.                                                 *)
THEOREM ChainImplementsBreaker == Spec => B!Spec
<1>1. Init => B!Init
  BY DEF Init
<1>2. IInv /\ [Next]_vars => [B!Next]_(B!breakerVars)
  BY StepsBreaker DEF breakerVars, B!breakerVars
<1> QED BY <1>1, <1>2, ChainInvariant, PTL DEF Spec, B!Spec

(* P's inductive invariant goes along.                                     *)
LEMMA BreakerInvariant == Spec => []P!IInv
<1>1. Init => P!IInv
  BY BreakerStarts DEF Init
<1>2. IInv /\ P!IInv /\ [Next]_vars => P!IInv'
  BY StepsBreaker, BreakersSteps, BreakerKeeps
<1> QED BY <1>1, <1>2, ChainInvariant, PTL DEF Spec

(* And so what is proved of the breaker holds with nested callers too: an  *)
(* open one has no call that counts, its requests are the outcomes and the *)
(* calls under way, a half-open one waits for a probe when its quota is    *)
(* used up, and never lets in more than that.                              *)
THEOREM ChainBreakerSound ==
  Spec => [](B!OpenIsQuiet /\ B!CountsMatchCalls /\ B!HalfOpenNotStuck /\ B!ProbesWithinQuota)
<1>1. P!IInv => B!OpenIsQuiet /\ B!CountsMatchCalls /\ B!HalfOpenNotStuck /\ B!ProbesWithinQuota
  <2> SUFFICES ASSUME P!IInv
               PROVE  /\ B!OpenIsQuiet /\ B!CountsMatchCalls
                      /\ B!HalfOpenNotStuck /\ B!ProbesWithinQuota
    OBVIOUS
  <2>1. P!OpenIsQuiet /\ P!CountsMatchCalls /\ P!HalfOpenNotStuck /\ P!ProbesWithinQuota
    BY P!IInvImplies, SameAssumption
  <2>2. P!Counted = B!Counted /\ P!MaxRequests = B!MaxRequests
    BY DEF P!Counted, B!Counted, P!MaxRequests, B!MaxRequests
  <2>3. P!Cardinality(P!Counted) = B!Cardinality(B!Counted)
    BY <2>2, SameFinite
  <2>4. B!OpenIsQuiet /\ B!HalfOpenNotStuck
    BY <2>1, <2>2 DEF P!OpenIsQuiet, B!OpenIsQuiet, P!HalfOpenNotStuck, B!HalfOpenNotStuck
  <2>5. B!CountsMatchCalls
    BY <2>1, <2>3 DEF P!CountsMatchCalls, B!CountsMatchCalls
  <2>6. B!ProbesWithinQuota
    BY <2>1, <2>2, <2>3 DEF P!ProbesWithinQuota, B!ProbesWithinQuota
  <2> QED BY <2>4, <2>5, <2>6
<1> QED BY <1>1, BreakerInvariant, PTL

(* And the breaker trips, lapses and closes as Breaker says, on time or on *)
(* the result of a call of its own generation: when the inner handleHTTP   *)
(* of a request has tripped it, what the outer one reports is too late.    *)
THEOREM ChainMovesEarned == Spec => B!MovesEarned
<1>1. P!IInv /\ [P!Next]_breakerVars => [cb' # cb => P!Earned]_breakerVars
  <2>1. P!IInv /\ [P!Next]_(P!breakerVars) => [cb' # cb => P!Earned]_(P!breakerVars)
    BY P!NextEarned, SameAssumption
  <2> QED BY <2>1 DEF breakerVars, P!breakerVars
<1>2. P!Earned => B!Earned
  <2>1. P!Counted = B!Counted /\ P!MaxRequests = B!MaxRequests
    BY DEF P!Counted, B!Counted, P!MaxRequests, B!MaxRequests
  <2> QED BY <2>1 DEF P!Earned, B!Earned
<1>3. IInv /\ P!IInv /\ [Next]_vars => [cb' # cb => B!Earned]_(B!breakerVars)
  BY <1>1, <1>2, StepsBreaker, BreakersSteps DEF breakerVars, B!breakerVars
<1> QED BY <1>3, ChainInvariant, BreakerInvariant, PTL DEF Spec, B!MovesEarned

(* Every field has its range, the handlers that wait are in the order of   *)
(* their routes and none waits twice in one request.                       *)
THEOREM ChainTypeOK == Spec => []TypeOK
<1>1. P!IInv => B!TypeOK
  <2>1. P!IInv => P!TypeOK
    BY P!IInvImplies, SameAssumption
  <2> QED BY <2>1 DEF P!TypeOK, B!TypeOK, P!States, B!States, P!Counter, B!Counter
<1>2. IInv /\ B!TypeOK => TypeOK
  <2> SUFFICES ASSUME IInv, B!TypeOK PROVE TypeOK
    OBVIOUS
  <2>1. ASSUME NEW c \in Requests
        PROVE  /\ call[c].pc \in {"idle", "next", "execute", "forward", "return", "done"}
               /\ call[c].at \in 0 .. Len(Chain)
               /\ \A i, j \in 1 .. Len(call[c].stack) : i < j =>
                    \E k, l \in 1 .. call[c].at :
                      /\ k < l
                      /\ Chain[k] = call[c].stack[i] /\ Chain[l] = call[c].stack[j]
               /\ call[c].attempt \in [ServiceSet -> 0 .. Attempts]
               /\ call[c].err \in {0, 401, 404, 426, 500, 502, 503}
               /\ call[c].status \in {101, 200, 400, 401, 404, 426, 500, 502, 503}
    <3>1. call[c] \in Calls /\ Stacked(call[c])
      BY DEF IInv, Sound
    <3>2. call[c].err \in Errors /\ call[c].status \in Statuses
      BY <3>1 DEF Calls
    <3>3. call[c].err \in {0, 401, 404, 426, 500, 502, 503}
      BY <3>2 DEF Errors
    <3>4. call[c].status \in {101, 200, 400, 401, 404, 426, 500, 502, 503}
      BY <3>2 DEF Statuses
    <3>5. \A i, j \in 1 .. Len(call[c].stack) : i < j =>
            \E k, l \in 1 .. call[c].at :
              /\ k < l
              /\ Chain[k] = call[c].stack[i] /\ Chain[l] = call[c].stack[j]
      BY <3>1 DEF Stacked
    <3>6. /\ call[c].pc \in {"idle", "next", "execute", "forward", "return", "done"}
          /\ call[c].at \in 0 .. Len(Chain)
          /\ call[c].attempt \in [ServiceSet -> 0 .. Attempts]
      BY <3>1, Typed
    <3> QED BY <3>3, <3>4, <3>5, <3>6, Zenon
  <2>2. cached \in [Paths -> SUBSET ServiceSet]
    BY DEF IInv, Kept
  <2> QED BY <2>1, <2>2 DEF TypeOK
<1> QED BY <1>1, <1>2, ChainInvariant, BreakerInvariant, PTL

(* No request is answered by a service, or an endpoint, that it is not     *)
(* for, nor from the cache with what such a one answered, whatever         *)
(* services match its path and however its retries go on through the       *)
(* routes.                                                                 *)
THEOREM ChainServedByResponsible == Spec => []ServedByResponsible
<1>1. IInv => ServedByResponsible
  BY DEF IInv, Sound, Answered, ServedByResponsible
<1> QED BY <1>1, ChainInvariant, PTL

(* No route answers and no function runs in the breaker for a request that *)
(* lacks a credential.                                                     *)
THEOREM ChainGuarded == Spec => []Guarded
<1>1. IInv => Guarded
  BY DEF IInv, Sound, Answered, Guarded
<1> QED BY <1>1, ChainInvariant, PTL

(* A client that is told of success was answered by somebody, or got what  *)
(* somebody answered before, but for the two paths of which the logger     *)
(* drops the error.                                                        *)
THEOREM ChainSuccessMeansServed == Spec => []SuccessMeansServed
<1>1. IInv => SuccessMeansServed
  BY DEF IInv, Sound, Answered, SuccessMeansServed, Endpoints
<1> QED BY <1>1, ChainInvariant, PTL

(* Nested retriers add up: a request costs at most as many calls of        *)
(* Forward as each matching service may make attempts, and at most one     *)
(* failure in the breaker for each.                                        *)
THEOREM ChainWorkAdds == Spec => []WorkAdds
<1>1. ASSUME NEW r \in Calls, Worked(r),
             NEW n, n = IF r.path \in Paths THEN Cardinality(MatchedBy[r.path]) ELSE 0
      PROVE  r.forwards <= n * Attempts /\ r.failures <= n
  <2> DEFINE S == Cardinality(Spent(r))
             F == Cardinality(Reached(r) \ Waiters(r))
  <2>1. S \in Nat /\ F \in Nat /\ S <= n * Attempts /\ F <= n
    BY <1>1, Countable, Bounded
  <2>2. r.forwards \in Nat /\ r.failures \in Nat /\ r.forwards <= S /\ r.failures <= F
    BY <1>1, Typed DEF Worked
  <2>3. n \in Nat /\ n * Attempts \in Nat
    <3>1. n \in Nat
      BY <1>1, ServicesFinite
    <3> QED BY <3>1, ConstantFacts
  <2> HIDE DEF S, F
  <2> QED BY <2>1, <2>2, <2>3
<1>2. IInv => WorkAdds
  <2>1. IInv => \A c \in Requests : call[c] \in Calls /\ Worked(call[c])
    BY DEF IInv, Sound
  <2> QED BY <1>1, <2>1, Zenon DEF WorkAdds
<1> QED BY <1>2, ChainInvariant, PTL

(* While it is on, the calls in the breaker are the proxies that wait on   *)
(* the requests' stacks, each as often as it waits: none is left in it     *)
(* when its request is over, and none is reported twice.                   *)
THEOREM ChainBreakerBalanced == Spec => []Balanced
<1>1. IInv => Balanced
  BY DEF IInv
<1> QED BY <1>1, ChainInvariant, PTL

(* What the breaker does is one of four things: only a success reported    *)
(* from a half-open breaker closes it.                                     *)
LEMMA OnlySuccessCloses ==
  ASSUME cb.state = "half-open"
  PROVE  /\ B!Current(cb) = cb
         /\ B!Admitted(cb).state # "closed"
         /\ \A t : B!Reported(cb, t, FALSE).state # "closed"
<1>1. B!Current(cb) = cb
  BY DEF B!Current
<1>2. B!Admitted(cb).state # "closed"
  BY DEF B!Admitted
<1>3. B!Failed(cb).state # "closed"
  BY DEF B!Failed, B!SetState
<1>4. \A t : B!Reported(cb, t, FALSE).state # "closed"
  BY <1>3 DEF B!Reported
<1> QED BY <1>1, <1>2, <1>4

(* A request that leaves the proxy without an error was answered.          *)
LEMMA LeavesAnswered ==
  ASSUME IInv, NEW c \in Requests, Leave(c), call[c].err = 0
  PROVE  call'[c] # call[c] /\ call[c].served # {}
<1> DEFINE r == call[c]
<1>1. /\ call \in [Requests -> Calls] /\ r \in Calls /\ Sound(r) /\ r.pc = "return"
      /\ r.stack # <<>> /\ Top(r).name = "http"
  BY DEF IInv, Leave, Returned
<1>2. r.path \in Paths
  BY <1>1, TopWaits
<1>3. r.path \notin Endpoints
  BY <1>2, ConstantFacts
<1>4. r.served # {}
  BY <1>1, <1>3 DEF Sound, Answered
<1>5. call'[c].stack = Front(r.stack)
  BY <1>1 DEF Leave, Calls
<1>6. Front(r.stack) # r.stack
  <2>1. r.stack \in Seq(Handlers)
    BY <1>1, Typed
  <2>2. Len(Front(r.stack)) = Len(r.stack) - 1
    BY <1>1, <2>1 DEF Front
  <2> QED BY <2>1, <2>2
<1> QED BY <1>4, <1>5, <1>6

(* The breaker never closes on a request that nobody has answered, now or, *)
(* for the cache, before.                                                  *)
THEOREM ChainClosedByAnswer == Spec => ClosedByAnswer
<1> DEFINE Closes == cb.state = "half-open" /\ cb'.state = "closed"
           ByAnswer == \E c \in Requests : call'[c] # call[c] /\ call[c].served # {}
<1>1. IInv /\ [Next]_vars => [Closes => ByAnswer]_vars
  <2> SUFFICES ASSUME IInv, Next, Closes PROVE ByAnswer
    OBVIOUS
  <2>1. ASSUME UNCHANGED breakerVars PROVE FALSE
    BY <2>1 DEF breakerVars
  <2>2. ASSUME NEW c \in Requests, Execute(c) PROVE FALSE
    BY <2>1, <2>2, OnlySuccessCloses DEF Execute, B!Admit
  <2>3. ASSUME NEW c \in Requests, NEW err \in {500, 503}, Refuse(c, err) PROVE FALSE
    BY <2>3, OnlySuccessCloses, Zenon
       DEF Refuse, B!RefuseOpen, B!RefuseTooMany, B!breakerVars
  <2>4. ASSUME NEW c \in Requests, Leave(c) PROVE ByAnswer
    <3>1. B!Report(Caller(c), call[c].err = 0)
      BY <2>1, <2>4, Zenon DEF Leave
    <3>2. cb' = B!Reported(cb, ticket[Caller(c)], call[c].err = 0)
      BY <3>1, OnlySuccessCloses, Zenon DEF B!Report
    <3>3. ASSUME call[c].err # 0 PROVE FALSE
      <4>1. (call[c].err = 0) = FALSE
        BY <3>3
      <4> QED BY <3>2, <4>1, OnlySuccessCloses, Zenon
    <3> QED BY <2>4, <3>3, LeavesAnswered
  <2>5. CASE Tick
    BY <2>5 DEF Tick, B!Tick
  <2>6. ASSUME NEW c \in Requests,
               \/ NotFound(c) \/ Forward(c) \/ Retry(c)
               \/ Count(c) \/ Log(c) \/ Answer(c) \/ Done(c)
        PROVE  FALSE
    BY <2>1, <2>6 DEF NotFound, Forward, PassOn, Hit, Fetch, Retry, Count, Log, Answer, Done, Step
  <2>7. ASSUME NEW c \in Requests, NEW i \in 1 .. Len(Chain), Enter(c, i) PROVE FALSE
    BY <2>1, <2>7, Zenon DEF Enter, Step
  <2>8. ASSUME NEW c \in Requests, NEW path, NEW kind, NEW creds,
               Arrive(c, path, kind, creds)
        PROVE  FALSE
    BY <2>1, <2>8 DEF Arrive, Step
  <2> QED BY <2>2, <2>3, <2>4, <2>5, <2>6, <2>7, <2>8 DEF Next
<1> QED BY <1>1, ChainInvariant, PTL DEF Spec, ClosedByAnswer
=============================================================================
