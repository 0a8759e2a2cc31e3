-------------------------- MODULE RequestPathProofs --------------------------
(***************************************************************************)
(* Safety of the request path, for any number of requests, services and    *)
(* retries, any timeouts, and with each feature on or off.                 *)
(***************************************************************************)
EXTENDS RequestPath, FiniteSetTheorems, TLAPS

Answers == [status : {200, 500}, body : Bodies]

Calls ==
  [pc      : {"idle", "forward", "sent", "storing", "returning"},
   kind    : Kinds,
   service : Services \cup {Empty},
   attempt : 0 .. Attempts,
   sentAt  : 0 .. MaxTime,
   sends   : 0 .. MaxSends,
   answer  : Answers \cup {Empty},
   item    : CacheItems \cup {Empty},
   ok      : BOOLEAN,
   runs    : 0 .. MostSends,
   late    : 0 .. MostSends]

(* The upstream requests that n attempts can make, and those that a        *)
(* request has made or never will.                                         *)
Slots(n) == n * MaxSends

Done(r) ==
  CASE r.pc = "forward" -> Slots(r.attempt - 1)
    [] r.pc = "sent"    -> Slots(r.attempt - 1) + r.sends
    [] OTHER            -> Slots(r.attempt)

(* The latest of them has not been executed while it is not answered.      *)
Pending(r) == r.pc = "sent" /\ r.answer = Empty

Tried(r) ==
  /\ r.pc = "idle" => r.runs = 0 /\ r.late = 0
  /\ r.pc # "idle" => r.attempt >= 1 /\ r.service \in Services
  /\ r.pc = "forward" => r.answer = Empty
  /\ r.pc = "sent" => r.sends >= 1
  /\ r.runs + r.late <= Done(r)
  /\ Pending(r) => r.runs + r.late < Done(r)
  /\ (r.pc = "sent" /\ r.answer # Empty) \/ (r.pc = "returning" /\ r.ok)
       => (r.kind = "POST" => r.runs >= 1)

(* A body on its way to the cache was current when its request was out.    *)
Recent(i) == i # Empty /\ ProxyTimeout # 0 => i.expiration <= i.value + ProxyTimeout + TTL

Timed(r, t) ==
  /\ r.pc = "sent" /\ r.answer # Empty /\ r.kind = "GET" => r.sentAt <= r.answer.body
  /\ r.pc = "sent" => r.sentAt <= t
  /\ r.pc = "storing" => r.kind = "GET" /\ r.item \in CacheItems
  /\ Recent(r.item)

CallInv ==
  /\ now \in 0 .. MaxTime
  /\ call \in [Callers -> Calls]
  /\ \A c \in Callers : Tried(call[c]) /\ Timed(call[c], now)

CacheInv ==
  /\ live \in [Services -> CacheItems \cup {Empty}]
  /\ \A s \in Services :
       live[s] # Empty => Recent(live[s]) /\ now <= live[s].expiration

-----------------------------------------------------------------------------

(* What the constants give the arguments below.                            *)
LEMMA PathFacts ==
  /\ MaxTime \in Nat
  /\ Attempts \in Nat /\ Attempts >= 1
  /\ (EnableRetry => Attempts = MaxRetries + 1) /\ (~EnableRetry => Attempts = 1)
  /\ Empty \notin Answers
<1>1. MaxTime \in Nat
  BY PathBreakerAssumption DEF B!BreakerAssumption
<1>2. Answers \subseteq [status : {200, 500}, body : Nat]
  BY <1>1 DEF Answers, Bodies
<1> QED BY <1>1, <1>2, PathAssumption DEF Attempts

(* What they give for the requests that attempts can make.                 *)
LEMMA SlotFacts ==
  /\ MaxSends \in Nat /\ MaxSends >= 1
  /\ \A n \in Nat : Slots(n) \in Nat /\ Slots(n + 1) = Slots(n) + MaxSends
  /\ \A m, n \in Nat : m <= n => Slots(m) <= Slots(n)
  /\ Slots(0) = 0
  /\ MostSends = Slots(Attempts) /\ MostSends \in Nat /\ MostSends >= 1
<1>1. MaxSends \in Nat /\ MaxSends >= 1
  BY PathAssumption
<1>2. ASSUME NEW n \in Nat PROVE Slots(n) \in Nat /\ Slots(n + 1) = Slots(n) + MaxSends
  BY <1>1 DEF Slots
<1>3. ASSUME NEW m \in Nat, NEW n \in Nat, m <= n PROVE Slots(m) <= Slots(n)
  BY <1>1, <1>3 DEF Slots
<1>4. Slots(0) = 0 /\ Slots(1) = MaxSends
  BY <1>1 DEF Slots
<1>5. MostSends = Slots(Attempts) /\ Attempts \in Nat /\ Slots(1) <= Slots(Attempts)
  BY <1>3, PathFacts DEF MostSends, Slots
<1> QED BY <1>1, <1>2, <1>3, <1>4, <1>5

LEMMA MostFacts ==
  MaxSends \in Nat /\ MaxSends >= 1 /\ MostSends \in Nat /\ MostSends >= 1
BY SlotFacts

(* A request has made no more than its attempts can.                       *)
LEMMA DoneBounded ==
  ASSUME NEW r \in Calls, r.pc # "idle" => r.attempt >= 1
  PROVE  /\ r.attempt \in Nat /\ r.sends \in Nat /\ r.sends <= MaxSends
         /\ r.runs \in Nat /\ r.late \in Nat
         /\ Done(r) \in Nat /\ Done(r) <= Slots(r.attempt)
         /\ Slots(r.attempt) \in Nat /\ Slots(r.attempt) <= MostSends
         /\ Done(r) <= MostSends
<1>1. /\ r.attempt \in Nat /\ r.attempt <= Attempts
      /\ r.sends \in Nat /\ r.sends <= MaxSends /\ r.runs \in Nat /\ r.late \in Nat
  BY PathFacts, SlotFacts DEF Calls
<1>2. Slots(r.attempt) \in Nat /\ Slots(r.attempt) <= MostSends
  BY <1>1, PathFacts, SlotFacts
<1>3. CASE r.pc \in {"forward", "sent"}
  <2>1. r.attempt - 1 \in Nat
    BY <1>1, <1>3
  <2>2. Slots(r.attempt - 1) \in Nat
        /\ Slots(r.attempt - 1) + MaxSends = Slots((r.attempt - 1) + 1)
    BY <2>1, SlotFacts
  <2>3. (r.attempt - 1) + 1 = r.attempt
    BY <1>1
  <2> QED BY <1>1, <1>2, <1>3, <2>2, <2>3, SlotFacts DEF Done
<1>4. CASE r.pc \notin {"forward", "sent"}
  BY <1>1, <1>2, <1>4 DEF Done
<1>5. Done(r) \in Nat /\ Done(r) <= Slots(r.attempt)
  BY <1>3, <1>4
<1>6. Done(r) <= MostSends
  <2> DEFINE d == Done(r)
             k == Slots(r.attempt)
  <2>1. d \in Nat /\ k \in Nat /\ d <= k /\ k <= MostSends
    BY <1>2, <1>5
  <2> HIDE DEF d, k
  <2>2. d <= MostSends
    BY <2>1, MostFacts
  <2> QED BY <2>2 DEF d
<1> QED BY <1>1, <1>2, <1>5, <1>6

(* One request's step, when it leaves its record sound.                    *)
LEMMA OneCall ==
  ASSUME CallInv, NEW c \in Callers, NEW r \in Calls, Tried(r), Timed(r, now),
         now' = now, call' = [call EXCEPT ![c] = r]
  PROVE  CallInv'
<1>1. call' \in [Callers -> Calls]
  BY DEF CallInv
<1>2. ASSUME NEW d \in Callers PROVE Tried(call'[d]) /\ Timed(call'[d], now')
  <2>1. call'[d] = IF d = c THEN r ELSE call[d]
    BY DEF CallInv
  <2>2. Tried(call[d]) /\ Timed(call[d], now)
    BY DEF CallInv
  <2> QED BY <2>1, <2>2
<1> QED BY <1>1, <1>2 DEF CallInv

(* The retrier: another attempt, or the last error.                        *)
LEMMA AfterErrorSound ==
  ASSUME NEW r \in Calls, NEW t \in Nat, r.attempt >= 1,
         r.runs + r.late <= Slots(r.attempt),
         Recent(r.item), r.service \in Services
  PROVE  /\ AfterError(r) \in Calls
         /\ Tried(AfterError(r)) /\ Timed(AfterError(r), t)
<1>1. CASE EnableRetry /\ r.attempt <= MaxRetries
  <2> DEFINE q == [Over(r) EXCEPT !.pc = "forward", !.attempt = @ + 1]
  <2>1. r.attempt + 1 \in 0 .. Attempts /\ 0 \in 0 .. MaxTime /\ 0 \in 0 .. MaxSends
    BY <1>1, PathFacts, SlotFacts, PathAssumption DEF Calls
  <2>2. q \in Calls
    BY <2>1 DEF Over, Calls
  <2>3. q.pc = "forward" /\ q.answer = Empty /\ q.attempt = r.attempt + 1 /\ q.runs = r.runs
        /\ q.late = r.late /\ q.item = r.item /\ q.service = r.service
    BY DEF Over, Calls
  <2>4. r.attempt \in Nat /\ r.runs \in Nat /\ r.late \in Nat
    BY PathFacts DEF Calls
  <2>5. AfterError(r) = q
    BY <1>1 DEF AfterError
  <2>6. (r.attempt + 1) - 1 = r.attempt
    BY <2>4
  <2> HIDE DEF q
  <2>7. Done(q) = Slots(r.attempt)
    BY <2>3, <2>6 DEF Done
  <2> QED BY <2>2, <2>3, <2>4, <2>5, <2>7 DEF Tried, Timed, Pending
<1>2. CASE ~(EnableRetry /\ r.attempt <= MaxRetries)
  <2> DEFINE q == [Over(r) EXCEPT !.pc = "returning", !.ok = FALSE]
  <2>1. 0 \in 0 .. MaxTime /\ 0 \in 0 .. MaxSends
    BY PathFacts, SlotFacts
  <2>2. q \in Calls
    BY <2>1 DEF Over, Calls
  <2>3. q.pc = "returning" /\ q.ok = FALSE /\ q.attempt = r.attempt /\ q.runs = r.runs
        /\ q.late = r.late /\ q.item = r.item /\ q.service = r.service
    BY DEF Over, Calls
  <2>5. AfterError(r) = q
    BY <1>2 DEF AfterError
  <2> HIDE DEF q
  <2> QED BY <2>2, <2>3, <2>5 DEF Tried, Timed, Pending, Done
<1> QED BY <1>1, <1>2

(* A relayed answer.                                                       *)
LEMMA RelayedSound ==
  ASSUME NEW r \in Calls, NEW t \in Nat, Tried(r), r.pc # "idle",
         r.kind = "POST" => r.runs >= 1
  PROVE  Relayed(r) \in Calls /\ Tried(Relayed(r)) /\ Timed(Relayed(r), t)
<1> DEFINE q == [Over(r) EXCEPT !.pc = "returning", !.ok = TRUE, !.item = Empty]
<1>1. 0 \in 0 .. MaxTime /\ 0 \in 0 .. MaxSends
  BY PathFacts, SlotFacts
<1>2. q \in Calls
  BY <1>1 DEF Over, Calls
<1>3. /\ q.pc = "returning" /\ q.attempt = r.attempt /\ q.runs = r.runs
      /\ q.late = r.late /\ q.item = Empty /\ q.kind = r.kind /\ q.service = r.service
  BY DEF Over, Calls
<1>4. Relayed(r) = q
  BY DEF Relayed
<1>5. Done(r) <= Slots(r.attempt) /\ Done(r) \in Nat /\ Slots(r.attempt) \in Nat
      /\ r.runs \in Nat /\ r.late \in Nat
  BY DoneBounded DEF Tried
<1> HIDE DEF q
<1>6. Done(q) = Slots(r.attempt)
  BY <1>3 DEF Done
<1> QED BY <1>2, <1>3, <1>4, <1>5, <1>6 DEF Tried, Timed, Pending, Recent

(* A request begins and ends as Idle.                                      *)
LEMMA IdleSound ==
  /\ Idle \in Calls
  /\ \A t \in Nat : Tried(Idle) /\ Timed(Idle, t)
  /\ \A k \in Kinds, s \in Services, t \in Nat :
       LET r == [Idle EXCEPT !.pc = "forward", !.kind = k, !.service = s, !.attempt = 1]
       IN  r \in Calls /\ Tried(r) /\ Timed(r, t)
<1>1. Idle \in Calls /\ \A t \in Nat : Tried(Idle) /\ Timed(Idle, t)
  <2>1. 0 \in 0 .. MaxTime /\ 0 \in 0 .. MaxSends /\ 0 \in 0 .. MostSends
        /\ 0 \in 0 .. Attempts
    BY PathFacts, SlotFacts
  <2>2. Idle \in Calls
    BY <2>1 DEF Idle, Calls, Kinds
  <2>3. Done(Idle) = 0
    BY SlotFacts DEF Idle, Done
  <2>4. /\ Idle.pc = "idle" /\ Idle.runs = 0 /\ Idle.late = 0 /\ Idle.item = Empty
        /\ Idle.ok = FALSE
    BY DEF Idle
  <2>5. Tried(Idle)
    BY <2>3, <2>4 DEF Tried, Pending
  <2>6. \A t \in Nat : Timed(Idle, t)
    BY <2>4 DEF Timed, Recent
  <2> QED BY <2>2, <2>5, <2>6
<1>2. ASSUME NEW k \in Kinds, NEW s \in Services, NEW t \in Nat
      PROVE  LET r == [Idle EXCEPT !.pc = "forward", !.kind = k, !.service = s,
                                   !.attempt = 1]
             IN  r \in Calls /\ Tried(r) /\ Timed(r, t)
  <2> DEFINE r == [Idle EXCEPT !.pc = "forward", !.kind = k, !.service = s, !.attempt = 1]
  <2>0. 1 \in 0 .. Attempts
    BY PathFacts
  <2>1. r \in Calls
    BY <1>1, <2>0 DEF Calls
  <2>2. /\ r.pc = "forward" /\ r.attempt = 1 /\ r.runs = 0 /\ r.late = 0
        /\ r.item = Empty /\ r.answer = Empty /\ r.service = s
    BY DEF Idle
  <2> HIDE DEF r
  <2>3. Done(r) = 0
    <3>1. r.attempt - 1 = 0
      BY <2>2
    <3> QED BY <2>2, <3>1, SlotFacts DEF Done
  <2>4. Tried(r) /\ Timed(r, t)
    BY <2>2, <2>3 DEF Tried, Timed, Pending, Recent
  <2> QED BY <2>1, <2>4 DEF r
<1> QED BY <1>1, <1>2

(* The steps of a request, one by one.  It begins with one attempt.        *)
LEMMA EnterCalls ==
  ASSUME CallInv, NEW c \in Callers, NEW k \in Kinds, NEW s \in Services, Enter(c, k, s)
  PROVE  CallInv'
<1>1. now' = now
  BY DEF Enter, B!Admit, breakerVars
<1>2. now \in Nat
  BY PathFacts DEF CallInv
<1> QED BY <1>1, <1>2, IdleSound, OneCall DEF Enter

(* It ends as it was before it began.                                      *)
LEMMA ReturnCalls ==
  ASSUME CallInv, NEW c \in Callers, Return(c)
  PROVE  CallInv'
<1>1. now' = now
  BY DEF Return, B!Report, breakerVars
<1>2. now \in Nat
  BY PathFacts DEF CallInv
<1> QED BY <1>1, <1>2, IdleSound, OneCall DEF Return

(* A handshake that is none becomes an error.                              *)
LEMMA PassOnCalls ==
  ASSUME CallInv, NEW c \in Callers, PassOn(c)
  PROVE  CallInv'
<1>1. now' = now /\ now \in Nat
  BY PathFacts DEF PassOn, breakerVars, CallInv
<1>2. /\ call[c] \in Calls /\ Tried(call[c]) /\ Recent(call[c].item)
      /\ call[c].service \in Services /\ call[c].attempt >= 1
  BY DEF CallInv, Timed, Tried, PassOn
<1>3. call[c].runs + call[c].late <= Slots(call[c].attempt)
  <2> DEFINE r == call[c]
  <2> HIDE DEF r
  <2> QED BY <1>2, DoneBounded DEF Tried, r
<1> QED BY <1>1, <1>2, <1>3, AfterErrorSound, OneCall DEF PassOn

(* A hit relays what is cached.                                            *)
LEMMA HitCalls ==
  ASSUME CallInv, NEW c \in Callers, Hit(c)
  PROVE  CallInv'
<1>1. now' = now /\ now \in Nat
  BY PathFacts DEF Hit, breakerVars, CallInv
<1>2. call[c] \in Calls /\ Tried(call[c]) /\ call[c].pc # "idle" /\ call[c].kind # "POST"
  BY DEF CallInv, Hit, Cached
<1> QED BY <1>1, <1>2, RelayedSound, OneCall DEF Hit

(* The clock is read when the request leaves.                              *)
LEMMA SendCalls ==
  ASSUME CallInv, NEW c \in Callers, Send(c)
  PROVE  CallInv'
<1> DEFINE r == call[c]
           q == [r EXCEPT !.pc = "sent", !.sentAt = now, !.sends = 1]
<1>1. now' = now /\ now \in 0 .. MaxTime /\ now \in Nat
  BY PathFacts DEF Send, breakerVars, CallInv
<1>2. r \in Calls /\ Tried(r) /\ Timed(r, now) /\ r.pc = "forward"
  BY DEF CallInv, Send
<1>3. call' = [call EXCEPT ![c] = q]
  BY <1>2 DEF Send, CallInv, Calls
<1>4. q \in Calls
  <2>1. 1 \in 0 .. MaxSends
    BY MostFacts
  <2> HIDE DEF r
  <2> QED BY <1>1, <1>2, <2>1 DEF Calls
<1>5. /\ q.pc = "sent" /\ q.sends = 1 /\ q.sentAt = now /\ q.runs = r.runs /\ q.late = r.late
      /\ q.attempt = r.attempt /\ q.answer = r.answer /\ q.item = r.item /\ q.kind = r.kind
      /\ q.service = r.service
  BY <1>2 DEF Calls
<1>6. r.answer = Empty
  BY <1>2 DEF Tried
<1> HIDE DEF q, r
<1>7. Done(q) = Done(r) + 1 /\ Done(r) \in Nat /\ r.runs \in Nat /\ r.late \in Nat
  BY <1>2, <1>5, DoneBounded DEF Done, Tried
<1>8. Tried(q) /\ Timed(q, now)
  BY <1>1, <1>2, <1>5, <1>6, <1>7 DEF Tried, Timed, Pending
<1> QED BY <1>1, <1>3, <1>4, <1>8, OneCall

(* Another request of the same attempt: the one before it is executed, or  *)
(* will be, or not.                                                        *)
LEMMA ResendCalls ==
  ASSUME CallInv, NEW c \in Callers, Resend(c)
  PROVE  CallInv'
<1> DEFINE r == call[c]
           n == IF r.kind = "POST" /\ r.answer = Empty THEN r.late + 1 ELSE r.late
           q == [r EXCEPT !.late = n, !.sends = r.sends + 1, !.answer = Empty]
<1>1. now' = now /\ now \in Nat
  BY PathFacts DEF Resend, breakerVars, CallInv
<1>2. r \in Calls /\ Tried(r) /\ Timed(r, now) /\ r.pc = "sent" /\ r.sends < MaxSends
  BY DEF CallInv, Resend
<1>3. call' = [call EXCEPT ![c] = q]
  <2>1. q = [Abandoned(r) EXCEPT !.sends = @ + 1, !.answer = Empty]
    <3> HIDE DEF r
    <3> QED BY <1>2 DEF Abandoned, Calls
  <2> QED BY <2>1, Zenon DEF Resend
<1> HIDE DEF r
<1>4. /\ r.attempt \in Nat /\ r.sends \in Nat /\ r.runs \in Nat /\ r.late \in Nat
      /\ Done(r) \in Nat /\ Done(r) = Slots(r.attempt - 1) + r.sends
  BY <1>2, DoneBounded DEF Tried, Done
<1>5. r.runs + n <= Done(r) /\ n \in Nat /\ r.attempt >= 1
  BY <1>2, <1>4 DEF Tried, Pending
<1>6. n \in 0 .. MostSends
  <2>1. Done(r) <= MostSends
    BY <1>2, DoneBounded, MostFacts DEF Tried
  <2> QED BY <1>4, <1>5, <2>1, MostFacts
<1> HIDE DEF n
<1>7. q \in Calls
  <2>1. r.sends + 1 \in 0 .. MaxSends
    BY <1>2, <1>4, MostFacts
  <2> QED BY <1>2, <1>6, <2>1 DEF Calls
<1>8. /\ q.pc = "sent" /\ q.sentAt = r.sentAt /\ q.runs = r.runs /\ q.late = n
      /\ q.attempt = r.attempt /\ q.answer = Empty /\ q.item = r.item /\ q.kind = r.kind
      /\ q.service = r.service /\ q.sends = r.sends + 1
  BY <1>2 DEF Calls
<1> HIDE DEF q
<1>9. Done(q) = Slots(r.attempt - 1) + (r.sends + 1)
  BY <1>8 DEF Done
<1>10. Done(q) = Done(r) + 1
  <2>1. Slots(r.attempt - 1) \in Nat
    <3>1. r.attempt - 1 \in Nat
      BY <1>4, <1>5
    <3> QED BY <3>1, SlotFacts
  <2> QED BY <1>4, <1>9, <2>1
<1>11. Tried(q) /\ Timed(q, now)
  BY <1>2, <1>4, <1>5, <1>8, <1>10 DEF Tried, Timed, Pending
<1> QED BY <1>1, <1>3, <1>7, <1>11, OneCall

(* The upstream answers with the body of this instant.                     *)
LEMMA ServeCalls ==
  ASSUME CallInv, NEW c \in Callers, NEW status \in {200, 500}, Serve(c, status)
  PROVE  CallInv'
<1> DEFINE r == call[c]
           a == [status |-> status, body |-> IF r.kind = "GET" THEN now ELSE 0]
           n == IF r.kind = "POST" THEN r.runs + 1 ELSE r.runs
           q == [r EXCEPT !.answer = a, !.runs = n]
<1>1. now' = now /\ now \in 0 .. MaxTime /\ now \in Nat
  BY PathFacts DEF Serve, breakerVars, CallInv
<1>2. /\ r \in Calls /\ Tried(r) /\ Timed(r, now)
      /\ r.pc = "sent" /\ r.answer = Empty
  BY DEF CallInv, Serve
<1>3. call' = [call EXCEPT ![c] = q]
  BY Zenon DEF Serve
<1>4. a \in Answers /\ a # Empty /\ (r.kind = "GET" => a.body = now)
  <2>1. 0 \in 0 .. MaxTime
    BY PathFacts
  <2> QED BY <1>1, <2>1, PathFacts DEF Answers, Bodies
<1> HIDE DEF a, r
<1>5. /\ r.runs \in Nat /\ r.late \in Nat /\ Done(r) \in Nat /\ Done(r) <= MostSends
      /\ r.sentAt \in Nat
  <2>1. r.sentAt \in Nat
    BY <1>2, PathFacts DEF Calls
  <2> QED BY <1>2, <2>1, DoneBounded, MostFacts DEF Tried
<1>6. r.runs + r.late < Done(r)
  BY <1>2 DEF Tried, Pending
<1>7. n \in 0 .. MostSends /\ n + r.late <= Done(r) /\ (r.kind = "POST" => n >= 1)
  BY <1>5, <1>6, MostFacts
<1> HIDE DEF n
<1>8. q \in Calls
  BY <1>2, <1>4, <1>7 DEF Calls
<1>9. /\ q.pc = "sent" /\ q.sentAt = r.sentAt /\ q.runs = n /\ q.late = r.late
      /\ q.attempt = r.attempt /\ q.answer = a /\ q.item = r.item /\ q.kind = r.kind
      /\ q.service = r.service /\ q.sends = r.sends
  BY <1>2 DEF Calls
<1> HIDE DEF q
<1>10. Tried(q) /\ Timed(q, now)
  <2>1. Done(q) = Done(r)
    BY <1>2, <1>9 DEF Done
  <2> QED BY <1>2, <1>4, <1>5, <1>7, <1>9, <2>1 DEF Tried, Timed, Pending
<1> QED BY <1>1, <1>3, <1>8, <1>10, OneCall

(* An attempt given up on turns into an execution.                         *)
LEMMA ServeLateCalls ==
  ASSUME CallInv, NEW c \in Callers, ServeLate(c)
  PROVE  CallInv'
<1> DEFINE r == call[c]
           q == [r EXCEPT !.late = @ - 1, !.runs = @ + 1]
<1>1. now' = now /\ now \in Nat
  BY PathFacts DEF ServeLate, breakerVars, CallInv
<1>2. r \in Calls /\ Tried(r) /\ Timed(r, now) /\ r.late > 0
  BY DEF CallInv, ServeLate
<1>3. call' = [call EXCEPT ![c] = q]
  BY <1>2 DEF ServeLate, CallInv, Calls
<1> HIDE DEF r
<1>4. /\ r.runs \in Nat /\ r.late \in Nat /\ Done(r) \in Nat /\ Done(r) <= MostSends
  BY <1>2, DoneBounded, MostFacts DEF Tried
<1>5. r.runs + r.late <= Done(r)
  BY <1>2 DEF Tried
<1>6. r.late - 1 \in 0 .. MostSends /\ r.runs + 1 \in 0 .. MostSends
  BY <1>2, <1>4, <1>5, MostFacts
<1>7. q \in Calls
  BY <1>2, <1>6 DEF Calls
<1>8. /\ q.pc = r.pc /\ q.sentAt = r.sentAt /\ q.runs = r.runs + 1 /\ q.late = r.late - 1
      /\ q.attempt = r.attempt /\ q.answer = r.answer /\ q.item = r.item /\ q.kind = r.kind
      /\ q.service = r.service
      /\ q.ok = r.ok /\ q.sends = r.sends
  BY <1>2 DEF Calls
<1> HIDE DEF q
<1>9. Tried(q) /\ Timed(q, now)
  <2>1. q.runs + q.late = r.runs + r.late /\ q.runs >= 1
    BY <1>2, <1>4, <1>8
  <2>2. r.pc # "idle"
    BY <1>2 DEF Tried
  <2>3. Done(q) = Done(r)
    BY <1>8 DEF Done
  <2> QED BY <1>2, <1>8, <2>1, <2>2, <2>3 DEF Tried, Timed, Pending
<1> QED BY <1>1, <1>3, <1>7, <1>9, OneCall

(* An unanswered request that is given up on may be executed yet.          *)
LEMMA LoseRecord ==
  ASSUME NEW r \in Calls, Tried(r), r.pc = "sent"
  PROVE  LET q == Abandoned(r) IN
         /\ q \in Calls /\ q.attempt = r.attempt /\ q.sends = r.sends
         /\ q.pc = r.pc /\ q.runs = r.runs /\ q.item = r.item /\ q.service = r.service
         /\ q.kind = r.kind /\ q.sentAt = r.sentAt
         /\ q.late \in 0 .. MostSends /\ r.runs + q.late <= Done(r)
<1> DEFINE unserved == r.kind = "POST" /\ r.answer = Empty
           n == IF unserved THEN r.late + 1 ELSE r.late
           q == [r EXCEPT !.late = n]
<1>1. Abandoned(r) = q
  BY DEF Abandoned, Calls
<1>2. r.runs + r.late <= Done(r) /\ (unserved => r.runs + r.late < Done(r))
  BY DEF Tried, Pending
<1>3. /\ r.runs \in Nat /\ r.late \in Nat /\ Done(r) \in Nat /\ Done(r) <= MostSends
  BY DoneBounded, MostFacts DEF Tried
<1> HIDE DEF unserved
<1>4. n \in 0 .. MostSends /\ r.runs + n <= Done(r)
  BY <1>2, <1>3, MostFacts
<1> HIDE DEF n
<1>5. q \in Calls
  BY <1>4 DEF Calls
<1>6. /\ q.pc = r.pc /\ q.runs = r.runs /\ q.late = n /\ q.sends = r.sends
      /\ q.attempt = r.attempt /\ q.item = r.item /\ q.service = r.service
      /\ q.kind = r.kind /\ q.sentAt = r.sentAt
  BY DEF Calls
<1> HIDE DEF q
<1> QED BY <1>1, <1>4, <1>5, <1>6

(* An unanswered attempt is given up on.                                   *)
LEMMA LoseCalls ==
  ASSUME CallInv, NEW c \in Callers, Lose(c)
  PROVE  CallInv'
<1> DEFINE r == call[c]
           q == Abandoned(r)
<1>1. now' = now /\ now \in Nat
  BY PathFacts DEF Lose, breakerVars, CallInv
<1>2. r \in Calls /\ Tried(r) /\ Timed(r, now) /\ r.pc = "sent"
  BY DEF CallInv, Lose
<1>3. call' = [call EXCEPT ![c] = AfterError(q)]
  BY Zenon DEF Lose
<1> HIDE DEF r
<1>4. /\ q \in Calls /\ q.attempt = r.attempt /\ q.item = r.item /\ q.service = r.service
      /\ q.runs + q.late <= Done(r) /\ q.runs \in Nat /\ q.late \in Nat
  <2>1. q.late \in 0 .. MostSends /\ q.runs = r.runs /\ q.runs + q.late <= Done(r)
        /\ q \in Calls /\ q.attempt = r.attempt /\ q.item = r.item /\ q.service = r.service
    BY <1>2, LoseRecord
  <2>2. r.runs \in Nat
    BY <1>2, DoneBounded DEF Tried
  <2> HIDE DEF q
  <2> QED BY <2>1, <2>2, MostFacts
<1>5. /\ Done(r) \in Nat /\ Done(r) <= Slots(r.attempt) /\ Slots(r.attempt) \in Nat
  BY <1>2, DoneBounded DEF Tried
<1> HIDE DEF q
<1>6. AfterError(q) \in Calls /\ Tried(AfterError(q)) /\ Timed(AfterError(q), now)
  BY <1>1, <1>2, <1>4, <1>5, AfterErrorSound DEF Timed, Tried
<1> QED BY <1>1, <1>3, <1>6, OneCall

(* The client's timeout ties what is stored to when it was asked for.      *)
LEMMA ReceiveCalls ==
  ASSUME CallInv, NEW c \in Callers, Receive(c)
  PROVE  CallInv'
<1> DEFINE r == call[c]
           i == [value |-> r.answer.body, expiration |-> now + TTL]
           q == [Over(r) EXCEPT !.pc = "storing", !.item = i]
           caches == EnableCache /\ r.kind = "GET" /\ r.answer.status = 200
<1>1. now' = now /\ now \in 0 .. MaxTime /\ now \in Nat
  BY PathFacts DEF Receive, breakerVars, CallInv
<1>2. /\ r \in Calls /\ Tried(r) /\ Timed(r, now)
      /\ r.pc = "sent" /\ r.answer # Empty
      /\ ProxyTimeout # 0 => now <= r.sentAt + ProxyTimeout
  BY DEF CallInv, Receive, InTime
<1>3. r.answer \in Answers /\ r.sentAt \in Nat
  BY <1>2, PathFacts DEF Calls
<1>4. CASE caches
  <2>1. call' = [call EXCEPT ![c] = q]
    BY <1>4 DEF Receive
  <2>2. r.kind = "GET"
    BY <1>4
  <2>3. r.sentAt <= r.answer.body /\ r.answer.body \in Bodies /\ r.answer.body \in Nat
    BY <1>2, <1>3, <2>2, PathFacts DEF Timed, Answers, Bodies
  <2> HIDE DEF r
  <2>4. now + TTL \in 1 .. MaxTime + TTL
    BY <1>1, PathFacts, PathAssumption
  <2>5. i \in CacheItems
    BY <2>3, <2>4 DEF CacheItems
  <2>6. Recent(i)
    <3>1. ProxyTimeout # 0 => now + TTL <= r.answer.body + ProxyTimeout + TTL
      BY <1>1, <1>2, <1>3, <2>3, PathAssumption
    <3> QED BY <3>1 DEF Recent
  <2> HIDE DEF i
  <2>7. 0 \in 0 .. MaxTime /\ 0 \in 0 .. MaxSends
    BY PathFacts, SlotFacts
  <2>8. q \in Calls
    BY <1>2, <2>5, <2>7 DEF Over, Calls
  <2>9. /\ q.pc = "storing" /\ q.runs = r.runs /\ q.late = r.late
        /\ q.attempt = r.attempt /\ q.item = i /\ q.kind = r.kind /\ q.service = r.service
    BY <1>2 DEF Over, Calls
  <2> HIDE DEF q
  <2>10. Tried(q) /\ Timed(q, now)
    <3>1. /\ Done(r) \in Nat /\ Done(r) <= Slots(r.attempt) /\ Slots(r.attempt) \in Nat
          /\ r.runs \in Nat /\ r.late \in Nat
      BY <1>2, DoneBounded DEF Tried
    <3>2. Done(q) = Slots(r.attempt)
      BY <2>9 DEF Done
    <3> QED BY <1>2, <2>2, <2>5, <2>6, <2>9, <3>1, <3>2 DEF Tried, Timed, Pending
  <2> QED BY <1>1, <2>1, <2>8, <2>10, OneCall
<1>5. CASE ~caches
  <2>1. call' = [call EXCEPT ![c] = Relayed(r)]
    BY <1>5 DEF Receive
  <2> HIDE DEF r
  <2>2. r.pc # "idle"
    BY <1>2
  <2>3. r.kind = "POST" => r.runs >= 1
    BY <1>2 DEF Tried
  <2> QED BY <1>1, <1>2, <2>1, <2>2, <2>3, RelayedSound, OneCall
<1> QED BY <1>4, <1>5

(* A stored body is relayed.                                               *)
LEMMA StoreCalls ==
  ASSUME CallInv, NEW c \in Callers, Store(c)
  PROVE  CallInv'
<1>1. now' = now /\ now \in Nat
  BY PathFacts DEF Store, C!Put, CallInv
<1>2. call[c] \in Calls /\ Tried(call[c]) /\ call[c].pc # "idle" /\ call[c].kind # "POST"
  BY DEF CallInv, Store, Timed
<1> QED BY <1>1, <1>2, RelayedSound, OneCall DEF Store

(* Steps that leave all requests alone, and time.                          *)
LEMMA OtherCalls ==
  ASSUME CallInv, UNCHANGED call, UNCHANGED now \/ Tick
  PROVE  CallInv'
<1>1. now' \in 0 .. MaxTime /\ now \in Nat /\ now' \in Nat /\ now <= now'
  BY PathFacts DEF CallInv, Tick, B!Tick
<1>2. ASSUME NEW c \in Callers PROVE Tried(call[c]) /\ Timed(call[c], now')
  <2>1. Tried(call[c]) /\ Timed(call[c], now)
    BY DEF CallInv
  <2>2. call[c].sentAt \in Nat
    BY PathFacts DEF CallInv, Calls
  <2> QED BY <1>1, <2>1, <2>2 DEF Timed
<1> QED BY <1>1, <1>2 DEF CallInv

(* Every step of the request path keeps the requests sound.                *)
LEMMA NextCalls == CallInv /\ [Next]_vars => CallInv'
<1> SUFFICES ASSUME CallInv, [Next]_vars PROVE CallInv'
  OBVIOUS
<1>1. ASSUME NEW c \in Callers, Refuse(c) PROVE CallInv'
  BY <1>1, OtherCalls DEF Refuse, B!RefuseOpen, B!RefuseTooMany, B!breakerVars
<1>2. ASSUME NEW c \in Callers, Gateway(c) PROVE CallInv'
  BY <1>2, PassOnCalls, HitCalls, SendCalls, LoseCalls, ReceiveCalls, StoreCalls,
     ReturnCalls DEF Gateway, TimeOut
<1>3. CASE Tick
  BY <1>3, OtherCalls DEF Tick
<1>4. CASE UNCHANGED vars
  BY <1>4, OtherCalls DEF vars
<1> QED BY <1>1, <1>2, <1>3, <1>4, EnterCalls, ServeCalls, ServeLateCalls, ResendCalls,
        LoseCalls DEF Next

(* No request is under way at the start.                                   *)
LEMMA InitCalls == Init => CallInv
<1> SUFFICES ASSUME Init PROVE CallInv
  OBVIOUS
<1>1. now = 0 /\ 0 \in 0 .. MaxTime
  BY PathFacts DEF Init, B!Init
<1>2. call = [c \in Callers |-> Idle]
  BY DEF Init
<1> QED BY <1>1, <1>2, IdleSound DEF CallInv

-----------------------------------------------------------------------------

(* An item in the cache is live, and its age is bounded: it is put there   *)
(* as Receive made it, and dropped when it expires.                        *)
LEMMA NextCache == CallInv /\ CacheInv /\ [Next]_vars => CacheInv'
<1> SUFFICES ASSUME CallInv, CacheInv, [Next]_vars PROVE CacheInv'
  OBVIOUS
<1>0. now \in Nat /\ MaxTime \in Nat /\ TTL \in Nat
  BY PathFacts, PathAssumption DEF CallInv
<1>1. ASSUME NEW c \in Callers, Store(c) PROVE CacheInv'
  <2> DEFINE i == call[c].item
             k == call[c].service
  <2>1. now' = now /\ live' = [live EXCEPT ![k] = C!At(i, now)]
    BY <1>1 DEF Store, C!Put
  <2>2. i \in CacheItems \cup {Empty} /\ Recent(i)
    BY DEF CallInv, Calls, Timed
  <2> HIDE DEF i, k
  <2>3. \/ C!At(i, now) = Empty
        \/ /\ C!At(i, now) = i /\ i # Empty /\ i \in CacheItems /\ ~C!Expired(i, now)
    BY <2>2 DEF C!At
  <2>4. i \in CacheItems /\ ~C!Expired(i, now) => now <= i.expiration
    BY <1>0 DEF C!Expired, CacheItems
  <2>5. ASSUME NEW s \in Services
        PROVE  /\ live'[s] \in CacheItems \cup {Empty}
               /\ live'[s] # Empty => Recent(live'[s]) /\ now <= live'[s].expiration
    BY <2>1, <2>2, <2>3, <2>4 DEF CacheInv
  <2>6. live' \in [Services -> CacheItems \cup {Empty}]
    BY <2>1, <2>5 DEF CacheInv
  <2> QED BY <2>1, <2>5, <2>6 DEF CacheInv
<1>2. CASE Tick
  <2>1. now' = now + 1 /\ live' = [s \in Services |-> C!At(live[s], now + 1)]
    BY <1>2 DEF Tick, C!Tick
  <2>2. ASSUME NEW s \in Services
        PROVE  /\ live'[s] \in CacheItems \cup {Empty}
               /\ live'[s] # Empty => Recent(live'[s]) /\ now + 1 <= live'[s].expiration
    <3>1. live[s] \in CacheItems \cup {Empty} /\ (live[s] # Empty => Recent(live[s]))
      BY DEF CacheInv
    <3>2. live'[s] = C!At(live[s], now + 1)
      BY <2>1
    <3>3. \/ live'[s] = Empty
          \/ /\ live'[s] = live[s] /\ live[s] # Empty /\ live[s] \in CacheItems
             /\ ~C!Expired(live[s], now + 1)
      BY <3>1, <3>2 DEF C!At
    <3>4. live[s] \in CacheItems /\ ~C!Expired(live[s], now + 1) => now + 1 <= live[s].expiration
      BY <1>0 DEF C!Expired, CacheItems
    <3> QED BY <3>1, <3>3, <3>4
  <2> QED BY <2>1, <2>2 DEF CacheInv
<1>3. ASSUME UNCHANGED <<now, live>> PROVE CacheInv'
  BY <1>3 DEF CacheInv
<1>4. ASSUME NEW c \in Callers, NEW k \in Kinds, NEW s \in Services, Enter(c, k, s)
      PROVE  CacheInv'
  BY <1>3, <1>4 DEF Enter, B!Admit, breakerVars
<1>5. ASSUME NEW c \in Callers, Refuse(c) PROVE CacheInv'
  BY <1>3, <1>5 DEF Refuse, B!RefuseOpen, B!RefuseTooMany, B!breakerVars
<1>6. ASSUME NEW c \in Callers, Return(c) PROVE CacheInv'
  BY <1>3, <1>6 DEF Return, B!Report, breakerVars
<1>7. ASSUME NEW c \in Callers,
             \/ PassOn(c) \/ Hit(c) \/ Send(c) \/ Resend(c) \/ Lose(c) \/ Receive(c)
             \/ ServeLate(c)
             \/ \E status \in {200, 500} : Serve(c, status)
      PROVE  CacheInv'
  BY <1>3, <1>7 DEF PassOn, Hit, Send, Resend, Lose, Receive, ServeLate, Serve, breakerVars
<1>8. CASE UNCHANGED vars
  BY <1>3, <1>8 DEF vars
<1> QED BY <1>1, <1>2, <1>4, <1>5, <1>6, <1>7, <1>8 DEF Next, Gateway, TimeOut

(* The cache starts empty.                                                 *)
LEMMA InitCache == Init => CacheInv
BY DEF Init, C!Init, CacheInv

(* What the two invariants say of the properties the runs check.           *)
LEMMA PathImplies == CallInv /\ CacheInv => StalenessBound /\ ExecutionsBounded
<1> SUFFICES ASSUME CallInv, CacheInv PROVE StalenessBound /\ ExecutionsBounded
  OBVIOUS
<1>0. now \in Nat
  BY PathFacts DEF CallInv
<1>1. ASSUME NEW s \in Services, live[s] # Empty, ProxyTimeout # 0
      PROVE  now <= live[s].value + ProxyTimeout + TTL
  <2> DEFINE i == live[s]
  <2>1. i \in CacheItems /\ Recent(i) /\ now <= i.expiration
    BY <1>1 DEF CacheInv
  <2>2. i.value \in Nat /\ i.expiration \in Nat
    BY <2>1, PathFacts, PathAssumption DEF CacheItems, Bodies
  <2>3. i.expiration <= i.value + ProxyTimeout + TTL
    BY <1>1, <2>1 DEF Recent
  <2> HIDE DEF i
  <2>4. now <= i.value + ProxyTimeout + TTL
    BY <1>0, <2>1, <2>2, <2>3, PathAssumption
  <2> QED BY <2>4 DEF i
<1>2. ASSUME NEW c \in Callers, call[c].kind = "POST"
      PROVE  /\ call[c].runs + call[c].late <= MostSends
             /\ call[c].pc = "returning" /\ call[c].ok => call[c].runs >= 1
  <2> DEFINE r == call[c]
  <2>1. r \in Calls /\ Tried(r) /\ r.kind = "POST"
    BY <1>2 DEF CallInv
  <2> HIDE DEF r
  <2>2. /\ r.runs \in Nat /\ r.late \in Nat /\ Done(r) \in Nat /\ Done(r) <= Slots(r.attempt)
        /\ Slots(r.attempt) \in Nat /\ Slots(r.attempt) <= MostSends
    BY <2>1, DoneBounded DEF Tried
  <2>3. r.runs + r.late <= Done(r)
    BY <2>1 DEF Tried
  <2>4. r.runs + r.late <= MostSends
    BY <2>2, <2>3, MostFacts
  <2>5. r.pc = "returning" /\ r.ok => r.runs >= 1
    BY <2>1 DEF Tried
  <2> QED BY <2>4, <2>5 DEF r
<1> QED BY <1>1, <1>2 DEF StalenessBound, ExecutionsBounded

-----------------------------------------------------------------------------
(***************************************************************************)
(* The breaker inside the request path.  P is Breaker again, with its      *)
(* proofs; its actions are B's, so its invariant is the path's too.        *)
(***************************************************************************)

P == INSTANCE BreakerProofs

(* P counts as B does.                                                     *)
LEMMA SameFinite ==
  /\ \A S : P!IsFiniteSet(S) <=> B!IsFiniteSet(S)
  /\ \A S : P!Cardinality(S) = B!Cardinality(S)
<1>1. ASSUME NEW S PROVE P!IsFiniteSet(S) <=> B!IsFiniteSet(S)
  BY Zenon DEF P!IsFiniteSet, B!IsFiniteSet
<1>2. ASSUME NEW S PROVE P!Cardinality(S) = B!Cardinality(S)
  BY Zenon DEF P!Cardinality, B!Cardinality
<1> QED BY <1>1, <1>2

(* The settings the breaker is proved for.                                 *)
LEMMA SameAssumption == P!BreakerAssumption
BY PathBreakerAssumption, SameFinite DEF P!BreakerAssumption, B!BreakerAssumption

(* P's invariant, kept by a step that B's breaker takes.                   *)
LEMMA BreakerKeeps == P!IInv /\ [P!Next]_breakerVars => P!IInv'
<1>1. P!IInv /\ [P!Next]_(P!breakerVars) => P!IInv'
  BY P!NextIInv, SameAssumption
<1> QED BY <1>1 DEF breakerVars, P!breakerVars

(* The breaker starts as P's.                                              *)
LEMMA BreakerStarts == B!Init => P!IInv
<1>1. P!Init => P!IInv
  BY P!InitIInv, SameAssumption
<1>2. B!Init => P!Init
  BY Zenon DEF B!Init, P!Init
<1> QED BY <1>1, <1>2

(* gobreaker's functions are the same in both.                             *)
LEMMA SameFunctions ==
  /\ \A b : P!Current(b) = B!Current(b)
  /\ \A b, t, ok : P!Reported(b, t, ok) = B!Reported(b, t, ok)
<1>1. \A n : P!Increment(n) = B!Increment(n)
  BY DEF P!Increment, B!Increment
<1>2. P!MaxRequests = B!MaxRequests /\ P!Cooldown = B!Cooldown
  BY DEF P!MaxRequests, B!MaxRequests, P!Cooldown, B!Cooldown
<1>3. \A b, t : P!SetState(b, t) = B!SetState(b, t)
  BY <1>2 DEF P!SetState, B!SetState
<1>4. \A b : P!ReadyToTrip(b) <=> B!ReadyToTrip(b)
  BY DEF P!ReadyToTrip, B!ReadyToTrip
<1>5. ASSUME NEW b PROVE P!Current(b) = B!Current(b)
  BY <1>3 DEF P!Current, B!Current
<1>6. ASSUME NEW b PROVE P!Succeeded(b) = B!Succeeded(b)
  <2>1. P!Increment(b.successes) = B!Increment(b.successes)
        /\ P!Increment(b.streak) = B!Increment(b.streak)
    BY <1>1
  <2> QED BY <1>2, <1>3, <2>1, Zenon DEF P!Succeeded, B!Succeeded
<1>7. ASSUME NEW b PROVE P!Failed(b) = B!Failed(b)
  <2>1. P!Increment(b.failures) = B!Increment(b.failures)
    BY <1>1
  <2> QED BY <1>3, <1>4, <2>1 DEF P!Failed, B!Failed
<1>8. ASSUME NEW b, NEW t, NEW ok PROVE P!Reported(b, t, ok) = B!Reported(b, t, ok)
  BY <1>6, <1>7 DEF P!Reported, B!Reported
<1> QED BY <1>5, <1>8

(* Entering B's breaker is entering P's.                                   *)
LEMMA SameAdmit ==
  ASSUME NEW c \in Callers, B!Admit(c)
  PROVE  P!Admit(c)
BY SameFunctions DEF B!Admit, P!Admit, B!Admitted, P!Admitted, B!NoteWrap, P!NoteWrap,
   B!MaxRequests, P!MaxRequests, B!Increment, P!Increment

(* Being refused is.                                                       *)
LEMMA SameRefuse ==
  ASSUME NEW c \in Callers, B!RefuseOpen(c) \/ B!RefuseTooMany(c)
  PROVE  P!RefuseOpen(c) \/ P!RefuseTooMany(c)
BY SameFunctions DEF B!RefuseOpen, P!RefuseOpen, B!RefuseTooMany, P!RefuseTooMany,
   B!NoteWrap, P!NoteWrap, B!MaxRequests, P!MaxRequests, B!breakerVars, P!breakerVars

(* Leaving is.                                                             *)
LEMMA SameReport ==
  ASSUME NEW c \in Callers, NEW ok \in BOOLEAN, B!Report(c, ok)
  PROVE  P!Report(c, ok)
BY SameFunctions DEF B!Report, P!Report, B!NoteWrap, P!NoteWrap

(* Time passes for both.                                                   *)
LEMMA SameTick == B!Tick => P!Tick
BY DEF B!Tick, P!Tick

(* A step of the request path is a step of its breaker.                    *)
LEMMA StepsBreaker == CallInv /\ [Next]_vars => [B!Next]_breakerVars
<1> SUFFICES ASSUME CallInv, [Next]_vars PROVE [B!Next]_breakerVars
  OBVIOUS
<1>1. ASSUME NEW c \in Callers, NEW k \in Kinds, NEW s \in Services, Enter(c, k, s)
      PROVE  [B!Next]_breakerVars
  BY <1>1 DEF Enter, B!Next
<1>2. ASSUME NEW c \in Callers, Refuse(c) PROVE [B!Next]_breakerVars
  BY <1>2 DEF Refuse, B!Next
<1>3. ASSUME NEW c \in Callers, Return(c) PROVE [B!Next]_breakerVars
  <2>1. call[c].ok \in BOOLEAN
    BY DEF CallInv, Calls
  <2> QED BY <1>3, <2>1 DEF Return, B!Next
<1>4. ASSUME NEW c \in Callers, Store(c) PROVE [B!Next]_breakerVars
  BY <1>4 DEF Store, C!Put, breakerVars
<1>5. ASSUME NEW c \in Callers,
             \/ PassOn(c) \/ Hit(c) \/ Send(c) \/ Resend(c) \/ Lose(c) \/ Receive(c)
             \/ ServeLate(c)
             \/ \E status \in {200, 500} : Serve(c, status)
      PROVE  [B!Next]_breakerVars
  BY <1>5 DEF PassOn, Hit, Send, Resend, Lose, Receive, ServeLate, Serve
<1>6. CASE Tick
  BY <1>6 DEF Tick, B!Next
<1>7. CASE UNCHANGED vars
  BY <1>7 DEF vars, breakerVars
<1> QED BY <1>1, <1>2, <1>3, <1>4, <1>5, <1>6, <1>7 DEF Next, Gateway, TimeOut

(* And that is a step of P's.                                              *)
LEMMA BreakersSteps == [B!Next]_breakerVars => [P!Next]_breakerVars
<1>1. B!ReadState => P!ReadState
  BY SameFunctions DEF B!ReadState, P!ReadState, B!NoteWrap, P!NoteWrap
<1> QED BY <1>1, SameAdmit, SameRefuse, SameReport, SameTick DEF B!Next, P!Next

-----------------------------------------------------------------------------

(* What one half-open period lets through to the upstream.                 *)

(* The requests the calls that count may still make.                       *)
ToSend(b, in, t, cl) ==
  {p \in Callers \X (1 .. MostSends) :
     p[1] \in in /\ t[p[1]] = b.generation /\ p[2] > Done(cl[p[1]])}

(* Made or to be made, the requests of the probes admitted.                *)
Budget(b, in, t, cl, n) ==
  b.state = "half-open" =>
    n + Cardinality(ToSend(b, in, t, cl)) <= b.requests * MostSends

BudgetInv ==
  /\ ~EnableCircuitBreaker => cb.state = "closed"
  /\ Budget(cb, inside, ticket, call, probeSends)

(* They are finitely many.                                                 *)
LEMMA ToSendFinite ==
  ASSUME NEW b, NEW in, NEW t, NEW cl
  PROVE  /\ IsFiniteSet(ToSend(b, in, t, cl))
         /\ Cardinality(ToSend(b, in, t, cl)) \in Nat
<1>1. IsFiniteSet(Callers)
  <2>1. B!IsFiniteSet(Callers)
    BY PathBreakerAssumption DEF B!BreakerAssumption
  <2> QED BY <2>1, Zenon DEF B!IsFiniteSet, IsFiniteSet
<1>2. IsFiniteSet(1 .. MostSends)
  BY MostFacts, FS_Interval
<1>3. IsFiniteSet(Callers \X (1 .. MostSends))
  BY <1>1, <1>2, FS_Product
<1>4. ToSend(b, in, t, cl) \in SUBSET (Callers \X (1 .. MostSends))
  BY DEF ToSend
<1>5. IsFiniteSet(ToSend(b, in, t, cl))
  BY <1>3, <1>4, FS_Subset
<1> QED BY <1>5, FS_CardinalityType

(* A call has that many requests to make.                                  *)
LEMMA Share ==
  ASSUME NEW c \in Callers
  PROVE  /\ IsFiniteSet({c} \X (1 .. MostSends))
         /\ Cardinality({c} \X (1 .. MostSends)) = MostSends
<1>1. IsFiniteSet({c}) /\ Cardinality({c}) = 1
  BY FS_Singleton
<1>2. IsFiniteSet(1 .. MostSends) /\ Cardinality(1 .. MostSends) = MostSends
  BY MostFacts, FS_Interval
<1>3. Cardinality({c} \X (1 .. MostSends)) = 1 * MostSends
  BY <1>1, <1>2, FS_Product
<1>4. 1 * MostSends = MostSends
  BY MostFacts
<1> QED BY <1>1, <1>2, <1>3, <1>4, FS_Product

(* Fewer requests to make, and the rest as it was.                         *)
LEMMA BudgetShrinks ==
  ASSUME NEW b, NEW in, NEW t, NEW cl, NEW n \in Nat, Budget(b, in, t, cl, n),
         NEW b2, NEW in2, NEW t2, NEW cl2,
         b2.state = "half-open" => b.state = "half-open" /\ b2.requests = b.requests,
         b2.state = "half-open" => ToSend(b2, in2, t2, cl2) \subseteq ToSend(b, in, t, cl),
         b.requests \in Nat
  PROVE  Budget(b2, in2, t2, cl2, n)
<1> SUFFICES ASSUME b2.state = "half-open"
             PROVE  n + Cardinality(ToSend(b2, in2, t2, cl2)) <= b2.requests * MostSends
  BY DEF Budget
<1> DEFINE x == Cardinality(ToSend(b, in, t, cl))
           y == Cardinality(ToSend(b2, in2, t2, cl2))
           m == b.requests * MostSends
<1>1. y <= x
  BY ToSendFinite, FS_Subset
<1>2. x \in Nat /\ y \in Nat
  BY ToSendFinite
<1>3. n + x <= m /\ b2.requests * MostSends = m
  BY DEF Budget
<1>4. m \in Nat
  BY MostFacts
<1> HIDE DEF x, y, m
<1>5. n + y <= m
  BY <1>1, <1>2, <1>3, <1>4
<1> QED BY <1>3, <1>5 DEF y

(* One more probe brings its own share.                                    *)
LEMMA BudgetGrows ==
  ASSUME NEW b, NEW in, NEW t, NEW cl, NEW n \in Nat, Budget(b, in, t, cl, n),
         NEW b2, NEW in2, NEW t2, NEW cl2, NEW c \in Callers,
         b.state = "half-open", b2.requests = b.requests + 1, b.requests \in Nat,
         ToSend(b2, in2, t2, cl2) \subseteq ToSend(b, in, t, cl) \cup ({c} \X (1 .. MostSends))
  PROVE  Budget(b2, in2, t2, cl2, n)
<1> DEFINE S == ToSend(b, in, t, cl)
           U == {c} \X (1 .. MostSends)
           x == Cardinality(S)
           y == Cardinality(ToSend(b2, in2, t2, cl2))
           z == Cardinality(S \cup U)
           w == Cardinality(S \cap U)
           q == b.requests
<1>1. IsFiniteSet(S) /\ x \in Nat /\ y \in Nat
  BY ToSendFinite
<1>2. IsFiniteSet(U) /\ Cardinality(U) = MostSends
  BY Share
<1>3. IsFiniteSet(S \cap U) /\ IsFiniteSet(S \cup U)
  BY <1>1, <1>2, FS_Intersection, FS_Union
<1>4. w \in Nat /\ z \in Nat
  BY <1>3, FS_CardinalityType
<1>5. z = x + MostSends - w
  BY <1>1, <1>2, FS_Union
<1>6. y <= z
  BY <1>3, FS_Subset
<1>7. n + x <= q * MostSends
  BY DEF Budget
<1> HIDE DEF S, U, x, y, z, w, q
<1>8. (q + 1) * MostSends = q * MostSends + MostSends /\ q * MostSends \in Nat
  <2>1. q \in Nat
    BY DEF q
  <2> QED BY <2>1, MostFacts
<1>9. n + y <= q * MostSends + MostSends
  <2> DEFINE m == q * MostSends
  <2>1. m \in Nat /\ n + x <= m
    BY <1>7, <1>8
  <2> HIDE DEF m
  <2>2. n + y <= m + MostSends
    BY <1>1, <1>4, <1>5, <1>6, <2>1, MostFacts
  <2> QED BY <2>2 DEF m
<1>10. n + y <= b2.requests * MostSends
  BY <1>8, <1>9 DEF q
<1> QED BY <1>10 DEF Budget, y

(* A period in which nobody has been admitted yet has sent nothing.        *)
LEMMA BudgetFresh ==
  ASSUME NEW b, NEW in, NEW t, NEW cl, ToSend(b, in, t, cl) = {}, b.requests \in Nat
  PROVE  Budget(b, in, t, cl, 0)
<1>1. Cardinality(ToSend(b, in, t, cl)) = 0
  BY FS_EmptySet
<1>2. b.requests * MostSends >= 0
  BY MostFacts
<1> QED BY <1>1, <1>2 DEF Budget

(* The first probe of a period has its own share to send.                  *)
LEMMA BudgetFirst ==
  ASSUME NEW b, NEW in, NEW t, NEW cl, NEW c \in Callers, b.requests = 1,
         ToSend(b, in, t, cl) \subseteq {c} \X (1 .. MostSends)
  PROVE  Budget(b, in, t, cl, 0)
<1> DEFINE U == {c} \X (1 .. MostSends)
<1>0. IsFiniteSet(U) /\ Cardinality(U) = MostSends
  BY Share
<1>1. Cardinality(ToSend(b, in, t, cl)) <= MostSends
  <2> HIDE DEF U
  <2>1. ToSend(b, in, t, cl) \in SUBSET U
    BY DEF U
  <2> QED BY <1>0, <2>1, FS_Subset
<1>2. Cardinality(ToSend(b, in, t, cl)) \in Nat
  BY ToSendFinite
<1>3. b.requests * MostSends = MostSends
  BY SlotFacts
<1> QED BY <1>1, <1>2, <1>3 DEF Budget

(* A half-open breaker comes from a lapse, and then no ticket is of its    *)
(* generation, or it was half-open.                                        *)
LEMMA LapseQuota ==
  ASSUME P!IInv, NEW b, b = P!Current(cb), b.state = "half-open"
  PROVE  /\ b.requests \in Nat
         /\ \/ b = cb
            \/ /\ b.generation # cb.generation /\ b.requests = 0
               /\ \A d \in inside : ticket[d] # b.generation
<1>1. now \in Nat /\ cb \in P!Breakers /\ cb.generation \in Nat /\ ticket \in [Callers -> Nat]
      /\ inside \in SUBSET Callers
  BY DEF P!IInv, P!Sound, P!Breakers
<1>2. \A d \in inside : ticket[d] <= cb.generation
  BY DEF P!IInv, P!Sound
<1>3. b \in P!Breakers /\ (b = cb \/ P!Fresh(b, cb.generation, "half-open"))
  BY <1>1, P!CurrentCases, SameAssumption
<1>4. b.requests \in Nat
  BY <1>3, PathBreakerAssumption DEF P!Breakers, P!Counter, B!BreakerAssumption
<1>5. CASE P!Fresh(b, cb.generation, "half-open")
  <2>1. b.generation = cb.generation + 1 /\ b.requests = 0
    BY <1>5 DEF P!Fresh
  <2>2. \A d \in inside : ticket[d] \in Nat
    BY <1>1
  <2> QED BY <1>1, <1>2, <1>4, <2>1, <2>2
<1> QED BY <1>3, <1>4, <1>5

(* What an entry that leaves the breaker half-open does.                   *)
LEMMA AdmitQuota ==
  ASSUME P!IInv, NEW c \in Callers, P!Admit(c), cb'.state = "half-open"
  PROVE  /\ c \notin inside /\ inside' = inside \cup {c}
         /\ \A d \in inside : ticket'[d] = ticket[d]
         /\ \/ /\ cb'.generation # cb.generation /\ cb'.requests = 1
               /\ \A d \in inside : ticket[d] # cb'.generation
            \/ /\ cb'.generation = cb.generation /\ cb.state = "half-open"
               /\ cb'.requests = cb.requests + 1 /\ cb.requests \in Nat
<1> DEFINE b == P!Current(cb)
<1>1. now \in Nat /\ cb \in P!Breakers /\ ticket \in [Callers -> Nat] /\ inside \subseteq Callers
  BY DEF P!IInv, P!Sound
<1>2. b \in P!Breakers
  BY <1>1, P!CurrentCases, SameAssumption
<1>3. /\ c \notin inside /\ inside' = inside \cup {c}
      /\ ticket' = [ticket EXCEPT ![c] = cb'.generation]
      /\ cb' = P!Admitted(b)
      /\ b.state = "half-open" => b.requests < P!MaxRequests
  BY DEF P!Admit
<1>4. cb'.state = b.state /\ cb'.generation = b.generation
      /\ cb'.requests = P!Increment(b.requests)
  BY <1>2, <1>3 DEF P!Admitted, P!Breakers
<1>5. b.state = "half-open"
  BY <1>4
<1> HIDE DEF b
<1>6. /\ b.requests \in Nat
      /\ \/ b = cb
         \/ /\ b.generation # cb.generation /\ b.requests = 0
            /\ \A d \in inside : ticket[d] # b.generation
  BY <1>5, LapseQuota DEF b
<1>7. cb'.requests = b.requests + 1
  <2>1. P!MaxRequests \in P!Counter
    BY P!Settings, SameAssumption
  <2>2. b.requests < P!MaxRequests
    BY <1>3, <1>5
  <2> QED BY <1>4, <1>6, <2>1, <2>2, PathBreakerAssumption
          DEF P!Counter, P!Increment, B!BreakerAssumption
<1>8. \A d \in inside : ticket'[d] = ticket[d]
  BY <1>1, <1>3
<1> QED BY <1>3, <1>4, <1>5, <1>6, <1>7, <1>8

(* What a refusal that leaves the breaker half-open does.                  *)
LEMMA RefuseQuota ==
  ASSUME P!IInv, NEW c \in Callers, P!RefuseTooMany(c), cb'.state = "half-open"
  PROVE  /\ inside' = inside /\ ticket' = ticket /\ cb'.requests \in Nat
         /\ \/ cb' = cb
            \/ /\ cb'.generation # cb.generation
               /\ \A d \in inside : ticket[d] # cb'.generation
<1> DEFINE b == P!Current(cb)
<1>1. inside' = inside /\ ticket' = ticket /\ cb' = b /\ b.state = "half-open"
  BY DEF P!RefuseTooMany
<1> HIDE DEF b
<1>2. /\ b.requests \in Nat
      /\ \/ b = cb
         \/ b.generation # cb.generation /\ \A d \in inside : ticket[d] # b.generation
  BY <1>1, LapseQuota DEF b
<1> QED BY <1>1, <1>2

(* What a report that leaves the breaker half-open does.                   *)
LEMMA ReportQuota ==
  ASSUME P!IInv, NEW c \in Callers, NEW ok \in BOOLEAN, P!Report(c, ok),
         cb'.state = "half-open"
  PROVE  /\ inside' = inside \ {c} /\ \A d \in inside' : ticket'[d] = ticket[d]
         /\ cb'.requests \in Nat
         /\ \/ /\ cb.state = "half-open" /\ cb'.generation = cb.generation
               /\ cb'.requests = cb.requests
            \/ /\ cb'.generation # cb.generation
               /\ \A d \in inside : ticket[d] # cb'.generation
<1> DEFINE b == P!Current(cb)
<1>1. now \in Nat /\ cb \in P!Breakers /\ ticket \in [Callers -> Nat] /\ inside \subseteq Callers
  BY DEF P!IInv, P!Sound
<1>2. b \in P!Breakers
  BY <1>1, P!CurrentCases, SameAssumption
<1>3. /\ c \in inside /\ inside' = inside \ {c}
      /\ ticket' = [ticket EXCEPT ![c] = 0]
      /\ cb' = P!Reported(b, ticket[c], ok)
  BY DEF P!Report
<1>4. \A d \in inside' : ticket'[d] = ticket[d]
  BY <1>1, <1>3
<1>5. /\ b.state = "half-open" /\ cb'.requests = b.requests
      /\ cb'.generation = b.generation /\ cb'.state = b.state
  <2>1. CASE cb' = b
    BY <2>1
  <2>2. CASE cb' = P!Succeeded(b)
    <3>1. \/ P!Fresh(cb', b.generation, "closed")
          \/ cb' = [b EXCEPT !.successes = P!Increment(@), !.streak = P!Increment(@)]
      BY <1>1, <1>2, <2>2, P!SucceededCases, SameAssumption
    <3>2. ~P!Fresh(cb', b.generation, "closed")
      BY DEF P!Fresh
    <3> QED BY <1>2, <3>1, <3>2 DEF P!Breakers
  <2>3. CASE cb' = P!Failed(b)
    <3>1. \/ P!Fresh(cb', b.generation, "open")
          \/ b.state = "open" /\ cb' = b
          \/ /\ b.state = "closed"
             /\ cb' = [b EXCEPT !.failures = P!Increment(@), !.streak = 0]
      BY <1>1, <1>2, <2>3, P!FailedCases, SameAssumption
    <3>2. ~P!Fresh(cb', b.generation, "open")
      BY DEF P!Fresh
    <3>3. ASSUME b.state = "closed",
                 cb' = [b EXCEPT !.failures = P!Increment(@), !.streak = 0]
          PROVE  FALSE
      BY <1>2, <3>3 DEF P!Breakers
    <3> QED BY <3>1, <3>2, <3>3
  <2> QED BY <1>3, <2>1, <2>2, <2>3 DEF P!Reported
<1> HIDE DEF b
<1>6. /\ b.requests \in Nat
      /\ \/ b = cb
         \/ b.generation # cb.generation /\ \A d \in inside : ticket[d] # b.generation
  BY <1>5, LapseQuota DEF b
<1> QED BY <1>3, <1>4, <1>5, <1>6

(* A request that goes from r to q makes no request again.                 *)
Onward(r, q) == \A k \in 1 .. MostSends : k > Done(q) => k > Done(r)

(* What is done stays done.                                                *)
LEMMA DoneOnward ==
  ASSUME NEW r, NEW q, Done(r) \in Nat, Done(q) \in Nat, Done(r) <= Done(q)
  PROVE  Onward(r, q)
BY SlotFacts DEF Onward

(* After a failed attempt there is the next one, or none.                  *)
LEMMA AfterErrorOnward ==
  ASSUME NEW r \in Calls, r.attempt >= 1,
         NEW q \in Calls, q.attempt = r.attempt
  PROVE  Onward(r, AfterError(q))
<1>1. /\ r.attempt \in Nat /\ Done(r) \in Nat /\ Done(r) <= Slots(r.attempt)
      /\ Slots(r.attempt) \in Nat
  BY DoneBounded
<1>2. \/ AfterError(q).pc = "forward" /\ AfterError(q).attempt = r.attempt + 1
      \/ AfterError(q).pc = "returning" /\ AfterError(q).attempt = r.attempt
  BY DEF AfterError, Over, Calls
<1>3. (r.attempt + 1) - 1 = r.attempt
  BY <1>1
<1>4. Done(AfterError(q)) = Slots(r.attempt)
  BY <1>2, <1>3 DEF Done
<1> QED BY <1>1, <1>4, DoneOnward

(* A request whose attempts are over, or as they were.                     *)
LEMMA SettledOnward ==
  ASSUME NEW r \in Calls, r.attempt >= 1, NEW q, q.attempt = r.attempt,
         \/ q.pc \notin {"forward", "sent"}
         \/ q.pc = r.pc /\ q.sends = r.sends
  PROVE  Onward(r, q)
<1>1. Done(r) \in Nat /\ Done(r) <= Slots(r.attempt) /\ Slots(r.attempt) \in Nat
  BY DoneBounded
<1>2. Done(q) = Slots(r.attempt) \/ Done(q) = Done(r)
  BY DEF Done
<1> QED BY <1>1, <1>2, DoneOnward

(* Steps that leave the breaker alone and make no request again.           *)
LEMMA QuietBudget ==
  ASSUME P!IInv, BudgetInv, probeSends \in Nat,
         \A d \in Callers : Onward(call[d], call'[d]),
         UNCHANGED <<cb, inside, ticket, probeSends>>
  PROVE  BudgetInv'
<1>2. ToSend(cb', inside', ticket', call') \subseteq ToSend(cb, inside, ticket, call)
  BY DEF ToSend, Onward
<1>3. cb.requests \in Nat
  BY PathBreakerAssumption DEF P!IInv, P!Sound, P!Breakers, P!Counter, B!BreakerAssumption
<1>4. Budget(cb', inside', ticket', call', probeSends')
  BY <1>2, <1>3, BudgetShrinks DEF BudgetInv
<1> QED BY <1>4 DEF BudgetInv

(* The requests' own steps, Send and Resend apart, are such steps.         *)
LEMMA GatewayOnward ==
  ASSUME CallInv, NEW c \in Callers,
         \/ PassOn(c) \/ Hit(c) \/ Lose(c) \/ Receive(c) \/ ServeLate(c) \/ Store(c)
         \/ \E status \in {200, 500} : Serve(c, status)
  PROVE  \E q : call' = [call EXCEPT ![c] = q] /\ Onward(call[c], q)
<1> DEFINE r == call[c]
<1>0. r \in Calls /\ r.attempt >= 1
  <2>1. r \in Calls /\ Tried(r)
    BY DEF CallInv
  <2>2. ASSUME r.pc = "idle" PROVE r.late = 0
    BY <2>1, <2>2 DEF Tried
  <2>3. r.pc # "idle" \/ ServeLate(c)
    BY DEF PassOn, Hit, Lose, Receive, Store, Serve
  <2>4. r.pc # "idle"
    BY <2>2, <2>3 DEF ServeLate
  <2> QED BY <2>1, <2>4 DEF Tried
<1>2. Onward(r, Relayed(r))
  <2>1. Relayed(r).pc = "returning" /\ Relayed(r).attempt = r.attempt
    BY <1>0 DEF Relayed, Over, Calls
  <2> QED BY <1>0, <2>1, SettledOnward
<1>3. CASE PassOn(c)
  <2>1. call' = [call EXCEPT ![c] = AfterError(r)]
    BY <1>3 DEF PassOn
  <2>2. Onward(r, AfterError(r))
    BY <1>0, AfterErrorOnward
  <2> QED BY <2>1, <2>2
<1>4. CASE Hit(c) \/ Store(c)
  BY <1>2, <1>4 DEF Hit, Store
<1>5. CASE Lose(c)
  <2> DEFINE q == AfterError(Abandoned(r))
  <2>1. call' = [call EXCEPT ![c] = q]
    BY <1>5, Zenon DEF Lose
  <2>2. Abandoned(r) \in Calls /\ Abandoned(r).attempt = r.attempt
    BY <1>0, <1>5, LoseRecord DEF CallInv, Lose
  <2> HIDE DEF r
  <2>3. Onward(r, q)
    BY <1>0, <2>2, AfterErrorOnward
  <2> HIDE DEF q
  <2> QED BY <2>1, <2>3 DEF r
<1>6. CASE Receive(c)
  <2> DEFINE q == [Over(r) EXCEPT !.pc = "storing",
                     !.item = [value |-> r.answer.body, expiration |-> now + TTL]]
  <2>1. call' = [call EXCEPT ![c] = q] \/ call' = [call EXCEPT ![c] = Relayed(r)]
    BY <1>6 DEF Receive
  <2>2. q.pc = "storing" /\ q.attempt = r.attempt
    BY <1>0 DEF Over, Calls
  <2> HIDE DEF q, r
  <2>3. Onward(r, q)
    BY <1>0, <2>2, SettledOnward
  <2> QED BY <1>2, <2>1, <2>3 DEF r
<1>7. CASE ServeLate(c)
  <2> DEFINE q == [r EXCEPT !.late = @ - 1, !.runs = @ + 1]
  <2>1. call' = [call EXCEPT ![c] = q]
    BY <1>0, <1>7 DEF ServeLate, CallInv, Calls
  <2>2. q.pc = r.pc /\ q.attempt = r.attempt /\ q.sends = r.sends
    BY <1>0 DEF Calls
  <2> HIDE DEF q, r
  <2>3. Onward(r, q)
    BY <1>0, <2>2, SettledOnward
  <2> QED BY <2>1, <2>3 DEF r
<1>8. ASSUME NEW status \in {200, 500}, Serve(c, status)
      PROVE  \E q : call' = [call EXCEPT ![c] = q] /\ Onward(r, q)
  <2> DEFINE q == [r EXCEPT
               !.answer = [status |-> status,
                           body   |-> IF r.kind = "GET" THEN now ELSE 0],
               !.runs   = IF r.kind = "POST" THEN r.runs + 1 ELSE r.runs]
  <2>1. call' = [call EXCEPT ![c] = q]
    BY <1>8, Zenon DEF Serve
  <2>2. q.pc = r.pc /\ q.attempt = r.attempt /\ q.sends = r.sends
    BY <1>0 DEF Calls
  <2> HIDE DEF q, r
  <2>3. Onward(r, q)
    BY <1>0, <2>2, SettledOnward
  <2> QED BY <2>1, <2>3
<1> QED BY <1>3, <1>4, <1>5, <1>6, <1>7, <1>8

(* Those steps keep the budget.                                            *)
LEMMA GatewayBudget ==
  ASSUME CallInv, P!IInv, BudgetInv, probeSends \in Nat, NEW c \in Callers,
         \/ PassOn(c) \/ Hit(c) \/ Lose(c) \/ Receive(c) \/ ServeLate(c) \/ Store(c)
         \/ \E status \in {200, 500} : Serve(c, status)
  PROVE  BudgetInv'
<1>1. UNCHANGED <<cb, inside, ticket, probeSends>>
  BY DEF PassOn, Hit, Lose, Receive, ServeLate, Store, Serve, breakerVars
<1>2. PICK q : call' = [call EXCEPT ![c] = q] /\ Onward(call[c], q)
  BY GatewayOnward
<1>3. ASSUME NEW d \in Callers PROVE Onward(call[d], call'[d])
  <2>1. call'[d] = IF d = c THEN q ELSE call[d]
    BY <1>2 DEF CallInv
  <2> QED BY <1>2, <2>1 DEF Onward
<1> QED BY <1>1, <1>3, QuietBudget

(* A request that a probe makes moves from to be made to made.             *)
LEMMA OneSent ==
  ASSUME CallInv, P!IInv, BudgetInv, probeSends \in Nat, NEW c \in Callers, NEW q,
         call' = [call EXCEPT ![c] = q], UNCHANGED <<cb, inside, ticket>>,
         probeSends' = probeSends + (IF IsProbe(c) THEN 1 ELSE 0),
         Done(call[c]) \in Nat, Done(q) = Done(call[c]) + 1, Done(q) <= MostSends
  PROVE  BudgetInv'
<1> DEFINE m0 == Done(call[c])
           S == ToSend(cb, inside, ticket, call)
           T == ToSend(cb', inside', ticket', call')
<1>1. \A d \in Callers : call'[d] = IF d = c THEN q ELSE call[d]
  BY DEF CallInv
<1>2. T \subseteq S
  <2>1. ASSUME NEW d \in Callers, NEW k \in 1 .. MostSends, k > Done(call'[d])
        PROVE  k > Done(call[d])
    <3>1. CASE d = c
      BY <1>1, <2>1, <3>1, MostFacts
    <3>2. CASE d # c
      BY <1>1, <2>1, <3>2
    <3> QED BY <3>1, <3>2
  <2> QED BY <2>1 DEF ToSend
<1>3. cb.requests \in Nat
  BY PathBreakerAssumption DEF P!IInv, P!Sound, P!Breakers, P!Counter, B!BreakerAssumption
<1>4. CASE ~IsProbe(c)
  <2>1. probeSends' = probeSends
    BY <1>4
  <2>2. Budget(cb', inside', ticket', call', probeSends')
    BY <1>2, <1>3, <2>1, BudgetShrinks DEF BudgetInv
  <2> QED BY <2>2 DEF BudgetInv
<1>5. CASE IsProbe(c)
  <2> DEFINE p == <<c, m0 + 1>>
  <2>1. c \in inside /\ ticket[c] = cb.generation /\ cb.state = "half-open"
    BY <1>5 DEF IsProbe
  <2>2. m0 + 1 \in 1 .. MostSends /\ m0 + 1 > m0 /\ ~(m0 + 1 > Done(q))
    BY MostFacts
  <2>3. p \in S
    BY <2>1, <2>2 DEF ToSend
  <2>4. p \notin T
    <3>1. ~(m0 + 1 > Done(call'[c]))
      BY <1>1, <2>2
    <3> QED BY <3>1 DEF ToSend
  <2>5. IsFiniteSet(S) /\ Cardinality(S) \in Nat /\ Cardinality(T) \in Nat
    BY ToSendFinite
  <2>6. T \in SUBSET (S \ {p})
    BY <1>2, <2>4
  <2> DEFINE U == S \ {p}
             x == Cardinality(S)
             y == Cardinality(T)
             u == Cardinality(U)
             m == cb.requests * MostSends
  <2>7. probeSends + x <= m /\ m \in Nat
    BY <1>3, <2>1, MostFacts DEF BudgetInv, Budget
  <2> HIDE DEF S, T, p
  <2>8. IsFiniteSet(U) /\ u = x - 1
    BY <2>3, <2>5, FS_RemoveElement
  <2>9. y <= u
    BY <2>6, <2>8, FS_Subset
  <2>10. x \in Nat /\ y \in Nat /\ probeSends' = probeSends + 1
    BY <1>5, <2>5
  <2> HIDE DEF x, y, u, m, U
  <2>11. probeSends' + y <= m
    BY <2>7, <2>8, <2>9, <2>10
  <2>12. Budget(cb', inside', ticket', call', probeSends')
    BY <2>11 DEF Budget, y, T, m
  <2> QED BY <2>12 DEF BudgetInv
<1> QED BY <1>4, <1>5

(* The first request of an attempt.                                        *)
LEMMA SendBudget ==
  ASSUME CallInv, P!IInv, BudgetInv, probeSends \in Nat, NEW c \in Callers, Send(c)
  PROVE  BudgetInv'
<1> DEFINE r == call[c]
           q == [r EXCEPT !.pc = "sent", !.sentAt = now, !.sends = 1]
<1>1. r \in Calls /\ Tried(r) /\ r.pc = "forward" /\ r.attempt >= 1
  BY DEF CallInv, Tried, Send
<1>2. /\ UNCHANGED <<cb, inside, ticket>>
      /\ probeSends' = probeSends + (IF IsProbe(c) THEN 1 ELSE 0)
  BY DEF Send, NoteSends, breakerVars
<1>3. call' = [call EXCEPT ![c] = q]
  BY <1>1 DEF Send, CallInv, Calls
<1>4. q \in Calls /\ q.pc = "sent" /\ q.attempt = r.attempt /\ q.sends = 1
  <2>1. now \in 0 .. MaxTime
    BY DEF CallInv
  <2>2. 1 \in 0 .. MaxSends
    BY MostFacts
  <2> HIDE DEF r
  <2> QED BY <1>1, <2>1, <2>2 DEF Calls
<1> HIDE DEF q, r
<1>5. Done(q) \in Nat /\ Done(q) <= MostSends /\ Done(r) \in Nat
  BY <1>1, <1>4, DoneBounded, MostFacts
<1>6. Done(q) = Done(r) + 1
  BY <1>1, <1>4 DEF Done
<1> QED BY <1>2, <1>3, <1>5, <1>6, OneSent DEF r

(* And another one.                                                        *)
LEMMA ResendBudget ==
  ASSUME CallInv, P!IInv, BudgetInv, probeSends \in Nat, NEW c \in Callers, Resend(c)
  PROVE  BudgetInv'
<1> DEFINE r == call[c]
           a == Abandoned(r)
           q == [a EXCEPT !.sends = @ + 1, !.answer = Empty]
<1>1. r \in Calls /\ Tried(r) /\ r.pc = "sent" /\ r.attempt >= 1 /\ r.sends < MaxSends
  BY DEF CallInv, Tried, Resend
<1>2. /\ UNCHANGED <<cb, inside, ticket>>
      /\ probeSends' = probeSends + (IF IsProbe(c) THEN 1 ELSE 0)
  BY DEF Resend, NoteSends, breakerVars
<1>3. call' = [call EXCEPT ![c] = q]
  BY Zenon DEF Resend
<1>4. a \in Calls /\ a.pc = "sent" /\ a.attempt = r.attempt /\ a.sends = r.sends
  <2> HIDE DEF r
  <2> QED BY <1>1, LoseRecord
<1> HIDE DEF a, r
<1>5. q \in Calls /\ q.pc = "sent" /\ q.attempt = r.attempt /\ q.sends = r.sends + 1
  <2>1. a.sends + 1 \in 0 .. MaxSends
    BY <1>1, <1>4, MostFacts DEF Calls
  <2> QED BY <1>4, <2>1 DEF Calls
<1> HIDE DEF q
<1>6. Done(q) \in Nat /\ Done(q) <= MostSends /\ Done(r) \in Nat /\ r.sends \in Nat
      /\ r.attempt \in Nat
  BY <1>1, <1>5, DoneBounded, MostFacts
<1>7. Done(q) = Done(r) + 1
  <2>1. Slots(r.attempt - 1) \in Nat
    <3>1. r.attempt - 1 \in Nat
      BY <1>1, <1>6
    <3> QED BY <3>1, SlotFacts
  <2>2. Done(r) = Slots(r.attempt - 1) + r.sends
    BY <1>1 DEF Done
  <2>3. Done(q) = Slots(r.attempt - 1) + (r.sends + 1)
    BY <1>5 DEF Done
  <2> QED BY <1>6, <2>1, <2>2, <2>3
<1> QED BY <1>2, <1>3, <1>6, <1>7, OneSent, Zenon DEF r

(* Entering: the first probe of a period, or one more.                     *)
LEMMA EnterBudget ==
  ASSUME CallInv, P!IInv, BudgetInv, probeSends \in Nat,
         NEW c \in Callers, NEW k \in Kinds, NEW s \in Services, Enter(c, k, s)
  PROVE  BudgetInv'
<1> DEFINE S == ToSend(cb, inside, ticket, call)
           T == ToSend(cb', inside', ticket', call')
<1>1. CASE ~EnableCircuitBreaker
  BY <1>1 DEF Enter, BudgetInv, Budget, breakerVars
<1>2. CASE EnableCircuitBreaker /\ cb'.state # "half-open"
  BY <1>2 DEF BudgetInv, Budget
<1>3. CASE EnableCircuitBreaker /\ cb'.state = "half-open"
  <2>1. P!Admit(c)
    BY <1>3, SameAdmit DEF Enter
  <2>2. /\ c \notin inside /\ inside' = inside \cup {c}
        /\ \A d \in inside : ticket'[d] = ticket[d]
        /\ \/ /\ cb'.generation # cb.generation /\ cb'.requests = 1
              /\ \A d \in inside : ticket[d] # cb'.generation
           \/ /\ cb'.generation = cb.generation /\ cb.state = "half-open"
              /\ cb'.requests = cb.requests + 1 /\ cb.requests \in Nat
    BY <1>3, <2>1, AdmitQuota
  <2>3. \A d \in Callers : d # c => call'[d] = call[d]
    BY DEF Enter, CallInv
  <2>4. probeSends' = IF cb'.generation # cb.generation THEN 0 ELSE probeSends
    BY DEF Enter, NoteSends
  <2>5. CASE cb'.generation # cb.generation
    <3>1. T \subseteq {c} \X (1 .. MostSends)
      BY <2>2, <2>5 DEF ToSend
    <3>2. cb'.requests = 1 /\ probeSends' = 0
      BY <2>2, <2>4, <2>5
    <3>3. Budget(cb', inside', ticket', call', 0)
      BY <3>1, <3>2, BudgetFirst
    <3> QED BY <1>3, <3>2, <3>3 DEF BudgetInv
  <2>6. CASE cb'.generation = cb.generation
    <3>1. T \subseteq S \cup ({c} \X (1 .. MostSends))
      BY <2>2, <2>3, <2>6 DEF ToSend
    <3>2. cb.state = "half-open" /\ cb'.requests = cb.requests + 1 /\ cb.requests \in Nat
      BY <2>2, <2>6
    <3>3. Budget(cb', inside', ticket', call', probeSends)
      BY <3>1, <3>2, BudgetGrows DEF BudgetInv
    <3> QED BY <1>3, <2>4, <2>6, <3>3 DEF BudgetInv
  <2> QED BY <2>5, <2>6
<1> QED BY <1>1, <1>2, <1>3

(* A refusal may start a period, with nothing sent.                        *)
LEMMA RefuseBudget ==
  ASSUME CallInv, P!IInv, BudgetInv, probeSends \in Nat, NEW c \in Callers, Refuse(c)
  PROVE  BudgetInv'
<1> DEFINE S == ToSend(cb, inside, ticket, call)
           T == ToSend(cb', inside', ticket', call')
<1>0. EnableCircuitBreaker /\ call' = call
      /\ probeSends' = IF cb'.generation # cb.generation THEN 0 ELSE probeSends + 0
  BY DEF Refuse, NoteSends
<1>1. CASE cb'.state # "half-open"
  BY <1>0, <1>1 DEF BudgetInv, Budget
<1>2. CASE cb'.state = "half-open" /\ cb' = cb
  <2>1. inside' = inside /\ ticket' = ticket
    BY DEF Refuse, B!RefuseOpen, B!RefuseTooMany, B!breakerVars
  <2>2. probeSends' = probeSends
    BY <1>0, <1>2
  <2> QED BY <1>0, <1>2, <2>1, <2>2 DEF BudgetInv
<1>3. CASE cb'.state = "half-open" /\ cb' # cb
  <2>1. P!RefuseTooMany(c)
    BY <1>3, SameRefuse DEF Refuse, P!RefuseOpen, P!breakerVars
  <2>2. /\ inside' = inside /\ ticket' = ticket /\ cb'.requests \in Nat
        /\ cb'.generation # cb.generation
        /\ \A d \in inside : ticket[d] # cb'.generation
    BY <1>3, <2>1, RefuseQuota
  <2>3. T = {}
    BY <2>2 DEF ToSend
  <2>4. Budget(cb', inside', ticket', call', 0)
    BY <2>2, <2>3, BudgetFresh
  <2> QED BY <1>0, <2>2, <2>4 DEF BudgetInv
<1> QED BY <1>1, <1>2, <1>3

(* Leaving takes what was not sent along, or a period begins.              *)
LEMMA ReturnBudget ==
  ASSUME CallInv, P!IInv, BudgetInv, probeSends \in Nat, NEW c \in Callers, Return(c)
  PROVE  BudgetInv'
<1> DEFINE S == ToSend(cb, inside, ticket, call)
           T == ToSend(cb', inside', ticket', call')
<1>0. probeSends' = IF cb'.generation # cb.generation THEN 0 ELSE probeSends
  BY DEF Return, NoteSends
<1>1. CASE ~EnableCircuitBreaker
  BY <1>1 DEF Return, BudgetInv, Budget, breakerVars
<1>2. CASE EnableCircuitBreaker /\ cb'.state # "half-open"
  BY <1>2 DEF BudgetInv, Budget
<1>3. CASE EnableCircuitBreaker /\ cb'.state = "half-open"
  <2>0. call[c].ok \in BOOLEAN
    BY DEF CallInv, Calls
  <2>1. P!Report(c, call[c].ok)
    BY <1>3, <2>0, SameReport DEF Return
  <2>2. /\ inside' = inside \ {c} /\ \A d \in inside' : ticket'[d] = ticket[d]
        /\ cb'.requests \in Nat
        /\ \/ /\ cb.state = "half-open" /\ cb'.generation = cb.generation
              /\ cb'.requests = cb.requests
           \/ /\ cb'.generation # cb.generation
              /\ \A d \in inside : ticket[d] # cb'.generation
    BY <1>3, <2>0, <2>1, ReportQuota
  <2>3. \A d \in Callers : d # c => call'[d] = call[d]
    BY DEF Return, CallInv
  <2>5. CASE cb'.generation # cb.generation
    <3>1. T = {}
      BY <2>2, <2>5 DEF ToSend
    <3>2. Budget(cb', inside', ticket', call', 0)
      BY <2>2, <3>1, BudgetFresh
    <3> QED BY <1>0, <1>3, <2>5, <3>2 DEF BudgetInv
  <2>6. CASE cb'.generation = cb.generation
    <3>1. T \subseteq S
      BY <2>2, <2>3, <2>6 DEF ToSend
    <3>2. cb.state = "half-open" /\ cb'.requests = cb.requests /\ cb.requests \in Nat
      BY <2>2, <2>6
    <3>3. Budget(cb', inside', ticket', call', probeSends)
      BY <3>1, <3>2, BudgetShrinks DEF BudgetInv
    <3> QED BY <1>0, <1>3, <2>6, <3>3 DEF BudgetInv
  <2> QED BY <2>5, <2>6
<1> QED BY <1>1, <1>2, <1>3

(* Every step keeps the budget.                                            *)
LEMMA NextBudget ==
  CallInv /\ P!IInv /\ BudgetInv /\ probeSends \in Nat /\ [Next]_vars => BudgetInv'
<1> SUFFICES ASSUME CallInv, P!IInv, BudgetInv, probeSends \in Nat, [Next]_vars
             PROVE  BudgetInv'
  OBVIOUS
<1>1. ASSUME UNCHANGED <<cb, inside, ticket, call, probeSends>> PROVE BudgetInv'
  BY <1>1 DEF BudgetInv
<1>2. CASE Tick
  BY <1>1, <1>2 DEF Tick, B!Tick
<1>3. CASE UNCHANGED vars
  BY <1>1, <1>3 DEF vars
<1> QED BY <1>2, <1>3, EnterBudget, RefuseBudget, ReturnBudget, SendBudget,
        ResendBudget, GatewayBudget
        DEF Next, Gateway, TimeOut

(* The breaker starts closed.                                              *)
LEMMA InitBudget == Init => BudgetInv
BY DEF Init, B!Init, BudgetInv, Budget

-----------------------------------------------------------------------------

(* The inductive invariant.                                                *)
PathIInv == CallInv /\ CacheInv /\ P!IInv /\ BudgetInv /\ probeSends \in Nat

(* The request path starts in it.                                          *)
LEMMA PathInit == Init => PathIInv
BY InitCalls, InitCache, InitBudget, BreakerStarts DEF Init, PathIInv

(* And every step stays in it.                                             *)
LEMMA PathNext == PathIInv /\ [Next]_vars => PathIInv'
<1> SUFFICES ASSUME PathIInv, [Next]_vars PROVE PathIInv'
  OBVIOUS
<1>1. CallInv' /\ CacheInv'
  BY NextCalls, NextCache DEF PathIInv
<1>2. P!IInv'
  BY StepsBreaker, BreakersSteps, BreakerKeeps DEF PathIInv
<1>3. probeSends' \in Nat
  <2>1. probeSends \in Nat
    BY DEF PathIInv
  <2>2. \A n \in {0, 1} : NoteSends(n) => probeSends' \in Nat
    BY <2>1 DEF NoteSends
  <2>3. ASSUME NEW c \in Callers, Store(c) PROVE probeSends' \in Nat
    BY <2>1, <2>3 DEF Store
  <2>4. ASSUME NEW c \in Callers, Return(c) \/ Send(c) \/ Resend(c) \/ Refuse(c)
        PROVE  probeSends' \in Nat
    BY <2>2, <2>4 DEF Return, Send, Resend, Refuse
  <2>5. ASSUME NEW c \in Callers, PassOn(c) \/ Hit(c) \/ Lose(c) \/ Receive(c) \/ ServeLate(c)
        PROVE  probeSends' \in Nat
    BY <2>1, <2>5 DEF PassOn, Hit, Lose, Receive, ServeLate
  <2>6. ASSUME NEW c \in Callers, NEW status \in {200, 500}, Serve(c, status)
        PROVE  probeSends' \in Nat
    BY <2>1, <2>6 DEF Serve
  <2>7. ASSUME NEW c \in Callers, NEW k \in Kinds, NEW s \in Services, Enter(c, k, s)
        PROVE  probeSends' \in Nat
    BY <2>2, <2>7 DEF Enter
  <2>8. CASE Tick
    BY <2>1, <2>8 DEF Tick
  <2>9. CASE UNCHANGED vars
    BY <2>1, <2>9 DEF vars
  <2> QED BY <2>3, <2>4, <2>5, <2>6, <2>7, <2>8, <2>9 DEF Next, Gateway, TimeOut
<1>4. BudgetInv'
  BY NextBudget DEF PathIInv
<1> QED BY <1>1, <1>2, <1>3, <1>4 DEF PathIInv

(* Each of the quota's probes has its requests to make, and no more.       *)
LEMMA PathBudget == PathIInv => ProbeBudget
<1> SUFFICES ASSUME PathIInv, cb.state = "half-open"
             PROVE  probeSends <= B!MaxRequests * MostSends
  BY DEF ProbeBudget
<1> DEFINE x == Cardinality(ToSend(cb, inside, ticket, call))
           m == P!MaxRequests
<1>1. probeSends + x <= cb.requests * MostSends
  BY DEF PathIInv, BudgetInv, Budget
<1>2. cb.requests <= m
  BY DEF PathIInv, P!IInv, P!Sound, P!HalfOpenBooks
<1>3. cb.requests \in Nat
  BY PathBreakerAssumption
     DEF PathIInv, P!IInv, P!Sound, P!Breakers, P!Counter, B!BreakerAssumption
<1>4. x \in Nat /\ m \in Nat /\ probeSends \in Nat
  BY ToSendFinite, P!Settings, SameAssumption DEF PathIInv
<1>5. B!MaxRequests = m
  BY DEF P!MaxRequests, B!MaxRequests
<1> HIDE DEF x, m
<1>6. cb.requests * MostSends <= m * MostSends
  BY <1>2, <1>3, <1>4, MostFacts
<1>7. cb.requests * MostSends \in Nat /\ m * MostSends \in Nat
  BY <1>3, <1>4, MostFacts
<1>8. probeSends <= cb.requests * MostSends
  BY <1>1, <1>4, <1>7
<1> QED BY <1>4, <1>5, <1>6, <1>7, <1>8

(* The breaker's type, as B states it.                                     *)
LEMMA PathTyped == PathIInv => TypeOK
<1> SUFFICES ASSUME PathIInv PROVE TypeOK
  OBVIOUS
<1>1. P!TypeOK
  BY P!IInvImplies, SameAssumption DEF PathIInv
<1>2. B!TypeOK
  BY <1>1 DEF P!TypeOK, B!TypeOK, P!States, B!States, P!Counter, B!Counter
<1> QED BY <1>2 DEF PathIInv, CallInv, CacheInv, TypeOK, Calls, Answers

-----------------------------------------------------------------------------

(* The request path never leaves its invariant.                            *)
THEOREM PathInvariant == Spec => []PathIInv
<1> QED BY PathInit, PathNext, PTL DEF Spec

(* Where a request can be and what it carries there.                       *)
THEOREM PathTypeOK == Spec => []TypeOK
<1> QED BY PathInvariant, PathTyped, PTL

(* A cached body was current at most a TTL and a client timeout ago.       *)
THEOREM PathStalenessBound == Spec => []StalenessBound
<1>1. PathIInv => StalenessBound
  BY PathImplies DEF PathIInv
<1> QED BY <1>1, PathInvariant, PTL

(* A POST is executed at most as often as its attempts, each with what the *)
(* client makes of it, ask for it, and at least once when its answer is    *)
(* relayed.                                                                *)
THEOREM PathExecutionsBounded == Spec => []ExecutionsBounded
<1>1. PathIInv => ExecutionsBounded
  BY PathImplies DEF PathIInv
<1> QED BY <1>1, PathInvariant, PTL

(* A half-open period costs the upstream the quota times the attempts,     *)
(* times the requests that the client may make of one of them.             *)
THEOREM PathProbeBudget == Spec => []ProbeBudget
<1> QED BY PathInvariant, PathBudget, PTL

(* A request that stores an answer puts an item of the cache's under its   *)
(* service; whatever else happens leaves the cache to its clock.           *)
LEMMA StepsCache ==
  CallInv /\ [Next]_vars =>
    [C!Tick \/ \E s \in Services, i \in CacheItems : C!Put(s, i)]_<<now, live>>
<1> DEFINE Uses == C!Tick \/ \E s \in Services, i \in CacheItems : C!Put(s, i)
<1> SUFFICES ASSUME CallInv, [Next]_vars PROVE Uses \/ UNCHANGED <<now, live>>
  OBVIOUS
<1>1. ASSUME NEW c \in Callers, Store(c) PROVE Uses
  <2>1. call[c].service \in Services /\ call[c].item \in CacheItems
    BY <1>1 DEF Store, CallInv, Tried, Timed
  <2> QED BY <1>1, <2>1 DEF Store
<1>2. ASSUME NEW c \in Callers, NEW k \in Kinds, NEW s \in Services, Enter(c, k, s)
      PROVE  UNCHANGED <<now, live>>
  BY <1>2 DEF Enter, B!Admit, breakerVars
<1>3. ASSUME NEW c \in Callers, Refuse(c) PROVE UNCHANGED <<now, live>>
  BY <1>3 DEF Refuse, B!RefuseOpen, B!RefuseTooMany, B!breakerVars
<1>4. ASSUME NEW c \in Callers, Return(c) PROVE UNCHANGED <<now, live>>
  BY <1>4 DEF Return, B!Report, breakerVars
<1>5. ASSUME NEW c \in Callers,
             PassOn(c) \/ Hit(c) \/ Send(c) \/ Resend(c) \/ Lose(c) \/ Receive(c)
               \/ ServeLate(c)
      PROVE  UNCHANGED <<now, live>>
  BY <1>5 DEF PassOn, Hit, Send, Resend, Lose, Receive, ServeLate, breakerVars
<1>6. ASSUME NEW c \in Callers, NEW status \in {200, 500}, Serve(c, status)
      PROVE  UNCHANGED <<now, live>>
  BY <1>6, Zenon DEF Serve, breakerVars
<1>7. CASE Tick
  BY <1>7 DEF Tick
<1>8. CASE UNCHANGED vars
  BY <1>8 DEF vars
<1> QED BY <1>1, <1>2, <1>3, <1>4, <1>5, <1>6, <1>7, <1>8 DEF Next, Gateway, TimeOut

(* The path does nothing to the cache but what TTLMap offers its callers,  *)
(* and so what it sees is also what it would see of ResponseCache, which   *)
(* implements TTLMap.                                                      *)
THEOREM PathUsesTTLMap ==
  Spec => C!Init /\ [][C!Tick \/ \E s \in Services, i \in CacheItems : C!Put(s, i)]_<<now, live>>
<1>1. Init => C!Init
  BY DEF Init
<1>2. PathIInv => CallInv
  BY DEF PathIInv
<1> QED BY <1>1, <1>2, StepsCache, PathInvariant, PTL DEF Spec

(* The request path implements the breaker's specification, fairness       *)
(* apart: what Forward and the retrier do between entry and exit is one of *)
(* the things Breaker leaves open.                                         *)
THEOREM PathImplementsBreaker == Spec => B!Spec
<1>1. Init => B!Init
  BY DEF Init
<1>2. PathIInv /\ [Next]_vars => [B!Next]_(B!breakerVars)
  BY StepsBreaker DEF PathIInv, breakerVars, B!breakerVars
<1> QED BY <1>1, <1>2, PathInvariant, PTL DEF Spec, B!Spec

(* So the breaker of the request path keeps its promises: no call counts   *)
(* in an open one, its requests are outcomes and calls under way, and the  *)
(* probes of a half-open one neither exceed the quota nor use it up for    *)
(* good.                                                                   *)
THEOREM PathBreakerSound ==
  Spec => [](B!OpenIsQuiet /\ B!CountsMatchCalls /\ B!HalfOpenNotStuck /\ B!ProbesWithinQuota)
<1>1. PathIInv => B!OpenIsQuiet /\ B!CountsMatchCalls /\ B!HalfOpenNotStuck /\ B!ProbesWithinQuota
  <2> SUFFICES ASSUME PathIInv
               PROVE  /\ B!OpenIsQuiet /\ B!CountsMatchCalls
                      /\ B!HalfOpenNotStuck /\ B!ProbesWithinQuota
    OBVIOUS
  <2>1. P!OpenIsQuiet /\ P!CountsMatchCalls /\ P!HalfOpenNotStuck /\ P!ProbesWithinQuota
    BY P!IInvImplies, SameAssumption DEF PathIInv
  <2>2. P!Counted = B!Counted /\ P!MaxRequests = B!MaxRequests
    BY DEF P!Counted, B!Counted, P!MaxRequests, B!MaxRequests
  <2>3. P!Cardinality(P!Counted) = B!Cardinality(B!Counted)
    BY <2>2, Zenon DEF P!Cardinality, B!Cardinality
  <2>4. B!OpenIsQuiet /\ B!HalfOpenNotStuck
    BY <2>1, <2>2 DEF P!OpenIsQuiet, B!OpenIsQuiet, P!HalfOpenNotStuck, B!HalfOpenNotStuck
  <2>5. B!CountsMatchCalls
    BY <2>1, <2>3 DEF P!CountsMatchCalls, B!CountsMatchCalls
  <2>6. B!ProbesWithinQuota
    BY <2>1, <2>2, <2>3 DEF P!ProbesWithinQuota, B!ProbesWithinQuota
  <2> QED BY <2>4, <2>5, <2>6
<1> QED BY <1>1, PathInvariant, PTL

(* And it moves only on time, or on the result of a call of its own        *)
(* generation, however long the retriers of earlier ones go on.            *)
THEOREM PathMovesEarned == Spec => B!MovesEarned
<1>1. P!IInv /\ [P!Next]_breakerVars => [cb' # cb => P!Earned]_breakerVars
  <2>1. P!IInv /\ [P!Next]_(P!breakerVars) => [cb' # cb => P!Earned]_(P!breakerVars)
    BY P!NextEarned, SameAssumption
  <2> QED BY <2>1 DEF breakerVars, P!breakerVars
<1>2. P!Earned => B!Earned
  <2>1. P!Counted = B!Counted /\ P!MaxRequests = B!MaxRequests
    BY DEF P!Counted, B!Counted, P!MaxRequests, B!MaxRequests
  <2> QED BY <2>1 DEF P!Earned, B!Earned
<1>3. PathIInv /\ [Next]_vars => [cb' # cb => B!Earned]_(B!breakerVars)
  BY <1>1, <1>2, StepsBreaker, BreakersSteps DEF PathIInv, breakerVars, B!breakerVars
<1> QED BY <1>3, PathInvariant, PTL DEF Spec, B!MovesEarned
=============================================================================
