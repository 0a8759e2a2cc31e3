---------------------------- MODULE BreakerProofs ----------------------------
(***************************************************************************)
(* Safety of Breaker for every set of callers, threshold and counter       *)
(* width.  The argument is about the breaker and the tickets only: what    *)
(* one critical section does to a breaker whose books are in order leaves  *)
(* them in order.  The books say how Counts relates to the calls still to  *)
(* be reported in the current generation.                                  *)
(***************************************************************************)
EXTENDS Breaker, FiniteSetTheorems, TLAPS

Breakers ==
  [state : States, generation : Nat \ {0}, requests : Counter,
   successes : Counter, failures : Counter, streak : Counter, expiry : Nat]

(* The calls among in that will be counted when they report to b.          *)
Live(b, in, t) == {c \in in : t[c] = b.generation}

(* In the half-open state nothing has failed, every outcome is part of the *)
(* streak, and the quota is shared by the successes and the running calls. *)
HalfOpenBooks(b, n) ==
  b.state = "half-open" =>
    /\ b.streak = b.successes
    /\ b.failures = 0
    /\ b.requests = b.successes + n
    /\ b.requests <= MaxRequests
    /\ b.successes < MaxRequests

Sound(b, in, t) ==
  /\ b \in Breakers
  /\ in \in SUBSET Callers
  /\ t \in [Callers -> Nat]
  /\ \A c \in in : t[c] <= b.generation
  /\ b.state = "open" => Live(b, in, t) = {}
  /\ HalfOpenBooks(b, Cardinality(Live(b, in, t)))

(* Requests is the recorded outcomes plus the calls still to be counted.   *)
Exact(b, in, t) ==
  b.requests = b.successes + b.failures + Cardinality(Live(b, in, t))

(* The inductive invariant: sound books, exact until a counter wraps.      *)
IInv ==
  /\ now \in Nat
  /\ wrapped \in BOOLEAN
  /\ Sound(cb, inside, ticket)
  /\ ~wrapped => Exact(cb, inside, ticket)

(* A breaker fresh from setState: new generation, counts cleared.          *)
Fresh(b, g, s) ==
  /\ b.state = s
  /\ b.generation = g + 1
  /\ b.requests = 0 /\ b.successes = 0 /\ b.failures = 0 /\ b.streak = 0

-----------------------------------------------------------------------------

(* The constants the settings are turned into.                             *)
LEMMA Settings ==
  /\ MaxRequests \in Nat \ {0}
  /\ MaxRequests \in Counter
  /\ Cooldown \in Nat
  /\ 0 \in Counter
  /\ \A n \in Counter : Increment(n) \in Counter
BY BreakerAssumption DEF MaxRequests, Cooldown, Counter, Increment

(* The calls a report will be matched with are finitely many.              *)
LEMMA LiveFinite ==
  ASSUME NEW b, NEW in \in SUBSET Callers, NEW t
  PROVE  /\ IsFiniteSet(Live(b, in, t))
         /\ Cardinality(Live(b, in, t)) \in Nat
<1>1. Live(b, in, t) \subseteq Callers
  BY DEF Live
<1>2. IsFiniteSet(Live(b, in, t))
  BY <1>1, BreakerAssumption, FS_Subset
<1> QED BY <1>2, FS_CardinalityType

(* setState yields a fresh breaker of the right type.                      *)
LEMMA SetStateFresh ==
  ASSUME now \in Nat, NEW b \in Breakers, NEW s \in States
  PROVE  SetState(b, s) \in Breakers /\ Fresh(SetState(b, s), b.generation, s)
<1>1. now + Cooldown \in Nat
  BY Settings
<1>2. b.generation + 1 \in Nat \ {0}
  BY DEF Breakers
<1> QED BY <1>1, <1>2, Settings DEF SetState, Breakers, Fresh

(* No ticket handed out so far is of the generation setState starts, so    *)
(* the books of a fresh breaker are sound whatever calls are under way.    *)
LEMMA FreshSound ==
  ASSUME NEW g \in Nat, NEW f \in Breakers, NEW s \in States, Fresh(f, g, s),
         NEW in \in SUBSET Callers, NEW t \in [Callers -> Nat],
         \A c \in in : t[c] <= g
  PROVE  Sound(f, in, t) /\ Exact(f, in, t)
<1>1. Live(f, in, t) = {}
  BY DEF Live, Fresh, Breakers
<1>2. Cardinality(Live(f, in, t)) = 0
  BY <1>1, FS_EmptySet
<1>3. \A c \in in : t[c] <= f.generation
  BY DEF Fresh, Breakers
<1>4. HalfOpenBooks(f, 0)
  BY Settings DEF HalfOpenBooks, Fresh
<1>5. f.requests = f.successes + f.failures + 0
  BY DEF Fresh
<1> QED BY <1>1, <1>2, <1>3, <1>4, <1>5 DEF Sound, Exact

(* Letting an expired open state lapse: either nothing happens or a fresh  *)
(* half-open breaker takes the place of an open one.                       *)
LEMMA CurrentCases ==
  ASSUME now \in Nat, NEW b \in Breakers
  PROVE  /\ Current(b) \in Breakers
         /\ \/ Current(b) = b
            \/ b.state = "open" /\ Fresh(Current(b), b.generation, "half-open")
<1>1. SetState(b, "half-open") \in Breakers
      /\ Fresh(SetState(b, "half-open"), b.generation, "half-open")
  BY SetStateFresh DEF States
<1> QED BY <1>1 DEF Current

(* The books stay sound when an expired open state lapses.                 *)
LEMMA CurrentSound ==
  ASSUME now \in Nat, NEW b, NEW in, NEW t, Sound(b, in, t)
  PROVE  \/ Current(b) = b
         \/ /\ Fresh(Current(b), b.generation, "half-open")
            /\ Sound(Current(b), in, t) /\ Exact(Current(b), in, t)
<1> b \in Breakers
  BY DEF Sound
<1>1. CASE Current(b) = b
  BY <1>1
<1>2. CASE Fresh(Current(b), b.generation, "half-open")
  <2>1. Current(b) \in Breakers
    BY CurrentCases
  <2>2. Sound(Current(b), in, t) /\ Exact(Current(b), in, t)
    BY <1>2, <2>1, FreshSound DEF Sound, States, Breakers
  <2> QED BY <1>2, <2>2
<1> QED BY <1>1, <1>2, CurrentCases

-----------------------------------------------------------------------------

(* A call that enters takes one request and becomes one more live call.    *)
LEMMA AdmittedSound ==
  ASSUME NEW b, NEW in, NEW t, NEW c \in Callers,
         Sound(b, in, t),
         c \notin in,
         b.state # "open",
         b.state = "half-open" => b.requests < MaxRequests
  PROVE  LET in2 == in \cup {c}
             t2  == [t EXCEPT ![c] = b.generation]
         IN  /\ Sound(Admitted(b), in2, t2)
             /\ Exact(b, in, t) /\ b.requests <= Admitted(b).requests =>
                  Exact(Admitted(b), in2, t2)
<1> DEFINE a   == Admitted(b)
           in2 == in \cup {c}
           t2  == [t EXCEPT ![c] = b.generation]
           n   == Cardinality(Live(b, in, t))
<1> USE DEF Sound
<1>1. a \in Breakers
      /\ a.state = b.state /\ a.generation = b.generation
      /\ a.requests = Increment(b.requests) /\ a.successes = b.successes
      /\ a.failures = b.failures /\ a.streak = b.streak
  BY Settings DEF Admitted, Breakers
<1>2. in2 \in SUBSET Callers /\ t2 \in [Callers -> Nat]
      /\ \A d \in in2 : t2[d] <= a.generation
  BY <1>1 DEF Breakers
<1>3. Live(a, in2, t2) = Live(b, in, t) \cup {c}
  BY <1>1 DEF Live
<1>4. Cardinality(Live(a, in2, t2)) = n + 1 /\ n \in Nat
  <2>1. c \notin Live(b, in, t)
    BY DEF Live
  <2> QED BY <2>1, <1>3, LiveFinite, FS_AddElement
<1>5. b.requests < a.requests => a.requests = b.requests + 1
  BY <1>1 DEF Increment, Breakers, Counter
<1>6. b.requests # a.requests /\ a.requests \in Nat /\ b.requests \in Nat
  BY <1>1, BreakerAssumption DEF Increment, Breakers, Counter
<1>7. HalfOpenBooks(a, n + 1)
  <2>1. CASE b.state = "half-open"
    <3>1. a.requests = b.requests + 1
      BY <2>1, <1>1, Settings DEF Increment, Counter, Breakers
    <3>2. HalfOpenBooks(b, n)
      OBVIOUS
    <3>3. MaxRequests \in Nat /\ b.successes \in Nat
      BY Settings DEF Breakers, Counter
    <3> QED BY <2>1, <3>1, <3>2, <3>3, <1>1, <1>4, <1>6 DEF HalfOpenBooks
  <2> QED BY <2>1, <1>1 DEF HalfOpenBooks
<1>8. ASSUME Exact(b, in, t), b.requests <= a.requests
      PROVE  Exact(a, in2, t2)
  <2>1. b.successes \in Nat /\ b.failures \in Nat
    BY DEF Breakers, Counter
  <2>2. b.requests = b.successes + b.failures + n
    BY <1>8 DEF Exact
  <2>3. a.requests = a.successes + a.failures + (n + 1)
    BY <2>1, <2>2, <1>1, <1>4, <1>5, <1>6, <1>8
  <2> QED BY <2>3, <1>4 DEF Exact
<1> HIDE DEF n
<1> QED BY <1>1, <1>2, <1>4, <1>7, <1>8

(* A call admitted in another generation leaves without a trace.           *)
LEMMA UncountedSound ==
  ASSUME NEW b, NEW in, NEW t, NEW c \in in,
         Sound(b, in, t), t[c] # b.generation
  PROVE  LET out == in \ {c}
             t2  == [t EXCEPT ![c] = 0]
         IN  /\ Sound(b, out, t2)
             /\ Exact(b, in, t) => Exact(b, out, t2)
<1> DEFINE out == in \ {c}
           t2  == [t EXCEPT ![c] = 0]
<1>1. out \in SUBSET Callers /\ t2 \in [Callers -> Nat]
      /\ \A d \in out : t2[d] <= b.generation
  BY DEF Sound
<1>2. Live(b, out, t2) = Live(b, in, t)
  BY DEF Live, Sound
<1> HIDE DEF out, t2
<1>3. Sound(b, out, t2)
  BY <1>1, <1>2 DEF Sound
<1>4. Exact(b, in, t) => Exact(b, out, t2)
  BY <1>2 DEF Exact
<1> QED BY <1>3, <1>4 DEF out, t2

(* A counted call that leaves is one live call less.                       *)
LEMMA LeaveLive ==
  ASSUME NEW b, NEW in, NEW t, NEW c \in in,
         Sound(b, in, t), t[c] = b.generation
  PROVE  LET out == in \ {c}
             t2  == [t EXCEPT ![c] = 0]
         IN  /\ Cardinality(Live(b, out, t2)) \in Nat
             /\ Cardinality(Live(b, in, t)) = Cardinality(Live(b, out, t2)) + 1
<1> DEFINE out == in \ {c}
           t2  == [t EXCEPT ![c] = 0]
           n   == Cardinality(Live(b, in, t))
           m   == Cardinality(Live(b, out, t2))
<1>1. Live(b, out, t2) = Live(b, in, t) \ {c} /\ c \in Live(b, in, t)
  BY DEF Live, Sound
<1>2. n \in Nat /\ m \in Nat
  BY LiveFinite DEF Sound
<1>3. Cardinality(Live(b, in, t) \ {c}) = n - 1
  BY <1>1, LiveFinite, FS_RemoveElement DEF Sound
<1>4. m = n - 1
  BY <1>1, <1>3
<1> HIDE DEF n, m
<1>5. n = m + 1
  BY <1>2, <1>4
<1> QED BY <1>2, <1>5 DEF n, m

(* What a counted success does.                                            *)
LEMMA SucceededCases ==
  ASSUME now \in Nat, NEW b \in Breakers
  PROVE  /\ Succeeded(b) \in Breakers
         /\ \/ Fresh(Succeeded(b), b.generation, "closed")
            \/ /\ Succeeded(b) =
                    [b EXCEPT !.successes = Increment(@), !.streak = Increment(@)]
               /\ b.state = "half-open" => Increment(b.streak) < MaxRequests
<1> DEFINE s == [b EXCEPT !.successes = Increment(@), !.streak = Increment(@)]
<1>1. s \in Breakers /\ s.generation = b.generation
      /\ s.streak = Increment(b.streak)
  BY Settings DEF Breakers
<1>2. SetState(s, "closed") \in Breakers
      /\ Fresh(SetState(s, "closed"), s.generation, "closed")
  BY <1>1, SetStateFresh DEF States
<1>3. Increment(b.streak) \in Nat /\ MaxRequests \in Nat
  BY Settings DEF Breakers, Counter
<1> QED BY <1>1, <1>2, <1>3 DEF Succeeded

(* What a counted failure does.                                            *)
LEMMA FailedCases ==
  ASSUME now \in Nat, NEW b \in Breakers
  PROVE  /\ Failed(b) \in Breakers
         /\ \/ Fresh(Failed(b), b.generation, "open")
            \/ b.state = "open" /\ Failed(b) = b
            \/ /\ b.state = "closed"
               /\ Failed(b) = [b EXCEPT !.failures = Increment(@), !.streak = 0]
<1> DEFINE f == [b EXCEPT !.failures = Increment(@), !.streak = 0]
<1>1. f \in Breakers /\ f.generation = b.generation
  BY Settings DEF Breakers
<1>2. SetState(f, "open") \in Breakers
      /\ Fresh(SetState(f, "open"), f.generation, "open")
  BY <1>1, SetStateFresh DEF States
<1>3. SetState(b, "open") \in Breakers
      /\ Fresh(SetState(b, "open"), b.generation, "open")
  BY SetStateFresh DEF States
<1>4. b.state \in {"closed", "open", "half-open"}
  BY DEF Breakers, States
<1> QED BY <1>1, <1>2, <1>3, <1>4 DEF Failed

(* A counted call moves one unit from the running calls to the outcomes.   *)
LEMMA SucceededSound ==
  ASSUME now \in Nat, NEW b, NEW in, NEW t, NEW c \in in,
         Sound(b, in, t), t[c] = b.generation
  PROVE  LET r   == Succeeded(b)
             out == in \ {c}
             t2  == [t EXCEPT ![c] = 0]
         IN  /\ Sound(r, out, t2)
             /\ \/ r.generation # b.generation
                \/ Exact(b, in, t) /\ b.successes <= r.successes
                => Exact(r, out, t2)
<1> DEFINE r   == Succeeded(b)
           out == in \ {c}
           t2  == [t EXCEPT ![c] = 0]
           n   == Cardinality(Live(b, in, t))
           m   == Cardinality(Live(b, out, t2))
<1>1. out \in SUBSET Callers /\ t2 \in [Callers -> Nat]
      /\ \A d \in out : t2[d] <= b.generation
  BY DEF Sound
<1>2. m \in Nat /\ n = m + 1
  BY LeaveLive
<1>3. b \in Breakers /\ r \in Breakers /\ b.generation \in Nat
  BY SucceededCases DEF Sound, Breakers
<1>4. CASE Fresh(r, b.generation, "closed")
  <2> HIDE DEF r, out, t2
  <2>1. Sound(r, out, t2) /\ Exact(r, out, t2)
    BY <1>1, <1>3, <1>4, FreshSound DEF States
  <2> QED BY <2>1 DEF r, out, t2
<1>5. CASE /\ r = [b EXCEPT !.successes = Increment(@), !.streak = Increment(@)]
           /\ b.state = "half-open" => Increment(b.streak) < MaxRequests
  <2>1. /\ r.state = b.state /\ r.generation = b.generation
        /\ r.requests = b.requests /\ r.failures = b.failures
        /\ r.successes = Increment(b.successes)
        /\ r.streak = Increment(b.streak)
    BY <1>3, <1>5 DEF Breakers
  <2>2. Live(r, out, t2) = Live(b, out, t2)
    BY <2>1 DEF Live
  <2>3. b.state # "open"
    BY DEF Live, Sound
  <2>4. /\ b.successes \in Nat /\ b.failures \in Nat /\ b.requests \in Nat
        /\ b.successes <= r.successes => r.successes = b.successes + 1
    BY <1>3, <2>1, BreakerAssumption DEF Increment, Breakers, Counter
  <2>5. HalfOpenBooks(r, m)
    <3>1. CASE b.state = "half-open"
      <4>1. HalfOpenBooks(b, m + 1)
        BY <1>2 DEF Sound
      <4>2. r.successes = b.successes + 1
        BY <3>1, <4>1, <2>1, <1>3, Settings
           DEF HalfOpenBooks, Increment, Breakers, Counter
      <4>3. MaxRequests \in Nat
        BY Settings
      <4>4. r.streak = r.successes /\ r.successes < MaxRequests
        BY <3>1, <4>1, <2>1, <1>5 DEF HalfOpenBooks
      <4> HIDE DEF m, r
      <4> QED BY <3>1, <4>1, <4>2, <4>3, <4>4, <2>1, <2>4, <1>2 DEF HalfOpenBooks
    <3> QED BY <3>1, <2>1 DEF HalfOpenBooks
  <2>6. ASSUME Exact(b, in, t), b.successes <= r.successes
        PROVE  Exact(r, out, t2)
    <3>1. b.requests = b.successes + b.failures + n
      BY <2>6 DEF Exact
    <3> HIDE DEF m, n, r
    <3>2. r.requests = r.successes + r.failures + m
      BY <3>1, <2>1, <2>4, <2>6, <1>2
    <3> QED BY <3>2, <2>2 DEF Exact, m
  <2> HIDE DEF r, n, out, t2
  <2>7. Sound(r, out, t2)
    BY <1>1, <1>3, <2>1, <2>2, <2>3, <2>5 DEF Sound
  <2> QED BY <2>1, <2>6, <2>7 DEF r, out, t2
<1>6. \/ Fresh(r, b.generation, "closed")
      \/ /\ r = [b EXCEPT !.successes = Increment(@), !.streak = Increment(@)]
         /\ b.state = "half-open" => Increment(b.streak) < MaxRequests
  BY <1>3, SucceededCases
<1> QED BY <1>4, <1>5, <1>6

(* A counted failure keeps the books sound: it is recorded, or it opens a  *)
(* fresh generation in which nobody is counted.                            *)
LEMMA FailedSound ==
  ASSUME now \in Nat, NEW b, NEW in, NEW t, NEW c \in in,
         Sound(b, in, t), t[c] = b.generation
  PROVE  LET r   == Failed(b)
             out == in \ {c}
             t2  == [t EXCEPT ![c] = 0]
         IN  /\ Sound(r, out, t2)
             /\ \/ r.generation # b.generation
                \/ Exact(b, in, t) /\ b.failures <= r.failures
                => Exact(r, out, t2)
<1> DEFINE r   == Failed(b)
           out == in \ {c}
           t2  == [t EXCEPT ![c] = 0]
           n   == Cardinality(Live(b, in, t))
           m   == Cardinality(Live(b, out, t2))
<1>1. out \in SUBSET Callers /\ t2 \in [Callers -> Nat]
      /\ \A d \in out : t2[d] <= b.generation
  BY DEF Sound
<1>2. m \in Nat /\ n = m + 1
  BY LeaveLive
<1>3. b \in Breakers /\ r \in Breakers /\ b.generation \in Nat
  BY FailedCases DEF Sound, Breakers
<1>4. CASE Fresh(r, b.generation, "open")
  <2> HIDE DEF r, out, t2
  <2>1. Sound(r, out, t2) /\ Exact(r, out, t2)
    BY <1>1, <1>3, <1>4, FreshSound DEF States
  <2> QED BY <2>1 DEF r, out, t2
<1>5. CASE /\ b.state = "closed"
           /\ r = [b EXCEPT !.failures = Increment(@), !.streak = 0]
  <2>1. /\ r.state = "closed" /\ r.generation = b.generation
        /\ r.requests = b.requests /\ r.successes = b.successes
        /\ r.failures = Increment(b.failures)
    BY <1>3, <1>5 DEF Breakers
  <2>2. Live(r, out, t2) = Live(b, out, t2)
    BY <2>1 DEF Live
  <2>3. /\ b.successes \in Nat /\ b.failures \in Nat /\ b.requests \in Nat
        /\ b.failures <= r.failures => r.failures = b.failures + 1
    BY <1>3, <2>1, BreakerAssumption DEF Increment, Breakers, Counter
  <2>4. ASSUME Exact(b, in, t), b.failures <= r.failures
        PROVE  Exact(r, out, t2)
    <3>1. b.requests = b.successes + b.failures + n
      BY <2>4 DEF Exact
    <3> HIDE DEF m, n, r
    <3>2. r.requests = r.successes + r.failures + m
      BY <3>1, <2>1, <2>3, <2>4, <1>2
    <3> QED BY <3>2, <2>2 DEF Exact, m
  <2> HIDE DEF r, n, m, out, t2
  <2>5. Sound(r, out, t2)
    BY <1>1, <1>3, <2>1 DEF Sound, HalfOpenBooks
  <2> QED BY <2>1, <2>4, <2>5 DEF r, out, t2
<1>6. b.state # "open"
  BY DEF Live, Sound
<1>7. \/ Fresh(r, b.generation, "open")
      \/ /\ b.state = "closed"
         /\ r = [b EXCEPT !.failures = Increment(@), !.streak = 0]
  BY <1>3, <1>6, FailedCases
<1> QED BY <1>4, <1>5, <1>7

-----------------------------------------------------------------------------

(* NewCircuitBreaker starts with sound books.                              *)
LEMMA InitIInv == Init => IInv
<1> SUFFICES ASSUME Init PROVE IInv
  OBVIOUS
<1>1. cb \in Breakers /\ cb.state = "closed" /\ cb.requests = 0
      /\ cb.successes = 0 /\ cb.failures = 0
  BY Settings DEF Init, Breakers, States
<1>2. Live(cb, inside, ticket) = {} /\ inside = {} /\ wrapped = FALSE
  BY DEF Init, Live
<1>3. ticket \in [Callers -> Nat] /\ now \in Nat
  BY DEF Init
<1>4. Cardinality(Live(cb, inside, ticket)) = 0
  BY <1>2, FS_EmptySet
<1>5. HalfOpenBooks(cb, 0)
  BY <1>1 DEF HalfOpenBooks
<1>6. Exact(cb, inside, ticket)
  BY <1>1, <1>4 DEF Exact
<1>7. Sound(cb, inside, ticket)
  BY <1>1, <1>2, <1>3, <1>4, <1>5 DEF Sound
<1> QED BY <1>2, <1>3, <1>6, <1>7 DEF IInv

(* What the history variable says of a step that is not a wrap.            *)
LEMMA NotWrapped ==
  ASSUME IInv, NoteWrap, cb' \in Breakers
  PROVE  /\ wrapped' \in BOOLEAN
         /\ ~wrapped' /\ cb'.generation = cb.generation =>
              /\ Exact(cb, inside, ticket)
              /\ cb.requests <= cb'.requests
              /\ cb.successes <= cb'.successes
              /\ cb.failures <= cb'.failures
<1>1. wrapped' \in BOOLEAN
  BY DEF NoteWrap
<1> SUFFICES ASSUME ~wrapped', cb'.generation = cb.generation
             PROVE  /\ Exact(cb, inside, ticket)
                    /\ cb.requests <= cb'.requests
                    /\ cb.successes <= cb'.successes
                    /\ cb.failures <= cb'.failures
  BY <1>1
<1>2. /\ ~wrapped
      /\ ~(cb'.requests < cb.requests)
      /\ ~(cb'.successes < cb.successes)
      /\ ~(cb'.failures < cb.failures)
  BY Zenon DEF NoteWrap
<1>3. Exact(cb, inside, ticket)
  BY <1>2 DEF IInv
<1>4. cb \in Breakers
  BY DEF IInv, Sound
<1> QED BY <1>2, <1>3, <1>4 DEF Breakers, Counter

(* An operation that only lets the open state lapse.                       *)
LEMMA LapseStep ==
  ASSUME IInv, cb' = Current(cb), NoteWrap, UNCHANGED <<now, inside, ticket>>
  PROVE  IInv'
<1>1. now \in Nat /\ Sound(cb, inside, ticket) /\ cb \in Breakers
  BY DEF IInv, Sound
<1>2. cb' \in Breakers
  BY <1>1, CurrentCases
<1>3. wrapped' \in BOOLEAN
  BY <1>2, NotWrapped
<1>4. CASE Current(cb) = cb
  <2>1. ~wrapped' => Exact(cb, inside, ticket)
    BY <1>2, <1>4, NotWrapped
  <2> QED BY <1>1, <1>3, <1>4, <2>1 DEF IInv
<1>5. CASE Sound(Current(cb), inside, ticket)
           /\ Exact(Current(cb), inside, ticket)
  BY <1>1, <1>3, <1>5 DEF IInv
<1> QED BY <1>1, <1>4, <1>5, CurrentSound

(* Entering Execute keeps the books sound.                                 *)
LEMMA AdmitStep ==
  ASSUME IInv, NEW c \in Callers, Admit(c)
  PROVE  IInv'
<1> DEFINE b == Current(cb)
<1>1. now \in Nat /\ Sound(cb, inside, ticket) /\ cb \in Breakers
  BY DEF IInv, Sound
<1>2. /\ c \notin inside /\ b.state # "open"
      /\ b.state = "half-open" => b.requests < MaxRequests
      /\ cb' = Admitted(b)
      /\ inside' = inside \cup {c} /\ now' = now
      /\ NoteWrap
  BY DEF Admit
<1>3. b \in Breakers
  BY <1>1, CurrentCases
<1>4. cb' \in Breakers /\ cb'.generation = b.generation
      /\ cb'.requests = Increment(b.requests)
  BY <1>2, <1>3, Settings DEF Admitted, Breakers
<1>5. ticket' = [ticket EXCEPT ![c] = b.generation]
  BY <1>4 DEF Admit
<1>6. wrapped' \in BOOLEAN
        /\ (~wrapped' /\ b = cb =>
              Exact(cb, inside, ticket) /\ cb.requests <= cb'.requests)
  BY <1>2, <1>4, NotWrapped
<1>7. CASE b = cb
  <2>1. Sound(Admitted(b), inside', ticket')
    BY <1>1, <1>2, <1>5, <1>7, AdmittedSound
  <2>2. ~wrapped' => Exact(Admitted(b), inside', ticket')
    BY <1>1, <1>2, <1>5, <1>6, <1>7, AdmittedSound
  <2> HIDE DEF b
  <2> QED BY <1>1, <1>2, <1>6, <2>1, <2>2 DEF IInv
<1>8. CASE /\ Fresh(b, cb.generation, "half-open")
           /\ Sound(b, inside, ticket) /\ Exact(b, inside, ticket)
  <2>1. b.requests <= Admitted(b).requests
    BY <1>2, <1>4, <1>8, BreakerAssumption DEF Fresh, Increment
  <2> HIDE DEF b
  <2>2. Sound(Admitted(b), inside', ticket')
        /\ Exact(Admitted(b), inside', ticket')
    BY <1>2, <1>5, <1>8, <2>1, AdmittedSound
  <2> QED BY <1>1, <1>2, <1>6, <2>2 DEF IInv
<1> QED BY <1>1, <1>7, <1>8, CurrentSound

(* Leaving Execute keeps the books sound, whatever the outcome and         *)
(* however many generations have passed since the entry.                   *)
LEMMA ReportStep ==
  ASSUME IInv, NEW c \in Callers, NEW ok \in BOOLEAN, Report(c, ok)
  PROVE  IInv'
<1> DEFINE b   == Current(cb)
           out == inside \ {c}
           t2  == [ticket EXCEPT ![c] = 0]
<1>1. now \in Nat /\ Sound(cb, inside, ticket) /\ cb \in Breakers
  BY DEF IInv, Sound
<1>2. /\ c \in inside
      /\ cb' = Reported(b, ticket[c], ok)
      /\ inside' = out /\ ticket' = t2 /\ now' = now
      /\ NoteWrap
  BY DEF Report
<1>3. b \in Breakers
  BY <1>1, CurrentCases
<1>4. cb' \in Breakers
  BY <1>1, <1>2, <1>3, SucceededCases, FailedCases DEF Reported
<1>5. wrapped' \in BOOLEAN
  BY <1>2, <1>4, NotWrapped
<1>6. ~wrapped' /\ cb'.generation = cb.generation =>
        /\ Exact(cb, inside, ticket)
        /\ cb.successes <= cb'.successes
        /\ cb.failures <= cb'.failures
  BY <1>2, <1>4, NotWrapped
<1>7. CASE ticket[c] # b.generation
  <2>1. cb' = b
    BY <1>2, <1>7 DEF Reported
  <2>2. CASE b = cb
    <3>1. ~wrapped' => Exact(cb, inside, ticket)
      BY <1>6, <2>1, <2>2
    <3> QED BY <1>1, <1>2, <1>5, <1>7, <2>1, <2>2, <3>1, UncountedSound DEF IInv
  <2>3. CASE Sound(b, inside, ticket) /\ Exact(b, inside, ticket)
    <3> HIDE DEF b
    <3>1. Sound(b, out, t2) /\ Exact(b, out, t2)
      BY <1>2, <1>7, <2>3, UncountedSound
    <3> QED BY <1>1, <1>2, <1>5, <2>1, <3>1 DEF IInv
  <2> QED BY <1>1, <2>2, <2>3, CurrentSound
<1>8. CASE ticket[c] = b.generation
  <2>1. b = cb
    <3>1. ticket[c] <= cb.generation /\ cb.generation \in Nat
      BY <1>1, <1>2 DEF Sound, Breakers
    <3>2. ~Fresh(b, cb.generation, "half-open")
      BY <1>8, <3>1 DEF Fresh
    <3> QED BY <1>1, <3>2, CurrentSound
  <2>2. ticket[c] = cb.generation /\ cb' = Reported(cb, ticket[c], ok)
    BY <1>2, <1>8, <2>1
  <2>3. CASE ok
    <3>1. cb' = Succeeded(cb)
      BY <2>2, <2>3 DEF Reported
    <3>2. Sound(cb', out, t2)
      BY <1>1, <1>2, <2>2, <3>1, SucceededSound
    <3>3. ASSUME ~wrapped' PROVE Exact(cb', out, t2)
      <4>1. \/ Succeeded(cb).generation # cb.generation
            \/ Exact(cb, inside, ticket) /\ cb.successes <= Succeeded(cb).successes
        BY <1>6, <3>1, <3>3
      <4>2. Exact(Succeeded(cb), out, t2)
        BY <1>1, <1>2, <2>2, <4>1, SucceededSound
      <4> QED BY <3>1, <4>2
    <3> QED BY <1>1, <1>2, <1>5, <3>2, <3>3 DEF IInv
  <2>4. CASE ~ok
    <3>1. cb' = Failed(cb)
      BY <2>2, <2>4 DEF Reported
    <3>2. Sound(cb', out, t2)
      BY <1>1, <1>2, <2>2, <3>1, FailedSound
    <3>3. ASSUME ~wrapped' PROVE Exact(cb', out, t2)
      <4>1. \/ Failed(cb).generation # cb.generation
            \/ Exact(cb, inside, ticket) /\ cb.failures <= Failed(cb).failures
        BY <1>6, <3>1, <3>3
      <4>2. Exact(Failed(cb), out, t2)
        BY <1>1, <1>2, <2>2, <4>1, FailedSound
      <4> QED BY <3>1, <4>2
    <3> QED BY <1>1, <1>2, <1>5, <3>2, <3>3 DEF IInv
  <2> QED BY <2>3, <2>4
<1> QED BY <1>7, <1>8

(* Every operation of the breaker keeps the books sound.                   *)
LEMMA NextIInv == IInv /\ [Next]_breakerVars => IInv'
<1> SUFFICES ASSUME IInv, [Next]_breakerVars PROVE IInv'
  OBVIOUS
<1>1. ASSUME NEW c \in Callers, RefuseOpen(c) PROVE IInv'
  BY <1>1 DEF RefuseOpen, breakerVars, IInv
<1>2. ASSUME NEW c \in Callers, RefuseTooMany(c) PROVE IInv'
  BY <1>2, LapseStep DEF RefuseTooMany
<1>3. ASSUME NEW c \in Callers, Admit(c) PROVE IInv'
  BY <1>3, AdmitStep
<1>4. ASSUME NEW c \in Callers, NEW ok \in BOOLEAN, Report(c, ok) PROVE IInv'
  BY <1>4, ReportStep
<1>5. CASE ReadState
  BY <1>5, LapseStep DEF ReadState
<1>6. CASE Tick
  BY <1>6 DEF Tick, IInv
<1>7. CASE UNCHANGED breakerVars
  BY <1>7 DEF breakerVars, IInv
<1> QED BY <1>1, <1>2, <1>3, <1>4, <1>5, <1>6, <1>7 DEF Next

(* What the invariant says of the properties the runs check.               *)
LEMMA IInvImplies ==
  IInv => /\ TypeOK /\ OpenIsQuiet /\ CountsMatchCalls
          /\ HalfOpenNotStuck /\ ProbesWithinQuota
<1> SUFFICES ASSUME IInv
             PROVE  /\ TypeOK /\ OpenIsQuiet /\ CountsMatchCalls
                    /\ HalfOpenNotStuck /\ ProbesWithinQuota
  OBVIOUS
<1> DEFINE n == Cardinality(Counted)
<1>1. Counted = Live(cb, inside, ticket)
  BY DEF Counted, Live
<1>2. TypeOK
  BY DEF IInv, Sound, TypeOK, Breakers
<1>3. OpenIsQuiet /\ CountsMatchCalls
  BY <1>1 DEF IInv, Sound, Exact, OpenIsQuiet, CountsMatchCalls
<1>4. n \in Nat /\ (Counted = {} => n = 0)
  BY <1>1, LiveFinite, FS_EmptySet DEF IInv, Sound
<1>5. HalfOpenBooks(cb, n)
  BY <1>1 DEF IInv, Sound
<1>6. cb.successes \in Nat /\ MaxRequests \in Nat
  BY Settings DEF IInv, Sound, Breakers, Counter
<1>7. HalfOpenNotStuck
  <2> SUFFICES ASSUME cb.state = "half-open", cb.requests >= MaxRequests,
                      Counted = {}
               PROVE  FALSE
    BY DEF HalfOpenNotStuck
  <2> HIDE DEF n
  <2> QED BY <1>4, <1>5, <1>6 DEF HalfOpenBooks
<1>8. ProbesWithinQuota
  <2> SUFFICES ASSUME cb.state = "half-open"
               PROVE  cb.successes + n <= MaxRequests /\ cb.failures = 0
    BY DEF ProbesWithinQuota
  <2> HIDE DEF n
  <2> QED BY <1>4, <1>5, <1>6 DEF HalfOpenBooks
<1> QED BY <1>2, <1>3, <1>7, <1>8

(* How a breaker that lets an expired open state lapse has moved.          *)
LEMMA LapseEarned ==
  ASSUME IInv, Current(cb) # cb,
         cb'.state = Current(cb).state, cb'.generation = Current(cb).generation
  PROVE  Earned
<1>1. now \in Nat /\ cb \in Breakers
  BY DEF IInv, Sound
<1>2. cb.state = "open" /\ Fresh(Current(cb), cb.generation, "half-open")
  BY <1>1, CurrentCases
<1>3. cb.expiry < now
  BY DEF Current
<1> QED BY <1>2, <1>3 DEF Earned, Fresh

(* A call let in moves nothing but an expired open state.                  *)
LEMMA AdmitEarned ==
  ASSUME IInv, NEW c \in Callers, Admit(c)
  PROVE  Earned
<1> DEFINE b == Current(cb)
<1>1. b.state # "open" /\ cb' = Admitted(b) /\ b \in Breakers
  BY CurrentCases DEF Admit, IInv, Sound
<1>2. cb'.state = b.state /\ cb'.generation = b.generation
  BY <1>1 DEF Admitted, Breakers
<1>3. CASE b = cb
  BY <1>1, <1>2, <1>3 DEF Earned
<1> QED BY <1>2, <1>3, LapseEarned

(* The result of a call of this generation moves the breaker if it is a    *)
(* failure that trips it, or the last success of the quota.                *)
LEMMA CountedEarned ==
  ASSUME IInv, NEW c \in inside, NEW ok \in BOOLEAN, ticket[c] = cb.generation,
         cb' = IF ok THEN Succeeded(cb) ELSE Failed(cb),
         c \notin inside'
  PROVE  Earned
<1> DEFINE n == Cardinality(Live(cb, inside, ticket))
<1>1. /\ now \in Nat /\ cb \in Breakers /\ c \in Counted /\ cb.state # "open"
      /\ HalfOpenBooks(cb, n)
  BY DEF IInv, Sound, Counted, Live
<1>2. \E d \in Counted : d \notin inside'
  BY <1>1
<1>3. CASE ok
  <2>1. cb' = Succeeded(cb)
    BY <1>3
  <2> DEFINE s == [cb EXCEPT !.successes = Increment(@), !.streak = Increment(@)]
  <2>2. s.state = cb.state /\ s.generation = cb.generation /\ s.streak = Increment(cb.streak)
    BY <1>1 DEF Breakers
  <2>3. CASE cb' = s
    BY <1>1, <2>2, <2>3 DEF Earned
  <2>4. CASE cb.state = "half-open" /\ s.streak >= MaxRequests /\ cb' = SetState(s, "closed")
    <3>1. cb'.state = "closed" /\ cb'.generation = cb.generation + 1
      BY <2>2, <2>4 DEF SetState
    <3>2. cb.streak = cb.successes /\ cb.successes < MaxRequests
      BY <1>1, <2>4 DEF HalfOpenBooks
    <3>3. cb.successes \in Nat /\ MaxRequests \in Nat /\ Increment(cb.streak) >= MaxRequests
      BY <1>1, <2>2, <2>4, Settings DEF Breakers, Counter
    <3>4. cb.successes + 1 = MaxRequests
      BY <3>2, <3>3, Settings DEF Increment, Counter
    <3> QED BY <1>2, <2>4, <3>1, <3>4 DEF Earned
  <2> QED BY <2>1, <2>3, <2>4 DEF Succeeded
<1>4. CASE ~ok
  <2>1. cb' = Failed(cb)
    BY <1>4
  <2>2. CASE Fresh(cb', cb.generation, "open")
    BY <1>1, <1>2, <2>2 DEF Earned, Fresh
  <2>3. CASE cb.state = "closed" /\ cb' = [cb EXCEPT !.failures = Increment(@), !.streak = 0]
    BY <1>1, <2>3 DEF Earned, Breakers
  <2> QED BY <1>1, <2>1, <2>2, <2>3, FailedCases
<1> QED BY <1>3, <1>4

(* Every step moves the breaker as it should: a ticket of the present      *)
(* generation shows that nothing has lapsed at its report.                 *)
LEMMA NextEarned == IInv /\ [Next]_breakerVars => [cb' # cb => Earned]_breakerVars
<1> SUFFICES ASSUME IInv, Next, cb' # cb PROVE Earned
  OBVIOUS
<1>1. ASSUME NEW c \in Callers, RefuseOpen(c) \/ RefuseTooMany(c) PROVE Earned
  BY <1>1, LapseEarned DEF RefuseOpen, RefuseTooMany, breakerVars
<1>2. ASSUME NEW c \in Callers, Admit(c) PROVE Earned
  BY <1>2, AdmitEarned
<1>3. ASSUME NEW c \in Callers, NEW ok \in BOOLEAN, Report(c, ok) PROVE Earned
  <2> DEFINE b == Current(cb)
  <2>1. /\ c \in inside /\ c \notin inside'
        /\ cb' = Reported(b, ticket[c], ok)
    BY <1>3 DEF Report
  <2>2. CASE ticket[c] # b.generation
    BY <2>1, <2>2, LapseEarned DEF Reported
  <2>3. CASE ticket[c] = b.generation
    <3>1. b = cb
      <4>1. /\ now \in Nat /\ Sound(cb, inside, ticket) /\ cb.generation \in Nat
            /\ ticket[c] <= cb.generation
        BY <2>1 DEF IInv, Sound, Breakers
      <4>2. ~Fresh(b, cb.generation, "half-open")
        BY <2>3, <4>1 DEF Fresh
      <4> QED BY <4>1, <4>2, CurrentSound
    <3>2. ticket[c] = cb.generation /\ cb' = IF ok THEN Succeeded(cb) ELSE Failed(cb)
      BY <2>1, <2>3, <3>1 DEF Reported
    <3> QED BY <2>1, <3>2, CountedEarned
  <2> QED BY <2>2, <2>3
<1>4. CASE ReadState
  BY <1>4, LapseEarned DEF ReadState
<1>5. CASE Tick
  BY <1>5 DEF Tick
<1> QED BY <1>1, <1>2, <1>3, <1>4, <1>5 DEF Next

-----------------------------------------------------------------------------

(* The books stay sound for ever.                                          *)
THEOREM BreakerInvariant == Spec => []IInv
<1> QED BY InitIInv, NextIInv, PTL DEF Spec

(* The breaker's fields keep the widths gobreaker gives them.              *)
THEOREM BreakerTypeOK == Spec => []TypeOK
<1> QED BY BreakerInvariant, IInvImplies, PTL

(* No call under way can report into the cooldown of an open breaker.      *)
THEOREM BreakerOpenIsQuiet == Spec => []OpenIsQuiet
<1> QED BY BreakerInvariant, IInvImplies, PTL

(* Until a counter wraps, Requests is the outcomes plus the running calls: *)
(* the ratio ReadyToTrip computes is a ratio of the calls of one           *)
(* generation.                                                             *)
THEOREM BreakerCountsMatchCalls == Spec => []CountsMatchCalls
<1> QED BY BreakerInvariant, IInvImplies, PTL

(* A half-open breaker that refuses everybody waits for a running probe.   *)
THEOREM BreakerHalfOpenNotStuck == Spec => []HalfOpenNotStuck
<1> QED BY BreakerInvariant, IInvImplies, PTL

(* One half-open period admits at most MaxRequests probes.                 *)
THEOREM BreakerProbesWithinQuota == Spec => []ProbesWithinQuota
<1> QED BY BreakerInvariant, IInvImplies, PTL

(* Each move of the breaker is earned: by time, or by a call of the        *)
(* generation that it ends.                                                *)
THEOREM BreakerMovesEarned == Spec => MovesEarned
<1> QED BY BreakerInvariant, NextEarned, PTL DEF Spec, MovesEarned
=============================================================================
