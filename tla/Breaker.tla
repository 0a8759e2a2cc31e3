------------------------------- MODULE Breaker -------------------------------
(***************************************************************************)
(* The circuit breaker every proxied request passes through:               *)
(* internal/resilience/circuitbreaker.go around sony/gobreaker.            *)
(*                                                                         *)
(* A caller is a request being handled.  CircuitBreaker.Execute(fn) is two *)
(* critical sections of the breaker's mutex with fn, of any length, in     *)
(* between: the entry (gobreaker's beforeRequest) hands out the current    *)
(* generation as a ticket, the exit (afterRequest) reports fn's outcome    *)
(* and is ignored when the breaker has moved to another generation in the  *)
(* meantime.  What fn does is left open here; RequestPath fills it in.     *)
(***************************************************************************)
EXTENDS Integers, FiniteSets

CONSTANTS
  Callers,           \* the requests that can be handled at the same time
  FailureThreshold,  \* cfg.Resilience.FailureThreshold
  ResetTimeout,      \* cfg.Resilience.ResetTimeout, in clock units
  CounterMod,        \* gobreaker counts in uint32: 2^32 in the program
  MaxTime            \* bound: the clock stops here

(* FailureThreshold goes through uint32(...), the counters are that wide,  *)
(* and there are fewer simultaneous requests than a counter can count.     *)
ASSUME BreakerAssumption ==
  /\ CounterMod \in Nat /\ CounterMod > 1
  /\ FailureThreshold \in 0 .. CounterMod - 1
  /\ ResetTimeout \in Nat
  /\ MaxTime \in Nat
  /\ IsFiniteSet(Callers)
  /\ Cardinality(Callers) < CounterMod

VARIABLES
  now,      \* time.Now()
  cb,       \* the breaker: state, generation, Counts and expiry
  inside,   \* the callers between entry and exit
  ticket,   \* the generation each of them was admitted in
  wrapped   \* history: a counter of this generation passed 2^32

breakerVars == <<now, cb, inside, ticket, wrapped>>

States == {"closed", "open", "half-open"}

(* Zero values in Settings mean defaults: one probe, sixty seconds.        *)
MaxRequests == IF FailureThreshold = 0 THEN 1 ELSE FailureThreshold
Cooldown    == IF ResetTimeout = 0 THEN 60 ELSE ResetTimeout

Counter == 0 .. CounterMod - 1

(* Bug variant: a counter as wide as it needs to be.                       *)
IncrementUnbounded(n) == n + 1

Increment(n) == IF n = CounterMod - 1 THEN 0 ELSE n + 1

(***************************************************************************)
(* gobreaker's state machine, as functions from breaker to breaker.        *)
(***************************************************************************)

(* Bug variant: the state changes and the generation stays.                *)
SetStateSameGeneration(b, s) ==
  [b EXCEPT !.state = s, !.requests = 0, !.successes = 0, !.failures = 0,
            !.streak = 0, !.expiry = IF s = "open" THEN now + Cooldown ELSE 0]

(* setState: a new generation with cleared counts.  Only the open state    *)
(* has an expiry, since Settings.Interval is left at zero.                 *)
SetState(b, s) ==
  [state     |-> s,
   generation |-> b.generation + 1,
   requests  |-> 0,
   successes |-> 0,
   failures  |-> 0,
   streak    |-> 0,
   expiry    |-> IF s = "open" THEN now + Cooldown ELSE 0]

(* currentState: every operation first lets an expired open state lapse.   *)
Current(b) ==
  IF b.state = "open" /\ b.expiry < now THEN SetState(b, "half-open") ELSE b

(* The ReadyToTrip callback: failureRatio >= 0.5 without the division.  In *)
(* float64 a Requests counter that wrapped to zero gives +Inf, which is at *)
(* least 0.5, unless the failures are zero too: NaN is not.                *)
ReadyToTrip(b) ==
  /\ b.requests >= FailureThreshold
  /\ b.failures > 0
  /\ 2 * b.failures >= b.requests

Admitted(b) == [b EXCEPT !.requests = Increment(@)]

Succeeded(b) ==
  LET s == [b EXCEPT !.successes = Increment(@), !.streak = Increment(@)]
  IN  IF b.state = "half-open" /\ s.streak >= MaxRequests
      THEN SetState(s, "closed")
      ELSE s

(* Bug variant: a failed probe is counted and nothing else.                *)
FailedStaysHalfOpen(b) ==
  LET f == [b EXCEPT !.failures = Increment(@), !.streak = 0]
  IN  IF b.state = "closed" /\ ReadyToTrip(f) THEN SetState(f, "open") ELSE f

Failed(b) ==
  LET f == [b EXCEPT !.failures = Increment(@), !.streak = 0]
  IN  CASE b.state = "closed"    -> IF ReadyToTrip(f) THEN SetState(f, "open") ELSE f
        [] b.state = "half-open" -> SetState(b, "open")
        [] OTHER                 -> b

(* Bug variant: a report that is not matched against its generation.       *)
ReportedUnmatched(b, t, ok) == IF ok THEN Succeeded(b) ELSE Failed(b)

(* afterRequest: a result from another generation changes nothing.         *)
Reported(b, t, ok) ==
  IF b.generation # t THEN b
  ELSE IF ok THEN Succeeded(b) ELSE Failed(b)

----------------------------------------------------------------------------

Init ==
  /\ now = 0
  /\ cb = [state |-> "closed", generation |-> 1, requests |-> 0,
           successes |-> 0, failures |-> 0, streak |-> 0, expiry |-> 0]
  /\ inside = {}
  /\ ticket = [c \in Callers |-> 0]
  /\ wrapped = FALSE

(* History only: did this step take a counter of the surviving generation  *)
(* past its width?                                                         *)
NoteWrap ==
  wrapped' = /\ cb'.generation = cb.generation
             /\ wrapped \/ cb'.requests < cb.requests
                        \/ cb'.successes < cb.successes
                        \/ cb'.failures < cb.failures

(* Execute returns ErrOpenState, answered as 503.                          *)
RefuseOpen(c) ==
  /\ c \notin inside
  /\ Current(cb).state = "open"
  /\ UNCHANGED breakerVars

(* Execute returns ErrTooManyRequests, which nothing translates.           *)
RefuseTooMany(c) ==
  /\ c \notin inside
  /\ Current(cb).state = "half-open"
  /\ Current(cb).requests >= MaxRequests
  /\ cb' = Current(cb)
  /\ NoteWrap
  /\ UNCHANGED <<now, inside, ticket>>

(* Bug variant: the quota of the half-open state is forgotten.             *)
AdmitUnlimited(c) ==
  /\ c \notin inside
  /\ Current(cb).state # "open"
  /\ cb' = Admitted(Current(cb))
  /\ inside' = inside \cup {c}
  /\ ticket' = [ticket EXCEPT ![c] = cb'.generation]
  /\ NoteWrap
  /\ UNCHANGED now

Admit(c) ==
  /\ c \notin inside
  /\ Current(cb).state # "open"
  /\ Current(cb).state = "half-open" => Current(cb).requests < MaxRequests
  /\ cb' = Admitted(Current(cb))
  /\ inside' = inside \cup {c}
  /\ ticket' = [ticket EXCEPT ![c] = cb'.generation]
  /\ NoteWrap
  /\ UNCHANGED now

(* fn returned nil (ok), returned an error, or panicked.                   *)
Report(c, ok) ==
  /\ c \in inside
  /\ cb' = Reported(Current(cb), ticket[c], ok)
  /\ inside' = inside \ {c}
  /\ ticket' = [ticket EXCEPT ![c] = 0]
  /\ NoteWrap
  /\ UNCHANGED now

(* State and StateString are reads that let an expired open state lapse.   *)
ReadState ==
  /\ cb' = Current(cb)
  /\ NoteWrap
  /\ UNCHANGED <<now, inside, ticket>>

Tick ==
  /\ now < MaxTime
  /\ now' = now + 1
  /\ UNCHANGED <<cb, inside, ticket, wrapped>>

Next ==
  \/ \E c \in Callers : RefuseOpen(c) \/ RefuseTooMany(c) \/ Admit(c)
  \/ \E c \in Callers, ok \in BOOLEAN : Report(c, ok)
  \/ ReadState
  \/ Tick

Spec == Init /\ [][Next]_breakerVars

(* The one thing the code guarantees about scheduling: fn returns, because *)
(* http.Client has a timeout.  Nothing forces new requests to arrive.      *)
FairSpec == Spec /\ \A c \in Callers : WF_breakerVars(\E ok \in BOOLEAN : Report(c, ok))

----------------------------------------------------------------------------

(* The breaker's fields have the widths gobreaker gives them: no counter   *)
(* leaves uint32, and a generation is never zero.                          *)
TypeOK ==
  /\ now \in Nat
  /\ cb \in [state : States, generation : Nat \ {0}, requests : Counter,
             successes : Counter, failures : Counter, streak : Counter,
             expiry : Nat]
  /\ inside \in SUBSET Callers
  /\ ticket \in [Callers -> Nat]
  /\ wrapped \in BOOLEAN

(* The callers whose report will still count.                              *)
Counted == {c \in inside : ticket[c] = cb.generation}

(* While the breaker is open, every call still under way was admitted      *)
(* before it tripped: tripping hands out no ticket of the open generation, *)
(* so no late report can touch the cooldown.                               *)
OpenIsQuiet == cb.state = "open" => Counted = {}

(* Until a counter wraps, Requests is exactly the outcomes recorded plus   *)
(* the calls of this generation still under way: every admitted call is    *)
(* reported once, and calls of earlier generations are never mixed in.     *)
(* ReadyToTrip's ratio is meaningless without it.                          *)
CountsMatchCalls ==
  ~wrapped => cb.requests = cb.successes + cb.failures + Cardinality(Counted)

(* A half-open breaker that refuses everybody is waiting for some probe    *)
(* that is still running: its quota is never used up by calls that are     *)
(* over, which would leave it refusing for ever, as half-open never        *)
(* expires.                                                                *)
HalfOpenNotStuck ==
  cb.state = "half-open" /\ cb.requests >= MaxRequests => Counted # {}

(* The probes of one half-open period, running or done, never exceed the   *)
(* quota, and none of the finished ones failed.                            *)
ProbesWithinQuota ==
  cb.state = "half-open" =>
    /\ cb.successes + Cardinality(Counted) <= MaxRequests
    /\ cb.failures = 0

(* How a step may change the breaker: without a move its state stays, and  *)
(* an open one stays as it is; a move goes to the next generation.  The    *)
(* open state ends in half-open, when its cooldown is over; the others are *)
(* ended by the result of a call that they let in, and half-open by a      *)
(* success only if it completes the quota.                                 *)
Earned ==
  \/ cb'.generation = cb.generation /\ cb'.state = cb.state /\ cb.state # "open"
  \/ /\ cb'.generation = cb.generation + 1
     /\ \/ cb.state = "open" /\ cb'.state = "half-open" /\ cb.expiry < now
        \/ /\ \E c \in Counted : c \notin inside'
           /\ \/ cb.state # "open" /\ cb'.state = "open"
              \/ /\ cb.state = "half-open" /\ cb'.state = "closed"
                 /\ cb.successes + 1 = MaxRequests

(* Each change is earned.  A step makes at most one move: a result that    *)
(* arrives as the open state lapses does not count for what follows.       *)
MovesEarned == [][cb' # cb => Earned]_breakerVars

(* A half-open breaker with its quota used up does not keep refusing.      *)
QuotaFrees ==
  (cb.state = "half-open" /\ cb.requests >= MaxRequests)
    ~> ~(cb.state = "half-open" /\ cb.requests >= MaxRequests)
=============================================================================
