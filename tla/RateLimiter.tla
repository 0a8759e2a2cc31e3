----------------------------- MODULE RateLimiter -----------------------------
(***************************************************************************)
(* The per-address rate limiter of internal/middleware/ratelimit.go.       *)
(*                                                                         *)
(* isLimited and removeExpired read the clock after they have taken the    *)
(* lock, so each is one step.  A window is born with the first request     *)
(* that finds none and is replaced by the first request that finds it      *)
(* expired, unless the cleaner has taken it away before.  server.go does   *)
(* not install the limiter; clients here call RateLimit's handler.         *)
(***************************************************************************)
EXTENDS Integers, Sequences

CONSTANTS
  Addresses,   \* what c.IP() returns, "unknown" included
  MaxRequests, \* NewRateLimiter's max
  Window,      \* its window, in clock units
  NoData,      \* no entry in the map
  MaxTime,     \* bound: the clock stops here
  MaxCount     \* bound: requests of an address in one window

(* max and windowSeconds are ints that nothing checks; a window of no      *)
(* length or less is expired one clock reading after it was opened.        *)
ASSUME LimiterAssumption ==
  /\ MaxRequests \in Int
  /\ Window \in Nat
  /\ MaxTime \in Nat
  /\ MaxCount \in Nat
  /\ NoData \notin [count : Nat, expiration : Nat]

VARIABLES
  now,       \* time.Now()
  ips,       \* RateLimiter.ips, by address
  cleaning,  \* the goroutine of cleanup is there
  passed     \* history: the requests let through, each with the
             \* expiration of its window

vars == <<now, ips, cleaning, passed>>

RateLimitData == [count : Nat \ {0}, expiration : Nat]

(* What a window lets through: its first request is never compared with    *)
(* max, so there is always one.                                            *)
Quota == IF MaxRequests > 1 THEN MaxRequests ELSE 1

(* There is a window, and time.Now() is not After its expiration.          *)
Open(a) == ips[a] # NoData /\ now <= ips[a].expiration

Pass(a, expiration) ==
  passed' = [passed EXCEPT ![a] = Append(@, [at |-> now, expiration |-> expiration])]

-----------------------------------------------------------------------------

Init ==
  /\ now = 0
  /\ ips = [a \in Addresses |-> NoData]
  /\ cleaning = TRUE
  /\ passed = [a \in Addresses |-> <<>>]

(* Bug variant: an expired window is prolonged and keeps its count.        *)
OpenWindowKeepCount(a) ==
  /\ ~Open(a)
  /\ ips' = [ips EXCEPT ![a] =
       [count      |-> IF @ = NoData THEN 1 ELSE @.count,
        expiration |-> now + Window]]
  /\ Pass(a, now + Window)
  /\ UNCHANGED <<now, cleaning>>

(* Bug variant: the first request of a window is not counted.              *)
OpenWindowAtZero(a) ==
  /\ ~Open(a)
  /\ ips' = [ips EXCEPT ![a] = [count |-> 0, expiration |-> now + Window]]
  /\ Pass(a, now + Window)
  /\ UNCHANGED <<now, cleaning>>

(* isLimited returns false without looking at max.                         *)
OpenWindow(a) ==
  /\ ~Open(a)
  /\ ips' = [ips EXCEPT ![a] = [count |-> 1, expiration |-> now + Window]]
  /\ Pass(a, now + Window)
  /\ UNCHANGED <<now, cleaning>>

(* isLimited counts a request, one that it refuses (429) too.              *)
CountRequest(a) ==
  /\ Open(a)
  /\ ips[a].count < MaxCount
  /\ ips' = [ips EXCEPT ![a].count = @ + 1]
  /\ IF ips[a].count + 1 > MaxRequests
     THEN UNCHANGED passed
     ELSE Pass(a, ips[a].expiration)
  /\ UNCHANGED <<now, cleaning>>

(* Bug variants: a window is removed the moment it ends, and never.        *)
RemoveEarly ==
  /\ cleaning
  /\ ips' = [a \in Addresses |->
       IF Open(a) /\ now < ips[a].expiration THEN ips[a] ELSE NoData]
  /\ UNCHANGED <<now, cleaning, passed>>

RemoveNothing == cleaning /\ UNCHANGED vars

(* removeExpired, whenever the ticker says so.                             *)
RemoveExpired ==
  /\ cleaning
  /\ ips' = [a \in Addresses |->
       IF Open(a) THEN ips[a] ELSE NoData]
  /\ UNCHANGED <<now, cleaning, passed>>

(* Close meets the cleaner at stopCleanup.  A second call has nobody to    *)
(* meet and changes nothing.                                               *)
Close ==
  /\ cleaning
  /\ cleaning' = FALSE
  /\ UNCHANGED <<now, ips, passed>>

Tick ==
  /\ now < MaxTime
  /\ now' = now + 1
  /\ UNCHANGED <<ips, cleaning, passed>>

Next ==
  \/ \E a \in Addresses : OpenWindow(a) \/ CountRequest(a)
  \/ RemoveExpired
  \/ Close
  \/ Tick

Spec == Init /\ [][Next]_vars

(* The ticker fires every minute for as long as the goroutine is there.    *)
(* Nothing makes requests arrive.                                          *)
FairSpec == Spec /\ WF_vars(RemoveExpired)

-----------------------------------------------------------------------------

(* Every window in the map has counted the request that opened it, and no  *)
(* window is open for longer than its length.                              *)
TypeOK ==
  /\ now \in Nat
  /\ ips \in [Addresses -> RateLimitData \cup {NoData}]
  /\ \A a \in Addresses : ips[a] # NoData => ips[a].expiration <= now + Window
  /\ cleaning \in BOOLEAN
  /\ passed \in [Addresses -> Seq([at : Nat, expiration : Nat])]

(* However requests and the cleaner fall around the end of a window, 2 *   *)
(* Quota requests of one address are never let through within a window's   *)
(* length: almost twice max, since windows are laid by the requests        *)
(* themselves, and never more.                                             *)
BurstBound ==
  \A a \in Addresses : \A i \in 1 .. Len(passed[a]) - (2 * Quota - 1) :
    passed[a][i + 2 * Quota - 1].at > passed[a][i].at + Window

(* isLimited would answer true.                                            *)
Limited(a) == Open(a) /\ ips[a].count >= MaxRequests

(* A client is only refused when it has got its whole quota within the     *)
(* last window's length: the requests that were refused, which are counted *)
(* as well, do not keep it out, and no count outlives its window.          *)
RefusalEarned ==
  \A a \in Addresses : Limited(a) =>
    /\ Len(passed[a]) >= Quota
    /\ now <= passed[a][Len(passed[a]) - Quota + 1].at + Window

(* The memory of an address that stays away is given back, as long as the  *)
(* limiter has not been closed.                                            *)
WindowsLeave ==
  \A a \in Addresses, e \in 0 .. MaxTime :
    ips[a] # NoData /\ ips[a].expiration = e /\ now > e
      ~> ~cleaning \/ ips[a] = NoData \/ ips[a].expiration # e
=============================================================================
