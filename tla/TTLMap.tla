------------------------------- MODULE TTLMap -------------------------------
(***************************************************************************)
(* What the response cache promises (pkg/cache): a map whose entries       *)
(* vanish by themselves the instant they expire.  There is no cleaner and  *)
(* no moment at which an expired entry can still be read, and an entry     *)
(* disappears early only by a call of the user's.  Count alone tells that  *)
(* there is garbage: it promises no more than to leave no entry out.       *)
(***************************************************************************)
EXTENDS Integers, FiniteSets

CONSTANTS
  Keys,    \* the cache keys
  Items,   \* what can be stored: a value and an expiration, 0 for never
  Empty    \* no item, no value, no key

VARIABLES
  now,     \* the clock
  live,    \* the item under each key, or Empty
  last     \* the call that has just taken effect, and what it returned

Done(call, k, v) == [call |-> call, key |-> k, value |-> v]
Quiet == Done("none", Empty, Empty)

Expired(i, t) == i.expiration > 0 /\ t > i.expiration

(* What is left at time t of an item, or of no item.                       *)
At(i, t) == IF i # Empty /\ Expired(i, t) THEN Empty ELSE i

Init ==
  /\ now = 0
  /\ live = [k \in Keys |-> Empty]

(* An item may have expired before it arrives; it is then never seen.      *)
Put(k, i) ==
  /\ live' = [live EXCEPT ![k] = At(i, now)]
  /\ UNCHANGED now

Remove(k) ==
  /\ live' = [live EXCEPT ![k] = Empty]
  /\ UNCHANGED now

Clear ==
  /\ live' = [k \in Keys |-> Empty]
  /\ UNCHANGED now

Tick ==
  /\ now' = now + 1
  /\ live' = [k \in Keys |-> At(live[k], now + 1)]

Read(k) == IF live[k] = Empty THEN Empty ELSE live[k].value

(* The number of entries, of which some may have expired.                  *)
Count ==
  /\ last' = Done("Count", Empty, last'.value)
  /\ last'.value \in Nat
  /\ Cardinality({k \in Keys : live[k] # Empty}) <= last'.value
  /\ UNCHANGED <<now, live>>

Call ==
  \/ \E k \in Keys, i \in Items : Put(k, i) /\ last' = Done("Put", k, Empty)
  \/ \E k \in Keys : Remove(k) /\ last' = Done("Remove", k, Empty)
  \/ Clear /\ last' = Done("Clear", Empty, Empty)
  \/ \E k \in Keys : last' = Done("Get", k, Read(k)) /\ UNCHANGED <<now, live>>
  \/ Count

Pause ==
  /\ Tick \/ UNCHANGED <<now, live>>
  /\ last' = Quiet

Next == Call \/ Pause

Spec == Init /\ last = Quiet /\ [][Next]_<<now, live, last>>
=============================================================================
