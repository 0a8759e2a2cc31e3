---------------------------- MODULE ResponseCache ----------------------------
(***************************************************************************)
(* The in-memory response cache, pkg/cache/cache.go: a map under an RWMutex *)
(* and a goroutine that removes expired items every cleanupInterval.       *)
(*                                                                         *)
(* The instants that matter are where time.Now() is read and where the     *)
(* lock is taken.  Set reads the clock before it locks, so the clock can   *)
(* move on in between; Get reads it under the lock; the cleaner reads it   *)
(* before it locks, so what it removes is judged by an older clock.        *)
(***************************************************************************)
EXTENDS Integers, FiniteSets

CONSTANTS
  Keys,        \* cache keys
  Writers,     \* goroutines that may be inside SetWithExpiration
  Closers,     \* goroutines that may call Close
  TTL,         \* defaultExpiration and cleanupInterval, in clock units
  Durations,   \* arguments of SetWithExpiration
  MaxTime,     \* bound: the clock stops here (the ticker does not)
  Empty        \* no item, no operation, no answer

VARIABLES
  now,       \* time.Now()
  items,     \* the map
  setting,   \* what each writer has computed and not stored yet
  cleaner,   \* the goroutine: in its select, in deleteExpired, or gone
  sweepAt,   \* the clock deleteExpired read, 0 outside of it
  due,       \* the ticker's channel holds a tick
  closing,   \* where each caller of Close is
  last       \* history: the call that has just taken effect, and what it
             \* returned

vars == <<now, items, setting, cleaner, sweepAt, due, closing, last>>

Done(call, k, v) == [call |-> call, key |-> k, value |-> v]
Quiet == Done("none", Empty, Empty)

(* A duration of zero stands for the default, a negative one for never.    *)
Lifetime(d) == IF d = 0 THEN TTL ELSE d

(* Bug variant: negative durations are not special.                        *)
ExpirationNegative(t, d) == t + Lifetime(d)

Expiration(t, d) == IF Lifetime(d) > 0 THEN t + Lifetime(d) ELSE 0

(* The stored value is known by the call that stored it.                   *)
Item(t, d) ==
  [value      |-> [born |-> t, lifetime |-> Lifetime(d)],
   expiration |-> Expiration(t, d)]

Items == {Item(t, d) : t \in 0 .. MaxTime, d \in Durations}

(* With a TTL of zero time.NewTicker panics in the cleaner.                *)
ASSUME CacheAssumption ==
  /\ TTL \in Nat \ {0}
  /\ Durations \subseteq Int
  /\ MaxTime \in Nat
  /\ Empty \notin Items

Expired(i, t) == i.expiration > 0 /\ t > i.expiration

-----------------------------------------------------------------------------

Init ==
  /\ now = 0
  /\ items = [k \in Keys |-> Empty]
  /\ setting = [w \in Writers |-> Empty]
  /\ cleaner = "select"
  /\ sweepAt = 0
  /\ due = FALSE
  /\ closing = [c \in Closers |-> "idle"]
  /\ last = Quiet

(* SetWithExpiration (Set is the case d = 0) up to the lock.               *)
SetStart(w, k, d) ==
  /\ setting[w] = Empty
  /\ setting' = [setting EXCEPT ![w] = [key |-> k, item |-> Item(now, d)]]
  /\ last' = Quiet
  /\ UNCHANGED <<now, items, cleaner, sweepAt, due, closing>>

(* Its critical section.                                                   *)
SetStore(w) ==
  /\ setting[w] # Empty
  /\ items' = [items EXCEPT ![setting[w].key] = setting[w].item]
  /\ setting' = [setting EXCEPT ![w] = Empty]
  /\ last' = Done("Put", setting[w].key, Empty)
  /\ UNCHANGED <<now, cleaner, sweepAt, due, closing>>

(* Bug variant: whatever is in the map is returned.                        *)
GetUnchecked(k) ==
  /\ last' = Done("Get", k, IF items[k] # Empty THEN items[k].value ELSE Empty)
  /\ UNCHANGED <<now, items, setting, cleaner, sweepAt, due, closing>>

Get(k) ==
  /\ last' = Done("Get", k, IF items[k] # Empty /\ ~Expired(items[k], now)
                            THEN items[k].value ELSE Empty)
  /\ UNCHANGED <<now, items, setting, cleaner, sweepAt, due, closing>>

Delete(k) ==
  /\ items' = [items EXCEPT ![k] = Empty]
  /\ last' = Done("Remove", k, Empty)
  /\ UNCHANGED <<now, setting, cleaner, sweepAt, due, closing>>

Clear ==
  /\ items' = [k \in Keys |-> Empty]
  /\ last' = Done("Clear", Empty, Empty)
  /\ UNCHANGED <<now, setting, cleaner, sweepAt, due, closing>>

(* All that is in the map, expired or not.                                 *)
Count ==
  /\ last' = Done("Count", Empty, Cardinality({k \in Keys : items[k] # Empty}))
  /\ UNCHANGED <<now, items, setting, cleaner, sweepAt, due, closing>>

(* The cleaner takes a tick; deleteExpired reads the clock...              *)
TakeTick ==
  /\ cleaner = "select"
  /\ due
  /\ due' = FALSE
  /\ cleaner' = "sweep"
  /\ sweepAt' = now
  /\ last' = Quiet
  /\ UNCHANGED <<now, items, setting, closing>>

(* Bug variants: an item is removed at its last valid instant, the         *)
(* comparison is the wrong way round, the loop around select is missing.   *)
SweepEarly ==
  /\ cleaner = "sweep"
  /\ items' = [k \in Keys |->
       IF items[k] # Empty /\ items[k].expiration > 0
          /\ sweepAt >= items[k].expiration
       THEN Empty ELSE items[k]]
  /\ cleaner' = "select"
  /\ sweepAt' = 0
  /\ last' = Quiet
  /\ UNCHANGED <<now, setting, due, closing>>

SweepInverted ==
  /\ cleaner = "sweep"
  /\ items' = [k \in Keys |->
       IF items[k] # Empty /\ sweepAt < items[k].expiration
       THEN Empty ELSE items[k]]
  /\ cleaner' = "select"
  /\ sweepAt' = 0
  /\ last' = Quiet
  /\ UNCHANGED <<now, setting, due, closing>>

SweepOnce ==
  /\ cleaner = "sweep"
  /\ items' = [k \in Keys |->
       IF items[k] # Empty /\ Expired(items[k], sweepAt)
       THEN Empty ELSE items[k]]
  /\ cleaner' = "stopped"
  /\ sweepAt' = 0
  /\ last' = Quiet
  /\ UNCHANGED <<now, setting, due, closing>>

(* ... and removes, under the lock, what had expired by then.              *)
Sweep ==
  /\ cleaner = "sweep"
  /\ items' = [k \in Keys |->
       IF items[k] # Empty /\ Expired(items[k], sweepAt)
       THEN Empty ELSE items[k]]
  /\ cleaner' = "select"
  /\ sweepAt' = 0
  /\ last' = Quiet
  /\ UNCHANGED <<now, setting, due, closing>>

(* Close sends on an unbuffered channel: it waits for the cleaner's select *)
CloseStart(c) ==
  /\ closing[c] = "idle"
  /\ closing' = [closing EXCEPT ![c] = "sending"]
  /\ last' = Quiet
  /\ UNCHANGED <<now, items, setting, cleaner, sweepAt, due>>

(* and returns when the cleaner receives, which it does once.              *)
Stop(c) ==
  /\ closing[c] = "sending"
  /\ cleaner = "select"
  /\ cleaner' = "stopped"
  /\ closing' = [closing EXCEPT ![c] = "returned"]
  /\ last' = Quiet
  /\ UNCHANGED <<now, items, setting, sweepAt, due>>

(* The ticker fires at the multiples of the interval and drops a tick when *)
(* its channel, of capacity one, is full.  When the model's clock has      *)
(* reached its bound the ticker fires on.                                  *)
Tick ==
  /\ now' = IF now < MaxTime THEN now + 1 ELSE now
  /\ due' = (due \/ (now + 1) % TTL = 0 \/ now = MaxTime)
  /\ last' = Quiet
  /\ UNCHANGED <<items, setting, cleaner, sweepAt, closing>>

Next ==
  \/ \E w \in Writers, k \in Keys, d \in Durations : SetStart(w, k, d)
  \/ \E w \in Writers : SetStore(w)
  \/ \E k \in Keys : Get(k) \/ Delete(k)
  \/ Clear
  \/ Count
  \/ TakeTick
  \/ Sweep
  \/ \E c \in Closers : CloseStart(c) \/ Stop(c)
  \/ Tick

Spec == Init /\ [][Next]_vars

(* Time passes, the cleaner is a goroutine that is always ready to run,    *)
(* and a select between two ready cases chooses at random, so a sender     *)
(* that is offered again and again is received in the end.                 *)
FairSpec ==
  /\ Spec
  /\ WF_vars(Tick) /\ WF_vars(TakeTick) /\ WF_vars(Sweep)
  /\ SF_vars(\E c \in Closers : Stop(c))

-----------------------------------------------------------------------------

(* Stored items are ones SetWithExpiration can compute by now, and the     *)
(* cleaner never judges by a clock that has not been reached.              *)
TypeOK ==
  /\ now \in 0 .. MaxTime
  /\ items \in [Keys -> Items \cup {Empty}]
  /\ \A k \in Keys : items[k] # Empty => items[k].expiration \in Nat
  /\ setting \in [Writers -> [key : Keys, item : Items] \cup {Empty}]
  /\ cleaner \in {"select", "sweep", "stopped"}
  /\ sweepAt \in 0 .. now
  /\ due \in BOOLEAN
  /\ closing \in [Closers -> {"idle", "sending", "returned"}]

(* A value is never served after the lifetime its Set asked for, counted   *)
(* from that call, wherever the cleaner is and however long the writer     *)
(* waited for the lock.                                                    *)
HitsAreFresh ==
  last.call = "Get" /\ last.value # Empty =>
    \/ last.value.lifetime < 0
    \/ now <= last.value.born + last.value.lifetime

(* Callers see a map whose entries vanish when they expire, each call      *)
(* taking effect at one instant.  To all but Count the cleaner is          *)
(* invisible: it never removes an entry that can still be read, not even   *)
(* one stored while it waited for the lock.  Count leaves none out.        *)
Live == [k \in Keys |->
  IF items[k] # Empty /\ Expired(items[k], now) THEN Empty ELSE items[k]]

M == INSTANCE TTLMap WITH live <- Live

TTLMapSpec == M!Spec

(* Memory does come back: an expired item is removed or overwritten, as    *)
(* long as nobody has stopped the cleaner.                                 *)
Garbage(k) == items[k] # Empty /\ Expired(items[k], now)

ExpiredLeaves ==
  \A k \in Keys : Garbage(k) ~> (~Garbage(k) \/ cleaner = "stopped")

(* A Close that nobody else beats to it returns.  (A second one never      *)
(* does, the cleaner being gone.)                                          *)
FirstCloseReturns ==
  (\E c \in Closers : closing[c] = "sending")
    ~> (\E c \in Closers : closing[c] = "returned")
=============================================================================
