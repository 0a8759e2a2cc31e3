------------------------- MODULE ResponseCacheProofs -------------------------
(***************************************************************************)
(* The response cache implements the map with vanishing entries, for every *)
(* set of keys, writers, closers and durations, and never serves a value   *)
(* past its lifetime.  The step that needs an argument is the cleaner's:   *)
(* it removes what had expired when it read the clock, and the clock never *)
(* goes back, so no reader could have seen it.                             *)
(***************************************************************************)
EXTENDS ResponseCache, FiniteSetTheorems, TLAPS

(* What SetWithExpiration computes: no expiration for an item without a    *)
(* lifetime, the end of its lifetime otherwise.                            *)
LEMMA ItemFacts ==
  ASSUME NEW i \in Items
  PROVE  /\ i # Empty
         /\ i.expiration \in Nat
         /\ i.value.born \in Nat /\ i.value.lifetime \in Int
         /\ \/ i.expiration = 0 /\ i.value.lifetime < 0
            \/ i.expiration > 0 /\ i.expiration = i.value.born + i.value.lifetime
<1>1. PICK t \in 0 .. MaxTime, d \in Durations : i = Item(t, d)
  BY DEF Items
<1>2. t \in Nat /\ d \in Int
  BY CacheAssumption
<1>3. Lifetime(d) \in Int /\ Lifetime(d) # 0
  BY <1>2, CacheAssumption DEF Lifetime
<1>4. i.value.born = t /\ i.value.lifetime = Lifetime(d)
      /\ i.expiration = Expiration(t, d)
  BY <1>1 DEF Item
<1>5. i # Empty
  BY CacheAssumption
<1> QED BY <1>2, <1>3, <1>4, <1>5 DEF Expiration

(* An item that has expired stays expired.                                 *)
LEMMA ExpiredStays ==
  ASSUME NEW i \in Items, NEW s \in Nat, NEW t \in Nat, s <= t, Expired(i, s)
  PROVE  Expired(i, t)
BY ItemFacts DEF Expired

(* A new cache is empty and its cleaner waits.                             *)
LEMMA InitTypeOK == Init => TypeOK
<1> SUFFICES ASSUME Init PROVE TypeOK
  OBVIOUS
<1>1. now \in 0 .. MaxTime /\ sweepAt \in 0 .. now
  BY CacheAssumption DEF Init
<1>2. items \in [Keys -> Items \cup {Empty}] /\ \A k \in Keys : items[k] = Empty
  BY DEF Init
<1>3. setting \in [Writers -> [key : Keys, item : Items] \cup {Empty}]
  BY DEF Init
<1>4. closing \in [Closers -> {"idle", "sending", "returned"}]
  BY DEF Init
<1> QED BY <1>1, <1>2, <1>3, <1>4 DEF Init, TypeOK

(* Every operation stores only items that a Set has computed.              *)
LEMMA NextTypeOK == TypeOK /\ [Next]_vars => TypeOK'
<1> SUFFICES ASSUME TypeOK, [Next]_vars PROVE TypeOK'
  OBVIOUS
<1> USE DEF TypeOK
<1>0. MaxTime \in Nat /\ now \in Nat
  BY CacheAssumption
<1>1. ASSUME NEW w \in Writers, NEW k \in Keys, NEW d \in Durations,
             SetStart(w, k, d)
      PROVE  TypeOK'
  <2>1. Item(now, d) \in Items
    BY DEF Items
  <2> QED BY <1>1, <2>1 DEF SetStart
<1>2. ASSUME NEW w \in Writers, SetStore(w) PROVE TypeOK'
  <2>1. setting[w].key \in Keys /\ setting[w].item \in Items
    BY <1>2 DEF SetStore
  <2>2. setting[w].item.expiration \in Nat
    BY <2>1, ItemFacts
  <2>3. items' \in [Keys -> Items \cup {Empty}]
    BY <1>2, <2>1 DEF SetStore
  <2>4. \A k \in Keys : items'[k] # Empty => items'[k].expiration \in Nat
    BY <1>2, <2>1, <2>2 DEF SetStore
  <2>5. setting' \in [Writers -> [key : Keys, item : Items] \cup {Empty}]
    BY <1>2 DEF SetStore
  <2> QED BY <1>2, <2>3, <2>4, <2>5 DEF SetStore
<1>3. ASSUME NEW k \in Keys, Get(k) PROVE TypeOK'
  BY <1>3 DEF Get
<1>4. ASSUME NEW k \in Keys, Delete(k) PROVE TypeOK'
  BY <1>4 DEF Delete
<1>5. CASE Clear
  BY <1>5 DEF Clear
<1>6. CASE TakeTick
  <2>1. sweepAt' \in 0 .. now'
    BY <1>0, <1>6 DEF TakeTick
  <2> QED BY <1>6, <2>1 DEF TakeTick
<1>7. CASE Sweep
  <2>1. items' \in [Keys -> Items \cup {Empty}]
    BY <1>7 DEF Sweep
  <2>2. \A k \in Keys : items'[k] # Empty => items'[k].expiration \in Nat
    BY <1>7 DEF Sweep
  <2>3. sweepAt' \in 0 .. now'
    BY <1>0, <1>7 DEF Sweep
  <2> QED BY <1>7, <2>1, <2>2, <2>3 DEF Sweep
<1>8. ASSUME NEW c \in Closers, CloseStart(c) PROVE TypeOK'
  BY <1>8 DEF CloseStart
<1>9. ASSUME NEW c \in Closers, Stop(c) PROVE TypeOK'
  BY <1>9 DEF Stop
<1>10. CASE Tick
  <2>1. now' \in 0 .. MaxTime /\ sweepAt' \in 0 .. now'
    BY <1>0, <1>10 DEF Tick
  <2>2. due' \in BOOLEAN
    BY <1>10 DEF Tick
  <2> QED BY <1>10, <2>1, <2>2 DEF Tick
<1>11. CASE Count
  BY <1>11 DEF Count
<1>12. CASE UNCHANGED vars
  BY <1>12 DEF vars
<1> QED BY <1>1, <1>2, <1>3, <1>4, <1>5, <1>6, <1>7, <1>8, <1>9, <1>10, <1>11, <1>12
        DEF Next

(* The map holds what SetWithExpiration stored, and clocks are in range.   *)
THEOREM CacheTypeOK == Spec => []TypeOK
<1> QED BY InitTypeOK, NextTypeOK, PTL DEF Spec

-----------------------------------------------------------------------------

(* Only Get produces a hit, and the clock does not move while it is held.  *)
LEMMA NextFresh == TypeOK /\ HitsAreFresh /\ [Next]_vars => HitsAreFresh'
<1> SUFFICES ASSUME TypeOK, HitsAreFresh, [Next]_vars PROVE HitsAreFresh'
  OBVIOUS
<1>1. CASE \E k \in Keys : Get(k)
  <2>1. PICK k \in Keys : Get(k)
    BY <1>1
  <2>2. CASE items[k] # Empty /\ ~Expired(items[k], now)
    <3>1. items[k] \in Items /\ now \in Int
      BY <2>2, CacheAssumption DEF TypeOK
    <3>2. last'.value = items[k].value /\ now' = now
      BY <2>1, <2>2 DEF Get, Done
    <3>3. \/ items[k].value.lifetime < 0
          \/ now <= items[k].value.born + items[k].value.lifetime
      BY <2>2, <3>1, ItemFacts DEF Expired
    <3> QED BY <3>2, <3>3 DEF HitsAreFresh
  <2>3. CASE ~(items[k] # Empty /\ ~Expired(items[k], now))
    BY <2>1, <2>3 DEF Get, Done, HitsAreFresh
  <2> QED BY <2>2, <2>3
<1>2. CASE UNCHANGED vars
  BY <1>2 DEF vars, HitsAreFresh
<1>3. CASE last'.call # "Get"
  BY <1>3 DEF HitsAreFresh
<1> QED BY <1>1, <1>2, <1>3
        DEF Next, SetStart, SetStore, Delete, Clear, Count, TakeTick, Sweep,
            CloseStart, Stop, Tick, Done, Quiet

(* No value is served past its lifetime.                                   *)
THEOREM CacheHitsAreFresh == Spec => []HitsAreFresh
<1>1. Init => HitsAreFresh
  BY DEF Init, HitsAreFresh, Done, Quiet
<1> QED BY <1>1, NextFresh, CacheTypeOK, PTL DEF Spec

-----------------------------------------------------------------------------

(* Only finitely many keys have items, however many keys there are.        *)
Stored == {k \in Keys : items[k] # Empty}

FinitelyStored == IsFiniteSet(Stored)

LEMMA InitStored == Init => FinitelyStored
<1> SUFFICES ASSUME Init PROVE Stored = {}
  BY FS_EmptySet DEF FinitelyStored
<1> QED BY DEF Init, Stored

LEMMA NextStored ==
  ASSUME TypeOK, FinitelyStored, [Next]_vars
  PROVE  FinitelyStored'
<1> USE DEF FinitelyStored
<1>1. ASSUME NEW w \in Writers, SetStore(w) PROVE IsFiniteSet(Stored')
  <2> DEFINE k == setting[w].key
  <2>1. IsFiniteSet(Stored \cup {k})
    BY FS_AddElement
  <2>2. Stored' \subseteq Stored \cup {k}
    BY <1>1 DEF SetStore, Stored, TypeOK
  <2> QED BY <2>1, <2>2, FS_Subset
<1>2. CASE Stored' \subseteq Stored
  BY <1>2, FS_Subset
<1>3. ASSUME NEW k \in Keys, Delete(k) PROVE Stored' \subseteq Stored
  BY <1>3 DEF Delete, Stored, TypeOK
<1>4. CASE Clear
  <2>1. Stored' \subseteq Stored
    BY <1>4 DEF Clear, Stored
  <2> QED BY <1>2, <2>1
<1>5. CASE Sweep
  <2>1. Stored' \subseteq Stored
    BY <1>5 DEF Sweep, Stored
  <2> QED BY <1>2, <2>1
<1>6. CASE items' = items
  BY <1>2, <1>6 DEF Stored
<1> QED BY <1>1, <1>2, <1>3, <1>4, <1>5, <1>6
        DEF Next, vars, SetStart, Get, Count, TakeTick, CloseStart, Stop, Tick

(* A new cache shows an empty map and no call.                             *)
LEMMA InitRefines == Init => M!Init /\ last = M!Quiet
BY DEF Init, M!Init, Live, Quiet, Done, M!Quiet, M!Done

(* Steps that leave the map and the clock alone and complete no call are   *)
(* invisible.                                                              *)
LEMMA QuietSteps ==
  ASSUME UNCHANGED <<now, Live>>, last' = Quiet
  PROVE  M!Next
BY DEF M!Next, M!Pause, Quiet, Done, M!Quiet, M!Done

(* What readers see depends on the map and the clock alone.                *)
LEMMA LiveUnchanged ==
  ASSUME UNCHANGED <<now, items>>
  PROVE  UNCHANGED <<now, Live>>
BY DEF Live

(* A Get returns what the abstract map holds, whether the item is in the   *)
(* map, has expired there, or is gone.                                     *)
LEMMA GetRefines ==
  ASSUME NEW k \in Keys, Get(k)
  PROVE  M!Next
<1>1. UNCHANGED <<now, Live>>
  BY LiveUnchanged DEF Get
<1>2. M!Read(k) = IF items[k] # Empty /\ ~Expired(items[k], now)
                  THEN items[k].value ELSE Empty
  BY DEF M!Read, Live
<1>3. last' = M!Done("Get", k, M!Read(k))
  BY <1>2 DEF Get, Done, M!Done
<1> QED BY <1>1, <1>3 DEF M!Next, M!Call

(* The number of items is one, and not below that of the items readers     *)
(* see.                                                                    *)
LEMMA CountRefines ==
  ASSUME FinitelyStored, Count
  PROVE  M!Next
<1> USE DEF FinitelyStored
<1> DEFINE L == {k \in Keys : Live[k] # Empty}
<1>1. UNCHANGED <<now, Live>>
  BY LiveUnchanged DEF Count
<1>2. last' = M!Done("Count", Empty, Cardinality(Stored))
  BY DEF Count, Stored, Done, M!Done
<1>3. last'.value = Cardinality(Stored)
  BY <1>2 DEF M!Done
<1>4. L \subseteq Stored
  BY DEF Live, Stored
<1>5. Cardinality(L) <= Cardinality(Stored) /\ Cardinality(Stored) \in Nat
  BY <1>4, FS_Subset, FS_CardinalityType
<1>6. M!Cardinality(L) = Cardinality(L)
  BY Zenon DEF M!Cardinality, Cardinality
<1> HIDE DEF L
<1>7. M!Count
  BY <1>1, <1>2, <1>3, <1>5, <1>6 DEF M!Count, L
<1> QED BY <1>7 DEF M!Next, M!Call

(* Storing an item, expired or not, is a Put of it.                        *)
LEMMA StoreRefines ==
  ASSUME TypeOK, NEW w \in Writers, SetStore(w)
  PROVE  M!Next
<1> DEFINE k == setting[w].key
           i == setting[w].item
<1>1. k \in Keys /\ i \in Items /\ i # Empty
  BY ItemFacts DEF SetStore, TypeOK
<1>2. items' = [items EXCEPT ![k] = i] /\ now' = now
  BY DEF SetStore
<1>3. items \in [Keys -> Items \cup {Empty}]
  BY DEF TypeOK
<1>4. last' = M!Done("Put", k, Empty)
  BY DEF SetStore, Done, M!Done
<1> HIDE DEF k, i
<1>5. M!Put(k, i)
  BY <1>1, <1>2, <1>3 DEF M!Put, M!At, M!Expired, Live, Expired
<1> QED BY <1>1, <1>4, <1>5 DEF M!Next, M!Call

(* What the cleaner removes had expired for every reader: a stutter.       *)
LEMMA SweepRefines ==
  ASSUME TypeOK, Sweep
  PROVE  UNCHANGED <<now, Live>>
<1>1. now' = now /\ sweepAt \in Nat /\ now \in Nat /\ sweepAt <= now
  BY CacheAssumption DEF TypeOK, Sweep
<1>2. ASSUME NEW k \in Keys
      PROVE  (IF items'[k] # Empty /\ Expired(items'[k], now)
                THEN Empty ELSE items'[k])
             = (IF items[k] # Empty /\ Expired(items[k], now)
                THEN Empty ELSE items[k])
  <2>1. CASE items[k] # Empty /\ Expired(items[k], sweepAt)
    <3>1. items[k] \in Items
      BY <2>1 DEF TypeOK
    <3>2. Expired(items[k], now)
      BY <1>1, <2>1, <3>1, ExpiredStays
    <3>3. items'[k] = Empty
      BY <2>1 DEF Sweep
    <3> QED BY <2>1, <3>2, <3>3
  <2>2. CASE ~(items[k] # Empty /\ Expired(items[k], sweepAt))
    <3>1. items'[k] = items[k]
      BY <2>2 DEF Sweep
    <3> QED BY <3>1
  <2> QED BY <2>1, <2>2
<1> QED BY <1>1, <1>2 DEF Live

(* When the clock moves, readers lose what expires; at its bound nothing   *)
(* moves.                                                                  *)
LEMMA TickRefines ==
  ASSUME TypeOK, Tick
  PROVE  M!Next
<1>1. items' = items /\ now \in Nat /\ last' = Quiet
  BY CacheAssumption DEF Tick, TypeOK
<1>2. CASE now' = now
  BY <1>1, <1>2, LiveUnchanged, QuietSteps
<1>3. CASE now' = now + 1
  <2>1. ASSUME NEW k \in Keys
        PROVE  M!At(IF items[k] # Empty /\ Expired(items[k], now)
                    THEN Empty ELSE items[k], now + 1)
               = (IF items[k] # Empty /\ Expired(items[k], now + 1)
                  THEN Empty ELSE items[k])
    <3>1. CASE items[k] = Empty
      BY <3>1 DEF M!At
    <3>2. CASE items[k] # Empty
      <4>1. items[k] \in Items
        BY <3>2 DEF TypeOK
      <4>2. Expired(items[k], now) => Expired(items[k], now + 1)
        BY <1>1, <4>1, ExpiredStays
      <4> QED BY <3>2, <4>2 DEF M!At, M!Expired, Expired
    <3> QED BY <3>1, <3>2
  <2>2. Live' = [k \in Keys |-> M!At(Live[k], now + 1)]
    BY <1>1, <1>3, <2>1 DEF Live
  <2>3. last' = M!Quiet
    BY <1>1 DEF Quiet, Done, M!Quiet, M!Done
  <2> QED BY <1>3, <2>2, <2>3 DEF M!Next, M!Pause, M!Tick
<1> QED BY <1>1, <1>2, <1>3 DEF Tick

(* Every operation is one of the abstract map, or invisible.               *)
LEMMA NextRefines ==
  TypeOK /\ FinitelyStored /\ [Next]_vars => [M!Next]_<<now, Live, last>>
<1> SUFFICES ASSUME TypeOK, FinitelyStored, [Next]_vars
             PROVE  M!Next \/ UNCHANGED <<now, Live, last>>
  OBVIOUS
<1>1. ASSUME NEW k \in Keys, Delete(k) PROVE M!Next
  <2>1. M!Remove(k)
    BY <1>1 DEF Delete, M!Remove, Live, TypeOK
  <2>2. last' = M!Done("Remove", k, Empty)
    BY <1>1 DEF Delete, Done, M!Done
  <2> QED BY <2>1, <2>2 DEF M!Next, M!Call
<1>2. CASE Clear
  <2>1. M!Clear
    BY <1>2 DEF Clear, M!Clear, Live
  <2>2. last' = M!Done("Clear", Empty, Empty)
    BY <1>2 DEF Clear, Done, M!Done
  <2> QED BY <2>1, <2>2 DEF M!Next, M!Call
<1>3. ASSUME NEW w \in Writers, SetStore(w) PROVE M!Next
  BY <1>3, StoreRefines
<1>4. ASSUME NEW k \in Keys, Get(k) PROVE M!Next
  BY <1>4, GetRefines
<1>5. CASE Sweep
  <2>1. last' = Quiet
    BY <1>5 DEF Sweep
  <2> QED BY <1>5, <2>1, SweepRefines, QuietSteps
<1>6. CASE Tick
  BY <1>6, TickRefines
<1>7. CASE UNCHANGED <<now, items>> /\ last' = Quiet
  BY <1>7, LiveUnchanged, QuietSteps
<1>8. CASE Count
  BY <1>8, CountRefines
<1>9. CASE UNCHANGED vars
  BY <1>9, LiveUnchanged DEF vars
<1> QED BY <1>1, <1>2, <1>3, <1>4, <1>5, <1>6, <1>7, <1>8, <1>9
        DEF Next, SetStart, TakeTick, CloseStart, Stop

(* To its callers the cache is a map whose entries vanish when they        *)
(* expire.                                                                 *)
THEOREM CacheImplementsTTLMap == Spec => TTLMapSpec
<1>1. TypeOK /\ FinitelyStored /\ [Next]_vars => FinitelyStored'
  BY NextStored
<1>2. Spec => []FinitelyStored
  BY InitStored, <1>1, CacheTypeOK, PTL DEF Spec
<1> QED BY InitRefines, NextRefines, <1>2, CacheTypeOK, PTL DEF Spec, TTLMapSpec, M!Spec
=============================================================================
