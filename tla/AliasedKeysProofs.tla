-------------------------- MODULE AliasedKeysProofs --------------------------
(***************************************************************************)
(* How far the wrong answers of AliasedKeys reach, for any number of       *)
(* contexts and paths.  A Ctx is a Ctx: None is none of them.              *)
(***************************************************************************)
EXTENDS AliasedKeys, TLAPS

Bodies == Paths \cup {None}

Stages == {"idle", "lookup", "store", "answered"}
Flags  == BOOLEAN

Calls == [pc : Stages, query : Flags, body : Bodies]

(* An entry's key, when it is a string of its own, is its body's path;     *)
(* where in the map the entry is has no part in it.                        *)
Filed(e) ==
  /\ e.body \in Bodies
  /\ e.key.ctx = None => e.key.own = e.body

(* The body on its way to the cache is that of the path asked for.         *)
AliasInv ==
  /\ buffer \in [Ctxs -> Bodies]
  /\ call \in [Ctxs -> Calls]
  /\ \A c \in Ctxs : call[c].pc = "store" => call[c].body = buffer[c]
  /\ \A e \in entries : Filed(e)
  /\ QueriesAnswered

-----------------------------------------------------------------------------

(* What a request asks the map for.                                        *)
LEMMA Asks ==
  ASSUME None \notin Ctxs, NEW c \in Ctxs
  PROVE  /\ Reads(CacheKey(c)).path = buffer[c]
         /\ call[c].query => Reads(CacheKey(c)) = [path |-> buffer[c], query |-> TRUE]
BY DEF Reads, CacheKey

(* An entry with the key of a request with a query is that path's.         *)
LEMMA EqualIsRight ==
  ASSUME None \notin Ctxs, NEW c \in Ctxs, NEW e \in Equal(c), Filed(e),
         call[c].query
  PROVE  e.body = buffer[c]
<1>1. Reads(e.key) = [path |-> buffer[c], query |-> TRUE]
  BY Asks DEF Equal
<1>2. e.key.ctx = None /\ e.key.own = buffer[c]
  BY <1>1 DEF Reads
<1> QED BY <1>2 DEF Filed

(* One request goes on: the others keep what they have.                    *)
LEMMA OneRequest ==
  ASSUME AliasInv, NEW c \in Ctxs, NEW r \in Calls, NEW p \in Bodies,
         buffer' = [buffer EXCEPT ![c] = p], call' = [call EXCEPT ![c] = r],
         r.pc = "store" => r.body = p,
         r.pc = "answered" /\ r.query => r.body = p,
         \A e \in entries' : Filed(e)
  PROVE  AliasInv'
<1>1. buffer' \in [Ctxs -> Bodies] /\ call' \in [Ctxs -> Calls]
  BY DEF AliasInv
<1>2. \A d \in Ctxs : /\ buffer'[d] = IF d = c THEN p ELSE buffer[d]
                      /\ call'[d] = IF d = c THEN r ELSE call[d]
  BY DEF AliasInv
<1>3. /\ \A d \in Ctxs : call[d].pc = "store" => call[d].body = buffer[d]
      /\ \A d \in Ctxs : call[d].pc = "answered" /\ call[d].query => call[d].body = buffer[d]
  BY DEF AliasInv, QueriesAnswered
<1>4. \A d \in Ctxs : call'[d].pc = "store" => call'[d].body = buffer'[d]
  BY <1>2, <1>3
<1>5. \A d \in Ctxs :
        call'[d].pc = "answered" /\ call'[d].query => call'[d].body = buffer'[d]
  BY <1>2, <1>3
<1> QED BY <1>1, <1>4, <1>5 DEF AliasInv, QueriesAnswered, Filed

(* Nothing is answered at the start.                                       *)
LEMMA AliasInit == Init => AliasInv
BY DEF Init, AliasInv, Idle, Calls, Stages, Flags, Bodies, QueriesAnswered

(* Every step leaves the entries filed and the queries answered.           *)
LEMMA AliasNext ==
  ASSUME None \notin Ctxs, AliasInv, [Next]_vars
  PROVE  AliasInv'
<1>1. /\ buffer \in [Ctxs -> Bodies] /\ call \in [Ctxs -> Calls]
      /\ \A e \in entries : Filed(e)
      /\ \A c \in Ctxs : buffer = [buffer EXCEPT ![c] = buffer[c]] /\ buffer[c] \in Bodies
  BY DEF AliasInv
<1>2. ASSUME NEW c \in Ctxs, NEW path \in Paths, NEW query \in BOOLEAN,
             Acquire(c, path, query)
      PROVE  AliasInv'
  <2> DEFINE r == [Idle EXCEPT !.pc = "lookup", !.query = query]
  <2>1. r \in Calls /\ r.pc = "lookup" /\ path \in Bodies
    BY DEF Idle, Calls, Stages, Flags, Bodies
  <2>2. /\ buffer' = [buffer EXCEPT ![c] = path] /\ call' = [call EXCEPT ![c] = r]
        /\ entries' = entries
    BY <1>2 DEF Acquire
  <2> HIDE DEF r
  <2> QED BY <1>1, <2>1, <2>2, OneRequest
<1>3. ASSUME NEW c \in Ctxs, Hit(c) PROVE AliasInv'
  <2>1. PICK e \in Equal(c) :
          call' = [call EXCEPT ![c].pc = "answered", ![c].body = e.body]
    BY <1>3 DEF Hit
  <2> DEFINE q == call[c]
             r == [q EXCEPT !.pc = "answered", !.body = e.body]
  <2>2. Filed(e) /\ e.body \in Bodies
    BY <1>1 DEF Equal, Filed
  <2>3. /\ r \in Calls /\ r.pc = "answered" /\ r.query = q.query /\ r.body = e.body
    <3>1. "answered" \in Stages
      BY DEF Stages
    <3>2. q \in Calls
      BY <1>1
    <3> HIDE DEF q
    <3> QED BY <2>2, <3>1, <3>2 DEF Calls
  <2>4. /\ call' = [call EXCEPT ![c] = r] /\ buffer' = buffer /\ entries' = entries
    BY <1>1, <1>3, <2>1 DEF Hit
  <2>5. r.query => r.body = buffer[c]
    BY <2>2, <2>3, EqualIsRight
  <2> HIDE DEF r
  <2> QED BY <1>1, <2>3, <2>4, <2>5, OneRequest
<1>4. ASSUME NEW c \in Ctxs, Miss(c) PROVE AliasInv'
  <2> DEFINE q == call[c]
             body == buffer[c]
             r == [q EXCEPT !.pc = "store", !.body = body]
  <2>1. r \in Calls /\ r.pc = "store" /\ r.body = body
    <3>1. "store" \in Stages
      BY DEF Stages
    <3>2. q \in Calls /\ body \in Bodies
      BY <1>1
    <3> HIDE DEF q, body
    <3> QED BY <3>1, <3>2 DEF Calls
  <2>2. call' = [call EXCEPT ![c] = r] /\ buffer' = buffer /\ entries' = entries
    BY <1>1, <1>4 DEF Miss
  <2> HIDE DEF r
  <2> QED BY <1>1, <2>1, <2>2, OneRequest
<1>5. ASSUME NEW c \in Ctxs, Store(c) PROVE AliasInv'
  <2> DEFINE r == [call[c] EXCEPT !.pc = "answered"]
             n(h) == [key |-> CacheKey(c), hashed |-> h, body |-> call[c].body]
  <2>1. call[c].body = buffer[c]
    BY <1>5 DEF Store, AliasInv
  <2>2. r \in Calls /\ r.pc = "answered" /\ r.body = buffer[c]
    <3>1. "answered" \in Stages
      BY DEF Stages
    <3> QED BY <1>1, <2>1, <3>1 DEF Calls
  <2>3. call' = [call EXCEPT ![c] = r] /\ buffer' = buffer
    BY <1>1, <1>5 DEF Store
  <2>4. ASSUME NEW h PROVE Filed(n(h))
    <3>1. n(h).body = buffer[c] /\ n(h).key = CacheKey(c)
      BY <2>1
    <3>2. CacheKey(c).ctx = None => CacheKey(c).own = buffer[c]
      BY DEF CacheKey
    <3> QED BY <1>1, <3>1, <3>2 DEF Filed
  <2>5. \A e \in entries' : Filed(e)
    <3>1. entries' \subseteq entries \cup {n(h) : h \in {Reads(CacheKey(c))}
                                              \cup {e.hashed : e \in Equal(c)}}
      BY <1>5 DEF Store
    <3> HIDE DEF n
    <3> QED BY <1>1, <2>4, <3>1
  <2> HIDE DEF r
  <2> QED BY <1>1, <2>2, <2>3, <2>5, OneRequest
<1>6. ASSUME NEW c \in Ctxs, Release(c) PROVE AliasInv'
  <2>1. Idle \in Calls /\ Idle.pc = "idle"
    BY DEF Idle, Calls, Stages, Flags, Bodies
  <2>2. call' = [call EXCEPT ![c] = Idle] /\ buffer' = buffer /\ entries' = entries
    BY <1>6 DEF Release
  <2> QED BY <1>1, <2>1, <2>2, OneRequest
<1>7. CASE Rehash
  <2>1. PICK e \in entries :
          entries' = (entries \ {e}) \cup
            {[key |-> e.key, hashed |-> Reads(e.key), body |-> e.body]}
    BY <1>7 DEF Rehash
  <2> DEFINE f == [key |-> e.key, hashed |-> Reads(e.key), body |-> e.body]
  <2>2. f.body = e.body /\ f.key = e.key
    OBVIOUS
  <2> HIDE DEF f
  <2>3. Filed(f)
    BY <1>1, <2>2 DEF Filed
  <2>4. \A g \in entries' : Filed(g)
    BY <1>1, <2>1, <2>3 DEF f
  <2>5. UNCHANGED <<buffer, call>>
    BY <1>7 DEF Rehash
  <2> QED BY <2>4, <2>5 DEF AliasInv, QueriesAnswered, Filed
<1>8. CASE UNCHANGED vars
  BY <1>8 DEF vars, AliasInv, QueriesAnswered, Filed
<1> QED BY <1>2, <1>3, <1>4, <1>5, <1>6, <1>7, <1>8 DEF Next

-----------------------------------------------------------------------------

(* The cache answers a request with a query from its own path's entries,   *)
(* whatever becomes of the keys of the others: what RequestPath assumes of *)
(* every key is true of these.                                             *)
THEOREM AliasQueriesAnswered ==
  ASSUME None \notin Ctxs
  PROVE  Spec => []QueriesAnswered
<1>1. AliasInv => QueriesAnswered
  BY DEF AliasInv
<1>2. AliasInv /\ [Next]_vars => AliasInv'
  BY AliasNext
<1> QED BY AliasInit, <1>1, <1>2, PTL DEF Spec
=============================================================================
