----------------------------- MODULE AliasedKeys -----------------------------
(***************************************************************************)
(* What becomes of the response cache when its keys change.                *)
(*                                                                         *)
(* Without a query getCacheKey returns c.Path() as it is.  Fiber hands     *)
(* that string out without copying it (Immutable is not set): its bytes    *)
(* are the path buffer of the request's Ctx, which goes back to a pool and *)
(* is overwritten by the next request that gets it.  An entry of the map   *)
(* keeps the place its key's hash gave it when it was last hashed, and a   *)
(* key that now reads as the latest path of that Ctx.                      *)
(*                                                                         *)
(* All paths here have the same length and fit the buffer; otherwise the   *)
(* old bytes would not be overwritten as a whole.  Entries do not expire   *)
(* while we watch.                                                         *)
(***************************************************************************)
EXTENDS FiniteSets

CONSTANTS
  Ctxs,    \* fiber.Ctx objects; each handles one request at a time
  Paths,   \* request paths of one length
  None     \* no path

VARIABLES
  buffer,  \* Ctx.pathBuffer
  call,    \* the request of each Ctx
  entries  \* the cache's map

vars == <<buffer, call, entries>>

(* A key is a string of its own ("own", built by Sprintf for a path with a *)
(* query) or the buffer of a Ctx.                                          *)
KeyRef == [own : Paths, ctx : {None}] \cup [own : {None}, ctx : Ctxs]

(* What a key reads as now: a path, and whether a query follows.           *)
Reads(k) ==
  IF k.ctx = None THEN [path |-> k.own, query |-> TRUE]
  ELSE [path |-> buffer[k.ctx], query |-> FALSE]

(* getCacheKey(c.Path(), query)                                            *)
CacheKey(c) ==
  IF call[c].query THEN [own |-> buffer[c], ctx |-> None] ELSE [own |-> None, ctx |-> c]

Idle == [pc |-> "idle", query |-> FALSE, body |-> None]

-----------------------------------------------------------------------------

Init ==
  /\ buffer = [c \in Ctxs |-> None]
  /\ call = [c \in Ctxs |-> Idle]
  /\ entries = {}

(* app.AcquireCtx: the request's path is written over the last one's.      *)
Acquire(c, path, query) ==
  /\ call[c].pc = "idle"
  /\ buffer' = [buffer EXCEPT ![c] = path]
  /\ call' = [call EXCEPT ![c] = [Idle EXCEPT !.pc = "lookup", !.query = query]]
  /\ UNCHANGED entries

(* The entries whose key equals that of c's request, and those of them     *)
(* that are where its hash says.                                           *)
Equal(c) == {e \in entries : Reads(e.key) = Reads(CacheKey(c))}
Placed(c) == {e \in Equal(c) : e.hashed = Reads(CacheKey(c))}

(* cache.Get finds an entry with an equal key, wherever that is: a map of  *)
(* up to eight entries is one bucket, searched by comparing keys alone,    *)
(* and in a larger one the hashes of two keys may lead to the same place.  *)
Hit(c) ==
  /\ call[c].pc = "lookup"
  /\ \E e \in Equal(c) :
       call' = [call EXCEPT ![c].pc = "answered", ![c].body = e.body]
  /\ UNCHANGED <<buffer, entries>>

(* It finds none, or looks in another bucket than the one the entry is in; *)
(* the upstream answers, with the body of the path asked for.              *)
Miss(c) ==
  /\ call[c].pc = "lookup"
  /\ Placed(c) = {}
  /\ call' = [call EXCEPT ![c].pc = "store", ![c].body = buffer[c]]
  /\ UNCHANGED <<buffer, entries>>

(* cache.Set replaces an entry with an equal key where that is, key        *)
(* included, or adds one.  It finds any that is at its own key's place.    *)
Store(c) ==
  LET new == [key |-> CacheKey(c), hashed |-> Reads(CacheKey(c)), body |-> call[c].body] IN
  /\ call[c].pc = "store"
  /\ \/ \E e \in Equal(c) :
          entries' = (entries \ {e}) \cup {[new EXCEPT !.hashed = e.hashed]}
     \/ Placed(c) = {} /\ entries' = entries \cup {new}
  /\ call' = [call EXCEPT ![c].pc = "answered"]
  /\ UNCHANGED buffer

(* External: the map grows and moves an entry to where the hash of its key *)
(* says, as the key reads at that time.                                    *)
Rehash ==
  /\ \E e \in entries :
       entries' = (entries \ {e}) \cup
         {[key |-> e.key, hashed |-> Reads(e.key), body |-> e.body]}
  /\ UNCHANGED <<buffer, call>>

(* The response is sent and the Ctx goes back to the pool, buffer and all. *)
Release(c) ==
  /\ call[c].pc = "answered"
  /\ call' = [call EXCEPT ![c] = Idle]
  /\ UNCHANGED <<buffer, entries>>

Next ==
  \/ \E c \in Ctxs, path \in Paths, query \in BOOLEAN : Acquire(c, path, query)
  \/ \E c \in Ctxs : Hit(c) \/ Miss(c) \/ Store(c) \/ Release(c)
  \/ Rehash

Spec == Init /\ [][Next]_vars

-----------------------------------------------------------------------------

(* http.go: "getCacheKey generates a cache key from path and query".  The  *)
(* body that answers a request is one that the upstream gave for its path. *)
AnswersItsPath ==
  \A c \in Ctxs : call[c].pc = "answered" => call[c].body = buffer[c]

(* Where it ends: a request with a query has its path's body, whatever     *)
(* happens to the other keys meanwhile.                                    *)
QueriesAnswered ==
  \A c \in Ctxs :
    call[c].pc = "answered" /\ call[c].query => call[c].body = buffer[c]
=============================================================================
