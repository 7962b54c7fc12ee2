---------------------------- MODULE CachedEngine ----------------------------
(***************************************************************************)
(* The LRU cache of src/lru_cache.py over the engine, used by several      *)
(* threads.  The cache and the engine have a lock each and no call holds   *)
(* both: get looks in the cache, reads the engine and fills the cache in   *)
(* three critical sections, a mutation changes the engine in one (its      *)
(* parts are the actions of LoggedMap) and the cache in another.           *)
(*                                                                         *)
(* LoggedMap has no expiry.  Here a key whose time has run out is gone     *)
(* from the engine while `store` still holds what a replay would give.     *)
(***************************************************************************)
EXTENDS LoggedMap

CONSTANTS
    Thread,     \* the threads that share one CachedKVEngine
    Capacity    \* LRUCache capacity

ASSUME CapacityAssumption == Capacity \in Nat

VARIABLES
    cached,   \* _cache: key -> value, None where there is no item
    order,    \* _cache: its keys, the least recently used first
    expiry,   \* the keys of the engine's _expiry
    gone,     \* the keys the engine has evicted because they expired
    pc,       \* where each thread is in its call
    call,     \* the call it is in, or None
    got,      \* the value its read of the engine returned
    raced     \* history: keys changed while another thread was about to cache
              \* something for them

cacheVars  == <<cached, order>>
threadVars == <<pc, call, got>>
cvars == <<vars, cacheVars, threadVars, expiry, gone, raced>>

Get == [op: {"GET"}, key: Key]

\* KVEngine.get
EngineValue(k) == IF k \in gone THEN None ELSE store[k]

\* The order without k, which is in it once if it is cached at all.
Without(k) ==
    IF \E i \in 1..Len(order) : order[i] = k
    THEN LET i == CHOOSE i \in 1..Len(order) : order[i] = k
         IN  SubSeq(order, 1, i - 1) \o SubSeq(order, i + 1, Len(order))
    ELSE order

----------------------------------------------------------------------------
(* LRUCache *)

MoveToEnd(k) == order' = Append(Without(k), k)

\* put: above capacity the first key leaves, which is k itself if there is no room
\* for any.
CachePut(k, v) ==
    LET full == Append(Without(k), k)
        over == Len(full) > Capacity
    IN  /\ order'  = IF over THEN Tail(full) ELSE full
        /\ cached' = IF over THEN [[cached EXCEPT ![k] = v] EXCEPT ![Head(full)] = None]
                             ELSE [cached EXCEPT ![k] = v]

CacheDelete(k) ==
    /\ order'  = Without(k)
    /\ cached' = [cached EXCEPT ![k] = None]

CacheFlush ==
    /\ order'  = <<>>
    /\ cached' = EmptyMap

----------------------------------------------------------------------------
(* CachedKVEngine *)

CInit ==
    /\ Init
    /\ cached = EmptyMap
    /\ order = <<>>
    /\ expiry = {}
    /\ gone = {}
    /\ pc   = [t \in Thread |-> "idle"]
    /\ call = [t \in Thread |-> None]
    /\ got  = [t \in Thread |-> None]
    /\ raced = {}

\* get finds the key in the cache and returns.
GetHit(t, k) ==
    /\ alive /\ pc[t] = "idle"
    /\ cached[k] # None
    /\ MoveToEnd(k)
    /\ UNCHANGED <<vars, cached, threadVars, expiry, gone, raced>>

\* get does not find it and goes on to the engine.
GetMiss(t, k) ==
    /\ alive /\ pc[t] = "idle"
    /\ cached[k] = None
    /\ pc'   = [pc EXCEPT ![t] = "read"]
    /\ call' = [call EXCEPT ![t] = [op |-> "GET", key |-> k]]
    /\ UNCHANGED <<vars, cacheVars, got, expiry, gone, raced>>

\* The read takes the engine's lock and releases it.
EngineGet(t) ==
    /\ pc[t] = "read"
    /\ op = None
    /\ LET v == EngineValue(call[t].key)
       IN  /\ got'  = [got EXCEPT ![t] = v]
           /\ pc'   = [pc EXCEPT ![t] = IF v = None THEN "idle" ELSE "fill"]
           /\ call' = [call EXCEPT ![t] = IF v = None THEN None ELSE @]
    /\ UNCHANGED <<vars, cacheVars, expiry, gone, raced>>

Idle(t) ==
    /\ pc'   = [pc EXCEPT ![t] = "idle"]
    /\ call' = [call EXCEPT ![t] = None]
    /\ got'  = [got EXCEPT ![t] = None]

CacheFill(t) ==
    /\ pc[t] = "fill"
    /\ CachePut(call[t].key, got[t])
    /\ Idle(t)
    /\ UNCHANGED <<vars, expiry, gone, raced>>

\* A mutation takes the engine's lock.  A delete of a key the engine no longer
\* has returns False there and leaves the cache alone: nothing changes.
Mutate(t, rec) ==
    /\ pc[t] = "idle"
    /\ rec.op = "DELETE" => rec.key \notin gone
    /\ Begin(rec)
    /\ pc'   = [pc EXCEPT ![t] = "engine"]
    /\ call' = [call EXCEPT ![t] = rec]
    /\ UNCHANGED <<cacheVars, got, expiry, gone, raced>>

AppendRecord ==
    /\ Logged
    /\ UNCHANGED <<cacheVars, threadVars, expiry, gone, raced>>

\* u has taken a value for k from the engine, or given it one, and has yet to
\* bring the cache up to date.
AboutToCache(u, k) ==
    \/ pc[u] = "fill"  /\ call[u].key = k
    \/ pc[u] = "cache" /\ Touches(call[u], k)

\* The engine's part of a mutation ends and its lock is released.  The history
\* notes which keys some other thread is about to cache something older for.
EngineDone(t) ==
    /\ pc[t] = "engine"
    /\ Finish
    /\ LET hit == {k \in Key : Touches(op, k)}
       IN  /\ gone'   = gone \ hit
           /\ expiry' = IF op.op = "PUT" /\ op.ttl # None THEN expiry \cup hit
                                                         ELSE expiry \ hit
           /\ raced'  = (raced \ hit)
                        \cup {k \in hit : \E u \in Thread : AboutToCache(u, k)}
    /\ pc' = [pc EXCEPT ![t] = "cache"]
    /\ UNCHANGED <<cacheVars, call, got>>

\* The cache's part.
BadUpdateCache(t) ==        \* the new value is left to the next miss
    /\ pc[t] = "cache"
    /\ \/ call[t].op = "PUT" /\ UNCHANGED cacheVars
       \/ call[t].op = "DELETE" /\ CacheDelete(call[t].key)
       \/ call[t].op = "FLUSH" /\ CacheFlush
    /\ Idle(t)
    /\ UNCHANGED <<vars, expiry, gone, raced>>
UpdateCache(t) ==
    /\ pc[t] = "cache"
    /\ \/ call[t].op = "PUT" /\ CachePut(call[t].key, call[t].value)
       \/ call[t].op = "DELETE" /\ CacheDelete(call[t].key)
       \/ call[t].op = "FLUSH" /\ CacheFlush
    /\ Idle(t)
    /\ UNCHANGED <<vars, expiry, gone, raced>>

\* A deadline passes and a read or the cleanup thread evicts the key.
Expire(k) ==
    /\ alive /\ op = None
    /\ k \in expiry
    /\ expiry' = expiry \ {k}
    /\ gone' = gone \cup {k}
    /\ UNCHANGED <<vars, cacheVars, threadVars, raced>>

Die ==
    /\ Crash
    /\ CacheFlush
    /\ pc'   = [t \in Thread |-> "idle"]
    /\ call' = [t \in Thread |-> None]
    /\ got'  = [t \in Thread |-> None]
    /\ expiry' = {} /\ gone' = {} /\ raced' = {}

\* Replay restores the values without their deadlines.
Reboot ==
    /\ Restart
    /\ UNCHANGED <<cacheVars, threadVars, expiry, gone, raced>>

CNext ==
    \/ \E t \in Thread :
         \/ \E k \in Key : GetHit(t, k) \/ GetMiss(t, k)
         \/ \E rec \in Record : Mutate(t, rec)
         \/ EngineGet(t) \/ CacheFill(t) \/ EngineDone(t) \/ UpdateCache(t)
    \/ \E k \in Key : Expire(k)
    \/ AppendRecord \/ Die \/ Reboot

CSpec == CInit /\ [][CNext]_cvars

----------------------------------------------------------------------------
\* The cache serves what the engine holds, for every key that has not expired and
\* that no thread is just writing, unless the key was last changed while another
\* thread was about to cache an older value of it.  Overlap with a mutation and
\* expiry are the only ways to a stale value (lru_cache.py "Drop-in replacement").
CoherentUnlessRaced ==
    \A k \in Key \ (raced \cup gone) :
        (\A t \in Thread : ~(pc[t] = "cache" /\ Touches(call[t], k)))
            => cached[k] \in {None, EngineValue(k)}
=============================================================================
