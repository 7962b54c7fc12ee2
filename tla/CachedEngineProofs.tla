------------------------- MODULE CachedEngineProofs -------------------------
(***************************************************************************)
(* What the cache does to its engine and what it may serve, for any number *)
(* of threads, any capacity and any keys and values.                       *)
(*                                                                         *)
(* The cache is no part of the engine's log: forgetting it leaves a run of *)
(* LoggedMap, whose theorems carry over.  The coherence of the cache is    *)
(* inductive once it is said what the suspended calls are about to write:  *)
(* a thread that has read an unraced key still holds its value, and one    *)
(* that has changed an unraced key will cache what the engine now has.     *)
(***************************************************************************)
EXTENDS CachedEngine, LoggedMapProofs

\* A step of the cached engine is a step of the engine or leaves it alone.
LEMMA CacheStepIsEngineStep == [CNext]_cvars => [Next]_vars
BY DEF CNext, cvars, GetHit, GetMiss, EngineGet, CacheFill, Mutate, AppendRecord,
       EngineDone, UpdateCache, Expire, Die, Reboot, Next

\* Whatever threads do with the cache, the engine and its log behave as without it.
THEOREM CachedImplementsLogged == CSpec => Spec
<1>1. CInit => Init
    BY DEF CInit
<1> QED
    BY <1>1, CacheStepIsEngineStep, PTL DEF CSpec, Spec

\* Store and log agree under the cache too.
THEOREM CachedMemoryIsLog == CSpec => []MemoryIsLog
BY CachedImplementsLogged, MemoryIsLogHolds, PTL

\* The cached engine is still a durable map.
THEOREM CachedIsDurable == CSpec => ImplementsDurableMap
BY CachedImplementsLogged, DurableMapImplemented, PTL

----------------------------------------------------------------------------
(* Types of the cache and of the suspended calls *)

Stage == {"idle", "read", "fill", "engine", "cache"}

CacheTypes ==
    /\ cached \in [Key -> Value \cup {None}]
    /\ pc   \in [Thread -> Stage]
    /\ call \in [Thread -> Record \cup Get \cup {None}]
    /\ got  \in [Thread -> Value \cup {None}]

\* What a thread is in the middle of.
CallFits ==
    \A t \in Thread :
        /\ pc[t] \in {"read", "fill"} => call[t] \in Get
        /\ pc[t] \in {"engine", "cache"} => call[t] \in Record
        /\ pc[t] = "fill" => got[t] \in Value

\* The engine's lock: one mutation at a time, and it is the one in op.
OneMutation ==
    /\ \A t \in Thread : pc[t] = "engine" => op # None /\ call[t] = op
    /\ \A t, u \in Thread : pc[t] = "engine" /\ pc[u] = "engine" => t = u

\* A new process has an empty cache and no calls.
DeadIsEmpty == ~alive => cached = EmptyMap /\ \A t \in Thread : pc[t] = "idle"

Clean == Key \ (raced \cup gone)

\* A thread that is about to fill in an unraced key holds the engine's value.
FillsAreFresh ==
    \A k \in Clean : \A t \in Thread :
        pc[t] = "fill" /\ call[t].key = k => got[t] = store[k]

\* A thread that is about to cache its mutation of an unraced key brings what the
\* engine holds.
UpdatesAreFresh ==
    \A k \in Clean : \A t \in Thread :
        pc[t] = "cache" /\ Touches(call[t], k) => store[k] = Apply(EmptyMap, call[t])[k]

----------------------------------------------------------------------------
(* The parts of the invariant that are about control *)

ControlInv == TypeOK /\ CacheTypes /\ CallFits /\ OneMutation /\ DeadIsEmpty

\* A cache insertion leaves every other key cached as it was or evicts it.
LEMMA CachePutAt ==
    ASSUME CacheTypes, NEW k \in Key, NEW v \in Value, CachePut(k, v)
    PROVE  /\ cached' \in [Key -> Value \cup {None}]
           /\ cached'[k] \in {None, v}
           /\ \A x \in Key \ {k} : cached'[x] \in {None, cached[x]}
BY DEF CachePut, CacheTypes

\* So does a deletion, and a flush empties the cache.
LEMMA CacheDropAt ==
    ASSUME CacheTypes
    PROVE  /\ \A k \in Key : CacheDelete(k) =>
                /\ cached' \in [Key -> Value \cup {None}]
                /\ cached'[k] = None
                /\ \A x \in Key \ {k} : cached'[x] = cached[x]
           /\ CacheFlush => /\ cached' \in [Key -> Value \cup {None}]
                            /\ \A x \in Key : cached'[x] = None
BY DEF CacheDelete, CacheFlush, CacheTypes, EmptyMap

\* The update of the cache writes for a key it touches what the mutation left, or
\* nothing, and keeps or evicts the others.
LEMMA UpdateAt ==
    ASSUME CacheTypes, CallFits, NEW t \in Thread, UpdateCache(t)
    PROVE  /\ cached' \in [Key -> Value \cup {None}]
           /\ \A k \in Key : Touches(call[t], k)
                => cached'[k] \in {None, Apply(EmptyMap, call[t])[k]}
           /\ \A k \in Key : ~Touches(call[t], k) => cached'[k] \in {None, cached[k]}
<1>1. call[t] \in Record /\ pc[t] = "cache"
    BY DEF UpdateCache, CallFits
<1>2. CASE call[t].op = "PUT" /\ CachePut(call[t].key, call[t].value)
  <2>1. call[t].key \in Key /\ call[t].value \in Value
    BY <1>1, <1>2, RecordKinds
  <2>2. Apply(EmptyMap, call[t])[call[t].key] = call[t].value
    BY <1>2, <2>1 DEF Apply, EmptyMap
  <2> QED
    BY <1>2, <2>1, <2>2, CachePutAt DEF Touches
<1>3. CASE call[t].op = "DELETE" /\ CacheDelete(call[t].key)
  <2>1. call[t].key \in Key
    BY <1>1, <1>3, RecordKinds
  <2> QED
    BY <1>3, <2>1, CacheDropAt DEF Touches
<1>4. CASE call[t].op = "FLUSH" /\ CacheFlush
    BY <1>4, CacheDropAt DEF Touches
<1> QED
    BY <1>2, <1>3, <1>4 DEF UpdateCache

\* The types of the engine's variables.
LEMMA TypeStep ==
    ASSUME TypeOK, [Next]_vars
    PROVE  TypeOK'
<1> USE DEF TypeOK
<1>0. EmptyMap \in Map
    BY DEF EmptyMap, Map
<1>1. ASSUME NEW rec \in Record, Begin(rec) PROVE TypeOK'
    BY <1>1 DEF Begin
<1>2. CASE Logged
    BY <1>2 DEF Logged
<1>3. CASE Finish
    BY <1>3, ApplyTypes DEF Finish
<1>4. CASE Crash
  <2>1. log' \in Seq(Record)
    BY <1>4 DEF Crash
  <2> QED
    BY <1>0, <1>4, <2>1 DEF Crash
<1>5. CASE Restart
    BY <1>5, RecoveredTypes DEF Restart
<1>6. CASE UNCHANGED vars
    BY <1>6 DEF vars
<1> QED
    BY <1>1, <1>2, <1>3, <1>4, <1>5, <1>6 DEF Next

\* Every step keeps the types and who is where.
LEMMA ControlStep ==
    ASSUME ControlInv, CNext
    PROVE  ControlInv'
<1> USE DEF ControlInv
<1>0. TypeOK'
  <2>1. [Next]_vars
    BY CacheStepIsEngineStep
  <2> QED
    BY <2>1, TypeStep
<1>1. ASSUME NEW t \in Thread, NEW k \in Key, GetHit(t, k) PROVE ControlInv'
    BY <1>0, <1>1 DEF GetHit, vars, threadVars, CacheTypes, CallFits, OneMutation, DeadIsEmpty
<1>2. ASSUME NEW t \in Thread, NEW k \in Key, GetMiss(t, k) PROVE ControlInv'
  <2>1. [op |-> "GET", key |-> k] \in Get
    BY DEF Get
  <2>2. CacheTypes'
    BY <1>2, <2>1 DEF GetMiss, cacheVars, CacheTypes, Stage
  <2> QED
    BY <1>0, <1>2, <2>1, <2>2
       DEF GetMiss, vars, cacheVars, CacheTypes, CallFits, OneMutation, DeadIsEmpty
<1>3. ASSUME NEW t \in Thread, EngineGet(t) PROVE ControlInv'
  <2>1. call[t] \in Get /\ call[t].key \in Key
    BY <1>3 DEF EngineGet, CallFits, Get
  <2>2. EngineValue(call[t].key) \in Value \cup {None}
    BY <2>1 DEF EngineValue, TypeOK, Map
  <2>3. CacheTypes'
    BY <1>3, <2>2 DEF EngineGet, cacheVars, CacheTypes, Stage
  <2>4. CallFits'
    BY <1>3, <2>1, <2>2 DEF EngineGet, CacheTypes, CallFits
  <2>5. OneMutation' /\ DeadIsEmpty'
    BY <1>3 DEF EngineGet, vars, cacheVars, CacheTypes, OneMutation, DeadIsEmpty
  <2> QED
    BY <1>0, <2>3, <2>4, <2>5
<1>4. ASSUME NEW t \in Thread, CacheFill(t) PROVE ControlInv'
  <2>1. call[t].key \in Key /\ got[t] \in Value
    BY <1>4 DEF CacheFill, CallFits, Get
  <2>2. cached' \in [Key -> Value \cup {None}]
    BY <1>4, <2>1, CachePutAt DEF CacheFill
  <2>3. CacheTypes' /\ CallFits'
    BY <1>4, <2>2 DEF CacheFill, Idle, CacheTypes, CallFits, Stage
  <2>4. OneMutation' /\ DeadIsEmpty'
    BY <1>4 DEF CacheFill, Idle, vars, CacheTypes, OneMutation, DeadIsEmpty
  <2> QED
    BY <1>0, <2>3, <2>4
<1>5. ASSUME NEW t \in Thread, NEW rec \in Record, Mutate(t, rec) PROVE ControlInv'
  <2>1. /\ op = None /\ op' = rec /\ rec # None /\ alive /\ alive' = alive
        /\ pc' = [pc EXCEPT ![t] = "engine"] /\ call' = [call EXCEPT ![t] = rec]
        /\ cached' = cached /\ got' = got
    BY <1>5, NoneAssumption DEF Mutate, Begin, cacheVars
  <2>2. CacheTypes' /\ CallFits'
    BY <2>1 DEF CacheTypes, CallFits, Stage
  <2>3. OneMutation' /\ DeadIsEmpty'
    BY <2>1 DEF CacheTypes, OneMutation, DeadIsEmpty
  <2> QED
    BY <1>0, <2>2, <2>3
<1>6. CASE AppendRecord
    BY <1>0, <1>6 DEF AppendRecord, Logged, cacheVars, threadVars,
                      CacheTypes, CallFits, OneMutation, DeadIsEmpty
<1>7. ASSUME NEW t \in Thread, EngineDone(t) PROVE ControlInv'
  <2>1. /\ pc[t] = "engine" /\ alive' = alive
        /\ pc' = [pc EXCEPT ![t] = "cache"] /\ cached' = cached
        /\ call' = call /\ got' = got
    BY <1>7 DEF EngineDone, Finish, cacheVars
  <2>2. CacheTypes' /\ CallFits'
    BY <2>1 DEF CacheTypes, CallFits, Stage
  <2>3. OneMutation' /\ DeadIsEmpty'
    BY <2>1 DEF CacheTypes, OneMutation, DeadIsEmpty
  <2> QED
    BY <1>0, <2>2, <2>3
<1>8. ASSUME NEW t \in Thread, UpdateCache(t) PROVE ControlInv'
  <2>1. cached' \in [Key -> Value \cup {None}]
    BY <1>8, UpdateAt
  <2>2. CacheTypes' /\ CallFits'
    BY <1>8, <2>1 DEF UpdateCache, Idle, CacheTypes, CallFits, Stage
  <2>3. OneMutation' /\ DeadIsEmpty'
    BY <1>8 DEF UpdateCache, Idle, vars, CacheTypes, OneMutation, DeadIsEmpty
  <2> QED
    BY <1>0, <2>2, <2>3
<1>9. ASSUME NEW k \in Key, Expire(k) PROVE ControlInv'
    BY <1>0, <1>9 DEF Expire, vars, cacheVars, threadVars,
                      CacheTypes, CallFits, OneMutation, DeadIsEmpty
<1>10. CASE Die
  <2>1. cached' = EmptyMap /\ pc' = [t \in Thread |-> "idle"]
        /\ call' = [t \in Thread |-> None] /\ got' = [t \in Thread |-> None]
    BY <1>10 DEF Die, CacheFlush
  <2> QED
    BY <1>0, <2>1 DEF EmptyMap, CacheTypes, CallFits, OneMutation, DeadIsEmpty, Stage
<1>11. CASE Reboot
    BY <1>0, <1>11 DEF Reboot, Restart, cacheVars, threadVars,
                       CacheTypes, CallFits, OneMutation, DeadIsEmpty
<1> QED
    BY <1>1, <1>2, <1>3, <1>4, <1>5, <1>6, <1>7, <1>8, <1>9, <1>10, <1>11 DEF CNext

----------------------------------------------------------------------------
(* Coherence *)

Fresh == FillsAreFresh /\ UpdatesAreFresh /\ CoherentUnlessRaced

\* The three parts that are about a single key.
FreshAt(k) ==
    /\ \A t \in Thread : pc[t] = "fill" /\ call[t].key = k => got[t] = store[k]
    /\ \A t \in Thread : pc[t] = "cache" /\ Touches(call[t], k)
                            => store[k] = Apply(EmptyMap, call[t])[k]
    /\ (\A t \in Thread : ~(pc[t] = "cache" /\ Touches(call[t], k)))
          => cached[k] \in {None, store[k]}

\* They say of every clean key what the properties say of all.
LEMMA FreshIsPointwise == Fresh <=> \A k \in Clean : FreshAt(k)
BY DEF Fresh, FreshAt, FillsAreFresh, UpdatesAreFresh, CoherentUnlessRaced, Clean,
       EngineValue

\* The end of the engine's part leaves a key that it touches unraced only if no other
\* thread is about to cache it, and then brings its own value.
LEMMA EngineDoneFresh ==
    ASSUME ControlInv, NEW t \in Thread, EngineDone(t), NEW k \in Key, k \in Clean',
           k \in Clean => FreshAt(k)
    PROVE  FreshAt(k)'
<1>0. /\ op \in Record /\ call[t] = op /\ pc[t] = "engine"
      /\ store' = Apply(store, op) /\ store \in Map
      /\ pc' = [pc EXCEPT ![t] = "cache"] /\ call' = call /\ got' = got
      /\ cached' = cached
    BY DEF EngineDone, Finish, ControlInv, OneMutation, TypeOK, cacheVars
<1>1. /\ pc'[t] = "cache"
      /\ \A u \in Thread \ {t} : pc'[u] = pc[u]
    BY <1>0 DEF ControlInv, CacheTypes
<1>2. CASE Touches(op, k)
  <2>1. \A u \in Thread : ~AboutToCache(u, k)
    BY <1>2 DEF EngineDone, Clean
  <2>2. store'[k] = Apply(EmptyMap, op)[k]
    BY <1>0, <1>2, ApplyAt
  <2> QED
    BY <1>0, <1>1, <1>2, <2>1, <2>2 DEF FreshAt, AboutToCache
<1>3. CASE ~Touches(op, k)
  <2>1. k \in Clean
    BY <1>3 DEF EngineDone, Clean
  <2>2. store'[k] = store[k]
    BY <1>0, <1>3, ApplyAt
  <2> QED
    BY <1>0, <1>1, <1>3, <2>1, <2>2 DEF FreshAt
<1> QED
    BY <1>2, <1>3

\* A thread that fills the cache puts the engine's value there.
LEMMA FillFresh ==
    ASSUME ControlInv, NEW t \in Thread, CacheFill(t), NEW k \in Key, FreshAt(k)
    PROVE  FreshAt(k)'
<1>0. /\ call[t].key \in Key /\ got[t] \in Value /\ pc[t] = "fill"
      /\ store' = store
    BY DEF CacheFill, ControlInv, CallFits, Get, vars
<1>1. /\ pc'[t] = "idle"
      /\ \A u \in Thread \ {t} : pc'[u] = pc[u] /\ call'[u] = call[u] /\ got'[u] = got[u]
    BY DEF CacheFill, Idle, ControlInv, CacheTypes
<1>2. cached'[k] \in {None, cached[k]} \/ (call[t].key = k /\ cached'[k] \in {None, store[k]})
    BY <1>0, CachePutAt DEF CacheFill, FreshAt, ControlInv
<1>3. ASSUME \A u \in Thread : ~(pc'[u] = "cache" /\ Touches(call'[u], k))
      PROVE  cached'[k] \in {None, store'[k]}
  <2>1. \A u \in Thread : ~(pc[u] = "cache" /\ Touches(call[u], k))
    BY <1>0, <1>1, <1>3
  <2> QED
    BY <1>0, <1>2, <2>1 DEF FreshAt
<1> QED
    BY <1>0, <1>1, <1>3 DEF FreshAt

\* A thread that updates the cache leaves there what its mutation left in the engine.
LEMMA UpdateFresh ==
    ASSUME ControlInv, NEW t \in Thread, UpdateCache(t), NEW k \in Key, FreshAt(k)
    PROVE  FreshAt(k)'
<1>0. pc[t] = "cache" /\ store' = store
    BY DEF UpdateCache, vars
<1>1. /\ pc'[t] = "idle"
      /\ \A u \in Thread \ {t} : pc'[u] = pc[u] /\ call'[u] = call[u] /\ got'[u] = got[u]
    BY DEF UpdateCache, Idle, ControlInv, CacheTypes
<1>2. IF Touches(call[t], k) THEN cached'[k] \in {None, store[k]}
                             ELSE cached'[k] \in {None, cached[k]}
    BY <1>0, UpdateAt DEF FreshAt, ControlInv
<1>3. ASSUME \A u \in Thread : ~(pc'[u] = "cache" /\ Touches(call'[u], k))
      PROVE  cached'[k] \in {None, store'[k]}
  <2>1. CASE Touches(call[t], k)
    BY <1>0, <1>2, <2>1
  <2>2. CASE ~Touches(call[t], k)
    <3>1. \A u \in Thread : ~(pc[u] = "cache" /\ Touches(call[u], k))
      BY <1>1, <1>3, <2>2
    <3> QED
      BY <1>0, <1>2, <2>2, <3>1 DEF FreshAt
  <2> QED
    BY <2>1, <2>2
<1> QED
    BY <1>0, <1>1, <1>3 DEF FreshAt

\* Every step keeps the clean keys fresh.
LEMMA FreshStep ==
    ASSUME ControlInv, CNext, \A k \in Clean : FreshAt(k)
    PROVE  \A k \in Clean' : FreshAt(k)'
<1> SUFFICES ASSUME NEW k \in Key, k \in Clean' PROVE FreshAt(k)'
    BY DEF Clean
<1> USE DEF ControlInv
<1>1. ASSUME NEW t \in Thread, NEW x \in Key, GetHit(t, x) PROVE FreshAt(k)'
  <2>1. k \in Clean
    BY <1>1 DEF GetHit, Clean
  <2> QED
    BY <1>1, <2>1 DEF GetHit, vars, threadVars, FreshAt
<1>2. ASSUME NEW t \in Thread, NEW x \in Key, GetMiss(t, x) PROVE FreshAt(k)'
  <2>1. k \in Clean
    BY <1>2 DEF GetMiss, Clean
  <2> QED
    BY <1>2, <2>1 DEF GetMiss, vars, cacheVars, CacheTypes, FreshAt
<1>3. ASSUME NEW t \in Thread, EngineGet(t) PROVE FreshAt(k)'
  <2>1. k \in Clean /\ FreshAt(k)
    BY <1>3 DEF EngineGet, Clean
  <2>2. call[t].key = k => EngineValue(call[t].key) = store[k]
    BY <2>1 DEF Clean, EngineValue
  <2>3. /\ pc'[t] \in {"idle", "fill"} /\ (pc'[t] = "fill" => call'[t] = call[t])
        /\ got'[t] = EngineValue(call[t].key)
        /\ \A u \in Thread \ {t} : pc'[u] = pc[u] /\ call'[u] = call[u] /\ got'[u] = got[u]
        /\ store' = store /\ cached' = cached /\ pc[t] = "read"
    BY <1>3 DEF EngineGet, CacheTypes, vars, cacheVars
  <2> QED
    BY <2>1, <2>2, <2>3 DEF FreshAt
<1>4. ASSUME NEW t \in Thread, CacheFill(t) PROVE FreshAt(k)'
  <2>1. k \in Clean
    BY <1>4 DEF CacheFill, Clean
  <2> QED
    BY <1>4, <2>1, FillFresh
<1>5. ASSUME NEW t \in Thread, NEW rec \in Record, Mutate(t, rec) PROVE FreshAt(k)'
  <2>1. k \in Clean /\ FreshAt(k)
    BY <1>5 DEF Mutate, Clean
  <2>2. /\ pc[t] = "idle" /\ pc'[t] = "engine"
        /\ \A u \in Thread \ {t} : pc'[u] = pc[u] /\ call'[u] = call[u]
        /\ got' = got /\ store' = store /\ cached' = cached
    BY <1>5 DEF Mutate, Begin, CacheTypes, cacheVars
  <2> QED
    BY <2>1, <2>2 DEF FreshAt
<1>6. CASE AppendRecord
  <2>1. k \in Clean
    BY <1>6 DEF AppendRecord, Clean
  <2> QED
    BY <1>6, <2>1 DEF AppendRecord, Logged, cacheVars, threadVars, FreshAt
<1>7. ASSUME NEW t \in Thread, EngineDone(t) PROVE FreshAt(k)'
    BY <1>7, EngineDoneFresh
<1>8. ASSUME NEW t \in Thread, UpdateCache(t) PROVE FreshAt(k)'
  <2>1. k \in Clean
    BY <1>8 DEF UpdateCache, Clean
  <2> QED
    BY <1>8, <2>1, UpdateFresh
<1>9. ASSUME NEW x \in Key, Expire(x) PROVE FreshAt(k)'
  <2>1. k \in Clean
    BY <1>9 DEF Expire, Clean
  <2> QED
    BY <1>9, <2>1 DEF Expire, vars, cacheVars, threadVars, FreshAt
<1>10. CASE Die
    BY <1>10 DEF Die, CacheFlush, EmptyMap, FreshAt
<1>11. CASE Reboot
  <2>1. ~alive /\ cached' = EmptyMap /\ \A t \in Thread : pc'[t] = "idle"
    BY <1>11 DEF Reboot, Restart, DeadIsEmpty, cacheVars, threadVars
  <2> QED
    BY <2>1 DEF EmptyMap, FreshAt
<1> QED
    BY <1>1, <1>2, <1>3, <1>4, <1>5, <1>6, <1>7, <1>8, <1>9, <1>10, <1>11 DEF CNext

----------------------------------------------------------------------------
\* The control part of the invariant.
LEMMA ControlHolds == CSpec => []ControlInv
<1>1. CInit => ControlInv
  <2> SUFFICES ASSUME CInit PROVE ControlInv
    OBVIOUS
  <2>1. EmptyMap \in Map /\ <<>> \in Seq(Record)
    BY DEF EmptyMap, Map
  <2>2. store = EmptyMap /\ log = <<>> /\ TypeOK
    BY <2>1 DEF CInit, Init, TypeOK
  <2> QED
    BY <2>2 DEF CInit, Init, EmptyMap, ControlInv, CacheTypes, CallFits, OneMutation,
                DeadIsEmpty, Stage
<1>2. ControlInv /\ [CNext]_cvars => ControlInv'
  <2> SUFFICES ASSUME ControlInv, UNCHANGED cvars PROVE ControlInv'
    BY ControlStep
  <2> QED
    BY DEF cvars, vars, cacheVars, threadVars, ControlInv, TypeOK, CacheTypes, CallFits,
           OneMutation, DeadIsEmpty
<1> QED
    BY <1>1, <1>2, PTL DEF CSpec

\* The cache serves what the engine holds, for any number of threads and any capacity,
\* except for keys that expired or were changed in a race.
THEOREM CoherentUnlessRacedHolds == CSpec => []CoherentUnlessRaced
<1> DEFINE Inv == \A k \in Clean : FreshAt(k)
<1>1. CInit => Inv
    BY DEF CInit, Init, EmptyMap, Clean, FreshAt
<1>2. ControlInv /\ Inv /\ [CNext]_cvars => Inv'
  <2> SUFFICES ASSUME ControlInv, Inv, [CNext]_cvars PROVE Inv'
    OBVIOUS
  <2>1. CASE CNext
    BY <2>1, FreshStep
  <2>2. CASE UNCHANGED cvars
    BY <2>2 DEF cvars, vars, cacheVars, threadVars, Clean, FreshAt
  <2> QED
    BY <2>1, <2>2
<1>3. Inv => CoherentUnlessRaced
    BY FreshIsPointwise DEF Fresh
<1> QED
  <2> HIDE DEF Inv
  <2> QED
    BY <1>1, <1>2, <1>3, ControlHolds, PTL DEF CSpec
=============================================================================
