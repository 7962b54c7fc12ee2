------------------------------ MODULE KVEngine ------------------------------
(***************************************************************************)
(* The storage engine of src/engine.py over its write-ahead log.           *)
(*                                                                         *)
(* Every public method and the cleanup thread hold one lock from beginning *)
(* to end, so they are serialised; what can happen inside a mutation is a  *)
(* failing write, the passing of time and a crash, and a mutation is       *)
(* therefore several actions.  get and exists change the state only by     *)
(* evicting an expired key; what they return is Get(k).                    *)
(***************************************************************************)
EXTENDS WAL

CONSTANTS
    MaxOps,      \* bound: mutations begun
    MaxTime,     \* bound: ticks of the clock
    MaxCrashes,  \* bound: crashes
    IoMayFail    \* may a write to the log raise?

ASSUME EngineAssumption ==
    MaxOps \in Nat /\ MaxTime \in Nat /\ MaxCrashes \in Nat /\ IoMayFail \in BOOLEAN

VARIABLES
    store, expiry,   \* the two dicts; None stands for an absent key
    op,              \* the mutation that holds the lock, or None
    logged,          \* its record was flushed and fsynced
    alive,           \* the process runs
    now, issued, crashes,
    (* history, read by the properties only *)
    acked,           \* the content clients were told of, TTLs aside
    ackedLog,        \* the mutations that returned, and what a restart recovered
    deadline         \* when the last put of a key said it expires, or None

memVars  == <<store, expiry>>
opVars   == <<op, logged>>
envVars  == <<alive, now, issued, crashes>>
ackVars  == <<acked, ackedLog, deadline>>
vars     == <<segments, current, opened, buffer, safe, store, expiry, op, logged,
              alive, now, issued, crashes, acked, ackedLog, deadline>>

NoExpiry == [k \in Key |-> None]

----------------------------------------------------------------------------
\* _is_expired
BadIsExpired(k) == FALSE
IsExpired(k) == expiry[k] # None /\ now > expiry[k]

\* what get returns
Get(k) == IF IsExpired(k) THEN None ELSE store[k]

\* what keys returns
Keys == {k \in Key : store[k] # None /\ (expiry[k] = None \/ expiry[k] > now)}

\* _delete_internal, for each key of S.  The bad one leaves the value.
BadDrop(S) ==
    /\ expiry' = [k \in Key |-> IF k \in S THEN None ELSE expiry[k]]
    /\ UNCHANGED store
Drop(S) ==
    /\ store'  = [k \in Key |-> IF k \in S THEN None ELSE store[k]]
    /\ expiry' = [k \in Key |-> IF k \in S THEN None ELSE expiry[k]]

\* The TTL a put leaves behind.  The bad one does not clear the previous one.
BadNewExpiry(rec) == IF rec.ttl = None THEN expiry[rec.key] ELSE now + rec.ttl
NewExpiry(rec)    == IF rec.ttl = None THEN None ELSE now + rec.ttl

\* The update of the dicts, once append has returned.
Update(rec) ==
    CASE rec.op = "PUT" ->
            /\ store'  = [store EXCEPT ![rec.key] = rec.value]
            /\ expiry' = [expiry EXCEPT ![rec.key] = NewExpiry(rec)]
      [] rec.op = "DELETE" -> Drop({rec.key})
      [] rec.op = "FLUSH"  -> Drop(Key)

----------------------------------------------------------------------------
Init ==
    /\ WALInit
    /\ store = EmptyMap
    /\ expiry = NoExpiry
    /\ op = None
    /\ logged = FALSE
    /\ alive = TRUE
    /\ now = 0
    /\ issued = 0
    /\ crashes = 0
    /\ acked = EmptyMap
    /\ ackedLog = <<>>
    /\ deadline = NoExpiry

\* put, delete and flush up to the write; delete of an absent key returns first.
Begin(rec) ==
    /\ alive
    /\ op = None
    /\ issued < MaxOps
    /\ rec.op = "DELETE" => store[rec.key] # None
    /\ Write(rec)
    /\ op' = rec
    /\ issued' = issued + 1
    /\ UNCHANGED <<logged, memVars, alive, now, crashes, ackVars>>

Logged ==
    /\ op # None /\ ~logged
    /\ Sync
    /\ logged' = TRUE
    /\ UNCHANGED <<op, memVars, envVars, ackVars>>

\* append raises: the caller sees an error and the memory is as before.
LogFails ==
    /\ IoMayFail
    /\ op # None /\ ~logged
    /\ SyncError
    /\ op' = None
    /\ UNCHANGED <<logged, memVars, envVars, ackVars>>

RotateLog ==
    /\ op # None /\ logged
    /\ Full
    /\ Rotate
    /\ UNCHANGED <<opVars, memVars, envVars, ackVars>>

\* The record is in the log, yet append raises, and so does every later one.
RotateFails ==
    /\ IoMayFail
    /\ op # None /\ logged
    /\ Full
    /\ RotateError
    /\ op' = None
    /\ logged' = FALSE
    /\ UNCHANGED <<memVars, envVars, ackVars>>

Finish ==
    /\ op # None /\ logged
    /\ ~Full
    /\ Update(op)
    /\ op' = None
    /\ logged' = FALSE
    /\ acked' = Apply(acked, op)
    /\ ackedLog' = Append(ackedLog, op)
    /\ deadline' = CASE op.op = "PUT" ->
                          [deadline EXCEPT ![op.key] =
                              IF op.ttl = None THEN None ELSE now + op.ttl]
                     [] op.op = "DELETE" -> [deadline EXCEPT ![op.key] = None]
                     [] op.op = "FLUSH" -> NoExpiry
    /\ UNCHANGED <<walVars, envVars>>

\* get or exists meets an expired key
EvictOnRead(k) ==
    /\ alive
    /\ op = None
    /\ IsExpired(k)
    /\ Drop({k})
    /\ UNCHANGED <<walVars, opVars, envVars, ackVars>>

\* One sweep of the cleanup thread that finds something.
Cleanup ==
    LET expired == {k \in Key : expiry[k] # None /\ expiry[k] <= now}
    IN  /\ alive
        /\ op = None
        /\ expired # {}
        /\ Drop(expired)
        /\ UNCHANGED <<walVars, opVars, envVars, ackVars>>

Tick ==
    /\ now < MaxTime
    /\ now' = now + 1
    /\ UNCHANGED <<walVars, memVars, opVars, alive, issued, crashes, ackVars>>

Crash ==
    /\ alive
    /\ crashes < MaxCrashes
    /\ Cut
    /\ alive' = FALSE
    /\ crashes' = crashes + 1
    /\ store' = EmptyMap
    /\ expiry' = NoExpiry
    /\ op' = None
    /\ logged' = FALSE
    /\ UNCHANGED <<now, issued, ackVars>>

\* A new process opens the log and replays it.  What it recovers is what clients
\* see from here on; that it holds what they were told before is AckedSurvive.
Restart ==
    LET log == Replayed(segments)
    IN  /\ ~alive
        /\ Reopen
        /\ alive' = TRUE
        /\ store' = Recovered(log)
        /\ expiry' = NoExpiry
        /\ acked' = Recovered(log)
        /\ ackedLog' = log
        /\ deadline' = IF log = ackedLog THEN deadline ELSE NoExpiry
        /\ UNCHANGED <<opVars, now, issued, crashes>>

Next ==
    \/ \E rec \in Record : Begin(rec)
    \/ Logged \/ LogFails \/ RotateLog \/ RotateFails \/ Finish
    \/ \E k \in Key : EvictOnRead(k)
    \/ Cleanup \/ Tick \/ Crash \/ Restart

Spec == Init /\ [][Next]_vars

\* A mutation that holds the lock goes on, and the cleanup thread wakes up every
\* five seconds.  Nothing forces clients, the clock or a restart.
Fairness ==
    /\ WF_vars(Logged \/ LogFails)
    /\ WF_vars(RotateLog \/ RotateFails)
    /\ WF_vars(Finish)
    /\ WF_vars(Cleanup)

LiveSpec == Spec /\ Fairness

----------------------------------------------------------------------------
(* Properties *)

\* The log, the dicts and the mutation in progress have the types of the code.
TypeOK ==
    /\ WALTypeOK
    /\ store \in Map
    /\ expiry \in [Key -> Nat \cup {None}]
    /\ op \in Record \cup {None}
    /\ logged \in BOOLEAN
    /\ alive \in BOOLEAN
    /\ now \in Nat /\ issued \in Nat /\ crashes \in Nat
    /\ acked \in Map
    /\ ackedLog \in Seq(Record)
    /\ deadline \in [Key -> Nat \cup {None}]

\* s can be read off t from left to right: at increasing positions.
IsSubsequence(s, t) ==
    \E at \in [1..Len(s) -> 1..Len(t)] :
        /\ \A i, j \in 1..Len(s) : i < j => at[i] < at[j]
        /\ \A i \in 1..Len(s) : t[at[i]] = s[i]

\* Every mutation that returned to its caller is in what a restart at this moment
\* would replay, in the order of the returns (wal.py: append fsyncs before
\* returning, replay reads the segments in order).
AckedSurvive == IsSubsequence(ackedLog, Replayed(segments))

Idle == alive /\ op = None

\* As long as no write to the log fails, what a restart at this moment would recover is
\* what clients were told of: nothing that a mutation returned for is lost (README.md,
\* "Guarantees no data loss on crash").
AckedIsRecovered == Idle => Recovered(Replayed(segments)) = acked

\* A key whose TTL has not run out reads, and is listed, as the last acknowledged
\* mutation left it, across overwrites, evictions, failed writes and restarts.
ReadsAreLastAck ==
    Idle => \A k \in Key :
        deadline[k] = None \/ now < deadline[k] =>
            Get(k) = acked[k] /\ (k \in Keys <=> acked[k] # None)

\* A key whose TTL has run out is neither readable nor listed until it is written
\* again (wal.py _apply: "skip setting expiry so key won't resurrect").
ExpiredStaysGone ==
    Idle => \A k \in Key :
        deadline[k] # None /\ now > deadline[k] => Get(k) = None /\ k \notin Keys

\* The same as long as the engine is not restarted.
ExpiredUntilRestart == crashes = 0 => ExpiredStaysGone

\* The files hold the log of LoggedMap: every step on segments, buffers and names
\* is a step of it or leaves the records a restart would replay as they are.
L == INSTANCE LoggedMap WITH log <- Replayed(segments)
ImplementsLoggedMap == L!Spec

\* The memory of an expired key is reclaimed even if nobody reads it (engine.py:
\* "so memory doesn't grow unboundedly with expired keys").
ExpiredIsEvicted ==
    \A k \in Key :
        (store[k] # None /\ deadline[k] # None /\ now >= deadline[k] /\ crashes = 0)
            ~> (store[k] = None \/ deadline[k] = None \/ now < deadline[k])
=============================================================================
