----------------------------- MODULE LoggedMap -----------------------------
(***************************************************************************)
(* The engine and its log without files, faults and expiry: a store in     *)
(* memory, and the sequence of records a restart would replay.  KVEngine   *)
(* implements it, and it implements DurableMap.                            *)
(***************************************************************************)
EXTENDS Records

CONSTANT MaxOps   \* bound: records in the log

ASSUME OpsAssumption == MaxOps \in Nat

VARIABLES
    store,    \* KVEngine._store
    log,      \* what replay would read
    op,       \* the mutation that holds the lock, or None
    logged,   \* its record is in the log
    alive     \* the process runs

vars == <<store, log, op, logged, alive>>

Init ==
    /\ store = EmptyMap
    /\ log = <<>>
    /\ op = None
    /\ logged = FALSE
    /\ alive = TRUE

\* put, delete or flush takes the lock; delete of an absent key returns first.
Begin(rec) ==
    /\ alive
    /\ op = None
    /\ Len(log) < MaxOps
    /\ rec.op = "DELETE" => store[rec.key] # None
    /\ op' = rec
    /\ UNCHANGED <<store, log, logged, alive>>

\* WAL.append returns.
Logged ==
    /\ op # None /\ ~logged
    /\ log' = Append(log, op)
    /\ logged' = TRUE
    /\ UNCHANGED <<store, op, alive>>

\* The update of the dict.
BadFinish ==                        \* flush only marks the log
    /\ op # None /\ logged
    /\ store' = IF op.op = "FLUSH" THEN store ELSE Apply(store, op)
    /\ op' = None
    /\ logged' = FALSE
    /\ UNCHANGED <<log, alive>>
Finish ==
    /\ op # None /\ logged
    /\ store' = Apply(store, op)
    /\ op' = None
    /\ logged' = FALSE
    /\ UNCHANGED <<log, alive>>

\* A mutation whose record is not fsynced may have written it all the same.
BadCrash ==                         \* nothing of the log is on disk
    /\ alive
    /\ alive' = FALSE
    /\ store' = EmptyMap
    /\ log' = <<>>
    /\ op' = None
    /\ logged' = FALSE
Crash ==
    /\ alive
    /\ alive' = FALSE
    /\ store' = EmptyMap
    /\ \/ log' = log
       \/ op # None /\ ~logged /\ log' = Append(log, op)
    /\ op' = None
    /\ logged' = FALSE

Restart ==
    /\ ~alive
    /\ alive' = TRUE
    /\ store' = Recovered(log)
    /\ UNCHANGED <<log, op, logged>>

Next == (\E rec \in Record : Begin(rec)) \/ Logged \/ Finish \/ Crash \/ Restart

Spec == Init /\ [][Next]_vars

----------------------------------------------------------------------------
\* The types of the code's variables.
TypeOK ==
    /\ store \in Map
    /\ log \in Seq(Record)
    /\ op \in Record \cup {None}
    /\ logged \in BOOLEAN
    /\ alive \in BOOLEAN

\* The memory is what replaying the log would give: always between two mutations,
\* and without the last record while a mutation has logged but not yet stored.
MemoryIsLog ==
    /\ ~alive => op = None
    /\ op = None => ~logged
    /\ alive /\ ~logged => store = Recovered(log)
    /\ alive /\ logged  => Apply(store, op) = Recovered(log)

\* Between mutations the memory is the content; while one is in progress and after
\* a crash the log is.
Content == IF alive /\ op = None THEN store ELSE Recovered(log)

D == INSTANCE DurableMap WITH map <- Content, up <- alive, req <- op, taken <- logged

\* The engine is a durable map: no mutation that returned is lost or undone by a
\* crash, and one in progress takes effect at most once and as a whole.
ImplementsDurableMap == D!Spec
=============================================================================
