----------------------------- MODULE DurableMap -----------------------------
(***************************************************************************)
(* What the storage engine promises its callers (engine.py put, delete and *)
(* flush; README.md ADR-2): a map that a crash does not change, except     *)
(* that the operation in progress may or may not have taken effect.        *)
(***************************************************************************)
CONSTANTS Key, Value, TTL, None

VARIABLES
    map,    \* the content
    up,     \* the process runs
    req,    \* the operation in progress, or None
    taken   \* it has taken effect

vars == <<map, up, req, taken>>

Request == [op: {"PUT"}, key: Key, value: Value, ttl: TTL \cup {None}]
           \cup [op: {"DELETE"}, key: Key] \cup [op: {"FLUSH"}]

Effect(m, r) ==
    IF r.op = "PUT" THEN [m EXCEPT ![r.key] = r.value]
    ELSE IF r.op = "DELETE" THEN [m EXCEPT ![r.key] = None]
    ELSE [k \in Key |-> None]

Init ==
    /\ map = [k \in Key |-> None]
    /\ up = TRUE
    /\ req = None
    /\ taken = FALSE

Begin(r) ==
    /\ up /\ req = None
    /\ req' = r
    /\ UNCHANGED <<map, up, taken>>

Take ==
    /\ req # None /\ ~taken
    /\ map' = Effect(map, req)
    /\ taken' = TRUE
    /\ UNCHANGED <<up, req>>

Return ==
    /\ req # None /\ taken
    /\ req' = None
    /\ taken' = FALSE
    /\ UNCHANGED <<map, up>>

Crash ==
    /\ up
    /\ \/ map' = map
       \/ req # None /\ ~taken /\ map' = Effect(map, req)
    /\ up' = FALSE
    /\ req' = None
    /\ taken' = FALSE

Recover ==
    /\ ~up
    /\ up' = TRUE
    /\ UNCHANGED <<map, req, taken>>

Next == (\E r \in Request : Begin(r)) \/ Take \/ Return \/ Crash \/ Recover

Spec == Init /\ [][Next]_vars
=============================================================================
