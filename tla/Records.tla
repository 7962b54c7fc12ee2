------------------------------ MODULE Records ------------------------------
(* The records of the write-ahead log (src/wal.py _encode) and what replaying
   them leaves in the store of a new engine (replay, _apply). *)
EXTENDS Integers, Sequences

CONSTANTS
    Key, Value,   \* what clients store
    TTL,          \* the relative expiry times clients use
    None          \* Python's None; in a map, an absent key

ASSUME KeyAssumption == None \notin Key \cup Value \cup TTL /\ TTL \subseteq Nat

Record == [op: {"PUT"}, key: Key, value: Value, ttl: TTL \cup {None}]
          \cup [op: {"DELETE"}, key: Key] \cup [op: {"FLUSH"}]

ASSUME NoneAssumption == None \notin Record

Map == [Key -> Value \cup {None}]
EmptyMap == [k \in Key |-> None]

\* _apply: one record.  The TTL of a PUT is not looked at.
Apply(map, rec) ==
    IF rec.op = "PUT" THEN [map EXCEPT ![rec.key] = rec.value]
    ELSE IF rec.op = "DELETE" THEN [map EXCEPT ![rec.key] = None]
    ELSE EmptyMap

Touches(rec, k) == rec.op = "FLUSH" \/ rec.key = k

\* The records of log that concern k.
Hits(log, k) == {i \in 1..Len(log) : Touches(log[i], k)}

\* replay applies the records from the first to the last, so that for every key
\* the last one that concerns it counts.
Recovered(log) ==
    [k \in Key |->
        IF Hits(log, k) = {} THEN None
        ELSE LET last == CHOOSE i \in Hits(log, k) : \A j \in Hits(log, k) : j <= i
             IN  Apply(EmptyMap, log[last])[k]]
=============================================================================
