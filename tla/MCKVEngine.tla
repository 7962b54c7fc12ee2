----------------------------- MODULE MCKVEngine -----------------------------
(* Small instances of KVEngine and its log for TLC. *)
EXTENDS KVEngine, TLC

\* Keys and values are interchangeable.
Symmetry == Permutations(Key) \cup Permutations(Value)

----------------------------------------------------------------------------
(* An engine that has filled all but the last of the segments whose numbers have
   NameDigits digits, with one put in each: the start for a look at the order of
   segment names, which no configuration file listed here takes. *)
NamesInit ==
    LET put == [op |-> "PUT", key |-> CHOOSE k \in Key : TRUE,
                value |-> CHOOSE v \in Value : TRUE, ttl |-> None]
        n == 10^NameDigits - 1
    IN  /\ segments = [i \in 1..(n + 1) |-> IF i <= n THEN Line(put) ELSE <<>>]
        /\ current = n + 1
        /\ opened = TRUE
        /\ buffer = <<>>
        /\ safe = 0
        /\ store = Apply(EmptyMap, put)
        /\ expiry = NoExpiry
        /\ op = None
        /\ logged = FALSE
        /\ alive = TRUE
        /\ now = 0
        /\ issued = n
        /\ crashes = 0
        /\ acked = Apply(EmptyMap, put)
        /\ ackedLog = [i \in 1..n |-> put]
        /\ deadline = NoExpiry

NamesSpec == NamesInit /\ [][Next]_vars
=============================================================================
