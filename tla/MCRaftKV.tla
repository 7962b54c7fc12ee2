------------------------------ MODULE MCRaftKV ------------------------------
(* Small instances of RaftKV for TLC. *)
EXTENDS RaftKV, MCRaft

CONSTANTS k1, v1    \* a key and a value

\* One command, a write that expires.
Commands == {[op |-> "PUT", key |-> k1, value |-> v1, ttl |-> 5]}

\* First leads term t; the writes of R were refused before there was a leader, and the
\* f FLUSHes so far met empty engines.
ServersInit(t, R, f) ==
    /\ LeaderInit(t)
    /\ pending  = [n \in Node |-> <<>>]
    /\ stored   = [n \in Node |-> EmptyMap]
    /\ expiry   = [n \in Node |-> {}]
    /\ answered = {}
    /\ refused  = R
    /\ flushes  = f
    /\ flushed  = [n \in Node |-> -1]

(* Either a second term can follow, and there is nothing to write; or First leads in
   the last term, and the write is to come. *)
ProgressInit == ServersInit(1, Command, 0) \/ ServersInit(MaxTerm, {}, 0)

ProgressSpec == ProgressInit /\ [][KVNext]_kvVars /\ KVFairness
=============================================================================
