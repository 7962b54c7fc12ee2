------------------------------ MODULE MCCluster ------------------------------
(* Small instances of ClusterClient for TLC. *)
EXTENDS ClusterClient, MCRaftKV

CONSTANTS n1, n2, n3    \* the nodes

\* n1 leads at first (First); the client asks a follower first, and falls back to one.
NodeOrder == <<n2, n1, n3>>
ToFollower == [k \in Key |-> n3]

\* A write that expires, one with a TTL of 0, and one with none.
Expiring == [op |-> "PUT", key |-> k1, value |-> v1, ttl |-> 5]
TTLZero  == [op |-> "PUT", key |-> k1, value |-> v1, ttl |-> 0]
Deletion == [op |-> "DELETE", key |-> k1, value |-> None, ttl |-> None]
ClusterCommands == {Expiring, TTLZero, Deletion}

\* The client before its next command, after f failed calls; what was refused before
\* there was a leader is excused.
ClientInit(f) ==
    /\ doing = "idle" /\ cmd = None /\ asked = 0 /\ target = None
    /\ failures = f
    /\ leading = {}
    /\ excused = refused

\* First leads the last term, c has been applied by every node and no engine has
\* evicted its key; the writes of R were refused before there was a leader.
AppliedInit(c, R) ==
    LET entry == [term |-> MaxTerm, command |-> c]
    IN  /\ Quiet
        /\ LeaderRole(MaxTerm)
        /\ log = [n \in Node |-> <<entry>>]
        /\ commit_index = [n \in Node |-> 0]
        /\ last_applied = [n \in Node |-> 0]
        /\ leader_id = [n \in Node |-> First]
        /\ submitted = {c}
        /\ committed = {<<0, entry>>}
        /\ pending   = [n \in Node |-> <<>>]
        /\ stored    = [n \in Node |-> [EmptyMap EXCEPT ![c.key] = c.value]]
        /\ expiry    = [n \in Node |-> {c.key}]
        /\ answered  = {c}
        /\ refused   = R
        /\ flushes   = MaxFlushes
        /\ flushed   = [n \in Node |-> -1]

(* One write and a second term; two writes of one key in the last term; a deletion of
   a key that may be evicted; one write and FLUSHes.  Writes that a start leaves out
   were refused before the election, and flushes and failing calls that it leaves out
   have been spent before the first write. *)
ClusterInit ==
    \/ ServersInit(1, {Expiring, Deletion}, MaxFlushes) /\ ClientInit(MaxCallFailures)
    \/ ServersInit(MaxTerm, {Deletion}, MaxFlushes) /\ ClientInit(MaxCallFailures)
    \/ AppliedInit(Expiring, {TTLZero}) /\ ClientInit(MaxCallFailures)
    \/ ServersInit(MaxTerm, {TTLZero, Deletion}, 0) /\ ClientInit(0)

MCClusterSpec == ClusterInit /\ [][CCNext]_ccVars
=============================================================================
