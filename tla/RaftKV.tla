------------------------------- MODULE RaftKV -------------------------------
(***************************************************************************)
(* The key-value servers of src/raft_node.py on top of Raft: the client    *)
(* commands they take, the submits they schedule, and the engines that the *)
(* apply callback changes.                                                 *)
(*                                                                         *)
(* A write is answered when its submit has been scheduled, not when it has *)
(* run; reads and FLUSH look at and change the engine of one node only.    *)
(* Of the engine there is what it holds in memory; its own log and what a  *)
(* restart makes of it are KVEngine's.  Restarts are those of Raft and of  *)
(* KVEngine, each alone; none happens here.                                *)
(***************************************************************************)
EXTENDS Raft

CONSTANTS
    Key, Value,   \* Command is a set of [op, key, value, ttl]
    MaxFlushes    \* bound: FLUSH commands, over all nodes

ASSUME FlushAssumption == MaxFlushes \in Nat

VARIABLES
    pending,    \* the scheduled submits of a node that have not begun
    stored,     \* its engine: the value of every key, None if it is not there
    expiry,     \* its engine: the keys that have a deadline
    answered,   \* history: writes answered with +OK or :1
    refused,    \* history: writes answered with -ERR not leader
    flushes,    \* how many FLUSH commands there were
    flushed     \* history: last_applied of a node at its last FLUSH

engineVars == <<stored, expiry>>
serverVars == <<pending, answered, refused>>
flushVars  == <<flushes, flushed>>
kvVars == <<vars, engineVars, serverVars, flushVars>>

EmptyMap == [k \in Key |-> None]

\* The TTL that reaches the engine: _cmd_put leaves a TTL of 0 out of the command it
\* submits.
Deadline(c) == IF c.op = "PUT" /\ c.ttl # 0 THEN c.ttl ELSE None

----------------------------------------------------------------------------
(* The apply callback *)

\* The entries _apply_up_to passes to the callback in this step that concern k.
BadNewlyApplied(n, k) ==         \* the first one is skipped
    {i \in (last_applied[n] + 3)..(last_applied'[n] + 1) : log'[n][i].command.key = k}
NewlyApplied(n, k) ==
    {i \in (last_applied[n] + 2)..(last_applied'[n] + 1) : log'[n][i].command.key = k}

Latest(S) == CHOOSE i \in S : \A j \in S : j <= i

\* What the command leaves at its key: a DELETE of a key that is not there, because
\* it never was or has been evicted, returns before it changes anything.
Outcome(c) == IF c.op = "PUT" THEN c.value ELSE None

\* The callback puts and deletes in order.  put sets the value and sets or clears the
\* deadline, delete drops both, so of the entries of a key the last one counts.
BadApplyNew ==                   \* a put without TTL leaves an earlier deadline
    LET hit(n)     == {k \in Key : NewlyApplied(n, k) # {}}
        last(n, k) == log'[n][Latest(NewlyApplied(n, k))].command
        live(n)    == {k \in hit(n) : Deadline(last(n, k)) # None}
        dead(n)    == {k \in hit(n) : Outcome(last(n, k)) = None}
    IN  /\ stored' = [n \in Node |-> [k \in Key |->
                        IF k \in hit(n) THEN Outcome(last(n, k)) ELSE stored[n][k]]]
        /\ expiry' = [n \in Node |-> (expiry[n] \ dead(n)) \cup live(n)]
ApplyNew ==
    LET hit(n)     == {k \in Key : NewlyApplied(n, k) # {}}
        last(n, k) == log'[n][Latest(NewlyApplied(n, k))].command
        live(n)    == {k \in hit(n) : Deadline(last(n, k)) # None}
    IN  /\ stored' = [n \in Node |-> [k \in Key |->
                        IF k \in hit(n) THEN Outcome(last(n, k)) ELSE stored[n][k]]]
        /\ expiry' = [n \in Node |-> (expiry[n] \ hit(n)) \cup live(n)]

----------------------------------------------------------------------------
KVInit ==
    /\ pending = [n \in Node |-> <<>>]
    /\ stored  = [n \in Node |-> EmptyMap]
    /\ expiry  = [n \in Node |-> {}]
    /\ answered = {}
    /\ refused  = {}
    /\ flushes  = 0
    /\ flushed  = [n \in Node |-> -1]

\* PUT or DELETE at n.  Only the leader takes it; the answer does not wait.
Write(n, c) ==
    /\ c \notin answered \cup refused
    /\ Len(pending[n]) + Cardinality({r \in replications : r.node = n}) < MaxInFlight
    /\ \/ /\ state[n] = "leader"
          /\ pending'  = [pending EXCEPT ![n] = Append(@, c)]
          /\ answered' = answered \cup {c}
          /\ UNCHANGED refused
       \/ /\ state[n] # "leader"
          /\ refused' = refused \cup {c}
          /\ UNCHANGED <<pending, answered>>
    /\ UNCHANGED <<vars, engineVars, flushVars>>

\* The scheduled submit begins.  If the node is no longer leader it returns False,
\* and nobody looks at the result.
BadRunSubmit(n) ==               \* the task is lost
    /\ pending[n] # <<>>
    /\ pending' = [pending EXCEPT ![n] = Tail(@)]
    /\ UNCHANGED <<vars, engineVars, answered, refused, flushVars>>
RunSubmit(n) ==
    /\ pending[n] # <<>>
    /\ Submit(n, Head(pending[n])) \/ (state[n] # "leader" /\ UNCHANGED vars)
    /\ pending' = [pending EXCEPT ![n] = Tail(@)]
    /\ UNCHANGED <<engineVars, answered, refused, flushVars>>

\* FLUSH clears the engine of the node that was asked and is not replicated.
Flush(n) ==
    /\ flushes < MaxFlushes
    /\ flushes' = flushes + 1
    /\ flushed' = [flushed EXCEPT ![n] = last_applied[n]]
    /\ stored' = [stored EXCEPT ![n] = EmptyMap]
    /\ expiry' = [expiry EXCEPT ![n] = {}]
    /\ UNCHANGED <<vars, pending, answered, refused>>

\* Each engine has a clock and a cleanup thread of its own: a key whose deadline has
\* passed is deleted from both dicts, by the thread or by a read.
Expire(n, k) ==
    /\ k \in expiry[n]
    /\ stored' = [stored EXCEPT ![n][k] = None]
    /\ expiry' = [expiry EXCEPT ![n] = @ \ {k}]
    /\ UNCHANGED <<vars, serverVars, flushVars>>

\* The other steps of Raft.  What they apply reaches the engine in the same step.
RaftStep ==
    /\ Next
    /\ UNCHANGED <<submitted, restarts>>
    /\ ApplyNew
    /\ UNCHANGED <<serverVars, flushVars>>

ServerStep ==
    \/ RaftStep
    \/ \E n \in Node : RunSubmit(n) \/ (\E k \in Key : Expire(n, k))

\* Any client may send any write to any node.
KVNext ==
    \/ ServerStep
    \/ \E n \in Node, c \in Command : Write(n, c)

\* And FLUSH.
KVFlushNext == KVNext \/ \E n \in Node : Flush(n)

\* What is scheduled runs: the tasks of Raft and the submits.
KVFairness == Fairness /\ \A n \in Node : WF_kvVars(RunSubmit(n))

\* The servers from their start.
ServersSpec == Init /\ KVInit /\ [][KVFlushNext]_kvVars

----------------------------------------------------------------------------
\* The entries of k that n has applied since its last FLUSH.
AppliedTo(n, k) ==
    {i \in (flushed[n] + 2)..(last_applied[n] + 1) : log[n][i].command.key = k}

\* A client that gives a positive TTL, and only that one, asks for the key to expire.
ToExpire(c) == c.op = "PUT" /\ c.ttl \notin {None, 0}

\* Since the last FLUSH an engine holds for every key what the last applied entry of
\* the key put there, and the key has a deadline just if that entry asked for one;
\* a key that is missing all the same was evicted at the deadline of that entry:
\* whichever handler applied it, however many entries it applied at once, and
\* whatever deadline an earlier entry had set (raft.py _apply_up_to with raft_node.py
\* _cmd_put and make_apply_callback, engine.py put and delete).
EngineFollowsLog ==
    \A n \in Node, k \in Key :
        LET S    == AppliedTo(n, k)
            last == log[n][Latest(S)].command
        IN  IF S = {}
            THEN stored[n][k] = None /\ k \notin expiry[n]
            ELSE \/ stored[n][k] = Outcome(last) /\ (k \in expiry[n] <=> ToExpire(last))
                 \/ stored[n][k] = None /\ k \notin expiry[n] /\ ToExpire(last)

\* A write that was answered is waiting to be submitted or has been taken into a log,
\* unless some node that had been elected has moved on to a later term: the client's
\* OK is given before the submit begins, and nobody looks at its result
\* (raft_node.py _cmd_put, _cmd_delete).
AnsweredIsTaken ==
    \A c \in answered \ submitted :
        \/ \E n \in Node : \E i \in DOMAIN pending[n] : pending[n][i] = c
        \/ \E x \in elected : current_term[x[1]] > x[2]

Holds(n, c) == \E i \in 1..Len(log[n]) : log[n][i].command = c
Waiting(c) == {r \in replications : r.entry.command = c}

\* The submit of c returned False, or an RPC that carried c failed and did not arrive.
\* Neither is tried again.
GivenUp(c) ==
    /\ c \in submitted
    /\ \/ Waiting(c) = {} /\ \A x \in committed : x[2].command # c
       \/ \E p \in Node : ~Holds(p, c) /\ \A r \in Waiting(c) : p \notin r.waiting

\* A write that was answered before its submit began is in the end applied by every
\* node, unless an RPC that carried it failed or an election has begun in a later term
\* than some leader's (raft_node.py _cmd_put, _cmd_delete).
AnsweredIsApplied ==
    \A c \in Command :
        (c \in answered)
            ~> \/ \A n \in Node : \E i \in 1..Len(Applied(n)) : log[n][i].command = c
               \/ GivenUp(c)
               \/ \E n \in Node, x \in elected : current_term[n] > x[2]
=============================================================================
