-------------------------------- MODULE Raft --------------------------------
(***************************************************************************)
(* Leader election, replication and commitment as src/raft.py performs     *)
(* them.  This is not textbook Raft: there is no consistency check on      *)
(* AppendEntries, no retry, and nothing of a node's state survives a       *)
(* restart.                                                                *)
(*                                                                         *)
(* A node is one asyncio loop, so a stretch of code between two awaits     *)
(* that really suspend is one action.  Two kinds of task are suspended     *)
(* across steps and are therefore part of the state: an election           *)
(* (_start_election waiting for one vote RPC at a time) and a replication  *)
(* (submit waiting for the gather of its AppendEntries RPCs).  The apply   *)
(* callback never suspends, so _apply_up_to is part of its caller's step.  *)
(***************************************************************************)
EXTENDS Integers, Sequences, FiniteSets

CONSTANTS
    Node,             \* the node ids of the cluster
    Command,          \* the commands clients submit, each at most once
    None,             \* Python's None
    MaxTerm,          \* bound: no election starts a term above it
    MaxRestarts,      \* bound: restarts of a process, over all nodes
    MaxInFlight,      \* bound: concurrent submits on one node
    ElectionsOverlap, \* may a timer fire while an election task is suspended?
    RpcMayFail        \* may an RPC time out or be refused?

ASSUME NodeAssumption  == IsFiniteSet(Node) /\ None \notin Node
ASSUME BoundAssumption == MaxTerm \in Nat /\ MaxRestarts \in Nat /\ MaxInFlight \in Nat
ASSUME ModeAssumption  == ElectionsOverlap \in BOOLEAN /\ RpcMayFail \in BOOLEAN

VARIABLES
    (* RaftNode *)
    current_term, voted_for, log, commit_index, last_applied, state, leader_id,
    (* the asyncio tasks of a node *)
    timer,         \* _election_task is sleeping
    due,           \* its sleep is over: a spawned _start_election has not begun
    booted,        \* run() is past its initial sleep
    elections,     \* the suspended _start_election tasks
    replications,  \* the suspended _replicate_and_commit tasks
    (* the network and the environment *)
    messages,      \* requests sent and not yet handled
    restarts,      \* how many restarts there were
    (* history, read by the properties only *)
    elected,       \* <<n, t>>: n became leader while its term was t
    granted,       \* <<v, t, c>>: v granted its vote of term t to c
    submitted,     \* commands a leader has taken
    committed      \* <<idx, entry>>: a submit returned True for entry at idx

roleVars == <<current_term, voted_for, state, timer, due>>
logVars  == <<log, commit_index, last_applied>>
hist     == <<elected, granted, submitted, committed>>
vars == <<current_term, voted_for, log, commit_index, last_applied, state,
          leader_id, timer, due, booted, elections, replications, messages,
          restarts, elected, granted, submitted, committed>>

Entry == [term: Nat, command: Command]
Index == Nat \cup {-1}     \* Python's log index, -1 before the first entry

Reply == [term: Nat, vote_granted: BOOLEAN]

\* A suspended _start_election: its locals, the peer it awaits, and the reply
\* that has arrived on that connection, if any.
Election == [node: Node, term: Nat, last_idx: Index, last_term: Nat,
             votes: SUBSET Node, todo: SUBSET Node, ask: Node, resp: SUBSET Reply]

\* A suspended _replicate_and_commit: its locals, the peers that have answered
\* with success and those whose RPC has not ended.
Replication == [node: Node, idx: Nat, entry: Entry, term: Nat, leader_commit: Index,
                acks: SUBSET Node, waiting: SUBSET Node]

Message ==
    [type: {"request_vote"}, src: Node, dst: Node, term: Nat,
     last_log_index: Index, last_log_term: Nat]
    \cup
    [type: {"append_entries"}, src: Node, dst: Node, term: Nat,
     entries: Seq(Entry), leader_commit: Index]

----------------------------------------------------------------------------
(* Helpers.  An operator whose name begins with Bad is a plausible slip in the
   one that follows it; no specification uses it.  Substituting it shows that a
   property notices. *)

Larger(a, b) == IF a >= b THEN a ELSE b

Peers(n) == Node \ {n}

BadMajority(n) == (Cardinality(Peers(n)) + 1) \div 2
Majority(n) == (Cardinality(Peers(n)) + 1) \div 2 + 1

BadLastIndex(n) == Len(log[n]) - 2
LastIndex(n) == Len(log[n]) - 1
LastTerm(n)  == IF log[n] = <<>> THEN 0 ELSE log[n][Len(log[n])].term

CandidateLogOk(n, last_idx, last_term) ==
    IF last_term # LastTerm(n) THEN last_term > LastTerm(n)
                               ELSE last_idx >= LastIndex(n)

VoteRequest(e) ==
    [type |-> "request_vote", src |-> e.node, dst |-> e.ask, term |-> e.term,
     last_log_index |-> e.last_idx, last_log_term |-> e.last_term]

AppendRequest(r, p) ==
    [type |-> "append_entries", src |-> r.node, dst |-> p, term |-> r.term,
     entries |-> <<r.entry>>, leader_commit |-> r.leader_commit]

\* The leader announces its whole log as committed.
BadHeartbeat(n, p) ==
    [type |-> "append_entries", src |-> n, dst |-> p, term |-> current_term[n],
     entries |-> <<>>, leader_commit |-> LastIndex(n)]
\* Only requests with entries carry the commit index.
BadHeartbeatSilent(n, p) ==
    [type |-> "append_entries", src |-> n, dst |-> p, term |-> current_term[n],
     entries |-> <<>>, leader_commit |-> -1]
Heartbeat(n, p) ==
    [type |-> "append_entries", src |-> n, dst |-> p, term |-> current_term[n],
     entries |-> <<>>, leader_commit |-> commit_index[n]]

\* The vote condition, once a higher term has been adopted: `held` is
\* voted_for at that point.
BadCanGrant(m, held) ==
    /\ m.term >= current_term[m.dst]
    /\ CandidateLogOk(m.dst, m.last_log_index, m.last_log_term)
CanGrant(m, held) ==
    /\ m.term >= current_term[m.dst]
    /\ held \in {None, m.src}
    /\ CandidateLogOk(m.dst, m.last_log_index, m.last_log_term)

\* The follower's commit index after a request whose entries make its log newlog.
BadNewCommit(n, leader_commit, newlog) ==
    Larger(commit_index[n], leader_commit)
NewCommit(n, leader_commit, newlog) ==
    IF leader_commit > commit_index[n]
    THEN IF leader_commit < Len(newlog) THEN leader_commit ELSE Len(newlog) - 1
    ELSE commit_index[n]

\* A reply reaches the election task that still awaits exactly this request,
\* and nobody otherwise: every RPC has a connection of its own.
Answered(e, m, reply) ==
    IF VoteRequest(e) = m /\ e.resp = {} THEN [e EXCEPT !.resp = {reply}] ELSE e

\* A reply to AppendEntries ends one RPC of the replication that sent it.
BadAcked(r, m, success) ==
    IF m.dst \in r.waiting /\ AppendRequest(r, m.dst) = m
    THEN [r EXCEPT !.waiting = @ \ {m.dst}, !.acks = @ \cup {m.dst}]
    ELSE r
Acked(r, m, success) ==
    IF m.dst \in r.waiting /\ AppendRequest(r, m.dst) = m
    THEN [r EXCEPT !.waiting = @ \ {m.dst},
                   !.acks    = IF success THEN @ \cup {m.dst} ELSE @]
    ELSE r

\* The gather of a replication's RPCs returns when the last of them has ended,
\* not when a majority has answered.
GatherDone(r) == r.waiting = {}

\* _become_follower
BadBecomeFollower(n, term) ==       \* forgets the term
    /\ state'     = [state EXCEPT ![n] = "follower"]
    /\ voted_for' = [voted_for EXCEPT ![n] = None]
    /\ timer'     = [timer EXCEPT ![n] = TRUE]
    /\ UNCHANGED current_term
BadBecomeFollowerState(n, term) ==  \* forgets the state
    /\ current_term' = [current_term EXCEPT ![n] = term]
    /\ voted_for'    = [voted_for EXCEPT ![n] = None]
    /\ timer'        = [timer EXCEPT ![n] = TRUE]
    /\ UNCHANGED state
BecomeFollower(n, term) ==
    /\ state'        = [state EXCEPT ![n] = "follower"]
    /\ current_term' = [current_term EXCEPT ![n] = term]
    /\ voted_for'    = [voted_for EXCEPT ![n] = None]
    /\ timer'        = [timer EXCEPT ![n] = TRUE]

----------------------------------------------------------------------------
Init ==
    /\ current_term = [n \in Node |-> 0]
    /\ voted_for    = [n \in Node |-> None]
    /\ log          = [n \in Node |-> <<>>]
    /\ commit_index = [n \in Node |-> -1]
    /\ last_applied = [n \in Node |-> -1]
    /\ state        = [n \in Node |-> "follower"]
    /\ leader_id    = [n \in Node |-> None]
    /\ timer        = [n \in Node |-> FALSE]
    /\ due          = [n \in Node |-> FALSE]
    /\ booted       = [n \in Node |-> FALSE]
    /\ elections    = {}
    /\ replications = {}
    /\ messages     = {}
    /\ restarts     = 0
    /\ elected      = {}
    /\ granted      = {}
    /\ submitted    = {}
    /\ committed    = {}

\* run() arms the timer once its initial wait is over.  The server has been
\* answering RPCs all along.
Boot(n) ==
    /\ ~booted[n]
    /\ booted' = [booted EXCEPT ![n] = TRUE]
    /\ timer'  = [timer EXCEPT ![n] = TRUE]
    /\ UNCHANGED <<current_term, voted_for, state, due, logVars, leader_id, elections,
                   replications, messages, restarts, hist>>

\* The timer fires: unless the node is leader, an election is spawned as a task of
\* its own, which begins later.  An election whose reply has arrived resumes long
\* before a timer of 2 s or more; one whose RPC is unanswered (1.5 s to connect,
\* 1.5 s to read) may not.
TimerFires(n) ==
    /\ timer[n] /\ ~due[n]
    /\ \/ state[n] = "leader" /\ UNCHANGED due
       \/ /\ state[n] # "leader"
          /\ \A e \in elections : e.node = n => ElectionsOverlap /\ e.resp = {}
          /\ current_term[n] < MaxTerm
          /\ due' = [due EXCEPT ![n] = TRUE]
    /\ timer' = [timer EXCEPT ![n] = FALSE]
    /\ UNCHANGED <<current_term, voted_for, state, logVars, leader_id, booted,
                   elections, replications, messages, restarts, hist>>

\* The spawned election begins, whatever the node has become since, and runs up to
\* its first vote RPC.  Peers are asked one at a time; any order stands for the
\* configured one.
StartElection(n) ==
    /\ due[n]
    /\ current_term[n] < MaxTerm
    /\ due' = [due EXCEPT ![n] = FALSE]
    /\ current_term' = [current_term EXCEPT ![n] = @ + 1]
    /\ state'     = [state EXCEPT ![n] = "candidate"]
    /\ voted_for' = [voted_for EXCEPT ![n] = n]
    /\ leader_id' = [leader_id EXCEPT ![n] = None]
    /\ timer'     = [timer EXCEPT ![n] = FALSE]
    /\ granted'   = granted \cup {<<n, current_term[n] + 1, n>>}
    /\ \E p \in Peers(n) :
         LET e == [node |-> n, term |-> current_term[n] + 1,
                   last_idx |-> LastIndex(n), last_term |-> LastTerm(n),
                   votes |-> {n}, todo |-> Peers(n) \ {p}, ask |-> p, resp |-> {}]
         IN  /\ elections' = elections \cup {e}
             /\ messages'  = messages \cup {VoteRequest(e)}
    /\ UNCHANGED <<logVars, booted, replications, restarts, elected, submitted,
                   committed>>

HandleRequestVote(m) ==
    /\ m \in messages
    /\ m.type = "request_vote"
    /\ LET n     == m.dst
           newer == m.term > current_term[n]
           held  == IF newer THEN None ELSE voted_for[n]
           term  == Larger(m.term, current_term[n])
           grant == CanGrant(m, held)
       IN  /\ current_term' = [current_term EXCEPT ![n] = term]
           /\ state'     = [state EXCEPT ![n] = IF newer THEN "follower" ELSE @]
           /\ voted_for' = [voted_for EXCEPT ![n] = IF grant THEN m.src ELSE held]
           /\ timer'     = [timer EXCEPT ![n] = @ \/ newer \/ grant]
           /\ granted'   = IF grant THEN granted \cup {<<n, m.term, m.src>>} ELSE granted
           /\ elections' = {Answered(e, m, [term |-> term, vote_granted |-> grant]) :
                               e \in elections}
    /\ messages' = messages \ {m}
    /\ UNCHANGED <<due, logVars, leader_id, booted, replications, restarts,
                   elected, submitted, committed>>

----------------------------------------------------------------------------
(* An election task resumes: its RPC has ended with or without a reply *)

\* votes enough and still a candidate: _become_leader in the CURRENT term
WinElection(e, votes) ==
    /\ e.todo = {}
    /\ state[e.node] = "candidate"
    /\ Cardinality(votes) >= Majority(e.node)
    /\ state'     = [state EXCEPT ![e.node] = "leader"]
    /\ leader_id' = [leader_id EXCEPT ![e.node] = e.node]
    /\ timer'     = [timer EXCEPT ![e.node] = FALSE]
    /\ elected'   = elected \cup {<<e.node, current_term[e.node]>>}
    /\ elections' = elections \ {e}
    /\ UNCHANGED <<current_term, voted_for, messages>>

\* Not enough votes: try again after another timeout (the bad one never does).
BadLoseElection(e, votes) ==
    /\ e.todo = {}
    /\ state[e.node] = "candidate"
    /\ Cardinality(votes) < Majority(e.node)
    /\ elections' = elections \ {e}
    /\ UNCHANGED <<current_term, voted_for, state, leader_id, timer, elected, messages>>
LoseElection(e, votes) ==
    /\ e.todo = {}
    /\ state[e.node] = "candidate"
    /\ Cardinality(votes) < Majority(e.node)
    /\ timer'     = [timer EXCEPT ![e.node] = TRUE]
    /\ elections' = elections \ {e}
    /\ UNCHANGED <<current_term, voted_for, state, leader_id, elected, messages>>

\* Some handler made the node a follower, or another election made it leader.
AbandonElection(e) ==
    /\ state[e.node] # "candidate"
    /\ elections' = elections \ {e}
    /\ UNCHANGED <<current_term, voted_for, state, leader_id, timer, elected, messages>>

BadAskNextPeer(e, votes) ==          \* the peer asked stays on the list
    /\ state[e.node] = "candidate"
    /\ \E p \in e.todo :
         LET next == [e EXCEPT !.votes = votes, !.ask = p, !.resp = {}]
         IN  /\ elections' = (elections \ {e}) \cup {next}
             /\ messages'  = messages \cup {VoteRequest(next)}
    /\ UNCHANGED <<current_term, voted_for, state, leader_id, timer, elected>>
AskNextPeer(e, votes) ==
    /\ state[e.node] = "candidate"
    /\ \E p \in e.todo :
         LET next == [e EXCEPT !.votes = votes, !.todo = @ \ {p}, !.ask = p, !.resp = {}]
         IN  /\ elections' = (elections \ {e}) \cup {next}
             /\ messages'  = messages \cup {VoteRequest(next)}
    /\ UNCHANGED <<current_term, voted_for, state, leader_id, timer, elected>>

Continue(e, votes) ==
    \/ WinElection(e, votes)
    \/ LoseElection(e, votes)
    \/ AbandonElection(e)
    \/ AskNextPeer(e, votes)

StepDown(e, term) ==
    /\ BecomeFollower(e.node, term)
    /\ elections' = elections \ {e}
    /\ UNCHANGED <<leader_id, elected, messages>>

BadReceiveVote(e) ==                 \* the reply is compared with the election's term
    /\ e \in elections
    /\ \E r \in e.resp :
         \/ r.term > e.term /\ StepDown(e, r.term)
         \/ /\ r.term <= e.term
            /\ Continue(e, IF r.vote_granted THEN e.votes \cup {e.ask} ELSE e.votes)
    /\ UNCHANGED <<due, logVars, booted, replications, restarts, granted, submitted,
                   committed>>
ReceiveVote(e) ==
    /\ e \in elections
    /\ \E r \in e.resp :
         \/ r.term > current_term[e.node] /\ StepDown(e, r.term)
         \/ /\ r.term <= current_term[e.node]
            /\ Continue(e, IF r.vote_granted THEN e.votes \cup {e.ask} ELSE e.votes)
    /\ UNCHANGED <<due, logVars, booted, replications, restarts, granted, submitted,
                   committed>>

\* The request stays in flight: it may be handled late, or never.
VoteRpcFails(e) ==
    /\ RpcMayFail
    /\ e \in elections
    /\ Continue(e, e.votes)
    /\ UNCHANGED <<due, logVars, booted, replications, restarts, granted, submitted,
                   committed>>

----------------------------------------------------------------------------
(* Replication *)

\* One round of _heartbeat_loop.  Its replies are gathered and not looked at.
SendHeartbeats(n) ==
    /\ state[n] = "leader"
    /\ messages' = messages \cup {Heartbeat(n, p) : p \in Peers(n)}
    /\ UNCHANGED <<roleVars, logVars, leader_id, booted, elections, replications,
                   restarts, hist>>

Submit(n, c) ==
    /\ state[n] = "leader"
    /\ c \notin submitted
    /\ Cardinality({r \in replications : r.node = n}) < MaxInFlight
    /\ LET entry == [term |-> current_term[n], command |-> c]
           r == [node |-> n, idx |-> Len(log[n]), entry |-> entry,
                 term |-> current_term[n], leader_commit |-> commit_index[n],
                 acks |-> {n}, waiting |-> Peers(n)]
       IN  /\ log' = [log EXCEPT ![n] = Append(@, entry)]
           /\ replications' = replications \cup {r}
           /\ messages' = messages \cup {AppendRequest(r, p) : p \in Peers(n)}
    /\ submitted' = submitted \cup {c}
    /\ UNCHANGED <<roleVars, commit_index, last_applied, leader_id, booted, elections,
                   restarts, elected, granted, committed>>

RejectEntries(m) ==
    /\ m.term < current_term[m.dst]
    /\ replications' = {Acked(r, m, FALSE) : r \in replications}
    /\ UNCHANGED <<roleVars, logVars, leader_id>>

\* Entries are appended wherever the log ends; nothing before them is compared.
BadAcceptEntries(m) ==              \* a leader it knows of is kept
    /\ m.term >= current_term[m.dst]
    /\ LET n      == m.dst
           newlog == log[n] \o m.entries
           commit == NewCommit(n, m.leader_commit, newlog)
       IN  /\ \/ /\ m.term > current_term[n] \/ state[n] = "candidate"
                 /\ BecomeFollower(n, m.term)
              \/ /\ m.term = current_term[n] /\ state[n] # "candidate"
                 /\ timer' = [timer EXCEPT ![n] = TRUE]
                 /\ UNCHANGED <<current_term, voted_for, state>>
           /\ leader_id' = [leader_id EXCEPT ![n] = IF @ = None THEN m.src ELSE @]
           /\ log' = [log EXCEPT ![n] = newlog]
           /\ commit_index' = [commit_index EXCEPT ![n] = commit]
           /\ last_applied' = [last_applied EXCEPT ![n] = Larger(@, commit)]
    /\ replications' = {Acked(r, m, TRUE) : r \in replications}
    /\ UNCHANGED due
AcceptEntries(m) ==
    /\ m.term >= current_term[m.dst]
    /\ LET n      == m.dst
           newlog == log[n] \o m.entries
           commit == NewCommit(n, m.leader_commit, newlog)
       IN  /\ \/ /\ m.term > current_term[n] \/ state[n] = "candidate"
                 /\ BecomeFollower(n, m.term)
              \/ /\ m.term = current_term[n] /\ state[n] # "candidate"
                 /\ timer' = [timer EXCEPT ![n] = TRUE]
                 /\ UNCHANGED <<current_term, voted_for, state>>
           /\ leader_id' = [leader_id EXCEPT ![n] = m.src]
           /\ log' = [log EXCEPT ![n] = newlog]
           /\ commit_index' = [commit_index EXCEPT ![n] = commit]
           /\ last_applied' = [last_applied EXCEPT ![n] = Larger(@, commit)]
    /\ replications' = {Acked(r, m, TRUE) : r \in replications}
    /\ UNCHANGED due

HandleAppendEntries(m) ==
    /\ m \in messages
    /\ m.type = "append_entries"
    /\ RejectEntries(m) \/ AcceptEntries(m)
    /\ messages' = messages \ {m}
    /\ UNCHANGED <<booted, elections, restarts, hist>>

ReplicateRpcFails(r, p) ==
    /\ RpcMayFail
    /\ r \in replications
    /\ p \in r.waiting
    /\ replications' = (replications \ {r}) \cup {[r EXCEPT !.waiting = @ \ {p}]}
    /\ UNCHANGED <<roleVars, logVars, leader_id, booted, elections, messages,
                   restarts, hist>>

\* Acknowledged by a majority: committed, and applied up to there.
BadCommitEntryUnapplied(r) ==        \* the entry waits to be applied
    /\ Cardinality(r.acks) >= Majority(r.node)
    /\ replications' = replications \ {r}
    /\ commit_index' = [commit_index EXCEPT ![r.node] = r.idx]
    /\ committed' = committed \cup {<<r.idx, r.entry>>}
    /\ UNCHANGED <<last_applied, messages>>
BadCommitEntry(r) ==                 \* what was applied follows commit_index back
    /\ Cardinality(r.acks) >= Majority(r.node)
    /\ replications' = replications \ {r}
    /\ commit_index' = [commit_index EXCEPT ![r.node] = r.idx]
    /\ last_applied' = [last_applied EXCEPT ![r.node] = r.idx]
    /\ committed' = committed \cup {<<r.idx, r.entry>>}
    /\ UNCHANGED messages
CommitEntry(r) ==
    /\ Cardinality(r.acks) >= Majority(r.node)
    /\ replications' = replications \ {r}
    /\ commit_index' = [commit_index EXCEPT ![r.node] = r.idx]
    /\ last_applied' = [last_applied EXCEPT ![r.node] = Larger(@, r.idx)]
    /\ committed' = committed \cup {<<r.idx, r.entry>>}
    /\ UNCHANGED messages

\* Not enough acknowledgements: submit returns False, and the entry stays in the log.
BadDropEntry(r) ==                   \* the leader sends the entry again
    /\ Cardinality(r.acks) < Majority(r.node)
    /\ LET again == [r EXCEPT !.acks = {r.node}, !.waiting = Peers(r.node)]
       IN  /\ replications' = (replications \ {r}) \cup {again}
           /\ messages' = messages \cup {AppendRequest(again, p) : p \in Peers(r.node)}
    /\ UNCHANGED <<commit_index, last_applied, committed>>
DropEntry(r) ==
    /\ Cardinality(r.acks) < Majority(r.node)
    /\ replications' = replications \ {r}
    /\ UNCHANGED <<commit_index, last_applied, committed, messages>>

\* The gather returns; neither the state nor the term is looked at again.
FinishReplication(r) ==
    /\ r \in replications
    /\ GatherDone(r)
    /\ CommitEntry(r) \/ DropEntry(r)
    /\ UNCHANGED <<roleVars, log, leader_id, booted, elections, restarts, elected,
                   granted, submitted>>

----------------------------------------------------------------------------
\* The process dies and is started again: a new RaftNode and no task.  Requests
\* it had sent may still be handled, the replies have nobody to go to.
Restart(n) ==
    /\ restarts < MaxRestarts
    /\ restarts' = restarts + 1
    /\ current_term' = [current_term EXCEPT ![n] = 0]
    /\ voted_for'    = [voted_for EXCEPT ![n] = None]
    /\ log'          = [log EXCEPT ![n] = <<>>]
    /\ commit_index' = [commit_index EXCEPT ![n] = -1]
    /\ last_applied' = [last_applied EXCEPT ![n] = -1]
    /\ state'        = [state EXCEPT ![n] = "follower"]
    /\ leader_id'    = [leader_id EXCEPT ![n] = None]
    /\ timer'        = [timer EXCEPT ![n] = FALSE]
    /\ due'          = [due EXCEPT ![n] = FALSE]
    /\ booted'       = [booted EXCEPT ![n] = FALSE]
    /\ elections'    = {e \in elections : e.node # n}
    /\ replications' = {r \in replications : r.node # n}
    /\ UNCHANGED <<messages, hist>>

Next ==
    \/ \E n \in Node :
         \/ Boot(n)
         \/ TimerFires(n)
         \/ StartElection(n)
         \/ SendHeartbeats(n)
         \/ \E c \in Command : Submit(n, c)
         \/ Restart(n)
    \/ \E m \in messages : HandleRequestVote(m) \/ HandleAppendEntries(m)
    \/ \E e \in elections : ReceiveVote(e) \/ VoteRpcFails(e)
    \/ \E r \in replications :
         \/ \E p \in Peers(r.node) : ReplicateRpcFails(r, p)
         \/ FinishReplication(r)

Spec == Init /\ [][Next]_vars

\* Some task still waits for the answer to m.
Awaited(m) ==
    \/ \E e \in elections : VoteRequest(e) = m /\ e.resp = {}
    \/ \E r \in replications : m.dst \in r.waiting /\ AppendRequest(r, m.dst) = m

\* The tasks that wait for an answer go on and the event loops handle what arrives.
\* An RPC somebody waits for is handled or, when RPCs may fail, ends; a request that
\* nobody waits for any more may be lost.  Heartbeats are repeated, and of those repeated for
\* ever from one node to another some arrive.  Nothing forces a timer to fire, an
\* election to begin, a client to submit or a process to restart.
Fairness ==
    \A n \in Node :
        /\ WF_vars(SendHeartbeats(n))
        /\ WF_vars(\E e \in elections : e.node = n /\ ReceiveVote(e))
        /\ WF_vars(\E e \in elections : e.node = n /\ VoteRpcFails(e))
        /\ WF_vars(\E m \in messages : /\ m.dst = n /\ Awaited(m)
                                       /\ HandleRequestVote(m) \/ HandleAppendEntries(m))
        /\ WF_vars(\E r \in replications : r.node = n /\ FinishReplication(r))
        /\ WF_vars(\E r \in replications, p \in Node :
                      r.node = n /\ ReplicateRpcFails(r, p))
        /\ \A p \in Peers(n) :
             WF_vars(\E m \in messages : /\ m.src = p /\ m.dst = n
                                         /\ m.type = "append_entries" /\ m.entries = <<>>
                                         /\ HandleAppendEntries(m))

LiveSpec == Spec /\ Fairness

----------------------------------------------------------------------------
(* Safety *)

\* Every variable has the type the code gives it, tasks and messages included.
TypeOK ==
    /\ current_term \in [Node -> Nat]
    /\ voted_for    \in [Node -> Node \cup {None}]
    /\ log          \in [Node -> Seq(Entry)]
    /\ commit_index \in [Node -> Index]
    /\ last_applied \in [Node -> Index]
    /\ state        \in [Node -> {"follower", "candidate", "leader"}]
    /\ leader_id    \in [Node -> Node \cup {None}]
    /\ timer        \in [Node -> BOOLEAN]
    /\ due          \in [Node -> BOOLEAN]
    /\ booted       \in [Node -> BOOLEAN]
    /\ elections    \subseteq Election
    /\ replications \subseteq Replication
    /\ messages     \subseteq Message
    /\ restarts     \in Nat
    /\ elected      \subseteq Node \X Nat
    /\ granted      \subseteq Node \X Nat \X Node
    /\ submitted    \subseteq Command
    /\ committed    \subseteq Nat \X Entry

\* _apply_up_to reads self.log[last_applied]: nothing committed is unapplied and
\* nothing is applied past the end of the log, whatever leader_commit a (stale,
\* reordered) request carries and however concurrent submits finish.  The log of
\* a suspended submit still reaches its entry.
IndexBounds ==
    /\ \A n \in Node :
         /\ commit_index[n] <= last_applied[n]
         /\ last_applied[n] < Len(log[n])
    /\ \A r \in replications : r.idx < Len(log[r.node])

\* A quorum by its own definition, not by the code's arithmetic.
IsQuorum(S) == 2 * Cardinality(S) > Cardinality(Node)

\* At most one node becomes leader in a term (raft.py _become_leader against
\* the votes of handle_request_vote).
ElectionSafety ==
    \A a, b \in elected : a[2] = b[2] => a[1] = b[1]

\* A node becomes leader of a term only with that term's votes of a majority,
\* its own included: votes of an earlier election are not counted.
LeaderHasMajority ==
    \A x \in elected : IsQuorum({v \in Node : <<v, x[2], x[1]>> \in granted})

\* An entry whose submit returned True is in the logs of a majority: neither a
\* rejected nor a repeated AppendEntries counts as an acknowledgement.
CommittedOnMajority ==
    \A x \in committed :
        IsQuorum({n \in Node : \E i \in 1..Len(log[n]) : log[n][i] = x[2]})

\* A node that is up and not leader has a pending timer, an election about to begin
\* or one that runs: no path through the handlers leaves it waiting for nothing.
NotStuck ==
    \A n \in Node : booted[n] /\ state[n] # "leader" =>
        timer[n] \/ due[n] \/ \E e \in elections : e.node = n

\* The leader a node reports to clients (status) did win an election, in a term
\* the node has reached.
LeaderIdWasElected ==
    \A n \in Node : leader_id[n] # None =>
        \E x \in elected : x[1] = leader_id[n] /\ x[2] <= current_term[n]

\* The applied part of n's log, in the order the callback saw it.
Applied(n) == SubSeq(log[n], 1, last_applied[n] + 1)

\* Two nodes never apply different commands at the same index (README.md, "Same
\* safety guarantees as Paxos").  The code does not keep it.
StateMachineSafety ==
    \A a, b \in Node : \A i \in 1..Len(Applied(a)) :
        i <= Len(Applied(b)) => Applied(a)[i] = Applied(b)[i]

\* A leader's log holds every entry committed in an earlier term, at its index.
\* The code does not keep this either.
LeaderCompleteness ==
    \A n \in Node : state[n] = "leader" =>
        \A x \in committed : x[2].term < current_term[n] =>
            x[1] < Len(log[n]) /\ log[n][x[1] + 1] = x[2]

\* Some submit has returned True for an entry at index i or beyond.
Reached(i) == i = -1 \/ \E x \in committed : x[1] >= i

\* No node applies beyond the furthest index a submit has committed: an entry whose
\* submit failed, or has not ended, is applied only below one that succeeded,
\* whatever commit index a late or stale request announces.
AppliedReachedCommit == \A n \in Node : Reached(last_applied[n])

\* No log holds a command twice: whether an RPC times out before or after its
\* handler ran, and although the leader cannot tell the two apart, a command is
\* appended at most once.
TakenOnce ==
    \A n \in Node : \A i, j \in 1..Len(log[n]) :
        log[n][i].command = log[n][j].command => i = j

----------------------------------------------------------------------------
(* Why there is one leader per term, when no election outlives the timer and no
   process restarts.  A node's own vote may be withdrawn (a candidate that meets
   the leader of its term resets voted_for), so "one vote per node and term" is
   not an invariant; votes for others are what the argument counts. *)

ForeignGrants == {g \in granted : g[3] # g[1]}

\* One election task per node, in the node's term while it is a candidate, and
\* none about to begin beside it.
OneElection ==
    /\ \A e, f \in elections : e.node = f.node => e = f
    /\ \A e \in elections : ~due[e.node]
    /\ \A e \in elections :
         state[e.node] = "candidate" => e.term = current_term[e.node]

\* What a task counts, or will read from its connection, was granted to it.
VotesWereGranted ==
    \A e \in elections :
        /\ \A v \in e.votes : <<v, e.term, e.node>> \in granted
        /\ \A r \in e.resp : r.vote_granted => <<e.ask, e.term, e.node>> \in granted

\* Grants are of the voter's term or an earlier one; a vote for another in the
\* present term is still recorded, and it has made the voter a follower.
GrantsHold ==
    /\ \A g \in granted : g[2] <= current_term[g[1]]
    /\ \A g \in ForeignGrants :
         g[2] = current_term[g[1]]
            => voted_for[g[1]] = g[3] /\ state[g[1]] = "follower"
    /\ \A g, h \in ForeignGrants : g[1] = h[1] /\ g[2] = h[2] => g[3] = h[3]

\* Candidates and leaders have their own vote.
SelfVote == \A n \in Node : state[n] # "follower" => voted_for[n] = n

\* A node elected in its present term is still leader, and in the term it was
\* elected in it has voted for nobody else.
ElectedHold ==
    \A x \in elected :
        /\ x[2] <= current_term[x[1]]
        /\ x[2] = current_term[x[1]] => state[x[1]] = "leader"
        /\ \A g \in ForeignGrants : ~(g[1] = x[1] /\ g[2] = x[2])

ElectionInv ==
    /\ OneElection
    /\ VotesWereGranted
    /\ GrantsHold
    /\ SelfVote
    /\ ElectedHold
    /\ LeaderHasMajority

----------------------------------------------------------------------------
(* What a step may never do *)

\* Unless its process is restarted, a node's term never goes back, whichever stale
\* reply or request it handles and however its elections overlap.
TermMonotone ==
    [][restarts' = restarts =>
        \A n \in Node : current_term'[n] >= current_term[n]]_vars

\* Unless its process is restarted, a node does not take back a vote it gave to
\* another node, nor give it again, in the same term.
VoteStable ==
    [][restarts' = restarts =>
        \A n \in Node :
            current_term'[n] = current_term[n] /\ voted_for[n] \notin {None, n}
                => voted_for'[n] = voted_for[n]]_vars

\* Unless its process is restarted, what a node has applied stays as it is and only
\* grows: no command is applied twice, although commit_index goes back when of two
\* submits the earlier one finishes last.
AppliedOnce ==
    [][restarts' = restarts =>
        \A n \in Node :
            /\ last_applied[n] <= last_applied'[n]
            /\ SubSeq(log'[n], 1, last_applied[n] + 1) = Applied(n)]_vars

----------------------------------------------------------------------------
(* Progress *)

Leads(m, n) == state[m] = "leader" /\ current_term[m] > current_term[n]

\* An election task ends: it wins, loses, steps down or is abandoned.
ElectionEnds ==
    \A n \in Node :
        (\E e \in elections : e.node = n) ~> (\A e \in elections : e.node # n)

\* A leader that a higher term has passed by does not stay leader while that
\* term's leader does, although it ignores the terms in its replies.
StaleLeaderDeposed ==
    \A m, n \in Node :
        (state[n] = "leader" /\ Leads(m, n)) ~> (state[n] # "leader" \/ state[m] # "leader")

\* A node comes to report a leader that stays one, whatever leader it named before,
\* unless it has moved on to a later term.
LeaderIsLearned ==
    \A l, n \in Node :
        state[l] = "leader" ~> \/ leader_id[n] = l
                              \/ state[l] # "leader"
                              \/ current_term[n] > current_term[l]
=============================================================================
