# bolt-kv in TLA+

bolt-kv is a key-value store in Python: an in-memory engine with TTLs over a
write-ahead log, an LRU cache, TCP and HTTP servers, a consistent hash ring and
a replicated variant whose nodes run a Raft-like protocol on asyncio. This
directory models it in TLA+, checks the models with TLC and proves the results
that matter for every size of the system with TLAPS. The code in `src/` is the
reference; where a comment or a document disagrees with it, the model follows
the code and a run shows the disagreement.

    tlc -config RaftElection.cfg MCRaft.tla      # one run
    tlapm RaftProofs.tla                         # one module of proofs

## 1. Inventory

| Component | State | Operations | Correct when |
|---|---|---|---|
| `RaftNode` (raft.py) | term, vote, log, commit and applied index, role, leader id; a timer task, election tasks, replication tasks | timer, vote request and reply, heartbeat, append entries, submit, gather, apply | one leader per term, what is applied was committed up to there and is applied once, indices inside the log, nobody stuck |
| Raft server (raft_node.py) | a `RaftNode`, an engine with its log, scheduled submits | start, commands, RPC dispatch, apply callback | an engine is what its node applied; an answered write is taken, and applied everywhere unless something fails |
| `KVEngine` (engine.py) | `_store`, `_expiry` under one lock; a cleanup thread | get, put, delete, exists, keys, flush, sweep | every key reads as the last mutation left it until its deadline and never after it |
| `WAL` (wal.py) | segment files, the open file and its buffer | append, rotate, replay, open | what was acknowledged is replayed, in order, after any crash |
| `CachedKVEngine`, `LRUCache` (lru_cache.py) | an `OrderedDict` of bounded size, an engine | get, put, delete, flush | a cached value is the engine's value |
| `HashRing` (ring.py) | positions to nodes, sorted positions, nodes | add, remove, lookup | the owner of a key is its successor on the ring; a membership change moves only the keys it must |
| Cluster client (cluster_client.py) | the command in progress, a ring | find leader, route, broadcast | a write reaches the leader |
| TCP server (server.py, node.py) | engine, one buffer per connection | framing, dispatch | every line is executed once, whole, in order, and what a client is shown was executed since it asked, on what the commands of all clients before it left |
| CLI client (client.py) | a socket | request, response, timeout | an answer belongs to its command |
| HTTP server (http_server.py) | engine | GET, PUT, DELETE, start | a failed request changes nothing |
| tests, benchmarks, deployment | - | - | - |

**How they interact.** A server owns one engine, which owns one log; a mutation
goes client → server → (cache →) engine → log → memory. In the replicated variant
a mutation goes cluster client → the server it takes for the leader → a scheduled
`submit` → `AppendEntries` RPCs → the apply callback of every node → its engine →
its log, and a read goes to the server the ring names. RPCs run on a TCP connection
each, so two of them may be handled in any order. Elections and submits are detached
asyncio tasks over shared attributes, so everything read before an `await` may be
stale after it.

**Where it is hard.** The result of an election is judged after awaits during
which the node may have changed term; the timer does not wait for the election it
started; nothing of Raft's state is persisted; entries are appended in order of
arrival; a submit keeps its index across a gather, and is answered before it begins;
a crash or an I/O error in the middle of an append; a rotation between the log and
memory; relative TTLs in a log; three different comparisons with the deadline; cache
fills that race mutations; positions of the ring that collide; lines cut by the
network; responses that arrive after their timeout. `PROJECT.json` lists each one at
its line, with the properties that cover it.

## 2. Modules

    Raft ─────────── MCRaft, RaftProofs              the consensus protocol
      └── RaftKV ─── MCRaftKV                        the servers on top of it
            └── ClusterClient ─── MCCluster          the client in front of them
                  └── ClusterProofs                  theorems of servers and client
    HashRing ─────── MCHashRing, HashRingProofs      the ring (ClusterClient's Route)
    Records ── WAL ── KVEngine ── MCKVEngine         the engine over segment files
      │                  └─ KVEngineProofs           its theorems
      └─────── LoggedMap ── LoggedMapProofs          the engine over an abstract log
                 ├── refines DurableMap              what the engine promises
                 └── CachedEngine ── MCCachedEngine, CachedEngineProofs
                                                     threads and the LRU cache
    Session ──────── MCSession, SessionProofs        TCP clients and server
    Positions                                        a lemma on finite sets of numbers

`A ── B` means that B extends A. The MC modules only give constants values and name
initial states. An operator whose name begins with `Bad` is a plausible slip in the
operator that follows it and belongs to no specification: put in its place it makes a
property fail, which shows that the property notices.

The order in which the modules were written, by importance: `Raft`; the engine and
its log (`Records`, `WAL`, `KVEngine`, `LoggedMap`, `DurableMap`); the servers and
the cluster client on top of Raft; the ring; the cache; the sessions. What
is left of the plan is in section 9.

## 3. Raft

### State and actions

The variables named as in `RaftNode` are its attributes, one value per node. Two
kinds of coroutine are suspended across other code and are part of the state: an
*election* (`_start_election` awaiting one vote RPC, with its locals, the peer it
asked and the reply that has arrived) and a *replication* (`submit` awaiting its
`gather`, with `idx`, the peers that acknowledged and those still awaited).
`timer` says that `_election_task` sleeps, `due` that its sleep is over and the
election it has spawned (`ensure_future`) has not begun, `booted` that `run` has armed
the timer; `messages` holds requests that were sent and not handled. `elected`,
`granted`, `submitted` and `committed` are history, read by properties only, except
that `submitted` makes a command unique.

| Code | Action |
|---|---|
| raft_node.py `run` after its sleep | `Boot` |
| `_election_timeout` | `TimerFires`: nothing on a leader, otherwise an election is spawned |
| `_start_election` to its first await | `StartElection`, whatever the node has become since |
| `handle_request_vote` and the reply | `HandleRequestVote` |
| `_start_election` after an await | `ReceiveVote`, `VoteRpcFails`: `StepDown`, or `Continue` = `WinElection`, `LoseElection`, `AbandonElection`, `AskNextPeer` |
| `_heartbeat_loop`, one round | `SendHeartbeats` |
| `submit` to the gather | `Submit` |
| `handle_append_entries` and the reply | `HandleAppendEntries` = `RejectEntries` or `AcceptEntries` |
| an `AppendEntries` RPC that fails | `ReplicateRpcFails` |
| the gather returns | `FinishReplication` = `CommitEntry` or `DropEntry` |
| the process is restarted | `Restart` |

A stretch of code between two awaits that suspend is one action: a node is one
event loop. The apply callback never suspends, so `_apply_up_to` belongs to its
caller's step. Peers are asked in any order, which covers every configuration.
`next_index` and `match_index` are written and never read, and left out; so is
the reply to a heartbeat, which the code drops.

Two constants select how much of the environment is considered.
`ElectionsOverlap = FALSE` is the assumption that an election ends before its
node's timer fires again: at most 3 s per unanswered RPC against a timer of 2 s or
more, so it holds when peers answer or refuse quickly and not when they hang.
`RpcMayFail = FALSE` means that an awaited RPC is answered, however late.

### Runs

Bounds: `MaxTerm` terms, `MaxRestarts` restarts, `MaxInFlight` concurrent submits
per node, a finite set of commands each submitted once. Three nodes are the
smallest cluster with a majority that is not everybody; two terms are the
smallest number in which an election races a leader. A run that begins with
`BootedInit` starts once all timers are armed, one that begins with `LeaderInit(t)`
starts after node `First` won term t with every vote; all are reachable states.
Interchangeable nodes are symmetric in the safety runs. Deadlock is not checked: at
the bounds on terms and commands the model stops.

| Run | Instance | Shows |
|---|---|---|
| RaftElection | 3 nodes whose timers are armed, 2 terms, RPCs fail | `ElectionSafety`, `LeaderHasMajority`, the inductive `ElectionInv`, `NotStuck`, `LeaderIdWasElected`, `VoteStable` |
| RaftOverlap | 2 nodes, 3 terms, overlapping elections, 1 restart, 1 command | `NotStuck`, `IndexBounds`, `TermMonotone` although two tasks share a node and its log may vanish |
| RaftReorder | a leader with 2 submits in flight, no RPC fails | that `StateMachineSafety` does not hold |

Replication is checked under the servers: runs RaftProgress and Cluster of section 4.

The repository's `README.md` says "Same safety guarantees as Paxos". RaftReorder is the
shortest answer, without a failure: the requests of two concurrent submits reach two
followers in different orders, both submits get their majority, and the state machines
differ. The other limits of the protocol are a change of a configuration away; none is
a slip of the model, each is what the code does:

| Change | Counterexample |
|---|---|
| RaftElection with `ElectionsOverlap = TRUE`, `MaxTerm = 3`, only `ElectionSafety` | An election suspended past its node's next timeout resumes while the node is candidate of a later term and makes it leader of that term with the earlier term's votes. |
| RaftElection with `MaxRestarts = 1`, `MaxTerm = 1`, only `ElectionSafety` | A voter restarts without `voted_for` and votes again in the same term. |
| RaftReorder with `MaxInFlight = 1`, `RpcMayFail = TRUE` | One submit after the other is enough if a follower misses an entry and acknowledges the next one at its index. |
| the same with `MaxTerm = 2`, only `LeaderCompleteness` | That follower wins the next term and leads without the committed entry. |
| the same with `MaxTerm = 2`, `MaxRestarts = 1`, only `CommittedOnMajority` | A node that acknowledged restarts with an empty log. |

What does hold of replication, whatever is lost, late or in flight together, is weaker
and is what the other properties say: an entry whose submit succeeded is in the logs of
a majority, at some index (`CommittedOnMajority`); nothing is applied beyond the
furthest index a submit has committed (`AppliedReachedCommit`), so an entry whose submit
failed is applied only below one that succeeded; no log holds a command twice
(`TakenOnce`); what was applied stays (`AppliedOnce`), although `commit_index` goes back
when of two submits the earlier one finishes last.

**Fairness.** Each awaited task of the event loop runs; a request that is
awaited is handled or fails (its timeout); heartbeats are repeated every
interval, and of those sent for ever from one node to another some arrive. Each is
stated per node, since a node is one event loop. No timer, election, client or restart
is forced, and a vote request that nobody awaits may be lost.

### Proofs (RaftProofs)

| Theorem | For every cluster, bound and mode, assuming |
|---|---|
| `TypeCorrect`: `[]TypeOK` | nothing |
| `IndexBoundsHold`, `NotStuckHolds`, `LeaderIdWasElectedHolds`, `TermMonotoneHolds`, `VoteStableHolds`, `AppliedReachedCommitHolds`, `AppliedOnceHolds`, `TakenOnceHolds` | nothing: overlapping elections, failed RPCs, concurrent submits and restarts included |
| `CommittedOnMajorityHolds` | `MaxRestarts = 0` |
| `ElectionInvariant`, `ElectionSafetyHolds`, `LeaderHasMajorityHolds` | `~ElectionsOverlap`, `MaxRestarts = 0` |

The table of changes above drops each assumption. (The action properties among the
first except the steps of a restart by their statement.)

*Election safety* is not inductive. The usual argument, one vote per node and term,
is not even true here: a candidate that meets the leader of its own term goes
through `_become_follower`, which resets `voted_for`, and may then vote for
another in the term in which it voted for itself. `ElectionInv` therefore counts
*foreign* grants, votes for another node: per voter and term there is at most one
(`GrantsHold`), a node that was elected gave none in its term (`ElectedHold`), and
candidates and leaders still hold their own vote (`SelfVote`). What an election
task counts was granted in its term (`VotesWereGranted`), and the task's term is
its node's as long as the node is a candidate (`OneElection`, the conjunct that
needs `~ElectionsOverlap`). Two leaders of one term would have majorities that
share a voter; the lemmas on cardinalities give the voter, and the conjuncts
above exclude each way its vote can have been given. The proof of each invariant
has one step per action.

*The leader a node names*: `LeaderTrail` adds that every request to append entries was
sent by an elected node in its term. *The committed entry on a majority*: logs only
grow (`LogSteps`), and a node that acknowledged an entry has it (`AcksHold`); that
it may have it at another index than the leader is why no more than this holds.

*Nobody is stuck*: `NotStuckInv` separates the roles: a follower has a timer or an
election about to begin, and only a candidate may have nothing but an election that runs,
which an abandoned election would otherwise take away. *Applied up to a commit*:
`IndexesReached` says that every commit index, applied index, `leader_commit` of a
suspended submit and `leader_commit` of a request on its way lies at or below the index
of some successful submit, which is why a late heartbeat can do no harm. *A command in a log
once*: `OnceInv` says that a command in a log or a request was submitted and that no
request which is still on its way to a node carries a command the node's log has; a
request is sent once, so a follower that has handled it does not meet it again.

## 4. Servers and cluster client

### State and actions

`RaftKV` adds to Raft what raft_node.py adds to raft.py: the submits a node has
scheduled and not begun (`pending`), and what its engine holds in memory: a map
(`stored`) and the keys that have a deadline (`expiry`). The engine's own log is
`KVEngine`'s subject. `flushed` is history: how far a node had applied when it was last
flushed. A command is a record of operation, key, value and TTL. The apply callback is
not an action: every step of Raft that moves `last_applied` changes the engine in the
same step (`ApplyNew`). A DELETE of a key that the engine has evicted logs nothing and
finds nothing to change (engine.py:64); in memory the key is gone either way.

| Code | Definition |
|---|---|
| `_cmd_put`, `_cmd_delete` | `Write`: refused by a node that is not leader, answered before the submit has begun by the leader |
| the scheduled task | `RunSubmit`: `Submit`, or nothing if the node is no longer leader |
| `make_apply_callback`, `_apply_up_to` | `ApplyNew`: the entries newly applied in order, with the dropped TTL of 0 in `Deadline` |
| `_cmd_flush` | `Flush`: the engine of one node |
| the engine's cleanup or a lazy eviction | `Expire`: both dicts lose the key |

GET, EXISTS, KEYS, STATS and PING change nothing but what `Expire` does. `KVNext` leaves
FLUSH to the cluster client, `ServersSpec` has it.

`ClusterClient` is one client in front: what it is doing (`doing`), the write it is
about, how many nodes of `CLUSTER_NODES` it has been through and the node it will
send the write to. `leading` and `excused` are history for `WritesReachLeader`: who led
when the write was typed, and the writes whose search met something the client cannot
help. Reads go to the node the ring names, change nothing and return what its engine
has, which is `KVEngine`'s subject; they are left out.

| Code | Action |
|---|---|
| `route_and_send` with PUT, DELETE | `TypeWrite`, then `AskLeader` per node, `FallBack` to the ring, `SendWrite` |
| with FLUSH, `broadcast` | `StartFlush`, `FlushNext` per node |
| a connection that is refused or times out | `CallFails` in `AskLeader`, `FlushNext`; `Offline` |
| a step of the servers meanwhile | `ServersMove` |

### Runs

Further bounds: `MaxFlushes` FLUSH commands at nodes, `MaxCallFailures` failing
connections of the client. All runs have three nodes, two terms (`MaxTerm`) and RPCs
that may fail.

| Run | Instance | Shows |
|---|---|---|
| RaftProgress | `RaftKV`, fairness | `ElectionEnds`, `StaleLeaderDeposed`, `LeaderIsLearned`, `AnsweredIsApplied` |
| Cluster | `ClusterClient`, one key, up to 2 submits in flight | `TypeOK`, `IndexBounds`, `CommittedOnMajority`, `AppliedReachedCommit`, `TakenOnce`, `AppliedOnce`, `AnsweredIsTaken`, `EngineFollowsLog`, `WritesReachLeader` |

The interleavings of two terms, two writes, FLUSH and a searching client together are
too many; each run therefore has several initial states, every one of them reachable
from the start of the servers, which spend a bound on what the others explore.
RaftProgress begins with a leader of term 1 that a second term may challenge and nothing
to write, or with the leader of the last term and a write that expires. Cluster
(`ClusterInit`) begins with

1. a leader of term 1, a second term to come, and one write whose TTL is 0: a leader is
   deposed between an answer and the submit, or during the gather, and the client
   believes old information;
2. the leader of the last term and two writes of one key, one that expires and one with
   a TTL of 0, overlapping or one after the other: entries reach the nodes in two
   orders, several are applied at once, a deadline has to be cleared, `commit_index`
   goes back, a submit fails below one that succeeds;
3. that leader and an applied write whose key may be evicted before or after a DELETE of
   it arrives;
4. that leader, one write and a broadcast of FLUSH (3 nodes) around its application.

The client asks a follower first and falls back to one (`NodeOrder`, `ToFollower`), the
leader being the other case; one failing connection makes it pass over a node.

`AnsweredIsApplied` names what may prevent the application (an RPC that failed, a submit
without a majority, a later term) and `WritesReachLeader` what excuses a refusal
(nobody led when the write was typed, a leader stepped down since, a call failed, a node
named another leader): each of these happens in the runs, and a write is then lost, or
refused, by what the code does. That old information does not last is `LeaderIsLearned`.

**Fairness** (`KVFairness`). That of Raft, and the submits a node has scheduled run.
Clients, flushes, elections and evictions are not forced.

### Proofs (ClusterProofs)

| Theorem | Says, for every instance |
|---|---|
| `ServersImplementRaft`: `ServersSpec => Spec` | the servers take no step that Raft does not, so that the theorems of section 3 hold of them; corollary: committed entries are on a majority |
| `EngineFollowsLogHolds` | an engine is what the last applied entries left since the node's last FLUSH, with RPCs failing, submits overlapping and any number of terms |
| `AnsweredIsTakenHolds` | an answered write is scheduled or in a log, unless an elected node has moved on |
| `ClusterImplementsServers`: `ClusterSpec => ServersSpec` | the client does to the servers only what any client may |
| `WritesReachLeaderHolds` | from the start of the cluster, with any elections: a write is refused only if it is excused |

`EngineFollowsLog` relates the engine to a set of positions, those of a key between the
last FLUSH and `last_applied`. A step adds the newly applied positions, all of them
later (`AppliedGrows`, from `AppliedOnceHolds`), so the last position of the union is the
last of the new ones if there is any (`LatestOfUnion`, from `LastPosition`), and that is
the one the callback ran last. An eviction leaves the second alternative of the property,
which the next entry of the key ends.

`AnsweredIsTaken` rests on `PendingAtLeader`: a node with a scheduled submit is leader,
or some elected node has moved on; and on `LeaderMovesOn`: a leader that stops to be
leader was elected and has another term afterwards.

`WritesReachLeader` is an induction over the nodes asked (`Searches`): as long as the write
is not excused, some node led when it was typed and still does, no call has failed and no
node named another one, so those the search is through with are none of the leaders, and
it cannot come to its end without meeting one. Assumption of all: no process restarts,
which is how RaftKV is built (section 9).

## 5. Hash ring

`ring` is the dict from positions to nodes, `count` the sorted list as a bag (its
order is the order of numbers), `nodes` the dict of members. MD5 is not computed:
`place` gives each virtual node a position, chosen by `Init`, so every
placement is explored, colliding ones included. `AddNode` overwrites positions and
lists them again; `RemoveNode` goes through the virtual nodes in order and, as the
code does, stops with `KeyError` at the first whose item is gone, leaving the
positions before it cleared and the node a member. `Lookup` is `get_node`.

| Run | Instance | Shows |
|---|---|---|
| Ring | 3 nodes of 2 virtual nodes on 6 positions, in every placement; positions listed up to `MaxListed` = 2 times before an add | `RoutesToMembers`, `LookupIsOwner`, `MinimalMovement` |

`RoutesToMembers` holds whatever collides and is added twice. The other two need
`Distinct`, which in the code is a matter of probability, and
that no member was added again: a node that was added twice stays listed when it
is removed, and `get_node` then raises for keys that fall there.

**Proofs** (HashRingProofs). The three properties hold for every number of nodes,
virtual nodes and positions. `RingInv` adds that the node at a position has a virtual
node there (`HeldByOwner`) and, with distinct positions, that every virtual node of a
member holds its position (`MembersHold`) and, while nobody was added twice, that a
position is listed once if it is held and never otherwise (`ListedOnce`). Then the
search of the list finds the closest virtual node of all members
(`FirstAfterIsClosest`); a first position exists by well-foundedness.

## 6. Engine and log

### State and actions

`Records` holds what a record is and what replaying a sequence of them leaves
(`Recovered`). `WAL` is the directory: `segments` (files, by number), the one that
is open, the buffer of the file object, and how much of the file was fsynced.
A record is a line of JSON; what an interrupted write can leave of it is modelled
by three chunks, a proper prefix of the text, its rest, and the newline. `Parsed`
tells the lines `replay` accepts: a line that is not exactly one whole record is
skipped. `Replayed` is the sequence of the records of these lines, in the order of
their position in a file and of the *names* of the files, computed from the padding of
`_rotate`: the n-th record is the one that n - 1 accepted lines are read before
(`Rank`, `Nth`). Said this way, without recursion, it can be reasoned about.

`KVEngine` adds the two dicts and the clock. All public methods and the sweep of
the cleanup thread hold one `RLock`, so only one mutation is in progress (`op`);
failures, the clock and a crash happen inside it, so it is several steps:

| Code | Action |
|---|---|
| put, delete, flush up to `write` | `Begin` |
| `flush`, `fsync` | `Logged`, or `LogFails` with any part of the buffer written |
| `_rotate` | `RotateLog`, or `RotateFails` after the old file was closed |
| the update of the dicts | `Finish` |
| get or exists on an expired key | `EvictOnRead`; what they return is `Get` |
| `_cleanup_loop`, one sweep | `Cleanup` |
| the process or machine stops | `Crash` |
| server start: open, replay | `Restart` |

`acked`, `ackedLog` and `deadline` are history: what clients were told. At a
restart what was recovered becomes what clients see, since a mutation that was in
progress may have survived.

Abstractions. A crash of the machine loses any part that was not fsynced; what a
crash leaves in a file is taken to be on disk from then on, and a created file to
exist. A failed `fsync` may be repeated with success. The timestamp in a record
is never read and is left out. `close` is a crash that loses nothing.

### The abstract engine

`DurableMap` is the promise: a map, an operation that takes effect once between
its begin and its return, and a crash that leaves the map as it is, except that the
operation in progress may take effect. `LoggedMap` is the engine without files and
faults: a store in memory and the sequence of records a replay would read. Two
refinements connect them:

- `KVEngine` implements `LoggedMap` with `log <- Replayed(segments)`, for keys without
  TTL, no I/O error, no torn line: checked by TLC (run EngineCrash) and proved
  (`LoggedMapImplemented`). That mapping carries the whole of rotation, names, parsing
  and reopening.
- `LoggedMap` implements `DurableMap`: proved (`DurableMapImplemented`). Together:
  `EngineIsDurableMap`.

With TTLs, I/O errors or torn lines the first refinement does not hold, by the
design of the code: an evicted key comes back at a restart, a failed mutation may
appear later. What holds then is checked by itself in the other runs.

### Runs

Segments hold a record or two, so that every history rotates; two keys and two
values are enough to tell an overwritten, a deleted and a flushed key apart; three or
four mutations (`MaxOps`) allow a rotation, a crash (`MaxCrashes`) and an overwrite of
what was recovered; `MaxTime` bounds the clock. Deadlock is not checked: at the bound
on mutations the model stops.

| Run | Instance | Shows |
|---|---|---|
| EngineCrash | 4 mutations, 2 crashes, rotation every 2 records | `ImplementsLoggedMap` |
| EngineFaults | 3 mutations, a TTL, 3 instants, 1 crash, failing writes and rotations, fairness | `TypeOK`, `AckedSurvive`, `ReadsAreLastAck`, `ExpiredUntilRestart`, `ExpiredIsEvicted` |

Expected violations:

| Run | Counterexample |
|---|---|
| EngineTornTail | `AckedIsRecovered`: a crash leaves part of a record; the process restarts; a PUT is written, fsynced and returns, its record glued to what was left; replay skips that line, so the next restart loses the value ("Guarantees no data loss on crash"). |
| EngineResurrection | `ExpiredStaysGone`: an expired key is replayed without its TTL and is readable again (the comment in `_apply` says it "won't resurrect"). |

At the instant of a deadline itself `get` still finds a key that `keys` no longer
lists (strict comparisons in both); `ReadsAreLastAck` speaks of the time before it,
`ExpiredUntilRestart` of the time after it.

The order of segment names breaks at the first number with more digits than the
padding, after ten thousand segments of 10 MB. To see it at one digit, run
EngineTornTail with `SPECIFICATION NamesSpec` (all one-digit segments but the last
are full), `NameDigits = 1`, `SegmentChunks = 3`, `TornTail = FALSE` and `MaxOps = 12`:
`AckedIsRecovered` fails after a PUT into segment 10, which replay reads before 2.

**Fairness.** A mutation that holds the lock goes on, and the cleanup thread wakes
every five seconds. Clients, the clock and restarts are not forced.

### Proofs (LoggedMapProofs, KVEngineProofs)

`MemoryIsLogHolds` proves that the store is what a replay would give between two
mutations, and one record behind while a mutation has logged and not yet stored:
the strengthening without which the invariant is not inductive at `Finish`. It and
`DurableMapImplemented` rest on `RecoveredStep`, `Recovered(Append(log, rec)) =
Apply(Recovered(log), rec)`. `Recovered` is written as "the last record that
touches a key decides", so that this needs no induction over the log, only the
existence of a last position (`LastPosition` in `Positions`), which comes from
well-foundedness of strict inclusion of finite sets. Assumptions: `None` is neither a
key, a value, a TTL nor a record, TTLs are numbers.

The theorems about the engine over files:

| Theorem | For all keys, values, TTLs, sizes and bounds, assuming |
|---|---|
| `ExpiredUntilRestartHolds`, `ReadsAreLastAckHolds` | nothing: failing writes, torn lines and restarts included |
| `TypesHold`: `[]TypeOK` | `[]NamesFit` |
| `AckedSurviveHolds` | `[]NamesFit`, `~TornTail` |
| `LoggedMapImplemented`, `EngineIsDurableMap` | `[]NamesFit`, `~TornTail`, `~IoMayFail`, `TTL = {}` |
| `NamesFitHolds`: `[]NamesFit` | `MaxOps < Padded` |

`NamesFit`, that no segment's number has outgrown the padding of its name, is what the
order of the files needs (see the ten thousand segments above); `NamesFitHolds`
discharges it when there are fewer mutations than numbers of the padded length: a
segment is only left when a mutation has filled it (`CountInv`). That torn lines and
TTLs have to be excluded is what runs EngineTornTail and EngineResurrection show; a
failed write may appear later, which `LoggedMap` does not allow.
`ReadsAreLastAck` needs none of them, although files can be wrong: until a restart
memory decides, and what a restart has recovered is from then on what clients see. What
the files keep of the acknowledged is the subject of `AckedSurvive`.

The invariants, and why the properties are not inductive by themselves:

- `TypeInv`: the open segment is the last one. Without it a rotation could reuse
  a file and a restart reopen another one than replay reads last.
- `MemInv`: a key is as the last mutation left it, its deadline kept or (after a restart)
  forgotten, or it was evicted after its deadline. `ReadsAreLastAck` alone speaks only
  of keys before their deadline and says nothing of `expiry`, on which evictions act.
- `FileInv`: files consist of whole lines, only what the buffer still has is missing at
  the end of the open one; a mutation past its fsync has everything on disk, and one
  before it has its record behind all that is. `AckInv`: what was fsynced (`Kept`)
  replays to a sequence that has all acknowledged records, and the one about to be
  acknowledged, as a subsequence. A crash leaves some front of whole lines between what
  was fsynced and all that was written, hence the detour over `Kept`.
- `PlainInv` adds for the refinement that nothing is left over in the buffer or
  unsynced, so that a flush appends to the replayed records exactly the one in `op`.

The lemmas on `Rank` carry the weight: a file that grows or shrinks at its end keeps
the order and the rank of the lines it had, so that a longer file replays to a
sequence with the former one as a prefix, and one more line to one more record.

## 7. Cache

`CachedEngine` puts several threads and the LRU cache over `LoggedMap`. The cache and
the engine have a lock each and no call holds both, so a call is several steps (`pc`):

| Code | Action |
|---|---|
| get, hit | `GetHit` |
| get, miss: the cache, the engine, the cache again | `GetMiss`, `EngineGet`, `CacheFill` |
| put, delete, flush: the engine under its lock | `Mutate`, `AppendRecord` (= `Logged`), `EngineDone` (= `Finish`) |
| then the cache | `UpdateCache` |
| a deadline passes and the engine evicts | `Expire` |
| crash, start | `Die`, `Reboot` |

`cached` and `order` are the `OrderedDict`. The clock is reduced to `Expire`, which may
happen at any time to a key with a TTL; `gone` is what the engine has evicted. `raced`
is history: keys changed while another thread was about to cache something older.

| Run | Instance | Shows |
|---|---|---|
| LoggedMap | 2 threads, 2 keys, 2 values, a TTL, 3 records in the log, capacity 1 | `MemoryIsLog`, `CoherentUnlessRaced`, `ImplementsDurableMap` |

Two threads are the smallest number that race; capacity 1 with two keys makes every
second fill evict. "Drop-in replacement" (lru_cache.py) is true of one thread and keys
without a TTL; `CoherentUnlessRaced` says exactly what is lost otherwise: a stale
value comes from an expiry, which the cache does not know, or from a mutation during
another thread's pending cache update, and from nothing else.

**Proofs** (CachedEngineProofs). `CachedImplementsLogged`: the engine's part of the
cached engine is `LoggedMap`, so `MemoryIsLog` and `ImplementsDurableMap` hold for
every number of threads and every capacity. `CoherentUnlessRacedHolds`: the inductive
invariant says of each thread between its critical sections that the value it holds is
the engine's unless its key is `raced` or expired, and that one mutation at a time
holds the engine. It includes capacity 0, at which a put evicts its own key.

## 8. Sessions

`Session` is client.py against server.py: two byte streams per connection, a line of
two chunks, the second with the newline. `Recv` and `Receive` take any number of the
chunks that are there, so lines arrive whole, cut or several at a time.

| Code | Action |
|---|---|
| client `repl` and the first half of `send` | `Send` |
| `recv` | `Recv` |
| the socket's timeout | `Timeout` |
| the client is killed | `Kill` |
| `data_received` is called | `Receive` |
| one turn of its loop: dispatch, handler, engine, response | `ServeLine` |

The engine is a map here and may fail at a mutation (`-ERR`); expiry is left to
`KVEngine`. An answer is its kind and the data it carries. The chunk of a request is
the number of the command it belongs to, so text that mixes two commands is no command.
`served` (per connection) and `executed` (all of them) are history: which text was
taken for which command, and what it was answered; so is `since`, how much had been
executed when the command a client waits for was sent. What a user may type (`Command`)
is a well-formed command or a line that the server answers with an error ("unknown").

| Run | Instance | Shows |
|---|---|---|
| Session | 2 clients, each with one of 3 scripts of 2 commands (all mutations, the reads that tell their effects, QUIT), 1 timeout each (`MaxTimeouts`), kills, fairness | `ExecutedAsSent`, `AnswersMatch`, `Linearizable`, `CommandIsServed` |

`AnswersMatch` is the exact damage a timeout does: until the first, the answer
shown is that of the command; after n of them it may be late by at most n.
`Linearizable` relates what is shown to the engine and to the other clients: until a
client's first timeout the answer it is shown is one of those executed since it sent the
command, and tells what all commands executed before it left. So a read that is sent after
another client was shown a success sees that write, and one that was answered with an
error left nothing.

**Fairness.** TCP delivers what a live peer has sent, the loop serves it, a client in
`recv` reads what arrives. Users need not type, and nothing must time out.

**Proofs** (SessionProofs). `ExecutedAsSentHolds`, `AnswersMatchHolds` and
`LinearizableHolds` for any number of connections, any scripts of commands
(`ScriptAssumption`), any number of timeouts and kills and every way to cut the streams.
The properties speak of what was served and shown and not of what is on the way, so the
invariant has to place every chunk. All commands of a connection are one infinite
stream, its j-th chunk being `At(j)`; `IsStream(s, p)` says that s is what follows the
first p chunks of it. Then:

- `UpInv`: what lies in the server's buffer and on the way to it is the stream from
  `Consumed(c)` on, two chunks per served line, and together with it reaches no further
  than what was sent (exactly that far unless the client was killed).
- `DownInv`: the answers are a stream of the same shape; what the client holds in
  `send` and what is on the way is its rest from `Read(c)` on, and `Read(c)` is at least
  two chunks for every command but the one being waited for and those that timed out.
- `ServedInv` and `ShownInv` are the two properties. `ShownInv` holds of a new view
  because the client has read between the lower bound of `DownInv` and what was served.

`Linearizable` is a statement about the steps that show an answer. `OrderInv` places the
command in the history: the lines served for a connection are those the history has of
it, and the line a client waits for is not among the commands executed before it was sent.
What is read without a timeout is, by `DownInv`, the answer to that line
(`ShownWasExecuted`), so the line was served and comes later. `SerialInv` ties the history
to the engine: the store is what the executed mutations left (`Content`), and an entry
more changes a key as its command says (`LastContent`), the earlier ones being as before
(`EarlierContent`).

## 9. What is only model-checked, and what is not modelled

Only model-checked: liveness (`ElectionEnds`, `StaleLeaderDeposed`, `LeaderIsLearned`,
`AnsweredIsApplied`, `ExpiredIsEvicted`, `CommandIsServed`), which the prover does not
handle under fairness. Every invariant and every action property that a passing run
checks is also a theorem; where a theorem has an assumption, its section names it and,
where the code breaks the property without it, the run or the change of a configuration
that shows how.

Not modelled:

- **HTTP server.** Its handlers are single calls of the engine; their interleavings are
  those of `KVEngine` and `CachedEngine`. The rest of the file is markup and browser
  script. That a TTL which is no number raises between log and reply is on the list
  of hazards without a property.
- **Cluster client.** Reads, which change nothing, and the answers to KEYS and STATS,
  which are collected from all nodes and printed. `MiniRing` is the ring of ring.py
  without removal.
- **Compositions.** Restarts are those of `Raft` and of `KVEngine`, each alone: in
  `RaftKV` no process restarts and no apply callback fails, so neither a replayed
  engine under an empty Raft log nor an entry skipped by a failed callback occurs. In
  `Session` the server does not crash.
- Times and sizes: floats and NaN as TTLs, growth of the log, virtual nodes' balance.
- Printing, logging, argument parsing, tests, benchmarks and the deployment files, of
  which only the restart policy matters and is the justification of `Restart`.

What the plan has left, in this order: restarts in `RaftKV`, with the engine's replay
under an empty Raft log; a callback that fails.
