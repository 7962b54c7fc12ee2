--------------------------- MODULE ClusterProofs ---------------------------
(***************************************************************************)
(* Theorems about the servers on top of Raft and the cluster client in     *)
(* front of them.  The servers take none but Raft's steps, and each engine *)
(* is what the applied part of its node's log says.  What the client does  *)
(* to them is what any client may do, and its writes find the leader that  *)
(* led when they were typed.                                               *)
(***************************************************************************)
EXTENDS ClusterClient, RaftProofs, Positions

----------------------------------------------------------------------------
(* The servers are Raft nodes *)

PendingType == pending \in [Node -> Seq(Command)]

\* What the servers do to the Raft variables.
LEMMA KVRaftSteps ==
    ASSUME PendingType, [KVFlushNext]_kvVars
    PROVE  [Next]_vars /\ restarts' = restarts
<1>1. CASE RaftStep
    BY <1>1 DEF RaftStep
<1>2. ASSUME NEW n \in Node, RunSubmit(n) PROVE [Next]_vars /\ restarts' = restarts
  <2>1. CASE Submit(n, Head(pending[n]))
    <3>1. pending[n] \in Seq(Command) /\ pending[n] # <<>>
      BY <1>2 DEF RunSubmit, PendingType
    <3>2. Head(pending[n]) \in Command
      BY <3>1
    <3> QED
      BY <2>1, <3>2 DEF Next, Submit
  <2>2. CASE UNCHANGED vars
    BY <2>2 DEF vars
  <2> QED
    BY <1>2, <2>1, <2>2 DEF RunSubmit
<1>3. CASE UNCHANGED vars
    BY <1>3 DEF vars
<1>4. CASE UNCHANGED kvVars
    BY <1>3, <1>4 DEF kvVars
<1> QED
    BY <1>1, <1>2, <1>3, <1>4 DEF KVFlushNext, KVNext, ServerStep, Expire, Flush, Write

\* What is scheduled on a node stays a sequence of commands.
LEMMA PendingKept ==
    ASSUME PendingType, [KVFlushNext]_kvVars
    PROVE  PendingType'
<1> USE DEF PendingType
<1>1. CASE UNCHANGED pending
    BY <1>1
<1>2. ASSUME NEW n \in Node, RunSubmit(n) PROVE PendingType'
  <2>1. pending[n] \in Seq(Command) /\ pending[n] # <<>>
    BY <1>2 DEF RunSubmit
  <2>2. Tail(pending[n]) \in Seq(Command)
    BY <2>1
  <2> QED
    BY <1>2, <2>2 DEF RunSubmit
<1>3. ASSUME NEW n \in Node, NEW c \in Command, Write(n, c) PROVE PendingType'
  <2>1. Append(pending[n], c) \in Seq(Command)
    OBVIOUS
  <2> QED
    BY <1>3, <2>1 DEF Write
<1> QED
    BY <1>1, <1>2, <1>3
       DEF KVFlushNext, KVNext, ServerStep, RaftStep, Expire, Flush, serverVars, kvVars

\* So in every state of the servers.
LEMMA PendingTyped == ServersSpec => []PendingType
<1>1. KVInit => PendingType
    BY DEF KVInit, PendingType
<1> QED
    BY <1>1, PendingKept, PTL DEF ServersSpec

\* The servers implement Raft: what raft_node.py adds to raft.py takes no step that
\* Raft does not allow, so that all that is proved of Raft holds under the servers.
THEOREM ServersImplementRaft == ServersSpec => Spec
    BY PendingTyped, KVRaftSteps, PTL DEF ServersSpec, Spec

\* A committed entry is in a majority of the logs of the servers.
COROLLARY ServersCommitOnMajority ==
    ASSUME MaxRestarts = 0
    PROVE  ServersSpec => []CommittedOnMajority
    BY ServersImplementRaft, CommittedOnMajorityHolds, PTL

----------------------------------------------------------------------------
(* The engines *)

\* What EngineFollowsLog says of one key of one node.
Follows(n, k) ==
    LET S    == AppliedTo(n, k)
        last == log[n][Latest(S)].command
    IN  IF S = {}
        THEN stored[n][k] = None /\ k \notin expiry[n]
        ELSE \/ stored[n][k] = Outcome(last) /\ (k \in expiry[n] <=> ToExpire(last))
             \/ stored[n][k] = None /\ k \notin expiry[n] /\ ToExpire(last)

EngineTypes ==
    /\ stored = [n \in Node |-> [k \in Key |-> stored[n][k]]]
    /\ expiry \in [Node -> SUBSET Key]

\* A node was flushed at a position it has reached.
FlushedReached ==
    /\ flushed \in [Node -> Index]
    /\ \A n \in Node : flushed[n] <= last_applied[n]

\* Latest finds the last of a set of positions.
LEMMA LatestIsLast ==
    ASSUME NEW n \in Nat, NEW S \in SUBSET (1..n), S # {}
    PROVE  Latest(S) \in S /\ \A j \in S : j <= Latest(S)
    BY LastPosition DEF Latest

\* Later positions hide the earlier ones.
LEMMA LatestOfUnion ==
    ASSUME NEW n \in Nat, NEW S \in SUBSET (1..n), NEW T \in SUBSET (1..n), T # {},
           \A i \in S, j \in T : i < j
    PROVE  Latest(S \cup T) = Latest(T)
<1>1. Latest(T) \in T /\ \A j \in T : j <= Latest(T)
    BY LatestIsLast
<1>2. /\ Latest(S \cup T) \in S \cup T
      /\ \A j \in S \cup T : j <= Latest(S \cup T)
  <2>1. S \cup T \in SUBSET (1..n) /\ S \cup T # {}
    OBVIOUS
  <2> QED BY <2>1, LatestIsLast
<1>3. Latest(T) \in Int /\ Latest(S \cup T) \in Int
  <2>1. \A x \in 1..n : x \in Int
    OBVIOUS
  <2> QED BY <1>1, <1>2, <2>1
<1>4. Latest(S \cup T) \in T
  <2>1. Latest(T) <= Latest(S \cup T)
    BY <1>1, <1>2
  <2>2. ~(Latest(S \cup T) \in S)
    BY <1>1, <1>3, <2>1
  <2> QED BY <1>2, <2>2
<1>5. Latest(S \cup T) <= Latest(T) /\ Latest(T) <= Latest(S \cup T)
    BY <1>1, <1>2, <1>4
<1> QED BY <1>3, <1>5

\* In a step without FLUSH what a node has applied grows by the new entries, which
\* come after the old ones; the old ones are as they were.
LEMMA AppliedGrows ==
    ASSUME TypeOK, TypeOK', IndexBounds, IndexBounds', FlushedReached,
           NEW n \in Node, NEW k \in Key, LogStep(n), flushed' = flushed
    PROVE  /\ AppliedTo(n, k)' = AppliedTo(n, k) \cup NewlyApplied(n, k)
           /\ AppliedTo(n, k) \in SUBSET (1..Len(log'[n]))
           /\ NewlyApplied(n, k) \in SUBSET (1..Len(log'[n]))
           /\ \A i \in AppliedTo(n, k), j \in NewlyApplied(n, k) : i < j
           /\ \A i \in AppliedTo(n, k) : log'[n][i] = log[n][i]
           /\ Len(log'[n]) \in Nat
<1>1. /\ Len(log[n]) \in Nat /\ Len(log'[n]) \in Nat
      /\ last_applied[n] \in Int /\ last_applied'[n] \in Int
      /\ flushed[n] \in Int /\ flushed[n] >= -1
    BY DEF TypeOK, FlushedReached, Index
<1>2. /\ last_applied[n] < Len(log[n]) /\ flushed[n] <= last_applied[n]
      /\ last_applied[n] <= last_applied'[n] /\ last_applied'[n] < Len(log'[n])
      /\ \A i \in 1..Len(log[n]) : log'[n][i] = log[n][i]
    BY <1>1 DEF IndexBounds, FlushedReached, LogStep
<1>3. \A i \in AppliedTo(n, k) : i \in 1..Len(log[n]) /\ i \in 1..Len(log'[n])
    BY <1>1, <1>2 DEF AppliedTo
<1>4. NewlyApplied(n, k) \in SUBSET (1..Len(log'[n]))
    BY <1>1, <1>2 DEF NewlyApplied
<1>5. \A i \in AppliedTo(n, k), j \in NewlyApplied(n, k) : i < j
    BY <1>1 DEF AppliedTo, NewlyApplied
<1>6. \A i \in AppliedTo(n, k) : log'[n][i] = log[n][i]
    BY <1>2, <1>3
<1>7. AppliedTo(n, k)' = AppliedTo(n, k) \cup NewlyApplied(n, k)
  <2>1. AppliedTo(n, k)' = {i \in (flushed[n] + 2)..(last_applied'[n] + 1) :
                               log'[n][i].command.key = k}
    BY DEF AppliedTo
  <2>2. AppliedTo(n, k) = {i \in (flushed[n] + 2)..(last_applied[n] + 1) :
                               log'[n][i].command.key = k}
    <3>1. \A i \in (flushed[n] + 2)..(last_applied[n] + 1) : log'[n][i] = log[n][i]
      BY <1>1, <1>2
    <3> QED BY <3>1 DEF AppliedTo
  <2>3. (flushed[n] + 2)..(last_applied'[n] + 1) =
            (flushed[n] + 2)..(last_applied[n] + 1)
                \cup (last_applied[n] + 2)..(last_applied'[n] + 1)
    BY <1>1, <1>2
  <2> QED BY <2>1, <2>2, <2>3 DEF NewlyApplied
<1> QED
    BY <1>1, <1>3, <1>4, <1>5, <1>6, <1>7

\* Where last_applied stays, nothing is new.
LEMMA NothingNew ==
    ASSUME TypeOK, last_applied' = last_applied
    PROVE  \A n \in Node, k \in Key : NewlyApplied(n, k) = {}
<1>1. \A n \in Node : last_applied[n] \in Int
    BY DEF TypeOK, Index
<1>2. \A i \in Int : (i + 2)..(i + 1) = {}
    OBVIOUS
<1>3. \A n \in Node : (last_applied[n] + 2)..(last_applied'[n] + 1) = {}
    BY <1>1, <1>2
<1> QED
    BY <1>3, Zenon DEF NewlyApplied

\* A deadline is set just for the commands that ask for one.
LEMMA DeadlineSet == \A c : Deadline(c) # None <=> ToExpire(c)
    BY DEF Deadline, ToExpire

\* Where nothing of a key is applied and the engine keeps what it has of it, or evicts
\* it, the key still follows the log.
LEMMA QuietFollows ==
    ASSUME TypeOK, TypeOK', IndexBounds, IndexBounds', FlushedReached,
           NEW n \in Node, NEW k \in Key, LogStep(n), flushed' = flushed,
           NewlyApplied(n, k) = {}, Follows(n, k),
           \/ stored'[n][k] = stored[n][k] /\ (k \in expiry'[n] <=> k \in expiry[n])
           \/ stored'[n][k] = None /\ k \notin expiry'[n] /\ k \in expiry[n]
    PROVE  Follows(n, k)'
<1> DEFINE S == AppliedTo(n, k)
           last == log[n][Latest(S)].command
<1>1. /\ AppliedTo(n, k)' = S /\ S \in SUBSET (1..Len(log'[n]))
      /\ \A i \in S : log'[n][i] = log[n][i]
      /\ Len(log'[n]) \in Nat
  <2>1. AppliedTo(n, k)' = AppliedTo(n, k) \cup NewlyApplied(n, k)
    BY AppliedGrows
  <2>2. /\ S \in SUBSET (1..Len(log'[n]))
        /\ \A i \in S : log'[n][i] = log[n][i]
        /\ Len(log'[n]) \in Nat
    BY AppliedGrows
  <2> QED BY <2>1, <2>2
<1>2. CASE S = {}
    BY <1>1, <1>2 DEF Follows
<1>3. CASE S # {}
  <2>1. Latest(S) \in S
    BY <1>1, <1>3, LatestIsLast
  <2>2. last = log'[n][Latest(AppliedTo(n, k)')].command
    BY <1>1, <2>1
  <2>3. \/ stored[n][k] = Outcome(last) /\ (k \in expiry[n] <=> ToExpire(last))
        \/ stored[n][k] = None /\ k \notin expiry[n] /\ ToExpire(last)
    BY <1>3 DEF Follows
  <2>4. \/ stored'[n][k] = Outcome(last) /\ (k \in expiry'[n] <=> ToExpire(last))
        \/ stored'[n][k] = None /\ k \notin expiry'[n] /\ ToExpire(last)
    BY <2>3
  <2>5. AppliedTo(n, k)' # {}
    BY <1>1, <1>3
  <2> HIDE DEF S, last
  <2> QED
    BY <2>2, <2>4, <2>5 DEF Follows, Outcome, ToExpire, Latest
<1> QED BY <1>2, <1>3

\* The apply callback brings the engine after the log.
LEMMA ApplyFollows ==
    ASSUME TypeOK, TypeOK', IndexBounds, IndexBounds', FlushedReached, EngineTypes,
           NEW n \in Node, NEW k \in Key, LogStep(n), flushed' = flushed, ApplyNew,
           Follows(n, k)
    PROVE  Follows(n, k)'
<1> DEFINE S == AppliedTo(n, k)
           N == NewlyApplied(n, k)
           hit(x)     == {j \in Key : NewlyApplied(x, j) # {}}
           last(x, j) == log'[x][Latest(NewlyApplied(x, j))].command
           live(x)    == {j \in hit(x) : Deadline(last(x, j)) # None}
<1>1. /\ stored'[n][k] = IF k \in hit(n) THEN Outcome(last(n, k)) ELSE stored[n][k]
      /\ expiry'[n] = (expiry[n] \ hit(n)) \cup live(n)
    BY DEF ApplyNew
<1>2. /\ AppliedTo(n, k)' = S \cup N /\ S \in SUBSET (1..Len(log'[n]))
      /\ N \in SUBSET (1..Len(log'[n])) /\ \A i \in S, j \in N : i < j
      /\ Len(log'[n]) \in Nat
    BY AppliedGrows
<1>3. CASE N = {}
  <2>1. stored'[n][k] = stored[n][k] /\ (k \in expiry'[n] <=> k \in expiry[n])
    BY <1>1, <1>3
  <2> QED BY <1>3, <2>1, QuietFollows
<1>4. CASE N # {}
  <2>1. Latest(AppliedTo(n, k)') = Latest(N) /\ AppliedTo(n, k)' # {}
    <3>1. ASSUME NEW q \in Nat, NEW A \in SUBSET (1..q), NEW B \in SUBSET (1..q), B # {},
                 \A i \in A, j \in B : i < j
          PROVE  Latest(A \cup B) = Latest(B) /\ A \cup B # {}
      BY <3>1, LatestOfUnion
    <3> DEFINE L == Len(log'[n])
    <3>2. L \in Nat /\ S \in SUBSET (1..L) /\ N \in SUBSET (1..L) /\ N # {}
          /\ \A i \in S, j \in N : i < j
      BY <1>2, <1>4
    <3> HIDE DEF S, N, L
    <3>3. Latest(S \cup N) = Latest(N) /\ S \cup N # {}
      BY <3>1, <3>2
    <3> QED BY <1>2, <3>3
  <2>2. k \in hit(n)
    BY <1>4
  <2>3. stored'[n][k] = Outcome(last(n, k)) /\ (k \in expiry'[n] <=> ToExpire(last(n, k)))
    BY <1>1, <2>2, DeadlineSet
  <2>4. last(n, k) = log'[n][Latest(AppliedTo(n, k)')].command
    BY <2>1
  <2> HIDE DEF last, N
  <2> QED
    BY <2>1, <2>3, <2>4 DEF Follows, Outcome, ToExpire, Latest
<1> QED BY <1>3, <1>4

\* A FLUSH empties the engine and begins a new account of what is applied.
LEMMA FlushFollows ==
    ASSUME TypeOK, FlushedReached, EngineTypes, NEW f \in Node, Flush(f),
           \A n \in Node, k \in Key : Follows(n, k)
    PROVE  \A n \in Node, k \in Key : Follows(n, k)'
<1> SUFFICES ASSUME NEW n \in Node, NEW k \in Key PROVE Follows(n, k)'
    OBVIOUS
<1>1. /\ flushed' = [flushed EXCEPT ![f] = last_applied[f]]
      /\ stored' = [stored EXCEPT ![f] = EmptyMap]
      /\ expiry' = [expiry EXCEPT ![f] = {}]
      /\ log' = log /\ last_applied' = last_applied
    BY DEF Flush, vars
<1>2. CASE n = f
  <2>1. flushed'[n] = last_applied[n] /\ last_applied[n] \in Int
    BY <1>1, <1>2 DEF FlushedReached, TypeOK, Index
  <2>2. AppliedTo(n, k)' = {}
    BY <1>1, <2>1 DEF AppliedTo
  <2>3. stored'[n][k] = None /\ expiry'[n] = {}
    BY <1>1, <1>2 DEF EngineTypes, EmptyMap
  <2> QED
    BY <2>2, <2>3 DEF Follows
<1>3. CASE n # f
  <2>1. flushed'[n] = flushed[n] /\ stored'[n] = stored[n] /\ expiry'[n] = expiry[n]
    BY <1>1, <1>3 DEF FlushedReached, EngineTypes
  <2>2. AppliedTo(n, k)' = AppliedTo(n, k)
    BY <1>1, <2>1 DEF AppliedTo
  <2>3. Follows(n, k)
    OBVIOUS
  <2> QED
    BY <1>1, <2>1, <2>2, <2>3 DEF Follows, Outcome, ToExpire
<1> QED BY <1>2, <1>3

\* Types of the engines and of the flush positions.
LEMMA EngineTypesKept ==
    ASSUME TypeOK, TypeOK', EngineTypes, FlushedReached, [KVFlushNext]_kvVars,
           \A n \in Node : LogStep(n)
    PROVE  EngineTypes' /\ FlushedReached'
<1>1. EngineTypes'
  <2>1. CASE UNCHANGED engineVars
    BY <2>1 DEF EngineTypes, engineVars
  <2>2. CASE ApplyNew
    BY <2>2 DEF ApplyNew, EngineTypes
  <2>3. ASSUME NEW n \in Node, Flush(n) PROVE EngineTypes'
    BY <2>3 DEF Flush, EngineTypes, EmptyMap
  <2>4. ASSUME NEW n \in Node, NEW k \in Key, Expire(n, k) PROVE EngineTypes'
    BY <2>4 DEF Expire, EngineTypes
  <2> QED
    BY <2>1, <2>2, <2>3, <2>4
       DEF KVFlushNext, KVNext, ServerStep, RaftStep, RunSubmit, Write, engineVars, kvVars
<1>2. FlushedReached'
  <2>1. /\ last_applied \in [Node -> Index] /\ last_applied' \in [Node -> Index]
        /\ \A n \in Node : last_applied'[n] >= last_applied[n]
    BY DEF TypeOK, LogStep
  <2>2. CASE flushed' = flushed
    BY <2>1, <2>2 DEF FlushedReached, Index
  <2>3. ASSUME NEW n \in Node, Flush(n) PROVE FlushedReached'
    BY <2>1, <2>3 DEF Flush, FlushedReached, vars, Index
  <2> QED
    BY <2>2, <2>3 DEF KVFlushNext, KVNext, ServerStep, RaftStep, RunSubmit, Write, Expire,
                      flushVars, kvVars
<1> QED BY <1>1, <1>2

\* Every engine holds what the last applied entry of each key left there since the
\* last FLUSH of its node, deadline included (raft.py _apply_up_to, raft_node.py
\* make_apply_callback), or has evicted it at that deadline: for any cluster, commands
\* and bounds, with overlapping elections, lost RPCs and logs that disagree.
THEOREM EngineFollowsLogHolds == ServersSpec => []EngineFollowsLog
<1> DEFINE Inv == /\ EngineTypes /\ FlushedReached
                  /\ \A n \in Node, k \in Key : Follows(n, k)
<1>1. Init /\ KVInit => Inv
  <2> SUFFICES ASSUME Init, KVInit PROVE Inv
    OBVIOUS
  <2>1. EngineTypes /\ FlushedReached
    BY DEF Init, KVInit, EngineTypes, FlushedReached, Index, EmptyMap
  <2>2. ASSUME NEW n \in Node, NEW k \in Key PROVE Follows(n, k)
    <3>1. last_applied[n] = -1 /\ flushed[n] = -1
      BY DEF Init, KVInit
    <3>2. AppliedTo(n, k) = {}
      BY <3>1 DEF AppliedTo
    <3>3. stored[n][k] = None /\ expiry[n] = {}
      BY DEF KVInit, EmptyMap
    <3> QED BY <3>2, <3>3 DEF Follows
  <2> QED BY <2>1, <2>2
<1>2. ASSUME TypeOK, IndexBounds, IndexBounds', PendingType, Inv, [KVFlushNext]_kvVars
      PROVE  Inv'
  <2> USE <1>2
  <2>1. [Next]_vars /\ restarts' = restarts
    BY KVRaftSteps
  <2>2. TypeOK'
    BY <2>1, StepKeepsTypes
  <2>3. \A n \in Node : LogStep(n)
    BY <2>1, NoRestart, LogSteps
  <2>4. EngineTypes' /\ FlushedReached'
    BY <2>2, <2>3, EngineTypesKept
  <2>5. ASSUME flushed' = flushed, last_applied' = last_applied, UNCHANGED engineVars
        PROVE  \A n \in Node, k \in Key : Follows(n, k)'
    <3>1. \A n \in Node, k \in Key : NewlyApplied(n, k) = {}
      BY <2>5, NothingNew
    <3> QED
      BY <2>2, <2>3, <2>5, <3>1, QuietFollows DEF engineVars
  <2>6. CASE RaftStep
    BY <2>2, <2>3, <2>4, <2>6, ApplyFollows DEF RaftStep, flushVars
  <2>7. ASSUME NEW n \in Node, RunSubmit(n)
        PROVE  \A m \in Node, k \in Key : Follows(m, k)'
    BY <2>5, <2>7 DEF RunSubmit, Submit, vars, flushVars
  <2>8. ASSUME NEW n \in Node, NEW k \in Key, Expire(n, k)
        PROVE  \A m \in Node, j \in Key : Follows(m, j)'
    <3>1. /\ flushed' = flushed /\ last_applied' = last_applied
          /\ k \in expiry[n]
          /\ expiry' = [expiry EXCEPT ![n] = @ \ {k}]
          /\ stored' = [stored EXCEPT ![n][k] = None]
      BY <2>8 DEF Expire, flushVars, vars
    <3>2. ASSUME NEW m \in Node, NEW j \in Key
          PROVE  \/ stored'[m][j] = stored[m][j] /\ (j \in expiry'[m] <=> j \in expiry[m])
                 \/ stored'[m][j] = None /\ j \notin expiry'[m] /\ j \in expiry[m]
      <4>1. CASE m = n /\ j = k
        BY <3>1, <4>1 DEF EngineTypes
      <4>2. CASE m # n \/ j # k
        BY <3>1, <4>2 DEF EngineTypes
      <4> QED BY <4>1, <4>2
    <3>3. \A m \in Node, j \in Key : NewlyApplied(m, j) = {}
      BY <3>1, NothingNew
    <3> QED
      BY <2>2, <2>3, <3>1, <3>2, <3>3, QuietFollows
  <2>9. ASSUME NEW n \in Node, Flush(n)
        PROVE  \A m \in Node, k \in Key : Follows(m, k)'
    BY <2>9, FlushFollows
  <2>10. ASSUME NEW n \in Node, NEW c \in Command, Write(n, c)
         PROVE  \A m \in Node, k \in Key : Follows(m, k)'
    BY <2>5, <2>10 DEF Write, vars, flushVars
  <2>11. CASE UNCHANGED kvVars
    BY <2>4, <2>5, <2>11 DEF kvVars, vars, flushVars
  <2> QED
    BY <2>4, <2>6, <2>7, <2>8, <2>9, <2>10, <2>11 DEF KVFlushNext, KVNext, ServerStep
<1>3. Inv => EngineFollowsLog
    BY DEF EngineFollowsLog, Follows
<1> QED
    BY <1>1, <1>2, <1>3, PendingTyped, ServersImplementRaft, TypeCorrect, IndexBoundsHold, PTL
       DEF ServersSpec

----------------------------------------------------------------------------
(* Answered writes *)

\* Some node that had been elected has moved on to a later term.
SomePassed == \E x \in elected : current_term[x[1]] > x[2]

Scheduled(c) == \E n \in Node : \E i \in DOMAIN pending[n] : pending[n][i] = c

\* Inductive form of AnsweredIsTaken: only a leader has submits scheduled, and as
\* long as no elected node has moved on, it is leader still.
PendingAtLeader == \A n \in Node : pending[n] # <<>> => state[n] = "leader" \/ SomePassed

\* Who was elected stays elected.
LEMMA ElectedGrows ==
    ASSUME [Next]_vars
    PROVE  elected \subseteq elected'
<1>1. CASE UNCHANGED elected
    BY <1>1
<1>2. ASSUME NEW e, NEW votes, Continue(e, votes) PROVE elected \subseteq elected'
    BY <1>2 DEF Continue, WinElection, LoseElection, AbandonElection, AskNextPeer
<1>3. ASSUME NEW e \in elections, ReceiveVote(e) \/ VoteRpcFails(e)
      PROVE  elected \subseteq elected'
    BY <1>2, <1>3 DEF ReceiveVote, VoteRpcFails, StepDown
<1>4. ASSUME NEW m \in messages, HandleRequestVote(m) \/ HandleAppendEntries(m)
      PROVE  elected \subseteq elected'
    BY <1>4 DEF HandleRequestVote, HandleAppendEntries, hist
<1>5. ASSUME NEW n \in Node,
             \/ Boot(n) \/ TimerFires(n) \/ StartElection(n) \/ SendHeartbeats(n)
             \/ (\E c \in Command : Submit(n, c)) \/ Restart(n)
      PROVE  elected \subseteq elected'
    BY <1>5 DEF Boot, TimerFires, StartElection, SendHeartbeats, Submit, Restart, hist
<1>6. ASSUME NEW r \in replications,
             (\E p \in Peers(r.node) : ReplicateRpcFails(r, p)) \/ FinishReplication(r)
      PROVE  elected \subseteq elected'
    BY <1>6 DEF ReplicateRpcFails, FinishReplication, hist
<1> QED
    BY <1>1, <1>3, <1>4, <1>5, <1>6 DEF Next, vars

\* A leader stops leading only by moving on, and who has moved on does not come back.
LEMMA LeaderMovesOn ==
    ASSUME TypeOK, TypeOK', LeaderTrail, [Next]_vars, restarts' = restarts
    PROVE  /\ SomePassed => SomePassed'
           /\ \A n \in Node : state[n] = "leader" => state'[n] = "leader" \/ SomePassed'
<1>1. \A x \in elected : x[1] \in Node /\ x[2] \in Nat
    BY DEF TypeOK
<1>2. \A n \in Node : current_term[n] \in Nat /\ current_term'[n] \in Nat
    BY DEF TypeOK
<1>3. \A n \in Node : RoleStep(n)
    BY RoleSteps
<1>4. \A n \in Node : current_term'[n] >= current_term[n]
    BY <1>2, <1>3 DEF RoleStep
<1>5. SomePassed => SomePassed'
    BY <1>1, <1>2, <1>4, ElectedGrows DEF SomePassed
<1>6. ASSUME NEW n \in Node, state[n] = "leader", state'[n] # "leader" PROVE SomePassed'
  <2>1. PICK x \in elected : x[1] = n /\ x[2] <= current_term[n]
    BY <1>6 DEF LeaderTrail, WasElected
  <2>2. current_term'[n] > current_term[n]
    BY <1>2, <1>3, <1>6 DEF RoleStep
  <2>3. current_term'[x[1]] > x[2] /\ x \in elected'
    BY <1>1, <1>2, <2>1, <2>2, ElectedGrows
  <2> QED BY <2>3 DEF SomePassed
<1> QED BY <1>5, <1>6

\* Where the elements of a queue are when the first has left or another has come.
LEMMA TailPositions ==
    ASSUME NEW s \in Seq(Command), s # <<>>, NEW i \in DOMAIN s, i # 1
    PROVE  i - 1 \in DOMAIN Tail(s) /\ Tail(s)[i - 1] = s[i]
    OBVIOUS
LEMMA AppendPositions ==
    ASSUME NEW s \in Seq(Command), NEW c \in Command
    PROVE  /\ \E j \in DOMAIN Append(s, c) : Append(s, c)[j] = c
           /\ \A i \in DOMAIN s : i \in DOMAIN Append(s, c) /\ Append(s, c)[i] = s[i]
<1>1. /\ Len(s) + 1 \in DOMAIN Append(s, c) /\ Append(s, c)[Len(s) + 1] = c
      /\ \A i \in DOMAIN s : i \in DOMAIN Append(s, c) /\ Append(s, c)[i] = s[i]
    OBVIOUS
<1> QED BY <1>1

\* What a step of the servers does to the writes that wait.
LEMMA PendingSteps ==
    ASSUME PendingType, PendingAtLeader, TypeOK, TypeOK', LeaderTrail, AnsweredIsTaken,
           [KVFlushNext]_kvVars
    PROVE  PendingAtLeader' /\ AnsweredIsTaken'
<1>1. [Next]_vars /\ restarts' = restarts
    BY KVRaftSteps
<1>2. /\ SomePassed => SomePassed'
      /\ \A n \in Node : state[n] = "leader" => state'[n] = "leader" \/ SomePassed'
    BY <1>1, LeaderMovesOn
<1>3. \A c \in answered : c \in submitted \/ Scheduled(c) \/ SomePassed
    BY DEF AnsweredIsTaken, Scheduled, SomePassed
<1>4. SUFFICES /\ PendingAtLeader'
               /\ \A c \in answered' : c \in submitted' \/ Scheduled(c)' \/ SomePassed'
    BY DEF AnsweredIsTaken, Scheduled, SomePassed
<1>5. ASSUME UNCHANGED <<pending, answered>>, submitted \subseteq submitted'
      PROVE  /\ PendingAtLeader'
             /\ \A c \in answered' : c \in submitted' \/ Scheduled(c)' \/ SomePassed'
  <2>1. \A c : Scheduled(c)' = Scheduled(c)
    BY <1>5 DEF Scheduled
  <2> QED BY <1>2, <1>3, <1>5, <2>1 DEF PendingAtLeader
<1>6. CASE RaftStep
    BY <1>5, <1>6 DEF RaftStep, serverVars
<1>7. ASSUME NEW n \in Node, RunSubmit(n)
      PROVE  /\ PendingAtLeader'
             /\ \A c \in answered' : c \in submitted' \/ Scheduled(c)' \/ SomePassed'
  <2>1. /\ pending[n] # <<>> /\ pending[n] \in Seq(Command)
        /\ pending' = [pending EXCEPT ![n] = Tail(@)] /\ answered' = answered
    BY <1>7 DEF RunSubmit, PendingType
  <2>2. /\ submitted \subseteq submitted'
        /\ Head(pending[n]) \in submitted' \/ state[n] # "leader"
    BY <1>7 DEF RunSubmit, Submit, vars
  <2>3. \A m \in Node : pending'[m] # <<>> => pending[m] # <<>>
    BY <2>1 DEF PendingType
  <2>4. ASSUME NEW c, Scheduled(c) PROVE Scheduled(c)' \/ c = Head(pending[n])
    <3>0. PICK m \in Node : \E j \in DOMAIN pending[m] : pending[m][j] = c
      BY <2>4 DEF Scheduled
    <3>1. PICK i \in DOMAIN pending[m] : pending[m][i] = c
      BY <3>0
    <3>2. CASE m # n
      BY <2>1, <3>1, <3>2 DEF Scheduled, PendingType
    <3>3. CASE m = n /\ i # 1
      <4>1. pending'[n] = Tail(pending[n])
        BY <2>1 DEF PendingType
      <4>2. i - 1 \in DOMAIN pending'[n] /\ pending'[n][i - 1] = pending[n][i]
        BY <2>1, <3>3, <4>1, TailPositions
      <4> QED BY <3>1, <3>3, <4>2 DEF Scheduled
    <3>4. CASE m = n /\ i = 1
      BY <2>1, <3>1, <3>4
    <3> QED BY <3>2, <3>3, <3>4
  <2>5. state[n] = "leader" \/ SomePassed'
    BY <1>2, <2>1 DEF PendingAtLeader
  <2> QED BY <1>2, <1>3, <2>1, <2>2, <2>3, <2>4, <2>5 DEF PendingAtLeader
<1>8. ASSUME NEW n \in Node, NEW c \in Command, Write(n, c)
      PROVE  /\ PendingAtLeader'
             /\ \A d \in answered' : d \in submitted' \/ Scheduled(d)' \/ SomePassed'
  <2>1. submitted' = submitted /\ state' = state
    BY <1>8 DEF Write, vars
  <2>2. CASE UNCHANGED <<pending, answered>>
    BY <1>5, <2>1, <2>2
  <2>3. CASE /\ state[n] = "leader"
             /\ pending' = [pending EXCEPT ![n] = Append(@, c)]
             /\ answered' = answered \cup {c}
    <3>1. /\ pending[n] \in Seq(Command)
          /\ \A m \in Node : pending'[m] = IF m = n THEN Append(pending[n], c) ELSE pending[m]
      BY <2>3 DEF PendingType
    <3>2. /\ \E j \in DOMAIN pending'[n] : pending'[n][j] = c
          /\ \A i \in DOMAIN pending[n] :
               i \in DOMAIN pending'[n] /\ pending'[n][i] = pending[n][i]
      <4>1. pending'[n] = Append(pending[n], c)
        BY <3>1
      <4> QED BY <3>1, <4>1, AppendPositions
    <3>3. Scheduled(c)'
      BY <3>2 DEF Scheduled
    <3>4. ASSUME NEW d, Scheduled(d) PROVE Scheduled(d)'
      <4>0. PICK m \in Node : \E j \in DOMAIN pending[m] : pending[m][j] = d
        BY <3>4 DEF Scheduled
      <4>1. PICK i \in DOMAIN pending[m] : pending[m][i] = d
        BY <4>0
      <4>2. i \in DOMAIN pending'[m] /\ pending'[m][i] = d
        BY <3>1, <3>2, <4>1
      <4> QED BY <4>2 DEF Scheduled
    <3>5. PendingAtLeader'
      BY <1>2, <2>1, <2>3, <3>1 DEF PendingAtLeader
    <3> QED BY <1>2, <1>3, <2>1, <2>3, <3>3, <3>4, <3>5
  <2> QED BY <1>8, <2>2, <2>3 DEF Write
<1>9. ASSUME NEW n \in Node, Flush(n) \/ (\E k \in Key : Expire(n, k))
      PROVE  /\ PendingAtLeader'
             /\ \A c \in answered' : c \in submitted' \/ Scheduled(c)' \/ SomePassed'
    BY <1>5, <1>9 DEF Flush, Expire, vars, serverVars
<1>10. CASE UNCHANGED kvVars
    BY <1>5, <1>10 DEF kvVars, vars, serverVars
<1> QED
    BY <1>6, <1>7, <1>8, <1>9, <1>10 DEF KVFlushNext, KVNext, ServerStep

\* A write that was answered with OK is scheduled or has been taken into a log, unless
\* an elected node has moved on to a later term: for any cluster, commands and bounds,
\* with overlapping elections and lost RPCs (raft_node.py _cmd_put, _cmd_delete).
THEOREM AnsweredIsTakenHolds == ServersSpec => []AnsweredIsTaken
<1>1. Init /\ KVInit => PendingAtLeader /\ AnsweredIsTaken
    BY DEF Init, KVInit, PendingAtLeader, AnsweredIsTaken
<1>2. ASSUME PendingType, TypeOK, TypeOK', LeaderTrail, PendingAtLeader, AnsweredIsTaken,
             [KVFlushNext]_kvVars
      PROVE  PendingAtLeader' /\ AnsweredIsTaken'
    BY <1>2, PendingSteps
<1> QED
    BY <1>1, <1>2, PendingTyped, ServersImplementRaft, TypeCorrect, LeaderTrailInvariant, PTL
       DEF ServersSpec

----------------------------------------------------------------------------
(* The client is a client *)

ClientTypes ==
    /\ doing \in {"idle", "find", "write", "flush"}
    /\ asked \in Nat
    /\ doing \in {"find", "write"} => cmd \in Command
    /\ doing = "write" => target \in Node

\* The node asked next is one of the nodes.
LEMMA OrderNode ==
    ASSUME ClientTypes, asked < Len(Order)
    PROVE  Order[asked + 1] \in Node
<1>1. Order \in Seq(Node) /\ asked \in Nat
    BY ClusterAssumption DEF ClientTypes
<1>2. Len(Order) \in Nat /\ \A i \in 1..Len(Order) : Order[i] \in Node
    BY <1>1
<1>3. asked + 1 \in 1..Len(Order)
    BY <1>1, <1>2
<1> QED BY <1>2, <1>3

\* What the client does to the servers.
LEMMA ClientKVSteps ==
    ASSUME ClientTypes, [CCNext]_ccVars
    PROVE  [KVFlushNext]_kvVars
<1>1. CASE ServersMove
    BY <1>1 DEF ServersMove, KVFlushNext, KVNext
<1>2. CASE SendWrite
  <2>1. target \in Node /\ cmd \in Command /\ Write(target, cmd)
    BY <1>2 DEF SendWrite, ClientTypes
  <2> QED BY <2>1 DEF KVFlushNext, KVNext
<1>3. CASE FlushNext
  <2>1. CASE asked < Len(Order) /\ Flush(Order[asked + 1])
    BY <2>1, OrderNode DEF KVFlushNext
  <2> QED BY <1>3, <2>1 DEF FlushNext
<1>4. CASE UNCHANGED ccVars
    BY <1>4 DEF ccVars
<1> QED
    BY <1>1, <1>2, <1>3, <1>4
       DEF CCNext, ClientStep, TypeWrite, AskLeader, FallBack, Offline, StartFlush

\* The types of the client.
LEMMA ClientTypesKept ==
    ASSUME ClientTypes, TypeOK, [CCNext]_ccVars
    PROVE  ClientTypes'
<1> USE DEF ClientTypes
<1>1. CASE UNCHANGED clientVars
    BY <1>1 DEF clientVars
<1>2. ASSUME NEW c \in Command, TypeWrite(c) PROVE ClientTypes'
    BY <1>2 DEF TypeWrite
<1>3. CASE AskLeader
  <2>1. leader_id[Order[asked + 1]] \in Node \cup {None}
    BY <1>3, OrderNode DEF AskLeader, TypeOK
  <2> QED BY <1>3, <2>1 DEF AskLeader
<1>4. CASE FallBack
  <2>1. cmd \in Command /\ Route[cmd.key] \in Node
    BY <1>4, ClusterAssumption, CommandAssumption DEF FallBack
  <2> QED BY <1>4, <2>1 DEF FallBack
<1>5. CASE SendWrite \/ Offline
    BY <1>5 DEF SendWrite, Offline, Done
<1>6. CASE ServersMove
    BY <1>6 DEF ServersMove
<1>7. CASE StartFlush
    BY <1>7 DEF StartFlush
<1>8. CASE FlushNext
    BY <1>8 DEF FlushNext, Done
<1>9. CASE UNCHANGED ccVars
    BY <1>1, <1>9 DEF ccVars
<1> QED
    BY <1>1, <1>2, <1>3, <1>4, <1>5, <1>6, <1>7, <1>8, <1>9 DEF CCNext, ClientStep

ClusterInv == ClientTypes /\ PendingType /\ TypeOK

\* Every step keeps the types of client and servers.
LEMMA ClusterInvKept ==
    ASSUME ClusterInv, [CCNext]_ccVars
    PROVE  ClusterInv'
<1>1. [KVFlushNext]_kvVars
    BY ClientKVSteps DEF ClusterInv
<1>2. [Next]_vars
    BY <1>1, KVRaftSteps DEF ClusterInv
<1>3. TypeOK'
    BY <1>2, StepKeepsTypes DEF ClusterInv
<1> QED
    BY <1>1, <1>3, PendingKept, ClientTypesKept DEF ClusterInv

\* The client's and the servers' types.
LEMMA ClusterInvariant == ClusterSpec => []ClusterInv
<1>1. Init /\ KVInit /\ CCInit => ClusterInv
  <2>1. Init => TypeOK
    BY DEF Init, TypeOK, Index
  <2>2. KVInit => PendingType
    BY DEF KVInit, PendingType
  <2>3. CCInit => ClientTypes
    BY DEF CCInit, ClientTypes
  <2> QED BY <2>1, <2>2, <2>3 DEF ClusterInv
<1>2. ClusterInv /\ [CCNext]_ccVars => ClusterInv'
    BY ClusterInvKept
<1> QED
    BY <1>1, <1>2, PTL DEF ClusterSpec

\* The client implements the free client of the servers: its search for the leader,
\* its routing and its broadcast send no command that the servers do not expect, so
\* that what is proved of the servers holds behind it (cluster_client.py
\* route_and_send, broadcast).
THEOREM ClusterImplementsServers == ClusterSpec => ServersSpec
<1>1. ClusterInv /\ [CCNext]_ccVars => [KVFlushNext]_kvVars
    BY ClientKVSteps DEF ClusterInv
<1> QED
    BY <1>1, ClusterInvariant, PTL DEF ClusterSpec, ServersSpec

----------------------------------------------------------------------------
(* Writes *)

\* Inductive form of WritesReachLeader.  Those who led when the write was typed lead
\* still; the search has asked none of them yet, or is over and has found one.
Searches ==
    /\ WritesReachLeader
    /\ doing \in {"find", "write"} /\ cmd \notin excused =>
        /\ leading # {} /\ leading \subseteq Leading
        /\ doing = "find" => \A i \in 1..asked : Order[i] \notin leading
        /\ doing = "write" => target \in leading

\* A leader that leads is found under its own name by whoever asks it.
LEMMA SearchStep ==
    ASSUME TypeOK, ClientTypes, Searches, [CCNext]_ccVars
    PROVE  Searches'
<1> USE DEF Searches, WritesReachLeader
<1>0. ASSUME UNCHANGED vars PROVE Leading' = Leading
    BY <1>0 DEF Leading, vars
<1>1. CASE UNCHANGED ccVars
    BY <1>0, <1>1 DEF ccVars, kvVars, serverVars, clientVars
<1>2. CASE ServersMove
  <2>1. /\ UNCHANGED <<refused, doing, cmd, asked, target, leading>>
        /\ excused' = IF doing \in {"find", "write"} /\ ~(leading \subseteq Leading')
                      THEN excused \cup {cmd} ELSE excused
    BY <1>2 DEF ServersMove, ServerStep, RaftStep, RunSubmit, Expire, serverVars
  <2> QED BY <2>1
<1>3. ASSUME NEW c \in Command, TypeWrite(c) PROVE Searches'
  <2>1. /\ UNCHANGED vars /\ UNCHANGED refused
        /\ doing' = "find" /\ cmd' = c /\ asked' = 0 /\ leading' = Leading
        /\ excused' = IF Leading = {} THEN excused \cup {c} ELSE excused
    BY <1>3 DEF TypeWrite, kvVars, serverVars
  <2>2. Leading' = Leading
    BY <1>0, <2>1
  <2> QED BY <2>1, <2>2
<1>4. CASE AskLeader
  <2> DEFINE node  == Order[asked + 1]
             named == leader_id[node]
  <2>1. /\ doing = "find" /\ asked \in Nat /\ asked' = asked + 1 /\ node \in Node
        /\ cmd' = cmd /\ refused' = refused /\ leading' = leading /\ UNCHANGED vars
    BY <1>4, OrderNode DEF AskLeader, ClientTypes, kvVars, serverVars
  <2>2. Leading' = Leading
    BY <1>0, <2>1
  <2>3. CASE /\ target' = named /\ doing' = "write"
             /\ excused' = IF named \in leading THEN excused ELSE excused \cup {cmd}
    BY <2>1, <2>2, <2>3
  <2>4. CASE named = None /\ UNCHANGED <<doing, excused>>
    <3>1. node \notin Leading
      BY <2>1, <2>4, NodeAssumption DEF Leading
    <3>2. \A i \in 1..(asked + 1) : i \in 1..asked \/ i = asked + 1
      BY <2>1
    <3> QED BY <2>1, <2>2, <2>4, <3>1, <3>2
  <2>5. CASE excused' = excused \cup {cmd} /\ UNCHANGED doing
    BY <2>1, <2>2, <2>5
  <2> QED BY <1>4, <2>3, <2>4, <2>5 DEF AskLeader
<1>5. CASE FallBack
  <2>1. /\ doing = "find" /\ asked = Len(Order) /\ doing' = "write"
        /\ UNCHANGED vars /\ UNCHANGED <<cmd, excused, refused, leading>>
    BY <1>5 DEF FallBack, kvVars, serverVars
  <2>2. \A n \in Node : \E i \in 1..asked : Order[i] = n
    BY <2>1, ClusterAssumption
  <2>3. cmd \in excused
    BY <2>1, <2>2 DEF Leading
  <2> QED BY <2>1, <2>3
<1>6. CASE SendWrite
  <2>1. doing = "write" /\ Write(target, cmd) /\ doing' = "idle" /\ excused' = excused
    BY <1>6 DEF SendWrite, Done
  <2>2. refused' = refused \/ (refused' = refused \cup {cmd} /\ state[target] # "leader")
    BY <2>1 DEF Write
  <2>3. refused' \subseteq excused
    BY <2>1, <2>2 DEF Leading
  <2> QED BY <2>1, <2>3
<1>7. CASE Offline \/ StartFlush \/ FlushNext
  <2>1. UNCHANGED <<refused, excused>> /\ doing' \in {"idle", "flush"}
    BY <1>7 DEF Offline, StartFlush, FlushNext, Flush, Done, kvVars, serverVars
  <2> QED BY <2>1
<1> QED
    BY <1>1, <1>2, <1>3, <1>4, <1>5, <1>6, <1>7 DEF CCNext, ClientStep

\* A write is refused only if nobody led when it was typed, one of those who did has
\* stepped down, a node did not answer or named another leader: for any number of nodes
\* in any order, any ring, and any elections and lost RPCs before and after
\* (cluster_client.py _find_leader).
THEOREM WritesReachLeaderHolds == ClusterSpec => []WritesReachLeader
<1>1. Init /\ KVInit /\ CCInit => Searches
    BY DEF KVInit, CCInit, Searches, WritesReachLeader
<1>2. ClusterInv /\ Searches /\ [CCNext]_ccVars => Searches'
    BY SearchStep DEF ClusterInv
<1>3. Searches => WritesReachLeader
    BY DEF Searches
<1> QED
    BY <1>1, <1>2, <1>3, ClusterInvariant, PTL DEF ClusterSpec
=============================================================================
