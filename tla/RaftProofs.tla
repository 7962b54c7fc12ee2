----------------------------- MODULE RaftProofs -----------------------------
(***************************************************************************)
(* Theorems about Raft, for every cluster, command set and bound: its      *)
(* types, the bounds of its log indexes, that no node is left waiting for  *)
(* nothing, the one-leader-per-term argument with the two assumptions it   *)
(* needs, and what messages and logs say: the leader a node names was      *)
(* elected, a committed entry is in a majority of the logs, nothing is     *)
(* applied beyond what was committed, or twice, and no log holds a command *)
(* twice.                                                                  *)
(***************************************************************************)
EXTENDS Raft, FiniteSetTheorems, TLAPS

\* The code's arithmetic is sound: Majority(n) votes are a quorum.
LEMMA MajorityIsQuorum ==
    ASSUME NEW n \in Node, NEW S \in SUBSET Node, Cardinality(S) >= Majority(n)
    PROVE  IsQuorum(S)
<1>1. IsFiniteSet(Node) /\ Cardinality(Node) \in Nat
    BY NodeAssumption, FS_CardinalityType
<1>2. Cardinality(Node \ {n}) = Cardinality(Node) - 1
    BY <1>1, FS_RemoveElement
<1>3. Cardinality(S) \in Nat
    BY <1>1, FS_Subset, FS_CardinalityType
<1> QED
    BY <1>1, <1>2, <1>3 DEF Majority, Peers, IsQuorum

\* A set that holds a quorum is one.
LEMMA QuorumGrows ==
    ASSUME NEW S \in SUBSET Node, NEW T \in SUBSET Node, S \subseteq T, IsQuorum(S)
    PROVE  IsQuorum(T)
<1>1. IsFiniteSet(T) /\ IsFiniteSet(S)
    BY NodeAssumption, FS_Subset
<1>2. Cardinality(S) <= Cardinality(T)
    BY <1>1, FS_Subset
<1>3. Cardinality(S) \in Nat /\ Cardinality(T) \in Nat /\ Cardinality(Node) \in Nat
    BY <1>1, NodeAssumption, FS_CardinalityType
<1> QED
    BY <1>2, <1>3 DEF IsQuorum

\* Two quorums share a voter.
LEMMA QuorumsMeet ==
    ASSUME NEW S \in SUBSET Node, NEW T \in SUBSET Node, IsQuorum(S), IsQuorum(T)
    PROVE  S \cap T # {}
<1>1. IsFiniteSet(Node) /\ IsFiniteSet(S) /\ IsFiniteSet(T)
    BY NodeAssumption, FS_Subset
<1>2. Cardinality(S) \in Nat /\ Cardinality(T) \in Nat /\ Cardinality(Node) \in Nat
    BY <1>1, FS_CardinalityType
<1>3. Cardinality(S) + Cardinality(T) > Cardinality(Node)
    BY <1>2 DEF IsQuorum
<1> QED
    BY <1>1, <1>3, FS_MajoritiesIntersect

----------------------------------------------------------------------------
(* Types *)

\* What the helpers return.
LEMMA HelperTypes ==
    ASSUME TypeOK
    PROVE  /\ \A n \in Node : LastIndex(n) \in Index /\ LastTerm(n) \in Nat
           /\ \A e \in Election : VoteRequest(e) \in Message
           /\ \A r \in Replication, p \in Node : AppendRequest(r, p) \in Message
           /\ \A n, p \in Node : Heartbeat(n, p) \in Message
           /\ \A e \in Election, m \in Message, reply \in Reply :
                Answered(e, m, reply) \in Election
           /\ \A r \in Replication, m \in Message, ok \in BOOLEAN :
                Acked(r, m, ok) \in Replication
<1>1. \A n \in Node : LastIndex(n) \in Index /\ LastTerm(n) \in Nat
  <2> SUFFICES ASSUME NEW n \in Node PROVE LastIndex(n) \in Index /\ LastTerm(n) \in Nat
    OBVIOUS
  <2>1. log[n] \in Seq(Entry) /\ Len(log[n]) \in Nat
    BY DEF TypeOK
  <2>2. LastIndex(n) \in Index
    BY <2>1 DEF LastIndex, Index
  <2>3. ASSUME NEW s \in Seq(Entry), s # <<>> PROVE s[Len(s)].term \in Nat
    <3>1. s[Len(s)] \in Entry
      BY <2>3
    <3> QED BY <3>1 DEF Entry
  <2>4. LastTerm(n) \in Nat
    BY <2>1, <2>3 DEF LastTerm
  <2> QED BY <2>2, <2>4
<1>2. \A e \in Election : VoteRequest(e) \in Message
    BY DEF VoteRequest, Election, Message
<1>3. \A r \in Replication, p \in Node : AppendRequest(r, p) \in Message
    BY DEF AppendRequest, Replication, Message
<1>4. \A n, p \in Node : Heartbeat(n, p) \in Message
    BY DEF Heartbeat, Message, TypeOK
<1>5. \A e \in Election, m \in Message, reply \in Reply : Answered(e, m, reply) \in Election
    BY DEF Answered, Election
<1>6. \A r \in Replication, m \in Message, ok \in BOOLEAN : Acked(r, m, ok) \in Replication
  <2> SUFFICES ASSUME NEW r \in Replication, NEW m \in Message, NEW ok \in BOOLEAN
               PROVE  Acked(r, m, ok) \in Replication
    OBVIOUS
  <2>1. m.dst \in Node
    BY DEF Message
  <2>2. \A a \in SUBSET Node, w \in SUBSET Node :
          [r EXCEPT !.waiting = w, !.acks = a] \in Replication
    BY DEF Replication
  <2>3. r.acks \in SUBSET Node /\ r.waiting \in SUBSET Node
    BY DEF Replication
  <2> QED
    BY <2>1, <2>2, <2>3 DEF Acked
<1> QED
    BY <1>1, <1>2, <1>3, <1>4, <1>5, <1>6



\* Continuing an election keeps the types of what it may change.
LEMMA ContinueTypes ==
    ASSUME TypeOK, NEW e \in elections, NEW votes \in SUBSET Node, Continue(e, votes)
    PROVE  /\ current_term' \in [Node -> Nat]
           /\ voted_for' \in [Node -> Node \cup {None}]
           /\ state' \in [Node -> {"follower", "candidate", "leader"}]
           /\ leader_id' \in [Node -> Node \cup {None}]
           /\ timer' \in [Node -> BOOLEAN]
           /\ elected' \subseteq Node \X Nat
           /\ elections' \subseteq Election
           /\ messages' \subseteq Message
<1>1. e \in Election /\ e.node \in Node
    BY DEF TypeOK, Election
<1>2. CASE WinElection(e, votes)
    BY <1>1, <1>2 DEF WinElection, TypeOK
<1>3. CASE LoseElection(e, votes)
    BY <1>1, <1>3 DEF LoseElection, TypeOK
<1>4. CASE AbandonElection(e)
    BY <1>1, <1>4 DEF AbandonElection, TypeOK
<1>5. CASE AskNextPeer(e, votes)
  <2>1. PICK p \in e.todo :
          LET next == [e EXCEPT !.votes = votes, !.todo = @ \ {p}, !.ask = p, !.resp = {}]
          IN  /\ elections' = (elections \ {e}) \cup {next}
              /\ messages'  = messages \cup {VoteRequest(next)}
    BY <1>5 DEF AskNextPeer
  <2> DEFINE next == [e EXCEPT !.votes = votes, !.todo = @ \ {p}, !.ask = p, !.resp = {}]
  <2>2. next \in Election
    BY <1>1 DEF Election
  <2>3. VoteRequest(next) \in Message
    BY <2>2, HelperTypes
  <2>4. elections' \subseteq Election /\ messages' \subseteq Message
    BY <2>1, <2>2, <2>3 DEF TypeOK
  <2> QED
    BY <1>5, <2>4 DEF AskNextPeer, TypeOK
<1> QED
    BY <1>2, <1>3, <1>4, <1>5 DEF Continue

\* No step of the system breaks a type.
LEMMA StepKeepsTypes ==
    ASSUME TypeOK, [Next]_vars
    PROVE  TypeOK'
<1>1. ASSUME NEW n \in Node, Boot(n) PROVE TypeOK'
  BY <1>1 DEF Boot, TypeOK, logVars, hist
<1>2. ASSUME NEW n \in Node, TimerFires(n) PROVE TypeOK'
  BY <1>2 DEF TimerFires, TypeOK, logVars, hist
<1>3. ASSUME NEW n \in Node, StartElection(n) PROVE TypeOK'
  <2>1. PICK p \in Peers(n) :
          LET e == [node |-> n, term |-> current_term[n] + 1,
                    last_idx |-> LastIndex(n), last_term |-> LastTerm(n),
                    votes |-> {n}, todo |-> Peers(n) \ {p}, ask |-> p, resp |-> {}]
          IN  /\ elections' = elections \cup {e}
              /\ messages'  = messages \cup {VoteRequest(e)}
    BY <1>3 DEF StartElection
  <2> DEFINE e == [node |-> n, term |-> current_term[n] + 1,
                   last_idx |-> LastIndex(n), last_term |-> LastTerm(n),
                   votes |-> {n}, todo |-> Peers(n) \ {p}, ask |-> p, resp |-> {}]
  <2>2. e \in Election
    <3>1. current_term[n] + 1 \in Nat
      BY DEF TypeOK
    <3> QED BY <3>1, HelperTypes DEF Election, Peers
  <2>3. VoteRequest(e) \in Message
    BY <2>2, HelperTypes
  <2>4. elections' \subseteq Election /\ messages' \subseteq Message
    BY <2>1, <2>2, <2>3 DEF TypeOK
  <2>5. /\ current_term' \in [Node -> Nat] /\ voted_for' \in [Node -> Node \cup {None}]
        /\ state' \in [Node -> {"follower", "candidate", "leader"}]
        /\ leader_id' \in [Node -> Node \cup {None}]
        /\ timer' \in [Node -> BOOLEAN] /\ due' \in [Node -> BOOLEAN]
    BY <1>3 DEF StartElection, TypeOK
  <2>6. granted' \subseteq Node \X Nat \X Node
    BY <1>3 DEF StartElection, TypeOK
  <2>7. UNCHANGED <<log, commit_index, last_applied, booted, replications, restarts,
                    elected, submitted, committed>>
    BY <1>3 DEF StartElection, logVars
  <2> QED
    BY <2>4, <2>5, <2>6, <2>7 DEF TypeOK
<1>4. ASSUME NEW m \in messages, HandleRequestVote(m) PROVE TypeOK'
  <2> DEFINE n     == m.dst
             newer == m.term > current_term[n]
             held  == IF newer THEN None ELSE voted_for[n]
             term  == Larger(m.term, current_term[n])
             grant == CanGrant(m, held)
             reply == [term |-> term, vote_granted |-> grant]
  <2>1. m \in Message /\ n \in Node /\ m.src \in Node /\ m.term \in Nat
    BY DEF TypeOK, Message
  <2>2. grant \in BOOLEAN /\ term \in Nat /\ held \in Node \cup {None}
    BY <2>1 DEF CanGrant, CandidateLogOk, Larger, TypeOK
  <2>3. elections' = {Answered(e, m, reply) : e \in elections}
    BY <1>4 DEF HandleRequestVote
  <2>4. elections' \subseteq Election
    <3>1. reply \in Reply
      BY <2>2 DEF Reply
    <3> HIDE DEF reply
    <3>2. \A e \in elections : Answered(e, m, reply) \in Election
      BY <2>1, <3>1, HelperTypes DEF TypeOK
    <3> QED BY <2>3, <3>2
  <2>5. current_term' \in [Node -> Nat] /\ voted_for' \in [Node -> Node \cup {None}]
    BY <1>4, <2>1, <2>2 DEF HandleRequestVote, TypeOK
  <2>6. granted' \subseteq Node \X Nat \X Node
    BY <1>4, <2>1 DEF HandleRequestVote, TypeOK
  <2>7. state' \in [Node -> {"follower", "candidate", "leader"}] /\ timer' \in [Node -> BOOLEAN]
    BY <1>4, <2>1, <2>2 DEF HandleRequestVote, TypeOK
  <2> QED
    BY <1>4, <2>4, <2>5, <2>6, <2>7 DEF HandleRequestVote, TypeOK, logVars
<1>5. ASSUME NEW e \in elections, ReceiveVote(e) PROVE TypeOK'
  <2>1. PICK r \in e.resp :
          \/ r.term > current_term[e.node] /\ StepDown(e, r.term)
          \/ /\ r.term <= current_term[e.node]
             /\ Continue(e, IF r.vote_granted THEN e.votes \cup {e.ask} ELSE e.votes)
    BY <1>5 DEF ReceiveVote
  <2>2. e \in Election /\ e.node \in Node /\ e.ask \in Node /\ e.votes \in SUBSET Node
        /\ r.term \in Nat
    BY DEF TypeOK, Election, Reply
  <2>3. CASE StepDown(e, r.term)
    BY <1>5, <2>2, <2>3 DEF ReceiveVote, StepDown, BecomeFollower, TypeOK, logVars
  <2>4. CASE Continue(e, IF r.vote_granted THEN e.votes \cup {e.ask} ELSE e.votes)
    <3>1. (IF r.vote_granted THEN e.votes \cup {e.ask} ELSE e.votes) \in SUBSET Node
      BY <2>2
    <3> QED
      BY <1>5, <2>4, <3>1, ContinueTypes DEF ReceiveVote, TypeOK, logVars
  <2> QED
    BY <2>1, <2>3, <2>4
<1>6. ASSUME NEW e \in elections, VoteRpcFails(e) PROVE TypeOK'
  <2>1. e.votes \in SUBSET Node
    BY DEF TypeOK, Election
  <2> QED
    BY <1>6, <2>1, ContinueTypes DEF VoteRpcFails, TypeOK, logVars
<1>7. ASSUME NEW n \in Node, SendHeartbeats(n) PROVE TypeOK'
  <2>1. messages' \subseteq Message
    BY <1>7, HelperTypes DEF SendHeartbeats, Peers, TypeOK
  <2> QED
    BY <1>7, <2>1 DEF SendHeartbeats, TypeOK, roleVars, logVars, hist
<1>8. ASSUME NEW n \in Node, NEW c \in Command, Submit(n, c) PROVE TypeOK'
  <2> DEFINE entry == [term |-> current_term[n], command |-> c]
             r == [node |-> n, idx |-> Len(log[n]), entry |-> entry,
                   term |-> current_term[n], leader_commit |-> commit_index[n],
                   acks |-> {n}, waiting |-> Peers(n)]
  <2>1. entry \in Entry /\ log[n] \in Seq(Entry) /\ Len(log[n]) \in Nat
    <3>1. entry \in Entry
      BY DEF Entry, TypeOK
    <3>2. log[n] \in Seq(Entry)
      BY DEF TypeOK
    <3> QED BY <3>1, <3>2
  <2>2. r \in Replication
    BY <2>1 DEF Replication, Peers, TypeOK
  <2>3. log' \in [Node -> Seq(Entry)]
    BY <1>8, <2>1 DEF Submit, TypeOK
  <2>4. messages' = messages \cup {AppendRequest(r, p) : p \in Peers(n)}
        /\ replications' = replications \cup {r}
    BY <1>8 DEF Submit
  <2>5. messages' \subseteq Message /\ replications' \subseteq Replication
    BY <2>2, <2>4, HelperTypes DEF Peers, TypeOK
  <2> QED
    BY <1>8, <2>3, <2>5 DEF Submit, TypeOK, roleVars
<1>9. ASSUME NEW m \in messages, HandleAppendEntries(m) PROVE TypeOK'
  <2>1. m \in Message /\ m.dst \in Node /\ m.src \in Node /\ m.term \in Nat
        /\ m.entries \in Seq(Entry) /\ m.leader_commit \in Index
    BY <1>9 DEF HandleAppendEntries, TypeOK, Message
  <2>2. replications' \subseteq Replication
    <3>1. PICK ok \in BOOLEAN : replications' = {Acked(r, m, ok) : r \in replications}
      BY <1>9 DEF HandleAppendEntries, RejectEntries, AcceptEntries
    <3>2. \A r \in replications : Acked(r, m, ok) \in Replication
      BY <2>1, HelperTypes DEF TypeOK
    <3> QED BY <3>1, <3>2
  <2>3. CASE RejectEntries(m)
    BY <1>9, <2>2, <2>3 DEF HandleAppendEntries, RejectEntries, TypeOK, roleVars, logVars, hist
  <2>4. CASE AcceptEntries(m)
    <3> DEFINE newlog == log[m.dst] \o m.entries
               commit == NewCommit(m.dst, m.leader_commit, newlog)
    <3>1. newlog \in Seq(Entry) /\ Len(newlog) \in Nat
      <4>1. log[m.dst] \in Seq(Entry)
        BY <2>1 DEF TypeOK
      <4>2. newlog \in Seq(Entry)
        BY <2>1, <4>1
      <4> HIDE DEF newlog
      <4> QED BY <4>2
    <3>2. commit \in Index /\ Larger(last_applied[m.dst], commit) \in Index
      <4> HIDE DEF newlog
      <4>1. commit_index[m.dst] \in Index /\ last_applied[m.dst] \in Index
        BY <2>1 DEF TypeOK
      <4>2. commit \in Index
        BY <2>1, <3>1, <4>1 DEF NewCommit, Index
      <4> QED
        BY <4>1, <4>2 DEF Larger
    <3>3. log' \in [Node -> Seq(Entry)]
      BY <2>1, <2>4, <3>1 DEF AcceptEntries, TypeOK
    <3>4. commit_index' \in [Node -> Index] /\ last_applied' \in [Node -> Index]
      BY <2>1, <2>4, <3>2 DEF AcceptEntries, TypeOK
    <3>5. /\ current_term' \in [Node -> Nat] /\ voted_for' \in [Node -> Node \cup {None}]
          /\ state' \in [Node -> {"follower", "candidate", "leader"}]
          /\ timer' \in [Node -> BOOLEAN] /\ due' \in [Node -> BOOLEAN]
          /\ leader_id' \in [Node -> Node \cup {None}]
      BY <2>1, <2>4 DEF AcceptEntries, BecomeFollower, TypeOK
    <3> QED
      BY <1>9, <2>2, <3>3, <3>4, <3>5 DEF HandleAppendEntries, TypeOK, hist
  <2> QED
    BY <1>9, <2>3, <2>4 DEF HandleAppendEntries
<1>10. ASSUME NEW r \in replications, NEW p \in Peers(r.node), ReplicateRpcFails(r, p)
       PROVE TypeOK'
  <2>1. [r EXCEPT !.waiting = @ \ {p}] \in Replication
    <3>1. r \in Replication
      BY DEF TypeOK
    <3>2. r.waiting \ {p} \in SUBSET Node
      BY <3>1 DEF Replication
    <3> QED BY ONLY <3>1, <3>2 DEF Replication
  <2> QED
    BY <1>10, <2>1 DEF ReplicateRpcFails, TypeOK, roleVars, logVars, hist
<1>11. ASSUME NEW r \in replications, FinishReplication(r) PROVE TypeOK'
  <2>1. r.node \in Node /\ r.idx \in Nat /\ r.idx \in Index /\ r.entry \in Entry
    BY DEF TypeOK, Replication, Index
  <2>2. commit_index' \in [Node -> Index] /\ last_applied' \in [Node -> Index]
    BY <1>11, <2>1 DEF FinishReplication, CommitEntry, DropEntry, Larger, TypeOK
  <2>3. committed' \subseteq Nat \X Entry
    BY <1>11, <2>1 DEF FinishReplication, CommitEntry, DropEntry, TypeOK
  <2> QED
    BY <1>11, <2>2, <2>3 DEF FinishReplication, CommitEntry, DropEntry, TypeOK, roleVars
<1>12. ASSUME NEW n \in Node, Restart(n) PROVE TypeOK'
  <2>1. /\ log' \in [Node -> Seq(Entry)]
        /\ commit_index' \in [Node -> Index] /\ last_applied' \in [Node -> Index]
    BY <1>12 DEF Restart, TypeOK, Index
  <2>2. /\ current_term' \in [Node -> Nat] /\ voted_for' \in [Node -> Node \cup {None}]
        /\ state' \in [Node -> {"follower", "candidate", "leader"}]
        /\ leader_id' \in [Node -> Node \cup {None}] /\ timer' \in [Node -> BOOLEAN]
        /\ due' \in [Node -> BOOLEAN] /\ booted' \in [Node -> BOOLEAN] /\ restarts' \in Nat
    BY <1>12 DEF Restart, TypeOK
  <2>3. elections' \subseteq Election /\ replications' \subseteq Replication
    BY <1>12 DEF Restart, TypeOK
  <2> QED
    BY <1>12, <2>1, <2>2, <2>3 DEF Restart, TypeOK, hist
<1>13. CASE UNCHANGED vars
  BY <1>13 DEF vars, TypeOK
<1> QED
  BY <1>1, <1>2, <1>3, <1>4, <1>5, <1>6, <1>7, <1>8, <1>9, <1>10, <1>11,
     <1>12, <1>13 DEF Next

\* Every variable keeps its type: no handler, task or restart puts a value the
\* code does not expect into a node's fields, a task's locals or a message.
THEOREM TypeCorrect == Spec => []TypeOK
<1>1. Init => TypeOK
    BY DEF Init, TypeOK, Index
<1> QED
    BY <1>1, StepKeepsTypes, PTL DEF Spec

----------------------------------------------------------------------------
(* One leader per term *)

electionVars == <<current_term, voted_for, state, due, elections, elected, granted>>

\* The invariant gives the property: two nodes elected in one term would share a
\* voter; the voter's votes for others agree, and an elected voter has none.
LEMMA InvImpliesSafety ==
    ASSUME TypeOK, ElectionInv
    PROVE  ElectionSafety
<1> SUFFICES ASSUME NEW a \in elected, NEW b \in elected, a[2] = b[2], a[1] # b[1]
             PROVE  FALSE
    BY DEF ElectionSafety
<1>1. a \in Node \X Nat /\ b \in Node \X Nat
    BY DEF TypeOK
<1> DEFINE S == {v \in Node : <<v, a[2], a[1]>> \in granted}
           T == {v \in Node : <<v, b[2], b[1]>> \in granted}
<1>2. IsQuorum(S) /\ IsQuorum(T)
    BY DEF ElectionInv, LeaderHasMajority
<1>3. PICK v \in Node : v \in S /\ v \in T
  <2>1. S \in SUBSET Node /\ T \in SUBSET Node
    OBVIOUS
  <2>2. S \cap T # {}
    BY <1>2, <2>1, QuorumsMeet
  <2> QED BY <2>2
<1> DEFINE g == <<v, a[2], a[1]>>
           h == <<v, a[2], b[1]>>
<1>4. g \in granted /\ h \in granted
    BY <1>3
<1>5. g[1] = v /\ g[2] = a[2] /\ g[3] = a[1] /\ h[1] = v /\ h[2] = a[2] /\ h[3] = b[1]
    OBVIOUS
<1> HIDE DEF g, h
<1>6. CASE v = a[1]
  <2>1. h \in ForeignGrants
    BY <1>4, <1>5, <1>6 DEF ForeignGrants
  <2> QED BY <2>1, <1>5, <1>6 DEF ElectionInv, ElectedHold
<1>7. CASE v = b[1]
  <2>1. g \in ForeignGrants
    BY <1>4, <1>5, <1>7 DEF ForeignGrants
  <2> QED BY <2>1, <1>5, <1>7 DEF ElectionInv, ElectedHold
<1>8. CASE v # a[1] /\ v # b[1]
  <2>1. g \in ForeignGrants /\ h \in ForeignGrants
    BY <1>4, <1>5, <1>8 DEF ForeignGrants
  <2> QED BY <2>1, <1>5 DEF ElectionInv, GrantsHold
<1> QED
    BY <1>6, <1>7, <1>8

\* A majority stays one while votes are only added.
LEMMA MajorityKept ==
    ASSUME LeaderHasMajority, granted \subseteq granted', elected' = elected
    PROVE  LeaderHasMajority'
<1> SUFFICES ASSUME NEW x \in elected
             PROVE  IsQuorum({v \in Node : <<v, x[2], x[1]>> \in granted'})
    BY DEF LeaderHasMajority
<1> DEFINE S == {v \in Node : <<v, x[2], x[1]>> \in granted}
           T == {v \in Node : <<v, x[2], x[1]>> \in granted'}
<1>1. IsQuorum(S)
    BY DEF LeaderHasMajority
<1>2. S \in SUBSET Node /\ T \in SUBSET Node /\ S \subseteq T
    OBVIOUS
<1> QED
    BY <1>1, <1>2, QuorumGrows

\* An election begins: none runs in its node.
LEMMA StartKeepsInv ==
    ASSUME TypeOK, ElectionInv, NEW n \in Node, StartElection(n)
    PROVE  ElectionInv'
<1> DEFINE t == current_term[n] + 1
           g == <<n, t, n>>
<1>1. PICK p \in Peers(n) : elections' = elections \cup {
          [node |-> n, term |-> t, last_idx |-> LastIndex(n), last_term |-> LastTerm(n),
           votes |-> {n}, todo |-> Peers(n) \ {p}, ask |-> p, resp |-> {}]}
    BY DEF StartElection
<1> DEFINE new == [node |-> n, term |-> t, last_idx |-> LastIndex(n),
                   last_term |-> LastTerm(n), votes |-> {n},
                   todo |-> Peers(n) \ {p}, ask |-> p, resp |-> {}]
<1>2. /\ current_term' = [current_term EXCEPT ![n] = t]
      /\ state'   = [state EXCEPT ![n] = "candidate"]
      /\ voted_for' = [voted_for EXCEPT ![n] = n]
      /\ granted' = granted \cup {g}
      /\ elected' = elected
      /\ due' = [due EXCEPT ![n] = FALSE]
      /\ \A e \in elections : e.node # n
    BY DEF StartElection, ElectionInv, OneElection
<1>3. /\ new.node = n /\ new.term = t /\ new.votes = {n} /\ new.resp = {}
      /\ elections' = elections \cup {new}
    BY <1>1
<1>4. /\ \A e \in elections : e.node \in Node /\ e.term \in Nat
      /\ \A x \in granted : x[1] \in Node /\ x[2] \in Nat /\ x[3] \in Node
      /\ \A x \in elected : x[1] \in Node /\ x[2] \in Nat
      /\ t \in Nat /\ current_term \in [Node -> Nat] /\ t = current_term[n] + 1
      /\ due \in [Node -> BOOLEAN]
      /\ voted_for \in [Node -> Node \cup {None}]
      /\ state \in [Node -> {"follower", "candidate", "leader"}]
  <2>1. \A e \in elections : e.node \in Node /\ e.term \in Nat
    BY DEF TypeOK, Election
  <2>2. granted \subseteq Node \X Nat \X Node /\ elected \subseteq Node \X Nat
    BY DEF TypeOK
  <2>3. /\ current_term \in [Node -> Nat] /\ due \in [Node -> BOOLEAN]
        /\ voted_for \in [Node -> Node \cup {None}]
        /\ state \in [Node -> {"follower", "candidate", "leader"}]
    BY DEF TypeOK
  <2>4. current_term[n] \in Nat
    BY <2>3
  <2>5. t \in Nat /\ t = current_term[n] + 1
    BY <2>4
  <2> QED BY <2>1, <2>2, <2>3, <2>5
<1>5. g[1] = n /\ g[2] = t /\ g[3] = n
    OBVIOUS
<1> HIDE DEF new, g, t
<1>6. ForeignGrants' = ForeignGrants
    BY <1>2, <1>5 DEF ForeignGrants
<1>7. OneElection'
    BY <1>2, <1>3, <1>4 DEF OneElection, ElectionInv
<1>8. VotesWereGranted'
  <2>1. <<n, t, n>> \in granted'
    BY <1>2 DEF g
  <2> QED
    BY <1>2, <1>3, <2>1 DEF VotesWereGranted, ElectionInv
<1>9. GrantsHold'
  <2>1. \A x \in granted' : x[2] <= current_term'[x[1]]
    BY <1>2, <1>4, <1>5 DEF GrantsHold, ElectionInv
  <2>2. \A x \in ForeignGrants : x[2] = current_term'[x[1]]
            => voted_for'[x[1]] = x[3] /\ state'[x[1]] = "follower"
    BY <1>2, <1>4 DEF GrantsHold, ElectionInv, ForeignGrants
  <2> QED
    BY <1>6, <2>1, <2>2 DEF GrantsHold, ElectionInv
<1>10. SelfVote'
    BY <1>2, <1>4 DEF SelfVote, ElectionInv
<1>11. ElectedHold'
    BY <1>2, <1>4, <1>6 DEF ElectedHold, ElectionInv
<1>12. LeaderHasMajority'
    BY <1>2, MajorityKept DEF ElectionInv
<1> QED
    BY <1>7, <1>8, <1>9, <1>10, <1>11, <1>12 DEF ElectionInv

\* A vote request that is handled.
LEMMA RequestVoteKeepsInv ==
    ASSUME TypeOK, ElectionInv, NEW m \in messages, HandleRequestVote(m)
    PROVE  ElectionInv'
<1> DEFINE n     == m.dst
           newer == m.term > current_term[n]
           held  == IF newer THEN None ELSE voted_for[n]
           term  == Larger(m.term, current_term[n])
           grant == CanGrant(m, held)
           reply == [term |-> term, vote_granted |-> grant]
           g     == <<n, m.term, m.src>>
<1>1. /\ current_term' = [current_term EXCEPT ![n] = term]
      /\ state'     = [state EXCEPT ![n] = IF newer THEN "follower" ELSE @]
      /\ voted_for' = [voted_for EXCEPT ![n] = IF grant THEN m.src ELSE held]
      /\ granted'   = IF grant THEN granted \cup {g} ELSE granted
      /\ elections' = {Answered(e, m, reply) : e \in elections}
      /\ elected'   = elected
      /\ due'       = due
    BY DEF HandleRequestVote
<1>2. n \in Node /\ m.src \in Node /\ m.term \in Nat
    BY DEF HandleRequestVote, TypeOK, Message
<1>3. /\ \A e \in elections : e.node \in Node /\ e.term \in Nat /\ e \in Election
      /\ \A x \in granted : x[1] \in Node /\ x[2] \in Nat /\ x[3] \in Node
      /\ \A x \in elected : x[1] \in Node /\ x[2] \in Nat
      /\ current_term \in [Node -> Nat]
      /\ voted_for \in [Node -> Node \cup {None}]
      /\ state \in [Node -> {"follower", "candidate", "leader"}]
    BY DEF TypeOK, Election
<1>4. /\ term >= current_term[n] /\ term \in Nat
      /\ newer => term = m.term /\ m.term > current_term[n] /\ held = None
      /\ ~newer => term = current_term[n] /\ held = voted_for[n]
      /\ grant => m.term = term /\ (held = None \/ held = m.src)
    BY <1>2, <1>3 DEF Larger, CanGrant
<1>5. g[1] = n /\ g[2] = m.term /\ g[3] = m.src
    OBVIOUS
<1>6. \A f \in elections' : \E e \in elections :
        /\ f = Answered(e, m, reply)
        /\ f.node = e.node /\ f.term = e.term /\ f.votes = e.votes /\ f.ask = e.ask
        /\ \/ f.resp = e.resp
           \/ /\ f.resp = {reply}
              /\ e.node = m.src /\ e.ask = n /\ e.term = m.term
  <2> SUFFICES ASSUME NEW e \in elections, NEW f, f = Answered(e, m, reply)
               PROVE  /\ f.node = e.node /\ f.term = e.term /\ f.votes = e.votes
                      /\ f.ask = e.ask
                      /\ \/ f.resp = e.resp
                         \/ /\ f.resp = {reply}
                            /\ e.node = m.src /\ e.ask = n /\ e.term = m.term
    BY <1>1
  <2> HIDE DEF reply
  <2>1. e \in Election
    BY <1>3
  <2>2. CASE f = e
    BY <2>2
  <2>3. CASE VoteRequest(e) = m /\ f = [e EXCEPT !.resp = {reply}]
    <3>1. e.node = m.src /\ e.ask = n /\ e.term = m.term
      BY <2>3 DEF VoteRequest
    <3>2. /\ f.node = e.node /\ f.term = e.term /\ f.votes = e.votes
          /\ f.ask = e.ask /\ f.resp = {reply}
      BY <2>1, <2>3 DEF Election
    <3> QED BY <3>1, <3>2
  <2> QED
    BY <2>2, <2>3 DEF Answered
<1>7. reply.vote_granted = grant
    OBVIOUS
<1> HIDE DEF n, newer, held, term, grant, reply, g
<1>8. OneElection'
  <2>1. \A e, f \in elections' : e.node = f.node => e = f
    BY <1>6 DEF OneElection, ElectionInv
  <2>2. ASSUME NEW f \in elections', state'[f.node] = "candidate"
        PROVE  f.term = current_term'[f.node]
    <3>1. PICK e \in elections : f.node = e.node /\ f.term = e.term
      BY <1>6
    <3>2. state[e.node] = "candidate" /\ current_term'[e.node] = current_term[e.node]
      BY <1>1, <1>3, <1>4, <2>2, <3>1
    <3> QED
      BY <3>1, <3>2 DEF OneElection, ElectionInv
  <2>3. \A e \in elections' : ~due'[e.node]
    BY <1>1, <1>6 DEF OneElection, ElectionInv
  <2> QED
    BY <2>1, <2>2, <2>3 DEF OneElection
<1>9. VotesWereGranted'
  <2> SUFFICES ASSUME NEW f \in elections'
               PROVE  /\ \A v \in f.votes : <<v, f.term, f.node>> \in granted'
                      /\ \A r \in f.resp : r.vote_granted
                            => <<f.ask, f.term, f.node>> \in granted'
    BY DEF VotesWereGranted
  <2>1. PICK e \in elections :
          /\ f.node = e.node /\ f.term = e.term /\ f.votes = e.votes /\ f.ask = e.ask
          /\ \/ f.resp = e.resp
             \/ /\ f.resp = {reply}
                /\ e.node = m.src /\ e.ask = n /\ e.term = m.term
    BY <1>6
  <2>2. granted \subseteq granted'
    BY <1>1
  <2>3. \A v \in f.votes : <<v, f.term, f.node>> \in granted'
    BY <2>1, <2>2 DEF VotesWereGranted, ElectionInv
  <2>4. CASE f.resp = e.resp
    BY <2>1, <2>2, <2>3, <2>4 DEF VotesWereGranted, ElectionInv
  <2>5. CASE f.resp = {reply} /\ e.node = m.src /\ e.ask = n /\ e.term = m.term
    <3>1. grant => <<f.ask, f.term, f.node>> \in granted'
      BY <1>1, <2>1, <2>5 DEF g
    <3> QED BY <1>7, <2>3, <2>5, <3>1
  <2> QED BY <2>1, <2>4, <2>5
<1>10. ForeignGrants' \subseteq ForeignGrants \cup {g}
    BY <1>1 DEF ForeignGrants
\* a vote just given to another was the voter's first in this term, or repeats it
<1>11. g \in ForeignGrants' /\ grant /\ ~newer => state[n] = "follower"
    BY <1>2, <1>3, <1>4, <1>5, NodeAssumption DEF SelfVote, ElectionInv, ForeignGrants
<1>12. GrantsHold'
  <2>1. \A x \in granted' : x[2] <= current_term'[x[1]]
    BY <1>1, <1>2, <1>3, <1>4, <1>5 DEF GrantsHold, ElectionInv
  <2>2. \A x \in ForeignGrants : x[2] = current_term'[x[1]]
            => voted_for'[x[1]] = x[3] /\ state'[x[1]] = "follower"
    <3> SUFFICES ASSUME NEW x \in ForeignGrants, x[2] = current_term'[x[1]]
                 PROVE  voted_for'[x[1]] = x[3] /\ state'[x[1]] = "follower"
      OBVIOUS
    <3>1. x \in granted /\ x[2] <= current_term[x[1]] /\ x[1] \in Node /\ x[2] \in Nat
          /\ x[3] \in Node
      BY <1>3 DEF ForeignGrants, GrantsHold, ElectionInv
    <3>2. CASE x[1] # n
      BY <1>1, <1>3, <3>1, <3>2 DEF GrantsHold, ElectionInv
    <3>3. CASE x[1] = n
      <4>1. ~newer /\ x[2] = current_term[n]
        BY <1>1, <1>2, <1>3, <1>4, <3>1, <3>3
      <4>2. voted_for[n] = x[3] /\ state[n] = "follower"
        BY <3>3, <4>1 DEF GrantsHold, ElectionInv
      <4> QED
        BY <1>1, <1>2, <1>3, <1>4, <3>1, <3>3, <4>1, <4>2, NodeAssumption
    <3> QED BY <3>2, <3>3
  <2>3. ASSUME grant, g \in ForeignGrants'
        PROVE  /\ g[2] = current_term'[g[1]]
               /\ voted_for'[g[1]] = g[3] /\ state'[g[1]] = "follower"
               /\ \A x \in ForeignGrants : x[1] = g[1] /\ x[2] = g[2] => x[3] = g[3]
    <3>1. g[2] = current_term'[g[1]] /\ voted_for'[g[1]] = g[3] /\ state'[g[1]] = "follower"
      BY <1>1, <1>2, <1>3, <1>4, <1>5, <1>11, <2>3
    <3>2. ASSUME NEW x \in ForeignGrants, x[1] = g[1], x[2] = g[2]
          PROVE  x[3] = g[3]
      <4>1. voted_for'[g[1]] = x[3]
        BY <2>2, <3>1, <3>2
      <4> QED BY <3>1, <4>1
    <3> QED BY <3>1, <3>2
  <2>4. ~grant => ForeignGrants' = ForeignGrants
    BY <1>1 DEF ForeignGrants
  <2>5. \A x, y \in ForeignGrants' : x[1] = y[1] /\ x[2] = y[2] => x[3] = y[3]
    BY <1>10, <2>3, <2>4 DEF GrantsHold, ElectionInv
  <2> QED
    BY <1>10, <2>1, <2>2, <2>3, <2>4, <2>5 DEF GrantsHold
<1>13. SelfVote'
    BY <1>1, <1>2, <1>3, <1>4, NodeAssumption DEF SelfVote, ElectionInv
<1>14. ElectedHold'
  <2> SUFFICES ASSUME NEW x \in elected
               PROVE  /\ x[2] <= current_term'[x[1]]
                      /\ x[2] = current_term'[x[1]] => state'[x[1]] = "leader"
                      /\ \A y \in ForeignGrants' : ~(y[1] = x[1] /\ y[2] = x[2])
    BY <1>1 DEF ElectedHold
  <2>1. /\ x[2] <= current_term[x[1]]
        /\ x[2] = current_term[x[1]] => state[x[1]] = "leader"
        /\ \A y \in ForeignGrants : ~(y[1] = x[1] /\ y[2] = x[2])
    BY DEF ElectedHold, ElectionInv
  <2>2. x[2] <= current_term'[x[1]] /\ (x[2] = current_term'[x[1]] => state'[x[1]] = "leader")
    BY <1>1, <1>2, <1>3, <1>4, <2>1
  <2>3. ASSUME grant, g \in ForeignGrants', g[1] = x[1], g[2] = x[2] PROVE FALSE
    <3>1. ~newer /\ x[2] = current_term[n]
      BY <1>2, <1>3, <1>4, <1>5, <2>1, <2>3
    <3>2. state[n] = "leader"
      BY <1>5, <2>1, <2>3, <3>1
    <3> QED BY <1>11, <2>3, <3>1, <3>2
  <2>4. ~grant => ForeignGrants' = ForeignGrants
    BY <1>1 DEF ForeignGrants
  <2> QED
    BY <1>10, <2>1, <2>2, <2>3, <2>4
<1>15. LeaderHasMajority'
  <2>1. granted \subseteq granted'
    BY <1>1
  <2> QED
    BY <1>1, <2>1, MajorityKept DEF ElectionInv
<1> QED
    BY <1>8, <1>9, <1>12, <1>13, <1>14, <1>15 DEF ElectionInv

\* A step of a task that keeps the grants, the voters' fields and, of the tasks,
\* at most drops some.
LEMMA DropKeepsInv ==
    ASSUME TypeOK, ElectionInv, elections' \subseteq elections,
           UNCHANGED <<current_term, voted_for, state, due, elected, granted>>
    PROVE  ElectionInv'
<1>1. OneElection' /\ VotesWereGranted'
    BY DEF OneElection, VotesWereGranted, ElectionInv
<1>2. ForeignGrants' = ForeignGrants
    BY DEF ForeignGrants
<1>3. GrantsHold' /\ SelfVote' /\ ElectedHold'
    BY <1>2 DEF GrantsHold, SelfVote, ElectedHold, ElectionInv
<1>4. LeaderHasMajority'
    BY MajorityKept DEF ElectionInv
<1> QED
    BY <1>1, <1>3, <1>4 DEF ElectionInv

\* _become_follower in a higher term, or of a candidate in its own.
LEMMA FollowerKeepsInv ==
    ASSUME TypeOK, ElectionInv, NEW n \in Node, NEW t \in Nat, BecomeFollower(n, t),
           t > current_term[n] \/ (t = current_term[n] /\ state[n] = "candidate"),
           elections' \subseteq elections, UNCHANGED <<due, elected, granted>>
    PROVE  ElectionInv'
<1>1. /\ current_term' = [current_term EXCEPT ![n] = t]
      /\ state'     = [state EXCEPT ![n] = "follower"]
      /\ voted_for' = [voted_for EXCEPT ![n] = None]
    BY DEF BecomeFollower
<1>2. /\ \A e \in elections : e.node \in Node /\ e.term \in Nat
      /\ \A x \in granted : x[1] \in Node /\ x[2] \in Nat /\ x[3] \in Node
      /\ \A x \in elected : x[1] \in Node /\ x[2] \in Nat
      /\ current_term \in [Node -> Nat]
      /\ voted_for \in [Node -> Node \cup {None}]
      /\ state \in [Node -> {"follower", "candidate", "leader"}]
    BY DEF TypeOK, Election
<1>3. ForeignGrants' = ForeignGrants
    BY DEF ForeignGrants
<1>4. OneElection' /\ VotesWereGranted'
    BY <1>1, <1>2 DEF OneElection, VotesWereGranted, ElectionInv
<1>5. GrantsHold'
  <2>1. \A x \in granted' : x[2] <= current_term'[x[1]]
    BY <1>1, <1>2 DEF GrantsHold, ElectionInv
  <2>2. \A x \in ForeignGrants : x[2] = current_term'[x[1]]
            => voted_for'[x[1]] = x[3] /\ state'[x[1]] = "follower"
    BY <1>1, <1>2 DEF GrantsHold, ElectionInv, ForeignGrants
  <2> QED
    BY <1>3, <2>1, <2>2 DEF GrantsHold, ElectionInv
<1>6. SelfVote'
    BY <1>1, <1>2 DEF SelfVote, ElectionInv
<1>7. ElectedHold'
    BY <1>1, <1>2, <1>3 DEF ElectedHold, ElectionInv
<1>8. LeaderHasMajority'
    BY MajorityKept DEF ElectionInv
<1> QED
    BY <1>4, <1>5, <1>6, <1>7, <1>8 DEF ElectionInv

\* An election that goes on with the votes it has.
LEMMA ContinueKeepsInv ==
    ASSUME TypeOK, ElectionInv, NEW e \in elections, NEW votes \in SUBSET Node,
           \A v \in votes : <<v, e.term, e.node>> \in granted,
           Continue(e, votes), UNCHANGED <<due, granted>>
    PROVE  ElectionInv'
<1>1. e \in Election /\ e.node \in Node
    BY DEF TypeOK, Election
<1>2. CASE LoseElection(e, votes) \/ AbandonElection(e)
    BY <1>2, DropKeepsInv DEF LoseElection, AbandonElection
<1>3. CASE AskNextPeer(e, votes)
  <2>1. PICK p \in e.todo :
          elections' = (elections \ {e}) \cup
            {[e EXCEPT !.votes = votes, !.todo = @ \ {p}, !.ask = p, !.resp = {}]}
    BY <1>3 DEF AskNextPeer
  <2> DEFINE next == [e EXCEPT !.votes = votes, !.todo = @ \ {p}, !.ask = p, !.resp = {}]
  <2>2. next.node = e.node /\ next.term = e.term /\ next.votes = votes /\ next.resp = {}
    BY <1>1 DEF Election
  <2>3. elections' = (elections \ {e}) \cup {next}
    BY <2>1
  <2> HIDE DEF next
  <2>4. UNCHANGED <<current_term, voted_for, state, elected>>
    BY <1>3 DEF AskNextPeer
  <2>5. OneElection'
    BY <2>2, <2>3, <2>4 DEF OneElection, ElectionInv
  <2>6. VotesWereGranted'
    BY <2>2, <2>3 DEF VotesWereGranted, ElectionInv
  <2>7. ForeignGrants' = ForeignGrants
    BY DEF ForeignGrants
  <2>8. GrantsHold' /\ SelfVote' /\ ElectedHold'
    BY <2>4, <2>7 DEF GrantsHold, SelfVote, ElectedHold, ElectionInv
  <2>9. LeaderHasMajority'
    BY <2>4, MajorityKept DEF ElectionInv
  <2> QED
    BY <2>5, <2>6, <2>8, <2>9 DEF ElectionInv
<1>4. CASE WinElection(e, votes)
  <2> DEFINE n == e.node
             x == <<n, current_term[n]>>
  <2>1. /\ state[n] = "candidate"
        /\ state'     = [state EXCEPT ![n] = "leader"]
        /\ elected'   = elected \cup {x}
        /\ elections' = elections \ {e}
        /\ UNCHANGED <<current_term, voted_for>>
        /\ Cardinality(votes) >= Majority(n)
    BY <1>4 DEF WinElection
  <2>2. e.term = current_term[n]
    BY <2>1 DEF OneElection, ElectionInv
  <2>3. /\ \A f \in elections : f.node \in Node
        /\ \A y \in granted : y[1] \in Node
        /\ \A y \in elected : y[1] \in Node /\ y[2] \in Nat
        /\ state \in [Node -> {"follower", "candidate", "leader"}]
        /\ current_term \in [Node -> Nat]
    BY DEF TypeOK, Election
  <2>4. x[1] = n /\ x[2] = current_term[n]
    OBVIOUS
  <2>5. LeaderHasMajority'
    <3>1. IsQuorum({v \in Node : <<v, current_term[n], n>> \in granted})
      <4>1. votes \subseteq {v \in Node : <<v, current_term[n], n>> \in granted}
        BY <2>2
      <4>2. IsQuorum(votes)
        BY <1>1, <2>1, MajorityIsQuorum
      <4> HIDE DEF n
      <4> QED
        BY <4>1, <4>2, QuorumGrows
    <3> QED
      BY <2>1, <2>4, <3>1 DEF LeaderHasMajority, ElectionInv
  <2> HIDE DEF n, x
  <2>6. n \in Node /\ n = e.node
    BY <1>1 DEF n
  <2>7. OneElection' /\ VotesWereGranted'
    BY <2>1, <2>3, <2>6 DEF OneElection, VotesWereGranted, ElectionInv
  <2>8. ForeignGrants' = ForeignGrants
    BY DEF ForeignGrants
  <2>9. GrantsHold'
    BY <2>1, <2>3, <2>6, <2>8 DEF GrantsHold, ElectionInv, ForeignGrants
  <2>10. SelfVote'
    BY <2>1, <2>3, <2>6 DEF SelfVote, ElectionInv
  <2>11. \A g \in ForeignGrants : ~(g[1] = n /\ g[2] = current_term[n])
    BY <2>1 DEF GrantsHold, ElectionInv
  <2>12. ElectedHold'
    BY <2>1, <2>3, <2>4, <2>6, <2>8, <2>11 DEF ElectedHold, ElectionInv
  <2> QED
    BY <2>5, <2>7, <2>9, <2>10, <2>12 DEF ElectionInv
<1> QED
    BY <1>2, <1>3, <1>4 DEF Continue

\* An election that reads a reply.
LEMMA ReceiveVoteKeepsInv ==
    ASSUME TypeOK, ElectionInv, NEW e \in elections, ReceiveVote(e)
    PROVE  ElectionInv'
<1>1. PICK r \in e.resp :
        \/ r.term > current_term[e.node] /\ StepDown(e, r.term)
        \/ Continue(e, IF r.vote_granted THEN e.votes \cup {e.ask} ELSE e.votes)
    BY DEF ReceiveVote
<1>2. /\ e.node \in Node /\ e.ask \in Node /\ e.votes \in SUBSET Node
      /\ r.term \in Nat
    BY DEF TypeOK, Election, Reply
<1>3. UNCHANGED <<due, granted>>
    BY DEF ReceiveVote
<1>4. CASE r.term > current_term[e.node] /\ StepDown(e, r.term)
    BY <1>2, <1>3, <1>4, FollowerKeepsInv DEF StepDown
<1>5. CASE Continue(e, IF r.vote_granted THEN e.votes \cup {e.ask} ELSE e.votes)
  <2> DEFINE votes == IF r.vote_granted THEN e.votes \cup {e.ask} ELSE e.votes
  <2>1. votes \in SUBSET Node
    BY <1>2
  <2>2. \A v \in votes : <<v, e.term, e.node>> \in granted
    BY <1>1 DEF VotesWereGranted, ElectionInv
  <2> HIDE DEF votes
  <2> QED
    BY <1>3, <1>5, <2>1, <2>2, ContinueKeepsInv DEF votes
<1> QED
    BY <1>1, <1>4, <1>5

\* Entries that are appended or rejected.
LEMMA AppendKeepsInv ==
    ASSUME TypeOK, ElectionInv, NEW m \in messages, HandleAppendEntries(m)
    PROVE  ElectionInv'
<1>1. m.dst \in Node /\ m.term \in Nat /\ current_term[m.dst] \in Nat
    BY DEF HandleAppendEntries, TypeOK, Message
<1>2. UNCHANGED <<due, elections, elected, granted>>
    BY DEF HandleAppendEntries, RejectEntries, AcceptEntries, roleVars, hist
<1>3. CASE UNCHANGED <<current_term, voted_for, state>>
    BY <1>2, <1>3, DropKeepsInv
<1>4. CASE /\ m.term > current_term[m.dst] \/ state[m.dst] = "candidate"
           /\ m.term >= current_term[m.dst]
           /\ BecomeFollower(m.dst, m.term)
    BY <1>1, <1>2, <1>4, FollowerKeepsInv
<1> QED
    BY <1>3, <1>4 DEF HandleAppendEntries, RejectEntries, AcceptEntries, roleVars

\* A timer fires: no election runs in its node, or it leads.
LEMMA TimerKeepsInv ==
    ASSUME TypeOK, ElectionInv, ~ElectionsOverlap, NEW n \in Node, TimerFires(n)
    PROVE  ElectionInv'
<1>1. UNCHANGED <<current_term, voted_for, state, elections, elected, granted>>
    BY DEF TimerFires, hist
<1>2. CASE due' = due
    BY <1>1, <1>2, DropKeepsInv
<1>3. CASE due' = [due EXCEPT ![n] = TRUE] /\ \A e \in elections : e.node # n
  <2>1. due \in [Node -> BOOLEAN] /\ \A e \in elections : e.node \in Node
    BY DEF TypeOK, Election
  <2>2. OneElection'
    BY <1>1, <1>3, <2>1 DEF OneElection, ElectionInv
  <2>3. VotesWereGranted' /\ ForeignGrants' = ForeignGrants
    BY <1>1 DEF VotesWereGranted, ForeignGrants, ElectionInv
  <2>4. GrantsHold' /\ SelfVote' /\ ElectedHold'
    BY <1>1, <2>3 DEF GrantsHold, SelfVote, ElectedHold, ElectionInv
  <2>5. LeaderHasMajority'
    BY <1>1, MajorityKept DEF ElectionInv
  <2> QED
    BY <2>2, <2>3, <2>4, <2>5 DEF ElectionInv
<1> QED
    BY <1>2, <1>3 DEF TimerFires

\* The steps that touch neither votes, roles nor elections.
LEMMA OtherStepsKeepInv ==
    ASSUME TypeOK, ElectionInv, UNCHANGED electionVars
    PROVE  ElectionInv'
    BY DropKeepsInv DEF electionVars

\* Votes, tasks and terms fit together (raft.py _start_election against
\* handle_request_vote and handle_append_entries) when no timer fires during an
\* election of its own node and no process restarts; both are needed.
THEOREM ElectionInvariant ==
    ASSUME ~ElectionsOverlap, MaxRestarts = 0
    PROVE  Spec => []ElectionInv
<1>1. Init => ElectionInv
    BY DEF Init, ElectionInv, OneElection, VotesWereGranted, GrantsHold, SelfVote,
           ElectedHold, LeaderHasMajority, ForeignGrants
<1>2. ASSUME TypeOK, ElectionInv, [Next]_vars PROVE ElectionInv'
  <2> USE <1>2
  <2>1. ASSUME NEW n \in Node, StartElection(n) PROVE ElectionInv'
    BY <2>1, StartKeepsInv
  <2>2. ASSUME NEW m \in messages, HandleRequestVote(m) PROVE ElectionInv'
    BY <2>2, RequestVoteKeepsInv
  <2>3. ASSUME NEW m \in messages, HandleAppendEntries(m) PROVE ElectionInv'
    BY <2>3, AppendKeepsInv
  <2>4. ASSUME NEW e \in elections, ReceiveVote(e) PROVE ElectionInv'
    BY <2>4, ReceiveVoteKeepsInv
  <2>5. ASSUME NEW e \in elections, VoteRpcFails(e) PROVE ElectionInv'
    <3>1. e.votes \in SUBSET Node /\ \A v \in e.votes : <<v, e.term, e.node>> \in granted
      BY DEF TypeOK, Election, VotesWereGranted, ElectionInv
    <3>2. Continue(e, e.votes) /\ UNCHANGED <<due, granted>>
      BY <2>5 DEF VoteRpcFails
    <3> QED
      BY <3>1, <3>2, ContinueKeepsInv
  <2>6. ASSUME NEW n \in Node, Boot(n) \/ SendHeartbeats(n)
        PROVE ElectionInv'
    BY <2>6, OtherStepsKeepInv
       DEF Boot, SendHeartbeats, roleVars, hist, electionVars
  <2>12. ASSUME NEW n \in Node, TimerFires(n) PROVE ElectionInv'
    BY <2>12, TimerKeepsInv
  <2>7. ASSUME NEW n \in Node, NEW c \in Command, Submit(n, c) PROVE ElectionInv'
    BY <2>7, OtherStepsKeepInv DEF Submit, roleVars, electionVars
  <2>8. ASSUME NEW r \in replications, NEW p \in Peers(r.node), ReplicateRpcFails(r, p)
        PROVE ElectionInv'
    BY <2>8, OtherStepsKeepInv DEF ReplicateRpcFails, roleVars, hist, electionVars
  <2>9. ASSUME NEW r \in replications, FinishReplication(r) PROVE ElectionInv'
    BY <2>9, OtherStepsKeepInv DEF FinishReplication, CommitEntry, DropEntry, roleVars, electionVars
  <2>10. ASSUME NEW n \in Node, Restart(n) PROVE ElectionInv'
    BY <2>10 DEF Restart, TypeOK
  <2>11. CASE UNCHANGED vars
    BY <2>11, OtherStepsKeepInv DEF vars, electionVars
  <2> QED
    BY <2>1, <2>2, <2>3, <2>4, <2>5, <2>6, <2>7, <2>8, <2>9, <2>10, <2>11, <2>12
    DEF Next
<1> QED
    BY <1>1, <1>2, TypeCorrect, PTL DEF Spec

\* No term has two leaders (raft.py _become_leader), for any cluster size, as
\* long as an election does not outlive its node's timer and no node restarts.
THEOREM ElectionSafetyHolds ==
    ASSUME ~ElectionsOverlap, MaxRestarts = 0
    PROVE  Spec => []ElectionSafety
<1>1. TypeOK /\ ElectionInv => ElectionSafety
    BY InvImpliesSafety
<1> QED
    BY <1>1, TypeCorrect, ElectionInvariant, PTL

\* Under the same assumptions every leader had a majority of its term's votes.
THEOREM LeaderHasMajorityHolds ==
    ASSUME ~ElectionsOverlap, MaxRestarts = 0
    PROVE  Spec => []LeaderHasMajority
<1>1. ElectionInv => LeaderHasMajority
    BY DEF ElectionInv
<1> QED
    BY <1>1, ElectionInvariant, PTL

----------------------------------------------------------------------------
(* What a step may never do *)

\* What any step does to the term, vote and role of one node.
RoleStep(n) ==
    \/ /\ current_term'[n] = current_term[n]       \* nothing, or a vote
       /\ state'[n] = state[n]
       /\ voted_for'[n] = voted_for[n] \/ voted_for[n] = None
    \/ /\ current_term'[n] = current_term[n] + 1   \* an election begins
       /\ state'[n] = "candidate"
       /\ voted_for'[n] = n
    \/ /\ state'[n] = "follower"                   \* a term or a leader is accepted
       /\ \/ current_term'[n] > current_term[n]
          \/ current_term'[n] = current_term[n] /\ state[n] = "candidate"
    \/ /\ state[n] = "candidate"                   \* an election is won
       /\ state'[n] = "leader"
       /\ current_term'[n] = current_term[n]
       /\ voted_for'[n] = voted_for[n]

\* Nobody restarts if restarts are not allowed or none was counted.
LEMMA NoRestart ==
    ASSUME TypeOK, MaxRestarts = 0 \/ restarts' = restarts, NEW n \in Node
    PROVE  ~Restart(n)
    BY DEF Restart, TypeOK

\* Only a restart is counted as one.
LEMMA OnlyRestartsCount ==
    ASSUME [Next]_vars, restarts' # restarts
    PROVE  \E n \in Node : Restart(n)
<1>1. \A n \in Node : ~(Boot(n) \/ TimerFires(n) \/ StartElection(n) \/ SendHeartbeats(n))
    BY DEF Boot, TimerFires, StartElection, SendHeartbeats
<1>2. \A n \in Node, c \in Command : ~Submit(n, c)
    BY DEF Submit
<1>3. \A m \in messages : ~(HandleRequestVote(m) \/ HandleAppendEntries(m))
    BY DEF HandleRequestVote, HandleAppendEntries
<1>4. \A e \in elections : ~(ReceiveVote(e) \/ VoteRpcFails(e))
    BY DEF ReceiveVote, VoteRpcFails
<1>5. \A r \in replications :
        /\ \A p \in Peers(r.node) : ~ReplicateRpcFails(r, p)
        /\ ~FinishReplication(r)
    BY DEF ReplicateRpcFails, FinishReplication
<1> QED
    BY <1>1, <1>2, <1>3, <1>4, <1>5 DEF Next, vars

\* A step that restarts no process does one of these to a node's role.
LEMMA RoleSteps ==
    ASSUME TypeOK, restarts' = restarts, [Next]_vars, NEW k \in Node
    PROVE  RoleStep(k)
<1>1. /\ current_term \in [Node -> Nat] /\ voted_for \in [Node -> Node \cup {None}]
      /\ state \in [Node -> {"follower", "candidate", "leader"}]
    BY DEF TypeOK
<1>2. CASE UNCHANGED <<current_term, voted_for, state>>
    BY <1>2 DEF RoleStep
<1>3. ASSUME NEW n \in Node, StartElection(n) PROVE RoleStep(k)
    BY <1>1, <1>3 DEF StartElection, RoleStep
<1>4. ASSUME NEW m \in messages, HandleRequestVote(m) PROVE RoleStep(k)
  <2> DEFINE n     == m.dst
             newer == m.term > current_term[n]
             held  == IF newer THEN None ELSE voted_for[n]
             grant == CanGrant(m, held)
  <2>1. n \in Node /\ m.term \in Nat
    BY <1>4 DEF HandleRequestVote, TypeOK, Message
  <2>2. /\ current_term' = [current_term EXCEPT ![n] = Larger(m.term, @)]
        /\ state'     = [state EXCEPT ![n] = IF newer THEN "follower" ELSE @]
        /\ voted_for' = [voted_for EXCEPT ![n] = IF grant THEN m.src ELSE held]
    BY <1>4 DEF HandleRequestVote
  <2>3. grant => held \in {None, m.src}
    BY DEF CanGrant
  <2> HIDE DEF n, grant
  <2> QED
    BY <1>1, <2>1, <2>2, <2>3 DEF Larger, RoleStep
<1>5. ASSUME NEW m \in messages, HandleAppendEntries(m) PROVE RoleStep(k)
  <2>1. m.dst \in Node /\ m.term \in Nat
    BY <1>5 DEF HandleAppendEntries, TypeOK, Message
  <2>2. current_term[m.dst] \in Nat
    BY <1>1, <2>1
  <2>3. CASE UNCHANGED <<current_term, voted_for, state>>
    BY <1>2, <2>3
  <2>4. CASE /\ m.term > current_term[m.dst] \/ state[m.dst] = "candidate"
             /\ m.term >= current_term[m.dst]
             /\ BecomeFollower(m.dst, m.term)
    <3>1. \/ m.term > current_term[m.dst]
          \/ m.term = current_term[m.dst] /\ state[m.dst] = "candidate"
      BY <2>1, <2>2, <2>4
    <3> QED
      BY <1>1, <2>1, <2>4, <3>1 DEF BecomeFollower, RoleStep
  <2> QED
    BY <1>5, <2>3, <2>4 DEF HandleAppendEntries, RejectEntries, AcceptEntries, roleVars
<1>6. ASSUME NEW e \in elections, NEW votes, Continue(e, votes) PROVE RoleStep(k)
  <2>1. e.node \in Node
    BY DEF TypeOK, Election
  <2>2. CASE WinElection(e, votes)
    BY <1>1, <2>1, <2>2 DEF WinElection, RoleStep
  <2>3. CASE LoseElection(e, votes) \/ AbandonElection(e) \/ AskNextPeer(e, votes)
    BY <1>2, <2>3 DEF LoseElection, AbandonElection, AskNextPeer
  <2> QED
    BY <1>6, <2>2, <2>3 DEF Continue
<1>7. ASSUME NEW e \in elections, ReceiveVote(e) PROVE RoleStep(k)
  <2>1. PICK r \in e.resp :
          \/ r.term > current_term[e.node] /\ BecomeFollower(e.node, r.term)
          \/ Continue(e, IF r.vote_granted THEN e.votes \cup {e.ask} ELSE e.votes)
    BY <1>7 DEF ReceiveVote, StepDown
  <2>2. e.node \in Node /\ r.term \in Nat
    BY DEF TypeOK, Election, Reply
  <2> QED
    BY <1>1, <1>6, <2>1, <2>2 DEF BecomeFollower, RoleStep
<1>8. ASSUME NEW e \in elections, VoteRpcFails(e) PROVE RoleStep(k)
    BY <1>6, <1>8 DEF VoteRpcFails
<1>9. ASSUME NEW n \in Node, Boot(n) \/ TimerFires(n) \/ SendHeartbeats(n)
      PROVE RoleStep(k)
    BY <1>2, <1>9 DEF Boot, TimerFires, SendHeartbeats, roleVars
<1>10. ASSUME NEW n \in Node, NEW c \in Command, Submit(n, c) PROVE RoleStep(k)
    BY <1>2, <1>10 DEF Submit, roleVars
<1>11. ASSUME NEW r \in replications, NEW p \in Peers(r.node), ReplicateRpcFails(r, p)
       PROVE RoleStep(k)
    BY <1>2, <1>11 DEF ReplicateRpcFails, roleVars
<1>12. ASSUME NEW r \in replications, FinishReplication(r) PROVE RoleStep(k)
    BY <1>2, <1>12 DEF FinishReplication, CommitEntry, DropEntry, roleVars
<1>13. ASSUME NEW n \in Node, Restart(n) PROVE RoleStep(k)
    BY <1>13, NoRestart
<1>14. CASE UNCHANGED vars
    BY <1>2, <1>14 DEF vars
<1> QED
    BY <1>3, <1>4, <1>5, <1>7, <1>8, <1>9, <1>10, <1>11, <1>12, <1>13, <1>14 DEF Next

\* A node's term goes back only when its process is restarted, overlapping elections
\* and stale replies included (raft.py handle_request_vote, _start_election).
THEOREM TermMonotoneHolds == Spec => TermMonotone
<1>1. ASSUME TypeOK, [Next]_vars, restarts' = restarts
      PROVE  \A n \in Node : current_term'[n] >= current_term[n]
  <2>1. \A n \in Node : RoleStep(n) /\ current_term[n] \in Nat
    BY <1>1, RoleSteps DEF TypeOK
  <2>2. \A n \in Node : current_term'[n] \in Nat
    BY <1>1, StepKeepsTypes DEF TypeOK
  <2> QED
    BY <2>1, <2>2 DEF RoleStep
<1> QED
    BY <1>1, TypeCorrect, PTL DEF Spec, TermMonotone

\* A vote given to another is neither taken back nor given again in its term unless
\* the process restarts, overlapping elections included.
THEOREM VoteStableHolds == Spec => VoteStable
<1>1. Init => SelfVote
    BY DEF Init, SelfVote
<1>2. ASSUME TypeOK, SelfVote, [Next]_vars PROVE SelfVote'
  <2>1. CASE restarts' = restarts
    <3>1. \A n \in Node : RoleStep(n) /\ n # None
      BY <1>2, <2>1, RoleSteps, NodeAssumption
    <3> QED
      BY <1>2, <3>1 DEF RoleStep, SelfVote
  <2>2. ASSUME NEW k \in Node, Restart(k) PROVE SelfVote'
    <3>1. /\ state' = [state EXCEPT ![k] = "follower"]
          /\ voted_for' = [voted_for EXCEPT ![k] = None]
          /\ state \in [Node -> {"follower", "candidate", "leader"}]
          /\ voted_for \in [Node -> Node \cup {None}]
      BY <1>2, <2>2 DEF Restart, TypeOK
    <3> QED
      BY <1>2, <3>1 DEF SelfVote
  <2> QED
    BY <1>2, <2>1, <2>2, OnlyRestartsCount
<1>3. ASSUME TypeOK, SelfVote, [Next]_vars, restarts' = restarts
      PROVE  \A n \in Node :
                current_term'[n] = current_term[n] /\ voted_for[n] \notin {None, n}
                    => voted_for'[n] = voted_for[n]
  <2>1. \A n \in Node : RoleStep(n) /\ current_term[n] \in Nat
    BY <1>3, RoleSteps DEF TypeOK
  <2> QED
    BY <1>3, <2>1 DEF RoleStep, SelfVote
<1> QED
    BY <1>1, <1>2, <1>3, TypeCorrect, PTL DEF Spec, VoteStable

----------------------------------------------------------------------------
(* Nobody is stuck *)

\* Inductive form of NotStuck: a follower has a timer or an election about to begin;
\* a candidate has one of these or an election.
HasTask(n) ==
    /\ state[n] = "follower"  => timer[n] \/ due[n]
    /\ state[n] = "candidate" => timer[n] \/ due[n] \/ \E e \in elections : e.node = n

NotStuckInv == \A n \in Node : booted[n] => HasTask(n)

\* A step that only drops an election of n leaves the other nodes waiting.
LEMMA OthersWait ==
    ASSUME TypeOK, NotStuckInv, NEW n \in Node, booted' = booted,
           \A k \in Node \ {n} :
               state'[k] = state[k] /\ timer'[k] = timer[k] /\ due'[k] = due[k],
           \A e \in elections : e.node # n => e \in elections',
           booted[n] => HasTask(n)'
    PROVE  NotStuckInv'
<1> SUFFICES ASSUME NEW k \in Node, booted[k] PROVE HasTask(k)'
    BY DEF NotStuckInv
<1>1. CASE k = n
    BY <1>1
<1>2. CASE k # n
    BY <1>2 DEF NotStuckInv, HasTask
<1> QED BY <1>1, <1>2

\* An election that goes on or ends leaves its node something to wait for.
LEMMA ContinueKeepsWaiting ==
    ASSUME TypeOK, NotStuckInv, NEW e \in elections, NEW votes,
           Continue(e, votes), UNCHANGED <<booted, due>>
    PROVE  NotStuckInv'
<1> DEFINE n == e.node
<1>1. n \in Node /\ e \in Election
    BY DEF TypeOK, Election
<1>2. state \in [Node -> {"follower", "candidate", "leader"}] /\ timer \in [Node -> BOOLEAN]
    BY DEF TypeOK
<1>3. \A k \in Node \ {n} :
        state'[k] = state[k] /\ timer'[k] = timer[k] /\ due'[k] = due[k]
    BY <1>1, <1>2 DEF Continue, WinElection, LoseElection, AbandonElection, AskNextPeer
<1>4. \A f \in elections : f.node # n => f \in elections'
    BY DEF Continue, WinElection, LoseElection, AbandonElection, AskNextPeer
<1>5. ASSUME booted[n] PROVE HasTask(n)'
  <2>1. HasTask(n)
    BY <1>1, <1>5 DEF NotStuckInv
  <2>2. CASE WinElection(e, votes)
    BY <1>1, <1>2, <2>2 DEF WinElection, HasTask
  <2>3. CASE LoseElection(e, votes)
    BY <1>1, <1>2, <2>3 DEF LoseElection, HasTask
  <2>4. CASE AbandonElection(e)
    BY <1>1, <1>2, <2>1, <2>4 DEF AbandonElection, HasTask
  <2>5. CASE AskNextPeer(e, votes)
    <3>1. PICK p \in e.todo :
            elections' = (elections \ {e}) \cup
              {[e EXCEPT !.votes = votes, !.todo = @ \ {p}, !.ask = p, !.resp = {}]}
      BY <2>5 DEF AskNextPeer
    <3> DEFINE next == [e EXCEPT !.votes = votes, !.todo = @ \ {p}, !.ask = p, !.resp = {}]
    <3>2. next \in elections' /\ next.node = n
      BY <1>1, <3>1 DEF Election
    <3>3. state'[n] = "candidate"
      BY <2>5 DEF AskNextPeer
    <3> HIDE DEF next
    <3> QED BY <3>2, <3>3 DEF HasTask
  <2> QED BY <2>2, <2>3, <2>4, <2>5 DEF Continue
<1> HIDE DEF n
<1> QED
    BY <1>1, <1>3, <1>4, <1>5, OthersWait

\* No node that is up waits for nothing: it is leader, or its timer is armed, or an
\* election of it is about to begin or runs.  No assumption on overlaps, restarts or lost RPCs.
THEOREM NotStuckHolds == Spec => []NotStuck
<1>1. Init => NotStuckInv
    BY DEF Init, NotStuckInv
<1>2. ASSUME TypeOK, NotStuckInv, [Next]_vars PROVE NotStuckInv'
  <2> USE <1>2
  <2>1. /\ state \in [Node -> {"follower", "candidate", "leader"}]
        /\ timer \in [Node -> BOOLEAN] /\ due \in [Node -> BOOLEAN]
        /\ booted \in [Node -> BOOLEAN]
    BY DEF TypeOK
  <2>2. ASSUME UNCHANGED <<state, timer, due, booted, elections>> PROVE NotStuckInv'
    BY <2>2 DEF NotStuckInv, HasTask
  <2>3. ASSUME NEW n \in Node, Boot(n) PROVE NotStuckInv'
    BY <2>1, <2>3 DEF Boot, NotStuckInv, HasTask
  <2>4. ASSUME NEW n \in Node, TimerFires(n) PROVE NotStuckInv'
    BY <2>1, <2>4 DEF TimerFires, NotStuckInv, HasTask
  <2>5. ASSUME NEW n \in Node, StartElection(n) PROVE NotStuckInv'
    <3>1. PICK p \in Peers(n) : elections' = elections \cup {
              [node |-> n, term |-> current_term[n] + 1, last_idx |-> LastIndex(n),
               last_term |-> LastTerm(n), votes |-> {n}, todo |-> Peers(n) \ {p},
               ask |-> p, resp |-> {}]}
      BY <2>5 DEF StartElection
    <3> DEFINE e == [node |-> n, term |-> current_term[n] + 1, last_idx |-> LastIndex(n),
                     last_term |-> LastTerm(n), votes |-> {n}, todo |-> Peers(n) \ {p},
                     ask |-> p, resp |-> {}]
    <3>4. elections' = elections \cup {e} /\ e.node = n
      BY <3>1
    <3> HIDE DEF e
    <3>2. /\ state' = [state EXCEPT ![n] = "candidate"]
          /\ timer' = [timer EXCEPT ![n] = FALSE]
          /\ due' = [due EXCEPT ![n] = FALSE] /\ booted' = booted
      BY <2>5 DEF StartElection
    <3>3. HasTask(n)'
      BY <2>1, <3>2, <3>4 DEF HasTask
    <3> QED
      BY <2>1, <3>2, <3>3, <3>4, OthersWait
  <2>6. ASSUME NEW m \in messages, HandleRequestVote(m) PROVE NotStuckInv'
    <3> DEFINE n     == m.dst
               newer == m.term > current_term[n]
               held  == IF newer THEN None ELSE voted_for[n]
               term  == Larger(m.term, current_term[n])
               grant == CanGrant(m, held)
               reply == [term |-> term, vote_granted |-> grant]
    <3>1. n \in Node
      BY <2>6 DEF HandleRequestVote, TypeOK, Message
    <3>2. /\ state' = [state EXCEPT ![n] = IF newer THEN "follower" ELSE @]
          /\ timer' = [timer EXCEPT ![n] = @ \/ newer \/ grant]
          /\ elections' = {Answered(e, m, reply) : e \in elections}
          /\ due' = due /\ booted' = booted
      BY <2>6 DEF HandleRequestVote
    <3>3. \A e \in elections : Answered(e, m, reply).node = e.node
      BY DEF Answered, TypeOK, Election
    <3> HIDE DEF n, newer, held, term, grant, reply
    <3>4. \A e \in elections : \E f \in elections' : f.node = e.node
      BY <3>2, <3>3
    <3>5. \A k \in Node : HasTask(k) => HasTask(k)'
      <4> SUFFICES ASSUME NEW k \in Node, HasTask(k) PROVE HasTask(k)'
        OBVIOUS
      <4>1. timer[k] => timer'[k]
        BY <2>1, <3>1, <3>2
      <4>2. state'[k] = state[k] \/ (state'[k] = "follower" /\ timer'[k])
        BY <2>1, <3>1, <3>2
      <4> QED
        BY <3>2, <3>4, <4>1, <4>2 DEF HasTask
    <3> QED
      BY <3>2, <3>5 DEF NotStuckInv
  <2>7. ASSUME NEW m \in messages, HandleAppendEntries(m) PROVE NotStuckInv'
    <3>1. m.dst \in Node
      BY <2>7 DEF HandleAppendEntries, TypeOK, Message
    <3>2. UNCHANGED <<booted, elections>>
      BY <2>7 DEF HandleAppendEntries
    <3>3. CASE RejectEntries(m)
      BY <2>2, <3>2, <3>3 DEF RejectEntries, roleVars
    <3>4. CASE AcceptEntries(m)
      <4>1. /\ timer' = [timer EXCEPT ![m.dst] = TRUE]
            /\ state' = state \/ state' = [state EXCEPT ![m.dst] = "follower"]
            /\ due' = due
        BY <3>4 DEF AcceptEntries, BecomeFollower
      <4> QED
        BY <2>1, <3>1, <3>2, <4>1 DEF NotStuckInv, HasTask
    <3> QED
      BY <2>7, <3>3, <3>4 DEF HandleAppendEntries
  <2>8. ASSUME NEW e \in elections, ReceiveVote(e) PROVE NotStuckInv'
    <3>1. PICK r \in e.resp :
            \/ StepDown(e, r.term)
            \/ Continue(e, IF r.vote_granted THEN e.votes \cup {e.ask} ELSE e.votes)
      BY <2>8 DEF ReceiveVote
    <3>2. UNCHANGED <<booted, due>>
      BY <2>8 DEF ReceiveVote
    <3>3. CASE StepDown(e, r.term)
      <4>1. e.node \in Node
        BY DEF TypeOK, Election
      <4>2. /\ state' = [state EXCEPT ![e.node] = "follower"]
            /\ timer' = [timer EXCEPT ![e.node] = TRUE]
            /\ elections' = elections \ {e}
        BY <3>3 DEF StepDown, BecomeFollower
      <4>3. HasTask(e.node)'
        BY <2>1, <4>1, <4>2 DEF HasTask
      <4>4. \A k \in Node \ {e.node} :
              state'[k] = state[k] /\ timer'[k] = timer[k] /\ due'[k] = due[k]
        BY <2>1, <3>2, <4>1, <4>2
      <4>5. \A f \in elections : f.node # e.node => f \in elections'
        BY <4>2
      <4> QED
        BY <3>2, <4>1, <4>3, <4>4, <4>5, OthersWait
    <3>4. CASE Continue(e, IF r.vote_granted THEN e.votes \cup {e.ask} ELSE e.votes)
      BY <3>2, <3>4, ContinueKeepsWaiting
    <3> QED
      BY <3>1, <3>3, <3>4
  <2>9. ASSUME NEW e \in elections, VoteRpcFails(e) PROVE NotStuckInv'
    BY <2>9, ContinueKeepsWaiting DEF VoteRpcFails
  <2>10. ASSUME NEW n \in Node, SendHeartbeats(n) PROVE NotStuckInv'
    BY <2>2, <2>10 DEF SendHeartbeats, roleVars
  <2>11. ASSUME NEW n \in Node, NEW c \in Command, Submit(n, c) PROVE NotStuckInv'
    BY <2>2, <2>11 DEF Submit, roleVars
  <2>12. ASSUME NEW r \in replications, NEW p \in Peers(r.node), ReplicateRpcFails(r, p)
         PROVE NotStuckInv'
    BY <2>2, <2>12 DEF ReplicateRpcFails, roleVars
  <2>13. ASSUME NEW r \in replications, FinishReplication(r) PROVE NotStuckInv'
    BY <2>2, <2>13 DEF FinishReplication, CommitEntry, DropEntry, roleVars
  <2>14. ASSUME NEW n \in Node, Restart(n) PROVE NotStuckInv'
    <3>1. /\ booted' = [booted EXCEPT ![n] = FALSE]
          /\ state' = [state EXCEPT ![n] = "follower"]
          /\ timer' = [timer EXCEPT ![n] = FALSE]
          /\ due' = [due EXCEPT ![n] = FALSE]
          /\ elections' = {e \in elections : e.node # n}
      BY <2>14 DEF Restart
    <3> QED
      BY <2>1, <3>1 DEF NotStuckInv, HasTask
  <2>15. CASE UNCHANGED vars
    BY <2>2, <2>15 DEF vars
  <2> QED
    BY <2>3, <2>4, <2>5, <2>6, <2>7, <2>8, <2>9, <2>10, <2>11, <2>12, <2>13, <2>14,
       <2>15 DEF Next
<1>3. TypeOK /\ NotStuckInv => NotStuck
    BY DEF NotStuckInv, NotStuck, HasTask, TypeOK
<1> QED
    BY <1>1, <1>2, <1>3, TypeCorrect, PTL DEF Spec

----------------------------------------------------------------------------
(* The indexes into the log *)

\* The indexes of a node that gets a longer (or the same) log stay in it.
LEMMA FinishKeepsBounds ==
    ASSUME TypeOK, IndexBounds, NEW r \in replications, FinishReplication(r)
    PROVE  IndexBounds'
<1>1. /\ r.node \in Node /\ r.idx \in Nat /\ r.idx < Len(log[r.node])
    BY DEF TypeOK, Replication, IndexBounds
<1>2. /\ commit_index \in [Node -> Index] /\ last_applied \in [Node -> Index]
      /\ \A n \in Node : Len(log[n]) \in Nat
    BY DEF TypeOK
<1>3. log' = log /\ replications' \subseteq replications
    BY DEF FinishReplication, CommitEntry, DropEntry
<1>4. CASE UNCHANGED <<commit_index, last_applied>>
    BY <1>3, <1>4 DEF IndexBounds
<1>5. CASE /\ commit_index' = [commit_index EXCEPT ![r.node] = r.idx]
           /\ last_applied' = [last_applied EXCEPT ![r.node] = Larger(@, r.idx)]
  <2> SUFFICES ASSUME NEW n \in Node
               PROVE  commit_index'[n] <= last_applied'[n] /\ last_applied'[n] < Len(log[n])
    BY <1>3 DEF IndexBounds
  <2>1. commit_index[n] <= last_applied[n] /\ last_applied[n] < Len(log[n])
    BY DEF IndexBounds
  <2> QED
    BY <1>1, <1>2, <1>5, <2>1 DEF Larger, Index
<1> QED
    BY <1>4, <1>5 DEF FinishReplication, CommitEntry, DropEntry

\* A submit adds its entry before it remembers its index.
LEMMA SubmitKeepsBounds ==
    ASSUME TypeOK, IndexBounds, NEW n \in Node, NEW c \in Command, Submit(n, c)
    PROVE  IndexBounds'
<1> DEFINE entry == [term |-> current_term[n], command |-> c]
           r == [node |-> n, idx |-> Len(log[n]), entry |-> entry,
                 term |-> current_term[n], leader_commit |-> commit_index[n],
                 acks |-> {n}, waiting |-> Peers(n)]
<1>1. /\ log' = [log EXCEPT ![n] = Append(@, entry)]
      /\ replications' = replications \cup {r}
      /\ commit_index' = commit_index /\ last_applied' = last_applied
    BY DEF Submit
<1>2. r.node = n /\ r.idx = Len(log[n])
    OBVIOUS
<1> HIDE DEF entry, r
<1>3. \A k \in Node : log[k] \in Seq(Entry)
    BY DEF TypeOK
<1>4. /\ \A k \in Node : Len(log[k]) \in Nat /\ (k # n => Len(log'[k]) = Len(log[k]))
      /\ Len(log'[n]) = Len(log[n]) + 1
  <2>1. log'[n] = Append(log[n], entry) /\ \A k \in Node : k # n => log'[k] = log[k]
    BY <1>1 DEF TypeOK
  <2> QED
    BY <1>3, <2>1
<1>5. \A q \in replications : q.node \in Node /\ q.idx \in Nat
    BY DEF TypeOK, Replication
<1>6. commit_index \in [Node -> Index] /\ last_applied \in [Node -> Index]
    BY DEF TypeOK
<1>7. \A k \in Node : commit_index'[k] <= last_applied'[k] /\ last_applied'[k] < Len(log'[k])
    BY <1>1, <1>4, <1>6 DEF IndexBounds, Index
<1>8. \A q \in replications' : q.idx < Len(log'[q.node])
    BY <1>1, <1>2, <1>4, <1>5 DEF IndexBounds
<1> QED
    BY <1>7, <1>8 DEF IndexBounds

\* A request that is handled commits no further than the log it leaves.
LEMMA AppendKeepsBounds ==
    ASSUME TypeOK, IndexBounds, NEW m \in messages, HandleAppendEntries(m)
    PROVE  IndexBounds'
<1>1. m.dst \in Node /\ m.leader_commit \in Index /\ m.entries \in Seq(Entry)
    BY DEF HandleAppendEntries, TypeOK, Message
<1>2. \A q \in replications' : \E r \in replications : q.node = r.node /\ q.idx = r.idx
  <2>1. PICK ok \in BOOLEAN : replications' = {Acked(r, m, ok) : r \in replications}
    BY DEF HandleAppendEntries, RejectEntries, AcceptEntries
  <2>2. \A r \in replications : Acked(r, m, ok).node = r.node /\ Acked(r, m, ok).idx = r.idx
    BY DEF Acked, TypeOK, Replication
  <2> QED BY <2>1, <2>2
<1>3. \A r \in replications : r.node \in Node /\ r.idx \in Nat
    BY DEF TypeOK, Replication
<1>4. CASE RejectEntries(m)
    BY <1>2, <1>4 DEF RejectEntries, logVars, IndexBounds
<1>5. CASE AcceptEntries(m)
  <2> DEFINE n      == m.dst
             newlog == log[n] \o m.entries
             commit == NewCommit(n, m.leader_commit, newlog)
  <2>1. /\ log' = [log EXCEPT ![n] = newlog]
        /\ commit_index' = [commit_index EXCEPT ![n] = commit]
        /\ last_applied' = [last_applied EXCEPT ![n] = Larger(@, commit)]
    BY <1>5 DEF AcceptEntries
  <2>2. \A k \in Node : log[k] \in Seq(Entry) /\ Len(log[k]) \in Nat
    BY DEF TypeOK
  <2>3. Len(newlog) \in Nat /\ Len(newlog) >= Len(log[n])
    <3>1. log[n] \in Seq(Entry) /\ Len(log[n]) \in Nat /\ Len(m.entries) \in Nat
      BY <1>1, <2>2
    <3>2. Len(newlog) = Len(log[n]) + Len(m.entries)
      BY <1>1, <3>1
    <3>3. \A a, b \in Nat : a + b >= a /\ a + b \in Nat
      OBVIOUS
    <3> QED BY <3>1, <3>2, <3>3, Zenon
  <2>4. /\ log \in [Node -> Seq(Entry)] /\ commit_index \in [Node -> Index]
        /\ last_applied \in [Node -> Index]
    BY DEF TypeOK
  <2> HIDE DEF newlog
  <2>5. /\ commit \in Index /\ commit <= Larger(last_applied[n], commit)
        /\ Larger(last_applied[n], commit) < Len(newlog)
    <3>1. /\ commit_index[n] <= last_applied[n] /\ last_applied[n] < Len(log[n])
          /\ commit_index[n] \in Index /\ last_applied[n] \in Index
      BY <1>1, <2>4 DEF IndexBounds
    <3>2. Len(log[n]) \in Nat
      BY <1>1, <2>2
    <3>3. commit \in Index /\ commit < Len(newlog)
      BY <1>1, <2>3, <3>1, <3>2 DEF NewCommit, Index
    <3> HIDE DEF commit
    <3> QED
      BY <2>3, <3>1, <3>2, <3>3 DEF Larger, Index
  <2> HIDE DEF n, commit
  <2>6. n \in Node
    BY <1>1 DEF n
  <2>7. \A k \in Node : Len(log'[k]) \in Nat /\ Len(log'[k]) >= Len(log[k])
    BY <2>1, <2>2, <2>3, <2>4, <2>6
  <2>8. \A k \in Node : commit_index'[k] <= last_applied'[k] /\ last_applied'[k] < Len(log'[k])
    BY <2>1, <2>4, <2>5, <2>6 DEF IndexBounds
  <2>9. \A q \in replications' : q.idx < Len(log'[q.node])
    BY <1>2, <1>3, <2>2, <2>7 DEF IndexBounds
  <2> QED
    BY <2>8, <2>9 DEF IndexBounds
<1> QED
    BY <1>4, <1>5 DEF HandleAppendEntries

\* _apply_up_to never reads past the log and nothing committed is unapplied,
\* with restarts, lost and reordered requests, and concurrent submits.
THEOREM IndexBoundsHold == Spec => []IndexBounds
<1>1. Init => IndexBounds
    BY DEF Init, IndexBounds
<1>2. ASSUME TypeOK, IndexBounds, [Next]_vars PROVE IndexBounds'
  <2> USE <1>2
  <2>1. ASSUME UNCHANGED <<log, commit_index, last_applied, replications>>
        PROVE IndexBounds'
    BY <2>1 DEF IndexBounds
  <2>2. ASSUME NEW n \in Node, Boot(n) \/ TimerFires(n) \/ SendHeartbeats(n)
        PROVE IndexBounds'
    BY <2>1, <2>2 DEF Boot, TimerFires, SendHeartbeats, logVars
  <2>3. ASSUME NEW n \in Node, StartElection(n) PROVE IndexBounds'
    BY <2>1, <2>3 DEF StartElection, logVars
  <2>4. ASSUME NEW m \in messages, HandleRequestVote(m) PROVE IndexBounds'
    BY <2>1, <2>4 DEF HandleRequestVote, logVars
  <2>5. ASSUME NEW m \in messages, HandleAppendEntries(m) PROVE IndexBounds'
    BY <2>5, AppendKeepsBounds
  <2>6. ASSUME NEW e \in elections, ReceiveVote(e) \/ VoteRpcFails(e) PROVE IndexBounds'
    BY <2>1, <2>6 DEF ReceiveVote, VoteRpcFails, logVars
  <2>7. ASSUME NEW n \in Node, NEW c \in Command, Submit(n, c) PROVE IndexBounds'
    BY <2>7, SubmitKeepsBounds
  <2>8. ASSUME NEW r \in replications, NEW p \in Peers(r.node), ReplicateRpcFails(r, p)
        PROVE IndexBounds'
    <3> DEFINE q == [r EXCEPT !.waiting = @ \ {p}]
    <3>1. replications' = (replications \ {r}) \cup {q}
      BY <2>8 DEF ReplicateRpcFails
    <3>2. q.node = r.node /\ q.idx = r.idx
      BY DEF TypeOK, Replication
    <3> HIDE DEF q
    <3>3. UNCHANGED <<log, commit_index, last_applied>>
      BY <2>8 DEF ReplicateRpcFails, logVars
    <3> QED
      BY <3>1, <3>2, <3>3 DEF IndexBounds
  <2>9. ASSUME NEW r \in replications, FinishReplication(r) PROVE IndexBounds'
    BY <2>9, FinishKeepsBounds
  <2>10. ASSUME NEW n \in Node, Restart(n) PROVE IndexBounds'
    <3>1. /\ log' = [log EXCEPT ![n] = <<>>]
          /\ commit_index' = [commit_index EXCEPT ![n] = -1]
          /\ last_applied' = [last_applied EXCEPT ![n] = -1]
          /\ replications' = {r \in replications : r.node # n}
      BY <2>10 DEF Restart
    <3>2. /\ log \in [Node -> Seq(Entry)] /\ commit_index \in [Node -> Index]
          /\ last_applied \in [Node -> Index]
          /\ \A r \in replications : r.node \in Node
      BY DEF TypeOK, Replication
    <3> QED
      BY <3>1, <3>2 DEF IndexBounds
  <2>11. CASE UNCHANGED vars
    BY <2>1, <2>11 DEF vars
  <2> QED
    BY <2>2, <2>3, <2>4, <2>5, <2>6, <2>7, <2>8, <2>9, <2>10, <2>11 DEF Next
<1> QED
    BY <1>1, <1>2, TypeCorrect, PTL DEF Spec

----------------------------------------------------------------------------
(* The leader a node names *)

\* n has become leader, in term t or before.
WasElected(n, t) == \E x \in elected : x[1] = n /\ x[2] <= t

\* Inductive form of LeaderIdWasElected: what makes a node name a leader, a
\* request to append entries, was sent by one.
LeaderTrail ==
    /\ \A n \in Node : state[n] = "leader" => WasElected(n, current_term[n])
    /\ \A m \in messages : m.type = "append_entries" => WasElected(m.src, m.term)
    /\ \A n \in Node : leader_id[n] # None => WasElected(leader_id[n], current_term[n])

\* The trail is kept where nobody becomes leader, nothing is appended and nobody
\* hears of another leader, as long as a node that goes back in time forgets both.
LEMMA TrailKept ==
    ASSUME TypeOK, LeaderTrail, elected \subseteq elected',
           current_term' \in [Node -> Nat],
           \A n \in Node : state'[n] = "leader" =>
              state[n] = "leader" /\ current_term'[n] >= current_term[n],
           \A m \in messages' : m.type = "append_entries" => m \in messages,
           \A n \in Node : leader_id'[n] # None =>
              leader_id'[n] = leader_id[n] /\ current_term'[n] >= current_term[n]
    PROVE  LeaderTrail'
<1>1. /\ current_term \in [Node -> Nat] /\ \A x \in elected : x[2] \in Nat
    BY DEF TypeOK
<1>2. \A n \in Node : state'[n] = "leader" => WasElected(n, current_term[n])'
  <2> SUFFICES ASSUME NEW n \in Node, state'[n] = "leader"
               PROVE  WasElected(n, current_term[n])'
    OBVIOUS
  <2>1. PICK x \in elected : x[1] = n /\ x[2] <= current_term[n]
    BY DEF LeaderTrail, WasElected
  <2>2. x[2] <= current_term'[n]
    BY <1>1, <2>1
  <2> QED BY <2>1, <2>2 DEF WasElected
<1>3. \A m \in messages' : m.type = "append_entries" => WasElected(m.src, m.term)'
    BY DEF LeaderTrail, WasElected
<1>4. \A n \in Node : leader_id'[n] # None => WasElected(leader_id[n], current_term[n])'
  <2> SUFFICES ASSUME NEW n \in Node, leader_id'[n] # None
               PROVE  WasElected(leader_id[n], current_term[n])'
    OBVIOUS
  <2>1. PICK x \in elected : x[1] = leader_id'[n] /\ x[2] <= current_term[n]
    BY DEF LeaderTrail, WasElected
  <2>2. x[2] <= current_term'[n]
    BY <1>1, <2>1
  <2> QED BY <2>1, <2>2 DEF WasElected
<1> QED
    BY <1>2, <1>3, <1>4 DEF LeaderTrail

\* A node that wins its election is recorded as elected.
LEMMA ContinueKeepsTrail ==
    ASSUME TypeOK, LeaderTrail, NEW e \in elections, NEW votes \in SUBSET Node,
           Continue(e, votes)
    PROVE  LeaderTrail'
<1> DEFINE n == e.node
<1>1. n \in Node /\ state \in [Node -> {"follower", "candidate", "leader"}]
      /\ leader_id \in [Node -> Node \cup {None}] /\ current_term \in [Node -> Nat]
    BY DEF TypeOK, Election
<1>2. current_term' = current_term
    BY DEF Continue, WinElection, LoseElection, AbandonElection, AskNextPeer
<1>3. CASE WinElection(e, votes)
  <2>1. /\ state' = [state EXCEPT ![n] = "leader"]
        /\ leader_id' = [leader_id EXCEPT ![n] = n]
        /\ elected' = elected \cup {<<n, current_term[n]>>}
        /\ messages' = messages
    BY <1>3 DEF WinElection
  <2> HIDE DEF n
  <2>2. \A k \in Node : \A t : WasElected(k, t) => WasElected(k, t)'
    BY <2>1 DEF WasElected
  <2>3. WasElected(n, current_term[n])'
    <3>1. PICK x \in elected' : x = <<n, current_term[n]>>
      BY <2>1
    <3>2. current_term[n] \in Nat
      BY <1>1 DEF n
    <3>3. x[1] = n /\ x[2] <= current_term'[n]
      BY <1>2, <3>1, <3>2
    <3> QED BY <3>3 DEF WasElected
  <2>4. \A k \in Node : state'[k] = "leader" => WasElected(k, current_term[k])'
    BY <1>1, <1>2, <2>1, <2>2, <2>3 DEF LeaderTrail
  <2>5. \A k \in Node : leader_id'[k] # None => WasElected(leader_id[k], current_term[k])'
    <3> SUFFICES ASSUME NEW k \in Node, leader_id'[k] # None
                 PROVE  WasElected(leader_id[k], current_term[k])'
      OBVIOUS
    <3>1. CASE k = n
      BY <1>1, <2>1, <2>3, <3>1 DEF WasElected
    <3>2. CASE k # n
      <4>1. leader_id'[k] = leader_id[k] /\ leader_id[k] \in Node
        BY <1>1, <2>1, <3>2
      <4>2. WasElected(leader_id[k], current_term[k])
        BY <4>1 DEF LeaderTrail
      <4> QED BY <1>2, <2>1, <4>1, <4>2 DEF WasElected
    <3> QED BY <3>1, <3>2
  <2>6. \A m \in messages' : m.type = "append_entries" => WasElected(m.src, m.term)'
    BY <2>1 DEF LeaderTrail, WasElected
  <2> QED BY <2>4, <2>5, <2>6 DEF LeaderTrail
<1>4. CASE LoseElection(e, votes) \/ AbandonElection(e)
    BY <1>1, <1>2, <1>4, TrailKept DEF LoseElection, AbandonElection
<1>5. CASE AskNextPeer(e, votes)
  <2>1. PICK p \in e.todo :
          messages' = messages \cup
            {VoteRequest([e EXCEPT !.votes = votes, !.todo = @ \ {p}, !.ask = p, !.resp = {}])}
    BY <1>5 DEF AskNextPeer
  <2>2. \A f : VoteRequest(f).type = "request_vote"
    BY DEF VoteRequest
  <2>3. \A m \in messages' : m.type = "append_entries" => m \in messages
    BY <2>1, <2>2
  <2>4. UNCHANGED <<state, leader_id, elected>>
    BY <1>5 DEF AskNextPeer
  <2> QED
    BY <1>1, <1>2, <2>3, <2>4, TrailKept
<1> QED
    BY <1>3, <1>4, <1>5 DEF Continue

\* A request to append entries is sent by a leader, in its present term.
LEMMA SendKeepsTrail ==
    ASSUME TypeOK, LeaderTrail, NEW n \in Node, state[n] = "leader",
           UNCHANGED <<state, current_term, leader_id, elected>>,
           \A m \in messages' : m \in messages \/ (m.src = n /\ m.term = current_term[n])
    PROVE  LeaderTrail'
<1>1. WasElected(n, current_term[n])
    BY DEF LeaderTrail
<1>2. \A m \in messages' : m.type = "append_entries" => WasElected(m.src, m.term)
    BY <1>1 DEF LeaderTrail
<1> QED
    BY <1>2 DEF LeaderTrail, WasElected

\* A node that hears of a leader reaches that leader's term.
LEMMA AppendKeepsTrail ==
    ASSUME TypeOK, LeaderTrail, NEW m \in messages, HandleAppendEntries(m)
    PROVE  LeaderTrail'
<1>1. /\ m.dst \in Node /\ m.src \in Node /\ m.term \in Nat /\ m.type = "append_entries"
      /\ state \in [Node -> {"follower", "candidate", "leader"}]
      /\ leader_id \in [Node -> Node \cup {None}] /\ current_term \in [Node -> Nat]
      /\ \A x \in elected : x[2] \in Nat
    BY DEF HandleAppendEntries, TypeOK, Message
<1>2. elected' = elected /\ messages' = messages \ {m}
    BY DEF HandleAppendEntries, hist
<1>3. CASE RejectEntries(m)
    BY <1>1, <1>2, <1>3, TrailKept DEF RejectEntries, roleVars
<1>4. CASE AcceptEntries(m)
  <2> DEFINE n == m.dst
  <2>1. /\ m.term >= current_term[n]
        /\ leader_id' = [leader_id EXCEPT ![n] = m.src]
        /\ \/ /\ state' = [state EXCEPT ![n] = "follower"]
              /\ current_term' = [current_term EXCEPT ![n] = m.term]
           \/ /\ m.term = current_term[n]
              /\ UNCHANGED <<state, current_term>>
    BY <1>4 DEF AcceptEntries, BecomeFollower
  <2> HIDE DEF n
  <2>2. n \in Node
    BY <1>1 DEF n
  <2>3. current_term'[n] = m.term /\ \A k \in Node \ {n} : current_term'[k] = current_term[k]
    BY <1>1, <2>1, <2>2
  <2>4. \A k \in Node : state'[k] = "leader" =>
            state[k] = "leader" /\ current_term'[k] = current_term[k]
    BY <1>1, <2>1, <2>2
  <2>5. \A k \in Node : state'[k] = "leader" => WasElected(k, current_term[k])'
    BY <1>2, <2>4 DEF LeaderTrail, WasElected
  <2>6. \A k \in Node : leader_id'[k] # None => WasElected(leader_id[k], current_term[k])'
    <3> SUFFICES ASSUME NEW k \in Node, leader_id'[k] # None
                 PROVE  WasElected(leader_id[k], current_term[k])'
      OBVIOUS
    <3>1. CASE k = n
      <4>1. WasElected(m.src, m.term)
        BY <1>1 DEF LeaderTrail
      <4>2. leader_id'[k] = m.src /\ current_term'[k] = m.term
        BY <1>1, <2>1, <2>2, <2>3, <3>1
      <4> QED BY <1>2, <4>1, <4>2 DEF WasElected
    <3>2. CASE k # n
      <4>1. leader_id'[k] = leader_id[k] /\ current_term'[k] = current_term[k]
        BY <1>1, <2>1, <2>2, <2>3, <3>2
      <4> QED BY <1>2, <4>1 DEF LeaderTrail, WasElected
    <3> QED BY <3>1, <3>2
  <2>7. \A q \in messages' : q.type = "append_entries" => WasElected(q.src, q.term)'
    BY <1>2 DEF LeaderTrail, WasElected
  <2> QED
    BY <2>5, <2>6, <2>7 DEF LeaderTrail
<1> QED
    BY <1>3, <1>4 DEF HandleAppendEntries

\* Every leader that is named, or speaks, was elected.
LEMMA LeaderTrailInvariant == Spec => []LeaderTrail
<1>1. Init => LeaderTrail
    BY DEF Init, LeaderTrail
<1>2. ASSUME TypeOK, LeaderTrail, [Next]_vars PROVE LeaderTrail'
  <2> USE <1>2
  <2>1. /\ state \in [Node -> {"follower", "candidate", "leader"}]
        /\ leader_id \in [Node -> Node \cup {None}] /\ current_term \in [Node -> Nat]
    BY DEF TypeOK
  <2>2. current_term' \in [Node -> Nat]
    BY StepKeepsTypes DEF TypeOK
  <2>3. ASSUME UNCHANGED <<state, current_term, leader_id, elected>>, messages' \subseteq messages
        PROVE  LeaderTrail'
    BY <2>1, <2>3, TrailKept
  <2>4. ASSUME NEW n \in Node, Boot(n) \/ TimerFires(n) PROVE LeaderTrail'
    BY <2>3, <2>4 DEF Boot, TimerFires, hist
  <2>5. ASSUME NEW n \in Node, StartElection(n) PROVE LeaderTrail'
    <3>1. PICK e : messages' = messages \cup {VoteRequest(e)}
      BY <2>5 DEF StartElection
    <3>2. \A m \in messages' : m.type = "append_entries" => m \in messages
      BY <3>1 DEF VoteRequest
    <3>3. /\ current_term' = [current_term EXCEPT ![n] = @ + 1]
          /\ state' = [state EXCEPT ![n] = "candidate"]
          /\ leader_id' = [leader_id EXCEPT ![n] = None]
          /\ elected' = elected
      BY <2>5 DEF StartElection
    <3> QED
      BY <2>1, <2>2, <3>2, <3>3, TrailKept
  <2>6. ASSUME NEW n \in Node, SendHeartbeats(n) PROVE LeaderTrail'
    <3>1. state[n] = "leader" /\ UNCHANGED <<state, current_term, leader_id, elected>>
      BY <2>6 DEF SendHeartbeats, roleVars, hist
    <3>2. \A m \in messages' : m \in messages \/ (m.src = n /\ m.term = current_term[n])
      BY <2>6 DEF SendHeartbeats, Heartbeat
    <3> QED
      BY <3>1, <3>2, SendKeepsTrail
  <2>7. ASSUME NEW n \in Node, NEW c \in Command, Submit(n, c) PROVE LeaderTrail'
    <3>1. state[n] = "leader" /\ UNCHANGED <<state, current_term, leader_id, elected>>
      BY <2>7 DEF Submit, roleVars
    <3>2. \A m \in messages' : m \in messages \/ (m.src = n /\ m.term = current_term[n])
      BY <2>7 DEF Submit, AppendRequest
    <3> QED
      BY <3>1, <3>2, SendKeepsTrail
  <2>8. ASSUME NEW n \in Node, Restart(n) PROVE LeaderTrail'
    <3>1. /\ current_term' = [current_term EXCEPT ![n] = 0]
          /\ state' = [state EXCEPT ![n] = "follower"]
          /\ leader_id' = [leader_id EXCEPT ![n] = None]
          /\ UNCHANGED <<messages, elected>>
      BY <2>8 DEF Restart, hist
    <3> QED
      BY <2>1, <2>2, <3>1, TrailKept
  <2>9. ASSUME NEW m \in messages, HandleRequestVote(m) PROVE LeaderTrail'
    <3> DEFINE n == m.dst
               newer == m.term > current_term[n]
    <3>1. n \in Node /\ m.term \in Nat
      BY <2>9 DEF HandleRequestVote, TypeOK, Message
    <3>2. /\ current_term' = [current_term EXCEPT ![n] = Larger(m.term, @)]
          /\ state' = [state EXCEPT ![n] = IF newer THEN "follower" ELSE @]
          /\ UNCHANGED <<leader_id, elected>>
          /\ messages' \subseteq messages
      BY <2>9 DEF HandleRequestVote
    <3> HIDE DEF n, newer
    <3>3. \A k \in Node : current_term'[k] >= current_term[k]
      BY <2>1, <3>1, <3>2 DEF Larger
    <3>4. newer \/ UNCHANGED current_term
      BY <2>1, <2>9, <3>1, <3>2 DEF newer, n, Larger
    <3> QED
      BY <2>1, <2>2, <3>1, <3>2, <3>3, TrailKept
  <2>10. ASSUME NEW m \in messages, HandleAppendEntries(m) PROVE LeaderTrail'
    BY <2>10, AppendKeepsTrail
  <2>11. ASSUME NEW e \in elections, ReceiveVote(e) PROVE LeaderTrail'
    <3>1. e.node \in Node /\ e.ask \in Node /\ e.votes \in SUBSET Node
      BY DEF TypeOK, Election
    <3>2. PICK r \in e.resp :
            \/ r.term > current_term[e.node] /\ StepDown(e, r.term)
            \/ Continue(e, IF r.vote_granted THEN e.votes \cup {e.ask} ELSE e.votes)
      BY <2>11 DEF ReceiveVote
    <3>3. r.term \in Nat
      BY DEF TypeOK, Election, Reply
    <3>4. CASE r.term > current_term[e.node] /\ StepDown(e, r.term)
      <4>1. /\ current_term' = [current_term EXCEPT ![e.node] = r.term]
            /\ state' = [state EXCEPT ![e.node] = "follower"]
            /\ UNCHANGED <<leader_id, elected, messages>>
        BY <3>4 DEF StepDown, BecomeFollower
      <4>2. \A k \in Node : current_term'[k] >= current_term[k]
        BY <2>1, <3>1, <3>3, <3>4, <4>1
      <4> QED
        BY <2>1, <2>2, <3>1, <4>1, <4>2, TrailKept
    <3>5. CASE Continue(e, IF r.vote_granted THEN e.votes \cup {e.ask} ELSE e.votes)
      <4>1. (IF r.vote_granted THEN e.votes \cup {e.ask} ELSE e.votes) \in SUBSET Node
        BY <3>1
      <4> QED BY <3>5, <4>1, ContinueKeepsTrail
    <3> QED
      BY <3>2, <3>4, <3>5
  <2>12. ASSUME NEW e \in elections, VoteRpcFails(e) PROVE LeaderTrail'
    <3>1. e.votes \in SUBSET Node /\ Continue(e, e.votes)
      BY <2>12 DEF TypeOK, Election, VoteRpcFails
    <3> QED BY <3>1, ContinueKeepsTrail
  <2>13. ASSUME NEW r \in replications, NEW p \in Peers(r.node), ReplicateRpcFails(r, p)
         PROVE LeaderTrail'
    BY <2>3, <2>13 DEF ReplicateRpcFails, roleVars, hist
  <2>14. ASSUME NEW r \in replications, FinishReplication(r) PROVE LeaderTrail'
    BY <2>3, <2>14 DEF FinishReplication, CommitEntry, DropEntry, roleVars
  <2>15. CASE UNCHANGED vars
    BY <2>3, <2>15 DEF vars
  <2> QED
    BY <2>4, <2>5, <2>6, <2>7, <2>8, <2>9, <2>10, <2>11, <2>12, <2>13, <2>14, <2>15 DEF Next
<1> QED
    BY <1>1, <1>2, TypeCorrect, PTL DEF Spec

\* The leader a node reports to clients did win an election, in a term the node
\* has reached (raft.py handle_append_entries, status).  No assumption on
\* overlaps, restarts or lost RPCs.
THEOREM LeaderIdWasElectedHolds == Spec => []LeaderIdWasElected
<1>1. LeaderTrail => LeaderIdWasElected
    BY DEF LeaderTrail, LeaderIdWasElected, WasElected
<1> QED
    BY <1>1, LeaderTrailInvariant, PTL

----------------------------------------------------------------------------
(* The logs *)

\* The log of n is kept and perhaps continued; what is applied stays applied.
LogStep(n) ==
    /\ Len(log'[n]) >= Len(log[n])
    /\ \A i \in 1..Len(log[n]) : log'[n][i] = log[n][i]
    /\ last_applied'[n] >= last_applied[n]

\* Appending entries to a log keeps what it has.
LEMMA ConcatKeeps ==
    ASSUME NEW s \in Seq(Entry), NEW t \in Seq(Entry)
    PROVE  /\ Len(s \o t) = Len(s) + Len(t)
           /\ Len(s) \in Nat /\ Len(t) \in Nat
           /\ \A i \in 1..Len(s) : (s \o t)[i] = s[i]
<1>1. Len(s) \in Nat /\ Len(t) \in Nat
    OBVIOUS
<1>2. Len(s \o t) = Len(s) + Len(t)
    OBVIOUS
<1>3. \A i \in 1..Len(s) : (s \o t)[i] = s[i]
    OBVIOUS
<1> QED BY <1>1, <1>2, <1>3

\* No step but a restart shortens or rewrites a log: entries are only appended,
\* wherever they end up (raft.py submit, handle_append_entries).
LEMMA LogSteps ==
    ASSUME TypeOK, [Next]_vars, \A n \in Node : ~Restart(n), NEW k \in Node
    PROVE  LogStep(k)
<1>1. /\ \A n \in Node : log[n] \in Seq(Entry) /\ Len(log[n]) \in Nat
      /\ log \in [Node -> Seq(Entry)] /\ last_applied \in [Node -> Index]
      /\ last_applied[k] \in Int
    BY DEF TypeOK, Index
<1>2. CASE UNCHANGED <<log, last_applied>>
    BY <1>1, <1>2 DEF LogStep
<1>3. ASSUME NEW n \in Node, NEW c \in Command, Submit(n, c) PROVE LogStep(k)
  <2> DEFINE entry == [term |-> current_term[n], command |-> c]
  <2>1. log' = [log EXCEPT ![n] = Append(@, entry)] /\ last_applied' = last_applied
    BY <1>3 DEF Submit
  <2>2. entry \in Entry
    BY DEF Entry, TypeOK
  <2> HIDE DEF entry
  <2>3. \A q \in Seq(Entry) : /\ Len(Append(q, entry)) = Len(q) + 1
                              /\ \A i \in 1..Len(q) : Append(q, entry)[i] = q[i]
    BY <2>2
  <2>4. log'[k] = IF k = n THEN Append(log[k], entry) ELSE log[k]
    BY <1>1, <2>1
  <2> QED
    BY <1>1, <2>1, <2>3, <2>4 DEF LogStep
<1>4. ASSUME NEW m \in messages, HandleAppendEntries(m) PROVE LogStep(k)
  <2>1. m.dst \in Node /\ m.entries \in Seq(Entry) /\ m.leader_commit \in Index
    BY <1>4 DEF HandleAppendEntries, TypeOK, Message
  <2>2. CASE RejectEntries(m)
    BY <1>2, <2>2 DEF RejectEntries, logVars
  <2>3. CASE AcceptEntries(m)
    <3> DEFINE newlog == log[m.dst] \o m.entries
               commit == NewCommit(m.dst, m.leader_commit, newlog)
    <3>1. /\ log' = [log EXCEPT ![m.dst] = newlog]
          /\ last_applied' = [last_applied EXCEPT ![m.dst] = Larger(@, commit)]
      BY <2>3 DEF AcceptEntries
    <3>2. /\ Len(newlog) = Len(log[m.dst]) + Len(m.entries) /\ Len(m.entries) \in Nat
          /\ \A i \in 1..Len(log[m.dst]) : newlog[i] = log[m.dst][i]
      BY <1>1, <2>1, ConcatKeeps
    <3>3. commit \in Int
      <4>1. commit_index[m.dst] \in Int /\ m.leader_commit \in Int /\ Len(newlog) \in Int
        BY <1>1, <2>1, <3>2 DEF TypeOK, Index
      <4> HIDE DEF newlog
      <4> QED BY <4>1 DEF NewCommit
    <3> HIDE DEF newlog, commit
    <3>4. log'[k] = (IF k = m.dst THEN newlog ELSE log[k])
      BY <1>1, <2>1, <3>1
    <3>5. last_applied'[k] >= last_applied[k]
      BY <1>1, <2>1, <3>1, <3>3 DEF Larger
    <3>6. Len(log'[k]) >= Len(log[k]) /\ \A i \in 1..Len(log[k]) : log'[k][i] = log[k][i]
      <4>1. CASE k = m.dst
        <5>1. /\ Len(log'[k]) = Len(log[k]) + Len(m.entries) /\ Len(m.entries) \in Nat
              /\ \A i \in 1..Len(log[k]) : log'[k][i] = log[k][i]
          BY <3>2, <3>4, <4>1, Zenon
        <5>2. \A a, b, c \in Nat : c = a + b => c >= a
          OBVIOUS
        <5>3. Len(log[k]) \in Nat /\ Len(log[k]) + Len(m.entries) \in Nat
          BY <1>1, <5>1
        <5> QED BY <5>1, <5>2, <5>3, Zenon
      <4>2. CASE k # m.dst
        <5>1. log'[k] = log[k] /\ Len(log[k]) \in Nat
          BY <1>1, <3>4, <4>2
        <5> QED BY <5>1
      <4> QED BY <4>1, <4>2
    <3> QED
      BY <3>5, <3>6 DEF LogStep
  <2> QED
    BY <1>4, <2>2, <2>3 DEF HandleAppendEntries
<1>5. ASSUME NEW r \in replications, FinishReplication(r) PROVE LogStep(k)
  <2>1. r.node \in Node /\ r.idx \in Int
    BY DEF TypeOK, Replication
  <2>2. /\ log' = log
        /\ \/ last_applied' = last_applied
           \/ last_applied' = [last_applied EXCEPT ![r.node] = Larger(@, r.idx)]
    BY <1>5 DEF FinishReplication, CommitEntry, DropEntry
  <2>3. last_applied'[k] >= last_applied[k]
    BY <1>1, <2>1, <2>2, SMTT(20) DEF Larger
  <2>4. log'[k] = log[k] /\ Len(log[k]) \in Nat
    BY <1>1, <2>2
  <2> QED
    BY <2>3, <2>4 DEF LogStep
<1>6. ASSUME NEW n \in Node, Boot(n) \/ TimerFires(n) \/ StartElection(n) \/ SendHeartbeats(n)
      PROVE LogStep(k)
    BY <1>2, <1>6 DEF Boot, TimerFires, StartElection, SendHeartbeats, logVars
<1>7. ASSUME NEW m \in messages, HandleRequestVote(m) PROVE LogStep(k)
    BY <1>2, <1>7 DEF HandleRequestVote, logVars
<1>8. ASSUME NEW e \in elections, ReceiveVote(e) \/ VoteRpcFails(e) PROVE LogStep(k)
    BY <1>2, <1>8 DEF ReceiveVote, VoteRpcFails, logVars
<1>9. ASSUME NEW r \in replications, NEW p \in Peers(r.node), ReplicateRpcFails(r, p)
      PROVE LogStep(k)
    BY <1>2, <1>9 DEF ReplicateRpcFails, logVars
<1>10. ASSUME NEW n \in Node, Restart(n) PROVE LogStep(k)
    BY <1>10
<1>11. CASE UNCHANGED vars
    BY <1>2, <1>11 DEF vars
<1> QED
    BY <1>3, <1>4, <1>5, <1>6, <1>7, <1>8, <1>9, <1>10, <1>11 DEF Next

\* The nodes that have an entry somewhere in their log.
Holders(entry) == {n \in Node : \E i \in 1..Len(log[n]) : log[n][i] = entry}

\* Inductive form of CommittedOnMajority: an acknowledgement is given by a node
\* that has the entry.
AcksHold == \A r \in replications : r.acks \subseteq Holders(r.entry)

\* Holders stay.
LEMMA HoldersStay ==
    ASSUME TypeOK, \A n \in Node : LogStep(n),
           \A n \in Node : Len(log'[n]) \in Nat
    PROVE  \A entry : Holders(entry) \subseteq Holders(entry)'
<1> SUFFICES ASSUME NEW entry, NEW n \in Node, NEW i \in 1..Len(log[n]), log[n][i] = entry
             PROVE  \E j \in 1..Len(log'[n]) : log'[n][j] = entry
    BY DEF Holders
<1>1. Len(log[n]) \in Nat
    BY DEF TypeOK
<1>2. i \in 1..Len(log'[n]) /\ log'[n][i] = entry
    BY <1>1 DEF LogStep
<1> QED BY <1>2

\* An acknowledgement is counted after the entry was appended.
LEMMA AppendKeepsAcks ==
    ASSUME TypeOK, TypeOK', AcksHold, \A entry : Holders(entry) \subseteq Holders(entry)',
           NEW m \in messages, HandleAppendEntries(m)
    PROVE  AcksHold'
<1>1. /\ m.dst \in Node /\ m.entries \in Seq(Entry)
      /\ \A r \in replications : r \in Replication /\ r.entry \in Entry
    BY DEF HandleAppendEntries, TypeOK, Message, Replication
<1>2. CASE RejectEntries(m)
  <2>1. replications' = {Acked(r, m, FALSE) : r \in replications}
    BY <1>2 DEF RejectEntries
  <2>2. \A r \in replications : /\ Acked(r, m, FALSE).acks = r.acks
                                /\ Acked(r, m, FALSE).entry = r.entry
    BY <1>1 DEF Acked, Replication
  <2> QED
    BY <2>1, <2>2 DEF AcksHold
<1>3. CASE AcceptEntries(m)
  <2>1. /\ replications' = {Acked(r, m, TRUE) : r \in replications}
        /\ log' = [log EXCEPT ![m.dst] = log[m.dst] \o m.entries]
    BY <1>3 DEF AcceptEntries
  <2> SUFFICES ASSUME NEW r \in replications
               PROVE  Acked(r, m, TRUE).acks \subseteq Holders(Acked(r, m, TRUE).entry)'
    BY <2>1 DEF AcksHold
  <2>2. /\ Acked(r, m, TRUE).entry = r.entry
        /\ Acked(r, m, TRUE).acks \subseteq r.acks \cup {m.dst}
        /\ Acked(r, m, TRUE) = r \/ m = AppendRequest(r, m.dst)
    BY <1>1 DEF Acked, Replication
  <2>3. CASE Acked(r, m, TRUE) = r
    BY <2>3 DEF AcksHold
  <2>4. CASE m = AppendRequest(r, m.dst)
    <3>1. m.entries = <<r.entry>>
      BY <2>4 DEF AppendRequest
    <3>2. log'[m.dst] = log[m.dst] \o <<r.entry>> /\ log[m.dst] \in Seq(Entry)
      BY <1>1, <2>1, <3>1 DEF TypeOK
    <3>3. m.dst \in Holders(r.entry)'
      <4>1. ASSUME NEW s \in Seq(Entry), NEW x \in Entry
            PROVE  \E j \in 1..Len(s \o <<x>>) : (s \o <<x>>)[j] = x
        <5>1. Len(s \o <<x>>) = Len(s) + 1 /\ (s \o <<x>>)[Len(s) + 1] = x /\ Len(s) \in Nat
          OBVIOUS
        <5> QED BY <5>1
      <4>2. \E j \in 1..Len(log'[m.dst]) : log'[m.dst][j] = r.entry
        BY <1>1, <3>2, <4>1
      <4> QED BY <1>1, <4>2 DEF Holders
    <3> QED
      BY <2>2, <3>3 DEF AcksHold
  <2> QED BY <2>2, <2>3, <2>4
<1> QED
    BY <1>2, <1>3 DEF HandleAppendEntries

\* A submit has its own log as its first acknowledgement.
LEMMA SubmitKeepsAcks ==
    ASSUME TypeOK, AcksHold, \A entry : Holders(entry) \subseteq Holders(entry)',
           NEW n \in Node, NEW c \in Command, Submit(n, c)
    PROVE  AcksHold'
<1>1. PICK entry \in Entry, r \in replications' :
          /\ log' = [log EXCEPT ![n] = Append(@, entry)]
          /\ replications' = replications \cup {r}
          /\ r.acks = {n} /\ r.entry = entry
  <2> DEFINE e == [term |-> current_term[n], command |-> c]
             q == [node |-> n, idx |-> Len(log[n]), entry |-> e,
                   term |-> current_term[n], leader_commit |-> commit_index[n],
                   acks |-> {n}, waiting |-> Peers(n)]
  <2>1. /\ log' = [log EXCEPT ![n] = Append(@, e)]
        /\ replications' = replications \cup {q}
    BY DEF Submit
  <2>2. q.acks = {n} /\ q.entry = e
    OBVIOUS
  <2>3. e \in Entry
    BY DEF Entry, TypeOK
  <2> HIDE DEF e, q
  <2> QED BY <2>1, <2>2, <2>3
<1>2. n \in Holders(entry)'
  <2>1. log'[n] = Append(log[n], entry) /\ log[n] \in Seq(Entry)
    BY <1>1 DEF TypeOK
  <2>2. Len(log'[n]) = Len(log[n]) + 1 /\ log'[n][Len(log[n]) + 1] = entry
        /\ Len(log[n]) \in Nat
    BY <2>1
  <2>3. Len(log[n]) + 1 \in 1..Len(log'[n])
    BY <2>2
  <2> QED BY <2>2, <2>3 DEF Holders
<1> QED
    BY <1>1, <1>2 DEF AcksHold

\* A submit returns True only for an entry that a majority has in its log, and they
\* keep it (raft.py submit, handle_append_entries), for any cluster, overlapping
\* elections and lost RPCs included, while no process restarts.
THEOREM CommittedOnMajorityHolds ==
    ASSUME MaxRestarts = 0
    PROVE  Spec => []CommittedOnMajority
<1> DEFINE Inv == AcksHold /\ CommittedOnMajority
<1>1. Init => Inv
    BY DEF Init, AcksHold, CommittedOnMajority
<1>2. ASSUME TypeOK, Inv, [Next]_vars PROVE Inv'
  <2>1. TypeOK' /\ \A n \in Node : LogStep(n)
    BY <1>2, StepKeepsTypes, NoRestart, LogSteps
  <2>2. \A n \in Node : Len(log'[n]) \in Nat
    BY <2>1 DEF TypeOK
  <2>3. \A entry : Holders(entry) \subseteq Holders(entry)'
    BY <1>2, <2>1, <2>2, HoldersStay
  <2>4. ASSUME committed' = committed PROVE CommittedOnMajority'
    <3> SUFFICES ASSUME NEW x \in committed PROVE IsQuorum(Holders(x[2]))'
      BY <2>4 DEF CommittedOnMajority, Holders
    <3>1. IsQuorum(Holders(x[2]))
      BY <1>2 DEF CommittedOnMajority, Holders
    <3>2. Holders(x[2]) \in SUBSET Node /\ Holders(x[2])' \in SUBSET Node
      BY DEF Holders
    <3>3. IsQuorum(Holders(x[2])')
      BY <2>3, <3>1, <3>2, QuorumGrows
    <3> QED BY <3>3 DEF IsQuorum
  <2>5. ASSUME \A q \in replications' : \E r \in replications :
                  q.acks = r.acks /\ q.entry = r.entry
        PROVE  AcksHold'
    BY <1>2, <2>3, <2>5 DEF AcksHold
  <2>6. ASSUME UNCHANGED <<replications, committed>> PROVE Inv'
    BY <2>4, <2>5, <2>6
  <2>7. ASSUME NEW n \in Node, Boot(n) \/ TimerFires(n) \/ StartElection(n) \/ SendHeartbeats(n)
        PROVE Inv'
    BY <2>6, <2>7 DEF Boot, TimerFires, StartElection, SendHeartbeats, hist
  <2>8. ASSUME NEW n \in Node, NEW c \in Command, Submit(n, c) PROVE Inv'
    <3>1. committed' = committed
      BY <2>8 DEF Submit
    <3>2. AcksHold'
      BY <1>2, <2>3, <2>8, SubmitKeepsAcks
    <3> QED BY <2>4, <3>1, <3>2
  <2>9. ASSUME NEW n \in Node, Restart(n) PROVE Inv'
    BY <1>2, <2>9 DEF Restart, TypeOK
  <2>10. ASSUME NEW m \in messages, HandleRequestVote(m) PROVE Inv'
    BY <2>6, <2>10 DEF HandleRequestVote
  <2>11. ASSUME NEW m \in messages, HandleAppendEntries(m) PROVE Inv'
    <3>1. committed' = committed
      BY <2>11 DEF HandleAppendEntries, hist
    <3>2. AcksHold'
      BY <1>2, <2>1, <2>3, <2>11, AppendKeepsAcks
    <3> QED BY <2>4, <3>1, <3>2
  <2>12. ASSUME NEW e \in elections, ReceiveVote(e) \/ VoteRpcFails(e) PROVE Inv'
    BY <2>6, <2>12 DEF ReceiveVote, VoteRpcFails
  <2>13. ASSUME NEW r \in replications, NEW p \in Peers(r.node), ReplicateRpcFails(r, p)
         PROVE Inv'
    <3> DEFINE q == [r EXCEPT !.waiting = @ \ {p}]
    <3>1. replications' = (replications \ {r}) \cup {q} /\ committed' = committed
      BY <2>13 DEF ReplicateRpcFails, hist
    <3>2. q.acks = r.acks /\ q.entry = r.entry
      BY <1>2 DEF TypeOK, Replication
    <3> HIDE DEF q
    <3> QED BY <2>4, <2>5, <3>1, <3>2
  <2>14. ASSUME NEW r \in replications, FinishReplication(r) PROVE Inv'
    <3>1. replications' = replications \ {r} /\ log' = log
      BY <2>14 DEF FinishReplication, CommitEntry, DropEntry
    <3>2. AcksHold'
      BY <2>5, <3>1
    <3>3. CASE committed' = committed
      BY <2>4, <3>2, <3>3
    <3>4. CASE /\ Cardinality(r.acks) >= Majority(r.node)
               /\ committed' = committed \cup {<<r.idx, r.entry>>}
      <4>1. r.node \in Node /\ r.acks \in SUBSET Node
        BY <1>2 DEF TypeOK, Replication
      <4>2. IsQuorum(r.acks)
        BY <3>4, <4>1, MajorityIsQuorum
      <4>3. r.acks \subseteq Holders(r.entry) /\ Holders(r.entry) \in SUBSET Node
        BY <1>2 DEF AcksHold, Holders
      <4>4. IsQuorum(Holders(r.entry))
        BY <4>1, <4>2, <4>3, QuorumGrows
      <4>5. ASSUME NEW x \in committed' PROVE IsQuorum(Holders(x[2]))'
        <5>1. CASE x \in committed
          BY <1>2, <3>1, <5>1 DEF CommittedOnMajority, Holders, IsQuorum
        <5>2. CASE x = <<r.idx, r.entry>>
          <6>1. x[2] = r.entry
            BY <5>2
          <6> QED BY <3>1, <4>4, <6>1 DEF Holders, IsQuorum
        <5> QED BY <3>4, <5>1, <5>2
      <4> QED BY <3>2, <4>5 DEF CommittedOnMajority, Holders
    <3> QED
      BY <2>14, <3>3, <3>4 DEF FinishReplication, CommitEntry, DropEntry
  <2>15. CASE UNCHANGED vars
    BY <2>6, <2>15 DEF vars
  <2> QED
    BY <1>2, <2>7, <2>8, <2>9, <2>10, <2>11, <2>12, <2>13, <2>14, <2>15 DEF Next
<1> QED
    BY <1>1, <1>2, TypeCorrect, PTL DEF Spec

\* What a node has applied stays as it is and grows until its process restarts: a
\* command is not applied twice, although commit_index may go back (raft.py:251).
THEOREM AppliedOnceHolds == Spec => AppliedOnce
<1>1. ASSUME TypeOK, TypeOK', IndexBounds, [Next]_vars, restarts' = restarts
      PROVE  \A n \in Node :
                /\ last_applied[n] <= last_applied'[n]
                /\ SubSeq(log'[n], 1, last_applied[n] + 1) = Applied(n)
  <2> TAKE n \in Node
  <2>1. LogStep(n)
    BY <1>1, NoRestart, LogSteps
  <2>2. /\ last_applied[n] \in Int /\ last_applied'[n] \in Int /\ last_applied[n] >= -1
        /\ Len(log[n]) \in Nat /\ Len(log'[n]) \in Nat
        /\ log[n] \in Seq(Entry) /\ log'[n] \in Seq(Entry)
    BY <1>1 DEF TypeOK, Index
  <2>3. last_applied[n] + 1 <= Len(log[n])
    BY <1>1, <2>2 DEF IndexBounds
  <2> DEFINE k == last_applied[n] + 1
  <2>4. k \in 0..Len(log[n]) /\ k \in 0..Len(log'[n])
    BY <2>1, <2>2, <2>3 DEF LogStep
  <2>5. \A i \in 1..k : log'[n][i] = log[n][i]
    BY <2>1, <2>2, <2>4 DEF LogStep
  <2> HIDE DEF k
  <2>6. SubSeq(log'[n], 1, k) = [i \in 1..k |-> log'[n][i]]
    BY <2>2, <2>4
  <2>7. SubSeq(log[n], 1, k) = [i \in 1..k |-> log[n][i]]
    BY <2>2, <2>4
  <2>8. SubSeq(log'[n], 1, k) = SubSeq(log[n], 1, k)
    BY <2>5, <2>6, <2>7
  <2>9. last_applied[n] <= last_applied'[n]
    BY <2>1, <2>2 DEF LogStep
  <2> QED
    BY <2>8, <2>9 DEF Applied, k
<1> QED
    BY <1>1, TypeCorrect, IndexBoundsHold, PTL DEF Spec, AppliedOnce

----------------------------------------------------------------------------
(* How far entries are applied *)

\* Inductive form of AppliedReachedCommit: neither a node nor a request in flight, nor
\* one a submit will send again, has a commit index beyond what was committed.
IndexesReached ==
    /\ \A n \in Node : Reached(commit_index[n]) /\ Reached(last_applied[n])
    /\ \A r \in replications : Reached(r.leader_commit)
    /\ \A m \in messages : m.type = "append_entries" => Reached(m.leader_commit)

\* What is reached stays so, and everything before it is.
LEMMA ReachedGrows ==
    ASSUME TypeOK, committed \subseteq committed'
    PROVE  /\ \A i : Reached(i) => Reached(i)'
           /\ \A i, j \in Index : j <= i /\ Reached(i) => Reached(j)
<1>1. \A i : Reached(i) => Reached(i)'
    BY DEF Reached
<1>2. ASSUME NEW i \in Index, NEW j \in Index, j <= i, Reached(i) PROVE Reached(j)
  <2>1. CASE i = -1
    BY <1>2, <2>1 DEF Index, Reached
  <2>2. CASE i # -1
    <3>1. PICK x \in committed : x[1] >= i
      BY <1>2, <2>2 DEF Reached
    <3>2. x[1] \in Nat
      BY DEF TypeOK
    <3>3. x[1] >= j
      BY <1>2, <3>1, <3>2 DEF Index
    <3> QED BY <3>3 DEF Reached
  <2> QED BY <2>1, <2>2
<1> QED BY <1>1, <1>2

\* An election that goes on sends nothing but a vote request.
LEMMA ContinueSends ==
    ASSUME NEW e, NEW votes, Continue(e, votes)
    PROVE  \A m \in messages' : m \in messages \/ m.type = "request_vote"
<1>1. CASE messages' = messages
    BY <1>1
<1>2. CASE AskNextPeer(e, votes)
  <2>1. PICK next : messages' = messages \cup {VoteRequest(next)}
    BY <1>2 DEF AskNextPeer
  <2> QED
    BY <2>1 DEF VoteRequest
<1> QED
    BY <1>1, <1>2 DEF Continue, WinElection, LoseElection, AbandonElection

\* A step that leaves the indexes and sends nothing but heartbeats and vote requests.
LEMMA SendKeepsReached ==
    ASSUME TypeOK, IndexesReached, committed \subseteq committed',
           UNCHANGED <<commit_index, last_applied>>,
           \A r \in replications' : \E q \in replications : r.leader_commit = q.leader_commit,
           \A m \in messages' : \/ m \in messages
                                \/ m.type = "request_vote"
                                \/ \E n \in Node : m.leader_commit = commit_index[n]
    PROVE  IndexesReached'
    BY ReachedGrows DEF IndexesReached

\* A request that is handled takes its receiver no further than it says.
LEMMA AppendKeepsReached ==
    ASSUME TypeOK, IndexesReached, NEW m \in messages, HandleAppendEntries(m)
    PROVE  IndexesReached'
<1>1. /\ m.dst \in Node /\ m.leader_commit \in Index /\ m.entries \in Seq(Entry)
      /\ Reached(m.leader_commit)
    BY DEF HandleAppendEntries, TypeOK, Message, IndexesReached
<1>2. committed' = committed /\ messages' \subseteq messages
    BY DEF HandleAppendEntries, hist
<1>3. \A r \in replications' : \E q \in replications : r.leader_commit = q.leader_commit
  <2>1. PICK ok \in BOOLEAN : replications' = {Acked(r, m, ok) : r \in replications}
    BY DEF HandleAppendEntries, RejectEntries, AcceptEntries
  <2>2. \A r \in replications : Acked(r, m, ok).leader_commit = r.leader_commit
    BY DEF Acked, TypeOK, Replication
  <2> QED BY <2>1, <2>2
<1>4. CASE RejectEntries(m)
    BY <1>2, <1>3, <1>4, SendKeepsReached DEF RejectEntries, logVars
<1>5. CASE AcceptEntries(m)
  <2> DEFINE n      == m.dst
             newlog == log[n] \o m.entries
             commit == NewCommit(n, m.leader_commit, newlog)
  <2>1. /\ commit_index' = [commit_index EXCEPT ![n] = commit]
        /\ last_applied' = [last_applied EXCEPT ![n] = Larger(@, commit)]
    BY <1>5 DEF AcceptEntries
  <2>2. Len(newlog) \in Nat
    <3>1. log[n] \in Seq(Entry)
      BY <1>1 DEF TypeOK
    <3>2. newlog \in Seq(Entry)
      BY <1>1, <3>1
    <3> HIDE DEF newlog
    <3> QED BY <3>2
  <2>3. /\ commit_index \in [Node -> Index] /\ last_applied \in [Node -> Index]
        /\ Reached(commit_index[n]) /\ Reached(last_applied[n])
    BY <1>1 DEF TypeOK, IndexesReached
  <2> HIDE DEF newlog
  <2>4. Reached(commit)
    <3>1. CASE ~(m.leader_commit > commit_index[n])
      BY <2>3, <3>1 DEF NewCommit
    <3>2. CASE m.leader_commit > commit_index[n]
      <4>1. commit \in Index /\ commit <= m.leader_commit
        BY <1>1, <2>2, <2>3, <3>2 DEF NewCommit, Index
      <4> HIDE DEF commit
      <4> QED BY <1>1, <1>2, <4>1, ReachedGrows
    <3> QED BY <3>1, <3>2
  <2> HIDE DEF commit
  <2>5. \A k \in Node : Reached(commit_index'[k]) /\ Reached(last_applied'[k])
    BY <1>1, <2>1, <2>3, <2>4 DEF Larger, IndexesReached
  <2>6. \A i : Reached(i) => Reached(i)'
    BY <1>2, ReachedGrows
  <2> QED
    BY <1>2, <1>3, <2>5, <2>6 DEF IndexesReached
<1> QED
    BY <1>4, <1>5 DEF HandleAppendEntries

\* No node applies beyond the furthest index that a submit has committed: with
\* restarts, overlapping elections, any number of submits in flight and failed RPCs, an
\* entry whose submit failed is applied only below one that succeeded (raft.py:110-121,
\* 241-253).
THEOREM AppliedReachedCommitHolds == Spec => []AppliedReachedCommit
<1>1. Init => IndexesReached
    BY DEF Init, IndexesReached, Reached
<1>2. ASSUME TypeOK, IndexesReached, [Next]_vars PROVE IndexesReached'
  <2> USE <1>2
  <2>1. ASSUME NEW n \in Node, Boot(n) \/ TimerFires(n) PROVE IndexesReached'
    BY <2>1, SendKeepsReached DEF Boot, TimerFires, logVars, hist
  <2>2. ASSUME NEW n \in Node, StartElection(n) PROVE IndexesReached'
    <3>1. \A m \in messages' : m \in messages \/ m.type = "request_vote"
      BY <2>2 DEF StartElection, VoteRequest
    <3> QED
      BY <2>2, <3>1, SendKeepsReached DEF StartElection, logVars
  <2>3. ASSUME NEW n \in Node, SendHeartbeats(n) PROVE IndexesReached'
    <3>1. \A m \in messages' : m \in messages \/ m.leader_commit = commit_index[n]
      BY <2>3 DEF SendHeartbeats, Heartbeat
    <3> QED
      BY <2>3, <3>1, SendKeepsReached DEF SendHeartbeats, logVars, hist
  <2>4. ASSUME NEW n \in Node, NEW c \in Command, Submit(n, c) PROVE IndexesReached'
    <3> DEFINE r == [node |-> n, idx |-> Len(log[n]),
                     entry |-> [term |-> current_term[n], command |-> c],
                     term |-> current_term[n], leader_commit |-> commit_index[n],
                     acks |-> {n}, waiting |-> Peers(n)]
    <3>1. /\ replications' = replications \cup {r}
          /\ messages' = messages \cup {AppendRequest(r, p) : p \in Peers(n)}
          /\ UNCHANGED <<commit_index, last_applied, committed>>
      BY <2>4 DEF Submit
    <3>2. r.leader_commit = commit_index[n]
          /\ \A p \in Peers(n) : AppendRequest(r, p).leader_commit = commit_index[n]
      BY DEF AppendRequest
    <3> HIDE DEF r
    <3>3. \A i : Reached(i) => Reached(i)'
      BY <3>1, ReachedGrows
    <3> QED
      BY <3>1, <3>2, <3>3 DEF IndexesReached
  <2>5. ASSUME NEW m \in messages, HandleRequestVote(m) PROVE IndexesReached'
    BY <2>5, SendKeepsReached DEF HandleRequestVote, logVars
  <2>6. ASSUME NEW m \in messages, HandleAppendEntries(m) PROVE IndexesReached'
    BY <2>6, AppendKeepsReached
  <2>7. ASSUME NEW e \in elections, ReceiveVote(e) \/ VoteRpcFails(e) PROVE IndexesReached'
    <3>1. UNCHANGED <<commit_index, last_applied, replications, committed>>
      BY <2>7 DEF ReceiveVote, VoteRpcFails, logVars
    <3>2. \A m \in messages' : m \in messages \/ m.type = "request_vote"
      BY <2>7, ContinueSends DEF ReceiveVote, VoteRpcFails, StepDown
    <3> QED
      BY <3>1, <3>2, SendKeepsReached
  <2>8. ASSUME NEW r \in replications, NEW p \in Peers(r.node), ReplicateRpcFails(r, p)
        PROVE IndexesReached'
    <3> DEFINE q == [r EXCEPT !.waiting = @ \ {p}]
    <3>1. replications' = (replications \ {r}) \cup {q}
          /\ UNCHANGED <<commit_index, last_applied, messages, committed>>
      BY <2>8 DEF ReplicateRpcFails, logVars, hist
    <3>2. q.leader_commit = r.leader_commit
      BY DEF TypeOK, Replication
    <3> HIDE DEF q
    <3> QED
      BY <3>1, <3>2, SendKeepsReached
  <2>9. ASSUME NEW r \in replications, FinishReplication(r) PROVE IndexesReached'
    <3>1. replications' \subseteq replications /\ messages' = messages
      BY <2>9 DEF FinishReplication, CommitEntry, DropEntry
    <3>2. CASE DropEntry(r)
      BY <3>1, <3>2, SendKeepsReached DEF DropEntry
    <3>3. CASE CommitEntry(r)
      <4>1. /\ commit_index' = [commit_index EXCEPT ![r.node] = r.idx]
            /\ last_applied' = [last_applied EXCEPT ![r.node] = Larger(@, r.idx)]
            /\ committed' = committed \cup {<<r.idx, r.entry>>}
        BY <3>3 DEF CommitEntry
      <4>2. r.idx \in Nat /\ <<r.idx, r.entry>> \in committed' /\ <<r.idx, r.entry>>[1] = r.idx
        BY <4>1 DEF TypeOK, Replication
      <4>3. Reached(r.idx)'
        BY <4>2 DEF Reached
      <4>4. \A i : Reached(i) => Reached(i)'
        BY <4>1, ReachedGrows
      <4>5. commit_index \in [Node -> Index] /\ last_applied \in [Node -> Index]
        BY DEF TypeOK
      <4>6. \A k \in Node : Reached(commit_index[k])' /\ Reached(last_applied[k])'
        BY <4>1, <4>3, <4>4, <4>5 DEF Larger, IndexesReached
      <4> QED
        BY <3>1, <4>4, <4>6 DEF IndexesReached
    <3> QED
      BY <2>9, <3>2, <3>3 DEF FinishReplication
  <2>10. ASSUME NEW n \in Node, Restart(n) PROVE IndexesReached'
    <3>1. /\ commit_index' = [commit_index EXCEPT ![n] = -1]
          /\ last_applied' = [last_applied EXCEPT ![n] = -1]
          /\ replications' \subseteq replications
          /\ UNCHANGED <<messages, committed>>
      BY <2>10 DEF Restart, hist
    <3>2. Reached(-1)' /\ \A i : Reached(i) => Reached(i)'
      BY <3>1, ReachedGrows DEF Reached
    <3>3. commit_index \in [Node -> Index] /\ last_applied \in [Node -> Index]
      BY DEF TypeOK
    <3>4. \A k \in Node : Reached(commit_index[k])' /\ Reached(last_applied[k])'
      BY <3>1, <3>2, <3>3 DEF IndexesReached
    <3> QED
      BY <3>1, <3>2, <3>4 DEF IndexesReached
  <2>11. CASE UNCHANGED vars
    BY <2>11, SendKeepsReached DEF vars
  <2> QED
    BY <2>1, <2>2, <2>3, <2>4, <2>5, <2>6, <2>7, <2>8, <2>9, <2>10, <2>11 DEF Next
<1>3. IndexesReached => AppliedReachedCommit
    BY DEF IndexesReached, AppliedReachedCommit
<1> QED
    BY <1>1, <1>2, <1>3, TypeCorrect, PTL DEF Spec

----------------------------------------------------------------------------
(* A command is in a log at most once *)

Has(n, c) == \E i \in 1..Len(log[n]) : log[n][i].command = c
Carries(m, c) ==
    m.type = "append_entries" /\ \E i \in 1..Len(m.entries) : m.entries[i].command = c

\* Inductive form of TakenOnce: what is in a log or in flight was submitted, and a
\* request that carries a command is the only one to its receiver, which does not have
\* the command yet.
OnceInv ==
    /\ TakenOnce
    /\ \A n \in Node, c \in Command : Has(n, c) => c \in submitted
    /\ \A m \in messages : m.type = "append_entries" => Len(m.entries) <= 1
    /\ \A m \in messages, c \in Command :
         Carries(m, c) => c \in submitted /\ ~Has(m.dst, c)
    /\ \A m, q \in messages, c \in Command :
         Carries(m, c) /\ Carries(q, c) /\ m.dst = q.dst => m = q

\* A step that puts nothing in a log and sends no entries.
LEMMA SendKeepsOnce ==
    ASSUME TypeOK, OnceInv, submitted' = submitted,
           \A n \in Node : log'[n] = log[n] \/ log'[n] = <<>>,
           \A m \in messages' : \/ m \in messages
                                \/ m.type = "request_vote"
                                \/ m.type = "append_entries" /\ m.entries = <<>>
    PROVE  OnceInv'
<1>1. \A m \in messages' : \A c : Carries(m, c) => m \in messages
    BY DEF Carries
<1>2. \A n \in Node : \A c : Has(n, c)' => Has(n, c)
    BY DEF Has
<1>3. TakenOnce'
    BY DEF TakenOnce, OnceInv
<1>4. \A m \in messages' : m.type = "append_entries" => Len(m.entries) <= 1
    BY DEF OnceInv
<1>5. \A m \in messages : m.dst \in Node
    BY DEF TypeOK, Message
<1>6. \A m, c : Carries(m, c)' <=> Carries(m, c)
    BY DEF Carries
<1> QED
    BY <1>1, <1>2, <1>3, <1>4, <1>5, <1>6 DEF OnceInv

\* An element whose command is new leaves the commands of a log distinct.
LEMMA NewCommandOnce ==
    ASSUME NEW s, NEW t, NEW x, Len(s) \in Nat, Len(t) = Len(s) + 1,
           t[Len(s) + 1] = x, \A i \in 1..Len(s) : t[i] = s[i],
           \A i \in 1..Len(s) : s[i].command # x.command,
           \A i, j \in 1..Len(s) : s[i].command = s[j].command => i = j
    PROVE  \A i, j \in 1..Len(t) : t[i].command = t[j].command => i = j
<1> SUFFICES ASSUME NEW i \in 1..Len(t), NEW j \in 1..Len(t), t[i].command = t[j].command
             PROVE  i = j
    OBVIOUS
<1>1. /\ i \in 1..Len(s) \/ i = Len(s) + 1
      /\ j \in 1..Len(s) \/ j = Len(s) + 1
    OBVIOUS
<1>2. CASE i \in 1..Len(s) /\ j \in 1..Len(s)
    BY <1>2
<1>3. CASE i = Len(s) + 1 \/ j = Len(s) + 1
  <2>1. CASE i = Len(s) + 1 /\ j \in 1..Len(s)
    <3>1. t[i] = x /\ t[j] = s[j] /\ s[j].command # x.command
      BY <2>1
    <3> QED BY <3>1
  <2>2. CASE j = Len(s) + 1 /\ i \in 1..Len(s)
    <3>1. t[j] = x /\ t[i] = s[i] /\ s[i].command # x.command
      BY <2>2
    <3> QED BY <3>1
  <2> QED BY <1>1, <1>3, <2>1, <2>2
<1> QED BY <1>1, <1>2, <1>3

\* A submit takes a new command, and sends it to every other node once.
LEMMA SubmitKeepsOnce ==
    ASSUME TypeOK, OnceInv, NEW n \in Node, NEW c \in Command, Submit(n, c)
    PROVE  OnceInv'
<1> DEFINE entry == [term |-> current_term[n], command |-> c]
           r == [node |-> n, idx |-> Len(log[n]), entry |-> entry,
                 term |-> current_term[n], leader_commit |-> commit_index[n],
                 acks |-> {n}, waiting |-> Peers(n)]
<1>1. /\ log' = [log EXCEPT ![n] = Append(@, entry)]
      /\ messages' = messages \cup {AppendRequest(r, p) : p \in Peers(n)}
      /\ submitted' = submitted \cup {c}
      /\ c \notin submitted
    BY DEF Submit
<1>2. \A p \in Peers(n) : /\ AppendRequest(r, p).dst = p
                          /\ AppendRequest(r, p).type = "append_entries"
                          /\ AppendRequest(r, p).entries = <<entry>>
    BY DEF AppendRequest
<1>3. entry \in Entry /\ entry.command = c
    BY DEF Entry, TypeOK
<1> HIDE DEF entry, r
<1>4. /\ \A k \in Node : log[k] \in Seq(Entry)
      /\ log'[n] = Append(log[n], entry)
      /\ \A k \in Node \ {n} : log'[k] = log[k]
    BY <1>1 DEF TypeOK
<1>5. /\ Len(log'[n]) = Len(log[n]) + 1 /\ Len(log[n]) \in Nat
      /\ log'[n][Len(log[n]) + 1] = entry
      /\ \A i \in 1..Len(log[n]) : log'[n][i] = log[n][i]
    BY <1>3, <1>4
<1>6. \A k \in Node, d \in Command : Has(k, d)' => Has(k, d) \/ (k = n /\ d = c)
    BY <1>3, <1>4, <1>5, SMTT(20) DEF Has
<1>7. \A m \in messages : m.dst \in Node
    BY DEF TypeOK, Message
<1>8. ASSUME NEW p \in Peers(n), NEW d
      PROVE  Carries(AppendRequest(r, p), d) <=> d = c
    BY <1>2, <1>3 DEF Carries
<1>9. \A m, d : Carries(m, d)' <=> Carries(m, d)
    BY DEF Carries
<1>10. TakenOnce'
  <2> SUFFICES ASSUME NEW k \in Node, NEW i \in 1..Len(log'[k]), NEW j \in 1..Len(log'[k]),
                      log'[k][i].command = log'[k][j].command
               PROVE  i = j
    BY DEF TakenOnce
  <2>1. CASE k # n
    BY <1>4, <2>1 DEF OnceInv, TakenOnce
  <2>2. CASE k = n
    <3>1. ~Has(n, c)
      BY <1>1 DEF OnceInv
    <3>2. \A l \in 1..Len(log[n]) : log[n][l].command # entry.command
      BY <1>3, <3>1 DEF Has
    <3>3. \A l, h \in 1..Len(log[n]) : log[n][l].command = log[n][h].command => l = h
      BY DEF OnceInv, TakenOnce
    <3>4. \A l, h \in 1..Len(log'[n]) : log'[n][l].command = log'[n][h].command => l = h
      <4> DEFINE s == log[n]
                 t == log'[n]
      <4>1. /\ Len(s) \in Nat /\ Len(t) = Len(s) + 1 /\ t[Len(s) + 1] = entry
            /\ \A l \in 1..Len(s) : t[l] = s[l]
        BY <1>5, Zenon
      <4>2. \A l \in 1..Len(s) : s[l].command # entry.command
        BY <3>2, Zenon
      <4>3. \A l, h \in 1..Len(s) : s[l].command = s[h].command => l = h
        BY <3>3, Zenon
      <4> HIDE DEF s, t
      <4>4. \A l, h \in 1..Len(t) : t[l].command = t[h].command => l = h
        BY <4>1, <4>2, <4>3, NewCommandOnce
      <4> QED BY <4>4, Zenon DEF t
    <3> QED
      BY <2>2, <3>4
  <2> QED BY <2>1, <2>2
<1>11. \A k \in Node, d \in Command : Has(k, d)' => d \in submitted'
  <2>1. \A k \in Node, d \in Command : Has(k, d) => d \in submitted
    BY DEF OnceInv
  <2> QED BY <1>1, <1>6, <2>1, Zenon
<1>12. \A m \in messages' : m.type = "append_entries" => Len(m.entries) <= 1
  <2>1. \A m \in messages : m.type = "append_entries" => Len(m.entries) <= 1
    BY DEF OnceInv
  <2>2. \A p \in Peers(n) : Len(AppendRequest(r, p).entries) <= 1
    <3>1. Len(<<entry>>) <= 1
      OBVIOUS
    <3> QED BY <1>2, <3>1, Zenon
  <2> QED BY <1>1, <2>1, <2>2
<1>13. \A m \in messages', d \in Command :
         Carries(m, d) => d \in submitted' /\ ~Has(m.dst, d)'
  <2> SUFFICES ASSUME NEW m \in messages', NEW d \in Command, Carries(m, d)
               PROVE  d \in submitted' /\ ~Has(m.dst, d)'
    OBVIOUS
  <2>1. CASE m \in messages
    BY <1>1, <1>6, <1>7, <2>1 DEF OnceInv
  <2>2. CASE m \notin messages
    <3>1. PICK p \in Peers(n) : m = AppendRequest(r, p)
      BY <1>1, <2>2
    <3>2. d = c /\ m.dst = p /\ p \in Node /\ p # n
      BY <1>2, <1>8, <3>1 DEF Peers
    <3>3. ~Has(p, c)
      BY <1>1, <3>2 DEF OnceInv
    <3> QED
      BY <1>1, <1>6, <3>2, <3>3
  <2> QED BY <2>1, <2>2
<1>14. ASSUME NEW m \in messages', NEW q \in messages', NEW d \in Command,
              Carries(m, d), Carries(q, d), m.dst = q.dst
       PROVE  m = q
  <2>1. CASE m \in messages /\ q \in messages
    BY <1>14, <2>1 DEF OnceInv
  <2>2. CASE m \notin messages \/ q \notin messages
    <3>1. d = c
      BY <1>1, <1>8, <1>14, <2>2
    <3>2. m \notin messages /\ q \notin messages
      BY <1>1, <1>14, <3>1 DEF OnceInv
    <3> QED
      BY <1>1, <1>2, <1>14, <3>2
  <2> QED BY <2>1, <2>2
<1> QED
    BY <1>9, <1>10, <1>11, <1>12, <1>13, <1>14 DEF OnceInv

\* A request that is handled is gone, and its entry was not in the log.
LEMMA AppendKeepsOnce ==
    ASSUME TypeOK, OnceInv, NEW m \in messages, HandleAppendEntries(m)
    PROVE  OnceInv'
<1>1. /\ m.dst \in Node /\ m.entries \in Seq(Entry) /\ m.type = "append_entries"
      /\ Len(m.entries) <= 1
    BY DEF HandleAppendEntries, TypeOK, Message, OnceInv
<1>2. messages' = messages \ {m} /\ submitted' = submitted
    BY DEF HandleAppendEntries, hist
<1>3. CASE RejectEntries(m)
  <2>1. log' = log
    BY <1>3 DEF RejectEntries, logVars
  <2> QED BY <1>2, <2>1, SendKeepsOnce
<1>4. CASE AcceptEntries(m) /\ m.entries = <<>>
  <2>1. log' = [log EXCEPT ![m.dst] = log[m.dst] \o m.entries]
    BY <1>4 DEF AcceptEntries
  <2>2. \A k \in Node : log'[k] = log[k]
    <3>1. \A t \in Seq(Entry) : t \o <<>> = t
      OBVIOUS
    <3>2. \A k \in Node : log[k] \in Seq(Entry)
      BY DEF TypeOK
    <3>3. log \in [Node -> Seq(Entry)]
      BY DEF TypeOK
    <3> QED BY <1>1, <1>4, <2>1, <3>1, <3>2, <3>3
  <2> QED BY <1>2, <2>2, SendKeepsOnce
<1>5. CASE AcceptEntries(m) /\ m.entries # <<>>
  <2> DEFINE n == m.dst
             x == m.entries[1]
             c == x.command
  <2>1. Len(m.entries) = 1 /\ x \in Entry /\ m.entries = <<x>>
    <3>1. \A t \in Seq(Entry) : t # <<>> /\ Len(t) <= 1 => Len(t) = 1
      <4>1. \A t \in Seq(Entry) : Len(t) = 0 => t = <<>>
        OBVIOUS
      <4>2. \A t \in Seq(Entry) : Len(t) \in Nat
        OBVIOUS
      <4> QED BY <4>1, <4>2, SMTT(20)
    <3>2. \A t \in Seq(Entry) : Len(t) = 1 => t[1] \in Entry /\ t = <<t[1]>>
      OBVIOUS
    <3> QED BY <1>1, <1>5, <3>1, <3>2
  <2>2. c \in Command /\ Carries(m, c)
    BY <1>1, <2>1 DEF Entry, Carries
  <2>3. log' = [log EXCEPT ![n] = log[n] \o m.entries]
    BY <1>5 DEF AcceptEntries
  <2> HIDE DEF x
  <2>4. /\ log'[n] = log[n] \o <<x>>
        /\ \A k \in Node \ {n} : log'[k] = log[k]
        /\ \A k \in Node : log[k] \in Seq(Entry)
    BY <1>1, <2>1, <2>3 DEF TypeOK
  <2>5. /\ Len(log'[n]) = Len(log[n]) + 1 /\ Len(log[n]) \in Nat
        /\ log'[n][Len(log[n]) + 1] = x
        /\ \A i \in 1..Len(log[n]) : log'[n][i] = log[n][i]
    BY <1>1, <2>1, <2>4
  <2> HIDE DEF n
  <2>6. n = m.dst /\ n \in Node
    BY <1>1 DEF n
  <2>7. ~Has(n, c) /\ c \in submitted
    BY <2>2, <2>6 DEF OnceInv
  <2> HIDE DEF c
  <2>8. x.command = c
    BY DEF c
  <2>9. \A k \in Node, d \in Command : Has(k, d)' => Has(k, d) \/ (k = n /\ d = c)
    BY <2>4, <2>5, <2>8, SMTT(20) DEF Has
  <2>10. TakenOnce'
    <3> SUFFICES ASSUME NEW k \in Node, NEW i \in 1..Len(log'[k]),
                        NEW j \in 1..Len(log'[k]),
                        log'[k][i].command = log'[k][j].command
                 PROVE  i = j
      BY DEF TakenOnce
    <3>1. CASE k # n
      BY <2>4, <3>1 DEF OnceInv, TakenOnce
    <3>2. CASE k = n
      <4>1. \A l \in 1..Len(log[n]) : log[n][l].command # x.command
        BY <2>7, <2>8 DEF Has
      <4>2. \A l, h \in 1..Len(log[n]) : log[n][l].command = log[n][h].command => l = h
        BY <2>6 DEF OnceInv, TakenOnce
      <4>3. \A l, h \in 1..Len(log'[n]) :
              log'[n][l].command = log'[n][h].command => l = h
        <5> DEFINE s == log[n]
                   t == log'[n]
        <5>1. /\ Len(s) \in Nat /\ Len(t) = Len(s) + 1 /\ t[Len(s) + 1] = x
              /\ \A l \in 1..Len(s) : t[l] = s[l]
          BY <2>5, Zenon
        <5>2. \A l \in 1..Len(s) : s[l].command # x.command
          BY <4>1, Zenon
        <5>3. \A l, h \in 1..Len(s) : s[l].command = s[h].command => l = h
          BY <4>2, Zenon
        <5> HIDE DEF s, t
        <5>4. \A l, h \in 1..Len(t) : t[l].command = t[h].command => l = h
          BY <5>1, <5>2, <5>3, NewCommandOnce
        <5> QED BY <5>4, Zenon DEF t
      <4> QED
        BY <3>2, <4>3
    <3> QED BY <3>1, <3>2
  <2>11. \A k \in Node, d \in Command : Has(k, d)' => d \in submitted'
    BY <1>2, <2>7, <2>9 DEF OnceInv
  <2>12. \A q \in messages : q.dst \in Node
    BY DEF TypeOK, Message
  <2>13. ASSUME NEW q \in messages', NEW d \in Command, Carries(q, d)
         PROVE  d \in submitted' /\ ~Has(q.dst, d)'
    <3>1. q \in messages /\ q # m
      BY <1>2
    <3>2. d \in submitted /\ ~Has(q.dst, d)
      BY <2>13, <3>1 DEF OnceInv
    <3>3. ~(q.dst = n /\ d = c)
      BY <2>2, <2>6, <2>13, <3>1 DEF OnceInv, c
    <3> QED
      BY <1>2, <2>9, <2>12, <3>1, <3>2, <3>3
  <2>14. \A q, d : Carries(q, d)' <=> Carries(q, d)
    BY DEF Carries
  <2> QED
    BY <1>2, <2>10, <2>11, <2>13, <2>14 DEF OnceInv
<1> QED
    BY <1>3, <1>4, <1>5 DEF HandleAppendEntries

\* A command is at most once in any log, although an RPC that timed out may have been
\* handled and may yet be (raft.py:241-253): with restarts and overlapping elections.
THEOREM TakenOnceHolds == Spec => []TakenOnce
<1>1. Init => OnceInv
    BY DEF Init, OnceInv, TakenOnce, Has
<1>2. ASSUME TypeOK, OnceInv, [Next]_vars PROVE OnceInv'
  <2> USE <1>2
  <2>1. ASSUME NEW n \in Node, Boot(n) \/ TimerFires(n) PROVE OnceInv'
    BY <2>1, SendKeepsOnce DEF Boot, TimerFires, logVars, hist
  <2>2. ASSUME NEW n \in Node, StartElection(n) PROVE OnceInv'
    <3>1. \A m \in messages' : m \in messages \/ m.type = "request_vote"
      BY <2>2 DEF StartElection, VoteRequest
    <3> QED
      BY <2>2, <3>1, SendKeepsOnce DEF StartElection, logVars
  <2>3. ASSUME NEW n \in Node, SendHeartbeats(n) PROVE OnceInv'
    <3>1. \A m \in messages' : m \in messages \/ (m.type = "append_entries" /\ m.entries = <<>>)
      BY <2>3 DEF SendHeartbeats, Heartbeat
    <3> QED
      BY <2>3, <3>1, SendKeepsOnce DEF SendHeartbeats, logVars, hist
  <2>4. ASSUME NEW n \in Node, NEW c \in Command, Submit(n, c) PROVE OnceInv'
    BY <2>4, SubmitKeepsOnce
  <2>5. ASSUME NEW m \in messages, HandleRequestVote(m) PROVE OnceInv'
    BY <2>5, SendKeepsOnce DEF HandleRequestVote, logVars
  <2>6. ASSUME NEW m \in messages, HandleAppendEntries(m) PROVE OnceInv'
    BY <2>6, AppendKeepsOnce
  <2>7. ASSUME NEW e \in elections, ReceiveVote(e) \/ VoteRpcFails(e) PROVE OnceInv'
    <3>1. log' = log /\ submitted' = submitted
      BY <2>7 DEF ReceiveVote, VoteRpcFails, logVars
    <3>2. \A m \in messages' : m \in messages \/ m.type = "request_vote"
      BY <2>7, ContinueSends DEF ReceiveVote, VoteRpcFails, StepDown
    <3> QED
      BY <3>1, <3>2, SendKeepsOnce
  <2>8. ASSUME NEW r \in replications, NEW p \in Peers(r.node), ReplicateRpcFails(r, p)
        PROVE OnceInv'
    BY <2>8, SendKeepsOnce DEF ReplicateRpcFails, logVars, hist
  <2>9. ASSUME NEW r \in replications, FinishReplication(r) PROVE OnceInv'
    BY <2>9, SendKeepsOnce DEF FinishReplication, CommitEntry, DropEntry
  <2>10. ASSUME NEW n \in Node, Restart(n) PROVE OnceInv'
    <3>1. log' = [log EXCEPT ![n] = <<>>] /\ UNCHANGED <<messages, submitted>>
      BY <2>10 DEF Restart, hist
    <3>2. \A k \in Node : log'[k] = log[k] \/ log'[k] = <<>>
      BY <3>1 DEF TypeOK
    <3> QED
      BY <3>1, <3>2, SendKeepsOnce
  <2>11. CASE UNCHANGED vars
    BY <2>11, SendKeepsOnce DEF vars
  <2> QED
    BY <2>1, <2>2, <2>3, <2>4, <2>5, <2>6, <2>7, <2>8, <2>9, <2>10, <2>11 DEF Next
<1>3. OnceInv => TakenOnce
    BY DEF OnceInv
<1> QED
    BY <1>1, <1>2, <1>3, TypeCorrect, PTL DEF Spec

=============================================================================
