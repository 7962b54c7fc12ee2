---------------------------- MODULE ClusterClient ----------------------------
(***************************************************************************)
(* The cluster client of src/cluster_client.py in front of the Raft nodes. *)
(* It looks for the leader before every write by asking the nodes in their *)
(* configured order, one connection each, and sends FLUSH to every node in *)
(* turn.  Its reads go to the node that the hash ring names for the key    *)
(* and change nothing; what they return is the engine's (KVEngine).        *)
(***************************************************************************)
EXTENDS RaftKV

CONSTANTS
    Order,          \* CLUSTER_NODES: the nodes as a sequence
    Route,          \* the ring (HashRing): the node of every key
    MaxCallFailures \* bound: connections of the client that are refused or time out

ASSUME ClusterAssumption ==
    /\ Order \in Seq(Node) /\ Route \in [Key -> Node]
    /\ \A n \in Node : \E i \in 1..Len(Order) : Order[i] = n
    /\ MaxCallFailures \in Nat
ASSUME CommandAssumption == \A c \in Command : c.key \in Key

VARIABLES
    doing,    \* what the client is doing: "idle", "find", "write" or "flush"
    cmd,      \* the write it is about
    asked,    \* how many nodes of Order it has been through
    target,   \* the node it will send the write to
    failures, \* how many calls have failed
    leading,  \* history: the nodes that led when the write was typed
    excused   \* history: writes whose search met something the client cannot help

clientVars == <<doing, cmd, asked, target, failures, leading, excused>>
ccVars == <<kvVars, clientVars>>

CCInit ==
    /\ doing = "idle"
    /\ cmd = None
    /\ asked = 0
    /\ target = None
    /\ failures = 0
    /\ leading = {}
    /\ excused = {}

CallFails ==
    /\ failures < MaxCallFailures
    /\ failures' = failures + 1

Leading == {n \in Node : state[n] = "leader" /\ leader_id[n] = n}

\* The user types PUT or DELETE.  A client cannot help it that nobody leads.
TypeWrite(c) ==
    /\ doing = "idle"
    /\ c \notin answered \cup refused
    /\ doing' = "find"
    /\ cmd' = c
    /\ asked' = 0
    /\ leading' = Leading
    /\ excused' = IF Leading = {} THEN excused \cup {c} ELSE excused
    /\ UNCHANGED <<kvVars, target, failures>>

BadAskLeader ==           \* the first answer is believed, "None" included
    /\ doing = "find"
    /\ asked < Len(Order)
    /\ LET named == leader_id[Order[asked + 1]]
       IN  /\ target' = IF named = None THEN Route[cmd.key] ELSE named
           /\ excused' = IF named \in leading \cup {None} THEN excused
                                                         ELSE excused \cup {cmd}
    /\ doing' = "write"
    /\ asked' = asked + 1
    /\ UNCHANGED <<kvVars, cmd, failures, leading>>
\* _find_leader: STATS at the next node.  It believes the first one that names a
\* leader, however old that node's information is; a node that cannot be reached or
\* that names none is passed over.
AskLeader ==
    /\ doing = "find"
    /\ asked < Len(Order)
    /\ asked' = asked + 1
    /\ LET named == leader_id[Order[asked + 1]]
       IN  \/ /\ named # None
              /\ target' = named
              /\ doing' = "write"
              /\ excused' = IF named \in leading THEN excused ELSE excused \cup {cmd}
              /\ UNCHANGED failures
           \/ /\ named = None
              /\ UNCHANGED <<target, doing, failures, excused>>
           \/ /\ CallFails
              /\ excused' = excused \cup {cmd}
              /\ UNCHANGED <<target, doing>>
    /\ UNCHANGED <<kvVars, cmd, leading>>

\* Nobody named a leader: the owner of the key on the ring.
FallBack ==
    /\ doing = "find"
    /\ asked = Len(Order)
    /\ target' = Route[cmd.key]
    /\ doing' = "write"
    /\ UNCHANGED <<kvVars, cmd, asked, failures, leading, excused>>

Done ==
    /\ doing' = "idle"
    /\ cmd' = None
    /\ asked' = 0
    /\ target' = None
    /\ leading' = {}

\* The write is sent on a new connection and answered at once.
SendWrite ==
    /\ doing = "write"
    /\ Write(target, cmd)
    /\ Done
    /\ UNCHANGED <<failures, excused>>

\* The node is not running, which the user is told; or the write to it, or a FLUSH,
\* times out, which ends the program.
Offline ==
    /\ CallFails
    /\ doing \in {"write", "flush"}
    /\ Done
    /\ UNCHANGED <<kvVars, excused>>

\* broadcast: FLUSH at one node after the other; one that refuses is passed over.
StartFlush ==
    /\ doing = "idle"
    /\ flushes + Len(Order) <= MaxFlushes
    /\ doing' = "flush"
    /\ asked' = 0
    /\ UNCHANGED <<kvVars, cmd, target, failures, leading, excused>>

FlushNext ==
    /\ doing = "flush"
    /\ \/ /\ asked < Len(Order)
          /\ \/ Flush(Order[asked + 1]) /\ UNCHANGED failures
             \/ CallFails /\ UNCHANGED kvVars
          /\ asked' = asked + 1
          /\ UNCHANGED <<doing, cmd, target, leading>>
       \/ /\ asked = Len(Order)
          /\ Done
          /\ UNCHANGED <<kvVars, failures>>
    /\ UNCHANGED excused

ClientStep ==
    \/ \E c \in Command : TypeWrite(c)
    \/ AskLeader \/ FallBack \/ SendWrite \/ Offline
    \/ StartFlush \/ FlushNext

\* A step of the servers.  A client that is about to write cannot help it that a
\* node that led steps down.
ServersMove ==
    /\ ServerStep
    /\ excused' = IF doing \in {"find", "write"} /\ ~(leading \subseteq Leading')
                  THEN excused \cup {cmd} ELSE excused
    /\ UNCHANGED <<doing, cmd, asked, target, failures, leading>>

CCNext == ServersMove \/ ClientStep

\* The servers and the client from their start.
ClusterSpec == Init /\ KVInit /\ CCInit /\ [][CCNext]_ccVars

----------------------------------------------------------------------------
\* If some node led when a write was typed, no node that led then has stepped down
\* since, every node that was asked could be reached and none named another leader,
\* then the write is not refused: whatever elections there were before, at whatever
\* moment the client asks, and although some nodes name no leader or would have named
\* an old one (cluster_client.py _find_leader).
WritesReachLeader == refused \subseteq excused
=============================================================================
