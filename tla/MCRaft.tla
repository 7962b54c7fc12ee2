------------------------------- MODULE MCRaft -------------------------------
(* Small instances of Raft for TLC. *)
EXTENDS Raft, TLC

CONSTANT First    \* the node LeaderInit makes leader

\* Nodes and commands are interchangeable in Raft: no action and no invariant
\* names one of them or orders them.
NodeSymmetry    == Permutations(Node)
Symmetry        == Permutations(Node) \cup Permutations(Command)
LeaderSymmetry  == Permutations(Node \ {First})
LeaderCmdSymmetry == LeaderSymmetry \cup Permutations(Command)

----------------------------------------------------------------------------
\* Nothing is under way.
Quiet ==
    /\ due          = [n \in Node |-> FALSE]
    /\ booted       = [n \in Node |-> TRUE]
    /\ elections    = {}
    /\ replications = {}
    /\ messages     = {}
    /\ restarts     = 0

\* And nothing was ever submitted.
Fresh ==
    /\ Quiet
    /\ log          = [n \in Node |-> <<>>]
    /\ commit_index = [n \in Node |-> -1]
    /\ last_applied = [n \in Node |-> -1]
    /\ submitted    = {}
    /\ committed    = {}

(* The cluster once every node has armed its timer and none has fired: a state
   Spec reaches, without the interleavings of the boots. *)
BootedInit ==
    /\ Fresh
    /\ current_term = [n \in Node |-> 0]
    /\ voted_for    = [n \in Node |-> None]
    /\ state        = [n \in Node |-> "follower"]
    /\ leader_id    = [n \in Node |-> None]
    /\ timer        = [n \in Node |-> TRUE]
    /\ elected      = {}
    /\ granted      = {}

BootedSpec == BootedInit /\ [][Next]_vars

\* The votes, terms and timers once First has won term t with every vote.
LeaderRole(t) ==
    /\ current_term = [n \in Node |-> t]
    /\ voted_for    = [n \in Node |-> First]
    /\ state        = [n \in Node |-> IF n = First THEN "leader" ELSE "follower"]
    /\ timer        = [n \in Node |-> n # First]
    /\ elected      = {<<First, t>>}
    /\ granted      = {<<n, u, First>> : n \in Node, u \in 1..t}

(* The cluster once First has won term t with every vote, before its first
   heartbeat: a state Spec reaches (in the earlier terms First asked in vain, because
   its RPCs timed out before the votes came back), from which replication and
   handover can be explored without the interleavings of the first elections. *)
LeaderInit(t) ==
    /\ Fresh
    /\ LeaderRole(t)
    /\ leader_id    = [n \in Node |-> IF n = First THEN First ELSE None]

LeaderSpec == LeaderInit(1) /\ [][Next]_vars
=============================================================================
