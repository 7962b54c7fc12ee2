------------------------------ MODULE HashRing ------------------------------
(***************************************************************************)
(* The consistent hash ring of src/ring.py: a dict from positions to node  *)
(* ids, a sorted list of positions and a dict of nodes, which add_node and *)
(* remove_node update one virtual node at a time and get_node reads.       *)
(* MiniRing in src/cluster_client.py is the same ring, only ever added to. *)
(*                                                                         *)
(* MD5 is not computed: the position of every virtual node is a choice of  *)
(* Init, so every placement is explored, those with collisions included.   *)
(***************************************************************************)
EXTENDS Integers, FiniteSets

CONSTANTS
    Node,        \* node ids
    RingSize,    \* number of positions (2^32 in the code)
    Vnodes,      \* virtual nodes of a node (150 in the code)
    None,        \* Python's None
    KeyError,    \* the exception
    MaxListed    \* bound: how often a position is listed before an add

ASSUME SizeAssumption  == RingSize \in Nat \ {0} /\ Vnodes \in Nat \ {0} /\ MaxListed \in Nat
ASSUME ValueAssumption == None \notin Node /\ KeyError \notin Node /\ None # KeyError

Position == 0..(RingSize - 1)
Vnode    == 0..(Vnodes - 1)

VARIABLES
    place,    \* place[n][v]: the hash of "n:vnode:v"; never changes
    ring,     \* _ring: position -> node id, None where there is no item
    count,    \* _sorted_keys as a bag: how often a position is listed
    nodes,    \* the keys of _nodes
    readded   \* history: some node was added while it was a member

vars == <<place, ring, count, nodes, readded>>

----------------------------------------------------------------------------
(* get_node *)

Listed == {p \in Position : count[p] > 0}

BadNextListed(h) ==           \* bisect_left: a key at a position belongs to it
    IF \E p \in Listed : p >= h
    THEN CHOOSE p \in Listed : p >= h /\ \A q \in Listed : q >= h => p <= q
    ELSE CHOOSE p \in Listed : \A q \in Listed : p <= q
\* bisect, then wrap around: the first listed position after h, or the first.
NextListed(h) ==
    IF \E p \in Listed : p > h
    THEN CHOOSE p \in Listed : p > h /\ \A q \in Listed : q > h => p <= q
    ELSE CHOOSE p \in Listed : \A q \in Listed : p <= q

Lookup(h) ==
    IF \A p \in Position : ring[p] = None THEN None
    ELSE IF ring[NextListed(h)] \in nodes THEN ring[NextListed(h)]
    ELSE KeyError

----------------------------------------------------------------------------
Init ==
    /\ place \in [Node -> [Vnode -> Position]]
    /\ ring  = [p \in Position |-> None]
    /\ count = [p \in Position |-> 0]
    /\ nodes = {}
    /\ readded = FALSE

VnodesAt(n, p) == {v \in Vnode : place[n][v] = p}

\* Every virtual node takes its position in the dict, whoever held it, and is
\* listed once more.
AddNode(n) ==
    /\ \A p \in Position : count[p] < MaxListed
    /\ nodes' = nodes \cup {n}
    /\ ring'  = [p \in Position |-> IF VnodesAt(n, p) # {} THEN n ELSE ring[p]]
    /\ count' = [p \in Position |-> count[p] + Cardinality(VnodesAt(n, p))]
    /\ readded' = (readded \/ n \in nodes)
    /\ UNCHANGED place

\* The virtual nodes whose del finds no item: another node's removal or an
\* earlier virtual node of n has taken it away.
Missing(n) ==
    {v \in Vnode : \/ ring[place[n][v]] = None
                   \/ \E w \in Vnode : w < v /\ place[n][w] = place[n][v]}

\* The positions the loop clears before the first such virtual node.
Cleared(n) == {place[n][v] : v \in {w \in Vnode : \A m \in Missing(n) : w < m}}

BadRemoveNode(n) ==         \* the last virtual node is forgotten
    /\ n \in nodes
    /\ LET gone == {place[n][v] : v \in Vnode \ {Vnodes - 1}}
       IN  /\ ring'  = [p \in Position |-> IF p \in gone THEN None ELSE ring[p]]
           /\ count' = [p \in Position |-> IF p \in gone /\ count[p] > 0
                                           THEN count[p] - 1 ELSE count[p]]
    /\ nodes' = nodes \ {n}
    /\ UNCHANGED <<place, readded>>
BadRemoveNodeRight(n) ==    \* bisect for bisect_left: the next position is popped
    /\ n \in nodes
    /\ LET popped == {NextListed(q) : q \in Cleared(n)}
       IN  count' = [p \in Position |-> IF p \in popped THEN count[p] - 1 ELSE count[p]]
    /\ ring'  = [p \in Position |-> IF p \in Cleared(n) THEN None ELSE ring[p]]
    /\ nodes' = IF Missing(n) = {} THEN nodes \ {n} ELSE nodes
    /\ UNCHANGED <<place, readded>>
\* An unknown node is no removal.  A KeyError in the loop leaves what was done
\* and keeps n in _nodes.
RemoveNode(n) ==
    /\ n \in nodes
    /\ ring'  = [p \in Position |-> IF p \in Cleared(n) THEN None ELSE ring[p]]
    /\ count' = [p \in Position |-> IF p \in Cleared(n) /\ count[p] > 0
                                    THEN count[p] - 1 ELSE count[p]]
    /\ nodes' = IF Missing(n) = {} THEN nodes \ {n} ELSE nodes
    /\ UNCHANGED <<place, readded>>

Next == \E n \in Node : AddNode(n) \/ RemoveNode(n)

Spec == Init /\ [][Next]_vars

----------------------------------------------------------------------------
\* No two virtual nodes, of one node or of two, share a position.
Distinct ==
    \A n, m \in Node : \A v, w \in Vnode :
        place[n][v] = place[m][w] => n = m /\ v = w

\* How far clockwise p is from a key at h.  A key that hashes to the position of
\* a virtual node has a whole turn to go: the ring is searched strictly after it.
Distance(h, p) == IF p > h THEN p - h ELSE p - h + RingSize

\* m owns h: one of its virtual nodes comes first, clockwise, of all members'.
Owns(m, h) ==
    \E v \in Vnode : \A n \in nodes : \A w \in Vnode :
        Distance(h, place[m][v]) <= Distance(h, place[n][w])

\* The dict and the list hold items of members only, and every item of the dict
\* is listed: whatever collisions, repeated adds and half-done removals came
\* before, no lookup reaches a removed node or an empty list (ring.py get_node,
\* distribution).
RoutesToMembers ==
    \A p \in Position : ring[p] # None => ring[p] \in nodes /\ count[p] > 0

\* With distinct positions get_node returns the clockwise owner, or fails.  It
\* fails only after a member was added a second time (its positions stay listed
\* when it is removed) (ring.py get_node against the module's description).
LookupIsOwner ==
    Distinct => \A h \in Position :
        /\ Lookup(h) \in Node => Lookup(h) \in nodes /\ Owns(Lookup(h), h)
        /\ ~readded => IF nodes = {} THEN Lookup(h) = None ELSE Lookup(h) \in nodes

\* Only keys of the node that comes or goes move: an add takes keys to the new
\* node, a removal takes keys from the removed one (ring.py, README.md ADR-3).
MinimalMovement ==
    [][Distinct /\ ~readded' => \A h \in Position :
          Lookup(h)' # Lookup(h) =>
              \/ Lookup(h)' \in nodes' \ nodes
              \/ Lookup(h)  \in nodes \ nodes']_vars
=============================================================================
