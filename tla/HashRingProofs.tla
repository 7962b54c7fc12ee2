--------------------------- MODULE HashRingProofs ---------------------------
(***************************************************************************)
(* The properties of HashRing for every set of nodes, every size of the    *)
(* ring, every number of virtual nodes and every placement.                *)
(*                                                                         *)
(* RoutesToMembers needs one strengthening: the node at a position has a   *)
(* virtual node there.  The other properties assume distinct positions and *)
(* rest on two facts more: every virtual node of a member holds its        *)
(* position, and while nobody was added twice a position is listed once if *)
(* it is held and never otherwise.  Then the lookup, which searches the    *)
(* list, finds the closest virtual node of all members.                    *)
(***************************************************************************)
EXTENDS HashRing, FiniteSetTheorems, TLAPS

TypeOK ==
    /\ place \in [Node -> [Vnode -> Position]]
    /\ ring  \in [Position -> Node \cup {None}]
    /\ count \in [Position -> Nat]
    /\ nodes \in SUBSET Node
    /\ readded \in BOOLEAN

\* The node at a position has a virtual node there.
HeldByOwner == \A p \in Position : ring[p] # None => VnodesAt(ring[p], p) # {}

\* Every virtual node of a member holds its position.
MembersHold ==
    Distinct => \A n \in nodes : \A v \in Vnode : ring[place[n][v]] = n

\* The list and the dict have the same positions, each once.
ListedOnce ==
    Distinct /\ ~readded =>
        \A p \in Position : count[p] = IF ring[p] = None THEN 0 ELSE 1

RingInv == TypeOK /\ RoutesToMembers /\ HeldByOwner /\ MembersHold /\ ListedOnce

----------------------------------------------------------------------------
(* The closest position *)

\* A set of positions has a first one.
LEMMA FirstPosition ==
    ASSUME NEW S \in SUBSET Position, S # {}
    PROVE  \E i \in S : \A j \in S : i <= j
<1> DEFINE below(i) == {j \in S : j < i}
           T == {below(i) : i \in S}
<1>0. \A x \in S : x \in Int
    BY SizeAssumption DEF Position
<1>1. IsFiniteSet(S)
  <2>1. 0 \in Int /\ RingSize - 1 \in Int
    BY SizeAssumption
  <2>2. IsFiniteSet(Position)
    BY <2>1, FS_Interval DEF Position
  <2> QED
    BY <2>2, FS_Subset
<1>2. IsWellFoundedOn(StrictSubsetOrdering(S), SUBSET S)
    BY <1>1, FS_StrictSubsetOrderingWellFounded, FS_FiniteSubsetsOfFinite
<1>3. T \subseteq SUBSET S /\ T # {}
    OBVIOUS
<1>4. \E x \in T : \A y \in T : <<y, x>> \notin StrictSubsetOrdering(S)
    BY <1>2, <1>3, WFMin
<1>5. PICK i \in S : \A j \in S : <<below(j), below(i)>> \notin StrictSubsetOrdering(S)
    BY <1>4
<1>6. ASSUME NEW j \in S, j < i PROVE FALSE
  <2>1. below(j) \subseteq below(i) /\ j \in below(i) /\ j \notin below(j)
    <3>1. i \in Int /\ j \in Int
      BY <1>0
    <3>2. \A x \in S : x < j => x < i
      BY <1>0, <1>6, <3>1
    <3>3. ~(j < j)
      BY <3>1
    <3> QED
      BY <1>6, <3>2, <3>3
  <2>2. <<below(j), below(i)>> \in (SUBSET S) \X (SUBSET S)
    OBVIOUS
  <2>3. <<below(j), below(i)>> \in StrictSubsetOrdering(S)
    <3> HIDE DEF below
    <3> QED
      BY <2>1, <2>2 DEF StrictSubsetOrdering
  <2> QED
    BY <1>5, <2>3
<1> QED
    BY <1>0, <1>6

\* NextListed, of any set of positions.
FirstAfter(S, h) ==
    IF \E p \in S : p > h
    THEN CHOOSE p \in S : p > h /\ \A q \in S : q > h => p <= q
    ELSE CHOOSE p \in S : \A q \in S : p <= q

\* bisect and the wrap around find the position that is closest clockwise.
LEMMA FirstAfterIsClosest ==
    ASSUME NEW S \in SUBSET Position, S # {}, NEW h \in Position
    PROVE  /\ FirstAfter(S, h) \in S
           /\ \A q \in S : Distance(h, FirstAfter(S, h)) <= Distance(h, q)
<1>0. /\ RingSize \in Nat /\ h \in Nat /\ h < RingSize
      /\ \A x \in S : x \in Nat /\ x < RingSize
    BY SizeAssumption DEF Position
<1>1. CASE \E p \in S : p > h
  <2> DEFINE A == {p \in S : p > h}
  <2>1. PICK i \in A : \A j \in A : i <= j
    BY <1>1, FirstPosition
  <2>2. i \in S /\ i > h /\ \A q \in S : q > h => i <= q
    BY <2>1
  <2>3. FirstAfter(S, h) = CHOOSE p \in S : p > h /\ \A q \in S : q > h => p <= q
    BY <1>1 DEF FirstAfter
  <2> DEFINE f == FirstAfter(S, h)
  <2>4. f \in S /\ f > h /\ \A q \in S : q > h => f <= q
    BY <2>2, <2>3
  <2>5. ASSUME NEW q \in S PROVE Distance(h, f) <= Distance(h, q)
    <3> HIDE DEF f
    <3> QED
      BY <1>0, <2>4 DEF Distance
  <2> QED
    BY <2>4, <2>5
<1>2. CASE ~ \E p \in S : p > h
  <2>1. PICK i \in S : \A j \in S : i <= j
    BY FirstPosition
  <2>3. FirstAfter(S, h) = CHOOSE p \in S : \A q \in S : p <= q
    BY <1>2 DEF FirstAfter
  <2> DEFINE f == FirstAfter(S, h)
  <2>4. f \in S /\ \A q \in S : f <= q
    BY <2>1, <2>3
  <2>5. ASSUME NEW q \in S PROVE Distance(h, f) <= Distance(h, q)
    <3> HIDE DEF f
    <3> QED
      BY <1>0, <1>2, <2>4 DEF Distance
  <2> QED
    BY <2>4, <2>5
<1> QED
    BY <1>1, <1>2

\* Positions at the same distance are the same, so the closest one is unique.
LEMMA ClosestIsFirstAfter ==
    ASSUME NEW S \in SUBSET Position, NEW h \in Position, NEW p \in S,
           \A q \in S : Distance(h, p) <= Distance(h, q)
    PROVE  FirstAfter(S, h) = p
<1>0. /\ RingSize \in Nat /\ h \in Nat /\ h < RingSize
      /\ \A x \in S : x \in Nat /\ x < RingSize
    BY SizeAssumption DEF Position
<1> DEFINE f == FirstAfter(S, h)
<1>1. f \in S /\ Distance(h, f) <= Distance(h, p)
    BY FirstAfterIsClosest
<1>2. Distance(h, p) <= Distance(h, f)
    BY <1>1
<1> QED
  <2> HIDE DEF f
  <2>1. f = p
    BY <1>0, <1>1, <1>2 DEF Distance
  <2> QED
    BY <2>1 DEF f

----------------------------------------------------------------------------
(* The virtual nodes of a node at a position *)

\* They are finitely many, and with distinct positions at most one.
LEMMA VnodesCounted ==
    ASSUME TypeOK, NEW n \in Node, NEW p \in Position
    PROVE  /\ Cardinality(VnodesAt(n, p)) \in Nat
           /\ VnodesAt(n, p) # {} => Cardinality(VnodesAt(n, p)) > 0
           /\ VnodesAt(n, p) = {} => Cardinality(VnodesAt(n, p)) = 0
           /\ Distinct /\ VnodesAt(n, p) # {} => Cardinality(VnodesAt(n, p)) = 1
<1> DEFINE V == VnodesAt(n, p)
<1>1. IsFiniteSet(V)
  <2>1. 0 \in Int /\ Vnodes - 1 \in Int
    BY SizeAssumption
  <2>2. IsFiniteSet(Vnode)
    BY <2>1, FS_Interval DEF Vnode
  <2>3. V \subseteq Vnode
    BY DEF VnodesAt
  <2> QED
    BY <2>2, <2>3, FS_Subset
<1>2. Cardinality(V) \in Nat /\ (Cardinality(V) = 0 <=> V = {})
    BY <1>1, FS_CardinalityType, FS_EmptySet
<1>3. ASSUME Distinct, V # {} PROVE Cardinality(V) = 1
  <2>1. PICK v \in V : TRUE
    BY <1>3
  <2>2. V = {v}
    BY <1>3, <2>1 DEF VnodesAt, Distinct
  <2> QED
    BY <2>2, FS_Singleton
<1> QED
    BY <1>2, <1>3

\* Distinct does not change with the state.
LEMMA PlaceFixed ==
    ASSUME [Next]_vars
    PROVE  place' = place /\ (Distinct' <=> Distinct)
BY DEF Next, AddNode, RemoveNode, vars, Distinct

\* With distinct positions a member's removal meets no missing item, and clears
\* just the member's positions.
LEMMA RemovalComplete ==
    ASSUME RingInv, Distinct, NEW n \in nodes
    PROVE  /\ Missing(n) = {}
           /\ \A p \in Position : p \in Cleared(n) <=> ring[p] = n
           /\ \A v \in Vnode : place[n][v] \in Cleared(n)
<1>0. n \in Node /\ n # None
    BY ValueAssumption DEF RingInv, TypeOK
<1>1. Missing(n) = {}
  <2> SUFFICES ASSUME NEW v \in Vnode, v \in Missing(n) PROVE FALSE
      BY DEF Missing
  <2>1. ring[place[n][v]] # None
      BY <1>0 DEF RingInv, MembersHold
  <2>2. PICK w \in Vnode : w < v /\ place[n][w] = place[n][v]
      BY <2>1 DEF Missing
  <2>3. w = v
      BY <1>0, <2>2 DEF Distinct
  <2> QED
      BY <2>2, <2>3, SizeAssumption DEF Vnode
<1>2. Cleared(n) = {place[n][v] : v \in Vnode}
    BY <1>1 DEF Cleared
<1>3. ASSUME NEW p \in Position, ring[p] = n PROVE p \in Cleared(n)
    BY <1>0, <1>2, <1>3 DEF RingInv, HeldByOwner, VnodesAt
<1>4. ASSUME NEW p \in Cleared(n) PROVE ring[p] = n
    BY <1>2 DEF RingInv, MembersHold
<1> QED
    BY <1>1, <1>2, <1>3, <1>4

----------------------------------------------------------------------------
(* The invariant *)

\* The empty ring.
LEMMA RingInvInit == ASSUME Init PROVE RingInv
BY ValueAssumption
   DEF Init, RingInv, TypeOK, RoutesToMembers, HeldByOwner, MembersHold, ListedOnce

\* The types of the variables under each operation.
LEMMA TypesKept ==
    ASSUME TypeOK, [Next]_vars
    PROVE  TypeOK'
<1>1. ASSUME NEW n \in Node, AddNode(n) PROVE TypeOK'
  <2>1. \A p \in Position : count[p] + Cardinality(VnodesAt(n, p)) \in Nat
    BY VnodesCounted DEF TypeOK
  <2>2. count' \in [Position -> Nat]
    BY <1>1, <2>1 DEF AddNode
  <2> QED
    BY <1>1, <2>2 DEF AddNode, TypeOK
<1>2. ASSUME NEW n \in Node, RemoveNode(n) PROVE TypeOK'
  <2>1. \A p \in Position : count[p] \in Nat /\ (count[p] > 0 => count[p] - 1 \in Nat)
    BY DEF TypeOK
  <2>2. count' \in [Position -> Nat]
    BY <1>2, <2>1 DEF RemoveNode
  <2> QED
    BY <1>2, <2>2 DEF RemoveNode, TypeOK
<1> QED
    BY <1>1, <1>2 DEF Next, vars, TypeOK

\* add_node.
LEMMA AddKeeps ==
    ASSUME RingInv, NEW n \in Node, AddNode(n)
    PROVE  RoutesToMembers' /\ HeldByOwner' /\ MembersHold' /\ ListedOnce'
<1>0. TypeOK /\ n # None
    BY ValueAssumption DEF RingInv
<1>1. place' = place /\ (Distinct' <=> Distinct)
    BY DEF AddNode, Distinct
<1>2. \A m, p : VnodesAt(m, p)' = VnodesAt(m, p)
    BY <1>1 DEF VnodesAt
<1>3. ASSUME NEW p \in Position
      PROVE  /\ ring'[p] = IF VnodesAt(n, p) # {} THEN n ELSE ring[p]
             /\ count'[p] = count[p] + Cardinality(VnodesAt(n, p))
             /\ count[p] \in Nat /\ Cardinality(VnodesAt(n, p)) \in Nat
    BY <1>0, VnodesCounted DEF AddNode, TypeOK
<1>4. ASSUME NEW p \in Position, ring'[p] # None
      PROVE  ring'[p] \in nodes' /\ count'[p] > 0 /\ VnodesAt(ring'[p], p) # {}
  <2>1. CASE VnodesAt(n, p) # {}
    BY <1>0, <1>3, <2>1, VnodesCounted DEF AddNode
  <2>2. CASE VnodesAt(n, p) = {}
    BY <1>3, <1>4, <2>2 DEF AddNode, RingInv, RoutesToMembers, HeldByOwner
  <2> QED
    BY <2>1, <2>2
<1>5. MembersHold'
  <2> SUFFICES ASSUME Distinct, NEW m \in nodes', NEW v \in Vnode
               PROVE  ring'[place[m][v]] = m
    BY <1>1 DEF MembersHold
  <2>1. m \in Node /\ place[m][v] \in Position
    BY <1>0 DEF AddNode, TypeOK
  <2>2. CASE m = n
    BY <1>3, <2>1, <2>2 DEF VnodesAt
  <2>3. CASE m # n
    <3>1. VnodesAt(n, place[m][v]) = {}
      BY <2>1, <2>3 DEF VnodesAt, Distinct
    <3>2. ring[place[m][v]] = m
      BY <2>3 DEF AddNode, RingInv, MembersHold
    <3> QED
      BY <1>3, <2>1, <3>1, <3>2
  <2> QED
    BY <2>2, <2>3
<1>6. ListedOnce'
  <2> SUFFICES ASSUME Distinct, ~readded', NEW p \in Position
               PROVE  count'[p] = IF ring'[p] = None THEN 0 ELSE 1
    BY <1>1 DEF ListedOnce
  <2>1. n \notin nodes /\ ~readded
    BY <1>0 DEF AddNode, TypeOK
  <2>2. count[p] = IF ring[p] = None THEN 0 ELSE 1
    BY <2>1 DEF RingInv, ListedOnce
  <2>3. CASE VnodesAt(n, p) # {}
    <3>1. ring[p] = None
      <4> SUFFICES ASSUME ring[p] # None PROVE FALSE
        OBVIOUS
      <4>1. ring[p] \in nodes /\ ring[p] \in Node /\ VnodesAt(ring[p], p) # {}
        BY DEF RingInv, TypeOK, RoutesToMembers, HeldByOwner
      <4>2. ring[p] = n
        BY <2>3, <4>1 DEF VnodesAt, Distinct
      <4> QED
        BY <2>1, <4>1, <4>2
    <3>2. Cardinality(VnodesAt(n, p)) = 1
      BY <1>0, <2>3, VnodesCounted
    <3> QED
      BY <1>0, <1>3, <2>2, <2>3, <3>1, <3>2
  <2>4. CASE VnodesAt(n, p) = {}
    <3>1. Cardinality(VnodesAt(n, p)) = 0
      BY <1>0, <2>4, VnodesCounted
    <3>2. ring'[p] = ring[p] /\ count'[p] = count[p] + 0 /\ count[p] \in Nat
      BY <1>3, <2>4, <3>1
    <3>3. count'[p] = count[p]
      BY <3>2
    <3> QED
      BY <2>2, <3>2, <3>3
  <2> QED
    BY <2>3, <2>4
<1> QED
    BY <1>2, <1>4, <1>5, <1>6 DEF RoutesToMembers, HeldByOwner

\* remove_node.
LEMMA RemoveKeeps ==
    ASSUME RingInv, NEW n \in Node, RemoveNode(n)
    PROVE  RoutesToMembers' /\ HeldByOwner' /\ MembersHold' /\ ListedOnce'
<1>0. TypeOK /\ n # None /\ n \in nodes
    BY ValueAssumption DEF RingInv, RemoveNode
<1>1. place' = place /\ (Distinct' <=> Distinct)
    BY DEF RemoveNode, Distinct
<1>2. \A m, p : VnodesAt(m, p)' = VnodesAt(m, p)
    BY <1>1 DEF VnodesAt
<1>3. ASSUME NEW p \in Position
      PROVE  /\ ring'[p] = IF p \in Cleared(n) THEN None ELSE ring[p]
             /\ p \notin Cleared(n) => count'[p] = count[p]
             /\ p \in Cleared(n) /\ count[p] > 0 => count'[p] = count[p] - 1
    BY <1>0 DEF RemoveNode, TypeOK
<1>4. ASSUME NEW p \in Position, ring'[p] # None
      PROVE  ring'[p] \in nodes' /\ count'[p] > 0 /\ VnodesAt(ring'[p], p) # {}
  <2>1. p \notin Cleared(n) /\ ring'[p] = ring[p] /\ count'[p] = count[p]
    BY <1>3, <1>4
  <2>2. ring[p] \in nodes /\ count[p] > 0 /\ VnodesAt(ring[p], p) # {}
    BY <1>4, <2>1 DEF RingInv, RoutesToMembers, HeldByOwner
  <2>3. ASSUME Missing(n) = {}, ring[p] = n PROVE FALSE
    <3>1. PICK v \in Vnode : place[n][v] = p
      BY <2>2, <2>3 DEF VnodesAt
    <3>2. p \in Cleared(n)
      BY <2>3, <3>1 DEF Cleared
    <3> QED
      BY <2>1, <3>2
  <2> QED
    BY <2>1, <2>2, <2>3 DEF RemoveNode
<1>5. MembersHold'
  <2> SUFFICES ASSUME Distinct, NEW m \in nodes', NEW v \in Vnode
               PROVE  ring'[place[m][v]] = m
    BY <1>1 DEF MembersHold
  <2>1. m \in nodes /\ m # n
    BY <1>0, RemovalComplete DEF RemoveNode
  <2>2. m \in Node /\ place[m][v] \in Position /\ ring[place[m][v]] = m
    BY <1>0, <2>1 DEF TypeOK, RingInv, MembersHold
  <2>3. place[m][v] \notin Cleared(n)
    BY <1>0, <2>1, <2>2, RemovalComplete
  <2> QED
    BY <1>3, <2>2, <2>3
<1>6. ListedOnce'
  <2> SUFFICES ASSUME Distinct, ~readded', NEW p \in Position
               PROVE  count'[p] = IF ring'[p] = None THEN 0 ELSE 1
    BY <1>1 DEF ListedOnce
  <2>1. count[p] = IF ring[p] = None THEN 0 ELSE 1
    BY DEF RemoveNode, RingInv, ListedOnce
  <2>2. CASE p \in Cleared(n)
    <3>1. ring[p] = n
      BY <1>0, <2>2, RemovalComplete
    <3> QED
      BY <1>0, <1>3, <2>1, <2>2, <3>1
  <2>3. CASE p \notin Cleared(n)
    BY <1>3, <2>1, <2>3
  <2> QED
    BY <2>2, <2>3
<1> QED
    BY <1>2, <1>4, <1>5, <1>6 DEF RoutesToMembers, HeldByOwner

\* No operation breaks the invariant.
LEMMA RingInvStep == ASSUME RingInv, [Next]_vars PROVE RingInv'
<1>1. TypeOK'
    BY TypesKept DEF RingInv
<1>2. CASE UNCHANGED vars
    BY <1>1, <1>2
       DEF vars, RingInv, RoutesToMembers, HeldByOwner, MembersHold, ListedOnce,
           VnodesAt, Distinct
<1>3. CASE Next
    BY <1>1, <1>3, AddKeeps, RemoveKeeps DEF Next, RingInv
<1> QED
    BY <1>2, <1>3

----------------------------------------------------------------------------
(* Lookups *)

\* The positions the lookup searches hold members, and there are some if there are
\* members, when positions are distinct and nobody was added twice.
LEMMA ListedAreHeld ==
    ASSUME RingInv, Distinct, ~readded
    PROVE  Listed = {p \in Position : ring[p] # None}
BY DEF RingInv, ListedOnce, Listed

\* A position is listed if a member has a virtual node there.
LEMMA MembersListed ==
    ASSUME RingInv, Distinct, NEW n \in nodes, NEW v \in Vnode
    PROVE  place[n][v] \in Listed /\ ring[place[n][v]] = n
<1>1. n \in Node /\ n # None /\ place[n][v] \in Position
    BY ValueAssumption DEF RingInv, TypeOK
<1>2. ring[place[n][v]] = n
    BY DEF RingInv, MembersHold
<1> QED
    BY <1>1, <1>2 DEF RingInv, RoutesToMembers, Listed

\* bisect and the wrap around, on the list.
LEMMA NextListedIsFirst ==
    ASSUME NEW h \in Position
    PROVE  /\ NextListed(h) = FirstAfter(Listed, h)
           /\ NextListed(h)' = FirstAfter(Listed', h)
           /\ Listed \in SUBSET Position /\ Listed' \in SUBSET Position
BY DEF NextListed, FirstAfter, Listed

\* A lookup that names a node names a member, the owner of the key.
LEMMA LookupOwns ==
    ASSUME RingInv, Distinct, NEW h \in Position, Lookup(h) \in Node
    PROVE  Lookup(h) \in nodes /\ Owns(Lookup(h), h)
<1> DEFINE p == NextListed(h)
<1>1. /\ \E q \in Position : ring[q] # None
      /\ Lookup(h) = ring[p] /\ ring[p] \in nodes
    BY ValueAssumption DEF Lookup
<1>2. Listed # {}
    BY <1>1 DEF RingInv, RoutesToMembers, Listed
<1>3. p \in Listed /\ \A q \in Listed : Distance(h, p) <= Distance(h, q)
    BY <1>2, NextListedIsFirst, FirstAfterIsClosest
<1> HIDE DEF p
<1>4. p \in Position /\ ring[p] # None
    BY <1>1, <1>3, ValueAssumption DEF Listed, RingInv, TypeOK
<1>5. PICK v \in Vnode : place[ring[p]][v] = p
    BY <1>4 DEF RingInv, HeldByOwner, VnodesAt
<1>6. \A n \in nodes : \A w \in Vnode : place[n][w] \in Listed
    BY MembersListed
<1>7. Owns(ring[p], h)
    BY <1>3, <1>5, <1>6 DEF Owns
<1> QED
    BY <1>1, <1>7

\* While nobody was added twice, a lookup fails only if there are no members.
LEMMA LookupSucceeds ==
    ASSUME RingInv, Distinct, ~readded, NEW h \in Position
    PROVE  IF nodes = {} THEN Lookup(h) = None
           ELSE /\ Lookup(h) \in nodes
                /\ Lookup(h) = ring[NextListed(h)]
                /\ Listed # {}
<1>1. CASE nodes = {}
    BY <1>1 DEF Lookup, RingInv, RoutesToMembers
<1>2. CASE nodes # {}
  <2>1. PICK n \in nodes : TRUE
    BY <1>2
  <2>2. 0 \in Vnode
    BY SizeAssumption DEF Vnode
  <2>3. place[n][0] \in Listed
    BY <2>2, MembersListed
  <2>4. NextListed(h) \in Listed
    BY <2>3, NextListedIsFirst, FirstAfterIsClosest
  <2>5. ring[NextListed(h)] # None /\ NextListed(h) \in Position
    BY <2>4, ListedAreHeld
  <2>6. ring[NextListed(h)] \in nodes
    BY <2>5 DEF RingInv, RoutesToMembers
  <2> QED
    BY <1>2, <2>3, <2>5, <2>6 DEF Lookup
<1> QED
    BY <1>1, <1>2

\* The node a lookup names changes only to the one that comes or from the one that
\* goes: the closest position of the others is the closest one still.
LEMMA OthersStay ==
    ASSUME RingInv, RingInv', Distinct, ~readded, ~readded',
           NEW h \in Position, NEW n \in Node,
           AddNode(n) \/ RemoveNode(n), Lookup(h)' # Lookup(h)
    PROVE  \/ Lookup(h)' \in nodes' \ nodes
           \/ Lookup(h) \in nodes \ nodes'
<1> DEFINE p == NextListed(h)
           q == FirstAfter(Listed', h)
<1>0. /\ Distinct' /\ place' = place /\ TypeOK /\ None \notin Node /\ n # None
      /\ 0 \in Vnode /\ place[n][0] \in Position
  <2>1. Distinct' /\ place' = place
    BY DEF AddNode, RemoveNode, Distinct
  <2>2. 0 \in Vnode
    BY SizeAssumption DEF Vnode
  <2> QED
    BY <2>1, <2>2, ValueAssumption DEF RingInv, TypeOK
<1>1. /\ Listed = {x \in Position : ring[x] # None}
      /\ Listed' = {x \in Position : ring'[x] # None}
    BY <1>0 DEF RingInv, ListedOnce, Listed
<1>2. ASSUME Listed # {}
      PROVE  /\ p \in Listed /\ p = FirstAfter(Listed, h)
             /\ \A x \in Listed : Distance(h, p) <= Distance(h, x)
             /\ ring[p] \in nodes /\ Lookup(h) = ring[p]
  <2>1. /\ p \in Listed /\ p = FirstAfter(Listed, h)
        /\ \A x \in Listed : Distance(h, p) <= Distance(h, x)
    BY <1>2, NextListedIsFirst, FirstAfterIsClosest
  <2> HIDE DEF p
  <2>2. ring[p] \in nodes
    BY <1>1, <2>1 DEF RingInv, RoutesToMembers
  <2> QED
    BY <1>1, <2>1, <2>2 DEF Lookup, p
<1>3. ASSUME Listed' # {}
      PROVE  /\ q \in Listed'
             /\ \A x \in Listed' : Distance(h, q) <= Distance(h, x)
             /\ ring'[q] \in nodes' /\ Lookup(h)' = ring'[q]
  <2>1. /\ q \in Listed' /\ q = NextListed(h)'
        /\ \A x \in Listed' : Distance(h, q) <= Distance(h, x)
    BY <1>3, NextListedIsFirst, FirstAfterIsClosest
  <2> HIDE DEF q
  <2>2. ring'[q] \in nodes'
    BY <1>1, <2>1 DEF RingInv, RoutesToMembers
  <2> QED
    BY <1>1, <2>1, <2>2 DEF Lookup
<1> HIDE DEF p, q
<1>4. CASE AddNode(n)
  <2>1. /\ n \notin nodes /\ n \in nodes'
        /\ \A x \in Position : ring'[x] = IF VnodesAt(n, x) # {} THEN n ELSE ring[x]
    BY <1>0, <1>4 DEF AddNode, TypeOK
  <2>2. place[n][0] \in Listed'
    BY <1>0, <1>1, <2>1 DEF VnodesAt
  <2>3. CASE ring'[q] = n
    BY <1>3, <2>1, <2>2, <2>3
  <2>4. CASE ring'[q] # n
    <3>1. q \in Listed /\ ring'[q] = ring[q] /\ Listed \subseteq Listed'
      BY <1>0, <1>1, <1>3, <2>1, <2>2, <2>4
    <3>2. \A x \in Listed : Distance(h, q) <= Distance(h, x)
      BY <1>3, <2>2, <3>1
    <3>3. FirstAfter(Listed, h) = q
      BY <3>1, <3>2, ClosestIsFirstAfter, NextListedIsFirst
    <3> QED
      BY <1>2, <1>3, <2>2, <3>1, <3>3
  <2> QED
    BY <2>3, <2>4
<1>5. CASE RemoveNode(n)
  <2>1. n \in nodes /\ Missing(n) = {} /\ \A x \in Position : x \in Cleared(n) <=> ring[x] = n
    BY <1>5, RemovalComplete DEF RemoveNode
  <2>2. /\ nodes' = nodes \ {n}
        /\ \A x \in Position : ring'[x] = IF ring[x] = n THEN None ELSE ring[x]
    BY <1>0, <1>5, <2>1 DEF RemoveNode, TypeOK
  <2>3. place[n][0] \in Listed
    BY <1>0, <2>1, MembersListed
  <2>4. CASE ring[p] = n
    BY <1>2, <2>1, <2>2, <2>3, <2>4
  <2>5. CASE ring[p] # n
    <3>1. p \in Listed' /\ ring'[p] = ring[p] /\ Listed' \subseteq Listed
      BY <1>0, <1>1, <1>2, <2>2, <2>3, <2>5
    <3>2. \A x \in Listed' : Distance(h, p) <= Distance(h, x)
      BY <1>2, <2>3, <3>1
    <3>3. q = p
      BY <3>1, <3>2, ClosestIsFirstAfter, NextListedIsFirst DEF q
    <3> QED
      BY <1>2, <1>3, <2>3, <3>1, <3>3
  <2> QED
    BY <2>4, <2>5
<1> QED
    BY <1>4, <1>5

----------------------------------------------------------------------------
(* Theorems *)

\* The invariant holds in every reachable state.
THEOREM RingInvHolds == Spec => []RingInv
<1>1. Init => RingInv
    BY RingInvInit
<1>2. RingInv /\ [Next]_vars => RingInv'
    BY RingInvStep
<1> QED
    BY <1>1, <1>2, PTL DEF Spec

\* Whatever is added, added again and removed, with or without colliding positions,
\* no lookup reaches a removed node or searches an empty list.
THEOREM RoutesToMembersHolds == Spec => []RoutesToMembers
<1>1. RingInv => RoutesToMembers
    BY DEF RingInv
<1> QED
    BY <1>1, RingInvHolds, PTL

\* With distinct positions a lookup gives the closest member clockwise, and always
\* succeeds unless a node was added twice.
THEOREM LookupIsOwnerHolds == Spec => []LookupIsOwner
<1>1. RingInv => LookupIsOwner
  <2> SUFFICES ASSUME RingInv, Distinct, NEW h \in Position
               PROVE  /\ Lookup(h) \in Node => Lookup(h) \in nodes /\ Owns(Lookup(h), h)
                      /\ ~readded => IF nodes = {} THEN Lookup(h) = None
                                                  ELSE Lookup(h) \in nodes
    BY DEF LookupIsOwner
  <2>1. Lookup(h) \in Node => Lookup(h) \in nodes /\ Owns(Lookup(h), h)
    BY LookupOwns
  <2>2. ~readded => IF nodes = {} THEN Lookup(h) = None ELSE Lookup(h) \in nodes
    BY LookupSucceeds
  <2> QED
    BY <2>1, <2>2
<1> QED
    BY <1>1, RingInvHolds, PTL

\* A change of membership moves only the keys of the node that comes or goes.
THEOREM MinimalMovementHolds == Spec => MinimalMovement
<1> DEFINE Moves == Distinct /\ ~readded' => \A h \in Position :
                        Lookup(h)' # Lookup(h) =>
                            \/ Lookup(h)' \in nodes' \ nodes
                            \/ Lookup(h)  \in nodes \ nodes'
<1>1. ASSUME RingInv, RingInv', [Next]_vars PROVE [Moves]_vars
  <2> SUFFICES ASSUME Next, Distinct, ~readded', NEW h \in Position,
                      Lookup(h)' # Lookup(h)
               PROVE  \/ Lookup(h)' \in nodes' \ nodes
                      \/ Lookup(h)  \in nodes \ nodes'
    BY <1>1
  <2>1. PICK n \in Node : AddNode(n) \/ RemoveNode(n)
    BY DEF Next
  <2>2. ~readded
    BY <1>1, <2>1 DEF AddNode, RemoveNode, RingInv, TypeOK
  <2> QED
    BY <1>1, <2>1, <2>2, OthersStay
<1>2. RingInv /\ RingInv' /\ [Next]_vars => [Moves]_vars
    BY <1>1
<1>3. Spec => [][Moves]_vars
  <2> HIDE DEF Moves
  <2> QED
    BY <1>2, RingInvHolds, PTL DEF Spec
<1> QED
    BY <1>3 DEF MinimalMovement
=============================================================================
