----------------------------- MODULE Positions -----------------------------
(* A fact about positions in a sequence that several proofs need. *)
EXTENDS Integers, FiniteSetTheorems, TLAPS

\* A set of positions in a log has a last one.  Both the replay of an engine's log
\* (wal.py) and the application of Raft's (raft.py) look for the last entry of a key.
LEMMA LastPosition ==
    ASSUME NEW n \in Nat, NEW S \in SUBSET (1..n), S # {}
    PROVE  \E i \in S : \A j \in S : j <= i
<1> DEFINE above(i) == {j \in S : j > i}
           T == {above(i) : i \in S}
<1>0. \A x \in S : x \in Int
    OBVIOUS
<1>1. IsFiniteSet(S)
  <2>1. 1 \in Int /\ n \in Int
    OBVIOUS
  <2>2. IsFiniteSet(1..n)
    BY <2>1, FS_Interval
  <2> QED
    BY <2>2, FS_Subset
<1>2. IsWellFoundedOn(StrictSubsetOrdering(S), SUBSET S)
    BY <1>1, FS_StrictSubsetOrderingWellFounded, FS_FiniteSubsetsOfFinite
<1>3. T \subseteq SUBSET S /\ T # {}
    OBVIOUS
<1>4. \E x \in T : \A y \in T : <<y, x>> \notin StrictSubsetOrdering(S)
    BY <1>2, <1>3, WFMin
<1>5. PICK i \in S : \A j \in S : <<above(j), above(i)>> \notin StrictSubsetOrdering(S)
    BY <1>4
<1>6. ASSUME NEW j \in S, j > i PROVE FALSE
  <2>1. above(j) \subseteq above(i) /\ j \in above(i) /\ j \notin above(j)
    <3>1. i \in Int /\ j \in Int
      BY <1>0
    <3>2. \A x \in S : x > j => x > i
      BY <1>0, <1>6, <3>1
    <3>3. ~(j > j)
      BY <3>1
    <3> QED
      BY <1>6, <3>2, <3>3
  <2>2. <<above(j), above(i)>> \in (SUBSET S) \X (SUBSET S)
    OBVIOUS
  <2>3. <<above(j), above(i)>> \in StrictSubsetOrdering(S)
    <3> HIDE DEF above
    <3> QED
      BY <2>1, <2>2 DEF StrictSubsetOrdering
  <2> QED
    BY <1>5, <2>3
<1> QED
    BY <1>0, <1>6
=============================================================================
