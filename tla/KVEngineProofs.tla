--------------------------- MODULE KVEngineProofs ---------------------------
(***************************************************************************)
(* What is proved of the storage engine for every set of keys and values   *)
(* and every bound.                                                        *)
(*                                                                         *)
(*   - While the names of the segments sort by number (NamesFit), the last *)
(*     segment by name is the last by number and is the one open for       *)
(*     append: TypeInv.  NamesFit itself follows from a bound on the       *)
(*     mutations: CountInv.                                                *)
(*   - Memory: a key is as the last mutation left it or was evicted after  *)
(*     its deadline: MemInv.                                               *)
(*   - Disk, when a crash cuts no record in two: the chunks of every file  *)
(*     are lines, whole but for the last one: FileInv; and what replay     *)
(*     reads has the acknowledged records as a subsequence, the record in  *)
(*     progress coming last: AckInv.                                       *)
(*   - Without failing writes and TTLs the records replayed are the log of *)
(*     LoggedMap, and by LoggedMapProofs the engine is a durable map.      *)
(*                                                                         *)
(* How many lines there are before a position, which the text replay reads *)
(* determines by counting, is treated in its own part: a segment that      *)
(* grows or shrinks at its end keeps the order and the rank of the lines   *)
(* it had.                                                                 *)
(***************************************************************************)
EXTENDS KVEngine, FiniteSetTheorems, SequenceTheorems, TLAPS

(* The facts about records and their replay are those of LoggedMapProofs *)

LP == INSTANCE LoggedMapProofs WITH log <- Replayed(segments)

\* The assumptions of LoggedMapProofs hold of the engine's constants.
LEMMA LoggedMapAssumed == LP!OpsAssumption /\ LP!KeyAssumption /\ LP!NoneAssumption
<1>1. LP!OpsAssumption
  BY EngineAssumption DEF LP!OpsAssumption
<1>2. LP!KeyAssumption
  BY KeyAssumption DEF LP!KeyAssumption
<1>3. LP!NoneAssumption
  BY NoneAssumption DEF LP!NoneAssumption, LP!Record, Record
<1> QED BY <1>1, <1>2, <1>3

\* Records, maps and their recovery are the same in both.
LEMMA SameRecords ==
    /\ LP!Record = Record /\ LP!Map = Map /\ LP!EmptyMap = EmptyMap
    /\ \A m, r : LP!Apply(m, r) = Apply(m, r)
    /\ \A l : LP!Recovered(l) = Recovered(l)
<1>1. LP!Record = Record
    BY DEF Record, LP!Record
<1>2. LP!Map = Map /\ LP!EmptyMap = EmptyMap
    BY DEF Map, LP!Map, EmptyMap, LP!EmptyMap
<1>3. \A m, r : LP!Apply(m, r) = Apply(m, r)
    BY <1>2 DEF Apply, LP!Apply
<1>4. \A r, k : LP!Touches(r, k) = Touches(r, k)
    BY DEF Touches, LP!Touches
<1>5. \A l, k : LP!Hits(l, k) = Hits(l, k)
    BY <1>4 DEF Hits, LP!Hits
<1>6. ASSUME NEW l PROVE LP!Recovered(l) = Recovered(l)
  <2> DEFINE latest(H) == CHOOSE i \in H : \A j \in H : j <= i
  <2>1. ASSUME NEW k \in Key PROVE LP!Recovered(l)[k] = Recovered(l)[k]
    <3>1. LP!Recovered(l)[k] = IF LP!Hits(l, k) = {} THEN None
                               ELSE LP!Apply(LP!EmptyMap, l[latest(LP!Hits(l, k))])[k]
      BY DEF LP!Recovered
    <3>2. Recovered(l)[k] = IF Hits(l, k) = {} THEN None
                            ELSE Apply(EmptyMap, l[latest(Hits(l, k))])[k]
      BY DEF Recovered
    <3> HIDE DEF latest
    <3> QED
      BY <1>2, <1>3, <1>5, <3>1, <3>2
  <2> QED
    BY <2>1 DEF Recovered, LP!Recovered
<1> QED
    BY <1>1, <1>2, <1>3, <1>6

\* A log recovers to a map.
LEMMA RecoveredTypes ==
    ASSUME NEW l \in Seq(Record)
    PROVE  Recovered(l) \in Map
    BY LP!RecoveredTypes, SameRecords, LoggedMapAssumed

\* So does a map and one more record.
LEMMA ApplyTypes ==
    ASSUME NEW m \in Map, NEW rec \in Record
    PROVE  Apply(m, rec) \in Map
    BY LP!ApplyTypes, SameRecords, LoggedMapAssumed


----------------------------------------------------------------------------
(* The order in which replay reads *)

\* Numbers that fit the padding sort as numbers.
LEMMA NumberOrder ==
    ASSUME NEW a \in Nat, NEW b \in Nat, a < Padded, b < Padded
    PROVE  NameBefore(a, b) <=> a < b
<1>1. Digits(a) = NameDigits /\ Digits(b) = NameDigits
    BY DEF Digits
<1>2. 10^Digits(a) = Padded /\ 10^Digits(b) = Padded
    BY <1>1, Zenon DEF Padded
<1>4. NameBefore(a, b) <=> a * Padded < b * Padded \/ (a * Padded = b * Padded /\ a < b)
    BY <1>2, Zenon DEF NameBefore
<1>5. Padded \in Nat \ {0}
    BY PaddedAssumption
<1>6. ASSUME NEW w \in Nat \ {0} PROVE a * w < b * w <=> a < b
    OBVIOUS
<1>7. ASSUME NEW w \in Nat \ {0}, a < b PROVE ~ (b * w < a * w)
    BY <1>7
<1>8. a * Padded < b * Padded <=> a < b
    BY <1>5, <1>6
<1> QED
    BY <1>4, <1>8

\* Pairs of a segment and a position, the names of the segments padded.
Places(n) == {p \in Nat \X Nat : p[1] \in 1..n}

\* So the lines are read by segment and, in one, from top to bottom.
LEMMA ReadOrder ==
    ASSUME NEW n \in Nat, n <= Padded, NEW p \in Places(n), NEW q \in Places(n)
    PROVE  ReadBefore(p, q) <=> p[1] < q[1] \/ (p[1] = q[1] /\ p[2] < q[2])
<1>1. /\ p[1] \in 1..n /\ q[1] \in 1..n /\ p[1] - 1 \in Nat /\ q[1] - 1 \in Nat
    BY DEF Places
<1>2. p[1] - 1 < Padded /\ q[1] - 1 < Padded
    BY <1>1, PaddedAssumption
<1>3. NameBefore(p[1] - 1, q[1] - 1) <=> p[1] - 1 < q[1] - 1
    BY <1>1, <1>2, NumberOrder
<1> QED
    BY <1>1, <1>3 DEF ReadBefore

\* What is read later does not move what was read before.
LEMMA PrefixRank ==
    ASSUME NEW n \in Nat, n <= Padded, NEW A, NEW B \in SUBSET Places(n), IsFiniteSet(B),
           A \subseteq B, \A a \in A, b \in B \ A : ReadBefore(a, b)
    PROVE  /\ IsFiniteSet(A) /\ Cardinality(A) \in Nat /\ Cardinality(B) \in Nat
           /\ Cardinality(A) <= Cardinality(B)
           /\ \A i \in 1..Cardinality(A) : Nth(i, A) = Nth(i, B)
<1>1. /\ IsFiniteSet(A) /\ Cardinality(A) \in Nat /\ Cardinality(B) \in Nat
      /\ Cardinality(A) <= Cardinality(B)
    BY FS_Subset, FS_CardinalityType
<1>2. ASSUME NEW a \in A PROVE Rank(a, A) = Rank(a, B)
  <2>1. \A b \in B \ A : ~ReadBefore(b, a)
    <3> SUFFICES ASSUME NEW b \in B \ A PROVE ~ReadBefore(b, a)
      OBVIOUS
    <3>1. ReadBefore(a, b) /\ a \in Places(n) /\ b \in Places(n)
      OBVIOUS
    <3> QED
      BY <3>1, ReadOrder DEF Places
  <2>2. {q \in A : ReadBefore(q, a)} = {q \in B : ReadBefore(q, a)}
    BY <2>1
  <2> QED
    BY <2>2 DEF Rank
<1>3. ASSUME NEW b \in B \ A PROVE Rank(b, B) >= Cardinality(A)
  <2> DEFINE S == {q \in B : ReadBefore(q, b)}
  <2>1. A \subseteq S /\ S \subseteq B
    OBVIOUS
  <2>2. IsFiniteSet(S)
    BY <2>1, FS_Subset
  <2>3. Cardinality(A) <= Cardinality(S) /\ Cardinality(S) \in Nat
    BY <2>1, <2>2, FS_Subset, FS_CardinalityType
  <2> QED
    BY <1>1, <2>3 DEF Rank
<1>4. ASSUME NEW i \in 1..Cardinality(A) PROVE Nth(i, A) = Nth(i, B)
  <2>1. \A p \in B \ A : Rank(p, B) # i - 1
    <3> SUFFICES ASSUME NEW p \in B \ A, Rank(p, B) = i - 1 PROVE FALSE
      OBVIOUS
    <3>1. i - 1 >= Cardinality(A)
      BY <1>3
    <3> QED BY <1>1, <3>1
  <2>2. \A p : (p \in A /\ Rank(p, A) = i - 1) <=> (p \in B /\ Rank(p, B) = i - 1)
    BY <1>2, <2>1
  <2> QED
    BY <2>2 DEF Nth
<1> QED
    BY <1>1, <1>4

\* The line that all others are read before is the last one.
LEMMA LastRank ==
    ASSUME NEW n \in Nat, n <= Padded, NEW B \in SUBSET Places(n), IsFiniteSet(B),
           NEW p \in B, \A q \in B \ {p} : ReadBefore(q, p)
    PROVE  Cardinality(B) \in Nat \ {0} /\ Nth(Cardinality(B), B) = p
<1>1. Cardinality(B) \in Nat \ {0}
    BY FS_CardinalityType, FS_EmptySet
<1>2. \A q \in B : ~ReadBefore(q, q)
    BY ReadOrder DEF Places
<1>3. Rank(p, B) = Cardinality(B) - 1
  <2>1. {q \in B : ReadBefore(q, p)} = B \ {p}
    BY <1>2
  <2> QED BY <2>1, FS_RemoveElement DEF Rank
<1>4. ASSUME NEW q \in B \ {p} PROVE Rank(q, B) # Cardinality(B) - 1
  <2> DEFINE S == {x \in B : ReadBefore(x, q)}
             T == B \ {p}
  <2>1. ~ReadBefore(p, q)
    <3>1. ReadBefore(q, p) /\ p \in Places(n) /\ q \in Places(n)
      OBVIOUS
    <3> QED BY <3>1, ReadOrder DEF Places
  <2>2. S \subseteq T /\ q \in T /\ q \notin S
    BY <1>2, <2>1
  <2>3. IsFiniteSet(T) /\ Cardinality(T) = Cardinality(B) - 1
    BY FS_RemoveElement
  <2> HIDE DEF S, T
  <2>4. Cardinality(S) # Cardinality(T)
    BY <2>2, <2>3, FS_Subset
  <2> QED BY <2>3, <2>4 DEF Rank, S
<1>5. \A q : (q \in B /\ Rank(q, B) = Cardinality(B) - 1) <=> q = p
    BY <1>3, <1>4
<1> QED
    BY <1>1, <1>5 DEF Nth

\* Every number up to the count of lines is that of a line.
LEMMA NthIsLine ==
    ASSUME NEW n \in Nat, n <= Padded, NEW B \in SUBSET Places(n), IsFiniteSet(B),
           NEW i \in 1..Cardinality(B)
    PROVE  Nth(i, B) \in B
<1> DEFINE c == Cardinality(B)
           before(p) == {q \in B : ReadBefore(q, p)}
           f == [p \in B |-> Rank(p, B)]
<1>1. c \in Nat
    BY FS_CardinalityType
<1>2. IsFiniteSet(0..(c - 1)) /\ Cardinality(0..(c - 1)) = c
  <2>1. 0 \in Int /\ c - 1 \in Int
    BY <1>1
  <2>2. /\ IsFiniteSet(0..(c-1))
        /\ Cardinality(0..(c-1)) = IF 0 > c - 1 THEN 0 ELSE (c - 1) - 0 + 1
    BY <2>1, FS_Interval
  <2> QED BY <1>1, <2>2
<1>3. \A q \in B : ~ReadBefore(q, q)
    BY ReadOrder DEF Places
<1>4. \A p \in B : f[p] = Cardinality(before(p)) /\ f[p] \in 0..(c - 1)
  <2> SUFFICES ASSUME NEW p \in B PROVE Cardinality(before(p)) \in 0..(c - 1)
    BY DEF Rank
  <2>1. before(p) \subseteq B /\ before(p) # B
    BY <1>3
  <2>2. Cardinality(before(p)) <= c /\ Cardinality(before(p)) # c /\ IsFiniteSet(before(p))
    BY <2>1, FS_Subset
  <2>3. Cardinality(before(p)) \in Nat
    BY <2>2, FS_CardinalityType
  <2> QED BY <1>1, <2>2, <2>3
<1>5. \A p, q \in B : ReadBefore(p, q) => f[p] # f[q]
  <2> SUFFICES ASSUME NEW p \in B, NEW q \in B, ReadBefore(p, q)
               PROVE  Cardinality(before(p)) # Cardinality(before(q))
    BY <1>4
  <2>1. before(p) \subseteq before(q)
    <3> SUFFICES ASSUME NEW x \in B, ReadBefore(x, p) PROVE ReadBefore(x, q)
      OBVIOUS
    <3>1. x \in Places(n) /\ p \in Places(n) /\ q \in Places(n)
      OBVIOUS
    <3> QED BY <3>1, ReadOrder DEF Places
  <2>2. p \in before(q) /\ p \notin before(p)
    BY <1>3
  <2>3. IsFiniteSet(before(q))
    <3>1. before(q) \subseteq B
      OBVIOUS
    <3> QED BY <3>1, FS_Subset
  <2> QED
    BY <2>1, <2>2, <2>3, FS_Subset
<1>6. \A p, q \in B : p # q => ReadBefore(p, q) \/ ReadBefore(q, p)
  <2> SUFFICES ASSUME NEW p \in B, NEW q \in B, p # q
               PROVE  ReadBefore(p, q) \/ ReadBefore(q, p)
    OBVIOUS
  <2>1. p \in Places(n) /\ q \in Places(n)
    OBVIOUS
  <2>2. p[1] # q[1] \/ p[2] # q[2]
    BY <2>1 DEF Places
  <2> QED BY <2>1, <2>2, ReadOrder DEF Places
<1>7. f \in Injection(B, 0..(c - 1))
  <2>1. f \in [B -> 0..(c - 1)]
    BY <1>4
  <2>2. \A p, q \in B : f[p] = f[q] => p = q
    BY <1>5, <1>6
  <2> QED BY <2>1, <2>2 DEF Injection, IsInjective
<1>8. f \in Surjection(B, 0..(c - 1))
    BY <1>2, <1>7, FS_Injection
<1>9. PICK p \in B : f[p] = i - 1
  <2>1. i - 1 \in 0..(c - 1)
    BY <1>1
  <2> QED BY <1>8, <2>1 DEF Surjection
<1> QED
    BY <1>9 DEF Nth

----------------------------------------------------------------------------
(* The lines of the files *)

\* The files hold finitely many lines.
LEMMA LinesFinite ==
    ASSUME NEW segs \in Seq(Seq(Chunk))
    PROVE  Lines(segs) \in SUBSET Places(Len(segs)) /\ IsFiniteSet(Lines(segs))
<1> DEFINE n == Len(segs)
           of(s) == {s} \X {i \in 1..Len(segs[s]) : Parsed(segs[s], i)}
           f == [s \in 1..n |-> of(s)]
           T == {of(s) : s \in 1..n}
<1>1. n \in Nat /\ \A s \in 1..n : Len(segs[s]) \in Nat
    OBVIOUS
<1>2. \A x, y \in Int : IsFiniteSet(x..y)
    BY FS_Interval
<1>3. ASSUME NEW s \in 1..n PROVE IsFiniteSet(of(s))
  <2>1. IsFiniteSet({i \in 1..Len(segs[s]) : Parsed(segs[s], i)})
    <3>1. IsFiniteSet(1..Len(segs[s]))
      BY <1>1, <1>2
    <3> QED BY <3>1, FS_Subset
  <2>2. IsFiniteSet({s})
    BY FS_Singleton
  <2> QED BY <2>1, <2>2, FS_Product
<1>4. IsFiniteSet(T)
  <2>1. IsFiniteSet(1..n)
    BY <1>1, <1>2
  <2>2. f \in Surjection(1..n, T)
    <3> HIDE DEF of
    <3> QED BY DEF Surjection
  <2> HIDE DEF f, T
  <2> QED BY <2>1, <2>2, FS_Surjection
<1>5. IsFiniteSet(UNION T)
  <2> HIDE DEF of
  <2>1. \A x \in T : IsFiniteSet(x)
    BY <1>3
  <2> HIDE DEF T
  <2> QED BY <1>4, <2>1, FS_UNION
<1>6. Lines(segs) = UNION T
    BY DEF Lines
<1>7. UNION T \subseteq Places(n)
    BY <1>1 DEF Places
<1> QED
    BY <1>5, <1>6, <1>7

\* Being a line is a matter of the segment alone.
LEMMA LineOf ==
    ASSUME NEW segs, NEW p
    PROVE  p \in Lines(segs) <=>
             /\ p = <<p[1], p[2]>> /\ p[1] \in 1..Len(segs)
             /\ p[2] \in 1..Len(segs[p[1]]) /\ Parsed(segs[p[1]], p[2])
    BY DEF Lines

\* What replay reads are records.
LEMMA ReplayedTypes ==
    ASSUME NEW segs \in Seq(Seq(Chunk)), Len(segs) <= Padded
    PROVE  /\ Replayed(segs) \in Seq(Record)
           /\ Len(Replayed(segs)) = Cardinality(Lines(segs))
           /\ Cardinality(Lines(segs)) \in Nat
<1> DEFINE lines == Lines(segs)
           c == Cardinality(lines)
<1>1. lines \in SUBSET Places(Len(segs)) /\ IsFiniteSet(lines) /\ c \in Nat
    BY LinesFinite, FS_CardinalityType
<1>2. ASSUME NEW p \in lines PROVE segs[p[1]][p[2]].rec \in Record
  <2>1. p[1] \in 1..Len(segs) /\ p[2] \in 1..Len(segs[p[1]])
    BY LineOf
  <2>2. segs[p[1]] \in Seq(Chunk)
    BY <2>1
  <2>3. segs[p[1]][p[2]] \in Chunk
    BY <2>1, <2>2
  <2> QED BY <2>3 DEF Chunk
<1>3. \A i \in 1..c : Nth(i, lines) \in lines
  <2> SUFFICES ASSUME NEW i \in 1..c PROVE Nth(i, lines) \in lines
    OBVIOUS
  <2>1. Len(segs) \in Nat
    OBVIOUS
  <2> HIDE DEF lines
  <2> QED BY <1>1, <2>1, NthIsLine
<1> DEFINE at(i) == segs[Nth(i, lines)[1]][Nth(i, lines)[2]].rec
<1>4. \A i \in 1..c : at(i) \in Record
    BY <1>2, <1>3
<1>5. Replayed(segs) = [i \in 1..c |-> at(i)]
    BY DEF Replayed
<1> HIDE DEF lines, c, at
<1>6. [i \in 1..c |-> at(i)] \in Seq(Record) /\ Len([i \in 1..c |-> at(i)]) = c
    BY <1>1, <1>4
<1> QED
    BY <1>1, <1>5, <1>6 DEF lines, c

----------------------------------------------------------------------------
(* Types *)

\* The padding of the names has room for every segment: sorted() puts them in the
\* order of their numbers.
NamesFit == Len(segments) <= Padded

\* With names that fit the last segment by name is the last by number.
LEMMA LatestIsLast ==
    ASSUME NEW n \in Nat \ {0}, n <= Padded
    PROVE  Latest(n) = n
<1>1. ASSUME NEW i \in 1..n, NEW j \in 1..n PROVE NameBefore(j - 1, i - 1) <=> j < i
  <2>1. /\ i - 1 \in Nat /\ j - 1 \in Nat /\ i - 1 < Padded /\ j - 1 < Padded
    BY PaddedAssumption
  <2> QED BY <2>1, NumberOrder
<1>2. \A i \in 1..n : (\A j \in 1..n : j # i => NameBefore(j - 1, i - 1)) <=> i = n
  <2> SUFFICES ASSUME NEW i \in 1..n
               PROVE  (\A j \in 1..n : j # i => j < i) <=> i = n
    BY <1>1
  <2> QED OBVIOUS
<1> QED
    BY <1>2 DEF Latest

\* The parts of a log one operation changes.
LEMMA SegmentChange ==
    ASSUME NEW segs \in Seq(Seq(Chunk)), NEW s \in 1..Len(segs), NEW f \in Seq(Chunk)
    PROVE  LET new == [segs EXCEPT ![s] = f]
           IN  /\ new \in Seq(Seq(Chunk)) /\ Len(new) = Len(segs) /\ new[s] = f
               /\ \A i \in 1..Len(segs) : i # s => new[i] = segs[i]
    OBVIOUS

\* A line is three chunks of its record.
LEMMA LineTypes ==
    ASSUME NEW rec \in Record
    PROVE  Line(rec) \in Seq(Chunk) /\ Len(Line(rec)) = 3
    BY DEF Line, Chunk

\* The current segment is the last one.
TypeInv ==
    /\ TypeOK
    /\ current = Len(segments)

\* Its variables, taken apart.
LEMMA LogTypes ==
    ASSUME TypeInv
    PROVE  /\ segments \in Seq(Seq(Chunk)) /\ Len(segments) \in Nat \ {0}
           /\ current \in 1..Len(segments) /\ current = Len(segments)
           /\ segments[current] \in Seq(Chunk) /\ buffer \in Seq(Chunk)
           /\ opened \in BOOLEAN
           /\ safe \in 0..Len(segments[current]) /\ safe \in Nat
    BY DEF TypeInv, TypeOK, WALTypeOK

\* A step that writes f to the current segment keeps the types.
LEMMA WriteTypes ==
    ASSUME TypeInv, NEW f \in Seq(Chunk),
           segments' = [segments EXCEPT ![current] = f], current' = current,
           opened' \in BOOLEAN, buffer' \in Seq(Chunk), safe' \in 0..Len(f)
    PROVE  WALTypeOK' /\ current' = Len(segments')
<1>1. /\ segments' \in Seq(Seq(Chunk)) /\ Len(segments') = Len(segments)
      /\ segments'[current] = f
    BY LogTypes, SegmentChange
<1> QED
    BY <1>1, LogTypes DEF WALTypeOK

\* flush and fsync keep the types,
LEMMA SyncTypes ==
    ASSUME TypeInv, Sync
    PROVE  WALTypeOK' /\ current' = Len(segments')
<1> DEFINE f == segments[current] \o buffer
<1>1. f \in Seq(Chunk) /\ Len(f) = Len(segments[current]) + Len(buffer) /\ Len(f) \in Nat
    BY LogTypes
<1>2. /\ segments' = [segments EXCEPT ![current] = f] /\ current' = current
      /\ opened' = opened /\ buffer' = <<>> /\ safe' = Len(f)
    BY <1>1 DEF Sync
<1>3. safe' \in 0..Len(f) /\ buffer' \in Seq(Chunk)
    BY <1>1, <1>2
<1> HIDE DEF f
<1> QED
    BY <1>1, <1>2, <1>3, LogTypes, WriteTypes

\* as do their failure,
LEMMA SyncErrorTypes ==
    ASSUME TypeInv, SyncError
    PROVE  WALTypeOK' /\ current' = Len(segments')
<1>1. PICK n \in 0..Len(buffer) :
        /\ segments' = [segments EXCEPT ![current] = @ \o SubSeq(buffer, 1, n)]
        /\ buffer' = SubSeq(buffer, n + 1, Len(buffer))
        /\ UNCHANGED <<current, opened, safe>>
    BY DEF SyncError
<1> DEFINE g == SubSeq(buffer, 1, n)
           f == segments[current] \o g
<1>2. n \in Nat /\ g \in Seq(Chunk) /\ Len(g) = n /\ buffer' \in Seq(Chunk)
    BY <1>1, LogTypes
<1>3. f \in Seq(Chunk) /\ Len(f) = Len(segments[current]) + n
  <2>1. \A a, b \in Seq(Chunk) : a \o b \in Seq(Chunk) /\ Len(a \o b) = Len(a) + Len(b)
    OBVIOUS
  <2> HIDE DEF g
  <2> QED BY <1>2, <2>1, LogTypes
<1>4. segments' = [segments EXCEPT ![current] = f] /\ current' = current /\ opened' = opened
    BY <1>1
<1> HIDE DEF f
<1>5. safe' \in 0..Len(f)
    BY <1>1, <1>2, <1>3, LogTypes
<1> QED
    BY <1>2, <1>3, <1>4, <1>5, LogTypes, WriteTypes

\* a crash,
LEMMA CutTypes ==
    ASSUME TypeInv, Cut
    PROVE  WALTypeOK' /\ current' = Len(segments')
<1> DEFINE f == segments[current] \o buffer
<1>1. f \in Seq(Chunk) /\ Len(f) \in Nat
    BY LogTypes
<1>2. PICK n \in safe..Len(f) :
        /\ segments' = [segments EXCEPT ![current] = SubSeq(f, 1, n)]
        /\ safe' = n /\ buffer' = <<>> /\ opened' = FALSE /\ current' = current
    BY DEF Cut
<1> HIDE DEF f
<1>3. n \in Nat /\ SubSeq(f, 1, n) \in Seq(Chunk) /\ Len(SubSeq(f, 1, n)) = n
    BY <1>1, <1>2, LogTypes
<1>4. safe' \in 0..Len(SubSeq(f, 1, n)) /\ buffer' \in Seq(Chunk)
    BY <1>2, <1>3
<1> QED
    BY <1>2, <1>3, <1>4, WriteTypes

\* and a rotation.
LEMMA RotateTypes ==
    ASSUME TypeInv, Rotate
    PROVE  WALTypeOK' /\ current' = Len(segments')
<1>1. /\ segments' \in Seq(Seq(Chunk)) /\ Len(segments') = Len(segments) + 1
      /\ segments'[Len(segments) + 1] = <<>>
  <2>1. <<>> \in Seq(Chunk)
    OBVIOUS
  <2> QED BY <2>1, LogTypes DEF Rotate
<1>2. current' = Len(segments) + 1 /\ safe' = 0 /\ opened' = opened /\ buffer' = buffer
    BY DEF Rotate
<1>3. segments' # <<>> /\ current' \in 1..Len(segments') /\ safe' \in 0..Len(segments'[current'])
    BY <1>1, <1>2, LogTypes
<1> QED
    BY <1>1, <1>2, <1>3, LogTypes DEF WALTypeOK

\* The update of the dicts keeps theirs.
LEMMA UpdateTypes ==
    ASSUME TypeInv, NEW rec \in Record, Update(rec)
    PROVE  store' \in Map /\ expiry' \in [Key -> Nat \cup {None}]
<1> USE DEF Map
<1>0. store \in Map /\ expiry \in [Key -> Nat \cup {None}] /\ now \in Nat
    BY DEF TypeInv, TypeOK
<1>1. CASE rec.op = "PUT"
  <2>1. rec.key \in Key /\ rec.value \in Value /\ rec.ttl \in TTL \cup {None}
    BY <1>1 DEF Record
  <2>2. NewExpiry(rec) \in Nat \cup {None}
    <3>1. rec.ttl = None \/ rec.ttl \in Nat
      BY <2>1, KeyAssumption
    <3> QED BY <1>0, <3>1 DEF NewExpiry
  <2> QED BY <1>0, <1>1, <2>1, <2>2 DEF Update
<1>2. CASE rec.op = "DELETE"
    BY <1>0, <1>2 DEF Update, Drop
<1>3. CASE rec.op = "FLUSH"
    BY <1>0, <1>3 DEF Update, Drop
<1> QED
    BY <1>1, <1>2, <1>3 DEF Record

\* The types hold in a fresh directory,
LEMMA TypeInit ==
    ASSUME Init
    PROVE  TypeInv
<1>1. segments = << <<>> >> /\ current = 1 /\ buffer = <<>> /\ safe = 0 /\ opened = TRUE
    BY DEF Init, WALInit
<1>2. <<>> \in Seq(Chunk) /\ <<>> \in Seq(Record)
    OBVIOUS
<1>3. segments \in Seq(Seq(Chunk)) /\ Len(segments) = 1 /\ segments[1] = <<>>
    BY <1>1, <1>2
<1>4. WALTypeOK /\ current = Len(segments)
    BY <1>1, <1>2, <1>3 DEF WALTypeOK
<1>5. EmptyMap \in Map /\ NoExpiry \in [Key -> Nat \cup {None}]
    BY DEF EmptyMap, Map, NoExpiry
<1>6. ackedLog \in Seq(Record)
    BY <1>2 DEF Init
<1> QED BY <1>4, <1>5, <1>6 DEF Init, TypeInv, TypeOK

\* every step keeps them while the names fit,
LEMMA TypeStep ==
    ASSUME TypeInv, NamesFit, [Next]_vars
    PROVE  TypeInv'
<1> USE DEF TypeInv, TypeOK
<1>1. ASSUME NEW rec \in Record, Begin(rec) PROVE TypeInv'
  <2>1. WALTypeOK'
    <3>1. buffer' \in Seq(Chunk)
        BY <1>1, LineTypes DEF Begin, Write, WALTypeOK
    <3> QED BY <1>1, <3>1 DEF Begin, Write, WALTypeOK
  <2> QED BY <1>1, <2>1 DEF Begin, Write, memVars, ackVars
<1>2. CASE Logged
  <2>1. WALTypeOK' /\ current' = Len(segments')
      BY <1>2, SyncTypes DEF Logged
  <2> QED BY <1>2, <2>1 DEF Logged, memVars, envVars, ackVars
<1>3. CASE LogFails
  <2>1. WALTypeOK' /\ current' = Len(segments')
      BY <1>3, SyncErrorTypes DEF LogFails
  <2> QED BY <1>3, <2>1 DEF LogFails, memVars, envVars, ackVars
<1>4. CASE RotateLog
  <2>1. WALTypeOK' /\ current' = Len(segments')
      BY <1>4, RotateTypes DEF RotateLog
  <2> QED BY <1>4, <2>1 DEF RotateLog, opVars, memVars, envVars, ackVars
<1>5. CASE RotateFails
    BY <1>5 DEF RotateFails, RotateError, WALTypeOK, memVars, envVars, ackVars
<1>6. CASE Finish
  <2>1. op \in Record
      BY <1>6 DEF Finish
  <2>2. store' \in Map /\ expiry' \in [Key -> Nat \cup {None}]
      BY <1>6, <2>1, UpdateTypes DEF Finish
  <2>3. acked' \in Map
      BY <1>6, <2>1, ApplyTypes DEF Finish
  <2>4. ackedLog' \in Seq(Record)
      BY <1>6, <2>1 DEF Finish
  <2>5. deadline' \in [Key -> Nat \cup {None}]
    <3>1. CASE op.op = "PUT"
      <4>1. op.ttl \in TTL \cup {None}
          BY <2>1, <3>1 DEF Record
      <4>2. op.ttl = None \/ op.ttl \in Nat
          BY <4>1, KeyAssumption
      <4>3. (IF op.ttl = None THEN None ELSE now + op.ttl) \in Nat \cup {None}
          BY <4>2
      <4> QED BY <1>6, <3>1, <4>3 DEF Finish
    <3>2. CASE op.op = "DELETE"
        BY <1>6, <3>2 DEF Finish
    <3>3. CASE op.op = "FLUSH"
        BY <1>6, <3>3 DEF Finish, NoExpiry
    <3> QED BY <2>1, <3>1, <3>2, <3>3 DEF Record
  <2>6. WALTypeOK' /\ current' = Len(segments')
      BY <1>6 DEF Finish, walVars, WALTypeOK
  <2> QED BY <1>6, <2>2, <2>3, <2>4, <2>5, <2>6 DEF Finish, envVars
<1>7. ASSUME NEW S \in SUBSET Key, Drop(S),
             UNCHANGED <<walVars, opVars, envVars, ackVars>>
      PROVE  TypeInv'
  <2>1. store' \in Map /\ expiry' \in [Key -> Nat \cup {None}]
      BY <1>7 DEF Drop, Map
  <2> QED BY <1>7, <2>1 DEF walVars, opVars, envVars, ackVars, WALTypeOK
<1>8. ASSUME NEW k \in Key, EvictOnRead(k) PROVE TypeInv'
    BY <1>7, <1>8 DEF EvictOnRead
<1>9. CASE Cleanup
    BY <1>7, <1>9 DEF Cleanup
<1>10. CASE Tick
    BY <1>10 DEF Tick, walVars, memVars, opVars, ackVars, WALTypeOK
<1>11. CASE Crash
  <2>1. WALTypeOK' /\ current' = Len(segments')
      BY <1>11, CutTypes DEF Crash
  <2>2. EmptyMap \in Map /\ NoExpiry \in [Key -> Nat \cup {None}]
      BY DEF EmptyMap, Map, NoExpiry
  <2>3. /\ store' \in Map /\ expiry' \in [Key -> Nat \cup {None}] /\ op' = None
        /\ logged' = FALSE /\ alive' = FALSE /\ crashes' \in Nat
      BY <1>11, <2>2 DEF Crash
  <2> QED BY <1>11, <2>1, <2>3 DEF Crash, ackVars
<1>12. CASE Restart
  <2>1. Replayed(segments) \in Seq(Record)
      BY ReplayedTypes DEF NamesFit, WALTypeOK
  <2>2. Recovered(Replayed(segments)) \in Map
      BY <2>1, RecoveredTypes
  <2>3. current' = Len(segments')
    <3>1. Len(segments) \in Nat \ {0}
        BY DEF WALTypeOK
    <3> QED BY <1>12, <3>1, LatestIsLast DEF Restart, Reopen, NamesFit
  <2>4. WALTypeOK'
    <3>1. Len(segments) \in Nat \ {0} /\ segments[Len(segments)] \in Seq(Chunk)
        BY DEF WALTypeOK
    <3>2. safe' \in 0..Len(segments'[current']) /\ current' \in 1..Len(segments')
        BY <1>12, <3>1, LatestIsLast DEF Restart, Reopen, NamesFit
    <3> QED BY <1>12, <3>2 DEF Restart, Reopen, WALTypeOK
  <2>5. NoExpiry \in [Key -> Nat \cup {None}]
      BY DEF NoExpiry
  <2> QED BY <1>12, <2>1, <2>2, <2>3, <2>4, <2>5 DEF Restart, opVars
<1>13. CASE UNCHANGED vars
    BY <1>13 DEF vars, WALTypeOK
<1> QED
    BY <1>1, <1>2, <1>3, <1>4, <1>5, <1>6, <1>8, <1>9, <1>10, <1>11, <1>12, <1>13 DEF Next

\* and they hold as long as the names fit.
LEMMA TypeInvHolds == Spec /\ []NamesFit => []TypeInv
    BY TypeInit, TypeStep, PTL DEF Spec

\* A segment is rotated away only when a mutation has filled it, so there is at most
\* one more segment than there were mutations, and then the last one is empty.
CountInv ==
    /\ MaxOps \in Nat /\ issued \in 0..MaxOps
    /\ Len(segments) <= issued + 1
    /\ Len(segments) = issued + 1 => Len(segments[current]) = 0 /\ Len(buffer) = 0
    /\ op = None => ~logged
    /\ logged => Len(buffer) = 0

\* A step that writes to the current segment only, and nothing if it has nothing.
LEMMA SegmentCount ==
    ASSUME TypeInv, CountInv, NEW f \in Seq(Chunk), NEW b \in Seq(Chunk),
           segments' = [segments EXCEPT ![current] = f], current' = current, buffer' = b,
           issued' = issued, op' = None => ~logged', logged' => Len(b) = 0,
           Len(segments[current]) = 0 /\ Len(buffer) = 0 => Len(f) = 0 /\ Len(b) = 0
    PROVE  CountInv'
<1>1. Len(segments') = Len(segments) /\ segments'[current'] = f
    BY LogTypes, SegmentChange
<1>2. Len(segments) = issued + 1 => Len(segments[current]) = 0 /\ Len(buffer) = 0
    BY DEF CountInv
<1>3. Len(segments') = issued' + 1 => Len(segments'[current']) = 0 /\ Len(buffer') = 0
    BY <1>1, <1>2
<1>4. MaxOps \in Nat /\ issued \in 0..MaxOps /\ Len(segments) <= issued + 1
    BY DEF CountInv
<1>5. MaxOps \in Nat /\ issued' \in 0..MaxOps /\ Len(segments') <= issued' + 1
  <2>1. issued' = issued /\ Len(segments') = Len(segments)
    BY <1>1
  <2> QED BY <1>4, <2>1
<1>6. (op' = None => ~logged') /\ (logged' => Len(buffer') = 0)
    OBVIOUS
<1> QED
    BY <1>3, <1>5, <1>6 DEF CountInv

\* Lengths add up.
LEMMA ConcatenationLength ==
    ASSUME NEW S, NEW s \in Seq(S), NEW t \in Seq(S)
    PROVE  s \o t \in Seq(S) /\ Len(s \o t) = Len(s) + Len(t)
    OBVIOUS

\* A record that reaches the disk keeps the count of the segments,
LEMMA LoggedCount ==
    ASSUME TypeInv, CountInv, Logged
    PROVE  CountInv'
<1> DEFINE f == segments[current] \o buffer
           b == <<>>
<1>1. segments' = [segments EXCEPT ![current] = f] /\ current' = current /\ buffer' = b
    BY DEF Logged, Sync
<1>2. issued' = issued /\ op' # None
    BY DEF Logged, envVars
<1>3. f \in Seq(Chunk) /\ Len(f) = Len(segments[current]) + Len(buffer)
    BY LogTypes, ConcatenationLength
<1>4. b \in Seq(Chunk) /\ Len(b) = 0
    OBVIOUS
<1>5. Len(segments[current]) = 0 /\ Len(buffer) = 0 => Len(f) = 0 /\ Len(b) = 0
    BY <1>3, <1>4
<1> HIDE DEF f, b
<1> QED
    BY <1>1, <1>2, <1>3, <1>4, <1>5, SegmentCount

\* one that fails to does,
LEMMA LogFailsCount ==
    ASSUME TypeInv, CountInv, LogFails
    PROVE  CountInv'
<1>1. PICK n \in 0..Len(buffer) :
        /\ segments' = [segments EXCEPT ![current] = segments[current] \o SubSeq(buffer, 1, n)]
        /\ buffer' = SubSeq(buffer, n + 1, Len(buffer))
        /\ current' = current
    BY DEF LogFails, SyncError
<1> DEFINE part == SubSeq(buffer, 1, n)
           f == segments[current] \o part
           b == SubSeq(buffer, n + 1, Len(buffer))
<1>2. issued' = issued /\ ~logged'
    BY DEF LogFails, envVars
<1>3. /\ part \in Seq(Chunk) /\ b \in Seq(Chunk)
      /\ Len(buffer) = 0 => Len(part) = 0 /\ Len(b) = 0
    BY LogTypes
<1>4. segments' = [segments EXCEPT ![current] = f] /\ current' = current /\ buffer' = b
    BY <1>1
<1> HIDE DEF part, b
<1>5. f \in Seq(Chunk) /\ Len(f) = Len(segments[current]) + Len(part)
    BY <1>3, LogTypes, ConcatenationLength
<1>6. Len(segments[current]) = 0 /\ Len(buffer) = 0 => Len(f) = 0 /\ Len(b) = 0
    BY <1>3, <1>5
<1> HIDE DEF f
<1> QED
    BY <1>2, <1>3, <1>4, <1>5, <1>6, SegmentCount

\* a crash does,
LEMMA CrashCount ==
    ASSUME TypeInv, CountInv, Crash
    PROVE  CountInv'
<1> DEFINE g == segments[current] \o buffer
           b == <<>>
<1>1. PICK n \in safe..Len(g) : segments' = [segments EXCEPT ![current] = SubSeq(g, 1, n)]
    BY DEF Crash, Cut
<1> DEFINE f == SubSeq(g, 1, n)
<1>2. issued' = issued /\ ~logged' /\ current' = current /\ buffer' = b
    BY DEF Crash, Cut
<1>3. g \in Seq(Chunk) /\ Len(g) = Len(segments[current]) + Len(buffer)
    BY LogTypes, ConcatenationLength
<1>4. b \in Seq(Chunk) /\ Len(b) = 0
    OBVIOUS
<1>5. safe \in Nat
    BY LogTypes
<1> HIDE DEF g, b
<1>6. f \in Seq(Chunk) /\ (Len(g) = 0 => Len(f) = 0)
    BY <1>3, <1>5
<1>7. Len(segments[current]) = 0 /\ Len(buffer) = 0 => Len(f) = 0 /\ Len(b) = 0
    BY <1>3, <1>4, <1>6
<1>8. segments' = [segments EXCEPT ![current] = f]
    BY <1>1
<1> HIDE DEF f
<1> QED
    BY <1>2, <1>4, <1>6, <1>7, <1>8, SegmentCount

\* and every other step.
LEMMA CountStep ==
    ASSUME TypeInv, CountInv, MaxOps < Padded, [Next]_vars
    PROVE  CountInv'
<1>1. ASSUME NEW rec \in Record, Begin(rec) PROVE CountInv'
  <2>1. op' = rec /\ rec # None /\ logged' = logged /\ ~logged
        /\ segments' = segments /\ issued' = issued + 1 /\ issued < MaxOps
    BY <1>1, NoneAssumption DEF Begin, Write, CountInv
  <2> QED BY <2>1 DEF CountInv
<1>2. CASE Logged
    BY <1>2, LoggedCount
<1>3. CASE LogFails
    BY <1>3, LogFailsCount
<1>4. CASE RotateLog
  <2>1. /\ segments' = Append(segments, <<>>) /\ current' = Len(segments) + 1
        /\ buffer' = buffer /\ issued' = issued /\ op' = op /\ logged' = logged /\ logged
    BY <1>4 DEF RotateLog, Rotate, opVars, envVars
  <2>2. Len(segments[current]) # 0
    BY <1>4, SizeAssumption DEF RotateLog, Full
  <2>3. Len(segments') = Len(segments) + 1 /\ Len(segments'[current']) = 0
    BY <2>1, LogTypes
  <2> QED BY <2>1, <2>2, <2>3, LogTypes DEF CountInv
<1>5. CASE RotateFails
    BY <1>5 DEF RotateFails, RotateError, envVars, CountInv
<1>6. CASE Finish
    BY <1>6 DEF Finish, walVars, envVars, CountInv
<1>7. ASSUME UNCHANGED <<walVars, opVars, issued>> PROVE CountInv'
    BY <1>7 DEF walVars, opVars, CountInv
<1>8. CASE \E k \in Key : EvictOnRead(k)
    BY <1>7, <1>8 DEF EvictOnRead, envVars
<1>9. CASE Cleanup
    BY <1>7, <1>9 DEF Cleanup, envVars
<1>10. CASE Tick
    BY <1>7, <1>10 DEF Tick
<1>11. CASE Crash
    BY <1>11, CrashCount
<1>12. CASE Restart
  <2>1. Len(segments) \in Nat \ {0} /\ Len(segments) <= Padded
    BY LogTypes, PaddedAssumption DEF CountInv
  <2>2. /\ segments' = segments /\ buffer' = buffer /\ current' = current
        /\ issued' = issued /\ op' = op /\ logged' = logged
    BY <1>12, <2>1, LatestIsLast, LogTypes DEF Restart, Reopen, opVars
  <2> QED BY <2>2 DEF CountInv
<1>13. CASE UNCHANGED vars
    BY <1>13 DEF vars, CountInv
<1> QED
    BY <1>1, <1>2, <1>3, <1>4, <1>5, <1>6, <1>8, <1>9, <1>10, <1>11, <1>12, <1>13 DEF Next

\* When fewer mutations are made than the padding of a segment's number has room for
\* numbers, the names of the segments sort by number (wal.py WAL._segments).
THEOREM NamesFitHolds ==
    ASSUME MaxOps < Padded
    PROVE  Spec => []NamesFit
<1>1. Init => TypeInv /\ CountInv
  <2> SUFFICES ASSUME Init PROVE TypeInv /\ CountInv
    OBVIOUS
  <2>1. Len(segments) = 1 /\ Len(segments[current]) = 0 /\ Len(buffer) = 0
        /\ issued = 0 /\ logged = FALSE
    BY DEF Init, WALInit
  <2> QED BY <2>1, TypeInit, EngineAssumption DEF CountInv
<1>2. TypeInv /\ CountInv => NamesFit
    BY LogTypes, PaddedAssumption DEF CountInv, NamesFit
<1>3. TypeInv /\ CountInv /\ [Next]_vars => (TypeInv /\ CountInv)'
    BY <1>2, TypeStep, CountStep
<1> QED
    BY <1>1, <1>2, <1>3, PTL DEF Spec

\* The files, the dicts and the mutation in progress have the types of the code as
\* long as the names of the segments sort by number (engine.py KVEngine.__init__).
THEOREM TypesHold == Spec /\ []NamesFit => []TypeOK
<1>1. TypeInv => TypeOK
    BY DEF TypeInv
<1> QED
    BY <1>1, TypeInvHolds, PTL

----------------------------------------------------------------------------
(* Memory and acknowledgements *)

\* What the arguments about memory need of the types.
MemTypes ==
    /\ store = [k \in Key |-> store[k]]
    /\ acked = [k \in Key |-> acked[k]]
    /\ expiry \in [Key -> Nat \cup {None}]
    /\ deadline \in [Key -> Nat \cup {None}]
    /\ op \in Record \cup {None}
    /\ now \in Nat /\ crashes \in Nat

\* k was dropped because its TTL had run out.
Evicted(k) ==
    /\ store[k] = None /\ expiry[k] = None
    /\ deadline[k] # None /\ now >= deadline[k]

\* In a process a key is as the last mutation left it or evicted; a restart forgets
\* when keys expire, and nothing else makes expiry differ from deadline.
MemInv ==
    /\ MemTypes
    /\ ~alive => op = None
    /\ alive => \A k \in Key :
          \/ store[k] = acked[k] /\ expiry[k] \in {None, deadline[k]}
          \/ Evicted(k)
    /\ crashes = 0 => alive /\ \A k \in Key : expiry[k] = deadline[k] \/ Evicted(k)

\* Dropping keys whose TTL has run out.
LEMMA DropKeepsMemInv ==
    ASSUME MemInv, alive, NEW S \in SUBSET Key, Drop(S),
           \A k \in S : expiry[k] # None /\ now >= expiry[k],
           UNCHANGED <<walVars, opVars, envVars, ackVars>>
    PROVE  MemInv'
<1>1. /\ UNCHANGED <<acked, deadline, op, now, crashes, alive>>
      /\ store'  = [k \in Key |-> IF k \in S THEN None ELSE store[k]]
      /\ expiry' = [k \in Key |-> IF k \in S THEN None ELSE expiry[k]]
    BY DEF Drop, opVars, envVars, ackVars
<1>2. MemTypes'
    BY <1>1 DEF MemInv, MemTypes
<1>3. ASSUME NEW k \in S PROVE Evicted(k)'
  <2>1. k \in Key /\ expiry[k] = deadline[k]
    BY DEF MemInv, Evicted
  <2> QED BY <1>1, <2>1 DEF Evicted
<1>4. ASSUME NEW k \in Key \ S
      PROVE  store'[k] = store[k] /\ expiry'[k] = expiry[k] /\ (Evicted(k) => Evicted(k)')
    BY <1>1 DEF Evicted
<1> QED
    BY <1>1, <1>2, <1>3, <1>4 DEF MemInv

\* A mutation returns: memory and the record of what was acknowledged agree.
LEMMA FinishKeepsMemInv ==
    ASSUME MemInv, Finish
    PROVE  MemInv'
<1>1. op \in Record /\ MemTypes
    BY DEF Finish, MemInv, MemTypes
<1>2. /\ Update(op) /\ acked' = Apply(acked, op) /\ op' = None
      /\ now' = now /\ crashes' = crashes /\ alive' = alive
    BY DEF Finish, envVars
<1>3. CASE op.op = "PUT"
  <2>1. op.key \in Key /\ op.ttl \in TTL \cup {None}
    BY <1>1, <1>3 DEF Record
  <2>2. op.ttl = None \/ op.ttl \in Nat
    BY <2>1, KeyAssumption
  <2>3. NewExpiry(op) \in Nat \cup {None}
    BY <1>1, <2>2 DEF NewExpiry, MemTypes
  <2>4. /\ store'    = [store EXCEPT ![op.key] = op.value]
        /\ acked'    = [acked EXCEPT ![op.key] = op.value]
        /\ expiry'   = [expiry EXCEPT ![op.key] = NewExpiry(op)]
        /\ deadline' = [deadline EXCEPT ![op.key] = NewExpiry(op)]
    BY <1>2, <1>3 DEF Update, Apply, Finish, NewExpiry
  <2>5. MemTypes'
    BY <1>1, <1>2, <2>1, <2>3, <2>4 DEF MemTypes
  <2>6. store'[op.key] = acked'[op.key] /\ expiry'[op.key] = deadline'[op.key]
    BY <1>1, <2>1, <2>4 DEF MemTypes
  <2>7. ASSUME NEW k \in Key, k # op.key
        PROVE  /\ store'[k] = store[k] /\ acked'[k] = acked[k]
               /\ expiry'[k] = expiry[k] /\ deadline'[k] = deadline[k]
    BY <1>1, <2>1, <2>4, <2>7 DEF MemTypes
  <2> QED
    BY <1>2, <2>5, <2>6, <2>7 DEF MemInv, Evicted
<1>4. CASE op.op = "DELETE"
  <2>1. op.key \in Key
    BY <1>1, <1>4 DEF Record
  <2>2. /\ store'    = [k \in Key |-> IF k = op.key THEN None ELSE store[k]]
        /\ expiry'   = [k \in Key |-> IF k = op.key THEN None ELSE expiry[k]]
        /\ acked'    = [acked EXCEPT ![op.key] = None]
        /\ deadline' = [deadline EXCEPT ![op.key] = None]
    BY <1>2, <1>4 DEF Update, Apply, Finish, Drop
  <2>3. MemTypes'
    BY <1>1, <1>2, <2>1, <2>2 DEF MemTypes
  <2>4. store'[op.key] = acked'[op.key] /\ expiry'[op.key] = deadline'[op.key]
    BY <1>1, <2>1, <2>2 DEF MemTypes
  <2>5. ASSUME NEW k \in Key, k # op.key
        PROVE  /\ store'[k] = store[k] /\ acked'[k] = acked[k]
               /\ expiry'[k] = expiry[k] /\ deadline'[k] = deadline[k]
    BY <1>1, <2>1, <2>2, <2>5 DEF MemTypes
  <2> QED
    BY <1>2, <2>3, <2>4, <2>5 DEF MemInv, Evicted
<1>5. CASE op.op = "FLUSH"
  <2>1. /\ store' = [k \in Key |-> None] /\ expiry' = [k \in Key |-> None]
        /\ acked' = [k \in Key |-> None] /\ deadline' = [k \in Key |-> None]
    BY <1>2, <1>5 DEF Update, Apply, Finish, Drop, EmptyMap, NoExpiry
  <2> QED
    BY <1>1, <1>2, <2>1 DEF MemInv, MemTypes
<1> QED
    BY <1>1, <1>3, <1>4, <1>5 DEF Record

\* Memory is explained by the acknowledgements and the evictions.
LEMMA MemInvHolds == Spec => []MemInv
<1>1. Init => MemInv
    BY DEF Init, MemInv, MemTypes, EmptyMap, NoExpiry
<1>2. ASSUME MemInv, [Next]_vars PROVE MemInv'
  <2> USE <1>2
  <2>1. ASSUME NEW rec \in Record, Begin(rec) PROVE MemInv'
    BY <2>1 DEF Begin, memVars, ackVars, MemInv, MemTypes, Evicted
  <2>2. CASE Logged
    BY <2>2 DEF Logged, memVars, envVars, ackVars, MemInv, MemTypes, Evicted
  <2>3. CASE LogFails
    BY <2>3 DEF LogFails, memVars, envVars, ackVars, MemInv, MemTypes, Evicted
  <2>4. CASE RotateLog
    BY <2>4 DEF RotateLog, opVars, memVars, envVars, ackVars, MemInv, MemTypes, Evicted
  <2>5. CASE RotateFails
    BY <2>5 DEF RotateFails, memVars, envVars, ackVars, MemInv, MemTypes, Evicted
  <2>6. CASE Finish
    BY <2>6, FinishKeepsMemInv
  <2>7. ASSUME NEW k \in Key, EvictOnRead(k) PROVE MemInv'
    <3>1. /\ alive /\ Drop({k}) /\ UNCHANGED <<walVars, opVars, envVars, ackVars>>
          /\ expiry[k] # None /\ now > expiry[k]
      BY <2>7 DEF EvictOnRead, IsExpired
    <3>2. now >= expiry[k]
      BY <3>1 DEF MemInv, MemTypes
    <3> QED BY <3>1, <3>2, DropKeepsMemInv
  <2>8. CASE Cleanup
    <3> DEFINE S == {k \in Key : expiry[k] # None /\ expiry[k] <= now}
    <3>1. alive /\ Drop(S) /\ UNCHANGED <<walVars, opVars, envVars, ackVars>>
      BY <2>8 DEF Cleanup
    <3>2. \A k \in S : expiry[k] # None /\ now >= expiry[k]
      BY DEF MemInv, MemTypes
    <3> QED BY <3>1, <3>2, DropKeepsMemInv
  <2>9. CASE Tick
    BY <2>9 DEF Tick, memVars, opVars, ackVars, MemInv, MemTypes, Evicted
  <2>10. CASE Crash
    BY <2>10 DEF Crash, ackVars, MemInv, MemTypes, EmptyMap, NoExpiry
  <2>11. CASE Restart
    <3>1. Recovered(Replayed(segments)) = [k \in Key |-> Recovered(Replayed(segments))[k]]
      BY DEF Recovered
    <3>2. deadline' \in [Key -> Nat \cup {None}]
      BY <2>11 DEF Restart, MemInv, MemTypes, NoExpiry
    <3>3. ~alive /\ crashes' # 0
      BY <2>11 DEF Restart, MemInv
    <3> QED BY <2>11, <3>1, <3>2, <3>3 DEF Restart, opVars, MemInv, MemTypes, NoExpiry
  <2>12. CASE UNCHANGED vars
    BY <2>12 DEF vars, MemInv, MemTypes, Evicted
  <2> QED
    BY <2>1, <2>2, <2>3, <2>4, <2>5, <2>6, <2>7, <2>8, <2>9, <2>10, <2>11, <2>12 DEF Next
<1> QED
    BY <1>1, <1>2, PTL DEF Spec

\* A key whose TTL has not run out reads, and is listed, as the last acknowledged
\* mutation left it (engine.py get, keys), whatever else was written, evicted or
\* failed, across crashes and restarts.
THEOREM ReadsAreLastAckHolds == Spec => []ReadsAreLastAck
<1>1. MemInv => ReadsAreLastAck
  <2> SUFFICES ASSUME MemInv, Idle, NEW k \in Key, deadline[k] = None \/ now < deadline[k]
               PROVE  Get(k) = acked[k] /\ (k \in Keys <=> acked[k] # None)
    BY DEF ReadsAreLastAck
  <2>1. /\ now \in Nat /\ expiry[k] \in Nat \cup {None} /\ deadline[k] \in Nat \cup {None}
        /\ alive
    BY DEF MemInv, MemTypes, Idle
  <2>2. store[k] = acked[k] /\ expiry[k] \in {None, deadline[k]}
    BY <2>1 DEF MemInv, Evicted
  <2>3. expiry[k] = None \/ (expiry[k] > now /\ ~(now > expiry[k]))
    BY <2>1, <2>2
  <2> QED BY <2>2, <2>3 DEF Get, IsExpired, Keys
<1> QED
    BY <1>1, MemInvHolds, PTL

\* Until the engine is restarted a key whose TTL has run out is gone for good: no
\* read and no listing shows it before it is written again (engine.py get, keys).
THEOREM ExpiredUntilRestartHolds == Spec => []ExpiredUntilRestart
<1>1. MemInv => ExpiredUntilRestart
  <2> SUFFICES ASSUME MemInv, crashes = 0, Idle, NEW k \in Key,
                      deadline[k] # None, now > deadline[k]
               PROVE  Get(k) = None /\ k \notin Keys
    BY DEF ExpiredUntilRestart, ExpiredStaysGone
  <2>1. now \in Nat /\ deadline[k] \in Nat
    BY DEF MemInv, MemTypes
  <2>2. expiry[k] = deadline[k] \/ Evicted(k)
    BY DEF MemInv
  <2>3. ~(deadline[k] > now)
    BY <2>1
  <2> QED BY <2>1, <2>2, <2>3 DEF Get, IsExpired, Keys, Evicted
<1> QED
    BY <1>1, MemInvHolds, PTL

----------------------------------------------------------------------------
(* Files whose records are whole *)

\* A file of whole records, of which the last may be cut after any chunk.
WellFormed(f) ==
    \A i \in 1..Len(f) :
        /\ f[i].part = "head" <=> i % 3 = 1
        /\ f[i].part = "body" <=> i % 3 = 2
        /\ f[i].part = "eol"  <=> i % 3 = 0
        /\ i % 3 = 2 => f[i - 1].rec = f[i].rec

\* In such a file every second chunk of three ends a line.
LEMMA ParsedWhere ==
    ASSUME NEW f \in Seq(Chunk), WellFormed(f), NEW i \in 1..Len(f)
    PROVE  Parsed(f, i) <=> i % 3 = 2
<1>1. f[i] \in Chunk /\ i \in Nat
    OBVIOUS
<1>2. ASSUME i % 3 = 2 PROVE Parsed(f, i)
  <2>1. i > 1 /\ i - 1 \in 1..Len(f) /\ (i - 1) % 3 = 1 /\ f[i - 1] \in Chunk
    BY <1>2
  <2>2. f[i - 1] = [rec |-> f[i].rec, part |-> "head"]
    BY <1>2, <2>1 DEF WellFormed, Chunk
  <2>3. ASSUME i > 2 PROVE f[i - 2].part = "eol"
    <3>1. i - 2 \in 1..Len(f) /\ (i - 2) % 3 = 0
      BY <1>2, <2>3
    <3> QED
      BY <3>1 DEF WellFormed
  <2>4. ASSUME i < Len(f) PROVE f[i + 1].part = "eol"
    <3>1. i + 1 \in 1..Len(f) /\ (i + 1) % 3 = 0
      BY <1>2, <2>4
    <3> QED
      BY <3>1 DEF WellFormed
  <2> QED
    BY <1>2, <2>1, <2>2, <2>3, <2>4 DEF WellFormed, Parsed
<1> QED
    BY <1>2 DEF WellFormed, Parsed

\* The front of a well-formed file is one,
LEMMA WellFormedPrefix ==
    ASSUME NEW f \in Seq(Chunk), WellFormed(f), NEW n \in 0..Len(f)
    PROVE  WellFormed(SubSeq(f, 1, n))
<1> DEFINE g == SubSeq(f, 1, n)
<1>1. Len(g) = n /\ \A i \in 1..n : g[i] = f[i]
    OBVIOUS
<1>2. \A i \in 1..n : i \in 1..Len(f) /\ (i % 3 = 2 => i - 1 \in 1..n)
    OBVIOUS
<1> HIDE DEF g
<1>3. WellFormed(g)
    BY <1>1, <1>2 DEF WellFormed
<1> QED
    BY <1>3 DEF g

\* as is the first part of a concatenation.
LEMMA WellFormedFront ==
    ASSUME NEW f \in Seq(Chunk), NEW g \in Seq(Chunk), WellFormed(f \o g)
    PROVE  WellFormed(f)
<1>1. /\ f \o g \in Seq(Chunk) /\ Len(f) \in 0..Len(f \o g)
      /\ SubSeq(f \o g, 1, Len(f)) = f
    OBVIOUS
<1> QED
    BY <1>1, WellFormedPrefix

\* Positions of a concatenation.
LEMMA Concatenation ==
    ASSUME NEW a \in Seq(Chunk), NEW b \in Seq(Chunk)
    PROVE  /\ a \o b \in Seq(Chunk) /\ Len(a \o b) = Len(a) + Len(b)
           /\ Len(a) \in Nat /\ Len(b) \in Nat
           /\ \A i \in 1..Len(a) : (a \o b)[i] = a[i]
           /\ \A i \in 1..Len(b) : (a \o b)[Len(a) + i] = b[i]
    OBVIOUS

\* Another record makes another well-formed file.
LEMMA WellFormedAppend ==
    ASSUME NEW f \in Seq(Chunk), WellFormed(f), Len(f) % 3 = 0, NEW rec \in Record
    PROVE  LET g == f \o Line(rec)
           IN  /\ g \in Seq(Chunk) /\ WellFormed(g)
               /\ Len(g) = Len(f) + 3 /\ Len(g) % 3 = 0 /\ g[Len(g) - 1].rec = rec
<1> DEFINE l == Line(rec)
           g == f \o l
           n == Len(f)
<1>1. l \in Seq(Chunk) /\ Len(l) = 3
    BY LineTypes
<1>2. n \in Nat /\ g \in Seq(Chunk) /\ Len(g) = n + 3
  <2> HIDE DEF l
  <2>1. g \in Seq(Chunk) /\ Len(g) = Len(f) + Len(l) /\ Len(f) \in Nat
    BY <1>1, Concatenation
  <2> QED
    BY <1>1, <2>1
<1>3. /\ \A i \in 1..n : g[i] = f[i]
      /\ g[n + 1] = l[1] /\ g[n + 2] = l[2] /\ g[n + 3] = l[3]
  <2> HIDE DEF l
  <2>1. 1 \in 1..Len(l) /\ 2 \in 1..Len(l) /\ 3 \in 1..Len(l)
    BY <1>1
  <2> QED
    BY <1>1, <2>1, Concatenation
<1>4. /\ (n + 1) % 3 = 1 /\ (n + 2) % 3 = 2 /\ (n + 3) % 3 = 0
    BY <1>2
<1>5. /\ g[n + 1].part = "head" /\ g[n + 2].part = "body" /\ g[n + 3].part = "eol"
      /\ g[n + 1].rec = rec /\ g[n + 2].rec = rec
    BY <1>3 DEF Line
<1> HIDE DEF g, n, l
<1>6. ASSUME NEW i \in 1..Len(g)
      PROVE  /\ g[i].part = "head" <=> i % 3 = 1
             /\ g[i].part = "body" <=> i % 3 = 2
             /\ g[i].part = "eol"  <=> i % 3 = 0
             /\ i % 3 = 2 => g[i - 1].rec = g[i].rec
  <2>1. CASE i \in 1..n
    <3>1. i % 3 = 2 => i - 1 \in 1..n
      BY <1>2, <2>1
    <3>2. /\ f[i].part = "head" <=> i % 3 = 1
          /\ f[i].part = "body" <=> i % 3 = 2
          /\ f[i].part = "eol"  <=> i % 3 = 0
          /\ i % 3 = 2 => f[i - 1].rec = f[i].rec
      BY <2>1 DEF WellFormed, n
    <3>3. g[i] = f[i] /\ (i % 3 = 2 => g[i - 1] = f[i - 1])
      BY <1>3, <2>1, <3>1
    <3> QED
      BY <3>2, <3>3
  <2>2. CASE i = n + 1
    BY <1>4, <1>5, <2>2
  <2>3. CASE i = n + 2
    <3>1. i - 1 = n + 1
      BY <1>2, <2>3
    <3>2. g[i - 1].rec = g[i].rec
      BY <1>5, <2>3, <3>1
    <3> QED
      BY <1>4, <1>5, <2>3, <3>2
  <2>4. CASE i = n + 3
    BY <1>4, <1>5, <2>4
  <2> QED
    BY <1>2, <2>1, <2>2, <2>3, <2>4
<1>7. g[Len(g) - 1].rec = rec
  <2>1. Len(g) - 1 = n + 2
    BY <1>2
  <2> QED
    BY <1>5, <2>1
<1>8. WellFormed(g)
    BY <1>6 DEF WellFormed
<1>9. Len(g) % 3 = 0
    BY <1>2, <1>4
<1> QED
    BY <1>2, <1>7, <1>8, <1>9 DEF g, n, l

----------------------------------------------------------------------------
(* What is added at the end of the files is replayed at the end *)

\* Lines that are read after all others leave what was replayed as the front.
LEMMA MoreLines ==
    ASSUME NEW A \in Seq(Seq(Chunk)), NEW B \in Seq(Seq(Chunk)),
           Len(A) <= Padded, Len(B) <= Padded,
           Lines(A) \subseteq Lines(B),
           \A p \in Lines(A) : A[p[1]][p[2]].rec = B[p[1]][p[2]].rec,
           \A p \in Lines(A), q \in Lines(B) \ Lines(A) : ReadBefore(p, q)
    PROVE  /\ Len(Replayed(A)) <= Len(Replayed(B))
           /\ \A i \in 1..Len(Replayed(A)) : Replayed(A)[i] = Replayed(B)[i]
<1> DEFINE la == Lines(A)
           lb == Lines(B)
<1>1. /\ lb \in SUBSET Places(Len(B)) /\ IsFiniteSet(lb) /\ Len(B) \in Nat
      /\ la \in SUBSET Places(Len(A)) /\ IsFiniteSet(la) /\ Len(A) \in Nat
    BY LinesFinite
<1>2. /\ Cardinality(la) <= Cardinality(lb)
      /\ \A i \in 1..Cardinality(la) : Nth(i, la) = Nth(i, lb)
  <2> HIDE DEF la, lb
  <2>1. la \subseteq lb /\ \A p \in la, q \in lb \ la : ReadBefore(p, q)
    BY DEF la, lb
  <2> DEFINE n == Len(B)
  <2>2. n \in Nat /\ n <= Padded /\ lb \in SUBSET Places(n) /\ IsFiniteSet(lb)
    BY <1>1
  <2> HIDE DEF n
  <2> QED
    BY <2>1, <2>2, PrefixRank, ZenonT(30)
<1>3. \A i \in 1..Cardinality(la) : Nth(i, la) \in la
  <2> SUFFICES ASSUME NEW i \in 1..Cardinality(la) PROVE Nth(i, la) \in la
    OBVIOUS
  <2> HIDE DEF la
  <2> QED
    BY <1>1, NthIsLine
<1>4. /\ Len(Replayed(A)) = Cardinality(la) /\ Cardinality(la) \in Nat
      /\ Len(Replayed(B)) = Cardinality(lb) /\ Cardinality(lb) \in Nat
    BY ReplayedTypes
<1>5. ASSUME NEW i \in 1..Cardinality(la)
      PROVE  /\ Replayed(A)[i] = A[Nth(i, la)[1]][Nth(i, la)[2]].rec
             /\ Replayed(B)[i] = B[Nth(i, lb)[1]][Nth(i, lb)[2]].rec
  <2>1. i \in 1..Cardinality(lb)
    BY <1>2, <1>4
  <2> QED
    BY <2>1 DEF Replayed
<1> QED
    BY <1>2, <1>3, <1>4, <1>5

\* A and B are the same files but for the last one, of which A has the first m chunks.
SameUpTo(A, B, m) ==
    /\ A \in Seq(Seq(Chunk)) /\ B \in Seq(Seq(Chunk))
    /\ Len(A) = Len(B) /\ Len(B) \in Nat \ {0} /\ Len(B) <= Padded
    /\ \A s \in 1..Len(B) : s # Len(B) => A[s] = B[s]
    /\ WellFormed(B[Len(B)])
    /\ m \in 0..Len(B[Len(B)]) /\ A[Len(B)] = SubSeq(B[Len(B)], 1, m)

\* A longer last segment has such lines.
LEMMA CutLines ==
    ASSUME NEW A, NEW B, NEW m, SameUpTo(A, B, m)
    PROVE  /\ Lines(A) = {p \in Lines(B) : p[1] = Len(B) => p[2] <= m}
           /\ \A p \in Lines(A) : A[p[1]][p[2]].rec = B[p[1]][p[2]].rec
           /\ \A p \in Lines(A), q \in Lines(B) \ Lines(A) : ReadBefore(p, q)
<1> DEFINE n == Len(B)
           f == B[n]
           g == SubSeq(f, 1, m)
<1>1. f \in Seq(Chunk) /\ WellFormed(f) /\ Len(f) \in Nat /\ m \in 0..Len(f) /\ A[n] = g
    BY DEF SameUpTo
<1>2. g \in Seq(Chunk) /\ Len(g) = m /\ \A i \in 1..m : g[i] = f[i]
    BY <1>1
<1>3. WellFormed(g)
    BY <1>1, WellFormedPrefix
<1>4. /\ n \in Nat \ {0} /\ n <= Padded /\ Len(A) = n
      /\ \A s \in 1..n : s # n => A[s] = B[s]
      /\ A \in Seq(Seq(Chunk)) /\ B \in Seq(Seq(Chunk))
    BY DEF SameUpTo
<1>5. ASSUME NEW i \in 1..m PROVE Parsed(g, i) <=> Parsed(f, i)
  <2>1. i \in 1..Len(f)
    BY <1>1
  <2> QED
    BY <1>1, <1>2, <1>3, <2>1, ParsedWhere
<1> HIDE DEF g
<1>6. ASSUME NEW p PROVE p \in Lines(A) <=> p \in Lines(B) /\ (p[1] = n => p[2] <= m)
  <2>1. /\ p \in Lines(A) <=> /\ p = <<p[1], p[2]>> /\ p[1] \in 1..n
                              /\ p[2] \in 1..Len(A[p[1]]) /\ Parsed(A[p[1]], p[2])
        /\ p \in Lines(B) <=> /\ p = <<p[1], p[2]>> /\ p[1] \in 1..n
                              /\ p[2] \in 1..Len(B[p[1]]) /\ Parsed(B[p[1]], p[2])
    BY <1>4, LineOf
  <2>2. CASE p[1] = n
    <3>1. p[2] \in 1..Len(f) /\ p[2] <= m <=> p[2] \in 1..m
      BY <1>1
    <3> QED
      BY <1>1, <1>2, <1>5, <2>1, <2>2, <3>1
  <2>3. CASE p[1] # n
    <3>1. p[1] \in 1..n => A[p[1]] = B[p[1]]
      BY <1>4, <2>3
    <3> QED
      BY <2>1, <2>3, <3>1
  <2> QED
    BY <2>2, <2>3
<1>7. ASSUME NEW p \in Lines(A) PROVE A[p[1]][p[2]] = B[p[1]][p[2]]
  <2>1. p[1] \in 1..n /\ p[2] \in 1..Len(A[p[1]])
    BY <1>4, LineOf
  <2>2. CASE p[1] = n
    BY <1>1, <1>2, <2>1, <2>2
  <2>3. CASE p[1] # n
    BY <1>4, <2>1, <2>3
  <2> QED
    BY <2>2, <2>3
<1>8. ASSUME NEW p \in Lines(A), NEW q \in Lines(B) \ Lines(A) PROVE ReadBefore(p, q)
  <2>1. p \in Places(n) /\ q \in Places(n)
    BY <1>4, <1>6, LinesFinite
  <2>2. q[1] = n /\ q[2] > m
    BY <1>1, <1>6, <2>1 DEF Places
  <2>3. p[1] < q[1] \/ (p[1] = q[1] /\ p[2] < q[2])
    BY <1>1, <1>4, <1>6, <2>1, <2>2 DEF Places
  <2> QED
    BY <1>4, <2>1, <2>3, ReadOrder
<1> QED
    BY <1>6, <1>7, <1>8

\* Replay of the shorter files is a prefix of that of the longer ones.
IsPrefixOf(s, t) == Len(s) <= Len(t) /\ \A i \in 1..Len(s) : s[i] = t[i]

\* So replay reads a front of what it read.
LEMMA CutReplays ==
    ASSUME NEW A, NEW B, NEW m, SameUpTo(A, B, m)
    PROVE  IsPrefixOf(Replayed(A), Replayed(B))
<1>1. /\ A \in Seq(Seq(Chunk)) /\ B \in Seq(Seq(Chunk))
      /\ Len(A) <= Padded /\ Len(B) <= Padded
    BY DEF SameUpTo
<1>2. /\ Lines(A) \subseteq Lines(B)
      /\ \A p \in Lines(A) : A[p[1]][p[2]].rec = B[p[1]][p[2]].rec
      /\ \A p \in Lines(A), q \in Lines(B) \ Lines(A) : ReadBefore(p, q)
    BY CutLines
<1> QED
    BY <1>1, <1>2, MoreLines DEF IsPrefixOf

\* Counting in threes.
LEMMA Thirds ==
    ASSUME NEW n \in Nat, n % 3 = 0
    PROVE  /\ n >= 3 => n - 1 \in 1..n /\ (n - 1) % 3 = 2 /\ n - 1 \in Nat
           /\ \A i \in 1..n : i % 3 = 2 => i <= n - 1 /\ (i > n - 3 => i = n - 1)
    OBVIOUS

\* The next multiple of three.
LEMMA NextThird ==
    ASSUME NEW m \in Nat, NEW n \in Nat, m % 3 = 0, n % 3 = 0, m < n, n <= m + 3
    PROVE  n = m + 3
    OBVIOUS

\* When the last file ends with a record that the shorter one does not have, that
\* record is replayed last.
LEMMA LastReplayed ==
    ASSUME NEW A, NEW B, NEW m, SameUpTo(A, B, m),
           m + 3 <= Len(B[Len(B)]), Len(B[Len(B)]) % 3 = 0
    PROVE  LET r == Replayed(B)
               f == B[Len(B)]
           IN  /\ r \in Seq(Record) /\ Len(r) \in Nat \ {0}
               /\ Len(Replayed(A)) < Len(r)
               /\ r[Len(r)] = f[Len(f) - 1].rec
               /\ (m + 3 = Len(f) /\ m % 3 = 0) => Len(r) = Len(Replayed(A)) + 1
<1> DEFINE n == Len(B)
           f == B[n]
           la == Lines(A)
           lb == Lines(B)
           last == <<n, Len(f) - 1>>
<1>1. /\ A \in Seq(Seq(Chunk)) /\ B \in Seq(Seq(Chunk)) /\ Len(A) = n
      /\ n \in Nat \ {0} /\ n <= Padded
      /\ f \in Seq(Chunk) /\ WellFormed(f) /\ Len(f) \in Nat /\ m \in Nat
      /\ m + 3 <= Len(f) /\ Len(f) % 3 = 0 /\ Len(f) >= 3
  <2>1. /\ A \in Seq(Seq(Chunk)) /\ B \in Seq(Seq(Chunk)) /\ Len(A) = n
        /\ n \in Nat \ {0} /\ n <= Padded /\ WellFormed(f) /\ m \in 0..Len(f)
    BY DEF SameUpTo
  <2>2. f \in Seq(Chunk)
    BY <2>1
  <2>3. Len(f) \in Nat /\ m \in Nat
    BY <2>1, <2>2
  <2>4. m + 3 <= Len(f) /\ Len(f) % 3 = 0
    OBVIOUS
  <2> HIDE DEF f, n
  <2>5. Len(f) >= 3
    BY <2>3, <2>4
  <2> QED
    BY <2>1, <2>2, <2>3, <2>4, <2>5
<1>2. /\ lb \in SUBSET Places(n) /\ IsFiniteSet(lb) /\ Len(Replayed(B)) = Cardinality(lb)
      /\ IsFiniteSet(la) /\ Len(Replayed(A)) = Cardinality(la)
      /\ Cardinality(la) \in Nat /\ Cardinality(lb) \in Nat /\ Replayed(B) \in Seq(Record)
    BY <1>1, LinesFinite, ReplayedTypes
<1>3. ASSUME NEW i \in Nat
      PROVE  <<n, i>> \in lb <=> i \in 1..Len(f) /\ i % 3 = 2
  <2> DEFINE p == <<n, i>>
  <2>0. p[1] = n /\ p[2] = i /\ p = <<p[1], p[2]>>
    OBVIOUS
  <2>1. p \in lb <=> i \in 1..Len(f) /\ Parsed(f, i)
    <3> HIDE DEF p
    <3>1. p \in lb <=> /\ p = <<p[1], p[2]>> /\ p[1] \in 1..n
                      /\ p[2] \in 1..Len(B[p[1]]) /\ Parsed(B[p[1]], p[2])
      BY LineOf
    <3> QED
      BY <1>1, <2>0, <3>1
  <2> QED
    BY <1>1, <2>1, ParsedWhere
<1>4. last \in lb /\ Len(f) - 1 \in Nat
  <2>1. Len(f) - 1 \in 1..Len(f) /\ (Len(f) - 1) % 3 = 2 /\ Len(f) - 1 \in Nat
    BY <1>1, Thirds
  <2> QED
    BY <1>3, <2>1
<1>5. la = {p \in lb : p[1] = n => p[2] <= m}
    BY CutLines
<1>6. last \notin la /\ la \subseteq lb
    BY <1>1, <1>5
<1>7. ASSUME NEW q \in lb \ {last} PROVE ReadBefore(q, last)
  <2>1. q \in Places(n) /\ last \in Places(n)
    BY <1>2, <1>4
  <2>2. q = <<q[1], q[2]>> /\ q[1] \in 1..n /\ q[2] \in Nat
    BY <2>1 DEF Places
  <2>3. CASE q[1] = n
    <3>1. q[2] \in 1..Len(f) /\ q[2] % 3 = 2 /\ q[2] # Len(f) - 1
      BY <1>3, <2>2, <2>3
    <3>2. q[2] <= Len(f) - 1
      BY <1>1, <3>1, Thirds
    <3>3. q[2] < last[2]
      BY <1>1, <2>2, <3>1, <3>2
    <3> QED
      BY <1>1, <2>1, <2>3, <3>3, ReadOrder
  <2>4. CASE q[1] # n
    <3>1. q[1] < last[1]
      BY <2>2, <2>4
    <3> QED
      BY <1>1, <2>1, <3>1, ReadOrder
  <2> QED
    BY <2>3, <2>4
<1>8. Cardinality(lb) \in Nat \ {0} /\ Nth(Cardinality(lb), lb) = last
  <2> HIDE DEF lb, last, n
  <2> QED
    BY <1>1, <1>2, <1>4, <1>7, LastRank
<1>9. Cardinality(la) < Cardinality(lb)
  <2> HIDE DEF la, lb, last
  <2>1. Cardinality(la) <= Cardinality(lb) /\ Cardinality(la) # Cardinality(lb)
    BY <1>2, <1>4, <1>6, FS_Subset
  <2> QED
    BY <1>2, <2>1
<1>10. Replayed(B)[Cardinality(lb)] = f[Len(f) - 1].rec
  <2>1. Replayed(B)[Cardinality(lb)]
          = B[Nth(Cardinality(lb), lb)[1]][Nth(Cardinality(lb), lb)[2]].rec
    <3>1. Cardinality(lb) \in 1..Cardinality(lb)
      BY <1>8
    <3> QED
      BY <3>1 DEF Replayed
  <2>2. last[1] = n /\ last[2] = Len(f) - 1
    OBVIOUS
  <2> HIDE DEF last
  <2> QED
    BY <1>8, <2>1, <2>2
<1>11. ASSUME m + 3 = Len(f), m % 3 = 0
       PROVE  Cardinality(lb) = Cardinality(la) + 1
  <2>1. ASSUME NEW q \in lb, q \notin la PROVE q = last
    <3>1. q[1] = n /\ q[2] \in Nat /\ q = <<q[1], q[2]>> /\ ~(q[2] <= m)
      BY <1>2, <1>5, <2>1 DEF Places
    <3>2. q[2] \in 1..Len(f) /\ q[2] % 3 = 2
      BY <1>3, <3>1
    <3>3. q[2] > Len(f) - 3
      BY <1>1, <1>11, <3>1
    <3>4. q[2] = Len(f) - 1
      BY <1>1, <3>2, <3>3, Thirds
    <3> QED
      BY <3>1, <3>4
  <2>2. lb = la \cup {last}
    BY <1>4, <1>6, <2>1
  <2> HIDE DEF la, lb, last
  <2> QED
    BY <1>2, <1>6, <2>2, FS_AddElement
<1> QED
    BY <1>2, <1>8, <1>9, <1>10, <1>11

----------------------------------------------------------------------------
(* Subsequences *)

\* A sequence is a subsequence of itself,
LEMMA SubsequenceSelf ==
    ASSUME NEW s \in Seq(Record)
    PROVE  IsSubsequence(s, s)
<1> DEFINE at == [i \in 1..Len(s) |-> i]
<1>1. /\ at \in [1..Len(s) -> 1..Len(s)] /\ \A i \in 1..Len(s) : s[at[i]] = s[i]
      /\ \A i, j \in 1..Len(s) : i < j => at[i] < at[j]
    OBVIOUS
<1> QED
    BY <1>1 DEF IsSubsequence

\* a subsequence of a front is one of the whole,
LEMMA SubsequencePrefix ==
    ASSUME NEW s \in Seq(Record), NEW t \in Seq(Record), NEW u \in Seq(Record),
           IsSubsequence(s, t), IsPrefixOf(t, u)
    PROVE  IsSubsequence(s, u)
<1>1. PICK at \in [1..Len(s) -> 1..Len(t)] :
        /\ \A i, j \in 1..Len(s) : i < j => at[i] < at[j]
        /\ \A i \in 1..Len(s) : t[at[i]] = s[i]
    BY DEF IsSubsequence
<1>2. Len(t) <= Len(u) /\ Len(t) \in Nat /\ Len(u) \in Nat /\ \A i \in 1..Len(t) : t[i] = u[i]
    BY DEF IsPrefixOf
<1>3. ASSUME NEW i \in 1..Len(s) PROVE at[i] \in 1..Len(u) /\ u[at[i]] = s[i]
  <2>1. at[i] \in 1..Len(t) /\ t[at[i]] = s[i]
    BY <1>1
  <2> QED
    BY <1>2, <2>1
<1>4. at \in [1..Len(s) -> 1..Len(u)]
    BY <1>1, <1>3
<1> QED
    BY <1>1, <1>3, <1>4 DEF IsSubsequence

\* both sequences may grow by one element,
LEMMA SubsequenceAppend ==
    ASSUME NEW s \in Seq(Record), NEW t \in Seq(Record), NEW u \in Seq(Record),
           NEW r \in Record, IsSubsequence(s, t), IsPrefixOf(t, u), Len(t) < Len(u),
           u[Len(u)] = r
    PROVE  IsSubsequence(Append(s, r), u)
<1> DEFINE n == Len(s)
           s2 == Append(s, r)
<1>1. PICK at \in [1..n -> 1..Len(t)] :
        /\ \A i, j \in 1..n : i < j => at[i] < at[j]
        /\ \A i \in 1..n : t[at[i]] = s[i]
    BY DEF IsSubsequence
<1>2. /\ Len(t) \in Nat /\ Len(u) \in Nat /\ n \in Nat
      /\ \A i \in 1..Len(t) : t[i] = u[i]
    BY DEF IsPrefixOf
<1>3. Len(s2) = n + 1 /\ s2[n + 1] = r /\ \A i \in 1..n : s2[i] = s[i]
    OBVIOUS
<1> HIDE DEF n, s2
<1> DEFINE at2 == [i \in 1..Len(s2) |-> IF i <= n THEN at[i] ELSE Len(u)]
<1>4. /\ \A i \in 1..n : at2[i] = at[i] /\ at2[i] \in 1..Len(t)
      /\ at2[n + 1] = Len(u)
    BY <1>1, <1>2, <1>3
<1>5. at2 \in [1..Len(s2) -> 1..Len(u)]
    BY <1>1, <1>2, <1>3
<1>6. ASSUME NEW i \in 1..Len(s2), NEW j \in 1..Len(s2), i < j PROVE at2[i] < at2[j]
  <2>1. i \in 1..n
    BY <1>2, <1>3, <1>6
  <2>2. CASE j \in 1..n
    BY <1>1, <1>4, <1>6, <2>1, <2>2
  <2>3. CASE j = n + 1
    BY <1>2, <1>4, <2>1, <2>3
  <2> QED
    BY <1>2, <1>3, <2>2, <2>3
<1>7. ASSUME NEW i \in 1..Len(s2) PROVE u[at2[i]] = s2[i]
  <2>1. CASE i \in 1..n
    BY <1>1, <1>2, <1>3, <1>4, <2>1, SMTT(20)
  <2>2. CASE i = n + 1
    BY <1>3, <1>4, <2>2
  <2> QED
    BY <1>2, <1>3, <2>1, <2>2
<1> HIDE DEF at2
<1>8. IsSubsequence(s2, u)
    BY <1>5, <1>6, <1>7 DEF IsSubsequence
<1> QED
    BY <1>8 DEF s2

\* and the subsequence may lose its last one.
LEMMA SubsequenceFront ==
    ASSUME NEW s \in Seq(Record), NEW r \in Record, NEW t \in Seq(Record),
           IsSubsequence(Append(s, r), t)
    PROVE  IsSubsequence(s, t)
<1> DEFINE n == Len(s)
           s2 == Append(s, r)
<1>1. Len(s2) = n + 1 /\ n \in Nat /\ \A i \in 1..n : s2[i] = s[i]
    OBVIOUS
<1> HIDE DEF s2
<1>2. PICK at \in [1..n + 1 -> 1..Len(t)] :
        /\ \A i, j \in 1..n + 1 : i < j => at[i] < at[j]
        /\ \A i \in 1..n + 1 : t[at[i]] = s2[i]
    BY <1>1 DEF IsSubsequence, s2
<1> DEFINE at2 == [i \in 1..n |-> at[i]]
<1>3. /\ at2 \in [1..n -> 1..Len(t)] /\ \A i \in 1..n : t[at2[i]] = s[i]
      /\ \A i, j \in 1..n : i < j => at2[i] < at2[j]
    BY <1>1, <1>2
<1> QED
    BY <1>3 DEF IsSubsequence

----------------------------------------------------------------------------
(* The files while the engine works *)

\* The current segment once the buffer is flushed, and the files as far as they are
\* fsynced.
Pending == segments[current] \o buffer
Kept == [segments EXCEPT ![current] = SubSeq(segments[current], 1, safe)]

\* Records are written whole: all files are well formed, the one in use as soon as
\* its buffer is flushed.  A mutation past its fsync has everything on disk; one
\* before it has its record after all that is.
FileInv ==
    /\ \A s \in 1..Len(segments) : s # current => WellFormed(segments[s])
    /\ WellFormed(Pending) /\ Len(Pending) % 3 = 0
    /\ safe % 3 = 0
    /\ ~alive => buffer = <<>> /\ op = None
    /\ logged => op # None /\ buffer = <<>> /\ safe = Len(segments[current])
    /\ op # None /\ ~logged =>
          safe + 3 <= Len(Pending) /\ Pending[Len(Pending) - 1].rec = op

\* Facts about concatenation and cutting.
LEMMA EmptyConcatenation ==
    ASSUME NEW a \in Seq(Chunk)
    PROVE  a \o <<>> = a /\ SubSeq(a, 1, Len(a)) = a
    OBVIOUS

\* Concatenation is associative.
LEMMA Associativity ==
    ASSUME NEW a \in Seq(Chunk), NEW b \in Seq(Chunk), NEW c \in Seq(Chunk)
    PROVE  (a \o b) \o c = a \o (b \o c)
    OBVIOUS

\* What reached the file and what did not make up the buffer.
LEMMA Recombined ==
    ASSUME NEW a \in Seq(Chunk), NEW b \in Seq(Chunk), NEW n \in 0..Len(b)
    PROVE  (a \o SubSeq(b, 1, n)) \o SubSeq(b, n + 1, Len(b)) = a \o b
<1> DEFINE c == SubSeq(b, 1, n)
           d == SubSeq(b, n + 1, Len(b))
<1>1. /\ c \in Seq(Chunk) /\ Len(c) = n /\ \A i \in 1..n : c[i] = b[i]
      /\ d \in Seq(Chunk) /\ Len(d) = Len(b) - n
      /\ \A i \in 1..(Len(b) - n) : d[i] = b[n + i]
    BY SubSeqProperties
<1>2. Len(b) \in Nat /\ n \in Nat /\ n <= Len(b)
    OBVIOUS
<1> HIDE DEF c, d
<1>3. /\ c \o d \in Seq(Chunk) /\ Len(c \o d) = Len(c) + Len(d)
      /\ \A i \in 1..Len(c) : (c \o d)[i] = c[i]
      /\ \A i \in 1..Len(d) : (c \o d)[Len(c) + i] = d[i]
    BY <1>1, Concatenation
<1>4. Len(c \o d) = Len(b)
    BY <1>1, <1>2, <1>3
<1>5. ASSUME NEW i \in 1..Len(b) PROVE (c \o d)[i] = b[i]
  <2>1. CASE i <= n
    BY <1>1, <1>2, <1>3, <2>1
  <2>2. CASE i > n
    <3>1. i - n \in 1..(Len(b) - n) /\ n + (i - n) = i
      BY <1>2, <2>2
    <3>2. (c \o d)[n + (i - n)] = d[i - n] /\ d[i - n] = b[n + (i - n)]
      BY <1>1, <1>3, <3>1
    <3> QED
      BY <3>1, <3>2
  <2>3. i <= n \/ i > n
    BY <1>2
  <2> QED
    BY <2>1, <2>2, <2>3, Zenon
<1>6. c \o d = b
    BY <1>3, <1>4, <1>5, SeqEqual
<1>7. c \in Seq(Chunk) /\ d \in Seq(Chunk)
    BY <1>1
<1>8. (a \o c) \o d = a \o (c \o d)
    BY <1>7, Associativity, Zenon
<1> QED
    BY <1>6, <1>8 DEF c, d

\* The files without what was not fsynced.
LEMMA KeptTypes ==
    ASSUME TypeInv
    PROVE  /\ Kept \in Seq(Seq(Chunk)) /\ Len(Kept) = Len(segments)
           /\ Kept[current] = SubSeq(segments[current], 1, safe)
           /\ \A s \in 1..Len(segments) : s # current => Kept[s] = segments[s]
<1>1. SubSeq(segments[current], 1, safe) \in Seq(Chunk)
    BY LogTypes
<1> QED
    BY <1>1, LogTypes, SegmentChange DEF Kept

\* The current segment with what is buffered is a file.
LEMMA PendingTypes ==
    ASSUME TypeInv, FileInv
    PROVE  /\ Pending \in Seq(Chunk) /\ WellFormed(segments[current])
           /\ Len(Pending) = Len(segments[current]) + Len(buffer) /\ Len(Pending) \in Nat
           /\ \A i \in 1..Len(segments[current]) : Pending[i] = segments[current][i]
<1>1. /\ Pending \in Seq(Chunk) /\ Len(Pending) = Len(segments[current]) + Len(buffer)
      /\ \A i \in 1..Len(segments[current]) : Pending[i] = segments[current][i]
    BY LogTypes, Concatenation DEF Pending
<1>2. WellFormed(segments[current])
    BY LogTypes, WellFormedFront DEF FileInv, Pending
<1>3. Len(Pending) \in Nat
    BY <1>1, LogTypes
<1> QED
    BY <1>1, <1>2, <1>3

\* What clients were told, and what they will be told of a mutation past its fsync,
\* is on disk.
Promised == IF op # None /\ logged THEN Append(ackedLog, op) ELSE ackedLog

AckInv == IsSubsequence(Promised, Replayed(Kept))

DiskInv == TypeInv /\ FileInv /\ AckInv

\* A front of a file is a file,
LEMMA FrontTypes ==
    ASSUME NEW f \in Seq(Chunk), NEW n \in 0..Len(f)
    PROVE  SubSeq(f, 1, n) \in Seq(Chunk) /\ Len(SubSeq(f, 1, n)) = n
    OBVIOUS

\* a front of its first part is a front of both,
LEMMA FrontOfConcatenation ==
    ASSUME NEW a \in Seq(Chunk), NEW b \in Seq(Chunk), NEW n \in 0..Len(a)
    PROVE  SubSeq(a \o b, 1, n) = SubSeq(a, 1, n)
    OBVIOUS

\* and a front of a front is a front.
LEMMA FrontOfFront ==
    ASSUME NEW f \in Seq(Chunk), NEW n \in 0..Len(f), NEW m \in 0..n
    PROVE  SubSeq(SubSeq(f, 1, n), 1, m) = SubSeq(f, 1, m)
    OBVIOUS

\* Nothing is cut off a file that is fsynced to its end.
LEMMA WholeKept ==
    ASSUME NEW segs \in Seq(Seq(Chunk)), NEW s \in 1..Len(segs), NEW n, n = Len(segs[s])
    PROVE  [segs EXCEPT ![s] = SubSeq(segs[s], 1, n)] = segs
<1>1. segs[s] \in Seq(Chunk)
    OBVIOUS
<1>2. SubSeq(segs[s], 1, n) = segs[s]
    BY <1>1, EmptyConcatenation
<1> QED
    BY <1>2

\* The record in progress is the last line of the pending file.
LEMMA BeginDisk ==
    ASSUME DiskInv, NEW rec \in Record, Begin(rec)
    PROVE  FileInv' /\ AckInv'
<1>1. /\ segments' = segments /\ current' = current /\ safe' = safe /\ op' = rec
      /\ logged' = logged /\ ackedLog' = ackedLog /\ alive' = alive /\ alive
      /\ buffer' = buffer \o Line(rec) /\ op = None
    BY DEF Begin, Write, ackVars
<1>2. TypeInv /\ FileInv /\ AckInv
    BY DEF DiskInv
<1>3. ~logged /\ rec # None
    BY <1>1, <1>2, NoneAssumption DEF FileInv
<1>4. Pending' = Pending \o Line(rec)
    BY <1>1, <1>2, LogTypes, LineTypes, Associativity DEF Pending
<1>5. /\ WellFormed(Pending') /\ Len(Pending') = Len(Pending) + 3 /\ Len(Pending') % 3 = 0
      /\ Pending'[Len(Pending') - 1].rec = rec
  <2>1. Pending \in Seq(Chunk) /\ WellFormed(Pending) /\ Len(Pending) % 3 = 0
    BY <1>2, PendingTypes DEF FileInv
  <2> QED
    BY <1>4, <2>1, WellFormedAppend
<1>6. safe + 3 <= Len(Pending')
    BY <1>2, <1>5, PendingTypes, LogTypes
<1>7. FileInv'
    BY <1>1, <1>2, <1>3, <1>5, <1>6 DEF FileInv
<1>8. Kept' = Kept /\ Promised' = Promised
    BY <1>1, <1>3 DEF Kept, Promised
<1> QED
    BY <1>2, <1>7, <1>8 DEF AckInv

\* Once it is fsynced a restart replays it, and it may be promised.
LEMMA LoggedDisk ==
    ASSUME DiskInv, NamesFit, Logged
    PROVE  FileInv' /\ AckInv'
<1> DEFINE f == Pending
<1>1. TypeInv /\ FileInv /\ AckInv
    BY DEF DiskInv
<1>2. /\ f \in Seq(Chunk) /\ WellFormed(f) /\ Len(f) % 3 = 0 /\ Len(f) \in Nat
      /\ Len(f) = Len(segments[current]) + Len(buffer)
    BY <1>1, PendingTypes DEF FileInv
<1>3. /\ segments' = [segments EXCEPT ![current] = f] /\ current' = current
      /\ buffer' = <<>> /\ safe' = Len(f) /\ op' = op /\ logged' = TRUE /\ ~logged
      /\ alive' = alive /\ ackedLog' = ackedLog /\ op # None /\ op \in Record /\ alive
    BY <1>1, <1>2 DEF Logged, Sync, Pending, envVars, ackVars, TypeInv, TypeOK, FileInv
<1>4. /\ segments' \in Seq(Seq(Chunk)) /\ Len(segments') = Len(segments)
      /\ segments'[current] = f
      /\ \A s \in 1..Len(segments) : s # current => segments'[s] = segments[s]
    BY <1>1, <1>2, <1>3, LogTypes, SegmentChange
<1>5. Pending' = f
    BY <1>2, <1>3, <1>4, EmptyConcatenation DEF Pending
<1>6. Kept' = segments'
  <2> DEFINE new == segments'
  <2>1. new \in Seq(Seq(Chunk)) /\ current \in 1..Len(new) /\ safe' = Len(new[current])
    BY <1>1, <1>3, <1>4, LogTypes
  <2>2. Kept' = [new EXCEPT ![current] = SubSeq(new[current], 1, safe')]
    BY <1>3 DEF Kept
  <2> HIDE DEF new
  <2>3. Kept' = new
    BY <2>1, <2>2, WholeKept
  <2> QED
    BY <2>3 DEF new
<1>7. /\ current = Len(segments) /\ Len(segments) \in Nat \ {0} /\ Len(segments) <= Padded
      /\ safe \in Nat /\ safe <= Len(segments[current]) /\ segments[current] \in Seq(Chunk)
      /\ buffer \in Seq(Chunk) /\ safe \in 0..Len(f) /\ safe + 3 <= Len(f)
      /\ f[Len(f) - 1].rec = op
    BY <1>1, <1>2, <1>3, LogTypes DEF NamesFit, FileInv
<1>8. SubSeq(f, 1, safe) = SubSeq(segments[current], 1, safe)
    BY <1>1, <1>7, LogTypes, FrontOfConcatenation DEF Pending
<1> HIDE DEF f
<1>9. SameUpTo(Kept, segments', safe)
    BY <1>1, <1>2, <1>4, <1>7, <1>8, KeptTypes DEF SameUpTo
<1>10. FileInv'
  <2>1. \A s \in 1..Len(segments') : s # current' => WellFormed(segments'[s])
    BY <1>1, <1>3, <1>4 DEF FileInv
  <2> QED
    BY <1>2, <1>3, <1>4, <1>5, <2>1 DEF FileInv
<1>11. AckInv'
  <2> DEFINE r == Replayed(segments')
  <2>1. /\ r \in Seq(Record) /\ Len(Replayed(Kept)) < Len(r) /\ r[Len(r)] = op
        /\ IsPrefixOf(Replayed(Kept), r)
    BY <1>2, <1>4, <1>7, <1>9, LastReplayed, CutReplays
  <2>2. Replayed(Kept) \in Seq(Record) /\ ackedLog \in Seq(Record)
    BY <1>1, <1>7, KeptTypes, ReplayedTypes DEF TypeInv, TypeOK
  <2>3. IsSubsequence(ackedLog, Replayed(Kept))
    BY <1>1, <1>3 DEF AckInv, Promised
  <2>4. IsSubsequence(Append(ackedLog, op), r)
    BY <1>3, <2>1, <2>2, <2>3, SubsequenceAppend
  <2>5. Promised' = Append(ackedLog, op)
    BY <1>3 DEF Promised
  <2> QED
    BY <1>6, <2>4, <2>5 DEF AckInv
<1> QED
    BY <1>10, <1>11

\* A write that fails leaves a front of the pending file, and promises nothing.
LEMMA LogFailsDisk ==
    ASSUME DiskInv, LogFails
    PROVE  FileInv' /\ AckInv'
<1>1. TypeInv /\ FileInv /\ AckInv
    BY DEF DiskInv
<1>2. PICK n \in 0..Len(buffer) :
        /\ segments' = [segments EXCEPT ![current] = @ \o SubSeq(buffer, 1, n)]
        /\ buffer' = SubSeq(buffer, n + 1, Len(buffer))
        /\ UNCHANGED <<current, opened, safe>>
    BY DEF LogFails, SyncError
<1>3. /\ op' = None /\ op # None /\ ~logged /\ logged' = logged /\ ackedLog' = ackedLog
      /\ alive' = alive /\ alive
    BY <1>1 DEF LogFails, envVars, ackVars, FileInv
<1> DEFINE a == segments[current]
           c == SubSeq(buffer, 1, n)
<1>4. a \in Seq(Chunk) /\ c \in Seq(Chunk) /\ buffer \in Seq(Chunk)
    BY <1>1, LogTypes, SubSeqProperties
<1> HIDE DEF c
<1>5. /\ segments' \in Seq(Seq(Chunk)) /\ Len(segments') = Len(segments)
      /\ segments'[current] = a \o c
      /\ \A s \in 1..Len(segments) : s # current => segments'[s] = segments[s]
  <2>1. a \o c \in Seq(Chunk) /\ segments' = [segments EXCEPT ![current] = a \o c]
    BY <1>2, <1>4, Concatenation DEF c
  <2> QED
    BY <1>1, <2>1, LogTypes, SegmentChange
<1>6. Pending' = Pending
  <2>1. Pending' = (a \o c) \o SubSeq(buffer, n + 1, Len(buffer))
    BY <1>2, <1>5 DEF Pending
  <2>2. (a \o c) \o SubSeq(buffer, n + 1, Len(buffer)) = a \o buffer
    BY <1>4, Recombined DEF c
  <2> QED
    BY <2>1, <2>2 DEF Pending
<1>7. FileInv'
    BY <1>1, <1>2, <1>3, <1>5, <1>6 DEF FileInv
<1>8. Kept' = Kept
  <2>1. SubSeq(a \o c, 1, safe) = SubSeq(a, 1, safe)
    BY <1>1, <1>4, LogTypes, FrontOfConcatenation
  <2>2. Kept' = [segments' EXCEPT ![current] = SubSeq(a, 1, safe)]
    BY <1>2, <1>5, <2>1 DEF Kept
  <2>3. segments' = [segments EXCEPT ![current] = a \o c]
    BY <1>2 DEF c
  <2> HIDE DEF a
  <2>4. ASSUME NEW x, NEW y
        PROVE  [[segments EXCEPT ![current] = x] EXCEPT ![current] = y]
                 = [segments EXCEPT ![current] = y]
    BY <1>1, LogTypes
  <2> QED
    BY <2>2, <2>3, <2>4 DEF Kept, a
<1>9. Promised' = Promised
    BY <1>3 DEF Promised
<1> QED
    BY <1>1, <1>7, <1>8, <1>9 DEF AckInv

\* A new segment holds no line.
LEMMA RotatedLines ==
    ASSUME NEW segs \in Seq(Seq(Chunk))
    PROVE  LET new == Append(segs, <<>>)
           IN  /\ new \in Seq(Seq(Chunk)) /\ Len(new) = Len(segs) + 1
               /\ new[Len(segs) + 1] = <<>> /\ \A s \in 1..Len(segs) : new[s] = segs[s]
               /\ Lines(new) = Lines(segs)
<1> DEFINE new == Append(segs, <<>>)
           n == Len(segs)
<1>1. /\ new \in Seq(Seq(Chunk)) /\ Len(new) = n + 1 /\ n \in Nat
      /\ new[n + 1] = <<>> /\ \A s \in 1..n : new[s] = segs[s]
  <2>1. <<>> \in Seq(Chunk)
    OBVIOUS
  <2> QED
    BY <2>1
<1> HIDE DEF new
<1>2. ASSUME NEW p PROVE p \in Lines(new) <=> p \in Lines(segs)
  <2>1. /\ p \in Lines(new) <=> /\ p = <<p[1], p[2]>> /\ p[1] \in 1..(n + 1)
                               /\ p[2] \in 1..Len(new[p[1]]) /\ Parsed(new[p[1]], p[2])
        /\ p \in Lines(segs) <=> /\ p = <<p[1], p[2]>> /\ p[1] \in 1..n
                               /\ p[2] \in 1..Len(segs[p[1]]) /\ Parsed(segs[p[1]], p[2])
    BY <1>1, LineOf
  <2>2. CASE p[1] = n + 1
    <3>1. p[1] \notin 1..n /\ Len(new[p[1]]) = 0
      BY <1>1, <2>2
    <3> QED
      BY <2>1, <3>1
  <2>3. CASE p[1] # n + 1
    <3>1. p[1] \in 1..(n + 1) <=> p[1] \in 1..n
      BY <1>1, <2>3
    <3> QED
      BY <1>1, <2>1, <3>1
  <2> QED
    BY <2>2, <2>3
<1> QED
    BY <1>1, <1>2 DEF new

\* An empty segment adds no record.
LEMMA RotatedReplays ==
    ASSUME NEW segs \in Seq(Seq(Chunk)), Len(segs) + 1 <= Padded
    PROVE  Replayed(Append(segs, <<>>)) = Replayed(segs)
<1> DEFINE new == Append(segs, <<>>)
<1>1. /\ new \in Seq(Seq(Chunk)) /\ Len(new) = Len(segs) + 1 /\ Len(segs) \in Nat
      /\ \A s \in 1..Len(segs) : new[s] = segs[s] /\ Lines(new) = Lines(segs)
    BY RotatedLines
<1> HIDE DEF new
<1>2. Len(segs) <= Padded /\ Len(new) <= Padded
    BY <1>1, PaddedAssumption
<1>3. \A p \in Lines(segs) : segs[p[1]][p[2]].rec = new[p[1]][p[2]].rec
    BY <1>1, LineOf
<1>4. /\ Len(Replayed(segs)) = Cardinality(Lines(segs)) /\ Replayed(segs) \in Seq(Record)
      /\ Len(Replayed(new)) = Cardinality(Lines(new)) /\ Replayed(new) \in Seq(Record)
    BY <1>1, <1>2, ReplayedTypes
<1>5. Lines(new) = Lines(segs)
    BY RotatedLines DEF new
<1>6. \A i \in 1..Len(Replayed(segs)) : Replayed(segs)[i] = Replayed(new)[i]
    BY <1>1, <1>2, <1>3, <1>5, MoreLines
<1>7. Replayed(new) = Replayed(segs)
    BY <1>4, <1>5, <1>6, SeqEqual
<1> QED
    BY <1>7 DEF new

\* A rotation keeps what is promised,
LEMMA RotateDisk ==
    ASSUME DiskInv, NamesFit', RotateLog
    PROVE  FileInv' /\ AckInv' /\ Replayed(segments') = Replayed(segments)
<1>1. TypeInv /\ FileInv /\ AckInv
    BY DEF DiskInv
<1>2. /\ segments' = Append(segments, <<>>) /\ current' = Len(segments) + 1 /\ safe' = 0
      /\ buffer' = buffer /\ op # None /\ logged
      /\ UNCHANGED <<op, logged, alive, ackedLog>>
    BY DEF RotateLog, Rotate, opVars, envVars, ackVars
<1>3. buffer = <<>> /\ safe = Len(segments[current]) /\ alive
    BY <1>1, <1>2 DEF FileInv
<1>4. /\ segments \in Seq(Seq(Chunk)) /\ Len(segments) \in Nat \ {0}
      /\ current = Len(segments)
    BY <1>1, LogTypes
<1>5. /\ segments' \in Seq(Seq(Chunk)) /\ Len(segments') = Len(segments) + 1
      /\ segments'[current'] = <<>>
      /\ \A s \in 1..Len(segments) : segments'[s] = segments[s]
    BY <1>2, <1>4, RotatedLines
<1>6. Len(segments) + 1 <= Padded
    BY <1>5 DEF NamesFit
<1>7. Pending' = <<>>
  <2>1. <<>> \in Seq(Chunk)
    OBVIOUS
  <2> QED
    BY <1>2, <1>3, <1>5, <2>1, EmptyConcatenation DEF Pending
<1>8. FileInv'
  <2>1. \A s \in 1..Len(segments') : s # current' => WellFormed(segments'[s])
    <3> SUFFICES ASSUME NEW s \in 1..Len(segments'), s # current'
                 PROVE  WellFormed(segments'[s])
      OBVIOUS
    <3>1. s \in 1..Len(segments) /\ segments'[s] = segments[s]
      BY <1>2, <1>4, <1>5
    <3> QED
      BY <1>1, <3>1, PendingTypes DEF FileInv
  <2>2. WellFormed(<<>>) /\ Len(<<>>) % 3 = 0 /\ Len(<<>>) = 0 /\ 0 % 3 = 0
    BY DEF WellFormed
  <2> QED
    BY <1>2, <1>3, <1>5, <1>7, <2>1, <2>2 DEF FileInv
<1>9. Kept = segments
  <2>1. current \in 1..Len(segments)
    BY <1>4
  <2> QED
    BY <1>3, <1>4, <2>1, WholeKept DEF Kept
<1>10. Kept' = segments'
  <2> DEFINE new == segments'
             c == current'
  <2>1. new \in Seq(Seq(Chunk)) /\ c \in 1..Len(new) /\ 0 = Len(new[c])
    BY <1>2, <1>4, <1>5
  <2>2. Kept' = [new EXCEPT ![c] = SubSeq(new[c], 1, 0)]
    BY <1>2 DEF Kept
  <2> HIDE DEF new, c
  <2>3. Kept' = new
    BY <2>1, <2>2, WholeKept
  <2> QED
    BY <2>3 DEF new
<1>11. Replayed(segments') = Replayed(segments)
    BY <1>2, <1>4, <1>6, RotatedReplays
<1>12. Promised' = Promised
    BY <1>2 DEF Promised
<1> QED
    BY <1>1, <1>8, <1>9, <1>10, <1>11, <1>12 DEF AckInv

\* a failed one too.
LEMMA RotateFailsDisk ==
    ASSUME DiskInv, NamesFit, RotateFails
    PROVE  FileInv' /\ AckInv'
<1>1. TypeInv /\ FileInv /\ AckInv
    BY DEF DiskInv
<1>2. /\ UNCHANGED <<segments, current, buffer, safe, alive, ackedLog>>
      /\ op # None /\ op \in Record /\ logged /\ op' = None /\ logged' = FALSE
    BY <1>1 DEF RotateFails, RotateError, envVars, ackVars, TypeInv, TypeOK
<1>3. FileInv'
    BY <1>1, <1>2 DEF FileInv, Pending
<1>4. IsSubsequence(Append(ackedLog, op), Replayed(Kept))
    BY <1>1, <1>2 DEF AckInv, Promised
<1>5. ackedLog \in Seq(Record) /\ Replayed(Kept) \in Seq(Record)
    BY <1>1, KeptTypes, ReplayedTypes DEF NamesFit, TypeInv, TypeOK
<1>6. IsSubsequence(ackedLog, Replayed(Kept))
    BY <1>2, <1>4, <1>5, SubsequenceFront
<1>7. Kept' = Kept /\ Promised' = ackedLog
    BY <1>2 DEF Kept, Promised
<1> QED
    BY <1>3, <1>6, <1>7 DEF AckInv

\* What is acknowledged was promised.
LEMMA FinishDisk ==
    ASSUME DiskInv, Finish
    PROVE  FileInv' /\ AckInv'
<1>1. TypeInv /\ FileInv /\ AckInv
    BY DEF DiskInv
<1>2. /\ UNCHANGED <<segments, current, buffer, safe, alive>>
      /\ op # None /\ logged /\ op' = None /\ logged' = FALSE
      /\ ackedLog' = Append(ackedLog, op)
    BY DEF Finish, walVars, envVars
<1>3. FileInv'
    BY <1>1, <1>2 DEF FileInv, Pending
<1>4. Kept' = Kept /\ Promised' = Promised
    BY <1>2 DEF Kept, Promised
<1> QED
    BY <1>1, <1>3, <1>4 DEF AckInv

\* What is promised holds for what was acknowledged, too.
LEMMA AckedKept ==
    ASSUME DiskInv, NamesFit
    PROVE  /\ IsSubsequence(ackedLog, Replayed(Kept))
           /\ ackedLog \in Seq(Record) /\ Replayed(Kept) \in Seq(Record)
<1>1. TypeInv /\ FileInv /\ AckInv
    BY DEF DiskInv
<1>2. ackedLog \in Seq(Record) /\ Replayed(Kept) \in Seq(Record) /\ op \in Record \cup {None}
    BY <1>1, KeptTypes, ReplayedTypes DEF NamesFit, TypeInv, TypeOK
<1> QED
    BY <1>1, <1>2, SubsequenceFront DEF AckInv, Promised

\* A crash keeps what was fsynced.
LEMMA CrashDisk ==
    ASSUME DiskInv, NamesFit, ~TornTail, Crash
    PROVE  FileInv' /\ AckInv'
<1> DEFINE f == Pending
<1>1. TypeInv /\ FileInv /\ AckInv
    BY DEF DiskInv
<1>2. /\ f \in Seq(Chunk) /\ WellFormed(f) /\ Len(f) % 3 = 0 /\ Len(f) \in Nat
      /\ Len(f) = Len(segments[current]) + Len(buffer) /\ safe % 3 = 0
    BY <1>1, PendingTypes DEF FileInv
<1>3. PICK n \in safe..Len(f) :
        /\ n = safe \/ f[n].part = "eol"
        /\ segments' = [segments EXCEPT ![current] = SubSeq(f, 1, n)]
        /\ safe' = n
    BY DEF Crash, Cut, Pending
<1>4. /\ buffer' = <<>> /\ current' = current /\ op' = None /\ logged' = FALSE
      /\ ackedLog' = ackedLog
    BY DEF Crash, Cut, ackVars
<1>5. /\ safe \in Nat /\ safe <= Len(segments[current]) /\ n \in Nat /\ n \in 0..Len(f)
      /\ safe \in 0..n /\ safe \in 0..Len(segments[current])
      /\ segments[current] \in Seq(Chunk) /\ buffer \in Seq(Chunk)
      /\ current = Len(segments) /\ Len(segments) \in Nat \ {0} /\ Len(segments) <= Padded
    BY <1>1, <1>2, <1>3, LogTypes DEF NamesFit
<1>6. n % 3 = 0
  <2>1. CASE n = safe
    BY <1>2, <2>1
  <2>2. CASE n # safe
    <3>1. n \in 1..Len(f)
      BY <1>5, <2>2
    <3> QED
      BY <1>2, <1>3, <2>2, <3>1 DEF WellFormed
  <2> QED
    BY <2>1, <2>2
<1> DEFINE g == SubSeq(f, 1, n)
<1> HIDE DEF f
<1>7. g \in Seq(Chunk) /\ Len(g) = n /\ WellFormed(g)
  <2>1. WellFormed(g)
    BY <1>2, <1>5, WellFormedPrefix
  <2>2. g \in Seq(Chunk) /\ Len(g) = n
    BY <1>2, <1>5
  <2> QED
    BY <2>1, <2>2
<1>8. /\ SubSeq(g, 1, safe) = SubSeq(f, 1, safe)
      /\ SubSeq(f, 1, safe) = SubSeq(segments[current], 1, safe)
  <2>1. SubSeq(g, 1, safe) = SubSeq(f, 1, safe)
    BY <1>2, <1>5, FrontOfFront
  <2>2. SubSeq(f, 1, safe) = SubSeq(segments[current], 1, safe)
    BY <1>5, FrontOfConcatenation DEF Pending, f
  <2> QED
    BY <2>1, <2>2
<1>9. segments' = [segments EXCEPT ![current] = g]
    BY <1>3
<1> HIDE DEF g
<1>10. /\ segments' \in Seq(Seq(Chunk)) /\ Len(segments') = Len(segments)
       /\ segments'[current] = g
       /\ \A s \in 1..Len(segments) : s # current => segments'[s] = segments[s]
    BY <1>1, <1>7, <1>9, LogTypes, SegmentChange
<1>11. Pending' = g
    BY <1>4, <1>7, <1>10, EmptyConcatenation DEF Pending
<1>12. FileInv'
  <2>1. \A s \in 1..Len(segments') : s # current' => WellFormed(segments'[s])
    BY <1>1, <1>4, <1>10 DEF FileInv
  <2> QED
    BY <1>3, <1>4, <1>6, <1>7, <1>11, <2>1 DEF FileInv
<1>13. Kept' = segments'
  <2> DEFINE new == segments'
  <2>1. new \in Seq(Seq(Chunk)) /\ current \in 1..Len(new) /\ n = Len(new[current])
    BY <1>5, <1>7, <1>10
  <2>2. Kept' = [new EXCEPT ![current] = SubSeq(new[current], 1, n)]
    BY <1>3, <1>4 DEF Kept
  <2> HIDE DEF new
  <2>3. Kept' = new
    BY <2>1, <2>2, WholeKept
  <2> QED
    BY <2>3 DEF new
<1>14. SameUpTo(Kept, segments', safe)
    BY <1>1, <1>5, <1>7, <1>8, <1>10, KeptTypes DEF SameUpTo
<1>15. Replayed(segments') \in Seq(Record)
    BY <1>5, <1>10, ReplayedTypes
<1>16. IsSubsequence(ackedLog, Replayed(segments'))
    BY <1>14, <1>15, AckedKept, CutReplays, SubsequencePrefix
<1>17. Promised' = ackedLog
    BY <1>4 DEF Promised
<1> QED
    BY <1>12, <1>13, <1>16, <1>17 DEF AckInv

\* A restart promises what it has replayed.
LEMMA RestartDisk ==
    ASSUME DiskInv, NamesFit, Restart
    PROVE  FileInv' /\ AckInv'
<1>1. TypeInv /\ FileInv /\ AckInv
    BY DEF DiskInv
<1>2. ~alive /\ op = None /\ buffer = <<>> /\ ~logged
    BY <1>1 DEF Restart, FileInv
<1>3. /\ segments \in Seq(Seq(Chunk)) /\ Len(segments) \in Nat \ {0} /\ Len(segments) <= Padded
      /\ current = Len(segments) /\ segments[current] \in Seq(Chunk)
    BY <1>1, LogTypes DEF NamesFit
<1>4. Latest(Len(segments)) = current
    BY <1>3, LatestIsLast
<1>5. /\ segments' = segments /\ buffer' = buffer /\ current' = current
      /\ safe' = Len(segments[current]) /\ op' = op /\ logged' = logged /\ alive'
      /\ ackedLog' = Replayed(segments)
    BY <1>4 DEF Restart, Reopen, opVars
<1>6. Pending = segments[current] /\ Pending' = Pending
    BY <1>2, <1>3, <1>5, EmptyConcatenation DEF Pending
<1>7. FileInv'
    BY <1>1, <1>2, <1>5, <1>6 DEF FileInv
<1>8. Kept' = segments
  <2>1. current \in 1..Len(segments)
    BY <1>3
  <2>2. [segments EXCEPT ![current] = SubSeq(segments[current], 1, Len(segments[current]))]
          = segments
    BY <1>3, <2>1, WholeKept
  <2> QED
    BY <1>5, <2>2 DEF Kept
<1>9. Promised' = Replayed(segments) /\ Replayed(segments) \in Seq(Record)
    BY <1>2, <1>3, <1>5, ReplayedTypes DEF Promised
<1> QED
    BY <1>7, <1>8, <1>9, SubsequenceSelf DEF AckInv

\* The other steps touch neither files nor promises.
LEMMA IdleDisk ==
    ASSUME DiskInv,
           UNCHANGED <<segments, current, buffer, safe, op, logged, alive, ackedLog>>
    PROVE  FileInv' /\ AckInv'
    BY DEF DiskInv, FileInv, AckInv, Pending, Kept, Promised

\* The argument about the disk.
LEMMA DiskInvHolds ==
    ASSUME ~TornTail
    PROVE  Spec /\ []NamesFit => []DiskInv
<1>1. Init => FileInv /\ AckInv
  <2> SUFFICES ASSUME Init PROVE FileInv /\ AckInv
    OBVIOUS
  <2>1. /\ segments = << <<>> >> /\ current = 1 /\ buffer = <<>> /\ safe = 0 /\ alive
        /\ op = None /\ ~logged /\ ackedLog = <<>>
    BY DEF Init, WALInit
  <2>2. Pending = <<>> /\ WellFormed(<<>>) /\ Len(<<>>) % 3 = 0 /\ 0 % 3 = 0
    <3>1. <<>> \in Seq(Chunk) /\ segments[1] = <<>>
      BY <2>1
    <3> QED
      BY <2>1, <3>1, EmptyConcatenation DEF Pending, WellFormed
  <2>3. FileInv
    BY <2>1, <2>2 DEF FileInv
  <2>4. AckInv
    <3>1. Promised = <<>>
      BY <2>1 DEF Promised
    <3>2. IsSubsequence(<<>>, Replayed(Kept))
      <4> DEFINE t == Replayed(Kept)
                 at == [i \in 1..0 |-> 1]
      <4>1. at \in [1..0 -> 1..Len(t)] /\ \A i \in 1..0 : FALSE
        OBVIOUS
      <4>2. Len(<<>>) = 0
        OBVIOUS
      <4> HIDE DEF t, at
      <4>3. IsSubsequence(<<>>, t)
        BY <4>1, <4>2 DEF IsSubsequence
      <4> QED
        BY <4>3 DEF t
    <3> QED
      BY <3>1, <3>2 DEF AckInv
  <2> QED
    BY <2>3, <2>4
<1>2. ASSUME TypeInv, FileInv, AckInv, NamesFit, NamesFit', [Next]_vars
      PROVE  FileInv' /\ AckInv'
  <2>0. DiskInv
    BY <1>2 DEF DiskInv
  <2>1. ASSUME NEW rec \in Record, Begin(rec) PROVE FileInv' /\ AckInv'
    BY <2>0, <2>1, BeginDisk
  <2>2. CASE Logged
    BY <1>2, <2>0, <2>2, LoggedDisk
  <2>3. CASE LogFails
    BY <2>0, <2>3, LogFailsDisk
  <2>4. CASE RotateLog
    BY <1>2, <2>0, <2>4, RotateDisk
  <2>5. CASE RotateFails
    BY <1>2, <2>0, <2>5, RotateFailsDisk
  <2>6. CASE Finish
    BY <2>0, <2>6, FinishDisk
  <2>7. ASSUME NEW k \in Key, EvictOnRead(k) PROVE FileInv' /\ AckInv'
    BY <2>0, <2>7, IdleDisk DEF EvictOnRead, walVars, opVars, envVars, ackVars
  <2>8. CASE Cleanup
    BY <2>0, <2>8, IdleDisk DEF Cleanup, walVars, opVars, envVars, ackVars
  <2>9. CASE Tick
    BY <2>0, <2>9, IdleDisk DEF Tick, walVars, opVars, ackVars
  <2>10. CASE Crash
    BY <1>2, <2>0, <2>10, CrashDisk
  <2>11. CASE Restart
    BY <1>2, <2>0, <2>11, RestartDisk
  <2>12. CASE UNCHANGED vars
    BY <2>0, <2>12, IdleDisk DEF vars
  <2> QED
    BY <1>2, <2>1, <2>2, <2>3, <2>4, <2>5, <2>6, <2>7, <2>8, <2>9, <2>10, <2>11, <2>12
    DEF Next
<1>3. TypeInv /\ FileInv /\ AckInv <=> DiskInv
    BY DEF DiskInv
<1> QED
    BY <1>1, <1>2, <1>3, TypeInvHolds, PTL DEF Spec

\* A mutation that returned to its caller is never lost, neither to a crash at any
\* point nor to later writes that fail, and what a restart replays has it in the
\* order of the returns (wal.py append: flush and fsync before it returns).  A
\* record that a crash cut in two would take the next one with it.
THEOREM AckedSurviveHolds ==
    ASSUME ~TornTail
    PROVE  Spec /\ []NamesFit => []AckedSurvive
<1>1. DiskInv /\ NamesFit => AckedSurvive
  <2> SUFFICES ASSUME DiskInv, NamesFit PROVE IsSubsequence(ackedLog, Replayed(segments))
    BY DEF AckedSurvive
  <2>1. TypeInv /\ FileInv
    BY DEF DiskInv
  <2>2. /\ segments \in Seq(Seq(Chunk)) /\ Len(segments) \in Nat \ {0}
        /\ Len(segments) <= Padded /\ current = Len(segments)
        /\ safe \in 0..Len(segments[current])
    BY <2>1, LogTypes DEF NamesFit
  <2>3. SameUpTo(Kept, segments, safe)
    BY <2>1, <2>2, KeptTypes, PendingTypes DEF SameUpTo
  <2>4. Replayed(segments) \in Seq(Record)
    BY <2>2, ReplayedTypes
  <2> QED
    BY <2>3, <2>4, AckedKept, CutReplays, SubsequencePrefix
<1> QED
    BY <1>1, DiskInvHolds, PTL

----------------------------------------------------------------------------
(* The files implement the log of LoggedMap *)

\* Without failing writes the fsynced part is all of the file, the buffer has the
\* record of the mutation that is not logged yet, and mutations bound the log.
PlainInv ==
    /\ safe = Len(segments[current])
    /\ buffer = IF op # None /\ ~logged THEN Line(op) ELSE <<>>
    /\ expiry = NoExpiry
    /\ Len(Replayed(segments)) <= issued
    /\ op # None /\ ~logged => Len(Replayed(segments)) < issued

RefInv == DiskInv /\ PlainInv

\* What flushing the buffer does to what a restart would replay.
LEMMA FlushReplays ==
    ASSUME RefInv, NamesFit, op # None, ~logged
    PROVE  Replayed([segments EXCEPT ![current] = Pending]) = Append(Replayed(segments), op)
<1> DEFINE f == Pending
           new == [segments EXCEPT ![current] = f]
<1>1. TypeInv /\ FileInv /\ safe = Len(segments[current]) /\ buffer = Line(op) /\ op \in Record
    BY DEF RefInv, PlainInv, DiskInv, TypeInv, TypeOK
<1>2. /\ f \in Seq(Chunk) /\ WellFormed(f) /\ Len(f) % 3 = 0 /\ Len(f) \in Nat
      /\ Len(f) = safe + 3 /\ safe % 3 = 0 /\ f[Len(f) - 1].rec = op
    BY <1>1, PendingTypes, LineTypes DEF FileInv
<1>3. /\ segments \in Seq(Seq(Chunk)) /\ Len(segments) \in Nat \ {0}
      /\ Len(segments) <= Padded /\ current = Len(segments) /\ current \in 1..Len(segments)
      /\ segments[current] \in Seq(Chunk) /\ buffer \in Seq(Chunk)
      /\ safe \in Nat /\ safe \in 0..Len(f) /\ safe \in 0..Len(segments[current])
    BY <1>1, <1>2, LogTypes DEF NamesFit
<1>4. SubSeq(f, 1, safe) = segments[current]
  <2>1. SubSeq(f, 1, safe) = SubSeq(segments[current], 1, safe)
    BY <1>3, FrontOfConcatenation DEF Pending
  <2> QED
    BY <1>1, <1>3, <2>1, EmptyConcatenation
<1> HIDE DEF f
<1>5. /\ new \in Seq(Seq(Chunk)) /\ Len(new) = Len(segments) /\ new[current] = f
      /\ \A s \in 1..Len(segments) : s # current => new[s] = segments[s]
    BY <1>2, <1>3, SegmentChange
<1> HIDE DEF new
<1>6. SameUpTo(segments, new, safe)
    BY <1>2, <1>3, <1>4, <1>5 DEF SameUpTo
<1> DEFINE r == Replayed(new)
           l == Replayed(segments)
<1>7. /\ r \in Seq(Record) /\ Len(r) = Len(l) + 1 /\ r[Len(r)] = op
      /\ IsPrefixOf(l, r)
  <2>1. new[Len(new)] = f /\ safe + 3 <= Len(f)
    BY <1>2, <1>3, <1>5
  <2>2. IsPrefixOf(l, r)
    BY <1>6, CutReplays
  <2>3. /\ r \in Seq(Record) /\ r[Len(r)] = f[Len(f) - 1].rec
        /\ safe + 3 = Len(f) /\ safe % 3 = 0 => Len(r) = Len(l) + 1
    BY <1>2, <1>6, <2>1, LastReplayed
  <2> QED
    BY <1>2, <2>2, <2>3
<1>8. l \in Seq(Record)
    BY <1>3, ReplayedTypes
<1> HIDE DEF r, l
<1>9. r = Append(l, op)
  <2>1. Len(l) \in Nat /\ \A i \in 1..Len(l) : l[i] = r[i]
    BY <1>7, <1>8 DEF IsPrefixOf
  <2>2. /\ Append(l, op) \in Seq(Record) /\ Len(Append(l, op)) = Len(l) + 1
        /\ Append(l, op)[Len(l) + 1] = op
        /\ \A i \in 1..Len(l) : Append(l, op)[i] = l[i]
    BY <1>1, <1>8
  <2>3. \A i \in 1..Len(r) : r[i] = Append(l, op)[i]
    BY <1>7, <2>1, <2>2
  <2> QED
    BY <1>7, <2>2, <2>3, SeqEqual
<1> QED
    BY <1>9 DEF r, l, new, f

\* A crash leaves the files as they are or flushes them.
LEMMA CrashFiles ==
    ASSUME RefInv, ~TornTail, Crash
    PROVE  /\ safe' = Len(segments'[current']) /\ buffer' = <<>>
           /\ \/ segments' = segments
              \/ op # None /\ ~logged /\ segments' = [segments EXCEPT ![current] = Pending]
<1> DEFINE f == Pending
<1>1. TypeInv /\ FileInv /\ safe = Len(segments[current])
    BY DEF RefInv, PlainInv, DiskInv
<1>2. /\ f \in Seq(Chunk) /\ WellFormed(f) /\ Len(f) % 3 = 0 /\ Len(f) \in Nat
      /\ Len(f) = safe + Len(buffer) /\ safe % 3 = 0
    BY <1>1, PendingTypes DEF FileInv
<1>3. PICK n \in safe..Len(f) :
        /\ n = safe \/ f[n].part = "eol"
        /\ segments' = [segments EXCEPT ![current] = SubSeq(f, 1, n)]
        /\ safe' = n
    BY DEF Crash, Cut, Pending
<1>4. buffer' = <<>> /\ current' = current
    BY DEF Crash, Cut
<1>5. /\ segments \in Seq(Seq(Chunk)) /\ current \in 1..Len(segments)
      /\ segments[current] \in Seq(Chunk) /\ buffer \in Seq(Chunk)
      /\ safe \in Nat /\ safe \in 0..Len(segments[current]) /\ n \in Nat /\ n \in 0..Len(f)
    BY <1>1, <1>2, <1>3, LogTypes
<1> DEFINE g == SubSeq(f, 1, n)
<1>6. segments' = [segments EXCEPT ![current] = g]
    BY <1>3
<1>7. n = safe => g = segments[current]
    BY <1>1, <1>5, FrontOfConcatenation, EmptyConcatenation DEF Pending
<1> HIDE DEF f
<1>8. g \in Seq(Chunk) /\ Len(g) = n
    BY <1>2, <1>5, FrontTypes
<1>9. n = Len(f) => g = f
    BY <1>2, EmptyConcatenation
<1> HIDE DEF g
<1>10. safe' = Len(segments'[current'])
  <2>1. segments'[current] = g
    BY <1>5, <1>6, <1>8, SegmentChange
  <2> QED
    BY <1>3, <1>4, <1>8, <2>1
<1>11. CASE n = safe
  <2>1. segments' = segments
    BY <1>5, <1>6, <1>7, <1>11
  <2> QED
    BY <1>4, <1>10, <2>1
<1>12. CASE n # safe
  <2>1. n \in 1..Len(f) /\ safe < n
    BY <1>5, <1>12
  <2>2. n % 3 = 0
    BY <1>2, <1>3, <1>12, <2>1 DEF WellFormed
  <2>3. Len(buffer) # 0
    <3>1. ASSUME Len(buffer) = 0 PROVE FALSE
      <4>1. Len(f) = safe
        BY <1>2, <1>5, <3>1
      <4> QED
        BY <1>5, <2>1, <4>1
    <3> QED
      BY <3>1
  <2>4. op # None /\ ~logged /\ Len(buffer) = 3
    <3>1. buffer = IF op # None /\ ~logged THEN Line(op) ELSE <<>>
      BY DEF RefInv, PlainInv
    <3>2. op # None /\ ~logged
      BY <2>3, <3>1
    <3> QED
      BY <3>1, <3>2 DEF Line
  <2>5. n = Len(f)
    <3>1. n <= safe + 3 /\ Len(f) = safe + 3
      BY <1>2, <1>5, <2>4
    <3> QED
      BY <1>2, <1>5, <2>1, <2>2, <3>1, NextThird
  <2>6. segments' = [segments EXCEPT ![current] = Pending]
    BY <1>6, <1>9, <2>5 DEF f
  <2> QED
    BY <1>4, <1>10, <2>4, <2>6
<1> QED
    BY <1>11, <1>12

\* The engine's own L has the same records and the same replay.
LEMMA SameAsLoggedMap ==
    /\ L!Record = Record /\ L!EmptyMap = EmptyMap
    /\ \A m, r : L!Apply(m, r) = Apply(m, r)
    /\ \A l : L!Recovered(l) = Recovered(l)
<1>1. L!Record = Record
    BY DEF Record, L!Record
<1>2. L!EmptyMap = EmptyMap
    BY DEF EmptyMap, L!EmptyMap
<1>3. \A m, r : L!Apply(m, r) = Apply(m, r)
    BY <1>2 DEF Apply, L!Apply
<1>4. \A r, k : L!Touches(r, k) = Touches(r, k)
    BY DEF Touches, L!Touches
<1>5. \A l, k : L!Hits(l, k) = Hits(l, k)
    BY <1>4 DEF Hits, L!Hits
<1>6. ASSUME NEW l PROVE L!Recovered(l) = Recovered(l)
  <2> DEFINE latest(H) == CHOOSE i \in H : \A j \in H : j <= i
  <2>1. ASSUME NEW k \in Key PROVE L!Recovered(l)[k] = Recovered(l)[k]
    <3>1. L!Recovered(l)[k] = IF L!Hits(l, k) = {} THEN None
                              ELSE L!Apply(L!EmptyMap, l[latest(L!Hits(l, k))])[k]
      BY DEF L!Recovered
    <3>2. Recovered(l)[k] = IF Hits(l, k) = {} THEN None
                            ELSE Apply(EmptyMap, l[latest(Hits(l, k))])[k]
      BY DEF Recovered
    <3> HIDE DEF latest
    <3> QED
      BY <1>2, <1>3, <1>5, <3>1, <3>2
  <2> QED
    BY <2>1 DEF Recovered, L!Recovered
<1> QED
    BY <1>1, <1>2, <1>3, <1>6

\* Every operation is a step of LoggedMap or leaves it alone, and keeps PlainInv.
RefStep == PlainInv' /\ [L!Next]_(L!vars)

\* The log has as many records as it has lines.
LEMMA LogLength ==
    ASSUME RefInv, NamesFit
    PROVE  /\ Replayed(segments) \in Seq(Record) /\ Len(Replayed(segments)) \in Nat
           /\ issued \in Nat /\ Len(Replayed(segments)) <= issued
           /\ (op # None /\ ~logged => Len(Replayed(segments)) + 1 <= issued)
<1>1. Replayed(segments) \in Seq(Record) /\ issued \in Nat
    BY LogTypes, ReplayedTypes DEF RefInv, DiskInv, NamesFit, TypeInv, TypeOK
<1>2. Len(Replayed(segments)) \in Nat
    BY <1>1
<1> QED
    BY <1>1, <1>2 DEF RefInv, PlainInv

\* A step that buffers a record leaves the log as it is.
LEMMA BeginRefines ==
    ASSUME RefInv, NamesFit, NEW rec \in Record, Begin(rec)
    PROVE  RefStep
<1>1. /\ segments' = segments /\ current' = current /\ safe' = safe /\ op' = rec
      /\ logged' = logged /\ alive' = alive /\ alive /\ store' = store /\ expiry' = expiry
      /\ buffer' = buffer \o Line(rec) /\ op = None /\ issued' = issued + 1
      /\ issued < MaxOps /\ (rec.op = "DELETE" => store[rec.key] # None)
    BY DEF Begin, Write, memVars
<1>2. ~logged /\ buffer = <<>> /\ rec # None
    BY <1>1, NoneAssumption DEF RefInv, PlainInv, DiskInv, FileInv
<1>3. buffer' = Line(rec)
    BY <1>1, <1>2 DEF Line
<1>4. /\ Len(Replayed(segments)) \in Nat /\ issued \in Nat
      /\ Len(Replayed(segments)) <= issued /\ MaxOps \in Nat
    BY LogLength, EngineAssumption
<1>5. Len(Replayed(segments)) < MaxOps /\ Len(Replayed(segments)) < issued'
    BY <1>1, <1>4
<1>6. PlainInv'
    BY <1>1, <1>2, <1>3, <1>4, <1>5 DEF RefInv, PlainInv
<1>7. L!Begin(rec)
    BY <1>1, <1>5 DEF L!Begin
<1>8. rec \in L!Record
    BY SameAsLoggedMap
<1> QED
    BY <1>6, <1>7, <1>8 DEF RefStep, L!Next

\* The fsync appends it.
LEMMA LoggedRefines ==
    ASSUME RefInv, NamesFit, Logged
    PROVE  RefStep
<1>1. /\ segments' = [segments EXCEPT ![current] = Pending] /\ current' = current
      /\ buffer' = <<>> /\ op' = op /\ logged' = TRUE /\ ~logged /\ op # None
      /\ safe' = Len(segments[current]) + Len(buffer)
      /\ UNCHANGED <<alive, store, expiry, issued>>
    BY DEF Logged, Sync, Pending, memVars, envVars
<1>2. TypeInv /\ FileInv /\ op \in Record
    BY <1>1 DEF RefInv, DiskInv, TypeInv, TypeOK
<1>3. Replayed(segments') = Append(Replayed(segments), op)
    BY <1>1, FlushReplays
<1>4. Len(Replayed(segments')) <= issued
  <2>1. Len(Append(Replayed(segments), op)) = Len(Replayed(segments)) + 1
    BY <1>2, LogLength
  <2> QED
    BY <1>1, <1>3, <2>1, LogLength
<1>5. safe' = Len(segments'[current'])
  <2>1. segments'[current] = Pending
    BY <1>1, <1>2, LogTypes, PendingTypes, SegmentChange
  <2> QED
    BY <1>1, <1>2, <2>1, PendingTypes
<1>6. PlainInv'
    BY <1>1, <1>4, <1>5 DEF RefInv, PlainInv
<1>7. L!Logged
    BY <1>1, <1>3 DEF L!Logged
<1> QED
    BY <1>6, <1>7 DEF RefStep, L!Next

\* A rotation is invisible.
LEMMA RotateRefines ==
    ASSUME RefInv, NamesFit', RotateLog
    PROVE  RefStep
<1>1. /\ segments' = Append(segments, <<>>) /\ current' = Len(segments) + 1 /\ safe' = 0
      /\ buffer' = buffer /\ logged /\ UNCHANGED <<op, logged, alive, store, expiry, issued>>
    BY DEF RotateLog, Rotate, opVars, memVars, envVars
<1>2. DiskInv
    BY DEF RefInv
<1>3. Replayed(segments') = Replayed(segments)
    BY <1>2, RotateDisk
<1>4. safe' = Len(segments'[current'])
  <2>1. segments \in Seq(Seq(Chunk))
    BY <1>2, LogTypes DEF DiskInv
  <2>2. segments'[current'] = <<>>
    BY <1>1, <2>1, RotatedLines
  <2> QED
    BY <1>1, <2>2
<1>5. PlainInv'
    BY <1>1, <1>3, <1>4 DEF RefInv, PlainInv
<1>6. UNCHANGED L!vars
    BY <1>1, <1>3 DEF L!vars
<1> QED
    BY <1>5, <1>6 DEF RefStep

\* Without TTLs the dict follows the records as the abstract store does.
LEMMA FinishRefines ==
    ASSUME RefInv, TTL = {}, Finish
    PROVE  RefStep
<1>1. TypeInv /\ op \in Record /\ store \in Map
    BY DEF Finish, RefInv, DiskInv, TypeInv, TypeOK
<1>2. /\ UNCHANGED <<segments, current, opened, buffer, safe, alive, issued>>
      /\ op # None /\ logged /\ op' = None /\ logged' = FALSE /\ Update(op)
    BY DEF Finish, walVars, envVars
<1>3. expiry = NoExpiry
    BY DEF RefInv, PlainInv
<1>4. store' = Apply(store, op) /\ expiry' = NoExpiry
  <2>1. CASE op.op = "PUT"
    <3>1. op.ttl = None
      BY <1>1, <2>1 DEF Record
    <3> QED
      BY <1>2, <1>3, <2>1, <3>1 DEF Update, NewExpiry, Apply, NoExpiry
  <2>2. CASE op.op = "DELETE"
    BY <1>1, <1>2, <1>3, <2>2 DEF Update, Drop, Apply, NoExpiry, Map
  <2>3. CASE op.op = "FLUSH"
    BY <1>1, <1>2, <1>3, <2>3 DEF Update, Drop, Apply, NoExpiry, EmptyMap
  <2> QED
    BY <1>1, <2>1, <2>2, <2>3 DEF Record
<1>5. PlainInv'
    BY <1>2, <1>4 DEF RefInv, PlainInv
<1>6. L!Finish
    BY <1>2, <1>4, SameAsLoggedMap DEF L!Finish
<1> QED
    BY <1>5, <1>6 DEF RefStep, L!Next

\* A crash keeps the log, or the record in progress besides.
LEMMA CrashRefines ==
    ASSUME RefInv, NamesFit, ~TornTail, Crash
    PROVE  RefStep
<1>1. /\ alive /\ alive' = FALSE /\ store' = EmptyMap /\ expiry' = NoExpiry
      /\ op' = None /\ logged' = FALSE /\ issued' = issued
    BY DEF Crash
<1>2. /\ safe' = Len(segments'[current']) /\ buffer' = <<>>
      /\ \/ segments' = segments
         \/ op # None /\ ~logged /\ segments' = [segments EXCEPT ![current] = Pending]
    BY CrashFiles
<1>3. \/ Replayed(segments') = Replayed(segments)
      \/ op # None /\ ~logged /\ Replayed(segments') = Append(Replayed(segments), op)
    BY <1>2, FlushReplays
<1>4. Len(Replayed(segments')) <= issued
  <2>1. CASE Replayed(segments') = Replayed(segments)
    BY <2>1, LogLength
  <2>2. CASE op # None /\ ~logged /\ Replayed(segments') = Append(Replayed(segments), op)
    <3>1. op \in Record
      BY <2>2 DEF RefInv, DiskInv, TypeInv, TypeOK
    <3>2. Len(Append(Replayed(segments), op)) = Len(Replayed(segments)) + 1
      BY <3>1, LogLength
    <3> QED
      BY <2>2, <3>2, LogLength
  <2> QED
    BY <1>3, <2>1, <2>2
<1>5. PlainInv'
    BY <1>1, <1>2, <1>4 DEF PlainInv
<1>6. L!Crash
    BY <1>1, <1>3, SameAsLoggedMap DEF L!Crash
<1> QED
    BY <1>5, <1>6 DEF RefStep, L!Next

\* A restart recovers the log.
LEMMA RestartRefines ==
    ASSUME RefInv, NamesFit, Restart
    PROVE  RefStep
<1>1. TypeInv /\ FileInv
    BY DEF RefInv, DiskInv
<1>2. Latest(Len(segments)) = current
  <2>1. Len(segments) \in Nat \ {0} /\ Len(segments) <= Padded /\ current = Len(segments)
    BY <1>1, LogTypes DEF NamesFit
  <2> QED
    BY <2>1, LatestIsLast
<1>3. /\ ~alive /\ alive' = TRUE /\ segments' = segments /\ buffer' = buffer
      /\ current' = current /\ safe' = Len(segments[current])
      /\ UNCHANGED <<op, logged, issued>> /\ expiry' = NoExpiry
      /\ store' = Recovered(Replayed(segments))
    BY <1>2 DEF Restart, Reopen, opVars
<1>4. PlainInv'
    BY <1>3 DEF RefInv, PlainInv
<1>5. L!Restart
    BY <1>3, SameAsLoggedMap DEF L!Restart
<1> QED
    BY <1>4, <1>5 DEF RefStep, L!Next

\* A step that leaves all this as it is is invisible.
LEMMA OtherRefines ==
    ASSUME RefInv, UNCHANGED <<segments, current, buffer, safe, op, logged, alive, issued,
                               store, expiry>>
    PROVE  RefStep
    BY DEF RefStep, RefInv, PlainInv, L!vars

\* Every step of the engine is one of LoggedMap.
LEMMA StepRefines ==
    ASSUME ~TornTail, ~IoMayFail, TTL = {}, RefInv, NamesFit, NamesFit', [Next]_vars
    PROVE  RefStep
<1>1. ASSUME NEW rec \in Record, Begin(rec) PROVE RefStep
    BY <1>1, BeginRefines
<1>2. CASE Logged
    BY <1>2, LoggedRefines
<1>3. CASE LogFails \/ RotateFails
    BY <1>3 DEF LogFails, RotateFails
<1>4. CASE RotateLog
    BY <1>4, RotateRefines
<1>5. CASE Finish
    BY <1>5, FinishRefines
<1>6. \A k \in Key : expiry[k] = None
    BY DEF RefInv, PlainInv, NoExpiry
<1>7. ASSUME NEW k \in Key, EvictOnRead(k) PROVE RefStep
    BY <1>6, <1>7 DEF EvictOnRead, IsExpired
<1>8. CASE Cleanup
    BY <1>6, <1>8 DEF Cleanup
<1>9. CASE Tick
    BY <1>9, OtherRefines DEF Tick, walVars, memVars, opVars
<1>10. CASE Crash
    BY <1>10, CrashRefines
<1>11. CASE Restart
    BY <1>11, RestartRefines
<1>12. CASE UNCHANGED vars
    BY <1>12, OtherRefines DEF vars
<1> QED
    BY <1>1, <1>2, <1>3, <1>4, <1>5, <1>7, <1>8, <1>9, <1>10, <1>11, <1>12 DEF Next

\* A fresh directory is an empty log.
LEMMA RefInit ==
    ASSUME Init
    PROVE  PlainInv /\ L!Init
<1>1. /\ segments = << <<>> >> /\ current = 1 /\ buffer = <<>> /\ safe = 0
      /\ op = None /\ ~logged /\ expiry = NoExpiry /\ issued = 0 /\ alive = TRUE
      /\ store = EmptyMap /\ logged = FALSE
    BY DEF Init, WALInit
<1>2. segments[1] = <<>> /\ Len(segments) = 1
    BY <1>1
<1>3. Lines(segments) = {}
  <2>1. \A p : p \notin Lines(segments)
    BY <1>2, LineOf
  <2> QED
    BY <2>1
<1>4. Cardinality(Lines(segments)) = 0
    BY <1>3, FS_EmptySet
<1>5. Replayed(segments) = <<>>
    BY <1>4 DEF Replayed
<1>6. PlainInv
    BY <1>1, <1>2, <1>5 DEF PlainInv
<1>7. L!Init
    BY <1>1, <1>5, SameAsLoggedMap DEF L!Init
<1> QED
    BY <1>6, <1>7

\* The segments, the buffer and the names are a faithful log: every step on them
\* appends one record to what a restart would replay, or leaves it as it is
\* (wal.py append, _rotate, replay; engine.py holds the lock from write to update).
\* The abstract engine has no TTLs and no write that fails.
THEOREM LoggedMapImplemented ==
    ASSUME ~TornTail, ~IoMayFail, TTL = {}
    PROVE  Spec /\ []NamesFit => ImplementsLoggedMap
<1>1. Init => PlainInv /\ L!Init
    BY RefInit
<1>2. DiskInv /\ PlainInv /\ NamesFit /\ NamesFit' /\ [Next]_vars
        => PlainInv' /\ [L!Next]_(L!vars)
    BY StepRefines DEF RefInv, RefStep
<1> QED
    BY <1>1, <1>2, DiskInvHolds, PTL DEF Spec, ImplementsLoggedMap, L!Spec

\* The two instances of LoggedMap are one specification.
LEMMA SameLoggedMap ==
    /\ L!Init => LP!Init
    /\ [L!Next]_(L!vars) => [LP!Next]_(LP!vars)
<1>1. L!Init => LP!Init
    BY SameRecords, SameAsLoggedMap DEF L!Init, LP!Init
<1>2. \A rec : L!Begin(rec) => LP!Begin(rec)
    BY DEF L!Begin, LP!Begin
<1>3. (L!Logged => LP!Logged) /\ (L!Crash => LP!Crash)
    BY SameRecords, SameAsLoggedMap DEF L!Logged, LP!Logged, L!Crash, LP!Crash
<1>4. (L!Finish => LP!Finish) /\ (L!Restart => LP!Restart)
    BY SameRecords, SameAsLoggedMap DEF L!Finish, LP!Finish, L!Restart, LP!Restart
<1>5. UNCHANGED L!vars => UNCHANGED LP!vars
    BY DEF L!vars, LP!vars
<1> QED
    BY <1>1, <1>2, <1>3, <1>4, <1>5, SameRecords, SameAsLoggedMap DEF L!Next, LP!Next

\* The engine over its files is a durable map: no mutation that returned is lost or
\* undone by a crash, and one in progress takes effect once and as a whole, or not at
\* all (README.md ADR-2).
THEOREM EngineIsDurableMap ==
    ASSUME ~TornTail, ~IoMayFail, TTL = {}
    PROVE  Spec /\ []NamesFit => LP!ImplementsDurableMap
<1>1. L!Init => LP!Init
    BY SameLoggedMap
<1>2. [L!Next]_(L!vars) => [LP!Next]_(LP!vars)
    BY SameLoggedMap
<1>3. LP!Spec => LP!ImplementsDurableMap
    BY LP!DurableMapImplemented, LoggedMapAssumed
<1> QED
    BY <1>1, <1>2, <1>3, LoggedMapImplemented, PTL DEF ImplementsLoggedMap, L!Spec, LP!Spec
=============================================================================
