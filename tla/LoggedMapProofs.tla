-------------------------- MODULE LoggedMapProofs --------------------------
(***************************************************************************)
(* LoggedMap implements DurableMap, for all sets of keys and values and    *)
(* logs of any length.  The argument rests on one fact about replay        *)
(* (RecoveredStep): logging a record changes what a restart recovers       *)
(* exactly as the record changes a map.  It makes MemoryIsLog inductive,   *)
(* and MemoryIsLog says that store and log agree whenever the content of   *)
(* the abstract map passes from one to the other.                          *)
(***************************************************************************)
EXTENDS LoggedMap, Positions, FiniteSetTheorems, TLAPS

\* Every record is of one of three kinds, and the key it has is a key.
LEMMA RecordKinds ==
    ASSUME NEW rec \in Record
    PROVE  \/ rec.op = "PUT" /\ rec.key \in Key /\ rec.value \in Value
           \/ rec.op = "DELETE" /\ rec.key \in Key
           \/ rec.op = "FLUSH"
    BY DEF Record

\* An empty log recovers nothing.
LEMMA RecoveredEmpty == Recovered(<<>>) = EmptyMap
    BY DEF Recovered, Hits, EmptyMap

\* A record makes a map of a map.
LEMMA ApplyTypes ==
    ASSUME NEW m \in Map, NEW rec \in Record
    PROVE  Apply(m, rec) \in Map
    BY RecordKinds DEF Map, Apply, EmptyMap

\* What a record does to a key it touches does not depend on the map; a key it
\* does not touch keeps its value.
LEMMA ApplyAt ==
    ASSUME NEW m \in Map, NEW rec \in Record, NEW k \in Key
    PROVE  /\ Touches(rec, k) => Apply(m, rec)[k] = Apply(EmptyMap, rec)[k]
           /\ ~Touches(rec, k) => Apply(m, rec)[k] = m[k]
    BY RecordKinds DEF Map, Apply, EmptyMap, Touches

\* Recovered looks at the last record that touches the key.
LEMMA RecoveredAt ==
    ASSUME NEW l \in Seq(Record), NEW k \in Key
    PROVE  /\ Hits(l, k) = {} => Recovered(l)[k] = None
           /\ \A i \in Hits(l, k) : (\A j \in Hits(l, k) : j <= i)
                 => Recovered(l)[k] = Apply(EmptyMap, l[i])[k]
<1>1. ASSUME NEW i \in Hits(l, k), \A j \in Hits(l, k) : j <= i
      PROVE  Recovered(l)[k] = Apply(EmptyMap, l[i])[k]
  <2> DEFINE last == CHOOSE x \in Hits(l, k) : \A j \in Hits(l, k) : j <= x
  <2>1. last \in Hits(l, k) /\ \A j \in Hits(l, k) : j <= last
    BY <1>1
  <2>2. last = i
    BY <1>1, <2>1 DEF Hits
  <2>3. Recovered(l)[k] = Apply(EmptyMap, l[last])[k]
    BY <1>1 DEF Recovered
  <2> QED
    BY <2>2, <2>3
<1> QED
    BY <1>1 DEF Recovered

\* A replayed log is a map.
LEMMA RecoveredTypes ==
    ASSUME NEW l \in Seq(Record)
    PROVE  Recovered(l) \in Map
<1>1. EmptyMap \in Map
    BY DEF EmptyMap, Map
<1>2. ASSUME NEW k \in Key PROVE Recovered(l)[k] \in Value \cup {None}
  <2>1. CASE Hits(l, k) = {}
    BY <2>1, RecoveredAt
  <2>2. CASE Hits(l, k) # {}
    <3>1. Hits(l, k) \in SUBSET (1..Len(l)) /\ Len(l) \in Nat
      BY DEF Hits
    <3>2. PICK i \in Hits(l, k) : \A j \in Hits(l, k) : j <= i
      BY <2>2, <3>1, LastPosition
    <3>3. l[i] \in Record
      BY <3>1
    <3>4. Apply(EmptyMap, l[i]) \in Map
      BY <1>1, <3>3, ApplyTypes
    <3> QED
      BY <3>2, <3>4, RecoveredAt DEF Map
  <2> QED
    BY <2>1, <2>2
<1> QED
    BY <1>2 DEF Recovered, Map

\* Logging a record changes what a restart recovers as the record changes a map
\* (wal.py: replay is a loop over _apply).
THEOREM RecoveredStep ==
    ASSUME NEW l \in Seq(Record), NEW rec \in Record
    PROVE  Recovered(Append(l, rec)) = Apply(Recovered(l), rec)
<1> DEFINE l2 == Append(l, rec)
<1>1. /\ l2 \in Seq(Record) /\ Len(l2) = Len(l) + 1 /\ Len(l) \in Nat
      /\ l2[Len(l) + 1] = rec /\ \A i \in 1..Len(l) : l2[i] = l[i]
    OBVIOUS
<1>2. Recovered(l) \in Map /\ Recovered(l2) \in Map
    BY <1>1, RecoveredTypes
<1> HIDE DEF l2
<1>3. ASSUME NEW k \in Key PROVE Recovered(l2)[k] = Apply(Recovered(l), rec)[k]
  <2>1. CASE Touches(rec, k)
    <3>1. Len(l) + 1 \in Hits(l2, k) /\ \A j \in Hits(l2, k) : j <= Len(l) + 1
      BY <1>1, <2>1 DEF Hits
    <3>2. Recovered(l2)[k] = Apply(EmptyMap, rec)[k]
      BY <1>1, <3>1, RecoveredAt
    <3> QED
      BY <1>2, <2>1, <3>2, ApplyAt
  <2>2. CASE ~Touches(rec, k)
    <3>1. Hits(l2, k) = Hits(l, k)
      BY <1>1, <2>2 DEF Hits
    <3>2. CASE Hits(l, k) = {}
      BY <1>1, <1>2, <2>2, <3>1, <3>2, RecoveredAt, ApplyAt
    <3>3. CASE Hits(l, k) # {}
      <4>1. Hits(l, k) \in SUBSET (1..Len(l))
        BY DEF Hits
      <4>2. PICK i \in Hits(l, k) : \A j \in Hits(l, k) : j <= i
        BY <1>1, <3>3, <4>1, LastPosition
      <4>3. l2[i] = l[i]
        BY <1>1, <4>1
      <4>4. Recovered(l2)[k] = Recovered(l)[k]
        BY <1>1, <3>1, <4>2, <4>3, RecoveredAt
      <4> QED
        BY <1>2, <2>2, <4>4, ApplyAt
    <3> QED
      BY <3>2, <3>3
  <2> QED
    BY <2>1, <2>2
<1>4. Apply(Recovered(l), rec) \in Map
    BY <1>2, ApplyTypes
<1> QED
    BY <1>2, <1>3, <1>4 DEF Map, l2

----------------------------------------------------------------------------
\* Memory and log agree (engine.py put: "WAL write happens before in-memory
\* update"), whatever was stored, deleted and flushed and wherever it crashed.
THEOREM MemoryIsLogHolds == Spec => [](TypeOK /\ MemoryIsLog)
<1>1. Init => TypeOK /\ MemoryIsLog
  <2>1. EmptyMap \in Map /\ <<>> \in Seq(Record)
    BY DEF EmptyMap, Map
  <2>2. Init => TypeOK
    <3>1. ASSUME Init PROVE log \in Seq(Record) /\ store \in Map
      BY <2>1, <3>1 DEF Init
    <3> QED
      BY <3>1 DEF Init, TypeOK
  <2>3. Init => MemoryIsLog
    BY RecoveredEmpty DEF Init, MemoryIsLog
  <2> QED
    BY <2>2, <2>3
<1>2. ASSUME TypeOK, MemoryIsLog, [Next]_vars PROVE TypeOK' /\ MemoryIsLog'
  <2> USE <1>2 DEF TypeOK, MemoryIsLog
  <2>0. EmptyMap \in Map /\ None \notin Record
    BY NoneAssumption DEF EmptyMap, Map
  <2>1. ASSUME NEW rec \in Record, Begin(rec) PROVE TypeOK' /\ MemoryIsLog'
    BY <2>1 DEF Begin
  <2>2. CASE Logged
    <3>1. op \in Record /\ alive /\ op' = op /\ store' = store /\ alive' = alive
      BY <2>2 DEF Logged
    <3>2. log' = Append(log, op) /\ log' \in Seq(Record) /\ logged' = TRUE
      BY <2>2, <3>1 DEF Logged
    <3>3. Recovered(log') = Apply(store', op')
      BY <2>2, <3>1, <3>2, RecoveredStep DEF Logged
    <3> QED
      BY <2>0, <3>1, <3>2, <3>3
  <2>3. CASE Finish
    <3>1. op \in Record /\ alive /\ logged
      BY <2>3 DEF Finish
    <3>2. store' = Apply(store, op) /\ store' \in Map
      BY <2>3, <3>1, ApplyTypes DEF Finish
    <3> QED
      BY <2>3, <3>1, <3>2 DEF Finish
  <2>4. CASE Crash
    <3>1. log' \in Seq(Record)
      BY <2>4 DEF Crash
    <3> QED
      BY <2>0, <2>4, <3>1 DEF Crash
  <2>5. CASE Restart
    BY <2>5, RecoveredTypes DEF Restart
  <2>6. CASE UNCHANGED vars
    BY <2>6 DEF vars
  <2> QED
    BY <2>1, <2>2, <2>3, <2>4, <2>5, <2>6 DEF Next
<1> QED
    BY <1>1, <1>2, PTL DEF Spec

\* Every step of LoggedMap is a step of DurableMap or leaves the content, the
\* mutation in progress and the process as they are.
LEMMA StepRefines ==
    ASSUME TypeOK, MemoryIsLog, TypeOK', MemoryIsLog', [Next]_vars
    PROVE  [D!Next]_(D!vars)
<1> USE DEF TypeOK, MemoryIsLog
<1>0. Record = D!Request
    BY DEF Record, D!Request
<1>1. \A r \in Record : \A m \in Map : Apply(m, r) = D!Effect(m, r)
    BY DEF Apply, D!Effect, EmptyMap
<1>2. ASSUME NEW rec \in Record, Begin(rec) PROVE D!Begin(rec)
    BY <1>2 DEF Begin, D!Begin, Content
<1>3. ASSUME Logged PROVE D!Take
  <2>1. op \in Record /\ alive /\ alive' = alive /\ op' = op /\ logged' = TRUE
    BY <1>3 DEF Logged
  <2>2. Content = Recovered(log) /\ Content' = Recovered(log')
    BY <1>3, <2>1 DEF Content, Logged
  <2>3. Recovered(log') = Apply(Recovered(log), op) /\ Recovered(log) \in Map
    BY <1>3, <2>1, RecoveredStep, RecoveredTypes DEF Logged
  <2> QED
    BY <1>1, <1>3, <2>1, <2>2, <2>3 DEF Logged, D!Take
<1>4. ASSUME Finish PROVE D!Return
  <2>1. op \in Record /\ alive /\ alive' = alive /\ op' = None /\ logged /\ ~logged'
    BY <1>4 DEF Finish
  <2>2. Content = Recovered(log) /\ Content' = Apply(store, op)
    BY <1>4, <2>1 DEF Content, Finish
  <2> QED
    BY <1>4, <2>1, <2>2 DEF Finish, D!Return
<1>5. ASSUME Crash PROVE D!Crash
  <2>1. alive /\ ~alive' /\ op' = None /\ ~logged'
    BY <1>5 DEF Crash
  <2>2. Content = Recovered(log) \/ (op = None /\ Content = Recovered(log))
    BY <2>1 DEF Content
  <2>3. Content' = Recovered(log')
    BY <2>1 DEF Content
  <2>4. CASE log' = log
    BY <2>1, <2>2, <2>3, <2>4 DEF D!Crash
  <2>5. CASE op # None /\ ~logged /\ log' = Append(log, op)
    <3>1. op \in Record
      BY <2>5
    <3>2. Recovered(log') = Apply(Recovered(log), op) /\ Recovered(log) \in Map
      BY <2>5, <3>1, RecoveredStep, RecoveredTypes
    <3> QED
      BY <1>1, <2>1, <2>2, <2>3, <2>5, <3>1, <3>2 DEF D!Crash
  <2> QED
    BY <1>5, <2>4, <2>5 DEF Crash
<1>6. ASSUME Restart PROVE D!Recover
    BY <1>6 DEF Restart, D!Recover, Content
<1>7. ASSUME UNCHANGED vars PROVE UNCHANGED D!vars
    BY <1>7 DEF vars, D!vars, Content
<1> QED
    BY <1>0, <1>2, <1>3, <1>4, <1>5, <1>6, <1>7 DEF Next, D!Next

\* No mutation that returned is lost or undone by a crash, and one in progress
\* takes effect once, as a whole, or not at all (README.md ADR-2).
THEOREM DurableMapImplemented == Spec => ImplementsDurableMap
<1>1. Init => D!Init
    BY RecoveredEmpty DEF Init, D!Init, Content, EmptyMap
<1>2. TypeOK /\ MemoryIsLog /\ (TypeOK /\ MemoryIsLog)' /\ [Next]_vars
        => [D!Next]_(D!vars)
    BY StepRefines
<1> QED
    BY <1>1, <1>2, MemoryIsLogHolds, PTL DEF Spec, ImplementsDurableMap, D!Spec
=============================================================================
