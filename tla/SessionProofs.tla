---------------------------- MODULE SessionProofs ----------------------------
(***************************************************************************)
(* What is proved of client and server for any number of connections, any  *)
(* scripts and every way to cut the streams.                               *)
(*                                                                         *)
(* The commands of a connection are one stream of chunks, of which the     *)
(* server has consumed a front of whole lines: what is in its buffer and   *)
(* on the way is the stream from there on (UpInv).  The answers to what    *)
(* was served are a stream of the same shape, of which the client has read *)
(* a front: what it holds in send and what is on the way is the rest of it *)
(* (DownInv), and how far behind its commands the client may read is       *)
(* bounded by its timeouts.                                                *)
(***************************************************************************)
EXTENDS Session, Positions, SequenceTheorems, TLAPS

Chunk == [line: Nat, end: BOOLEAN]

\* The j-th chunk of the stream of all lines.
At(j) == [line |-> (j + 1) \div 2, end |-> j % 2 = 0]

\* s is what follows its first p chunks.
IsStream(s, p) == \A i \in 1..Len(s) : s[i] = At(p + i)

----------------------------------------------------------------------------
(* Streams *)

\* The chunks of the stream are chunks,
LEMMA AtType ==
    ASSUME NEW j \in Nat
    PROVE  At(j) \in Chunk
    BY DEF At, Chunk

\* two for each line.
LEMMA LineAt ==
    ASSUME NEW i \in Nat
    PROVE  At(2 * i + 1) = [line |-> i + 1, end |-> FALSE]
           /\ At(2 * i + 2) = [line |-> i + 1, end |-> TRUE]
<1>1. ((2 * i + 1) + 1) \div 2 = i + 1 /\ ((2 * i + 1) % 2 = 0) = FALSE
    OBVIOUS
<1>2. ((2 * i + 2) + 1) \div 2 = i + 1 /\ ((2 * i + 2) % 2 = 0) = TRUE
    OBVIOUS
<1>3. At(2 * i + 1) = [line |-> i + 1, end |-> FALSE]
  <2>1. At(2 * i + 1) = [line |-> ((2 * i + 1) + 1) \div 2, end |-> (2 * i + 1) % 2 = 0]
    BY DEF At
  <2> QED BY <1>1, <2>1, Zenon
<1>4. At(2 * i + 2) = [line |-> i + 1, end |-> TRUE]
  <2>1. At(2 * i + 2) = [line |-> ((2 * i + 2) + 1) \div 2, end |-> (2 * i + 2) % 2 = 0]
    BY DEF At
  <2> QED BY <1>2, <2>1, Zenon
<1> QED
    BY <1>3, <1>4

\* The odd chunks of a line's stream are its text and the even ones end it.
LEMMA EndAt ==
    ASSUME NEW i \in Nat
    PROVE  ~At(2 * i + 1).end /\ At(2 * i + 2).end
<1> DEFINE a == At(2 * i + 1)
           b == At(2 * i + 2)
<1>1. a = [line |-> i + 1, end |-> FALSE] /\ b = [line |-> i + 1, end |-> TRUE]
    BY LineAt
<1> HIDE DEF a, b
<1>2. ~a.end /\ b.end
    BY <1>1
<1> QED
    BY <1>2 DEF a, b

\* The bytes of a line are the stream from there on.
LEMMA BytesStream ==
    ASSUME NEW i \in Nat
    PROVE  Bytes(i + 1) \in Seq(Chunk) /\ Len(Bytes(i + 1)) = 2 /\ IsStream(Bytes(i + 1), 2 * i)
<1>1. Bytes(i + 1) = <<At(2 * i + 1), At(2 * i + 2)>>
    BY LineAt DEF Bytes
<1>2. At(2 * i + 1) \in Chunk /\ At(2 * i + 2) \in Chunk
    BY AtType
<1>3. Bytes(i + 1) \in Seq(Chunk) /\ Len(Bytes(i + 1)) = 2
  <2> DEFINE a == At(2 * i + 1)
             b == At(2 * i + 2)
  <2> HIDE DEF a, b
  <2>1. a \in Chunk /\ b \in Chunk => <<a, b>> \in Seq(Chunk) /\ Len(<<a, b>>) = 2
    OBVIOUS
  <2> QED BY <1>1, <1>2, <2>1 DEF a, b
<1>4. Bytes(i + 1)[1] = At(2 * i + 1) /\ Bytes(i + 1)[2] = At(2 * i + 2)
    BY <1>1
<1>5. ASSUME NEW k \in 1..2 PROVE Bytes(i + 1)[k] = At(2 * i + k)
  <2>1. k = 1 \/ k = 2
    OBVIOUS
  <2> QED BY <1>4, <2>1
<1> QED
    BY <1>3, <1>5 DEF IsStream

\* The elements of a concatenation.
LEMMA ConcatIndex ==
    ASSUME NEW s \in Seq(Chunk), NEW t \in Seq(Chunk)
    PROVE  /\ s \o t \in Seq(Chunk) /\ Len(s \o t) = Len(s) + Len(t)
           /\ Len(s) \in Nat /\ Len(t) \in Nat
           /\ \A i \in 1..Len(s) : (s \o t)[i] = s[i]
           /\ \A i \in 1..Len(t) : (s \o t)[Len(s) + i] = t[i]
    OBVIOUS

\* A stream in two parts.
LEMMA StreamConcat ==
    ASSUME NEW s \in Seq(Chunk), NEW t \in Seq(Chunk), NEW p \in Nat
    PROVE  /\ s \o t \in Seq(Chunk) /\ Len(s \o t) = Len(s) + Len(t)
           /\ IsStream(s \o t, p) <=> IsStream(s, p) /\ IsStream(t, p + Len(s))
<1>1. /\ s \o t \in Seq(Chunk) /\ Len(s \o t) = Len(s) + Len(t)
      /\ Len(s) \in Nat /\ Len(t) \in Nat
      /\ \A i \in 1..Len(s) : (s \o t)[i] = s[i]
      /\ \A i \in 1..Len(t) : (s \o t)[Len(s) + i] = t[i]
    BY ConcatIndex
<1>2. ASSUME IsStream(s, p), IsStream(t, p + Len(s))
      PROVE  IsStream(s \o t, p)
  <2> SUFFICES ASSUME NEW i \in 1..Len(s \o t) PROVE (s \o t)[i] = At(p + i)
    BY DEF IsStream
  <2>1. CASE i <= Len(s)
    BY <1>1, <1>2, <2>1 DEF IsStream
  <2>2. CASE i > Len(s)
    <3> DEFINE j == i - Len(s)
    <3>1. j \in 1..Len(t) /\ i = Len(s) + j /\ p + i = p + Len(s) + j
      BY <1>1, <2>2
    <3>2. t[j] = At(p + Len(s) + j)
      BY <1>2, <3>1 DEF IsStream
    <3> QED BY <1>1, <3>1, <3>2
  <2> QED BY <1>1, <2>1, <2>2
<1>3. ASSUME IsStream(s \o t, p)
      PROVE  IsStream(s, p) /\ IsStream(t, p + Len(s))
  <2>1. ASSUME NEW i \in 1..Len(s) PROVE s[i] = At(p + i)
    <3>1. i \in 1..Len(s \o t)
      BY <1>1
    <3> QED BY <1>1, <1>3, <3>1 DEF IsStream
  <2>2. ASSUME NEW i \in 1..Len(t) PROVE t[i] = At(p + Len(s) + i)
    <3>1. Len(s) + i \in 1..Len(s \o t) /\ p + (Len(s) + i) = p + Len(s) + i
      BY <1>1
    <3> QED BY <1>1, <1>3, <3>1 DEF IsStream
  <2> QED BY <2>1, <2>2 DEF IsStream
<1> QED
    BY <1>1, <1>2, <1>3

\* What a read takes and what it leaves make up what was there.
LEMMA Cutting ==
    ASSUME NEW s \in Seq(Chunk), NEW n \in 0..Len(s)
    PROVE  /\ SubSeq(s, 1, n) \in Seq(Chunk) /\ Len(SubSeq(s, 1, n)) = n
           /\ SubSeq(s, n + 1, Len(s)) \in Seq(Chunk)
           /\ Len(SubSeq(s, n + 1, Len(s))) = Len(s) - n
           /\ SubSeq(s, 1, n) \o SubSeq(s, n + 1, Len(s)) = s
<1> DEFINE a == SubSeq(s, 1, n)
           b == SubSeq(s, n + 1, Len(s))
<1>1. /\ a \in Seq(Chunk) /\ Len(a) = n /\ \A i \in 1..n : a[i] = s[i]
      /\ b \in Seq(Chunk) /\ Len(b) = Len(s) - n
      /\ \A i \in 1..(Len(s) - n) : b[i] = s[n + i]
    BY SubSeqProperties
<1>2. Len(s) \in Nat /\ n \in Nat /\ n <= Len(s)
    OBVIOUS
<1> HIDE DEF a, b
<1>3. /\ a \o b \in Seq(Chunk) /\ Len(a \o b) = Len(a) + Len(b)
      /\ \A i \in 1..Len(a) : (a \o b)[i] = a[i]
      /\ \A i \in 1..Len(b) : (a \o b)[Len(a) + i] = b[i]
    BY <1>1, ConcatIndex
<1>4. Len(a \o b) = Len(s)
    BY <1>1, <1>2, <1>3
<1>5. ASSUME NEW i \in 1..Len(s) PROVE (a \o b)[i] = s[i]
  <2>1. CASE i <= n
    BY <1>1, <1>2, <1>3, <2>1
  <2>2. CASE i > n
    <3>1. i - n \in 1..(Len(s) - n) /\ n + (i - n) = i
      BY <1>2, <2>2
    <3>2. (a \o b)[n + (i - n)] = b[i - n] /\ b[i - n] = s[n + (i - n)]
      BY <1>1, <1>3, <3>1
    <3> QED BY <3>1, <3>2
  <2>3. i <= n \/ i > n
    BY <1>2
  <2> QED BY <2>1, <2>2, <2>3, Zenon
<1>6. a \o b = s
    BY <1>3, <1>4, <1>5, SeqEqual
<1> QED
    BY <1>1, <1>6 DEF a, b

\* Concatenation is associative, with the empty sequence as its unit.
LEMMA Associativity ==
    ASSUME NEW s \in Seq(Chunk), NEW t \in Seq(Chunk), NEW u \in Seq(Chunk)
    PROVE  (s \o t) \o u = s \o (t \o u) /\ s \o <<>> = s /\ <<>> \o s = s
    OBVIOUS

\* The first line of a stream that begins with a line.
LEMMA FirstOfStream ==
    ASSUME NEW s \in Seq(Chunk), NEW i \in Nat, IsStream(s, 2 * i), HasLine(s)
    PROVE  /\ Len(s) >= 2
           /\ FirstLine(s) = Bytes(i + 1)
           /\ AfterLine(s) = SubSeq(s, 3, Len(s))
<1>1. ASSUME Len(s) >= 1 PROVE ~s[1].end
  <2>1. s[1] = At(2 * i + 1)
    BY <1>1 DEF IsStream
  <2>2. ~At(2 * i + 1).end
    BY EndAt
  <2> QED BY <2>1, <2>2
<1>2. PICK j \in 1..Len(s) : s[j].end
    BY DEF HasLine
<1>3. Len(s) >= 2
    BY <1>1, <1>2
<1>4. s[1] = At(2 * i + 1) /\ s[2] = At(2 * i + 2)
    BY <1>3 DEF IsStream
<1>5. s[2].end
  <2>1. At(2 * i + 2).end
    BY EndAt
  <2> QED BY <1>4, <2>1
<1>6. LineEnd(s) = 2
  <2>1. \A k \in 1..Len(s) : (s[k].end /\ \A l \in 1..(k - 1) : ~s[l].end) => k = 2
    <3> SUFFICES ASSUME NEW k \in 1..Len(s), s[k].end, \A l \in 1..(k - 1) : ~s[l].end
                 PROVE  k = 2
      OBVIOUS
    <3>1. k # 1
      BY <1>1, <1>3
    <3>2. ~(2 \in 1..(k - 1))
      BY <1>5
    <3> QED BY <3>1, <3>2
  <2>2. 2 \in 1..Len(s) /\ s[2].end /\ \A l \in 1..(2 - 1) : ~s[l].end
    BY <1>1, <1>3, <1>5
  <2> QED BY <2>1, <2>2 DEF LineEnd
<1>7. FirstLine(s) = SubSeq(s, 1, 2) /\ AfterLine(s) = SubSeq(s, 3, Len(s))
    BY <1>6 DEF FirstLine, AfterLine
<1>8. SubSeq(s, 1, 2) = <<s[1], s[2]>>
  <2>1. /\ Len(SubSeq(s, 1, 2)) = 2 /\ SubSeq(s, 1, 2) \in Seq(Chunk)
        /\ SubSeq(s, 1, 2)[1] = s[1] /\ SubSeq(s, 1, 2)[2] = s[2]
    BY <1>3
  <2> DEFINE t == SubSeq(s, 1, 2)
  <2> HIDE DEF t
  <2>2. t \in Seq(Chunk) /\ Len(t) = 2 => t = <<t[1], t[2]>>
    OBVIOUS
  <2> QED BY <2>1, <2>2 DEF t
<1>9. <<At(2 * i + 1), At(2 * i + 2)>> = Bytes(i + 1)
    BY LineAt DEF Bytes
<1> QED
    BY <1>3, <1>4, <1>7, <1>8, <1>9

\* A piece of the stream has a newline if the end of a line is in it.
LEMMA LineInStream ==
    ASSUME NEW s \in Seq(Chunk), NEW p \in Nat, IsStream(s, p)
    PROVE  HasLine(s) <=> \E i \in Nat : p < 2 * i + 2 /\ 2 * i + 2 <= p + Len(s)
<1>1. ASSUME HasLine(s)
      PROVE  \E i \in Nat : p < 2 * i + 2 /\ 2 * i + 2 <= p + Len(s)
  <2>1. PICK j \in 1..Len(s) : s[j].end
    BY <1>1 DEF HasLine
  <2>2. s[j] = At(p + j)
    BY DEF IsStream
  <2>3. (p + j) % 2 = 0
    <3>1. At(p + j).end = ((p + j) % 2 = 0)
      BY DEF At
    <3> QED BY <2>1, <2>2, <3>1, Zenon
  <2>4. PICK q \in Int : p + j = 2 * q
    BY <2>3
  <2>5. q - 1 \in Nat /\ p < 2 * (q - 1) + 2 /\ 2 * (q - 1) + 2 <= p + Len(s)
    BY <2>4
  <2> QED BY <2>5
<1>2. ASSUME NEW i \in Nat, p < 2 * i + 2, 2 * i + 2 <= p + Len(s)
      PROVE  HasLine(s)
  <2> DEFINE j == 2 * i + 2 - p
  <2>1. j \in 1..Len(s) /\ p + j = 2 * i + 2
    BY <1>2
  <2>2. s[j] = At(2 * i + 2)
    BY <2>1 DEF IsStream
  <2>3. s[j].end
    <3>1. At(2 * i + 2).end
      BY EndAt
    <3> QED BY <2>2, <3>1
  <2> QED BY <2>1, <2>3 DEF HasLine
<1> QED
    BY <1>1, <1>2

----------------------------------------------------------------------------
(* Invariants *)

Service == [text: Seq(Chunk), cmd: Command]
View == [cmd: Nat, late: Nat, text: Seq(Chunk)]
Datum == Key \cup Value \cup {0, 1} \cup {Cardinality(S) : S \in SUBSET Key}
Outcome == [cmd: Command,
            answer: [kind: {"+OK", "+PONG", "+BYE", "$", ":", "-ERR"}, data: SUBSET Datum],
            from: Client, line: Nat]

TypeInv ==
    /\ script \in [Client -> Seq(Command)]
    /\ phase \in [Client -> {"idle", "waiting", "gone"}]
    /\ sent \in [Client -> Nat] /\ timeouts \in [Client -> Nat]
    /\ resp \in [Client -> Seq(Chunk)] /\ shown \in [Client -> Seq(View)]
    /\ up \in [Client -> Seq(Chunk)] /\ down \in [Client -> Seq(Chunk)]
    /\ buffer \in [Client -> Seq(Chunk)] /\ closing \in [Client -> BOOLEAN]
    /\ store \in [Key -> Value \cup {None}]
    /\ served \in [Client -> Seq(Service)]
    /\ executed \in Seq(Outcome) /\ since \in [Client -> Nat]

\* How much of the stream of its commands a connection's server has consumed.
Consumed(c) == 2 * Len(served[c])

\* The commands that were not yet served.
UpInv(c) ==
    LET in == buffer[c] \o up[c]
    IN  /\ IsStream(in, Consumed(c))
        /\ Consumed(c) + Len(in) <= 2 * sent[c]
        /\ phase[c] # "gone" => Consumed(c) + Len(in) = 2 * sent[c]
        /\ sent[c] <= Len(script[c])
        /\ phase[c] = "waiting" => sent[c] > 0

\* How much of the stream of answers a client has read and shown or given up.
Read(c) == Consumed(c) - Len(resp[c]) - Len(down[c])

DownInv(c) ==
    phase[c] # "gone" =>
        /\ Read(c) \in Nat
        /\ IsStream(resp[c] \o down[c], Read(c))
        /\ ~HasLine(resp[c])
        /\ phase[c] = "idle" => resp[c] = <<>>
        /\ Read(c) >= 2 * (sent[c] - timeouts[c] - IF phase[c] = "waiting" THEN 1 ELSE 0)
        /\ timeouts[c] = 0 /\ phase[c] = "waiting" => Read(c) = 2 * (sent[c] - 1)

ServedInv(c) ==
    \A i \in 1..Len(served[c]) :
        served[c][i].text = Bytes(i) /\ served[c][i].cmd = script[c][i]

ShownInv(c) ==
    \A i \in 1..Len(shown[c]) :
        LET s == shown[c][i]
        IN  /\ s.late = 0 => s.text = Bytes(s.cmd)
            /\ \A j \in 1..Len(s.text) : s.text[j].line \in (s.cmd - s.late)..s.cmd

StreamInv == \A c \in Client : UpInv(c) /\ DownInv(c) /\ ServedInv(c) /\ ShownInv(c)

\* Every executed command was answered from what the commands before it left.
AnswersAreSerial == \A n \in 1..Len(executed) : Serial(n)

\* The engine holds what the executed mutations left.
SerialInv ==
    /\ \A n : n = Len(executed) => store = Content(n)
    /\ AnswersAreSerial

\* The lines of a connection that were served are those in the history, and the line a
\* client waits for is not among the commands executed when it wrote it.
OrderInv(c) ==
    /\ \A i \in 1..Len(served[c]) :
         \E n \in 1..Len(executed) : executed[n].from = c /\ executed[n].line = i
    /\ \A n \in 1..Len(executed) : executed[n].from = c => executed[n].line <= Len(served[c])
    /\ since[c] <= Len(executed)
    /\ phase[c] = "waiting" /\ timeouts[c] = 0 =>
         \A n \in 1..since[c] : executed[n].from = c => executed[n].line < sent[c]

----------------------------------------------------------------------------
(* Types *)

\* The initial state has the types.
LEMMA TypeInit ==
    ASSUME Init
    PROVE  TypeInv
<1>1. <<>> \in Seq(Chunk) /\ <<>> \in Seq(View) /\ <<>> \in Seq(Service) /\ <<>> \in Seq(Outcome)
    OBVIOUS
<1>2. script \in [Client -> Seq(Command)]
    BY ScriptAssumption DEF Init
<1> QED
    BY <1>1, <1>2 DEF Init, TypeInv

\* What the types say of one connection.
LEMMA ClientTypes ==
    ASSUME TypeInv, NEW c \in Client
    PROVE  /\ script[c] \in Seq(Command) /\ phase[c] \in {"idle", "waiting", "gone"}
           /\ sent[c] \in Nat /\ timeouts[c] \in Nat
           /\ resp[c] \in Seq(Chunk) /\ shown[c] \in Seq(View)
           /\ up[c] \in Seq(Chunk) /\ down[c] \in Seq(Chunk) /\ buffer[c] \in Seq(Chunk)
           /\ served[c] \in Seq(Service) /\ Len(served[c]) \in Nat
           /\ Len(resp[c]) \in Nat /\ Len(up[c]) \in Nat /\ Len(down[c]) \in Nat
           /\ Len(buffer[c]) \in Nat /\ since[c] \in Nat
    BY DEF TypeInv

\* The engine's answers and what it holds afterwards.
LEMMA EngineTypes ==
    ASSUME NEW cmd \in Command, NEW map \in [Key -> Value \cup {None}], NEW fails \in BOOLEAN,
           NEW c \in Client, NEW i \in Nat
    PROVE  /\ After(cmd, map) \in [Key -> Value \cup {None}]
           /\ [cmd |-> cmd, answer |-> IF fails THEN Error ELSE Reply(cmd, map),
               from |-> c, line |-> i] \in Outcome
<1>1. After(cmd, map) \in [Key -> Value \cup {None}]
    BY DEF After, Command
<1>2. {} \subseteq Datum /\ {0} \subseteq Datum /\ {1} \subseteq Datum
    BY DEF Datum
<1>3. Keys(map) \subseteq Datum /\ {Cardinality(Keys(map))} \subseteq Datum
    BY DEF Keys, Datum
<1>4. cmd.op = "GET" => {map[cmd.key]} \ {None} \subseteq Datum
    BY DEF Command, Datum
<1>5. Reply(cmd, map).data \subseteq Datum /\ Reply(cmd, map).kind \in {"+OK", "+PONG", "+BYE", "$", ":", "-ERR"}
      /\ Reply(cmd, map) = [kind |-> Reply(cmd, map).kind, data |-> Reply(cmd, map).data]
    BY <1>2, <1>3, <1>4 DEF Reply, Answer, Error
<1>6. Error = [kind |-> "-ERR", data |-> {}]
    BY DEF Error, Answer
<1> QED
    BY <1>1, <1>2, <1>5, <1>6 DEF Outcome

\* The line data_received takes off its buffer is the next command.
LEMMA NextLine ==
    ASSUME TypeInv, NEW c \in Client, UpInv(c), HasLine(buffer[c]),
           NEW i, i = Len(served[c]) + 1
    PROVE  /\ i \in 1..sent[c] /\ script[c][i] \in Command
           /\ FirstLine(buffer[c]) = Bytes(i) /\ Bytes(i) \in Seq(Chunk)
           /\ Bytes(i)[Len(Bytes(i))].line = i /\ Parsed(c, Bytes(i)) = script[c][i]
           /\ Len(buffer[c]) >= 2 /\ AfterLine(buffer[c]) = SubSeq(buffer[c], 3, Len(buffer[c]))
<1> DEFINE n == Len(served[c])
<1>1. n \in Nat /\ buffer[c] \in Seq(Chunk) /\ up[c] \in Seq(Chunk) /\ sent[c] \in Nat
      /\ Len(buffer[c]) \in Nat /\ Len(up[c]) \in Nat
    BY ClientTypes
<1>2. /\ IsStream(buffer[c] \o up[c], 2 * n)
      /\ 2 * n + Len(buffer[c] \o up[c]) <= 2 * sent[c]
      /\ sent[c] <= Len(script[c])
    BY DEF UpInv, Consumed
<1>3. 2 * n \in Nat
    BY <1>1
<1> HIDE DEF n
<1>4. IsStream(buffer[c], 2 * n) /\ Len(buffer[c] \o up[c]) = Len(buffer[c]) + Len(up[c])
    BY <1>1, <1>2, <1>3, StreamConcat
<1>5. Len(buffer[c]) >= 2 /\ FirstLine(buffer[c]) = Bytes(n + 1)
      /\ AfterLine(buffer[c]) = SubSeq(buffer[c], 3, Len(buffer[c]))
    BY <1>1, <1>4, FirstOfStream
<1>6. i = n + 1
    BY DEF n
<1>7. i \in 1..sent[c]
  <2>1. 2 * n + (Len(buffer[c]) + Len(up[c])) <= 2 * sent[c]
    BY <1>2, <1>4
  <2>2. 2 * n + 2 <= 2 * sent[c]
    <3> DEFINE b == Len(buffer[c])
               u == Len(up[c])
               t == sent[c]
    <3>1. b \in Nat /\ u \in Nat /\ t \in Nat /\ n \in Nat /\ b >= 2 /\ 2 * n + (b + u) <= 2 * t
      BY <1>1, <1>5, <2>1
    <3> HIDE DEF b, u, t
    <3>2. 2 * n + 2 <= 2 * t
      BY <3>1
    <3> QED BY <3>2 DEF t
  <2>3. n + 1 <= sent[c]
    BY <1>1, <2>2
  <2> QED BY <1>1, <1>6, <2>3
<1>8. script[c][i] \in Command
  <2>1. script[c] \in Seq(Command) /\ i \in 1..Len(script[c])
    BY <1>1, <1>2, <1>7, ClientTypes
  <2> QED BY <2>1
<1>9. Bytes(i) \in Seq(Chunk) /\ Len(Bytes(i)) = 2
    BY <1>1, <1>6, BytesStream
<1>10. Bytes(i)[Len(Bytes(i))].line = i
    BY <1>9 DEF Bytes
<1>11. Parsed(c, Bytes(i)) = script[c][i]
    BY <1>10 DEF Parsed
<1> QED
    BY <1>5, <1>6, <1>7, <1>8, <1>9, <1>10, <1>11

\* One turn of the loop: what changes.
LEMMA Serving ==
    ASSUME TypeInv, NEW c \in Client, UpInv(c), ServeLine(c),
           NEW i, i = Len(served[c]) + 1
    PROVE  /\ \E fails \in BOOLEAN :
                LET cmd == script[c][i]
                    answer == IF fails THEN Error ELSE Reply(cmd, store)
                IN  /\ fails => cmd.op \in Mutations
                    /\ store' = IF fails THEN store ELSE After(cmd, store)
                    /\ executed' = Append(executed, [cmd |-> cmd, answer |-> answer,
                                                     from |-> c, line |-> i])
           /\ served' = [served EXCEPT ![c] = Append(@, [text |-> Bytes(i), cmd |-> script[c][i]])]
           /\ closing' = [closing EXCEPT ![c] = @ \/ script[c][i].op = "QUIT"]
           /\ down' = [down EXCEPT ![c] = IF phase[c] = "gone" THEN @ ELSE @ \o Bytes(i)]
           /\ buffer' = [buffer EXCEPT ![c] = SubSeq(@, 3, Len(@))]
           /\ UNCHANGED <<clientVars, up>>
<1>1. HasLine(buffer[c])
    BY DEF ServeLine
<1>2. /\ FirstLine(buffer[c]) = Bytes(i) /\ Parsed(c, Bytes(i)) = script[c][i]
      /\ Bytes(i)[Len(Bytes(i))].line = i
      /\ AfterLine(buffer[c]) = SubSeq(buffer[c], 3, Len(buffer[c]))
    BY <1>1, NextLine
<1>3. PICK fails \in (IF script[c][i].op \in Mutations THEN BOOLEAN ELSE {FALSE}) :
        LET answer == IF fails THEN Error ELSE Reply(script[c][i], store)
        IN  /\ store' = IF fails THEN store ELSE After(script[c][i], store)
            /\ served' = [served EXCEPT ![c] = Append(@, [text |-> Bytes(i), cmd |-> script[c][i]])]
            /\ executed' = Append(executed, [cmd |-> script[c][i], answer |-> answer,
                                             from |-> c, line |-> i])
            /\ closing' = [closing EXCEPT ![c] = @ \/ script[c][i].op = "QUIT"]
            /\ down' = [down EXCEPT ![c] = IF phase[c] = "gone" THEN @ ELSE @ \o Bytes(i)]
    BY <1>2 DEF ServeLine
<1>4. fails \in BOOLEAN /\ (fails => script[c][i].op \in Mutations)
    BY <1>3
<1>5. buffer' = [buffer EXCEPT ![c] = SubSeq(@, 3, Len(@))] /\ UNCHANGED <<clientVars, up>>
    BY <1>2 DEF ServeLine
<1> QED
    BY <1>3, <1>4, <1>5

\* Every step keeps the types.
LEMMA TypeStep ==
    ASSUME TypeInv, StreamInv, [Next]_vars
    PROVE  TypeInv'
<1>1. ASSUME NEW c \in Client, Send(c) PROVE TypeInv'
  <2>1. Bytes(sent[c] + 1) \in Seq(Chunk) /\ sent[c] + 1 \in Nat
    BY BytesStream, ClientTypes
  <2>2. up[c] \o Bytes(sent[c] + 1) \in Seq(Chunk)
    BY <2>1, ClientTypes
  <2>3. since' \in [Client -> Nat]
    <3>1. since' = [since EXCEPT ![c] = IF timeouts[c] = 0 THEN Len(executed) ELSE 0]
      BY <1>1 DEF Send
    <3>2. Len(executed) \in Nat /\ since \in [Client -> Nat]
      BY DEF TypeInv
    <3> QED BY <3>1, <3>2
  <2> QED BY <1>1, <2>1, <2>2, <2>3 DEF Send, TypeInv, serverVars
<1>2. ASSUME NEW c \in Client, Recv(c) PROVE TypeInv'
  <2>1. PICK n \in 1..Len(down[c]) :
         LET all == resp[c] \o SubSeq(down[c], 1, n)
             view == [cmd |-> sent[c], late |-> timeouts[c], text |-> all]
         IN  /\ down' = [down EXCEPT ![c] = SubSeq(@, n + 1, Len(@))]
             /\ resp' = [resp EXCEPT ![c] = IF HasLine(all) THEN <<>> ELSE all]
             /\ IF HasLine(all)
                THEN /\ shown' = [shown EXCEPT ![c] = Append(@, view)]
                     /\ phase' = [phase EXCEPT ![c] = IF Quitting(c) THEN "gone" ELSE "idle"]
                     /\ since' = [since EXCEPT ![c] = 0]
                ELSE UNCHANGED <<shown, phase, since>>
    BY <1>2 DEF Recv
  <2> DEFINE all == resp[c] \o SubSeq(down[c], 1, n)
             view == [cmd |-> sent[c], late |-> timeouts[c], text |-> all]
             rest == SubSeq(down[c], n + 1, Len(down[c]))
  <2>2. SubSeq(down[c], 1, n) \in Seq(Chunk) /\ rest \in Seq(Chunk)
    BY Cutting, ClientTypes
  <2>3. all \in Seq(Chunk) /\ <<>> \in Seq(Chunk)
    BY <2>2, ClientTypes
  <2>4. view \in View
    BY <2>3, ClientTypes DEF View
  <2>5. Append(shown[c], view) \in Seq(View)
    BY <2>4, ClientTypes
  <2> HIDE DEF all, view, rest
  <2>6. /\ down' = [down EXCEPT ![c] = rest]
        /\ resp' = [resp EXCEPT ![c] = IF HasLine(all) THEN <<>> ELSE all]
        /\ \/ /\ shown' = [shown EXCEPT ![c] = Append(shown[c], view)]
              /\ phase' = [phase EXCEPT ![c] = IF Quitting(c) THEN "gone" ELSE "idle"]
              /\ since' = [since EXCEPT ![c] = 0]
           \/ UNCHANGED <<shown, phase, since>>
    BY <2>1 DEF all, view, rest
  <2>7. shown' \in [Client -> Seq(View)] /\ phase' \in [Client -> {"idle", "waiting", "gone"}]
        /\ since' \in [Client -> Nat]
    <3>1. /\ shown \in [Client -> Seq(View)] /\ phase \in [Client -> {"idle", "waiting", "gone"}]
          /\ since \in [Client -> Nat]
      BY DEF TypeInv
    <3>2. shown' \in [Client -> Seq(View)]
      BY <2>5, <2>6, <3>1
    <3>3. phase' \in [Client -> {"idle", "waiting", "gone"}] /\ since' \in [Client -> Nat]
      BY <2>6, <3>1
    <3> QED BY <3>2, <3>3
  <2>8. down' \in [Client -> Seq(Chunk)] /\ resp' \in [Client -> Seq(Chunk)]
    BY <2>2, <2>3, <2>6 DEF TypeInv
  <2> QED BY <1>2, <2>7, <2>8 DEF Recv, TypeInv, serverVars
<1>3. ASSUME NEW c \in Client, Timeout(c) PROVE TypeInv'
    BY <1>3, SMTT(20) DEF Timeout, TypeInv, serverVars
<1>4. ASSUME NEW c \in Client, Kill(c) PROVE TypeInv'
  <2>1. PICK n \in 0..Len(up[c]) : up' = [up EXCEPT ![c] = SubSeq(@, 1, n)]
    BY <1>4 DEF Kill
  <2>2. SubSeq(up[c], 1, n) \in Seq(Chunk) /\ <<>> \in Seq(Chunk)
    BY Cutting, ClientTypes
  <2> QED BY <1>4, <2>1, <2>2 DEF Kill, TypeInv, serverVars
<1>5. ASSUME NEW c \in Client, Receive(c) PROVE TypeInv'
  <2>1. PICK n \in 1..Len(up[c]) :
         /\ up' = [up EXCEPT ![c] = SubSeq(@, n + 1, Len(@))]
         /\ buffer' = [buffer EXCEPT ![c] = @ \o SubSeq(up[c], 1, n)]
    BY <1>5 DEF Receive
  <2>2. SubSeq(up[c], n + 1, Len(up[c])) \in Seq(Chunk) /\ SubSeq(up[c], 1, n) \in Seq(Chunk)
    BY Cutting, ClientTypes
  <2>3. buffer[c] \o SubSeq(up[c], 1, n) \in Seq(Chunk)
    BY <2>2, ClientTypes
  <2> QED BY <1>5, <2>1, <2>2, <2>3 DEF Receive, TypeInv, clientVars
<1>6. ASSUME NEW c \in Client, ServeLine(c) PROVE TypeInv'
  <2> DEFINE i == Len(served[c]) + 1
             cmd == script[c][i]
  <2>1. UpInv(c) /\ HasLine(buffer[c])
    BY <1>6 DEF StreamInv, ServeLine
  <2>2. cmd \in Command /\ Bytes(i) \in Seq(Chunk) /\ Len(buffer[c]) >= 2 /\ i \in Nat
    BY <2>1, NextLine, ClientTypes
  <2>3. /\ \E fails \in BOOLEAN :
             /\ store' = IF fails THEN store ELSE After(cmd, store)
             /\ executed' = Append(executed, [cmd |-> cmd, from |-> c, line |-> i,
                                               answer |-> IF fails THEN Error ELSE Reply(cmd, store)])
        /\ served' = [served EXCEPT ![c] = Append(@, [text |-> Bytes(i), cmd |-> cmd])]
        /\ closing' = [closing EXCEPT ![c] = @ \/ cmd.op = "QUIT"]
        /\ down' = [down EXCEPT ![c] = IF phase[c] = "gone" THEN @ ELSE @ \o Bytes(i)]
        /\ buffer' = [buffer EXCEPT ![c] = SubSeq(@, 3, Len(@))]
        /\ UNCHANGED <<clientVars, up>>
    BY <1>6, <2>1, Serving
  <2> HIDE DEF i, cmd
  <2>4. store' \in [Key -> Value \cup {None}] /\ executed' \in Seq(Outcome)
    <3>1. store \in [Key -> Value \cup {None}] /\ executed \in Seq(Outcome)
      BY DEF TypeInv
    <3>2. PICK fails \in BOOLEAN :
             /\ store' = IF fails THEN store ELSE After(cmd, store)
             /\ executed' = Append(executed, [cmd |-> cmd, from |-> c, line |-> i,
                                               answer |-> IF fails THEN Error ELSE Reply(cmd, store)])
      BY <2>3
    <3>3. After(cmd, store) \in [Key -> Value \cup {None}]
          /\ [cmd |-> cmd, answer |-> IF fails THEN Error ELSE Reply(cmd, store),
              from |-> c, line |-> i] \in Outcome
      BY <2>2, <3>1, EngineTypes
    <3> DEFINE e == [cmd |-> cmd, answer |-> IF fails THEN Error ELSE Reply(cmd, store),
                     from |-> c, line |-> i]
    <3>4. executed' = Append(executed, e) /\ e \in Outcome
      BY <3>2, <3>3
    <3> HIDE DEF e
    <3> QED BY <3>1, <3>2, <3>3, <3>4
  <2>5. Append(served[c], [text |-> Bytes(i), cmd |-> cmd]) \in Seq(Service)
    <3>1. [text |-> Bytes(i), cmd |-> cmd] \in Service
      BY <2>2 DEF Service
    <3>2. served[c] \in Seq(Service)
      BY ClientTypes
    <3> QED BY <3>1, <3>2
  <2>6. down[c] \o Bytes(i) \in Seq(Chunk)
    BY <2>2, ClientTypes
  <2>7. SubSeq(buffer[c], 3, Len(buffer[c])) \in Seq(Chunk)
    BY <2>2, ClientTypes
  <2>8. served' \in [Client -> Seq(Service)] /\ closing' \in [Client -> BOOLEAN]
    BY <2>3, <2>5 DEF TypeInv
  <2>9. down' \in [Client -> Seq(Chunk)] /\ buffer' \in [Client -> Seq(Chunk)]
    BY <2>3, <2>6, <2>7 DEF TypeInv
  <2> QED BY <2>3, <2>4, <2>8, <2>9 DEF TypeInv, clientVars
<1>7. CASE UNCHANGED vars
    BY <1>7 DEF vars, clientVars, serverVars, TypeInv
<1> QED
    BY <1>1, <1>2, <1>3, <1>4, <1>5, <1>6, <1>7 DEF Next

----------------------------------------------------------------------------
(* The streams of one connection *)

Inv(c) == UpInv(c) /\ DownInv(c) /\ ServedInv(c) /\ ShownInv(c)

\* What a step does at one connection it does not do at another.
LEMMA OtherClients ==
    ASSUME TypeInv, NEW d \in Client, Inv(d),
           script'[d] = script[d], phase'[d] = phase[d], sent'[d] = sent[d], resp'[d] = resp[d],
           timeouts'[d] = timeouts[d], shown'[d] = shown[d], up'[d] = up[d], down'[d] = down[d],
           buffer'[d] = buffer[d], served'[d] = served[d]
    PROVE  Inv(d)'
<1>1. UpInv(d)'
    BY DEF Inv, UpInv, Consumed
<1>2. DownInv(d)'
    BY DEF Inv, DownInv, Read, Consumed
<1>3. ServedInv(d)' /\ ShownInv(d)'
    BY DEF Inv, ServedInv, ShownInv
<1> QED
    BY <1>1, <1>2, <1>3 DEF Inv

\* A command that is sent comes after the commands still under way.
LEMMA SendLocal ==
    ASSUME TypeInv, NEW c \in Client, Inv(c), Send(c)
    PROVE  Inv(c)'
<1>1. /\ phase[c] = "idle" /\ phase'[c] = "waiting" /\ sent[c] < Len(script[c])
      /\ sent'[c] = sent[c] + 1 /\ up'[c] = up[c] \o Bytes(sent[c] + 1)
      /\ UNCHANGED <<script, resp, timeouts, shown, down, buffer, served>>
    BY DEF Send, TypeInv, serverVars
<1>2. /\ sent[c] \in Nat /\ timeouts[c] \in Nat /\ up[c] \in Seq(Chunk) /\ buffer[c] \in Seq(Chunk)
      /\ Len(served[c]) \in Nat /\ Len(resp[c]) \in Nat /\ Len(down[c]) \in Nat
      /\ resp[c] \in Seq(Chunk) /\ down[c] \in Seq(Chunk)
      /\ script[c] \in Seq(Command)
    BY ClientTypes
<1> DEFINE in == buffer[c] \o up[c]
           line == Bytes(sent[c] + 1)
           p == Consumed(c)
           r == Read(c)
<1>3. line \in Seq(Chunk) /\ Len(line) = 2 /\ IsStream(line, 2 * sent[c])
    BY <1>2, BytesStream
<1>4. p \in Nat /\ p' = p /\ r' = r
    BY <1>1, <1>2 DEF Consumed, Read
<1>5. IsStream(in, p) /\ p + Len(in) = 2 * sent[c]
    BY <1>1 DEF Inv, UpInv
<1>6. in \in Seq(Chunk) /\ Len(in) \in Nat /\ buffer'[c] \o up'[c] = in \o line
  <2>1. in \in Seq(Chunk)
    BY <1>2
  <2>2. buffer'[c] \o up'[c] = buffer[c] \o (up[c] \o line)
    BY <1>1
  <2>3. Len(in) \in Nat
    <3> HIDE DEF in
    <3> QED BY <2>1
  <2>4. buffer[c] \in Seq(Chunk) /\ up[c] \in Seq(Chunk) /\ line \in Seq(Chunk)
    BY <1>2, <1>3
  <2> HIDE DEF line
  <2>5. (buffer[c] \o up[c]) \o line = buffer[c] \o (up[c] \o line)
    BY ONLY <2>4, Associativity
  <2> QED BY <2>1, <2>2, <2>3, <2>5, Zenon
<1>7. UpInv(c)'
  <2> HIDE DEF in, line, p
  <2>1. IsStream(in \o line, p) /\ Len(in \o line) = Len(in) + 2
    <3>1. in \in Seq(Chunk) /\ line \in Seq(Chunk) /\ p \in Nat /\ Len(in) \in Nat
      BY <1>3, <1>4, <1>6
    <3>2. p + Len(in) = 2 * sent[c]
      BY <1>5
    <3>3. IsStream(in, p) /\ IsStream(line, p + Len(in))
      BY <1>3, <1>5, <3>2, Zenon
    <3>4. /\ IsStream(in \o line, p) <=> IsStream(in, p) /\ IsStream(line, p + Len(in))
          /\ Len(in \o line) = Len(in) + Len(line)
      BY ONLY <3>1, StreamConcat
    <3>5. Len(line) = 2
      BY <1>3, Zenon
    <3> QED BY <3>3, <3>4, <3>5, Zenon
  <2>2. p + Len(in \o line) = 2 * (sent[c] + 1)
    <3> DEFINE n == sent[c]
               x == Len(in)
               y == Len(in \o line)
    <3>1. n \in Nat /\ x \in Nat /\ p \in Nat /\ y = x + 2 /\ p + x = 2 * n
      BY <1>2, <1>4, <1>5, <1>6, <2>1
    <3> HIDE DEF n, x, y
    <3>2. p + y = 2 * (n + 1)
      BY <3>1
    <3> QED BY <3>2 DEF n, y
  <2>3. sent'[c] <= Len(script'[c]) /\ sent'[c] > 0
    BY <1>1, <1>2
  <2>4. Consumed(c)' = p
    BY <1>4 DEF p
  <2>5. p + Len(in \o line) <= 2 * (sent[c] + 1)
    BY <1>2, <2>2
  <2> QED BY <1>1, <1>6, <2>1, <2>2, <2>3, <2>4, <2>5, Zenon DEF UpInv
<1>8. DownInv(c)'
  <2>1. /\ r \in Nat /\ IsStream(resp[c] \o down[c], r) /\ ~HasLine(resp[c])
        /\ r >= 2 * (sent[c] - timeouts[c])
    BY <1>1, <1>2 DEF Inv, DownInv
  <2>2. r <= 2 * sent[c]
    <3> DEFINE n == sent[c]
               x == Len(resp[c])
               y == Len(down[c])
               z == Len(in)
    <3>1. /\ n \in Nat /\ x \in Nat /\ y \in Nat /\ z \in Nat /\ p \in Nat
          /\ r = p - x - y /\ p + z = 2 * n
      BY <1>2, <1>4, <1>5, <1>6 DEF Read
    <3> HIDE DEF n, x, y, z, p, r
    <3>2. r <= 2 * n
      BY <3>1
    <3> QED BY <3>2 DEF n
  <2> HIDE DEF r
  <2>3. r >= 2 * (sent[c] + 1 - timeouts[c] - 1)
    BY <1>2, <2>1
  <2>4. timeouts[c] = 0 => r = 2 * (sent[c] + 1 - 1)
    BY <1>2, <2>1, <2>2
  <2>5. Read(c)' = r
    BY <1>4 DEF r
  <2>6. /\ phase'[c] = "waiting" /\ sent'[c] = sent[c] + 1 /\ timeouts'[c] = timeouts[c]
        /\ resp'[c] = resp[c] /\ down'[c] = down[c]
    BY <1>1
  <2>7. r >= 2 * (sent'[c] - timeouts'[c] - IF phase'[c] = "waiting" THEN 1 ELSE 0)
    <3> DEFINE w == IF phase'[c] = "waiting" THEN 1 ELSE 0
               n == sent'[c]
               t == timeouts'[c]
               m == sent[c]
               q == timeouts[c]
    <3>1. w = 1 /\ n = m + 1 /\ t = q /\ m \in Nat /\ q \in Nat /\ r \in Nat /\ r >= 2 * (m - q)
      BY <1>2, <2>1, <2>6
    <3> HIDE DEF w, n, t, m, q
    <3>2. r >= 2 * (n - t - w)
      BY <3>1
    <3> QED BY <3>2 DEF w, n, t
  <2>8. timeouts'[c] = 0 => r = 2 * (sent'[c] - 1)
    <3> DEFINE n == sent'[c]
               t == timeouts'[c]
               m == sent[c]
    <3>1. n = m + 1 /\ m \in Nat /\ (t = 0 => r = 2 * (m + 1 - 1))
      BY <1>2, <2>4, <2>6
    <3> HIDE DEF n, t, m
    <3>2. t = 0 => r = 2 * (n - 1)
      BY <3>1
    <3> QED BY <3>2 DEF n, t
  <2>9. phase'[c] # "idle"
    BY <2>6
  <2>10. IsStream(resp'[c] \o down'[c], r) /\ ~HasLine(resp'[c])
    BY <2>1, <2>6
  <2> QED BY <2>1, <2>5, <2>7, <2>8, <2>9, <2>10, Zenon DEF DownInv
<1>9. ServedInv(c)' /\ ShownInv(c)'
    BY <1>1 DEF Inv, ServedInv, ShownInv
<1> QED
    BY <1>7, <1>8, <1>9 DEF Inv

\* A timeout gives an answer up: the client is one answer further behind.
LEMMA TimeoutLocal ==
    ASSUME TypeInv, NEW c \in Client, Inv(c), Timeout(c)
    PROVE  Inv(c)'
<1>1. /\ phase[c] = "waiting" /\ down[c] = <<>> /\ timeouts'[c] = timeouts[c] + 1
      /\ phase'[c] \in {"idle", "gone"} /\ resp'[c] = <<>>
      /\ UNCHANGED <<script, sent, shown, up, down, buffer, served>>
    BY DEF Timeout, TypeInv, serverVars
<1>2. /\ sent[c] \in Nat /\ timeouts[c] \in Nat
      /\ Len(served[c]) \in Nat /\ Len(resp[c]) \in Nat /\ Len(down[c]) = 0
    BY <1>1, ClientTypes
<1>3. UpInv(c)'
    BY <1>1 DEF Inv, UpInv, Consumed
<1>4. DownInv(c)'
  <2> DEFINE p == Consumed(c)
             r == Read(c)
  <2>1. r = p - Len(resp[c]) /\ p \in Nat /\ Consumed(c)' = p
    BY <1>1, <1>2 DEF Read, Consumed
  <2>2. r >= 2 * (sent[c] - timeouts[c] - 1)
    BY <1>1 DEF Inv, DownInv
  <2>3. Read(c)' = p
    BY <1>1, <1>2, <2>1 DEF Read
  <2> HIDE DEF p, r
  <2>4. p >= 2 * (sent[c] - (timeouts[c] + 1))
    BY <1>2, <2>1, <2>2, SMTT(20)
  <2>5. IsStream(<<>> \o <<>>, p) /\ ~HasLine(<<>>)
    BY DEF IsStream, HasLine
  <2> QED BY <1>1, <1>2, <2>1, <2>3, <2>4, <2>5 DEF DownInv
<1>5. ServedInv(c)' /\ ShownInv(c)'
    BY <1>1 DEF Inv, ServedInv, ShownInv
<1> QED
    BY <1>3, <1>4, <1>5 DEF Inv

\* What a dying client leaves on the wire is a prefix of what it sent.
LEMMA KillLocal ==
    ASSUME TypeInv, NEW c \in Client, Inv(c), Kill(c)
    PROVE  Inv(c)'
<1>1. PICK n \in 0..Len(up[c]) : up' = [up EXCEPT ![c] = SubSeq(@, 1, n)]
    BY DEF Kill
<1>2. /\ phase'[c] = "gone" /\ up'[c] = SubSeq(up[c], 1, n)
      /\ UNCHANGED <<script, sent, shown, buffer, served>>
    BY <1>1 DEF Kill, TypeInv, serverVars
<1> DEFINE a == SubSeq(up[c], 1, n)
           b == SubSeq(up[c], n + 1, Len(up[c]))
           p == Consumed(c)
<1>3. /\ up[c] \in Seq(Chunk) /\ buffer[c] \in Seq(Chunk) /\ Len(served[c]) \in Nat
      /\ sent[c] \in Nat
    BY ClientTypes
<1>4. /\ a \in Seq(Chunk) /\ b \in Seq(Chunk) /\ a \o b = up[c]
    BY <1>3, Cutting
<1>5. /\ IsStream(buffer[c] \o up[c], p) /\ p + Len(buffer[c] \o up[c]) <= 2 * sent[c]
      /\ sent[c] <= Len(script[c]) /\ p \in Nat /\ Consumed(c)' = p
  <2>1. p \in Nat /\ Consumed(c)' = p
    BY <1>2, <1>3 DEF Consumed
  <2>2. /\ IsStream(buffer[c] \o up[c], p) /\ p + Len(buffer[c] \o up[c]) <= 2 * sent[c]
        /\ sent[c] <= Len(script[c])
    BY DEF Inv, UpInv
  <2> QED BY <2>1, <2>2
<1> HIDE DEF a, b, p
<1>6. buffer[c] \o up[c] = (buffer[c] \o a) \o b
  <2>1. (buffer[c] \o a) \o b = buffer[c] \o (a \o b)
    <3>1. buffer[c] \in Seq(Chunk) /\ a \in Seq(Chunk) /\ b \in Seq(Chunk)
      BY <1>3, <1>4
    <3> QED BY ONLY <3>1, Associativity
  <2> QED BY <1>4, <2>1, Zenon
<1>7. buffer[c] \o a \in Seq(Chunk)
    BY <1>3, <1>4
<1>8. IsStream(buffer[c] \o a, p) /\ Len(buffer[c] \o up[c]) = Len(buffer[c] \o a) + Len(b)
    BY <1>4, <1>5, <1>6, <1>7, StreamConcat
<1>9. p + Len(buffer[c] \o a) <= 2 * sent[c]
  <2> DEFINE x == Len(buffer[c] \o a)
             y == Len(b)
             z == Len(buffer[c] \o up[c])
  <2>1. x \in Nat /\ y \in Nat /\ z = x + y /\ p + z <= 2 * sent[c]
    BY <1>4, <1>5, <1>7, <1>8
  <2> HIDE DEF x, y, z
  <2>2. p + x <= 2 * sent[c]
    BY <1>3, <1>5, <2>1
  <2> QED BY <2>2 DEF x
<1>10. UpInv(c)'
  <2>1. up'[c] = a
    BY <1>2 DEF a
  <2> QED BY <1>2, <1>5, <1>8, <1>9, <2>1 DEF UpInv
<1>11. DownInv(c)' /\ ServedInv(c)' /\ ShownInv(c)'
    BY <1>2 DEF Inv, DownInv, ServedInv, ShownInv
<1> QED
    BY <1>10, <1>11 DEF Inv

\* Bytes that arrive at the server move from the wire to the buffer in order.
LEMMA ReceiveLocal ==
    ASSUME TypeInv, NEW c \in Client, Inv(c), Receive(c)
    PROVE  Inv(c)'
<1>1. PICK n \in 1..Len(up[c]) :
        /\ up' = [up EXCEPT ![c] = SubSeq(@, n + 1, Len(@))]
        /\ buffer' = [buffer EXCEPT ![c] = @ \o SubSeq(up[c], 1, n)]
    BY DEF Receive
<1>2. /\ up'[c] = SubSeq(up[c], n + 1, Len(up[c]))
      /\ buffer'[c] = buffer[c] \o SubSeq(up[c], 1, n)
      /\ UNCHANGED <<script, phase, sent, resp, timeouts, shown, down, served>>
    BY <1>1 DEF Receive, TypeInv, clientVars
<1>3. up[c] \in Seq(Chunk) /\ buffer[c] \in Seq(Chunk)
    BY ClientTypes
<1>4. buffer'[c] \o up'[c] = buffer[c] \o up[c]
  <2> DEFINE a == SubSeq(up[c], 1, n)
             b == SubSeq(up[c], n + 1, Len(up[c]))
  <2>1. a \in Seq(Chunk) /\ b \in Seq(Chunk) /\ a \o b = up[c]
    <3>1. n \in 0..Len(up[c])
      OBVIOUS
    <3> QED BY <1>3, <3>1, Cutting, Zenon
  <2>2. buffer'[c] \o up'[c] = (buffer[c] \o a) \o b
    BY <1>2
  <2> HIDE DEF a, b
  <2>3. (buffer[c] \o a) \o b = buffer[c] \o (a \o b)
    <3>1. buffer[c] \in Seq(Chunk) /\ a \in Seq(Chunk) /\ b \in Seq(Chunk)
      BY <1>3, <2>1
    <3> QED BY ONLY <3>1, Associativity
  <2> QED BY <2>1, <2>2, <2>3, Zenon
<1>5. UpInv(c)'
    BY <1>2, <1>4 DEF Inv, UpInv, Consumed
<1>6. DownInv(c)'
    BY <1>2 DEF Inv, DownInv, Read, Consumed
<1>7. ServedInv(c)' /\ ShownInv(c)'
    BY <1>2 DEF Inv, ServedInv, ShownInv
<1> QED
    BY <1>5, <1>6, <1>7 DEF Inv

\* A line is served: the server has consumed two chunks more, and unless the client
\* has gone the two chunks of the answer are on the way to it.
LEMMA ServeLocal ==
    ASSUME TypeInv, NEW c \in Client, Inv(c), ServeLine(c)
    PROVE  Inv(c)'
<1> DEFINE i == Len(served[c]) + 1
           b == buffer[c]
           p == Consumed(c)
           r == Read(c)
           line == Bytes(i)
<1>1. UpInv(c) /\ HasLine(buffer[c])
    BY DEF Inv, ServeLine
<1>2. i \in 1..sent[c] /\ script[c][i] \in Command /\ Bytes(i) \in Seq(Chunk) /\ Len(b) >= 2
    BY <1>1, NextLine
<1>3. /\ served' = [served EXCEPT ![c] = Append(@, [text |-> Bytes(i), cmd |-> script[c][i]])]
      /\ down' = [down EXCEPT ![c] = IF phase[c] = "gone" THEN @ ELSE @ \o Bytes(i)]
      /\ buffer' = [buffer EXCEPT ![c] = SubSeq(@, 3, Len(@))]
      /\ UNCHANGED <<clientVars, up>>
    BY <1>1, Serving
<1>4. /\ served'[c] = Append(served[c], [text |-> Bytes(i), cmd |-> script[c][i]])
      /\ down'[c] = IF phase[c] = "gone" THEN down[c] ELSE down[c] \o Bytes(i)
      /\ buffer'[c] = SubSeq(b, 3, Len(b)) /\ up'[c] = up[c]
      /\ UNCHANGED <<script, phase, sent, resp, timeouts, shown>>
    BY <1>3 DEF TypeInv, clientVars
<1>5. /\ sent[c] \in Nat /\ b \in Seq(Chunk) /\ up[c] \in Seq(Chunk) /\ Len(served[c]) \in Nat
      /\ resp[c] \in Seq(Chunk) /\ down[c] \in Seq(Chunk) /\ Len(b) \in Nat
      /\ Len(resp[c]) \in Nat /\ Len(down[c]) \in Nat /\ served[c] \in Seq(Service)
    BY ClientTypes
<1>6. Len(served'[c]) = Len(served[c]) + 1
    BY <1>4, <1>5
<1>7. p \in Nat /\ Consumed(c)' = p + 2 /\ p = 2 * (i - 1) /\ i - 1 \in Nat
    BY <1>5, <1>6 DEF Consumed
<1>8. Len(line) = 2 /\ IsStream(line, p)
  <2>1. (i - 1) + 1 = i
    BY <1>5
  <2> HIDE DEF p, i
  <2> QED BY <1>7, <2>1, BytesStream
<1>9. UpInv(c)'
  <2> DEFINE a == SubSeq(b, 1, 2)
             d == SubSeq(b, 2 + 1, Len(b))
             in == d \o up[c]
  <2>1. /\ a \in Seq(Chunk) /\ Len(a) = 2 /\ d \in Seq(Chunk) /\ a \o d = b
    BY <1>2, <1>5, Cutting
  <2>2. d = SubSeq(b, 3, Len(b))
    OBVIOUS
  <2>3. /\ IsStream(b \o up[c], p) /\ p + Len(b \o up[c]) <= 2 * sent[c]
        /\ phase[c] # "gone" => p + Len(b \o up[c]) = 2 * sent[c]
        /\ sent[c] <= Len(script[c]) /\ (phase[c] = "waiting" => sent[c] > 0)
    BY <1>1 DEF UpInv
  <2>4. buffer'[c] \o up'[c] = in
    BY <1>4, <2>2
  <2> HIDE DEF a, d, p, b
  <2>5. in \in Seq(Chunk)
    BY <1>5, <2>1
  <2>6. b \o up[c] = a \o in
    <3>1. a \in Seq(Chunk) /\ d \in Seq(Chunk) /\ up[c] \in Seq(Chunk)
      BY <1>5, <2>1
    <3>2. (a \o d) \o up[c] = a \o (d \o up[c])
      BY <3>1, Associativity, ZenonT(30)
    <3> QED BY <2>1, <3>2, Zenon
  <2> HIDE DEF in
  <2>7. IsStream(in, p + 2) /\ Len(b \o up[c]) = 2 + Len(in)
    <3>1. p \in Nat /\ a \in Seq(Chunk) /\ in \in Seq(Chunk) /\ Len(a) = 2
          /\ IsStream(a \o in, p)
      BY <1>7, <2>1, <2>3, <2>5, <2>6, Zenon
    <3> HIDE DEF i, line, r
    <3> QED BY <2>6, <3>1, StreamConcat
  <2>8. /\ p + 2 + Len(in) <= 2 * sent[c]
        /\ phase[c] # "gone" => p + 2 + Len(in) = 2 * sent[c]
    <3> DEFINE x == Len(in)
               y == Len(b \o up[c])
               n == 2 * sent[c]
    <3>1. /\ x \in Nat /\ n \in Nat /\ y = 2 + x /\ p + y <= n /\ (phase[c] # "gone" => p + y = n)
      BY <1>5, <2>3, <2>5, <2>7
    <3>3. p \in Nat
      BY <1>7
    <3> HIDE DEF x, y, n, i
    <3>2. p + 2 + x <= n /\ (phase[c] # "gone" => p + 2 + x = n)
      BY <3>1, <3>3
    <3> QED BY <3>2 DEF x, n
  <2>9. /\ phase'[c] = phase[c] /\ sent'[c] = sent[c] /\ script'[c] = script[c]
        /\ Consumed(c)' = p + 2
    BY <1>4, <1>7 DEF p
  <2> QED BY <2>3, <2>4, <2>7, <2>8, <2>9, Zenon DEF UpInv
<1>10. DownInv(c)'
  <2>1. SUFFICES ASSUME phase[c] # "gone" PROVE DownInv(c)'
    BY <1>4 DEF DownInv
  <2>2. /\ r \in Nat /\ IsStream(resp[c] \o down[c], r) /\ ~HasLine(resp[c])
        /\ phase[c] = "idle" => resp[c] = <<>>
        /\ r >= 2 * (sent[c] - timeouts[c] - IF phase[c] = "waiting" THEN 1 ELSE 0)
        /\ timeouts[c] = 0 /\ phase[c] = "waiting" => r = 2 * (sent[c] - 1)
    BY <2>1 DEF Inv, DownInv
  <2>3. down'[c] = down[c] \o line
    BY <1>4, <2>1
  <2>4. Len(down'[c]) = Len(down[c]) + 2
    <3>1. line \in Seq(Chunk) /\ down[c] \in Seq(Chunk) /\ Len(line) = 2
      BY <1>2, <1>5, <1>8
    <3> HIDE DEF line, i
    <3>2. Len(down[c] \o line) = Len(down[c]) + Len(line)
      BY <3>1, ConcatIndex
    <3> QED BY <2>3, <3>1, <3>2, Zenon
  <2>5. Read(c)' = r
    <3> DEFINE x == Len(resp[c])
               y == Len(down[c])
    <3>1. x \in Nat /\ y \in Nat /\ r = p - x - y /\ Read(c)' = (p + 2) - x - (y + 2)
      BY <1>4, <1>5, <1>7, <2>4 DEF Read
    <3> HIDE DEF x, y, p, r
    <3> QED BY <1>7, <3>1
  <2>6. IsStream(resp'[c] \o down'[c], r)
    <3> DEFINE out == resp[c] \o down[c]
    <3>1. out \in Seq(Chunk) /\ Len(out) = Len(resp[c]) + Len(down[c])
      BY <1>5, ConcatIndex
    <3>2. r + Len(out) = p
      <4> DEFINE x == Len(resp[c])
                 y == Len(down[c])
      <4>1. x \in Nat /\ y \in Nat /\ r = p - x - y /\ Len(out) = x + y
        BY <1>5, <3>1 DEF Read
      <4>2. p \in Nat
        BY <1>7
      <4> HIDE DEF x, y, p, r, out, i
      <4> QED BY <4>1, <4>2
    <3>3. resp'[c] \o down'[c] = resp[c] \o (down[c] \o line)
      BY <1>4, <2>3
    <3>4. line \in Seq(Chunk)
      BY <1>2
    <3> HIDE DEF line, r, p
    <3>5. (resp[c] \o down[c]) \o line = resp[c] \o (down[c] \o line)
      <4>1. resp[c] \in Seq(Chunk) /\ down[c] \in Seq(Chunk)
        BY <1>5
      <4> HIDE DEF out
      <4> QED BY ONLY <4>1, <3>4, Associativity
    <3>6. IsStream(line, r + Len(out)) /\ IsStream(out, r)
      BY <1>8, <2>2, <3>2
    <3> HIDE DEF out
    <3>7. IsStream(out \o line, r)
      BY <2>2, <3>1, <3>4, <3>6, StreamConcat
    <3> QED BY <3>3, <3>5, <3>7, Zenon DEF out
  <2>7. /\ phase'[c] = phase[c] /\ sent'[c] = sent[c] /\ timeouts'[c] = timeouts[c]
        /\ resp'[c] = resp[c]
    BY <1>4
  <2> HIDE DEF r
  <2> QED BY <2>2, <2>5, <2>6, <2>7, Zenon DEF DownInv
<1>11. ServedInv(c)'
  <2> SUFFICES ASSUME NEW j \in 1..Len(served'[c])
               PROVE  served'[c][j].text = Bytes(j) /\ served'[c][j].cmd = script'[c][j]
    BY DEF ServedInv
  <2>1. CASE j = i
    <3>1. served'[c][i] = [text |-> Bytes(i), cmd |-> script[c][i]]
      BY <1>4, <1>5
    <3> HIDE DEF i
    <3> QED BY <1>4, <2>1, <3>1
  <2>2. CASE j # i
    <3>1. j \in 1..Len(served[c])
      BY <1>5, <1>6, <2>2
    <3>2. served'[c][j] = served[c][j]
      BY <1>4, <1>5, <3>1
    <3>3. served[c][j].text = Bytes(j) /\ served[c][j].cmd = script[c][j]
      BY <3>1 DEF Inv, ServedInv
    <3> QED BY <1>4, <3>2, <3>3
  <2> QED BY <2>1, <2>2
<1>12. ShownInv(c)'
    BY <1>4 DEF Inv, ShownInv
<1> QED
    BY <1>9, <1>10, <1>11, <1>12 DEF Inv

\* Two chunks that begin a line are its bytes.
LEMMA WholeLine ==
    ASSUME NEW s \in Seq(Chunk), NEW i \in Nat, IsStream(s, 2 * i), Len(s) = 2
    PROVE  s = Bytes(i + 1)
<1>1. s[1] = At(2 * i + 1) /\ s[2] = At(2 * i + 2)
    BY DEF IsStream
<1>2. s = <<s[1], s[2]>>
    OBVIOUS
<1>3. <<At(2 * i + 1), At(2 * i + 2)>> = Bytes(i + 1)
    BY LineAt DEF Bytes
<1> QED
    BY <1>1, <1>2, <1>3, Zenon

\* Which line a chunk belongs to.
LEMMA LineOfChunk ==
    ASSUME NEW s \in Seq(Chunk), NEW r \in Nat, IsStream(s, r), NEW n \in Nat, NEW t \in Nat,
           r >= 2 * (n - t - 1), r + Len(s) <= 2 * n, NEW j \in 1..Len(s)
    PROVE  s[j].line \in (n - t)..n
<1>1. s[j] = At(r + j)
    BY DEF IsStream
<1>2. s[j].line = (r + j + 1) \div 2
    BY <1>1 DEF At
<1>3. r + j + 1 >= 2 * (n - t) /\ r + j + 1 <= 2 * n + 1
    OBVIOUS
<1>4. (r + j + 1) \div 2 \in (n - t)..n
    BY <1>3
<1> QED
    BY <1>2, <1>4

\* What recv returns continues what send has, and the rest stays in the socket.  What a
\* client is shown before its first timeout is the answer to a line that was served.
LEMMA RecvLocal ==
    ASSUME TypeInv, NEW c \in Client, Inv(c), Recv(c)
    PROVE  /\ Inv(c)'
           /\ shown'[c] # shown[c] /\ timeouts[c] = 0 => sent[c] \in 1..Len(served[c])
<1>1. PICK n \in 1..Len(down[c]) :
         LET all == resp[c] \o SubSeq(down[c], 1, n)
             view == [cmd |-> sent[c], late |-> timeouts[c], text |-> all]
         IN  /\ down' = [down EXCEPT ![c] = SubSeq(@, n + 1, Len(@))]
             /\ resp' = [resp EXCEPT ![c] = IF HasLine(all) THEN <<>> ELSE all]
             /\ IF HasLine(all)
                THEN /\ shown' = [shown EXCEPT ![c] = Append(@, view)]
                     /\ phase' = [phase EXCEPT ![c] = IF Quitting(c) THEN "gone" ELSE "idle"]
                     /\ since' = [since EXCEPT ![c] = 0]
                ELSE UNCHANGED <<shown, phase, since>>
    BY DEF Recv
<1> DEFINE a == SubSeq(down[c], 1, n)
           d == SubSeq(down[c], n + 1, Len(down[c]))
           all == resp[c] \o a
           view == [cmd |-> sent[c], late |-> timeouts[c], text |-> all]
           p == Consumed(c)
           r == Read(c)
           s == sent[c]
           t == timeouts[c]
<1>2. phase[c] = "waiting" /\ UNCHANGED <<script, sent, timeouts, up, buffer, served>>
    BY DEF Recv, serverVars
<1>3. /\ down'[c] = d
      /\ resp'[c] = IF HasLine(all) THEN <<>> ELSE all
      /\ HasLine(all) => shown'[c] = Append(shown[c], view) /\ phase'[c] \in {"idle", "gone"}
      /\ ~HasLine(all) => shown'[c] = shown[c] /\ phase'[c] = phase[c]
    BY <1>1, SMTT(20) DEF TypeInv
<1>4. /\ s \in Nat /\ t \in Nat /\ resp[c] \in Seq(Chunk) /\ down[c] \in Seq(Chunk)
      /\ Len(served[c]) \in Nat /\ shown[c] \in Seq(View) /\ Len(resp[c]) \in Nat
      /\ Len(down[c]) \in Nat
    BY ClientTypes
<1>5. /\ a \in Seq(Chunk) /\ Len(a) = n /\ d \in Seq(Chunk) /\ Len(d) = Len(down[c]) - n
      /\ a \o d = down[c]
  <2>1. down[c] \in Seq(Chunk) /\ n \in 0..Len(down[c])
    BY <1>4
  <2> QED BY <2>1, Cutting
<1>6. p \in Nat /\ Consumed(c)' = p
    BY <1>2, <1>4 DEF Consumed
<1>7. /\ r \in Nat /\ IsStream(resp[c] \o down[c], r)
      /\ r >= 2 * (s - t - 1) /\ (t = 0 => r = 2 * (s - 1))
    BY <1>2 DEF Inv, DownInv
<1>8. s > 0 /\ p <= 2 * s
  <2>1. p + Len(buffer[c] \o up[c]) <= 2 * s /\ s > 0
    BY <1>2 DEF Inv, UpInv
  <2>2. Len(buffer[c] \o up[c]) \in Nat
    BY ClientTypes, ConcatIndex
  <2> DEFINE x == Len(buffer[c] \o up[c])
  <2>3. x \in Nat /\ p \in Nat /\ s \in Nat /\ p + x <= 2 * s
    BY <1>4, <1>6, <2>1, <2>2
  <2> HIDE DEF p, s, x
  <2> QED BY <2>1, <2>3
<1> HIDE DEF a, d
<1>9. /\ all \in Seq(Chunk) /\ Len(all) \in Nat /\ Len(all) = Len(resp[c]) + Len(a)
      /\ resp[c] \o down[c] = all \o d
  <2>1. (resp[c] \o a) \o d = resp[c] \o (a \o d)
    <3>1. resp[c] \in Seq(Chunk) /\ a \in Seq(Chunk) /\ d \in Seq(Chunk)
      BY <1>4, <1>5
    <3> QED BY ONLY <3>1, Associativity
  <2>2. all \in Seq(Chunk) /\ Len(all) = Len(resp[c]) + Len(a)
    BY <1>4, <1>5, ConcatIndex
  <2> QED BY <1>4, <1>5, <2>1, <2>2
<1> HIDE DEF all, p, r
<1>10. IsStream(all, r) /\ IsStream(d, r + Len(all))
    BY <1>5, <1>7, <1>9, StreamConcat
<1>11. r + Len(all) = p - Len(d) /\ Len(d) \in Nat
  <2> DEFINE x == Len(resp[c])
             y == Len(down[c])
  <2>1. /\ x \in Nat /\ y \in Nat /\ r = p - x - y /\ n \in Nat /\ n <= y
        /\ Len(all) = x + n /\ Len(d) = y - n
    BY <1>4, <1>5, <1>9 DEF Read, p, r
  <2> HIDE DEF x, y
  <2> QED BY <1>6, <2>1
<1>12. r + Len(all) <= 2 * s
  <2> HIDE DEF s
  <2> QED BY <1>4, <1>6, <1>7, <1>8, <1>9, <1>11
<1>13. ASSUME HasLine(all)
       PROVE  r + Len(all) >= 2 * (s - t) /\ (t = 0 => all = Bytes(s))
  <2>1. PICK k \in Nat : r < 2 * k + 2 /\ 2 * k + 2 <= r + Len(all)
    BY <1>7, <1>9, <1>10, <1>13, LineInStream
  <2> HIDE DEF s, t
  <2>2. r + Len(all) >= 2 * (s - t)
    <3>1. k + 1 > s - t - 1
      BY <1>4, <1>7, <2>1
    <3> QED BY <1>4, <1>7, <1>9, <2>1, <3>1
  <2>3. ASSUME t = 0 PROVE all = Bytes(s)
    <3>1. r = 2 * (s - 1) /\ s - 1 \in Nat
      BY <1>4, <1>7, <1>8, <2>3
    <3>2. k + 1 >= s
      BY <1>4, <2>1, <3>1
    <3>3. Len(all) = 2
      <4> DEFINE x == Len(all)
      <4>1. x \in Nat /\ r + x <= 2 * s /\ 2 * k + 2 <= r + x /\ s \in Nat
        BY <1>4, <1>9, <1>12, <2>1
      <4> HIDE DEF x
      <4>2. x = 2
        BY <3>1, <3>2, <4>1
      <4> QED BY <4>2 DEF x
    <3>4. IsStream(all, 2 * (s - 1))
      BY <1>10, <3>1
    <3>5. all = Bytes((s - 1) + 1)
      BY <1>9, <3>1, <3>3, <3>4, WholeLine
    <3>6. (s - 1) + 1 = s
      BY <1>4
    <3> QED BY <3>5, <3>6, Zenon
  <2> QED BY <2>2, <2>3
<1>14. UpInv(c)'
  <2>1. phase'[c] # "waiting" \/ phase'[c] = phase[c]
    BY <1>3
  <2>2. buffer'[c] = buffer[c] /\ up'[c] = up[c] /\ sent'[c] = sent[c] /\ script'[c] = script[c]
    BY <1>2
  <2>3. Consumed(c)' = Consumed(c)
    BY <1>6 DEF p
  <2> QED BY <1>2, <2>1, <2>2, <2>3 DEF Inv, UpInv
<1>15. DownInv(c)'
  <2>1. CASE HasLine(all)
    <3>1. SUFFICES ASSUME phase'[c] # "gone" PROVE DownInv(c)'
      BY DEF DownInv
    <3>2. resp'[c] = <<>> /\ down'[c] = d /\ phase'[c] = "idle" /\ sent'[c] = s /\ timeouts'[c] = t
      BY <1>2, <1>3, <2>1, <3>1
    <3>3. Read(c)' = r + Len(all)
      <4>1. Read(c)' = p - 0 - Len(d)
        BY <1>6, <3>2 DEF Read
      <4> HIDE DEF s, t
      <4> QED BY <1>6, <1>11, <4>1
    <3>4. IsStream(resp'[c] \o down'[c], r + Len(all)) /\ ~HasLine(resp'[c])
      <4>1. <<>> \o d = d
        BY <1>5, Associativity
      <4>2. ~HasLine(<<>>)
        BY DEF HasLine
      <4> QED BY <1>10, <3>2, <4>1, <4>2
    <3>5. r + Len(all) \in Nat
      BY <1>7, <1>9
    <3>6. r + Len(all) >= 2 * (sent'[c] - timeouts'[c] - IF phase'[c] = "waiting" THEN 1 ELSE 0)
      <4> DEFINE w == IF phase'[c] = "waiting" THEN 1 ELSE 0
      <4>1. w = 0
        BY <3>2
      <4>2. r + Len(all) >= 2 * (s - t)
        BY <1>13, <2>1
      <4> HIDE DEF w, s, t
      <4>3. r + Len(all) >= 2 * (s - t - w)
        BY <1>4, <4>1, <4>2
      <4> QED BY <3>2, <4>3 DEF w
    <3> QED BY <3>2, <3>3, <3>4, <3>5, <3>6 DEF DownInv
  <2>2. CASE ~HasLine(all)
    <3>1. /\ resp'[c] = all /\ down'[c] = d /\ phase'[c] = phase[c] /\ sent'[c] = sent[c]
          /\ timeouts'[c] = timeouts[c]
      BY <1>2, <1>3, <2>2
    <3>2. Read(c)' = r
      <4>1. Read(c)' = p - Len(all) - Len(d)
        BY <1>6, <3>1 DEF Read
      <4> DEFINE x == Len(all)
                 y == Len(d)
      <4>2. x \in Nat /\ y \in Nat /\ p \in Nat /\ r \in Nat /\ r + x = p - y
            /\ Read(c)' = p - x - y
        BY <1>6, <1>7, <1>9, <1>11, <4>1
      <4> HIDE DEF x, y
      <4>3. p - x - y = r
        BY <4>2
      <4> QED BY <4>2, <4>3, Zenon
    <3>3. IsStream(resp'[c] \o down'[c], r) /\ ~HasLine(resp'[c])
      BY <1>7, <1>9, <2>2, <3>1
    <3>4. Read(c) = r
      BY DEF r
    <3> QED BY <1>2, <3>1, <3>2, <3>3, <3>4 DEF Inv, DownInv
  <2> QED BY <2>1, <2>2
<1>16. ServedInv(c)'
    BY <1>2 DEF Inv, ServedInv
<1>17. ShownInv(c)'
  <2>1. CASE ~HasLine(all)
    BY <1>3, <2>1 DEF Inv, ShownInv
  <2>2. CASE HasLine(all)
    <3>1. shown'[c] = Append(shown[c], view)
      BY <1>3, <2>2
    <3>2. ASSUME NEW i \in 1..Len(shown'[c])
          PROVE  shown'[c][i] = view \/ (i \in 1..Len(shown[c]) /\ shown'[c][i] = shown[c][i])
      <4> HIDE DEF view
      <4> QED BY <1>4, <3>1
    <3>3. view.late = 0 => view.text = Bytes(view.cmd)
      BY <1>13, <2>2
    <3>4. ASSUME NEW j \in 1..Len(view.text)
          PROVE  view.text[j].line \in (view.cmd - view.late)..view.cmd
      <4>1. j \in 1..Len(all)
        OBVIOUS
      <4> HIDE DEF s, t
      <4>2. all[j].line \in (s - t)..s
        BY <1>4, <1>7, <1>9, <1>10, <1>12, <4>1, LineOfChunk
      <4> QED BY <4>2 DEF s, t
    <3> HIDE DEF view
    <3> QED BY <3>2, <3>3, <3>4 DEF Inv, ShownInv
  <2> QED BY <2>1, <2>2
<1>18. ASSUME shown'[c] # shown[c], timeouts[c] = 0
       PROVE  sent[c] \in 1..Len(served[c])
  <2>1. r + Len(all) >= 2 * (s - t)
    BY <1>3, <1>13, <1>18
  <2> DEFINE x == Len(d)
             y == r + Len(all)
             l == Len(served[c])
  <2>2. /\ s \in Nat /\ s > 0 /\ t = 0 /\ x \in Nat /\ l \in Nat /\ p = 2 * l
        /\ y = p - x /\ y >= 2 * (s - t)
    BY <1>4, <1>8, <1>11, <1>18, <2>1 DEF Consumed, p
  <2> HIDE DEF x, y, l, s, t, p
  <2>3. s \in 1..l
    BY <2>2
  <2> QED BY <2>3 DEF l, s
<1> QED
    BY <1>14, <1>15, <1>16, <1>17, <1>18 DEF Inv

\* The connections a step is not about are as they were.
LEMMA Elsewhere ==
    ASSUME TypeInv, NEW c \in Client, NEW d \in Client, d # c,
           Send(c) \/ Recv(c) \/ Timeout(c) \/ Kill(c) \/ Receive(c) \/ ServeLine(c)
    PROVE  /\ script'[d] = script[d] /\ phase'[d] = phase[d] /\ sent'[d] = sent[d]
           /\ resp'[d] = resp[d] /\ timeouts'[d] = timeouts[d] /\ shown'[d] = shown[d]
           /\ up'[d] = up[d] /\ down'[d] = down[d] /\ buffer'[d] = buffer[d]
           /\ served'[d] = served[d]
<1>1. CASE Send(c)
    BY <1>1 DEF Send, TypeInv, serverVars
<1>2. CASE Recv(c)
  <2>1. UNCHANGED <<script, sent, timeouts, up, buffer, served>>
    BY <1>2 DEF Recv, serverVars
  <2>2. \E x, y : down' = [down EXCEPT ![c] = x] /\ resp' = [resp EXCEPT ![c] = y]
    BY <1>2 DEF Recv
  <2>3. /\ shown' = shown \/ \E x : shown' = [shown EXCEPT ![c] = x]
        /\ phase' = phase \/ \E x : phase' = [phase EXCEPT ![c] = x]
    BY <1>2 DEF Recv
  <2> QED BY <2>1, <2>2, <2>3 DEF TypeInv
<1>3. CASE Timeout(c)
    BY <1>3 DEF Timeout, TypeInv, serverVars
<1>4. CASE Kill(c)
    BY <1>4 DEF Kill, TypeInv, serverVars
<1>5. CASE Receive(c)
    BY <1>5 DEF Receive, TypeInv, clientVars
<1>6. CASE ServeLine(c)
  <2>1. UNCHANGED <<clientVars, up>> /\ buffer' = [buffer EXCEPT ![c] = AfterLine(@)]
    BY <1>6 DEF ServeLine
  <2>2. \E x, y : down' = [down EXCEPT ![c] = x] /\ served' = [served EXCEPT ![c] = y]
    BY <1>6 DEF ServeLine
  <2> QED BY <2>1, <2>2 DEF TypeInv, clientVars
<1> QED
    BY <1>1, <1>2, <1>3, <1>4, <1>5, <1>6

\* The streams stay streams.
LEMMA StreamStep ==
    ASSUME TypeInv, StreamInv, [Next]_vars
    PROVE  StreamInv'
<1>1. ASSUME NEW c \in Client,
             Send(c) \/ Recv(c) \/ Timeout(c) \/ Kill(c) \/ Receive(c) \/ ServeLine(c),
             NEW d \in Client
      PROVE  Inv(d)'
  <2>1. Inv(d)
    BY DEF StreamInv, Inv
  <2>2. CASE d = c
    BY <1>1, <2>1, <2>2, SendLocal, RecvLocal, TimeoutLocal, KillLocal, ReceiveLocal, ServeLocal
  <2>3. CASE d # c
    BY <1>1, <2>1, <2>3, Elsewhere, OtherClients
  <2> QED BY <2>2, <2>3
<1>2. ASSUME UNCHANGED vars, NEW d \in Client PROVE Inv(d)'
  <2>1. Inv(d)
    BY DEF StreamInv, Inv
  <2>2. UNCHANGED <<script, phase, sent, resp, timeouts, shown, up, down, buffer, served>>
    BY <1>2 DEF vars, clientVars, serverVars
  <2> QED BY <2>1, <2>2, OtherClients
<1>3. ASSUME NEW d \in Client PROVE Inv(d)'
  <2>1. (\E c \in Client : Send(c) \/ Recv(c) \/ Timeout(c) \/ Kill(c) \/ Receive(c) \/ ServeLine(c))
        \/ UNCHANGED vars
    BY DEF Next
  <2> QED BY <1>1, <1>2, <2>1
<1> QED
    BY <1>3 DEF StreamInv, Inv

\* Nothing has been said yet.
LEMMA StreamInit ==
    ASSUME Init
    PROVE  StreamInv
<1> SUFFICES ASSUME NEW c \in Client PROVE UpInv(c) /\ DownInv(c) /\ ServedInv(c) /\ ShownInv(c)
    BY DEF StreamInv
<1>1. /\ phase[c] = "idle" /\ sent[c] = 0 /\ resp[c] = <<>> /\ timeouts[c] = 0
      /\ shown[c] = <<>> /\ up[c] = <<>> /\ down[c] = <<>> /\ buffer[c] = <<>>
      /\ served[c] = <<>>
    BY DEF Init
<1>2. <<>> \o <<>> = <<>> /\ Len(<<>>) = 0 /\ IsStream(<<>>, 0) /\ ~HasLine(<<>>)
    BY DEF IsStream, HasLine
<1>3. Consumed(c) = 0 /\ Read(c) = 0
    BY <1>1, <1>2 DEF Consumed, Read
<1>4. Len(script[c]) \in Nat
    BY ScriptAssumption DEF Init
<1>5. UpInv(c)
    BY <1>1, <1>2, <1>3, <1>4 DEF UpInv
<1>6. DownInv(c)
    BY <1>1, <1>2, <1>3 DEF DownInv
<1>7. ServedInv(c) /\ ShownInv(c)
    BY <1>1, <1>2 DEF ServedInv, ShownInv
<1> QED
    BY <1>5, <1>6, <1>7

\* The argument about the streams.
LEMMA StreamInvHolds == Spec => [](TypeInv /\ StreamInv)
<1>1. Init => TypeInv /\ StreamInv
    BY TypeInit, StreamInit
<1>2. TypeInv /\ StreamInv /\ [Next]_vars => (TypeInv /\ StreamInv)'
    BY TypeStep, StreamStep
<1> QED
    BY <1>1, <1>2, PTL DEF Spec

\* A server is not ahead of its client.
LEMMA ServedWereSent ==
    ASSUME TypeInv, StreamInv, NEW c \in Client
    PROVE  Len(served[c]) <= sent[c]
<1> DEFINE n == Len(served[c])
           x == Len(buffer[c] \o up[c])
           s == sent[c]
<1>1. n \in Nat /\ s \in Nat /\ 2 * n + x <= 2 * s /\ x \in Nat
    BY ClientTypes, ConcatIndex DEF StreamInv, UpInv, Consumed
<1> HIDE DEF n, x, s
<1>2. n <= s
    BY <1>1
<1> QED
    BY <1>2 DEF n, s

\* For any connections and scripts, and however the streams are cut, a connection
\* executes the lines that were sent on it, each once, whole and in order (server.py
\* data_received).
THEOREM ExecutedAsSentHolds == Spec => []ExecutedAsSent
<1>1. TypeInv /\ StreamInv => ExecutedAsSent
  <2> SUFFICES ASSUME TypeInv, StreamInv, NEW c \in Client
               PROVE  /\ Len(served[c]) <= sent[c]
                      /\ \A i \in 1..Len(served[c]) :
                           served[c][i].text = Bytes(i) /\ served[c][i].cmd = script[c][i]
    BY DEF ExecutedAsSent
  <2>1. ServedInv(c) /\ UpInv(c)
    BY DEF StreamInv
  <2>2. Len(served[c]) <= sent[c]
    BY ServedWereSent
  <2> QED BY <2>1, <2>2 DEF ServedInv
<1> QED
    BY <1>1, StreamInvHolds, PTL

\* Until its first timeout a client shows the answer to each command, afterwards at
\* worst answers that are as many commands late as it had timeouts, never the answer
\* to a later command (client.py send and repl).
THEOREM AnswersMatchHolds == Spec => []AnswersMatch
<1>1. StreamInv => AnswersMatch
    BY DEF StreamInv, ShownInv, AnswersMatch
<1> QED
    BY <1>1, StreamInvHolds, PTL

----------------------------------------------------------------------------
(* The commands take effect one at a time *)

\* Content gives a value for every key.
LEMMA ContentIsMap ==
    ASSUME NEW n
    PROVE  /\ Content(n) = [k \in Key |-> Content(n)[k]]
           /\ Content(n)' = [k \in Key |-> Content(n)'[k]]
<1> DEFINE last(S) == CHOOSE i \in S : \A j \in S : j <= i
           left(r) == IF r.cmd.op = "PUT" THEN r.cmd.value ELSE None
           old(k) == IF Writes(n, k) = {} THEN None ELSE left(executed[last(Writes(n, k))])
           new(k) == IF Writes(n, k)' = {} THEN None ELSE left(executed'[last(Writes(n, k)')])
<1>1. Content(n) = [k \in Key |-> old(k)] /\ Content(n)' = [k \in Key |-> new(k)]
    BY DEF Content
<1> HIDE DEF old, new
<1>2. \A k \in Key : Content(n)[k] = old(k) /\ Content(n)'[k] = new(k)
    BY <1>1
<1> QED
    BY <1>1, <1>2

\* The entry that is added changes nothing about the ones before it.
LEMMA EarlierContent ==
    ASSUME executed \in Seq(Outcome), NEW e \in Outcome, executed' = Append(executed, e),
           NEW n \in 0..Len(executed)
    PROVE  Content(n)' = Content(n)
<1>1. \A i \in 1..n : executed'[i] = executed[i]
    BY SMT
<1>2. ASSUME NEW k \in Key PROVE Writes(n, k)' = Writes(n, k)
    BY <1>1 DEF Writes
<1>3. ASSUME NEW k \in Key PROVE Content(n)'[k] = Content(n)[k]
  <2> DEFINE W == Writes(n, k)
             V == Writes(n, k)'
             last(S) == CHOOSE i \in S : \A j \in S : j <= i
             left(r) == IF r.cmd.op = "PUT" THEN r.cmd.value ELSE None
  <2>1. Content(n)[k] = IF W = {} THEN None ELSE left(executed[last(W)])
    BY DEF Content
  <2>2. Content(n)'[k] = IF V = {} THEN None ELSE left(executed'[last(V)])
    BY DEF Content
  <2>3. ASSUME W # {} PROVE executed'[last(W)] = executed[last(W)]
    <3>1. W \in SUBSET (1..n) /\ n \in Nat
      BY DEF Writes
    <3>2. \E i \in W : \A j \in W : j <= i
      <4> HIDE DEF W
      <4> QED BY <2>3, <3>1, LastPosition
    <3>3. last(W) \in W
      <4> HIDE DEF W
      <4> QED BY <3>2
    <3> QED BY <1>1, <3>1, <3>3
  <2>4. V = W
    BY <1>2
  <2> HIDE DEF V, W, last, left
  <2> QED BY <2>1, <2>2, <2>3, <2>4
<1>4. Content(n) = [k \in Key |-> Content(n)[k]] /\ Content(n)' = [k \in Key |-> Content(n)'[k]]
    BY ContentIsMap
<1> QED
    BY <1>3, <1>4

\* What the entry that is added leaves in a key.
LEMMA LastContent ==
    ASSUME executed \in Seq(Outcome), NEW e \in Outcome, executed' = Append(executed, e),
           NEW n, n = Len(executed), NEW k \in Key
    PROVE  Content(n + 1)'[k] =
              IF e.answer # Error /\ e.cmd.op \in Mutations /\ (e.cmd.op = "FLUSH" \/ e.cmd.key = k)
              THEN IF e.cmd.op = "PUT" THEN e.cmd.value ELSE None
              ELSE Content(n)[k]
<1> DEFINE W == Writes(n, k)
           X == Writes(n + 1, k)'
           hit == /\ e.answer # Error /\ e.cmd.op \in Mutations
                  /\ e.cmd.op = "FLUSH" \/ e.cmd.key = k
           last(S) == CHOOSE i \in S : \A j \in S : j <= i
           left(r) == IF r.cmd.op = "PUT" THEN r.cmd.value ELSE None
<1>1. n \in Nat /\ executed'[n + 1] = e /\ \A i \in 1..n : executed'[i] = executed[i]
    BY SMT
<1>2. Content(n + 1)'[k] = IF X = {} THEN None ELSE left(executed'[last(X)])
    BY DEF Content
<1>3. Content(n)[k] = IF W = {} THEN None ELSE left(executed[last(W)])
    BY DEF Content
<1>4. W \subseteq 1..n /\ X \subseteq 1..(n + 1)
    BY DEF Writes
<1>5. \A i \in 1..n : i \in X <=> i \in W
    BY <1>1 DEF Writes
<1>6. n + 1 \in X <=> hit
  <2>1. n + 1 \in 1..(n + 1)
    BY <1>1
  <2> QED BY <1>1, <2>1 DEF Writes
<1>7. CASE hit
  <2> HIDE DEF X, hit
  <2>1. n + 1 \in X /\ \A j \in X : j <= n + 1
    BY <1>1, <1>4, <1>6, <1>7
  <2>2. \A i \in X : (\A j \in X : j <= i) => i = n + 1
    BY <1>1, <1>4, <2>1
  <2>3. last(X) = n + 1
    BY <2>1, <2>2
  <2> HIDE DEF last, left
  <2>4. Content(n + 1)'[k] = left(e)
    BY <1>1, <1>2, <2>1, <2>3
  <2> QED BY <1>7, <2>4 DEF hit, left
<1>8. CASE ~hit
  <2>1. X = W
    <3> HIDE DEF X, W, hit
    <3>1. \A i \in X : i \in 1..n
      BY <1>1, <1>4, <1>6, <1>8
    <3> QED BY <1>4, <1>5, <3>1
  <2>2. ASSUME W # {} PROVE executed'[last(W)] = executed[last(W)]
    <3> HIDE DEF W
    <3>1. \E i \in W : \A j \in W : j <= i
      BY <1>1, <1>4, <2>2, LastPosition
    <3>2. last(W) \in W
      BY <3>1
    <3> HIDE DEF last
    <3> QED BY <1>1, <1>4, <3>2
  <2> HIDE DEF W, X, last, left
  <2>3. Content(n + 1)'[k] = Content(n)[k]
    BY <1>2, <1>3, <2>1, <2>2
  <2> QED BY <1>8, <2>3 DEF hit
<1> QED
    BY <1>7, <1>8

\* What the engine answers to the executed command e when it holds the map before.
Fits(e, before) ==
    e.answer # Error =>
      /\ e.cmd.op = "GET" => e.answer.data = {before[e.cmd.key]} \ {None}
      /\ e.cmd.op \in {"DELETE", "EXISTS"} =>
           e.answer.data = {IF before[e.cmd.key] = None THEN 0 ELSE 1}
      /\ e.cmd.op = "KEYS" => e.answer.data = {k \in Key : before[k] # None}
      /\ e.cmd.op = "FLUSH" =>
           e.answer.data = {Cardinality({k \in Key : before[k] # None})}

\* It is what Reply gives, and After is what Content calls the effect.
LEMMA ReplyFits ==
    ASSUME NEW cmd \in Command, NEW map \in [Key -> Value \cup {None}], NEW fails \in BOOLEAN,
           fails => cmd.op \in Mutations,
           NEW e, e.cmd = cmd, e.answer = IF fails THEN Error ELSE Reply(cmd, map)
    PROVE  /\ Fits(e, map)
           /\ \A k \in Key :
                (IF fails THEN map ELSE After(cmd, map))[k] =
                  IF e.answer # Error /\ e.cmd.op \in Mutations /\ (e.cmd.op = "FLUSH" \/ e.cmd.key = k)
                  THEN IF e.cmd.op = "PUT" THEN e.cmd.value ELSE None
                  ELSE map[k]
<1>1. Fits(e, map)
    BY DEF Fits, Reply, Answer, Error, Keys
<1>2. ASSUME fails PROVE e.answer = Error
    BY <1>2
<1>3. ASSUME ~fails, cmd.op \in Mutations PROVE e.answer # Error
  <2>1. e.answer = Reply(cmd, map) /\ Error.kind = "-ERR"
    BY <1>3 DEF Error, Answer
  <2>2. Reply(cmd, map).kind # "-ERR"
    BY <1>3 DEF Reply, Answer, Mutations
  <2> QED BY <2>1, <2>2
<1>4. ASSUME NEW k \in Key, ~fails
      PROVE  After(cmd, map)[k] =
               IF cmd.op \in Mutations /\ (cmd.op = "FLUSH" \/ cmd.key = k)
               THEN IF cmd.op = "PUT" THEN cmd.value ELSE None
               ELSE map[k]
    BY DEF After, Mutations, Command
<1> QED
    BY <1>1, <1>2, <1>3, <1>4

\* No command has been executed and the engine is empty.
LEMMA SerialInit ==
    ASSUME Init
    PROVE  SerialInv
<1>1. executed = <<>> /\ store = [k \in Key |-> None] /\ Len(executed) = 0
    BY DEF Init
<1>2. ASSUME NEW k \in Key PROVE Writes(0, k) = {}
    BY DEF Writes
<1>3. \A k \in Key : Content(0)[k] = None
    BY <1>2 DEF Content
<1>4. Content(0) = store
    BY <1>1, <1>3, ContentIsMap
<1>5. AnswersAreSerial
    BY <1>1 DEF AnswersAreSerial
<1> QED
    BY <1>1, <1>4, <1>5 DEF SerialInv

\* A command that is executed is answered from what the engine holds and changes it as
\* the next entry of the history says.
LEMMA SerialStep ==
    ASSUME TypeInv, StreamInv, SerialInv, [Next]_vars
    PROVE  SerialInv'
<1>1. ASSUME UNCHANGED <<store, executed>> PROVE SerialInv'
  <2>1. \A n : Content(n)' = Content(n)
    BY <1>1 DEF Content, Writes
  <2>2. \A n : Serial(n)' <=> Serial(n)
    BY <1>1, <2>1, Zenon DEF Serial
  <2> QED BY <1>1, <2>1, <2>2 DEF SerialInv, AnswersAreSerial
<1>2. ASSUME NEW c \in Client, ServeLine(c) PROVE SerialInv'
  <2> DEFINE i == Len(served[c]) + 1
             cmd == script[c][i]
  <2>1. UpInv(c) /\ HasLine(buffer[c])
    BY <1>2 DEF StreamInv, ServeLine
  <2>2. cmd \in Command /\ i \in Nat
    BY <2>1, NextLine, ClientTypes
  <2>3. PICK fails \in BOOLEAN :
             /\ fails => cmd.op \in Mutations
             /\ store' = IF fails THEN store ELSE After(cmd, store)
             /\ executed' = Append(executed, [cmd |-> cmd, from |-> c, line |-> i,
                                               answer |-> IF fails THEN Error ELSE Reply(cmd, store)])
    BY <1>2, <2>1, Serving
  <2>n. PICK n : n = Len(executed)
    OBVIOUS
  <2>e. PICK e : e = [cmd |-> cmd, answer |-> IF fails THEN Error ELSE Reply(cmd, store),
                      from |-> c, line |-> i]
    OBVIOUS
  <2>4. store \in [Key -> Value \cup {None}] /\ executed \in Seq(Outcome) /\ n \in Nat
    BY <2>n DEF TypeInv
  <2> HIDE DEF i, cmd
  <2>5. e \in Outcome /\ store' \in [Key -> Value \cup {None}]
    BY <2>2, <2>3, <2>4, <2>e, EngineTypes
  <2>6. /\ Fits(e, store)
        /\ \A k \in Key : store'[k] =
              IF e.answer # Error /\ e.cmd.op \in Mutations /\ (e.cmd.op = "FLUSH" \/ e.cmd.key = k)
              THEN IF e.cmd.op = "PUT" THEN e.cmd.value ELSE None
              ELSE store[k]
    BY <2>2, <2>3, <2>4, <2>e, ReplyFits
  <2>7. executed' = Append(executed, e)
    BY <2>3, <2>e
  <2>8. store = Content(n) /\ AnswersAreSerial
    BY <2>n DEF SerialInv
  <2>9. \A k \in Key : Content(n + 1)'[k] = store'[k]
    <3> SUFFICES ASSUME NEW k \in Key PROVE Content(n + 1)'[k] = store'[k]
      OBVIOUS
    <3>1. Content(n + 1)'[k] =
            IF e.answer # Error /\ e.cmd.op \in Mutations /\ (e.cmd.op = "FLUSH" \/ e.cmd.key = k)
            THEN IF e.cmd.op = "PUT" THEN e.cmd.value ELSE None
            ELSE Content(n)[k]
      BY <2>4, <2>5, <2>7, <2>n, LastContent
    <3> QED BY <2>6, <2>8, <3>1
  <2>10. Content(n + 1)' = store'
    BY <2>5, <2>9, ContentIsMap
  <2>11. Len(executed') = n + 1 /\ executed'[n + 1] = e /\ \A m \in 1..n : executed'[m] = executed[m]
    BY <2>4, <2>7, <2>n
  <2>12. \A m \in 0..n : Content(m)' = Content(m)
    BY <2>4, <2>5, <2>7, <2>n, EarlierContent
  <2>13. ASSUME NEW m \in 1..Len(executed') PROVE Fits(executed'[m], Content(m - 1)')
    <3>1. CASE m = n + 1
      <4>1. Content(m - 1)' = store
        BY <2>4, <2>8, <2>12, <3>1
      <4> QED BY <2>6, <2>11, <3>1, <4>1
    <3>2. CASE m # n + 1
      <4>1. m \in 1..n /\ m - 1 \in 0..n
        BY <2>4, <2>11, <3>2
      <4>2. Fits(executed[m], Content(m - 1))
        BY <2>8, <2>n, <4>1 DEF AnswersAreSerial, Serial, Fits
      <4> QED BY <2>11, <2>12, <4>1, <4>2
    <3> QED BY <3>1, <3>2
  <2>14. AnswersAreSerial'
    BY <2>13 DEF AnswersAreSerial, Serial, Fits
  <2>15. SUFFICES ASSUME NEW m, m = Len(executed') PROVE store' = Content(m)'
    BY <2>14 DEF SerialInv
  <2>16. m = n + 1
    BY <2>11, <2>15
  <2> QED BY <2>10, <2>16
<1> QED
    BY <1>1, <1>2 DEF Next, vars, Send, Recv, Timeout, Kill, Receive, clientVars, serverVars

\* What the end of a client's wait, or a part of an answer, leaves of its history.
LEMMA ClientMoves ==
    ASSUME TypeInv, NEW c \in Client, NEW d \in Client, Recv(d) \/ Timeout(d) \/ Kill(d)
    PROVE  /\ UNCHANGED <<served, executed, sent>>
           /\ \/ phase'[c] # "waiting" /\ since'[c] = 0
              \/ UNCHANGED <<phase[c], since[c], timeouts[c]>>
<1>1. CASE Recv(d)
  <2>1. UNCHANGED <<served, executed, sent, timeouts>>
    BY <1>1 DEF Recv, serverVars
  <2>2. \/ /\ phase' = [phase EXCEPT ![d] = IF Quitting(d) THEN "gone" ELSE "idle"]
           /\ since' = [since EXCEPT ![d] = 0]
        \/ UNCHANGED <<phase, since>>
    BY <1>1 DEF Recv
  <2> QED BY <2>1, <2>2 DEF TypeInv
<1>2. CASE Timeout(d)
    BY <1>2 DEF Timeout, serverVars, TypeInv
<1>3. CASE Kill(d)
  <2>1. /\ UNCHANGED <<served, executed, sent, timeouts>>
        /\ phase' = [phase EXCEPT ![d] = "gone"] /\ since' = [since EXCEPT ![d] = 0]
    BY <1>3 DEF Kill, serverVars
  <2> QED BY <2>1 DEF TypeInv
<1> QED
    BY <1>1, <1>2, <1>3

\* The history of a connection grows with what is served on it.
LEMMA OrderStep ==
    ASSUME TypeInv, StreamInv, NEW c \in Client, OrderInv(c), [Next]_vars
    PROVE  OrderInv(c)'
<1>1. /\ sent[c] \in Nat /\ since[c] \in Nat /\ Len(served[c]) \in Nat
      /\ executed \in Seq(Outcome) /\ Len(executed) \in Nat
      /\ \A n \in 1..Len(executed) : executed[n].line \in Nat
  <2>1. executed \in Seq(Outcome) /\ \A e \in Outcome : e.line \in Nat
    BY DEF TypeInv, Outcome
  <2> QED BY <2>1, ClientTypes
<1>2. ASSUME NEW d \in Client, Send(d) PROVE OrderInv(c)'
  <2>1. /\ UNCHANGED <<served, executed, timeouts>>
        /\ c # d => phase'[c] = phase[c] /\ since'[c] = since[c] /\ sent'[c] = sent[c]
        /\ c = d => sent'[c] = sent[c] + 1 /\ since'[c] \in {0, Len(executed)}
    BY <1>2 DEF Send, serverVars, TypeInv
  <2>2. Len(served[c]) <= sent[c]
    BY ServedWereSent
  <2>3. c = d => \A n \in 1..since'[c] : executed[n].from = c => executed[n].line < sent'[c]
    <3> SUFFICES ASSUME c = d, NEW n \in 1..since'[c], executed[n].from = c
                 PROVE  executed[n].line < sent'[c]
      OBVIOUS
    <3>1. n \in 1..Len(executed) /\ sent'[c] = sent[c] + 1
      BY <1>1, <2>1
    <3>2. executed[n].line <= Len(served[c]) /\ executed[n].line \in Nat
      BY <1>1, <3>1 DEF OrderInv
    <3> QED BY <1>1, <2>2, <3>1, <3>2
  <2>4. since'[c] <= Len(executed)
    BY <1>1, <2>1 DEF OrderInv
  <2> QED BY <2>1, <2>3, <2>4 DEF OrderInv
<1>3. ASSUME NEW d \in Client, Recv(d) \/ Timeout(d) \/ Kill(d) PROVE OrderInv(c)'
  <2>1. /\ UNCHANGED <<served, executed, sent>>
        /\ \/ phase'[c] # "waiting" /\ since'[c] = 0
           \/ UNCHANGED <<phase[c], since[c], timeouts[c]>>
    BY <1>3, ClientMoves
  <2>2. since'[c] <= Len(executed)
    BY <1>1, <2>1 DEF OrderInv
  <2> QED BY <2>1, <2>2 DEF OrderInv
<1>4. ASSUME NEW d \in Client, ServeLine(d) PROVE OrderInv(c)'
  <2> DEFINE i == Len(served[d]) + 1
  <2>1. UpInv(d) /\ HasLine(buffer[d])
    BY <1>4 DEF StreamInv, ServeLine
  <2>2. /\ \E e : executed' = Append(executed, e) /\ e.from = d /\ e.line = i
        /\ served' = [served EXCEPT ![d] = Append(@, [text |-> Bytes(i), cmd |-> script[d][i]])]
        /\ UNCHANGED <<phase, since, timeouts, sent>>
    <3>1. /\ \E fails \in BOOLEAN :
               executed' = Append(executed, [cmd |-> script[d][i], from |-> d, line |-> i,
                                             answer |-> IF fails THEN Error
                                                        ELSE Reply(script[d][i], store)])
          /\ served' = [served EXCEPT ![d] = Append(@, [text |-> Bytes(i), cmd |-> script[d][i]])]
          /\ UNCHANGED clientVars
      BY <1>4, <2>1, Serving
    <3> HIDE DEF i
    <3>2. PICK fails \in BOOLEAN :
             executed' = Append(executed, [cmd |-> script[d][i], from |-> d, line |-> i,
                                           answer |-> IF fails THEN Error
                                                      ELSE Reply(script[d][i], store)])
      BY <3>1
    <3> DEFINE e == [cmd |-> script[d][i], from |-> d, line |-> i,
                     answer |-> IF fails THEN Error ELSE Reply(script[d][i], store)]
    <3>3. executed' = Append(executed, e) /\ e.from = d /\ e.line = i
      BY <3>2
    <3> HIDE DEF e
    <3> QED BY <3>1, <3>3 DEF clientVars
  <2>3. PICK e : executed' = Append(executed, e) /\ e.from = d /\ e.line = i
    BY <2>2
  <2>4. /\ Len(executed') = Len(executed) + 1 /\ executed'[Len(executed) + 1] = e
        /\ \A n \in 1..Len(executed) : executed'[n] = executed[n]
    BY <1>1, <2>3
  <2>5. Len(served'[c]) = IF c = d THEN Len(served[c]) + 1 ELSE Len(served[c])
    BY <2>2, ClientTypes DEF TypeInv
  <2> DEFINE l == Len(served[c])
             h == Len(executed)
  <2>6. /\ l \in Nat /\ h \in Nat /\ since[c] \in Nat /\ since[c] <= h /\ sent[c] \in Nat
        /\ Len(served'[c]) = (IF c = d THEN l + 1 ELSE l) /\ Len(executed') = h + 1
        /\ \A n \in 1..h : executed'[n] = executed[n] /\ executed[n].line \in Nat
        /\ executed'[h + 1].from = d /\ (c = d => executed'[h + 1].line = l + 1)
    BY <1>1, <2>3, <2>4, <2>5 DEF OrderInv
  <2>7. /\ \A k \in 1..l : \E n \in 1..h : executed[n].from = c /\ executed[n].line = k
        /\ \A n \in 1..h : executed[n].from = c => executed[n].line <= l
    BY DEF OrderInv
  <2> HIDE DEF l, h, i
  <2>8. \A k \in 1..Len(served'[c]) :
          \E n \in 1..Len(executed') : executed'[n].from = c /\ executed'[n].line = k
    <3> SUFFICES ASSUME NEW k \in 1..Len(served'[c])
                 PROVE  \E n \in 1..(h + 1) : executed'[n].from = c /\ executed'[n].line = k
      BY <2>6
    <3>1. CASE k \in 1..l
      <4>1. PICK n \in 1..h : executed[n].from = c /\ executed[n].line = k
        BY <2>7, <3>1
      <4>2. n \in 1..(h + 1) /\ executed'[n] = executed[n]
        BY <2>6
      <4> QED BY <4>1, <4>2
    <3>2. CASE k \notin 1..l
      <4>1. c = d /\ k = l + 1 /\ h + 1 \in 1..(h + 1)
        BY <2>6, <3>2
      <4> QED BY <2>6, <4>1
    <3> QED BY <3>1, <3>2
  <2>9. \A n \in 1..Len(executed') : executed'[n].from = c => executed'[n].line <= Len(served'[c])
    <3> SUFFICES ASSUME NEW n \in 1..(h + 1), executed'[n].from = c
                 PROVE  executed'[n].line <= Len(served'[c])
      BY <2>6
    <3>1. CASE n = h + 1
      BY <2>6, <3>1
    <3>2. CASE n # h + 1
      <4>1. n \in 1..h
        BY <2>6, <3>2
      <4>2. executed[n].line <= l /\ executed[n].line \in Nat /\ executed'[n] = executed[n]
        BY <2>6, <2>7, <4>1
      <4> QED BY <2>6, <4>2
    <3> QED BY <3>1, <3>2
  <2>10. \A n \in 1..since[c] : executed'[n] = executed[n]
    BY <2>6
  <2>11. since'[c] <= Len(executed')
    BY <2>2, <2>6
  <2> QED BY <2>2, <2>8, <2>9, <2>10, <2>11 DEF OrderInv
<1>5. ASSUME NEW d \in Client, Receive(d) PROVE OrderInv(c)'
    BY <1>5 DEF Receive, OrderInv, clientVars
<1>6. CASE UNCHANGED vars
    BY <1>6 DEF vars, clientVars, serverVars, OrderInv
<1> QED
    BY <1>2, <1>3, <1>4, <1>5, <1>6 DEF Next

\* What a client is shown was executed, since it was sent.
LEMMA ShownWasExecuted ==
    ASSUME TypeInv, StreamInv, SerialInv, \A c \in Client : OrderInv(c), [Next]_vars
    PROVE  ShownIsSerial
<1> SUFFICES ASSUME NEW c \in Client, shown'[c] # shown[c], timeouts[c] = 0
             PROVE  \E n \in (since[c] + 1)..Len(executed) :
                      /\ executed[n].from = c /\ executed[n].line = sent[c]
                      /\ Serial(n)
    BY DEF ShownIsSerial
<1>1. Recv(c)
  <2>1. ASSUME NEW d \in Client, Recv(d), d # c PROVE FALSE
    <3>1. \/ \E view : shown' = [shown EXCEPT ![d] = view]
          \/ shown' = shown
      BY <2>1 DEF Recv
    <3>2. shown \in [Client -> Seq(View)]
      BY DEF TypeInv
    <3> QED BY <2>1, <3>1, <3>2
  <2> QED BY <2>1 DEF Next, vars, Send, Timeout, Kill, Receive, ServeLine, clientVars
<1>2. phase[c] = "waiting" /\ sent[c] \in 1..Len(served[c])
    BY <1>1, RecvLocal DEF Recv, StreamInv, Inv
<1>3. PICK n \in 1..Len(executed) : executed[n].from = c /\ executed[n].line = sent[c]
    BY <1>2 DEF OrderInv
<1>4. sent[c] \in Nat /\ since[c] \in Nat /\ Len(executed) \in Nat
    BY ClientTypes DEF TypeInv
<1>5. n \notin 1..since[c]
    BY <1>2, <1>3, <1>4 DEF OrderInv
<1>6. n \in (since[c] + 1)..Len(executed)
    BY <1>4, <1>5
<1>7. Serial(n)
    BY DEF SerialInv, AnswersAreSerial
<1> QED
    BY <1>3, <1>6, <1>7

\* For any connections and scripts the server is linearizable for the clients that no
\* timeout has put out of step: what one is shown is the answer to its command, executed
\* after it was sent, and tells what the commands of all connections executed before
\* left; a failed one leaves nothing (server.py data_received and its handlers).
THEOREM LinearizableHolds == Spec => Linearizable
<1> DEFINE Order == \A c \in Client : OrderInv(c)
<1>1. Init => SerialInv /\ Order
  <2>1. ASSUME Init PROVE Order
    <3> SUFFICES ASSUME NEW c \in Client PROVE OrderInv(c)
      OBVIOUS
    <3>1. served[c] = <<>> /\ executed = <<>> /\ since[c] = 0 /\ phase[c] = "idle"
      BY <2>1 DEF Init
    <3>2. Len(<<>>) = 0
      OBVIOUS
    <3> QED BY <3>1, <3>2 DEF OrderInv
  <2> QED BY <2>1, SerialInit
<1>2. TypeInv /\ StreamInv /\ SerialInv /\ Order /\ [Next]_vars => (SerialInv /\ Order)'
    BY SerialStep, OrderStep
<1>3. TypeInv /\ StreamInv /\ SerialInv /\ Order /\ [Next]_vars => [ShownIsSerial]_vars
    BY ShownWasExecuted
<1> HIDE DEF Order
<1> QED
    BY <1>1, <1>2, <1>3, StreamInvHolds, PTL DEF Spec, Linearizable
=============================================================================
