------------------------------- MODULE Session -------------------------------
(***************************************************************************)
(* Clients of src/client.py talking to the TCP server of src/server.py     *)
(* (src/node.py serves the same protocol).  A connection is two byte       *)
(* streams.  A line on it is two chunks, the second of which carries the   *)
(* newline; a read takes any number of the chunks that are there, so that  *)
(* lines arrive whole, cut or several at a time.                           *)
(*                                                                         *)
(* The server is one asyncio loop: data_received runs to its end before    *)
(* any other connection is served, but what it writes leaves at once.      *)
(***************************************************************************)
EXTENDS Integers, Sequences, FiniteSets

CONSTANTS
    Client,        \* one connection each
    Key, Value, None,
    Script,        \* what a user may type: sequences of [op, key, value]
    MaxTimeouts    \* bound: timeouts per client

\* What a line says; one the server answers with an error is "unknown".
Command ==
    [op: {"PUT"}, key: Key, value: Value]
    \cup [op: {"GET", "DELETE", "EXISTS"}, key: Key, value: {None}]
    \cup [op: {"PING", "QUIT", "KEYS", "FLUSH", "STATS", "unknown"}, key: {None}, value: {None}]

ASSUME ScriptAssumption == \A s \in Script : s \in Seq(Command)
ASSUME BoundAssumption == MaxTimeouts \in Nat

VARIABLES
    (* client.py *)
    script,     \* what its user types; never changes
    phase,      \* "idle", "waiting" in send, or "gone"
    sent,       \* how many of the commands it has sent
    resp,       \* send's local: what recv has returned so far, while in send
    timeouts,   \* how many of its commands have timed out
    shown,      \* what the user was shown
    (* the sockets *)
    up, down,
    (* server.py *)
    buffer,     \* _buffer of the connection's protocol
    closing,    \* its transport is closed
    store,      \* the engine
    (* history, read by the properties only *)
    served,     \* the lines of a connection that were served, with their command
    executed,   \* the commands of all connections with their answers, in order
    since       \* of a client in send that has met no timeout: how many commands
                \* were executed when it wrote its line

clientVars == <<script, phase, sent, resp, timeouts, shown, since>>
serverVars == <<buffer, closing, store, served, executed>>
vars == <<clientVars, up, down, serverVars>>

----------------------------------------------------------------------------
(* Lines *)

\* The bytes of the i-th command of a client, or of its answer.
Bytes(i) == <<[line |-> i, end |-> FALSE], [line |-> i, end |-> TRUE]>>

HasLine(chunks) == \E i \in 1..Len(chunks) : chunks[i].end
LineEnd(chunks) ==
    CHOOSE i \in 1..Len(chunks) : chunks[i].end /\ \A j \in 1..(i - 1) : ~chunks[j].end
FirstLine(chunks) == SubSeq(chunks, 1, LineEnd(chunks))
BadAfterLine(chunks) == <<>>     \* one line per call of data_received
AfterLine(chunks) == SubSeq(chunks, LineEnd(chunks) + 1, Len(chunks))

----------------------------------------------------------------------------
(* _handle_command *)

Keys(map) == {k \in Key : map[k] # None}

Answer(kind, data) == [kind |-> kind, data |-> data]
Error == Answer("-ERR", {})

Mutations == {"PUT", "DELETE", "FLUSH"}

\* What the engine holds afterwards.
After(cmd, map) ==
    [k \in Key |->
        IF cmd.op = "PUT" /\ cmd.key = k THEN cmd.value
        ELSE IF cmd.op = "FLUSH" \/ (cmd.op = "DELETE" /\ cmd.key = k) THEN None
        ELSE map[k]]

Reply(cmd, map) ==
    IF cmd.op = "PING" THEN Answer("+PONG", {})
    ELSE IF cmd.op = "QUIT" THEN Answer("+BYE", {})
    ELSE IF cmd.op = "PUT" THEN Answer("+OK", {})
    ELSE IF cmd.op = "GET" THEN Answer("$", {map[cmd.key]} \ {None})
    ELSE IF cmd.op \in {"DELETE", "EXISTS"}
         THEN Answer(":", {IF map[cmd.key] # None THEN 1 ELSE 0})
    ELSE IF cmd.op = "KEYS" THEN Answer("$", Keys(map))
    ELSE IF cmd.op = "FLUSH" THEN Answer("+OK", {Cardinality(Keys(map))})
    ELSE IF cmd.op = "STATS" THEN Answer("$", {Cardinality(Keys(map))})
    ELSE Error

----------------------------------------------------------------------------
Init ==
    /\ script \in [Client -> Script]
    /\ phase    = [c \in Client |-> "idle"]
    /\ sent     = [c \in Client |-> 0]
    /\ resp     = [c \in Client |-> <<>>]
    /\ timeouts = [c \in Client |-> 0]
    /\ shown    = [c \in Client |-> <<>>]
    /\ up       = [c \in Client |-> <<>>]
    /\ down     = [c \in Client |-> <<>>]
    /\ buffer   = [c \in Client |-> <<>>]
    /\ closing  = [c \in Client |-> FALSE]
    /\ store    = [k \in Key |-> None]
    /\ served   = [c \in Client |-> <<>>]
    /\ executed = <<>>
    /\ since    = [c \in Client |-> 0]

Quitting(c) == script[c][sent[c]].op = "QUIT"

\* repl reads a line and send writes it.
Send(c) ==
    /\ phase[c] = "idle"
    /\ sent[c] < Len(script[c])
    /\ sent'  = [sent EXCEPT ![c] = @ + 1]
    /\ up'    = [up EXCEPT ![c] = @ \o Bytes(sent[c] + 1)]
    /\ phase' = [phase EXCEPT ![c] = "waiting"]
    /\ since' = [since EXCEPT ![c] = IF timeouts[c] = 0 THEN Len(executed) ELSE 0]
    /\ UNCHANGED <<script, resp, timeouts, shown, down, serverVars>>

\* recv returns with something.  Once there is a newline in it, all that was
\* received is the response.
Recv(c) ==
    /\ phase[c] = "waiting"
    /\ \E n \in 1..Len(down[c]) :
         LET all == resp[c] \o SubSeq(down[c], 1, n)
             view == [cmd |-> sent[c], late |-> timeouts[c], text |-> all]
         IN  /\ down' = [down EXCEPT ![c] = SubSeq(@, n + 1, Len(@))]
             /\ resp' = [resp EXCEPT ![c] = IF HasLine(all) THEN <<>> ELSE all]
             /\ IF HasLine(all)
                THEN /\ shown' = [shown EXCEPT ![c] = Append(@, view)]
                     /\ phase' = [phase EXCEPT ![c] = IF Quitting(c) THEN "gone" ELSE "idle"]
                     /\ since' = [since EXCEPT ![c] = 0]
                ELSE UNCHANGED <<shown, phase, since>>
    /\ UNCHANGED <<script, sent, timeouts, up, serverVars>>

BadTimeout(c) ==            \* send hands over what it has received so far
    /\ phase[c] = "waiting"
    /\ down[c] = <<>>
    /\ shown' = [shown EXCEPT ![c] =
                    Append(@, [cmd |-> sent[c], late |-> timeouts[c], text |-> resp[c]])]
    /\ phase' = [phase EXCEPT ![c] = "idle"]
    /\ resp'  = [resp EXCEPT ![c] = <<>>]
    /\ UNCHANGED <<script, sent, timeouts, since, up, down, serverVars>>
\* recv raises: what send had received is lost, what comes later stays in the
\* socket.  A QUIT is sent outside of repl's try, and the client ends.
Timeout(c) ==
    /\ phase[c] = "waiting"
    /\ down[c] = <<>>
    /\ timeouts[c] < MaxTimeouts
    /\ timeouts' = [timeouts EXCEPT ![c] = @ + 1]
    /\ phase' = [phase EXCEPT ![c] = IF Quitting(c) THEN "gone" ELSE "idle"]
    /\ resp'  = [resp EXCEPT ![c] = <<>>]
    /\ since' = [since EXCEPT ![c] = 0]
    /\ UNCHANGED <<script, sent, shown, up, down, serverVars>>

\* The client is killed in send: what it had not yet transmitted is never sent,
\* what it had not read is lost.
Kill(c) ==
    /\ phase[c] = "waiting"
    /\ phase' = [phase EXCEPT ![c] = "gone"]
    /\ \E n \in 0..Len(up[c]) : up' = [up EXCEPT ![c] = SubSeq(@, 1, n)]
    /\ resp'  = [resp EXCEPT ![c] = <<>>]
    /\ down'  = [down EXCEPT ![c] = <<>>]
    /\ since' = [since EXCEPT ![c] = 0]
    /\ UNCHANGED <<script, sent, timeouts, shown, serverVars>>

----------------------------------------------------------------------------
\* data_received on c is still at work on the lines of its buffer.
Busy == \E c \in Client : HasLine(buffer[c])

BadReceive(c) ==            \* what follows the last newline is thrown away
    /\ ~Busy /\ ~closing[c]
    /\ \E n \in 1..Len(up[c]) :
         /\ up' = [up EXCEPT ![c] = SubSeq(@, n + 1, Len(@))]
         /\ buffer' = [buffer EXCEPT ![c] = IF HasLine(SubSeq(up[c], 1, n))
                                            THEN SubSeq(up[c], 1, n) ELSE <<>>]
    /\ UNCHANGED <<clientVars, down, closing, store, served, executed>>
\* data_received is called with what has arrived.
Receive(c) ==
    /\ ~Busy /\ ~closing[c]
    /\ \E n \in 1..Len(up[c]) :
         /\ up' = [up EXCEPT ![c] = SubSeq(@, n + 1, Len(@))]
         /\ buffer' = [buffer EXCEPT ![c] = @ \o SubSeq(up[c], 1, n)]
    /\ UNCHANGED <<clientVars, down, closing, store, served, executed>>

\* The command a line stands for; a line with a part missing is no command.
Parsed(c, text) ==
    LET i == text[Len(text)].line
    IN  IF text = Bytes(i) THEN script[c][i] ELSE [op |-> "unknown", key |-> None, value |-> None]

BadServeLine(c) ==          \* the engine is changed before its log, which may raise
    /\ HasLine(buffer[c])
    /\ LET text == FirstLine(buffer[c])
           cmd  == Parsed(c, text)
           i    == text[Len(text)].line
       IN  \E fails \in (IF cmd.op \in Mutations THEN BOOLEAN ELSE {FALSE}) :
             LET answer == IF fails THEN Error ELSE Reply(cmd, store)
             IN  /\ store' = After(cmd, store)
                 /\ served' = [served EXCEPT ![c] = Append(@, [text |-> text, cmd |-> cmd])]
                 /\ executed' = Append(executed, [cmd |-> cmd, answer |-> answer,
                                                  from |-> c, line |-> i])
                 /\ closing' = [closing EXCEPT ![c] = @ \/ cmd.op = "QUIT"]
                 /\ down' = [down EXCEPT ![c] =
                                 IF phase[c] = "gone" THEN @ ELSE @ \o Bytes(i)]
    /\ buffer' = [buffer EXCEPT ![c] = AfterLine(@)]
    /\ UNCHANGED <<clientVars, up>>
\* One turn of data_received's loop.  A mutation may raise in the engine, which
\* has then changed nothing.
ServeLine(c) ==
    /\ HasLine(buffer[c])
    /\ LET text == FirstLine(buffer[c])
           cmd  == Parsed(c, text)
           i    == text[Len(text)].line
       IN  \E fails \in (IF cmd.op \in Mutations THEN BOOLEAN ELSE {FALSE}) :
             LET answer == IF fails THEN Error ELSE Reply(cmd, store)
             IN  /\ store' = IF fails THEN store ELSE After(cmd, store)
                 /\ served' = [served EXCEPT ![c] = Append(@, [text |-> text, cmd |-> cmd])]
                 /\ executed' = Append(executed, [cmd |-> cmd, answer |-> answer,
                                                  from |-> c, line |-> i])
                 /\ closing' = [closing EXCEPT ![c] = @ \/ cmd.op = "QUIT"]
                 /\ down' = [down EXCEPT ![c] =
                                 IF phase[c] = "gone" THEN @ ELSE @ \o Bytes(i)]
    /\ buffer' = [buffer EXCEPT ![c] = AfterLine(@)]
    /\ UNCHANGED <<clientVars, up>>

Next ==
    \E c \in Client :
        \/ Send(c) \/ Recv(c) \/ Timeout(c) \/ Kill(c)
        \/ Receive(c) \/ ServeLine(c)

Spec == Init /\ [][Next]_vars

\* TCP delivers what a live peer has sent, the event loop serves it, and a client
\* in recv reads what arrives.  Users need not type, nothing must time out.
Fairness ==
    \A c \in Client : WF_vars(Receive(c) \/ ServeLine(c)) /\ WF_vars(Recv(c))

LiveSpec == Spec /\ Fairness

----------------------------------------------------------------------------
\* However the stream is cut, what the server executes for a connection are the
\* lines that were sent, each once, whole and in order (server.py data_received).
ExecutedAsSent ==
    \A c \in Client :
        /\ Len(served[c]) <= sent[c]
        /\ \A i \in 1..Len(served[c]) :
             served[c][i].text = Bytes(i) /\ served[c][i].cmd = script[c][i]

\* Before its first timeout a client shows for every command exactly the answer
\* to it.  Afterwards it may show what is left of earlier answers, never more of
\* them than there were timeouts, and never the answer to a later command
\* (client.py send and repl).
AnswersMatch ==
    \A c \in Client : \A i \in 1..Len(shown[c]) :
        LET s == shown[c][i]
        IN  /\ s.late = 0 => s.text = Bytes(s.cmd)
            /\ \A j \in 1..Len(s.text) : s.text[j].line \in (s.cmd - s.late)..s.cmd

\* The mutations among the first n executed lines that concern k and did not fail.
Writes(n, k) ==
    {i \in 1..n : LET e == executed[i]
                  IN  /\ e.answer # Error /\ e.cmd.op \in Mutations
                      /\ e.cmd.op = "FLUSH" \/ e.cmd.key = k}

\* What the last of them left in k.
Content(n) ==
    [k \in Key |->
        IF Writes(n, k) = {} THEN None
        ELSE LET e == executed[CHOOSE i \in Writes(n, k) : \A j \in Writes(n, k) : j <= i]
             IN  IF e.cmd.op = "PUT" THEN e.cmd.value ELSE None]

\* The answer to the n-th executed line tells what the lines before it left, where a
\* mutation that was answered with an error left nothing.
Serial(n) ==
    LET e == executed[n]
        before == Content(n - 1)
    IN  e.answer # Error =>
          /\ e.cmd.op = "GET" => e.answer.data = {before[e.cmd.key]} \ {None}
          /\ e.cmd.op \in {"DELETE", "EXISTS"} =>
               e.answer.data = {IF before[e.cmd.key] = None THEN 0 ELSE 1}
          /\ e.cmd.op = "KEYS" => e.answer.data = {k \in Key : before[k] # None}
          /\ e.cmd.op = "FLUSH" =>
               e.answer.data = {Cardinality({k \in Key : before[k] # None})}

\* The server is linearizable for clients that no timeout has put out of step: what a
\* client is shown for a command is the answer to that command, which was executed since
\* it was sent, and which tells what the commands of all connections executed before it
\* left.  Whoever sends a read after another client was shown that its write succeeded
\* sees the write; a write reported as failed is never seen (server.py data_received and
\* its handlers, client.py send).
ShownIsSerial ==
    \A c \in Client :
        (shown'[c] # shown[c] /\ timeouts[c] = 0) =>
            \E n \in (since[c] + 1)..Len(executed) :
                /\ executed[n].from = c /\ executed[n].line = sent[c]
                /\ Serial(n)
Linearizable == [][ShownIsSerial]_vars

\* Every command a client sent is executed, unless the client was killed or the
\* server has closed the connection after its QUIT.
CommandIsServed ==
    \A c \in Client :
        (Len(served[c]) < sent[c]) ~> (Len(served[c]) = sent[c] \/ phase[c] = "gone")
=============================================================================
