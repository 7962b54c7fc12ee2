----------------------------- MODULE MCSession -----------------------------
(* Small instances of Session for TLC. *)
EXTENDS Session

CONSTANTS k1, v1    \* the key and the value of the commands below

Line(op, key, value) == [op |-> op, key |-> key, value |-> value]

\* What users type: every mutation, the reads that tell its effects, and QUIT.
Scripts == {<<Line("PUT", k1, v1), Line("GET", k1, None)>>,
            <<Line("DELETE", k1, None), Line("QUIT", None, None)>>,
            <<Line("FLUSH", None, None), Line("KEYS", None, None)>>}
=============================================================================
