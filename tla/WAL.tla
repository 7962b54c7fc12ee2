-------------------------------- MODULE WAL --------------------------------
(***************************************************************************)
(* The write-ahead log of src/wal.py: a directory of segment files, one of *)
(* them open for append, and the buffer of its file object.                *)
(*                                                                         *)
(* A record is written as one line of JSON.  What a failure in the middle  *)
(* of a write can leave behind is modelled by three chunks per record:     *)
(* "head" is a proper prefix of the JSON text, "body" completes it, "eol"  *)
(* is the newline.  The operators below are the pieces of append, _rotate, *)
(* _open_segment and replay; KVEngine, whose lock serialises them, makes   *)
(* actions of them.                                                        *)
(***************************************************************************)
EXTENDS Records, FiniteSets

CONSTANTS
    SegmentChunks,   \* size at which a segment is rotated (MAX_SEGMENT_BYTES)
    NameDigits,      \* digits a segment number is padded to, 4 in the code
    TornTail         \* may a crash cut a record in two?

ASSUME SizeAssumption == SegmentChunks \in Nat \ {0} /\ NameDigits \in Nat \ {0}
ASSUME TornAssumption == TornTail \in BOOLEAN

VARIABLES
    segments,   \* segments[i] is the content of the file numbered i - 1
    current,    \* the segment open for append
    opened,     \* the file object can be written to
    buffer,     \* chunks written to the file object and not yet to the file
    safe        \* how many chunks of the current segment were fsynced

walVars == <<segments, current, opened, buffer, safe>>

Chunk == [rec: Record, part: {"head", "body", "eol"}]

----------------------------------------------------------------------------
(* Segments are read in the order of their names *)

\* How many segment numbers the padding has room for.
Padded == 10^NameDigits

ASSUME PaddedAssumption == Padded \in Nat \ {0}

\* The number of decimal digits of n in a file name.
Digits(n) ==
    IF n < Padded THEN NameDigits
    ELSE CHOOSE d \in (NameDigits + 1)..(NameDigits + n) : n < 10^d /\ n >= 10^(d - 1)

\* sorted() compares names as strings; a shorter one comes before its extensions.
NameBefore(a, b) ==
    LET x == a * 10^Digits(b)
        y == b * 10^Digits(a)
    IN  x < y \/ (x = y /\ a < b)

\* _open_segment on a directory of n segments: the last one.  The bad one takes the
\* first.
BadLatest(n) == CHOOSE i \in 1..n : \A j \in 1..n : j # i => NameBefore(i - 1, j - 1)
Latest(n) == CHOOSE i \in 1..n : \A j \in 1..n : j # i => NameBefore(j - 1, i - 1)

----------------------------------------------------------------------------
(* replay *)

\* Position i of file f ends a line json.loads accepts: the text of one whole
\* record, the newline of the last line being optional.
Parsed(f, i) ==
    /\ f[i].part = "body"
    /\ i > 1 /\ f[i - 1] = [rec |-> f[i].rec, part |-> "head"]
    /\ i > 2 => f[i - 2].part = "eol"
    /\ i < Len(f) => f[i + 1].part = "eol"

\* The lines replay accepts, as pairs of a segment and the position of their end.
Lines(segs) ==
    UNION {{s} \X {i \in 1..Len(segs[s]) : Parsed(segs[s], i)} : s \in 1..Len(segs)}

\* The files are read in the order of their names, each from top to bottom.
ReadBefore(p, q) ==
    IF p[1] = q[1] THEN p[2] < q[2] ELSE NameBefore(p[1] - 1, q[1] - 1)

\* The n-th line that is read.
Rank(p, lines) == Cardinality({q \in lines : ReadBefore(q, p)})
Nth(n, lines) == CHOOSE p \in lines : Rank(p, lines) = n - 1

\* The records replay applies, in order.
Replayed(segs) ==
    LET lines == Lines(segs)
        rec(p) == segs[p[1]][p[2]].rec
    IN  [n \in 1..Cardinality(lines) |-> rec(Nth(n, lines))]

----------------------------------------------------------------------------
(* append *)

Line(rec) == <<[rec |-> rec, part |-> "head"], [rec |-> rec, part |-> "body"],
               [rec |-> rec, part |-> "eol"]>>

\* _encode and write: a closed file raises instead (opened is a guard).
Write(rec) ==
    /\ opened
    /\ buffer' = buffer \o Line(rec)
    /\ UNCHANGED <<segments, current, opened, safe>>

\* flush and fsync succeed.  The bad one does not fsync.
BadSync ==
    /\ segments' = [segments EXCEPT ![current] = @ \o buffer]
    /\ buffer' = <<>>
    /\ UNCHANGED <<current, opened, safe>>
Sync ==
    /\ segments' = [segments EXCEPT ![current] = @ \o buffer]
    /\ buffer' = <<>>
    /\ safe' = Len(segments[current]) + Len(buffer)
    /\ UNCHANGED <<current, opened>>

\* flush or fsync raises: any part of the buffer has reached the file, the rest
\* stays in the file object and goes out with the next flush.
SyncError ==
    \E n \in 0..Len(buffer) :
        /\ segments' = [segments EXCEPT ![current] = @ \o SubSeq(buffer, 1, n)]
        /\ buffer' = SubSeq(buffer, n + 1, Len(buffer))
        /\ UNCHANGED <<current, opened, safe>>

Full == Len(segments[current]) >= SegmentChunks

\* _rotate
BadRotate ==                         \* numbers the segments from one
    /\ segments' = Append(segments, <<>>)
    /\ current' = Len(segments) + 2
    /\ safe' = 0
    /\ UNCHANGED <<opened, buffer>>
Rotate ==
    /\ segments' = Append(segments, <<>>)
    /\ current' = Len(segments) + 1
    /\ safe' = 0
    /\ UNCHANGED <<opened, buffer>>

\* The old file is closed and the new one cannot be opened.
RotateError ==
    /\ opened' = FALSE
    /\ UNCHANGED <<segments, current, buffer, safe>>

----------------------------------------------------------------------------
(* crash and restart *)

\* The process or the machine stops: what was fsynced stays, and of the rest any
\* part, to the chunk or to the record.
Cut ==
    LET f == segments[current] \o buffer
        ends == {n \in safe..Len(f) : TornTail \/ n = safe \/ f[n].part = "eol"}
    IN  /\ \E n \in ends :
             /\ segments' = [segments EXCEPT ![current] = SubSeq(f, 1, n)]
             /\ safe' = n
        /\ buffer' = <<>>
        /\ opened' = FALSE
        /\ UNCHANGED current

\* __init__ opens the last segment by name for append.
Reopen ==
    /\ current' = Latest(Len(segments))
    /\ safe' = Len(segments[Latest(Len(segments))])
    /\ opened' = TRUE
    /\ UNCHANGED <<segments, buffer>>

WALInit ==
    /\ segments = << <<>> >>
    /\ current = 1
    /\ opened = TRUE
    /\ buffer = <<>>
    /\ safe = 0

WALTypeOK ==
    /\ segments \in Seq(Seq(Chunk)) /\ segments # <<>>
    /\ current \in 1..Len(segments)
    /\ opened \in BOOLEAN
    /\ buffer \in Seq(Chunk)
    /\ safe \in 0..Len(segments[current])
=============================================================================
