----------------------------- MODULE BodyForward -----------------------------
(***************************************************************************)
(* How the proxy passes a response of dockerd on to its client, and reads  *)
(* it on the way (proxy/proxy.go, utils/utils.go).                         *)
(*                                                                         *)
(*   forward   utils.Forward, for most handlers and unhandled requests     *)
(*   create    utils.ForwardAndRead, for the id of a created container     *)
(*   prune     utils.ReadAndForward, for the ids of pruned containers      *)
(*   chunked   utils.ForwardChunked, for streams such as events and logs   *)
(*                                                                         *)
(* A body is a sequence of pieces, each returned by one Read.  A Read may  *)
(* report the end together with the last piece or after it, or fail.  A    *)
(* Write to the client may fail at any time, whether or not later ones     *)
(* would.  The deferred Close of a body is left out.                       *)
(***************************************************************************)
EXTENDS Naturals, Sequences

CONSTANTS
    Modes,       \* a subset of the four
    MaxPieces    \* bound: pieces of a body

ASSUME ModesAssumption == Modes \subseteq {"forward", "create", "prune", "chunked"}
ASSUME MaxPiecesAssumption == MaxPieces \in Nat \ {0}

VARIABLES
    mode,
    body,        \* what dockerd sends
    pos,         \* the pieces read
    got,         \* what the client received
    readData,        \* what the handler reads: the tee's buffer, or data
    writeable,   \* writerWrapper.writeable
    result       \* "none" until dockerd answers, "unanswered", "running", "nil" or "error"

bodyVars == <<mode, body, pos, got, readData, writeable, result>>

Bodies == {[i \in 1 .. n |-> i] : n \in 0 .. MaxPieces}

BodyInit ==
    /\ mode = "forward" /\ body = <<>> /\ pos = 0
    /\ got = <<>> /\ readData = <<>>
    /\ writeable = TRUE
    /\ result = "none"

\* The request goes to dockerd, which answers with a body or not at all; without an
\* answer the handler returns at once.
Answer(m, b) ==
    /\ result = "none"
    /\ \/ mode' = m /\ body' = b /\ result' = "running"
       \/ result' = "unanswered" /\ UNCHANGED <<mode, body>>
    /\ UNCHANGED <<pos, got, readData, writeable>>

writeToDstOnly == mode \in {"forward", "create"}

\* reader.Read: the next piece, if there is one, and whether the body has ended.
Read(piece, end) ==
    /\ result = "running"
    /\ \/ pos < Len(body) /\ piece = <<body[pos + 1]>>
       \/ pos = Len(body) /\ piece = <<>>
    /\ end => pos + Len(piece) = Len(body)
    /\ end \/ piece # <<>>
    /\ pos' = pos + Len(piece)

\* writerWrapper.write: nothing is written after a failure.
Write(piece) ==
    \/ writeable /\ writeable' = writeable /\ got' = got \o piece
    \/ writeable' = FALSE /\ got' = got

\* Giving up when the client is gone, whoever needs the data.
GivesUpAlways == ~writeable'

\* readAndWriteToDst gives up on a client that is gone only if nobody needs the
\* data.
GivesUp == writeToDstOnly /\ ~writeable'

\* One round of readAndWriteToDst.
Copy(piece, end) ==
    /\ mode # "chunked"
    /\ Read(piece, end)
    /\ readData' = IF mode = "forward" THEN readData ELSE readData \o piece
    /\ Write(piece)
    /\ result' = IF GivesUp \/ end THEN "nil" ELSE result
    /\ UNCHANGED <<mode, body>>

\* A failed Read: what has been read is dropped with the error.
CopyError ==
    /\ mode # "chunked"
    /\ result = "running"
    /\ readData' = <<>>
    /\ result' = "error"
    /\ UNCHANGED <<mode, body, pos, got, writeable>>

\* One round of ForwardChunked, which flushes every piece.
CopyChunk(piece, end) ==
    /\ mode = "chunked"
    /\ Read(piece, end)
    /\ Write(piece)
    /\ result' = IF ~writeable' \/ end THEN "nil" ELSE result
    /\ UNCHANGED <<mode, body, readData>>

\* Its Read fails; the piece that came with the error is written.
ChunkError(piece) ==
    /\ mode = "chunked"
    /\ \/ Read(piece, FALSE)
       \/ result = "running" /\ piece = <<>> /\ UNCHANGED pos
    /\ Write(piece)
    /\ result' = "nil"
    /\ UNCHANGED <<mode, body, readData>>

BodyNext ==
    \/ \E m \in Modes, b \in Bodies : Answer(m, b)
    \/ CopyError
    \/ \E piece \in {<<>>} \cup {<<i>> : i \in 1 .. MaxPieces} :
          ChunkError(piece) \/ \E end \in BOOLEAN : Copy(piece, end) \/ CopyChunk(piece, end)

BodySpec == BodyInit /\ [][BodyNext]_bodyVars

-----------------------------------------------------------------------------
\* The client never sees a body with a hole: what it received is a prefix of what
\* dockerd sent, although writes fail and reading goes on.
NoHole == \E n \in 0 .. pos : got = SubSeq(body, 1, n)

\* The id of a created container, and the ids of pruned ones, decide which
\* addresses are recorded and released.  A prune handler that is not told of an error
\* has the whole body, also when its client went away in the middle.  A create
\* handler has it as long as its client could be written to, and whenever the
\* client got all of it; but of a client that goes away in the middle it is not
\* told, and has what was read until then.
ReadIsComplete ==
    result = "nil" /\ mode \in {"create", "prune"} =>
        /\ mode = "prune" \/ writeable => readData = body
        /\ got = body => readData = body

\* Both readers of a body, the client and the handler, can rely on what they have.
BodyIntact == NoHole /\ ReadIsComplete

=============================================================================
