----------------------------- MODULE HostProofs -----------------------------
(***************************************************************************)
(* Theorems about the parts of the barrel process: an upgraded connection, *)
(* a forwarded response, a batch of writes to etcd, and the services of the*)
(* process, for bodies, streams and batches of every length, transactions  *)
(* of every size and every configuration.                                  *)
(***************************************************************************)
EXTENDS ServiceStarter, BodyForward, LinkConn, EtcdBatch, FiniteSetTheorems, SequenceTheorems, TLAPS

(***************************************************************************)
(* An upgraded connection.  A goroutine that has ended has closed the side *)
(* the other one reads from.  With a client that only listens it is        *)
(* dockerd's goroutine that ends first, and only when its peer has closed  *)
(* and all that it sent has been read and delivered.                       *)
(***************************************************************************)
LinkTypeOK ==
    /\ phase \in {"upgraded", "switched", "linked", "returned", "failed"}
    /\ sent \in [Side -> Nat] /\ read \in [Side -> Nat] /\ delivered \in [Side -> Nat]
    /\ ended \subseteq Side /\ closed \subseteq Side /\ done \subseteq Side

\* The client has sent nothing and has not closed.
Listens == sent["client"] = 0 /\ "client" \notin ended

LinkIInv ==
    /\ LinkTypeOK
    /\ \A s \in Side : read[s] <= sent[s]
    /\ \A s \in Side : s \in closed <=> Other(s) \in done
    /\ phase = "returned" => done = Side
    /\ Listens => delivered["client"] = read["server"]
    /\ Listens /\ "server" \notin done => "client" \notin done
    /\ Listens /\ "server" \in done => "server" \in ended /\ read["server"] = sent["server"]

\* The two sides are each other's opposite.
LEMMA OtherSide == Other("client") = "server" /\ Other("server") = "client"
  BY DEF Other, Side

\* The invariant holds of a connection that was just upgraded.
LEMMA LinkInitHolds == LinkInit => LinkIInv
  BY OtherSide DEF LinkInit, LinkIInv, LinkTypeOK, Listens, Side

\* linkConn and the wait for the goroutines keep it.
LEMMA LinkMain ==
  ASSUME LinkIInv, Link PROVE LinkIInv'
  BY DEF LinkIInv, LinkTypeOK, Listens, Link, SwitchProtocols, Hijack, Wait, Side

\* So does a byte copied, or one that cannot be written.
LEMMA LinkCopies ==
  ASSUME LinkIInv, NEW s \in Side, CopyByte(s) PROVE LinkIInv'
<1> USE OtherSide
<1>1. /\ read' \in [Side -> Nat] /\ read'[s] = read[s] + 1
      /\ \A t \in Side : t # s => read'[t] = read[t]
      /\ read[s] < sent[s] /\ s \notin done
      /\ UNCHANGED <<phase, sent, ended>>
  BY DEF LinkIInv, LinkTypeOK, CopyByte, HasByte, Running, Side
<1>2. CASE Other(s) \notin closed \cup ended
  <2>1. /\ delivered' = [delivered EXCEPT ![Other(s)] = @ + 1]
        /\ UNCHANGED <<closed, done>>
    BY <1>2 DEF CopyByte, End
  <2>2. CASE s = "client"
    BY <1>1, <2>1, <2>2 DEF LinkIInv, LinkTypeOK, Listens, Side
  <2>3. CASE s = "server"
    BY <1>1, <1>2, <2>1, <2>3 DEF LinkIInv, LinkTypeOK, Listens, Side
  <2> QED
    BY <2>2, <2>3 DEF Side
<1>3. CASE Other(s) \in closed \cup ended
  <2>1. /\ done' = done \cup {s} /\ closed' = closed \cup {Other(s)} /\ UNCHANGED delivered
        /\ UNCHANGED <<phase, sent, ended>>
    BY <1>3, <1>1 DEF CopyByte, End
  <2>2. LinkTypeOK' /\ (\A t \in Side : read[t] <= sent[t])'
    <3>1. LinkTypeOK'
      BY <1>1, <2>1 DEF LinkIInv, LinkTypeOK, Side
    <3>2. ASSUME NEW t \in Side PROVE read'[t] <= sent'[t]
      BY <1>1, <3>2 DEF LinkIInv, LinkTypeOK
    <3> QED
      BY <3>1, <3>2
  <2>3. (\A t \in Side : t \in closed <=> Other(t) \in done)' /\ (phase = "returned" => done = Side)'
    BY <2>1 DEF LinkIInv, Side
  <2>4. CASE s = "client"
    <3>1. ~Listens'
      BY <1>1, <2>1, <2>4 DEF LinkIInv, LinkTypeOK, Listens, Side
    <3> QED
      BY <2>2, <2>3, <3>1 DEF LinkIInv
  <2>5. CASE s = "server"
    <3>1. ~Listens'
      BY <1>1, <1>3, <2>1, <2>5 DEF LinkIInv, LinkTypeOK, Listens, Side
    <3> QED
      BY <2>2, <2>3, <3>1 DEF LinkIInv
  <2> QED
    BY <2>4, <2>5 DEF Side
<1> QED
  BY <1>2, <1>3

\* So does a goroutine that ends at the end of its stream.
LEMMA LinkEnds ==
  ASSUME LinkIInv, NEW s \in Side, EndOfStream(s) PROVE LinkIInv'
<1>1. CASE s = "client"
  BY <1>1, OtherSide DEF LinkIInv, LinkTypeOK, Listens, Side, EndOfStream, Running, AtEnd, End
<1>2. CASE s = "server"
  BY <1>2, OtherSide DEF LinkIInv, LinkTypeOK, Listens, Side, EndOfStream, Running, AtEnd, End
<1> QED
  BY <1>1, <1>2 DEF Side

\* And so does whatever the peers do.
LEMMA LinkPeers ==
  ASSUME LinkIInv, NEW s \in Side, PeerSends(s) \/ PeerCloses(s) PROVE LinkIInv'
<1>1. CASE PeerSends(s)
  <2>1. /\ sent' \in [Side -> Nat] /\ sent'[s] = sent[s] + 1 /\ s \notin ended
        /\ \A t \in Side : t # s => sent'[t] = sent[t]
        /\ UNCHANGED <<phase, read, delivered, ended, closed, done>>
    BY <1>1 DEF LinkIInv, LinkTypeOK, PeerSends
  <2> QED
    BY <2>1 DEF LinkIInv, LinkTypeOK, Listens, Side
<1>2. CASE PeerCloses(s)
  BY <1>2 DEF LinkIInv, LinkTypeOK, Listens, Side, PeerCloses
<1> QED
  BY <1>1, <1>2

\* LinkIntact, of linkConn and Link: when Link returns both connections are closed,
\* and a client that only listens has received all that dockerd sent, for streams
\* of every length.
THEOREM LinkIsIntact == LinkSpec => []LinkIntact
<1>1. LinkIInv /\ [LinkNext]_linkVars => LinkIInv'
  <2> SUFFICES ASSUME LinkIInv, [LinkNext]_linkVars PROVE LinkIInv'
    OBVIOUS
  <2>1. CASE UNCHANGED linkVars
    BY <2>1 DEF linkVars, LinkIInv, LinkTypeOK, Listens
  <2>2. CASE LinkNext
    BY <2>2, LinkMain, LinkCopies, LinkEnds, LinkPeers DEF LinkNext, Goroutine
  <2> QED
    BY <2>1, <2>2
<1>2. LinkIInv => LinkIntact
  BY OtherSide DEF LinkIInv, LinkTypeOK, Listens, LinkIntact, BothClosed, OutputDelivered, Side
<1> QED
  BY LinkInitHolds, <1>1, <1>2, PTL DEF LinkSpec

(***************************************************************************)
(* A forwarded response.  A client that can still be written to has what   *)
(* was read, one that cannot has an earlier part of it, and a handler that *)
(* goes on reading has all of it.                                          *)
(***************************************************************************)
BodyTypeOK ==
    /\ mode \in {"forward", "create", "prune", "chunked"}
    /\ body \in Seq(Nat) /\ pos \in 0 .. Len(body)
    /\ result \in {"none", "unanswered", "running", "nil", "error"}

BodyIInv ==
    /\ BodyTypeOK
    /\ NoHole
    /\ writeable => got = SubSeq(body, 1, pos)
    /\ result = "none" => pos = 0 /\ got = <<>> /\ readData = <<>>
    /\ result \in {"running", "nil"} /\ mode \in {"create", "prune"} => readData = SubSeq(body, 1, pos)
    /\ result = "nil" /\ mode \in {"create", "prune"} =>
          pos = Len(body) \/ (mode = "create" /\ ~writeable)

\* The invariant holds before dockerd has answered.
LEMMA BodyInitHolds == BodyInit => BodyIInv
<1> SUFFICES ASSUME BodyInit PROVE BodyIInv
  OBVIOUS
<1>1. <<>> \in Seq(Nat) /\ Len(<<>>) = 0 /\ SubSeq(<<>>, 1, 0) = <<>>
  BY SubSeqEmpty
<1> QED
  BY <1>1 DEF BodyInit, BodyIInv, BodyTypeOK, NoHole

\* An answer, or none, keeps it.
LEMMA BodyAnswers ==
  ASSUME BodyIInv, NEW m \in Modes, NEW b \in Bodies, Answer(m, b) PROVE BodyIInv'
<1>1. pos = 0 /\ got = <<>> /\ readData = <<>> /\ result = "none"
  BY DEF BodyIInv, Answer
<1>2. UNCHANGED <<pos, got, readData, writeable>>
  BY DEF Answer
<1>3. SubSeq(body', 1, 0) = <<>>
  BY SubSeqEmpty
<1>4. body' \in Seq(Nat)
  <2>1. CASE mode' = m /\ body' = b
    <3>1. PICK n \in 0 .. MaxPieces : b = [i \in 1 .. n |-> i]
      BY DEF Bodies
    <3>2. n \in Nat
      BY <3>1, MaxPiecesAssumption
    <3>3. b \in Seq(Nat)
      BY <3>1, <3>2
    <3> QED
      BY <2>1, <3>3
  <2>2. CASE UNCHANGED <<mode, body>>
    BY <2>2 DEF BodyIInv, BodyTypeOK
  <2> QED
    BY <2>1, <2>2 DEF Answer
<1>5. mode' \in {"forward", "create", "prune", "chunked"} /\ result' \in {"running", "unanswered"}
  BY ModesAssumption DEF Answer, BodyIInv, BodyTypeOK
<1>6. pos' = 0 /\ 0 \in 0 .. Len(body')
  BY <1>1, <1>2, <1>4
<1>7. NoHole'
  BY <1>1, <1>2, <1>3, <1>6 DEF NoHole
<1> QED
  BY <1>1, <1>2, <1>3, <1>4, <1>5, <1>6, <1>7 DEF BodyIInv, BodyTypeOK

\* What is read next goes on where the last Read ended.
LEMMA ReadGoesOn ==
  ASSUME BodyIInv, NEW piece, NEW end \in BOOLEAN, Read(piece, end)
  PROVE  /\ pos' \in pos .. Len(body)
         /\ SubSeq(body, 1, pos) \o piece = SubSeq(body, 1, pos')
         /\ end => pos' = Len(body)
         /\ result = "running"
<1> USE DEF BodyIInv, BodyTypeOK
<1>1. CASE pos < Len(body) /\ piece = <<body[pos + 1]>>
  <2>1. Len(piece) = 1 /\ pos' = pos + 1 /\ pos + 1 \in 1 .. Len(body)
    BY <1>1 DEF Read
  <2>2. 1 \in 1 .. Len(body)
    BY <2>1
  <2>3. SubSeq(body, 1, pos + 1) = SubSeq(body, 1, (pos + 1) - 1) \o <<body[pos + 1]>>
    BY <2>1, <2>2, SubSeqRecursiveSecond
  <2> QED
    BY <1>1, <2>1, <2>3 DEF Read
<1>2. CASE pos = Len(body) /\ piece = <<>>
  <2>1. Len(piece) = 0 /\ pos' = pos
    BY <1>2 DEF Read
  <2>2. SubSeq(body, 1, pos) \in Seq(Nat)
    BY SubSeqProperties
  <2>3. SubSeq(body, 1, pos) \o <<>> = SubSeq(body, 1, pos)
    BY <2>2, ConcatEmptySeq
  <2> QED
    BY <1>2, <2>1, <2>3 DEF Read
<1> QED
  BY <1>1, <1>2 DEF Read

\* A Write keeps what the client has a part of what was read, and all of it for as
\* long as it can be written to.
LEMMA WriteKeepsPrefix ==
  ASSUME BodyIInv, NEW piece, Write(piece), UNCHANGED body, pos' \in pos .. Len(body),
         SubSeq(body, 1, pos) \o piece = SubSeq(body, 1, pos')
  PROVE  NoHole' /\ (writeable' => got' = SubSeq(body', 1, pos'))
<1>1. CASE writeable /\ writeable' = writeable /\ got' = got \o piece
  <2>1. got' = SubSeq(body', 1, pos')
    BY <1>1 DEF BodyIInv
  <2>2. pos' \in 0 .. pos'
    BY DEF BodyIInv, BodyTypeOK
  <2> QED
    BY <2>1, <2>2 DEF NoHole
<1>2. CASE writeable' = FALSE /\ got' = got
  <2>1. PICK n \in 0 .. pos : got = SubSeq(body, 1, n)
    BY DEF BodyIInv, NoHole
  <2>2. n \in 0 .. pos'
    BY <2>1 DEF BodyIInv, BodyTypeOK
  <2> QED
    BY <1>2, <2>1, <2>2 DEF NoHole
<1> QED
  BY <1>1, <1>2 DEF Write

\* One round of readAndWriteToDst keeps the invariant.
LEMMA BodyCopies ==
  ASSUME BodyIInv, NEW piece, NEW end \in BOOLEAN, Copy(piece, end) PROVE BodyIInv'
<1>1. /\ pos' \in pos .. Len(body)
      /\ SubSeq(body, 1, pos) \o piece = SubSeq(body, 1, pos')
      /\ end => pos' = Len(body)
      /\ result = "running"
  BY ReadGoesOn DEF Copy
<1>2. UNCHANGED <<mode, body>> /\ result' \in {"running", "nil"}
  BY <1>1 DEF Copy
<1>3. BodyTypeOK'
  BY <1>1, <1>2 DEF BodyIInv, BodyTypeOK
<1>4. NoHole' /\ (writeable' => got' = SubSeq(body', 1, pos'))
  BY <1>1, <1>2, WriteKeepsPrefix DEF Copy
<1>5. mode \in {"create", "prune"} => readData' = SubSeq(body', 1, pos')
  BY <1>1, <1>2 DEF Copy, BodyIInv
<1>6. result' = "nil" /\ mode \in {"create", "prune"} =>
        pos' = Len(body) \/ (mode = "create" /\ ~writeable')
  BY <1>1 DEF Copy, GivesUp, writeToDstOnly
<1> QED
  BY <1>2, <1>3, <1>4, <1>5, <1>6 DEF BodyIInv

\* So does one of ForwardChunked, which keeps no copy.
LEMMA BodyChunks ==
  ASSUME BodyIInv, NEW piece, NEW end \in BOOLEAN, CopyChunk(piece, end) PROVE BodyIInv'
<1>1. /\ pos' \in pos .. Len(body)
      /\ SubSeq(body, 1, pos) \o piece = SubSeq(body, 1, pos')
      /\ result = "running"
  BY ReadGoesOn DEF CopyChunk
<1>2. UNCHANGED <<mode, body>> /\ mode = "chunked" /\ result' \in {"running", "nil"}
  BY <1>1 DEF CopyChunk
<1>3. BodyTypeOK'
  BY <1>1, <1>2 DEF BodyIInv, BodyTypeOK
<1>4. NoHole' /\ (writeable' => got' = SubSeq(body', 1, pos'))
  BY <1>1, <1>2, WriteKeepsPrefix DEF CopyChunk
<1> QED
  BY <1>2, <1>3, <1>4 DEF BodyIInv

\* So does a Read that fails, with or without a last piece.
LEMMA BodyFails ==
  ASSUME BodyIInv, NEW piece, CopyError \/ ChunkError(piece) PROVE BodyIInv'
<1>1. CASE CopyError
  BY <1>1 DEF CopyError, BodyIInv, BodyTypeOK, NoHole
<1>2. CASE ChunkError(piece)
  <2>1. /\ pos' \in pos .. Len(body)
        /\ SubSeq(body, 1, pos) \o piece = SubSeq(body, 1, pos')
    <3>1. CASE Read(piece, FALSE)
      BY <3>1, ReadGoesOn
    <3>2. CASE piece = <<>> /\ UNCHANGED pos
      <4>1. SubSeq(body, 1, pos) \in Seq(Nat)
        BY SubSeqProperties DEF BodyIInv, BodyTypeOK
      <4>2. SubSeq(body, 1, pos) \o <<>> = SubSeq(body, 1, pos)
        BY <4>1, ConcatEmptySeq
      <4> QED
        BY <3>2, <4>2 DEF BodyIInv, BodyTypeOK
    <3> QED
      BY <1>2, <3>1, <3>2 DEF ChunkError
  <2>2. UNCHANGED <<mode, body>> /\ mode = "chunked" /\ result' = "nil"
    BY <1>2 DEF ChunkError
  <2>3. BodyTypeOK'
    BY <2>1, <2>2 DEF BodyIInv, BodyTypeOK
  <2>4. NoHole' /\ (writeable' => got' = SubSeq(body', 1, pos'))
    BY <1>2, <2>1, <2>2, WriteKeepsPrefix DEF ChunkError
  <2> QED
    BY <2>2, <2>3, <2>4 DEF BodyIInv
<1> QED
  BY <1>1, <1>2

\* BodyIntact, of Forward, ForwardAndRead, ReadAndForward and ForwardChunked: the
\* client never sees a body with a hole, a prune handler that is told of no error has
\* the whole body, and a create handler has it unless a write to its client failed
\* before the client had all of it; whenever reads and writes fail and however long
\* the body is.
THEOREM BodyIsIntact == BodySpec => []BodyIntact
<1>1. BodyIInv /\ [BodyNext]_bodyVars => BodyIInv'
  <2> SUFFICES ASSUME BodyIInv, [BodyNext]_bodyVars PROVE BodyIInv'
    OBVIOUS
  <2>1. CASE UNCHANGED bodyVars
    BY <2>1 DEF bodyVars, BodyIInv, BodyTypeOK, NoHole
  <2>2. CASE BodyNext
    BY <2>2, BodyAnswers, BodyCopies, BodyChunks, BodyFails DEF BodyNext
  <2> QED
    BY <2>1, <2>2
<1>2. BodyIInv => BodyIntact
  <2> SUFFICES ASSUME BodyIInv PROVE BodyIntact
    OBVIOUS
  <2>1. SubSeq(body, 1, Len(body)) = body
    BY SubSeqFull DEF BodyIInv, BodyTypeOK
  <2>2. got = body => pos = Len(body)
    <3>1. PICK n \in 0 .. pos : got = SubSeq(body, 1, n)
      BY DEF BodyIInv, NoHole
    <3>2. body \in Seq(Nat) /\ n \in 0 .. Len(body) /\ pos \in 0 .. Len(body)
      BY <3>1 DEF BodyIInv, BodyTypeOK
    <3>3. Len(SubSeq(body, 1, n)) = n
      BY <3>2
    <3> QED
      BY <3>1, <3>2, <3>3
  <2>3. ReadIsComplete
    BY <2>1, <2>2 DEF BodyIInv, ReadIsComplete
  <2> QED
    BY <2>3 DEF BodyIInv, BodyIntact
<1> QED
  BY BodyInitHolds, <1>1, <1>2, PTL DEF BodySpec

(***************************************************************************)
(* A batch of writes.  The slices doBatchOp cuts out of the operations: how*)
(* many there are, and what each holds.                                    *)
(***************************************************************************)

\* The quotient and the remainder by the size of a transaction.
LEMMA Division ==
  ASSUME NEW n \in Nat
  PROVE  /\ Count(n) \in Nat
         /\ Count(n) * TxnLimit <= n
         /\ n < Count(n) * TxnLimit + TxnLimit
         /\ n % TxnLimit = n - Count(n) * TxnLimit
  BY TxnLimitAssumption DEF Count

\* A multiple of the size is at most the next one.
LEMMA Multiples ==
  ASSUME NEW i \in Nat, NEW j \in Nat, i < j
  PROVE  i * TxnLimit + TxnLimit <= j * TxnLimit
<1>1. PICK d \in Nat : j = i + 1 + d
  <2>1. j - i - 1 \in Nat /\ j = i + 1 + (j - i - 1)
    OBVIOUS
  <2> QED
    BY <2>1
<1>2. TxnLimit \in Nat
  BY TxnLimitAssumption
<1>3. j * TxnLimit = i * TxnLimit + TxnLimit + d * TxnLimit
  BY <1>1, <1>2
<1>4. d * TxnLimit >= 0
  BY <1>2
<1>5. i * TxnLimit \in Nat /\ d * TxnLimit \in Nat
  BY <1>2
<1> QED
  BY <1>2, <1>3, <1>4, <1>5

Low(i) == i * TxnLimit + 1
High(i, n) == IF i < Count(n) THEN (i + 1) * TxnLimit ELSE n

\* The bounds of the slices: each within the operations, not empty and no longer
\* than a transaction may be.
LEMMA Bounds ==
  ASSUME NEW n \in Nat, NEW i \in 0 .. (Length(n) - 1)
  PROVE  /\ Low(i) \in 1 .. n /\ High(i, n) \in 1 .. n
         /\ Low(i) <= High(i, n) /\ High(i, n) <= i * TxnLimit + TxnLimit
<1>1. /\ Count(n) \in Nat
      /\ Count(n) * TxnLimit <= n
      /\ n < Count(n) * TxnLimit + TxnLimit
      /\ n % TxnLimit = n - Count(n) * TxnLimit
      /\ TxnLimit \in Nat \ {0}
  BY Division, TxnLimitAssumption
<1>2. i \in Nat /\ i * TxnLimit \in Nat /\ (i + 1) * TxnLimit = i * TxnLimit + TxnLimit
  BY <1>1 DEF Length
<1>3. CASE i < Count(n)
  <2>1. i * TxnLimit + TxnLimit <= Count(n) * TxnLimit
    BY <1>1, <1>2, <1>3, Multiples
  <2>2. Count(n) * TxnLimit \in Nat
    BY <1>1
  <2> QED
    BY <1>1, <1>2, <1>3, <2>1, <2>2 DEF Low, High
<1>4. CASE ~(i < Count(n))
  <2>1. i = Count(n) /\ n % TxnLimit # 0
    <3>1. Length(n) = Count(n) + (IF n % TxnLimit # 0 THEN 1 ELSE 0) /\ i <= Length(n) - 1
      BY <1>1 DEF Length
    <3> HIDE DEF Length
    <3>2. CASE n % TxnLimit = 0
      BY <1>1, <1>2, <1>4, <3>1, <3>2
    <3>3. CASE n % TxnLimit # 0
      <4>1. Length(n) = Count(n) + 1 /\ i <= Length(n) - 1
        BY <3>1, <3>3
      <4>2. Count(n) \in Nat /\ i \in Nat
        BY <1>1, <1>2
      <4>3. i = Count(n)
        BY <1>4, <4>1, <4>2
      <4> QED
        BY <3>3, <4>3
    <3> QED
      BY <3>2, <3>3
  <2>2. Count(n) * TxnLimit \in Nat
    BY <1>1
  <2> QED
    BY <1>1, <1>2, <1>4, <2>1, <2>2 DEF Low, High
<1> QED
  BY <1>3, <1>4

\* A slice is what lies between its bounds.
LEMMA ChunkIs ==
  ASSUME NEW i, NEW s
  PROVE  Chunk(i, s) = {s[j] : j \in Low(i) .. High(i, Len(s))}
  BY DEF Chunk, Low, High

\* Every operation is in a slice.
LEMMA ChunksCover ==
  ASSUME NEW s \in Seq(Keys), NEW j \in 1 .. Len(s)
  PROVE  \E i \in 0 .. (Length(Len(s)) - 1) : s[j] \in Chunk(i, s)
<1> DEFINE n == Len(s)
           i == Count(j - 1)
<1>1. /\ i \in Nat /\ i * TxnLimit <= j - 1 /\ j - 1 < i * TxnLimit + TxnLimit
  <2>1. j - 1 \in Nat
    OBVIOUS
  <2> QED
    BY <2>1, Division
<1>2. /\ n \in Nat /\ j <= n /\ j \in Nat
      /\ Count(n) \in Nat /\ Count(n) * TxnLimit <= n /\ n < Count(n) * TxnLimit + TxnLimit
      /\ n % TxnLimit = n - Count(n) * TxnLimit
      /\ TxnLimit \in Nat \ {0}
  BY Division, TxnLimitAssumption
<1>3. i * TxnLimit \in Nat /\ Count(n) * TxnLimit \in Nat
      /\ (i + 1) * TxnLimit = i * TxnLimit + TxnLimit
  BY <1>1, <1>2
<1> HIDE DEF i, n
<1>4. ~(Count(n) < i)
  <2> SUFFICES ASSUME Count(n) < i PROVE FALSE
    OBVIOUS
  <2>1. Count(n) * TxnLimit + TxnLimit <= i * TxnLimit
    BY <1>1, <1>2, Multiples
  <2> QED
    BY <1>1, <1>2, <1>3, <2>1
<1>5. CASE i < Count(n)
  <2>1. i \in 0 .. (Length(n) - 1)
    BY <1>1, <1>2, <1>5 DEF Length
  <2>2. j \in Low(i) .. High(i, n)
    BY <1>1, <1>2, <1>3, <1>5 DEF Low, High
  <2> QED
    BY <2>1, <2>2, ChunkIs DEF n
<1>6. CASE i = Count(n)
  <2>1. n % TxnLimit # 0
    BY <1>1, <1>2, <1>3, <1>6
  <2>2. i \in 0 .. (Length(n) - 1)
    BY <1>1, <1>2, <1>6, <2>1 DEF Length
  <2>3. j \in Low(i) .. High(i, n)
    BY <1>1, <1>2, <1>3, <1>6 DEF Low, High
  <2> QED
    BY <2>2, <2>3, ChunkIs DEF n
<1> QED
  BY <1>1, <1>2, <1>4, <1>5, <1>6

\* No operation is listed twice.
Once(s) == \A i, j \in 1 .. Len(s) : s[i] = s[j] => i = j

\* No key is in two slices of operations for different keys.
LEMMA ChunksDisjoint ==
  ASSUME NEW s \in Seq(Keys), Once(s),
         NEW i \in 0 .. (Length(Len(s)) - 1), NEW j \in 0 .. (Length(Len(s)) - 1), i # j
  PROVE  Chunk(i, s) \cap Chunk(j, s) = {}
<1>0. Len(s) \in Nat
  OBVIOUS
<1>1. ASSUME NEW a \in 0 .. (Length(Len(s)) - 1), NEW b \in 0 .. (Length(Len(s)) - 1), a < b,
             NEW x \in Low(a) .. High(a, Len(s)), NEW y \in Low(b) .. High(b, Len(s))
      PROVE  x < y
  <2>1. High(a, Len(s)) <= a * TxnLimit + TxnLimit /\ High(a, Len(s)) \in Int
    BY <1>0, <1>1, Bounds
  <2>2. a \in Nat /\ b \in Nat
    BY <1>1
  <2>3. a * TxnLimit + TxnLimit <= b * TxnLimit
    BY <1>1, <2>2, Multiples
  <2>4. a * TxnLimit \in Nat /\ b * TxnLimit \in Nat /\ TxnLimit \in Nat
    BY <2>2, TxnLimitAssumption
  <2> QED
    BY <1>1, <2>1, <2>3, <2>4 DEF Low
<1>2. ASSUME NEW a \in 0 .. (Length(Len(s)) - 1), NEW x \in Low(a) .. High(a, Len(s))
      PROVE  x \in 1 .. Len(s)
  <2>1. Low(a) \in 1 .. Len(s) /\ High(a, Len(s)) \in 1 .. Len(s)
    BY <1>0, <1>2, Bounds
  <2> QED
    BY <1>0, <1>2, <2>1
<1>3. ASSUME NEW k \in Chunk(i, s), k \in Chunk(j, s) PROVE FALSE
  <2>1. PICK x \in Low(i) .. High(i, Len(s)) : k = s[x]
    BY <1>3, ChunkIs
  <2>2. PICK y \in Low(j) .. High(j, Len(s)) : k = s[y]
    BY <1>3, ChunkIs
  <2>3. x \in 1 .. Len(s) /\ y \in 1 .. Len(s)
    BY <1>2
  <2>4. x = y
    BY <2>1, <2>2, <2>3 DEF Once
  <2>5. i < j \/ j < i
    BY <1>0
  <2>6. x < y \/ y < x
    BY <1>1, <2>5
  <2> QED
    BY <2>3, <2>4, <2>6
<1> QED
  BY <1>3

\* A transaction has at least one operation and no more than etcd accepts.
LEMMA ChunkSize ==
  ASSUME NEW s \in Seq(Keys), NEW i \in 0 .. (Length(Len(s)) - 1)
  PROVE  Cardinality(Chunk(i, s)) \in 1 .. TxnLimit
<1> DEFINE S == Low(i) .. High(i, Len(s))
           T == Chunk(i, s)
           f == [j \in S |-> s[j]]
<1>1. /\ Low(i) \in Int /\ High(i, Len(s)) \in Int /\ Low(i) <= High(i, Len(s))
      /\ High(i, Len(s)) <= i * TxnLimit + TxnLimit
  <2>1. Len(s) \in Nat
    OBVIOUS
  <2> QED
    BY <2>1, Bounds
<1>2. IsFiniteSet(S) /\ Cardinality(S) <= TxnLimit
  <2>1. IsFiniteSet(S) /\ Cardinality(S) = High(i, Len(s)) - Low(i) + 1
    BY <1>1, FS_Interval
  <2>2. i \in Nat /\ i * TxnLimit \in Nat /\ TxnLimit \in Nat
    BY TxnLimitAssumption
  <2> QED
    BY <1>1, <2>1, <2>2 DEF Low
<1>3. f \in Surjection(S, T)
  BY ChunkIs DEF Surjection
<1>4. IsFiniteSet(T) /\ Cardinality(T) <= Cardinality(S)
  BY <1>2, <1>3, FS_Surjection
<1>5. T # {}
  <2>1. Low(i) \in S
    BY <1>1
  <2> QED
    BY <2>1, ChunkIs
<1>6. Cardinality(T) \in Nat /\ Cardinality(T) # 0 /\ Cardinality(S) \in Nat
  BY <1>2, <1>4, <1>5, FS_CardinalityType, FS_EmptySet
<1> QED
  BY <1>2, <1>4, <1>6, TxnLimitAssumption

\* Of the first n records, data has the last value for each key, and none for the
\* keys they do not name.
LastGiven(n) ==
    \A k \in Keys :
        \/ data[k] = Absent /\ \A j \in 1 .. n : codecs[j].key # k
        \/ \E i \in 1 .. n : /\ codecs[i].key = k /\ data[k] = codecs[i].val
                             /\ \A j \in 1 .. n : j > i => codecs[j].key # k

\* The operations are one for each key that was given.
Spread ==
    /\ Once(ops)
    /\ \A k \in Given : \E j \in 1 .. Len(ops) : ops[j] = k
    /\ DOMAIN txn = 0 .. (Length(Len(ops)) - 1)

BatchIInv ==
    /\ BatchTypeOK
    /\ commits \in [Keys -> Nat]
    /\ WrittenOnce
    /\ pc = "encode" => DOMAIN txn = {} /\ ret = "none" /\ \A k \in Keys : commits[k] = 0
    /\ pc = "wait" => Spread /\ ret = "none"
    /\ ret = "ok" => pc = "done" /\ \A k \in Given : kv[k] = data[k]
    /\ pc = "wait" \/ ret = "ok" => next = Len(codecs) + 1
    /\ ret # "error" => LastGiven(next - 1) /\ \A j \in 1 .. (next - 1) : codecs[j].key # Blank
    /\ \A i \in DOMAIN txn : txn[i] = "sent" => \A k \in Chunk(i, ops) : commits[k] = 0
    /\ \A i \in DOMAIN txn : txn[i] = "ok" => \A k \in Chunk(i, ops) : kv[k] = data[k]

\* The invariant holds when PutMulti is called.
LEMMA BatchInitHolds == BatchInit => BatchIInv
<1> SUFFICES ASSUME BatchInit PROVE BatchIInv
  OBVIOUS
<1>1. codecs \in Seq(Codec) /\ Len(codecs) \in Nat
  <2>1. PICK n \in 0 .. MaxCodecs : codecs \in [1 .. n -> Codec]
    BY DEF BatchInit
  <2>2. n \in Nat
    BY <2>1, MaxCodecsAssumption
  <2> QED
    BY <2>1, <2>2
<1>2. ops \in Seq(Keys) /\ DOMAIN txn = {}
  BY DEF BatchInit
<1>3. /\ data \in [Keys -> Values \cup {Absent}] /\ kv \in [Keys -> Values \cup {Absent}]
      /\ commits \in [Keys -> Nat] /\ \A k \in Keys : commits[k] = 0 /\ data[k] = Absent
  BY DEF BatchInit
<1>4. next = 1 /\ 1 \in 1 .. (Len(codecs) + 1) /\ 1 .. (next - 1) = {}
  BY <1>1 DEF BatchInit
<1>5. BatchTypeOK
  BY <1>1, <1>2, <1>3, <1>4 DEF BatchInit, BatchTypeOK
<1>6. LastGiven(next - 1)
  BY <1>3, <1>4 DEF LastGiven
<1> QED
  BY <1>2, <1>3, <1>4, <1>5, <1>6 DEF BatchInit, BatchIInv, WrittenOnce

\* A record that is encoded is the last one for its key.
LEMMA BatchEncodes ==
  ASSUME BatchIInv, Encode PROVE BatchIInv'
<1> DEFINE codec == codecs[next]
<1>1. /\ pc = "encode" /\ next \in 1 .. Len(codecs) /\ next' = next + 1 /\ Len(codecs) \in Nat
      /\ UNCHANGED <<codecs, ops, txn, kv, commits>>
      /\ codecs \in Seq(Codec) /\ next \in Nat
  BY DEF Encode, BatchIInv, BatchTypeOK
<1>2. codec \in Codec /\ next' \in 1 .. (Len(codecs) + 1) /\ next' - 1 = next
  BY <1>1
<1>3. DOMAIN txn = {} /\ ret = "none" /\ \A k \in Keys : commits[k] = 0
  BY <1>1 DEF BatchIInv
<1>4. CASE BatchReturn("error") /\ UNCHANGED data
  BY <1>1, <1>2, <1>3, <1>4 DEF BatchReturn, BatchIInv, BatchTypeOK, WrittenOnce
<1>5. CASE /\ codec.key # Blank
           /\ data' = [data EXCEPT ![codec.key] = codec.val] /\ UNCHANGED <<pc, ret>>
  <2>1. codec.key \in Keys /\ codec.val \in Values
    BY <1>2, <1>5 DEF Codec
  <2>2. /\ data' \in [Keys -> Values \cup {Absent}] /\ data'[codec.key] = codec.val
        /\ \A k \in Keys : k # codec.key => data'[k] = data[k]
    BY <1>5, <2>1 DEF BatchIInv, BatchTypeOK
  <2>3. LastGiven(next - 1) /\ \A j \in 1 .. (next - 1) : codecs[j].key # Blank
    BY <1>3 DEF BatchIInv
  <2>4. \A j \in 1 .. next : j \in 1 .. (next - 1) \/ j = next
    BY <1>1
  <2>5. LastGiven(next - 1)'
    <3> SUFFICES ASSUME NEW k \in Keys
                 PROVE  \/ data'[k] = Absent /\ \A j \in 1 .. next : codecs[j].key # k
                        \/ \E i \in 1 .. next : /\ codecs[i].key = k /\ data'[k] = codecs[i].val
                                                /\ \A j \in 1 .. next : j > i => codecs[j].key # k
      BY <1>1, <1>2 DEF LastGiven
    <3>1. CASE k = codec.key
      <4>1. next \in 1 .. next /\ \A j \in 1 .. next : ~(j > next)
        BY <1>1
      <4> QED
        BY <3>1, <4>1, <2>2
    <3>2. CASE k # codec.key
      <4>1. CASE data[k] = Absent /\ \A j \in 1 .. (next - 1) : codecs[j].key # k
        BY <3>2, <4>1, <2>2, <2>4
      <4>2. CASE \E i \in 1 .. (next - 1) : /\ codecs[i].key = k /\ data[k] = codecs[i].val
                                            /\ \A j \in 1 .. (next - 1) : j > i => codecs[j].key # k
        <5>1. PICK i \in 1 .. (next - 1) : /\ codecs[i].key = k /\ data[k] = codecs[i].val
                                           /\ \A j \in 1 .. (next - 1) : j > i => codecs[j].key # k
          BY <4>2
        <5>2. i \in 1 .. next
          BY <1>1
        <5> QED
          BY <3>2, <5>1, <5>2, <2>2, <2>4
      <4> QED
        BY <2>3, <4>1, <4>2 DEF LastGiven
    <3> QED
      BY <3>1, <3>2
  <2>6. \A j \in 1 .. next : codecs[j].key # Blank
    BY <1>5, <2>3, <2>4
  <2> QED
    BY <1>1, <1>2, <1>3, <1>5, <2>2, <2>5, <2>6 DEF BatchIInv, BatchTypeOK, WrittenOnce
<1> QED
  BY <1>4, <1>5 DEF Encode

\* The operations of any order name each key once.
LEMMA OrdersAreOnce ==
  ASSUME NEW s \in Orders
  PROVE  /\ s \in Seq(Keys) /\ Once(s)
         /\ \A k \in Given : \E j \in 1 .. Len(s) : s[j] = k
<1> DEFINE n == Cardinality(Given)
<1>1. IsFiniteSet(Given)
  BY BatchKeysAssumption, FS_Subset DEF Given
<1>2. n \in Nat
  BY <1>1, FS_CardinalityType
<1>3. s \in [1 .. n -> Given] /\ \A k \in Given : \E i \in DOMAIN s : s[i] = k
  BY DEF Orders
<1>4. Given \subseteq Keys
  BY DEF Given
<1>5. s \in Surjection(1 .. n, Given)
  BY <1>3 DEF Surjection
<1>6. IsFiniteSet(1 .. n) /\ Cardinality(1 .. n) = n
  <2>1. 1 \in Int /\ n \in Int
    BY <1>2
  <2>2. IsFiniteSet(1 .. n) /\ Cardinality(1 .. n) = IF 1 > n THEN 0 ELSE n - 1 + 1
    BY <2>1, FS_Interval
  <2> QED
    BY <1>2, <2>2
<1> HIDE DEF n
<1>7. s \in Injection(1 .. n, Given)
  BY <1>5, <1>6, FS_SurjSameCardinalityImpliesInj DEF n
<1>8. s \in Seq(Keys) /\ Len(s) = n
  BY <1>2, <1>3, <1>4
<1>9. Once(s)
  BY <1>7, <1>8 DEF Once, Injection, IsInjective
<1> QED
  BY <1>3, <1>8, <1>9

\* The transactions are sent, or there is nothing to write.
LEMMA BatchStarts ==
  ASSUME BatchIInv, DoBatchOp PROVE BatchIInv'
<1>1. /\ pc = "encode" /\ next = Len(codecs) + 1
      /\ UNCHANGED <<codecs, next, data, kv, commits>>
  BY DEF DoBatchOp, BatchIInv, BatchTypeOK
<1>2. DOMAIN txn = {} /\ ret = "none" /\ \A k \in Keys : commits[k] = 0
  BY <1>1 DEF BatchIInv
<1>3. CASE BatchReturn("error") /\ UNCHANGED <<ops, txn>>
  BY <1>1, <1>2, <1>3 DEF BatchReturn, BatchIInv, BatchTypeOK, WrittenOnce
<1>4. CASE /\ pc' = "wait" /\ UNCHANGED ret
           /\ ops' \in Orders
           /\ txn' = [i \in 0 .. (Length(Len(ops')) - 1) |-> "sent"]
  <2>1. /\ ops' \in Seq(Keys) /\ Once(ops')
        /\ \A k \in Given : \E j \in 1 .. Len(ops') : ops'[j] = k
    BY <1>4, OrdersAreOnce
  <2>2. /\ DOMAIN txn' = 0 .. (Length(Len(ops')) - 1)
        /\ \A i \in DOMAIN txn' : txn'[i] = "sent"
    BY <1>4
  <2>3. Given' = Given
    BY <1>1 DEF Given
  <2>4. Spread'
    BY <2>1, <2>2, <2>3 DEF Spread, Once
  <2>5. \A i \in DOMAIN txn' : /\ Cardinality(Chunk(i, ops')) \in 1 .. TxnLimit
                               /\ Chunk(i, ops') \subseteq Keys
    <3>1. ASSUME NEW i \in 0 .. (Length(Len(ops')) - 1)
          PROVE  Chunk(i, ops') \subseteq Keys
      <4>1. /\ Low(i) \in 1 .. Len(ops') /\ High(i, Len(ops')) \in 1 .. Len(ops')
            /\ Len(ops') \in Nat
        BY <2>1, <3>1, Bounds
      <4>2. \A j \in Low(i) .. High(i, Len(ops')) : j \in 1 .. Len(ops')
        BY <4>1
      <4> QED
        BY <2>1, <4>2, ChunkIs
    <3> QED
      BY <2>1, <2>2, <3>1, ChunkSize
  <2>6. LastGiven(next - 1)' /\ (\A j \in 1 .. (next - 1) : codecs[j].key # Blank)'
    BY <1>1, <1>2 DEF BatchIInv, LastGiven
  <2>7. BatchTypeOK'
    BY <1>1, <1>2, <1>4, <2>1, <2>2, <2>5 DEF BatchIInv, BatchTypeOK
  <2> QED
    BY <1>1, <1>2, <1>4, <2>2, <2>4, <2>5, <2>6, <2>7 DEF BatchIInv, WrittenOnce
<1> QED
  BY <1>3, <1>4 DEF DoBatchOp

\* A transaction writes keys that no other one writes.
LEMMA BatchCommits ==
  ASSUME BatchIInv, NEW i \in DOMAIN txn, Commit(i) PROVE BatchIInv'
<1>1. pc = "wait" /\ txn[i] = "sent" /\ UNCHANGED <<pc, codecs, next, data, ops, ret>>
  BY DEF Commit
<1>2. Spread /\ ret = "none"
  BY <1>1 DEF BatchIInv
<1>3. PICK ok \in BOOLEAN, effect \in BOOLEAN :
         /\ ok => effect
         /\ txn' = [txn EXCEPT ![i] = IF ok THEN "ok" ELSE "error"]
         /\ kv' = [k \in Keys |-> IF effect /\ k \in Chunk(i, ops) THEN data[k] ELSE kv[k]]
         /\ commits' = [k \in Keys |-> IF effect /\ k \in Chunk(i, ops) THEN commits[k] + 1 ELSE commits[k]]
  BY DEF Commit
<1>4. /\ DOMAIN txn' = DOMAIN txn /\ txn'[i] \in {"ok", "error"} /\ (txn'[i] = "ok" => effect)
      /\ \A j \in DOMAIN txn : j # i => txn'[j] = txn[j]
  BY <1>3
<1>5. \A j \in DOMAIN txn : j # i => Chunk(i, ops) \cap Chunk(j, ops) = {}
  BY <1>2, ChunksDisjoint DEF Spread, BatchIInv, BatchTypeOK
<1>6. \A j \in DOMAIN txn : Chunk(j, ops) \subseteq Keys
  <2>1. ASSUME NEW j \in DOMAIN txn PROVE Chunk(j, ops) \subseteq Keys
    <3>1. ops \in Seq(Keys) /\ Len(ops) \in Nat /\ j \in 0 .. (Length(Len(ops)) - 1)
      BY <1>2, <2>1 DEF Spread, BatchIInv, BatchTypeOK
    <3>2. Low(j) \in 1 .. Len(ops) /\ High(j, Len(ops)) \in 1 .. Len(ops)
      BY <3>1, Bounds
    <3>3. \A x \in Low(j) .. High(j, Len(ops)) : x \in 1 .. Len(ops)
      BY <3>1, <3>2
    <3> QED
      BY <3>1, <3>3, ChunkIs
  <2> QED
    BY <2>1
<1>7. /\ kv' \in [Keys -> Values \cup {Absent}] /\ commits' \in [Keys -> Nat]
      /\ \A k \in Keys : k \notin Chunk(i, ops) => kv'[k] = kv[k] /\ commits'[k] = commits[k]
      /\ \A k \in Chunk(i, ops) : commits'[k] <= 1 /\ (effect => kv'[k] = data[k])
  BY <1>1, <1>3, <1>6 DEF BatchIInv, BatchTypeOK
<1>8. BatchTypeOK'
  <2>1. \A j \in DOMAIN txn' : /\ txn'[j] \in {"sent", "ok", "error"}
                               /\ Cardinality(Chunk(j, ops')) \in 1 .. TxnLimit
    BY <1>1, <1>4 DEF BatchIInv, BatchTypeOK
  <2> QED
    BY <1>1, <1>7, <2>1 DEF BatchIInv, BatchTypeOK
<1>9. WrittenOnce' /\ Spread' /\ LastGiven(next - 1)'
      /\ (\A j \in 1 .. (next - 1) : codecs[j].key # Blank)'
  <2>1. WrittenOnce'
    BY <1>7 DEF WrittenOnce, BatchIInv
  <2>2. Spread'
    BY <1>1, <1>2, <1>4 DEF Spread, Once, Given
  <2> QED
    BY <1>1, <1>2, <2>1, <2>2 DEF LastGiven, BatchIInv
<1>10. \A j \in DOMAIN txn' : txn'[j] = "sent" => \A k \in Chunk(j, ops') : commits'[k] = 0
  BY <1>1, <1>4, <1>5, <1>6, <1>7 DEF BatchIInv
<1>11. \A j \in DOMAIN txn' : txn'[j] = "ok" => \A k \in Chunk(j, ops') : kv'[k] = data'[k]
  BY <1>1, <1>4, <1>5, <1>6, <1>7 DEF BatchIInv
<1> QED
  BY <1>1, <1>2, <1>7, <1>8, <1>9, <1>10, <1>11 DEF BatchIInv

\* When no transaction has failed, all keys have been written.
LEMMA BatchCollects ==
  ASSUME BatchIInv, Collect PROVE BatchIInv'
<1>1. /\ pc = "wait" /\ \A i \in DOMAIN txn : txn[i] # "sent"
      /\ pc' = "done" /\ ret' = AnyError
      /\ UNCHANGED <<codecs, next, data, ops, txn, kv, commits>>
  BY DEF Collect, BatchReturn
<1>2. Spread /\ ret = "none" /\ next = Len(codecs) + 1
  BY <1>1 DEF BatchIInv
<1>3. ASSUME ret' = "ok", NEW k \in Given PROVE kv[k] = data[k]
  <2>1. \A i \in DOMAIN txn : txn[i] = "ok"
    BY <1>1, <1>3 DEF AnyError, BatchIInv, BatchTypeOK
  <2>2. PICK j \in 1 .. Len(ops) : ops[j] = k
    BY <1>2, <1>3 DEF Spread
  <2>3. PICK i \in 0 .. (Length(Len(ops)) - 1) : ops[j] \in Chunk(i, ops)
    BY <2>2, ChunksCover DEF BatchIInv, BatchTypeOK
  <2> QED
    BY <1>2, <2>1, <2>2, <2>3 DEF Spread, BatchIInv
<1>4. ret' \in {"ok", "error"}
  BY <1>1 DEF AnyError
<1>5. BatchTypeOK' /\ WrittenOnce' /\ LastGiven(next - 1)' /\ Given' = Given
      /\ (\A j \in 1 .. (next - 1) : codecs[j].key # Blank)'
  BY <1>1, <1>2, <1>4 DEF BatchIInv, BatchTypeOK, WrittenOnce, LastGiven, Given
<1> QED
  BY <1>1, <1>2, <1>3, <1>4, <1>5 DEF BatchIInv

\* BatchWritten, of PutMulti, batchPut and doBatchOp: no transaction is larger than
\* etcd accepts, no key is written by two of them, and without an error the last
\* value given for each key is in etcd, for every number of records and every limit.
THEOREM BatchIsWritten == BatchSpec => []BatchWritten
<1>1. BatchIInv /\ [BatchNext]_batchVars => BatchIInv'
  <2> SUFFICES ASSUME BatchIInv, [BatchNext]_batchVars PROVE BatchIInv'
    OBVIOUS
  <2>1. CASE UNCHANGED batchVars
    BY <2>1 DEF batchVars, BatchIInv, BatchTypeOK, WrittenOnce, Spread, Once, Given, LastGiven
  <2>2. CASE BatchNext
    BY <2>2, BatchEncodes, BatchStarts, BatchCommits, BatchCollects DEF BatchNext
  <2> QED
    BY <2>1, <2>2
<1>2. BatchIInv => BatchWritten
  <2> SUFFICES ASSUME BatchIInv PROVE NoErrorMeansAllWritten
    BY DEF BatchIInv, BatchWritten
  <2> SUFFICES ASSUME ret = "ok", NEW i \in DOMAIN codecs,
                      \A j \in DOMAIN codecs : j > i => codecs[j].key # codecs[i].key
               PROVE  kv[codecs[i].key] = codecs[i].val
    BY DEF NoErrorMeansAllWritten
  <2> DEFINE k == codecs[i].key
  <2>1. /\ codecs \in Seq(Codec) /\ DOMAIN codecs = 1 .. Len(codecs) /\ next - 1 = Len(codecs)
        /\ Len(codecs) \in Nat
    BY DEF BatchIInv, BatchTypeOK
  <2>2. LastGiven(next - 1) /\ k # Blank
    BY <2>1 DEF BatchIInv
  <2>3. k \in Keys /\ codecs[i].val \in Values /\ i \in Nat
    <3>1. codecs[i] \in Codec /\ i \in Nat
      BY <2>1
    <3> QED
      BY <2>2, <3>1 DEF Codec
  <2>4. PICK m \in 1 .. Len(codecs) : /\ codecs[m].key = k /\ data[k] = codecs[m].val
                                      /\ \A j \in 1 .. Len(codecs) : j > m => codecs[j].key # k
    BY <2>1, <2>2, <2>3 DEF LastGiven
  <2>5. m = i
    BY <2>1, <2>3, <2>4
  <2>6. k \in Given
    BY <2>3, <2>4, <2>5, BatchNullAssumption DEF Given
  <2> QED
    BY <2>4, <2>5, <2>6 DEF BatchIInv
<1> QED
  BY BatchInitHolds, <1>1, <1>2, PTL DEF BatchSpec

(***************************************************************************)
(* The services.  While the channel of their errors is open, it has counted*)
(* the services that are done, and none of these had an error; it is closed*)
(* when all of them are done without one, or by an error that start has    *)
(* received and will return.                                               *)
(***************************************************************************)
StarterTyped ==
    /\ setting \in Settings
    /\ main \in [pc : {"boot", "select", "receive", "wait", "returned"}, result : Errors]
    /\ svc \in [Services -> [pc : {"idle", "serving", "disposing", "ended", "sending", "done"},
                             failed : BOOLEAN, err : Errors]]
    /\ ch \in [cnt : 0..Cardinality(Services), closed : BOOLEAN]
    /\ part \in [Parts -> {"up", "over", "sending", "sent", "gone"}]
    /\ signal \in BOOLEAN /\ cancelled \in BOOLEAN /\ busy \in BOOLEAN
    /\ age \in 0..DisposeTimeout

\* What a service has to say of its error.
ErrorsInOrder ==
    \A s \in Services :
        /\ svc[s].pc \in {"idle", "serving", "disposing"} => svc[s].err = "none"
        /\ svc[s].err = "nil" => ~svc[s].failed
        /\ svc[s].pc = "sending" => svc[s].err # "nil" /\ ~ch.closed

OneSends == \A s, t \in Services : svc[s].pc = "sending" /\ svc[t].pc = "sending" => s = t

OneWins == \A s \in Services : \A p, q \in Winners(s) : p = q

Finished == {s \in Services : svc[s].pc = "done"}

AllClean == \A s \in Services : svc[s].pc = "done" /\ svc[s].err = "nil"

ChannelCounts ==
    /\ ~ch.closed => ch.cnt = Cardinality(Finished) /\ \A s \in Finished : svc[s].err = "nil"
    /\ ch.closed => AllClean \/ (main.pc \in {"wait", "returned"} /\ main.result # "nil")

MainInOrder ==
    /\ main.pc = "boot" => \A s \in Services : svc[s].pc = "idle"
    /\ main.pc \in {"boot", "select", "receive"} => main.result = "none"
    /\ main.pc = "returned" => \/ \A s \in Services : svc[s].pc = "idle"
                               \/ \A s \in Services : svc[s].pc = "done"
    /\ main.result = "nil" => AllClean

StarterIInv ==
    StarterTyped /\ ErrorsInOrder /\ OneSends /\ OneWins /\ ChannelCounts /\ MainInOrder

\* The services of a mode and their goroutines: finitely many services, which share
\* no goroutine.
LEMMA ServicesApart ==
  ASSUME setting \in Settings
  PROVE  /\ IsFiniteSet(Services) /\ Services \subseteq AllServices
         /\ \A s \in Services : PartsOf(s) \subseteq Parts
         /\ \A s, t \in Services : s # t => PartsOf(s) \cap PartsOf(t) = {}
<1>1. setting \in Setting
  BY SettingAssumption
<1>2. Services \subseteq AllServices
  BY DEF Services, AllServices
<1>3. IsFiniteSet(AllServices)
  <2>1. AllServices = (({} \cup {"proxy"}) \cup {"plugin"}) \cup {"agent"}
    BY DEF AllServices
  <2> QED
    BY <2>1, FS_EmptySet, FS_AddElement
<1>4. IsFiniteSet(Services)
  BY <1>2, <1>3, FS_Subset
<1>5. \A s \in Services : PartsOf(s) \subseteq Parts
  BY DEF Parts
<1>6. setting.hosts \subseteq Hosts
  BY <1>1 DEF Setting
<1>7. \A s, t \in Services : s # t => PartsOf(s) \cap PartsOf(t) = {}
  BY <1>2, <1>6, HostsAssumption DEF AllServices, PartsOf
<1> QED
  BY <1>2, <1>4, <1>5, <1>7

\* They depend on the configuration alone.
LEMMA ServicesKept ==
  ASSUME UNCHANGED setting
  PROVE  /\ Services' = Services /\ Parts' = Parts
         /\ \A s : PartsOf(s)' = PartsOf(s)
         /\ DisposeTimeout' = DisposeTimeout
  BY DEF Services, Mode, Parts, PartsOf, DisposeTimeout

\* The invariant holds when barrel is started.
LEMMA StarterInitHolds == Init => StarterIInv
<1> SUFFICES ASSUME Init PROVE StarterIInv
  OBVIOUS
<1>1. setting \in Settings /\ setting \in Setting
  BY SettingAssumption DEF Init
<1>2. IsFiniteSet(Services) /\ Cardinality(Services) \in Nat
  BY <1>1, ServicesApart, FS_CardinalityType
<1>3. /\ \A s \in Services : svc[s] = [pc |-> "idle", failed |-> FALSE, err |-> "none"]
      /\ svc = [s \in Services |-> [pc |-> "idle", failed |-> FALSE, err |-> "none"]]
  BY DEF Init
<1>4. Finished = {}
  BY <1>3 DEF Finished
<1>5. ch = [cnt |-> 0, closed |-> FALSE] /\ 0 \in 0 .. Cardinality(Services)
  BY <1>2 DEF Init
<1>6. age = 0 /\ 0 \in 0 .. DisposeTimeout
  BY <1>1 DEF Init, Setting, DisposeTimeout
<1>7. StarterTyped
  <2>1. main \in [pc : {"boot", "select", "receive", "wait", "returned"}, result : Errors]
    BY DEF Init, Errors
  <2>2. svc \in [Services -> [pc : {"idle", "serving", "disposing", "ended", "sending", "done"},
                              failed : BOOLEAN, err : Errors]]
    BY <1>3 DEF Errors
  <2>3. ch \in [cnt : 0..Cardinality(Services), closed : BOOLEAN]
    BY <1>5
  <2>4. part \in [Parts -> {"up", "over", "sending", "sent", "gone"}]
    BY DEF Init
  <2> QED
    BY <1>1, <1>6, <2>1, <2>2, <2>3, <2>4 DEF Init, StarterTyped
<1>8. OneWins
  BY <1>1, ServicesApart DEF Init, OneWins, Winners
<1>9. ChannelCounts
  BY <1>4, <1>5, FS_EmptySet DEF ChannelCounts
<1> QED
  BY <1>3, <1>7, <1>8, <1>9 DEF Init, StarterIInv, ErrorsInOrder, OneSends, MainInOrder

\* Steps that leave the services and their goroutines alone: a signal, a request, a
\* tick.
LEMMA StarterOutside ==
  ASSUME StarterIInv, UNCHANGED setting, Signal \/ Request \/ Tick PROVE StarterIInv'
<1>1. UNCHANGED <<main, svc, ch, part>>
  BY DEF Signal, Request, Tick
<1>2. /\ Services' = Services /\ Parts' = Parts /\ \A s : PartsOf(s)' = PartsOf(s)
      /\ DisposeTimeout' = DisposeTimeout
  BY ServicesKept
<1>3. age' \in 0 .. DisposeTimeout
  <2>1. DisposeTimeout \in Nat
    BY SettingAssumption DEF StarterIInv, StarterTyped, DisposeTimeout, Setting
  <2> QED
    BY <2>1 DEF Signal, Request, Tick, StarterIInv, StarterTyped
<1>4. signal' \in BOOLEAN /\ cancelled' \in BOOLEAN /\ busy' \in BOOLEAN
  BY DEF Signal, Request, Tick, StarterIInv, StarterTyped
<1>5. StarterTyped'
  BY <1>1, <1>2, <1>3, <1>4 DEF StarterIInv, StarterTyped
<1>6. OneWins'
  BY <1>1, <1>2 DEF StarterIInv, OneWins, Winners
<1>7. Finished' = Finished
  BY <1>1, <1>2 DEF Finished
<1> QED
  BY <1>1, <1>2, <1>5, <1>6, <1>7
  DEF StarterIInv, ErrorsInOrder, OneSends, ChannelCounts, MainInOrder, AllClean

\* A goroutine of a service sends only if no other one of that service has.
LEMMA StarterParts ==
  ASSUME StarterIInv, UNCHANGED setting, NEW s \in Services, NEW p \in PartsOf(s),
         PartEnds(s, p) \/ PartStep(s, p)
  PROVE  StarterIInv'
<1>1. UNCHANGED <<main, signal, cancelled, svc, ch, busy, age>>
  BY DEF PartEnds, PartStep
<1>2. /\ Services' = Services /\ Parts' = Parts /\ \A t : PartsOf(t)' = PartsOf(t)
      /\ DisposeTimeout' = DisposeTimeout
  BY ServicesKept
<1>3. /\ p \in Parts /\ \A t \in Services : PartsOf(t) \subseteq Parts
      /\ \A t \in Services : t # s => p \notin PartsOf(t)
  BY ServicesApart DEF StarterIInv, StarterTyped
<1>4. /\ part' \in [Parts -> {"up", "over", "sending", "sent", "gone"}]
      /\ \A q \in Parts : q # p => part'[q] = part[q]
      /\ part'[p] = "sending" => Winners(s) = {}
      /\ part'[p] # "sent"
  BY <1>3 DEF PartEnds, PartStep, PartSends, PartEndsSilently, StarterIInv, StarterTyped
<1>5. StarterTyped'
  BY <1>1, <1>2, <1>4 DEF StarterIInv, StarterTyped
<1>6. OneWins'
  BY <1>2, <1>3, <1>4 DEF StarterIInv, OneWins, Winners
<1>7. Finished' = Finished
  BY <1>1, <1>2 DEF Finished
<1> QED
  BY <1>1, <1>2, <1>5, <1>6, <1>7
  DEF StarterIInv, ErrorsInOrder, OneSends, ChannelCounts, MainInOrder, AllClean

\* What a service goes through before its error is sent: Serve returns, Dispose
\* returns.
LEMMA StarterServes ==
  ASSUME StarterIInv, UNCHANGED setting, NEW s \in Services,
         ServeFails(s) \/ ServeCancelled(s) \/ Dispose(s)
  PROVE  StarterIInv'
<1>1. UNCHANGED <<main, signal, cancelled, ch, busy, age>>
  BY DEF ServeFails, ServeCancelled, Goto, Dispose
<1>2. /\ Services' = Services /\ Parts' = Parts /\ \A t : PartsOf(t)' = PartsOf(t)
      /\ DisposeTimeout' = DisposeTimeout
  BY ServicesKept
<1>3. /\ svc' \in [Services -> [pc : {"idle", "serving", "disposing", "ended", "sending", "done"},
                                failed : BOOLEAN, err : Errors]]
      /\ \A t \in Services : t # s => svc'[t] = svc[t]
      /\ svc[s].pc \in {"serving", "disposing"}
      /\ svc'[s].pc = "disposing" => svc'[s].err = svc[s].err
      /\ svc'[s].pc \in {"disposing", "ended"}
      /\ svc'[s].err = "nil" => ~svc'[s].failed
  <2>1. svc[s] \in [pc : {"idle", "serving", "disposing", "ended", "sending", "done"},
                    failed : BOOLEAN, err : Errors]
    BY DEF StarterIInv, StarterTyped
  <2>2. svc[s].pc \in {"serving", "disposing"} /\ svc[s].err = "none"
    BY DEF ServeFails, ServeCancelled, Dispose, StarterIInv, ErrorsInOrder
  <2>3. CASE ServeFails(s)
    BY <2>1, <2>2, <2>3 DEF ServeFails, StarterIInv, StarterTyped
  <2>4. CASE ServeCancelled(s)
    BY <2>1, <2>2, <2>4 DEF ServeCancelled, Goto, StarterIInv, StarterTyped
  <2>5. CASE Dispose(s)
    <3>1. PICK err \in DisposeResults(s) :
             svc' = [svc EXCEPT ![s].pc = "ended", ![s].err = ServiceError(s, err)]
      BY <2>5 DEF Dispose
    <3>2. err \in {"nil", "dispose", "deadline"}
      <4>1. s \in {"proxy", "plugin", "agent"}
        BY ServicesApart DEF StarterIInv, StarterTyped, AllServices
      <4> QED
        BY <3>1, <4>1 DEF DisposeResults
    <3>3. ServiceError(s, err) \in Errors /\ (ServiceError(s, err) = "nil" => ~svc[s].failed)
      BY <2>1, <3>2 DEF ServiceError, Errors
    <3> QED
      BY <2>1, <2>2, <3>1, <3>3 DEF StarterIInv, StarterTyped
  <2> QED
    BY <2>3, <2>4, <2>5
<1>4. /\ part' \in [Parts -> {"up", "over", "sending", "sent", "gone"}]
      /\ \A t \in Services : Winners(t)' = Winners(t)
  <2>1. CASE UNCHANGED part
    BY <1>2, <2>1 DEF StarterIInv, StarterTyped, Winners
  <2>2. CASE ServeFails(s)
    <3>1. PICK p \in PartsOf(s) : part[p] = "sending" /\ part' = [part EXCEPT ![p] = "sent"]
      BY <2>2 DEF ServeFails
    <3>2. p \in Parts /\ \A t \in Services : PartsOf(t) \subseteq Parts
      BY <3>1, ServicesApart DEF StarterIInv, StarterTyped
    <3>3. /\ part' \in [Parts -> {"up", "over", "sending", "sent", "gone"}]
          /\ part'[p] = "sent" /\ \A q \in Parts : q # p => part'[q] = part[q]
      BY <3>1, <3>2 DEF StarterIInv, StarterTyped
    <3> QED
      BY <1>2, <3>1, <3>2, <3>3 DEF Winners
  <2> QED
    BY <2>1, <2>2 DEF ServeCancelled, Dispose
<1>5. StarterTyped'
  BY <1>1, <1>2, <1>3, <1>4 DEF StarterIInv, StarterTyped
<1>6. OneWins' /\ Finished' = Finished
  BY <1>2, <1>3, <1>4 DEF StarterIInv, OneWins, Finished
<1>7. ~AllClean /\ s \notin Finished
  BY <1>3 DEF AllClean, Finished
<1>8. ErrorsInOrder'
  BY <1>1, <1>2, <1>3 DEF StarterIInv, ErrorsInOrder
<1>9. OneSends'
  BY <1>1, <1>2, <1>3 DEF StarterIInv, OneSends
<1>10. ChannelCounts'
  <2>1. \A t \in Finished : svc'[t].err = svc[t].err
    BY <1>3, <1>7 DEF Finished
  <2> QED
    BY <1>1, <1>6, <1>7, <2>1 DEF StarterIInv, ChannelCounts
<1>11. MainInOrder'
  BY <1>1, <1>2, <1>3, <1>7 DEF StarterIInv, MainInOrder
<1> QED
  BY <1>5, <1>6, <1>8, <1>9, <1>10, <1>11 DEF StarterIInv

\* A service is done, with its error counted or waiting to be received: the step of
\* AutoCloseChanErr.Send.
LEMMA StarterSends ==
  ASSUME StarterIInv, UNCHANGED setting, NEW s \in Services, SendError(s)
  PROVE  StarterIInv'
<1>1. UNCHANGED <<main, signal, cancelled, part, busy, age>>
  BY DEF SendError
<1>2. /\ Services' = Services /\ Parts' = Parts /\ \A t : PartsOf(t)' = PartsOf(t)
      /\ DisposeTimeout' = DisposeTimeout
  BY ServicesKept
<1>3. /\ svc[s] \in [pc : {"idle", "serving", "disposing", "ended", "sending", "done"},
                     failed : BOOLEAN, err : Errors]
      /\ svc[s].pc = "ended" /\ \A t \in Services : svc[t].pc # "sending"
      /\ ch \in [cnt : 0..Cardinality(Services), closed : BOOLEAN]
  BY DEF SendError, Held, StarterIInv, StarterTyped
<1>4. /\ ~AllClean /\ s \notin Finished
      /\ ~\A t \in Services : svc[t].pc = "idle"
      /\ ~\A t \in Services : svc[t].pc = "done"
  BY <1>3 DEF AllClean, Finished
<1>5. OneWins'
  BY <1>1, <1>2 DEF StarterIInv, OneWins, Winners
<1>6. IsFiniteSet(Services) /\ IsFiniteSet(Finished) /\ Finished \subseteq Services
      /\ Cardinality(Services) \in Nat /\ Cardinality(Finished) \in Nat
  <2>1. IsFiniteSet(Services)
    BY ServicesApart DEF StarterIInv, StarterTyped
  <2>2. Finished \subseteq Services
    BY DEF Finished
  <2> QED
    BY <2>1, <2>2, FS_Subset, FS_CardinalityType
<1>7. main.pc # "boot" /\ main.pc # "returned" /\ main.result # "nil"
  BY <1>3, <1>4 DEF StarterIInv, MainInOrder
<1> DEFINE Goes(to) == /\ svc' \in [Services -> [pc : {"idle", "serving", "disposing", "ended", "sending", "done"},
                                                failed : BOOLEAN, err : Errors]]
                       /\ \A t \in Services : t # s => svc'[t] = svc[t]
                       /\ svc'[s].pc = to /\ svc'[s].err = svc[s].err /\ svc'[s].failed = svc[s].failed
<1>8. ASSUME NEW to \in {"sending", "done"}, Goto(s, to) PROVE Goes(to)
  BY <1>3, <1>8 DEF Goto, StarterIInv, StarterTyped
<1>9. CASE ch.closed
  <2>1. Goes("done") /\ UNCHANGED ch
    BY <1>8, <1>9 DEF SendError, Send
  <2>2. StarterTyped'
    BY <1>1, <1>2, <2>1 DEF StarterIInv, StarterTyped
  <2>3. ErrorsInOrder' /\ OneSends'
    BY <1>2, <1>3, <2>1 DEF StarterIInv, ErrorsInOrder, OneSends
  <2>4. ChannelCounts'
    BY <1>1, <1>4, <1>9, <2>1 DEF StarterIInv, ChannelCounts
  <2>5. MainInOrder'
    BY <1>1, <1>7 DEF StarterIInv, MainInOrder
  <2> QED
    BY <1>5, <2>2, <2>3, <2>4, <2>5 DEF StarterIInv
<1>10. CASE ~ch.closed /\ svc[s].err # "nil"
  <2>1. Goes("sending") /\ UNCHANGED ch
    BY <1>8, <1>10 DEF SendError, Send
  <2>2. StarterTyped'
    BY <1>1, <1>2, <2>1 DEF StarterIInv, StarterTyped
  <2>3. ErrorsInOrder' /\ OneSends'
    BY <1>2, <1>3, <1>10, <2>1 DEF StarterIInv, ErrorsInOrder, OneSends
  <2>4. ChannelCounts'
    <3>1. Finished' = Finished
      BY <1>2, <1>4, <2>1 DEF Finished
    <3>2. \A t \in Finished : svc'[t].err = svc[t].err
      BY <1>4, <2>1 DEF Finished
    <3> QED
      BY <1>10, <2>1, <3>1, <3>2 DEF StarterIInv, ChannelCounts
  <2>5. MainInOrder'
    BY <1>1, <1>7 DEF StarterIInv, MainInOrder
  <2> QED
    BY <1>5, <2>2, <2>3, <2>4, <2>5 DEF StarterIInv
<1>11. CASE ~ch.closed /\ svc[s].err = "nil"
  <2>1. /\ Goes("done")
        /\ ch' = [cnt |-> ch.cnt + 1, closed |-> ch.cnt + 1 >= Cardinality(Services)]
    <3>1. /\ ch' = [cnt |-> ch.cnt + 1, closed |-> ch.cnt + 1 >= Cardinality(Services)]
          /\ Goto(s, "done")
      BY <1>11 DEF SendError, Send
    <3> QED
      BY <1>8, <3>1
  <2>2. Finished' = Finished \cup {s}
    BY <1>2, <2>1 DEF Finished
  <2>3. /\ Cardinality(Finished') = Cardinality(Finished) + 1
        /\ Cardinality(Finished') <= Cardinality(Services)
        /\ Cardinality(Services) = Cardinality(Finished') => Services = Finished'
    BY <1>2, <1>4, <1>6, <2>2, FS_AddElement, FS_Subset
  <2>4. ch.cnt = Cardinality(Finished) /\ \A t \in Finished : svc[t].err = "nil"
    BY <1>11 DEF StarterIInv, ChannelCounts
  <2>5. /\ ch'.cnt = Cardinality(Finished') /\ ch'.cnt \in 0 .. Cardinality(Services)
        /\ ch'.closed => ch'.cnt >= Cardinality(Services)
    <3>1. ch'.cnt = ch.cnt + 1 /\ (ch'.closed <=> ch.cnt + 1 >= Cardinality(Services))
      BY <2>1
    <3>2. ch'.cnt = Cardinality(Finished')
      BY <2>3, <2>4, <3>1
    <3>3. Cardinality(Finished') \in Nat
      BY <1>6, <2>3
    <3> QED
      BY <1>6, <2>3, <3>1, <3>2, <3>3
  <2>6. ch' \in [cnt : 0..Cardinality(Services), closed : BOOLEAN]
    BY <2>1, <2>5
  <2>7. StarterTyped'
    BY <1>1, <1>2, <2>1, <2>6 DEF StarterIInv, StarterTyped
  <2>8. ErrorsInOrder' /\ OneSends'
    BY <1>2, <1>3, <1>11, <2>1 DEF StarterIInv, ErrorsInOrder, OneSends
  <2>9. \A t \in Finished' : svc'[t].err = "nil"
    BY <1>11, <2>1, <2>2, <2>4, <1>6
  <2>10. ch'.closed => AllClean'
    <3> SUFFICES ASSUME ch'.closed PROVE AllClean'
      OBVIOUS
    <3>1. Cardinality(Finished') = Cardinality(Services)
      BY <1>6, <2>3, <2>5
    <3>2. Services = Finished'
      BY <2>3, <3>1
    <3> QED
      BY <1>2, <2>9, <3>2 DEF AllClean, Finished
  <2>11. ChannelCounts'
    BY <2>5, <2>9, <2>10 DEF ChannelCounts
  <2>12. MainInOrder'
    BY <1>1, <1>7 DEF StarterIInv, MainInOrder
  <2> QED
    BY <1>5, <2>7, <2>8, <2>11, <2>12 DEF StarterIInv
<1> QED
  BY <1>9, <1>10, <1>11

\* start receives the error of a service and the channel is closed, or finds it
\* closed.
LEMMA StarterReceives ==
  ASSUME StarterIInv, UNCHANGED setting, main.pc \in {"select", "receive"}, Receive("wait"),
         UNCHANGED <<signal, part, busy, age>>, cancelled' \in BOOLEAN
  PROVE  StarterIInv'
<1>2. /\ Services' = Services /\ Parts' = Parts /\ \A t : PartsOf(t)' = PartsOf(t)
      /\ DisposeTimeout' = DisposeTimeout
  BY ServicesKept
<1>3. OneWins'
  BY <1>2 DEF StarterIInv, OneWins, Winners
<1>4. CASE \E s \in Services :
             /\ svc[s].pc = "sending"
             /\ Goto(s, "done")
             /\ ch' = [ch EXCEPT !.closed = TRUE]
             /\ SetMain("wait", svc[s].err)
  <2>1. PICK s \in Services :
             /\ svc[s].pc = "sending"
             /\ Goto(s, "done")
             /\ ch' = [ch EXCEPT !.closed = TRUE]
             /\ SetMain("wait", svc[s].err)
    BY <1>4
  <2>2. svc[s] \in [pc : {"idle", "serving", "disposing", "ended", "sending", "done"},
                    failed : BOOLEAN, err : Errors]
    BY DEF StarterIInv, StarterTyped
  <2>3. /\ svc' \in [Services -> [pc : {"idle", "serving", "disposing", "ended", "sending", "done"},
                                  failed : BOOLEAN, err : Errors]]
        /\ \A t \in Services : t # s => svc'[t] = svc[t]
        /\ svc'[s].pc = "done" /\ svc'[s].err = svc[s].err /\ svc'[s].failed = svc[s].failed
    BY <2>1, <2>2 DEF Goto, StarterIInv, StarterTyped
  <2>4. ch' \in [cnt : 0..Cardinality(Services), closed : BOOLEAN] /\ ch'.closed
    BY <2>1 DEF StarterIInv, StarterTyped
  <2>5. /\ main' = [pc |-> "wait", result |-> svc[s].err]
        /\ main' \in [pc : {"boot", "select", "receive", "wait", "returned"}, result : Errors]
    BY <2>1, <2>2 DEF SetMain
  <2>6. svc[s].err # "nil"
    BY <2>1 DEF StarterIInv, ErrorsInOrder
  <2>7. StarterTyped'
    BY <1>2, <2>3, <2>4, <2>5 DEF StarterIInv, StarterTyped
  <2>8. ErrorsInOrder' /\ OneSends'
    BY <1>2, <2>1, <2>3 DEF StarterIInv, ErrorsInOrder, OneSends
  <2>9. ChannelCounts' /\ MainInOrder'
    BY <2>4, <2>5, <2>6 DEF ChannelCounts, MainInOrder
  <2> QED
    BY <1>3, <2>7, <2>8, <2>9 DEF StarterIInv
<1>5. CASE ch.closed /\ SetMain("wait", "nil") /\ UNCHANGED <<svc, ch>>
  <2>1. /\ main' = [pc |-> "wait", result |-> "nil"]
        /\ main' \in [pc : {"boot", "select", "receive", "wait", "returned"}, result : Errors]
    BY <1>5 DEF SetMain, Errors
  <2>2. AllClean
    BY <1>5 DEF StarterIInv, ChannelCounts
  <2>3. AllClean' /\ Finished' = Finished
    BY <1>2, <1>5, <2>2 DEF AllClean, Finished
  <2>4. StarterTyped'
    BY <1>2, <1>5, <2>1 DEF StarterIInv, StarterTyped
  <2>5. ErrorsInOrder' /\ OneSends'
    BY <1>2, <1>5 DEF StarterIInv, ErrorsInOrder, OneSends
  <2>6. ChannelCounts' /\ MainInOrder'
    BY <1>5, <2>1, <2>3 DEF ChannelCounts, MainInOrder
  <2> QED
    BY <1>3, <2>4, <2>5, <2>6 DEF StarterIInv
<1> QED
  BY <1>4, <1>5 DEF Receive

\* The steps of start.
LEMMA StarterMain ==
  ASSUME StarterIInv, UNCHANGED setting, MainStep PROVE StarterIInv'
<1>2. /\ Services' = Services /\ Parts' = Parts /\ \A t : PartsOf(t)' = PartsOf(t)
      /\ DisposeTimeout' = DisposeTimeout
  BY ServicesKept
<1>3. ASSUME UNCHANGED <<svc, ch, part, busy, age>>, signal' \in BOOLEAN, cancelled' \in BOOLEAN,
             main' \in [pc : {"boot", "select", "receive", "wait", "returned"}, result : Errors],
             MainInOrder',
             main.pc \in {"wait", "returned"} => main'.pc \in {"wait", "returned"} /\ main'.result = main.result
      PROVE  StarterIInv'
  <2>1. OneWins' /\ Finished' = Finished
    BY <1>2, <1>3 DEF StarterIInv, OneWins, Winners, Finished
  <2>2. StarterTyped'
    BY <1>2, <1>3 DEF StarterIInv, StarterTyped
  <2>3. ErrorsInOrder' /\ OneSends'
    BY <1>2, <1>3 DEF StarterIInv, ErrorsInOrder, OneSends
  <2>4. ChannelCounts'
    BY <1>2, <1>3, <2>1 DEF StarterIInv, ChannelCounts, AllClean
  <2> QED
    BY <1>3, <2>1, <2>2, <2>3, <2>4 DEF StarterIInv
<1>4. CASE RunMode
  <2>1. CASE SetMain("returned", "serve") /\ UNCHANGED svc
    <3>1. /\ main' = [pc |-> "returned", result |-> "serve"]
          /\ main' \in [pc : {"boot", "select", "receive", "wait", "returned"}, result : Errors]
          /\ main.pc = "boot" /\ UNCHANGED <<signal, cancelled, ch, part, busy, age>>
      BY <1>4, <2>1 DEF RunMode, SetMain, Errors
    <3>2. MainInOrder'
      BY <1>2, <2>1, <3>1 DEF StarterIInv, MainInOrder
    <3> QED
      BY <1>3, <2>1, <3>1, <3>2 DEF StarterIInv, StarterTyped
  <2>2. CASE /\ SetMain("select", "none")
             /\ svc' = [s \in Services |-> [svc[s] EXCEPT !.pc = "serving"]]
    <3>1. /\ main' = [pc |-> "select", result |-> "none"]
          /\ main' \in [pc : {"boot", "select", "receive", "wait", "returned"}, result : Errors]
          /\ main.pc = "boot" /\ UNCHANGED <<signal, cancelled, ch, part, busy, age>>
      BY <1>4, <2>2 DEF RunMode, SetMain, Errors
    <3>2. \A s \in Services : svc[s].pc = "idle" /\ svc[s].err = "none"
      BY <3>1 DEF StarterIInv, MainInOrder, ErrorsInOrder
    <3>3. /\ svc' \in [Services -> [pc : {"idle", "serving", "disposing", "ended", "sending", "done"},
                                    failed : BOOLEAN, err : Errors]]
          /\ \A s \in Services : svc'[s].pc = "serving" /\ svc'[s].err = "none"
      BY <2>2, <3>2 DEF StarterIInv, StarterTyped
    <3>4. Finished' = {} /\ Finished = {}
      BY <1>2, <3>2, <3>3 DEF Finished
    <3>5. ~ch.closed
      <4>1. CASE Services = {}
        BY <1>4, <2>2, <4>1, <3>1 DEF RunMode, SetMain
      <4>2. CASE Services # {}
        BY <3>1, <3>2, <4>2 DEF StarterIInv, ChannelCounts, AllClean
      <4> QED
        BY <4>1, <4>2
    <3>6. OneWins'
      BY <1>2, <3>1 DEF StarterIInv, OneWins, Winners
    <3>7. StarterTyped'
      BY <1>2, <3>1, <3>3 DEF StarterIInv, StarterTyped
    <3>8. ErrorsInOrder' /\ OneSends'
      BY <1>2, <3>3 DEF ErrorsInOrder, OneSends
    <3>9. ChannelCounts'
      BY <3>1, <3>4, <3>5 DEF StarterIInv, ChannelCounts
    <3>10. MainInOrder'
      BY <3>1 DEF MainInOrder
    <3> QED
      BY <3>6, <3>7, <3>8, <3>9, <3>10 DEF StarterIInv
  <2> QED
    BY <1>4, <2>1, <2>2 DEF RunMode
<1>5. CASE ReceiveSignal
  <2>1. /\ main' = [pc |-> "receive", result |-> "none"] /\ main.pc = "select"
        /\ main' \in [pc : {"boot", "select", "receive", "wait", "returned"}, result : Errors]
        /\ UNCHANGED <<svc, ch, part, busy, age>> /\ signal' \in BOOLEAN /\ cancelled' \in BOOLEAN
    BY <1>5 DEF ReceiveSignal, SetMain, Errors
  <2>2. MainInOrder'
    BY <2>1 DEF MainInOrder
  <2> QED
    BY <1>3, <2>1, <2>2
<1>6. CASE ReceiveError \/ ReceiveLast
  BY <1>6, StarterReceives DEF ReceiveError, ReceiveLast, StarterIInv, StarterTyped
<1>7. CASE Return
  <2>1. /\ main' = [pc |-> "returned", result |-> main.result] /\ main.pc = "wait"
        /\ \A s \in Services : svc[s].pc = "done"
        /\ UNCHANGED <<signal, cancelled, svc, ch, part, busy, age>>
    BY <1>7 DEF Return, AllDone, SetMain
  <2>2. main' \in [pc : {"boot", "select", "receive", "wait", "returned"}, result : Errors]
    BY <2>1 DEF StarterIInv, StarterTyped
  <2>3. MainInOrder'
    BY <1>2, <2>1 DEF StarterIInv, MainInOrder, AllClean
  <2> QED
    BY <1>3, <2>1, <2>2, <2>3 DEF StarterIInv, StarterTyped
<1> QED
  BY <1>4, <1>5, <1>6, <1>7 DEF MainStep

\* The whole invariant holds in every state.
LEMMA StarterAlways == Spec => []StarterIInv
<1>1. StarterIInv /\ [Next]_vars => StarterIInv'
  <2> SUFFICES ASSUME StarterIInv, [Next]_vars PROVE StarterIInv'
    OBVIOUS
  <2>1. CASE UNCHANGED vars
    <3>1. UNCHANGED <<setting, main, signal, cancelled, svc, ch, part, busy, age>>
      BY <2>1 DEF vars, state
    <3>2. /\ Services' = Services /\ Parts' = Parts /\ (\A s : PartsOf(s)' = PartsOf(s))
          /\ DisposeTimeout' = DisposeTimeout
      BY <3>1, ServicesKept
    <3>3. OneWins' /\ Finished' = Finished
      BY <3>1, <3>2 DEF StarterIInv, OneWins, Winners, Finished
    <3> QED
      BY <3>1, <3>2, <3>3 DEF StarterIInv, StarterTyped, ErrorsInOrder, OneSends, ChannelCounts,
         MainInOrder, AllClean
  <2>2. CASE Next
    BY <2>2, StarterMain, StarterOutside, StarterParts, StarterServes, StarterSends
    DEF Next, ServiceStep
  <2> QED
    BY <2>1, <2>2
<1> QED
  BY StarterInitHolds, <1>1, PTL DEF Spec

\* A set whose members are all the same has at most one.
LEMMA AtMostOne ==
  ASSUME NEW S, \A x, y \in S : x = y PROVE Cardinality(S) <= 1
<1>1. CASE S = {}
  BY <1>1, FS_EmptySet
<1>2. CASE S # {}
  <2>1. PICK x : S = {x}
    BY <1>2
  <2> QED
    BY <2>1, FS_Singleton
<1> QED
  BY <1>1, <1>2

\* StarterInv, of start, serveAndDispose and AutoCloseChanErr.Send: nothing is sent
\* on a closed channel, one goroutine of a service at most sends, and start returns
\* only when every service has been disposed of, in every mode, with every number
\* of hosts.
THEOREM StarterIsSound == Spec => []StarterInv
<1>1. StarterIInv => StarterInv
  <2> SUFFICES ASSUME StarterIInv PROVE StarterInv
    OBVIOUS
  <2>1. Cardinality({s \in Services : svc[s].pc = "sending"}) <= 1
    BY AtMostOne DEF StarterIInv, OneSends
  <2>2. StarterTypeOK
    BY <2>1 DEF StarterIInv, StarterTyped, ErrorsInOrder, StarterTypeOK
  <2>3. OnePartSends
    BY AtMostOne DEF StarterIInv, OneWins, OnePartSends
  <2>4. AllDisposed
    BY DEF StarterIInv, MainInOrder, AllDisposed, Ran
  <2> QED
    BY <2>2, <2>3, <2>4 DEF StarterInv
<1> QED
  BY StarterAlways, <1>1, PTL

\* NilMeansClean, of start: it returns nil only if every service was served and
\* disposed of without an error.
THEOREM NilIsClean == Spec => []NilMeansClean
<1>1. StarterIInv => NilMeansClean
  BY DEF StarterIInv, MainInOrder, AllClean, ErrorsInOrder, NilMeansClean
<1> QED
  BY StarterAlways, <1>1, PTL

=============================================================================
