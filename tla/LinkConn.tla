------------------------------- MODULE LinkConn -------------------------------
(***************************************************************************)
(* An upgraded connection (attach, exec): the proxy hijacks the client's   *)
(* connection and copies bytes both ways, in two goroutines, until both    *)
(* have ended (linkConn and doLinkConn of proxy/proxy.go, Link and         *)
(* forwardByteStream of utils/utils.go).                                   *)
(*                                                                         *)
(* A goroutine is named after the side it reads from, and ends by closing  *)
(* the other side.  A side is the proxy's connection to a peer: the peer   *)
(* sends bytes, and ends its stream by closing the connection, after which *)
(* writing to it fails while what it sent can still be read; closing a     *)
(* side here ends both reading and writing.                                *)
(***************************************************************************)
EXTENDS Naturals

CONSTANT MaxSent   \* bound: bytes a peer sends

ASSUME MaxSentAssumption == MaxSent \in Nat

Side == {"client", "server"}
Other(s) == CHOOSE t \in Side : t # s

VARIABLES
    phase,       \* "upgraded", "switched", "linked", "returned" or "failed"
    sent,        \* bytes each peer has sent
    read,        \* bytes of them read here
    delivered,   \* bytes delivered to each peer
    ended,       \* the peers that have closed their connection
    closed,      \* the sides closed here
    done         \* the goroutines that have ended

linkVars == <<phase, sent, read, delivered, ended, closed, done>>

LinkInit ==
    /\ phase = "upgraded"
    /\ sent = [s \in Side |-> 0]
    /\ read = sent
    /\ delivered = sent
    /\ ended = {}
    /\ closed = {}
    /\ done = {}

\* doLinkConn: the 101 answer, then Hijack.  linkConn answers with an error when
\* either end cannot be linked; dockerd's connection then stays open.
SwitchProtocols ==
    /\ phase = "upgraded"
    /\ phase' \in {"switched", "failed"}
    /\ UNCHANGED <<sent, read, delivered, ended, closed, done>>

Hijack ==
    /\ phase = "switched"
    /\ phase' \in {"linked", "failed"}
    /\ UNCHANGED <<sent, read, delivered, ended, closed, done>>

\* The read end of a goroutine: a byte, or the end of the stream, or an error of a
\* side that was closed here.
HasByte(s) == s \notin closed /\ read[s] < sent[s]

AtEndUnread(s) == s \in closed \/ s \in ended

AtEnd(s) == s \in closed \/ (s \in ended /\ read[s] = sent[s])

Running(s) == phase = "linked" /\ s \notin done

\* The deferred Close and wg.Done.
End(s) == done' = done \cup {s} /\ closed' = closed \cup {Other(s)}

\* io.Copy of one byte.
CopyByte(s) ==
    /\ Running(s)
    /\ HasByte(s)
    /\ read' = [read EXCEPT ![s] = @ + 1]
    /\ \/ /\ Other(s) \notin closed \cup ended
          /\ delivered' = [delivered EXCEPT ![Other(s)] = @ + 1]
          /\ UNCHANGED <<closed, done>>
       \/ /\ Other(s) \in closed \cup ended
          /\ End(s)
          /\ UNCHANGED delivered
    /\ UNCHANGED <<phase, sent, ended>>

EndOfStream(s) ==
    /\ Running(s)
    /\ AtEnd(s)
    /\ End(s)
    /\ UNCHANGED <<phase, sent, read, delivered, ended>>

\* A WaitGroup with one more to wait for.
WaitForThree ==
    /\ phase = "linked"
    /\ done = Side \cup {"link"}
    /\ phase' = "returned"
    /\ UNCHANGED <<sent, read, delivered, ended, closed, done>>

\* wg.Wait of Link.
Wait ==
    /\ phase = "linked"
    /\ done = Side
    /\ phase' = "returned"
    /\ UNCHANGED <<sent, read, delivered, ended, closed, done>>

\* The peers.
PeerSends(s) ==
    /\ s \notin ended
    /\ sent[s] < MaxSent
    /\ sent' = [sent EXCEPT ![s] = @ + 1]
    /\ UNCHANGED <<phase, read, delivered, ended, closed, done>>

PeerCloses(s) ==
    /\ s \notin ended
    /\ ended' = ended \cup {s}
    /\ UNCHANGED <<phase, sent, read, delivered, closed, done>>

Goroutine(s) == CopyByte(s) \/ EndOfStream(s)
Link == SwitchProtocols \/ Hijack \/ Wait

LinkNext == Link \/ \E s \in Side : Goroutine(s) \/ PeerSends(s) \/ PeerCloses(s)

\* Goroutines are scheduled, and peers read what is written to them, so that no
\* copy blocks for ever; peers need not send or close.
LinkSpec ==
    /\ LinkInit /\ [][LinkNext]_linkVars
    /\ WF_linkVars(Link) /\ \A s \in Side : WF_linkVars(Goroutine(s))

-----------------------------------------------------------------------------
\* One peer hanging up is enough: the goroutine that notices closes the side the
\* other one reads from, and Link returns.
HangUpEnds == []<>(ended # {} => phase \in {"returned", "failed"})

\* When Link has returned, both connections are closed: no goroutine is left
\* behind with an open one.
BothClosed == phase = "returned" => closed = Side

\* The output of a process that ends is complete: with a client that only listens,
\* all that dockerd sent before it closed has been delivered when Link returns.
OutputDelivered ==
    phase = "returned" /\ sent["client"] = 0 /\ "client" \notin ended =>
        delivered["client"] = sent["server"]

\* The two goroutines of Link, which close each other's source, neither leave a
\* connection open nor cut off output.
LinkIntact == BothClosed /\ OutputDelivered

=============================================================================
