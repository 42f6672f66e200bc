--------------------------- MODULE CNMAgentProofs ---------------------------
(***************************************************************************)
(* Proofs about the CNM agent: the loop and the callers share one channel  *)
(* at a time, a poller never waits for a loop that sleeps, and the plugin  *)
(* panics only when the poll interval or the end of barrel cuts in on a    *)
(* signal.  They hold for any number of endpoints, containers and channels.*)
(*                                                                         *)
(* The inductive invariant says where the loop's channel may be: with the  *)
(* notifier, in the hands of the one caller that holds the notifier's      *)
(* mutex, or with the goroutine of notifier.wait.                          *)
(***************************************************************************)
EXTENDS CNMAgent, TLAPS, FiniteSetTheorems

(***************************************************************************)
(* The inductive invariant.                                                *)
(***************************************************************************)

Pollers == {e \in Endpoints : poller[e] # "none"}

\* pollers.pSize counts the pollers, and match visits those that are there.
SizeOK ==
    /\ IsFiniteSet(Pollers) /\ pSize = Cardinality(Pollers)
    /\ loop.pc = "match" => loop.todo \subseteq Pollers

\* The notifier knows the loop's channel only from wait until cancel.
WaiterOK ==
    \/ chs = <<>>
    \/ /\ chs = <<loop.ch>>
       /\ loop.pc \in {"select", "cancel"} \/ (loop.pc = "close" /\ loop.path = "next")

\* A loop that sleeps can be woken: its channel is registered or in a goroutine's hands.
SelectOK ==
    /\ loop.pc = "select" => loop.path = "next" /\ (chs # <<>> \/ loop.ch \in spawned)
    /\ loop.pc = "next" => loop.path = "next"
    /\ loop.pc \in {"select", "close", "cancel"} => loop.ch \in Channels

\* The goroutine of notifier.wait does not outlive the loop's wait, or the plugin.
SpawnedOK ==
    ~panicked /\ spawned # {} =>
        /\ spawned = {loop.ch} /\ chs = <<>>
        /\ loop.pc \in {"select", "close"} \/ (loop.pc = "cancel" /\ loop.path = "closed")

\* A caller that sends has the notifier's mutex and only the loop's channel left.
SenderOK(e) ==
    /\ ~Sending(e) => caller[e].left = <<>>
    /\ Sending(e) => /\ nMutex = e /\ chs # <<>>
                     /\ caller[e].left = <<>> \/ caller[e].left = <<loop.ch>>
                     /\ loop.pc = "select" => caller[e].left = <<loop.ch>>

\* Before the loop registers, a poller has left a signal or is about to.
WaitOK ==
    loop.pc = "wait" /\ loop.path = "next" /\ Pollers # {} =>
        hasSig \/ \E e \in Endpoints : caller[e].pc \in {"send", "resend"}

AgentIInv ==
    /\ setting \in Settings /\ AgentTypeOK
    /\ SizeOK /\ WaiterOK /\ SelectOK /\ SpawnedOK
    /\ \A e \in Endpoints : SenderOK(e)
    /\ WaitOK /\ NoLostWakeup

\* Nothing cuts in on a signal: the poll interval is long, and barrel serves on.
Undisturbed == ~setting.timerFires /\ ~setting.stops

\* Then the loop leaves its select only with a signal, and its channel is closed
\* after nobody sends on it any more.
PanicFree ==
    /\ ~panicked
    /\ loop.path = "next" /\ serve # "done"
    /\ serve = "error" => loop.pc = "ended"
    /\ closed => serve = "error"
    /\ loop.pc \in {"close", "cancel"} =>
         /\ spawned = {}
         /\ \A e \in Endpoints : caller[e].left = <<>>
         /\ chs # <<>> => \E e \in Endpoints : Sending(e)
    /\ loop.pc = "select" => loop.ch \notin closedCh

PanicIInv == Undisturbed => PanicFree

(***************************************************************************)
(* What the invariant says of each record.                                 *)
(***************************************************************************)

\* The shapes of the loop and of a caller.
LEMMA AgentTypes ==
  ASSUME AgentIInv
  PROVE  /\ loop \in Loop /\ loop.pc \in LoopPCs /\ loop.path \in {"next", "closed"}
         /\ loop.ch \in Channels \cup {NoChannel} /\ loop.seen \subseteq Endpoints
         /\ loop.todo \subseteq Endpoints /\ loop.matched \in [Containers -> Results]
         /\ caller \in [Endpoints -> Caller]
         /\ \A e \in Endpoints : caller[e] \in Caller /\ caller[e].pc \in CallerPCs
                                 /\ caller[e].left \in Seq(Channels)
  BY DEF AgentIInv, AgentTypeOK, Loop, Caller

\* The setting of a run is one of Setting.
LEMMA SettingTypes ==
  ASSUME AgentIInv
  PROVE  /\ ContainerOf \in [Endpoints -> Containers]
         /\ setting.timerFires \in BOOLEAN /\ setting.stops \in BOOLEAN
  BY SettingAssumption DEF AgentIInv, Setting, ContainerOf

\* The loop is neither registered nor about to be woken.
Elsewhere == {"poll", "list", "match", "commit", "check", "next", "wait", "fail", "ended"}

\* Away from its channel nobody sends to the loop.
LEMMA ElsewhereFacts ==
  ASSUME AgentIInv, loop.pc \in Elsewhere
  PROVE  /\ chs = <<>> /\ (~panicked => spawned = {})
         /\ \A e \in Endpoints : ~Sending(e) /\ caller[e].left = <<>>
  BY DEF AgentIInv, WaiterOK, SpawnedOK, SenderOK, Elsewhere

\* Without the holder of the notifier's mutex nobody sends.
LEMMA NobodySends ==
  ASSUME AgentIInv, nMutex = "none"
  PROVE  \A e \in Endpoints : ~Sending(e) /\ caller[e].left = <<>>
  BY EndpointAssumption DEF AgentIInv, SenderOK

\* A new channel is always at hand for notifier.wait.
LEMMA ChannelAtHand ==
  ASSUME AgentIInv, ~panicked, loop.pc = "wait"
  PROVE  /\ InUse = {}
         /\ (CHOOSE x \in Channels : x \notin InUse) \in Channels
<1>1. chs = <<>> /\ spawned = {} /\ \A e \in Endpoints : caller[e].left = <<>>
  BY ElsewhereFacts DEF Elsewhere
<1>2. InUse = {}
  BY <1>1 DEF InUse
<1>3. \E x \in Channels : x \notin InUse
  BY <1>2, ChannelAssumption
<1> QED
  BY <1>2, <1>3

(***************************************************************************)
(* Adding and ending a poller.                                             *)
(***************************************************************************)

\* A poller that is added is counted.
LEMMA PollerAdded ==
  ASSUME AgentIInv, NEW e \in Endpoints, poller[e] = "none",
         NEW kind \in {"add", "remove"},
         poller' = [poller EXCEPT ![e] = kind], pSize' = pSize + 1
  PROVE  /\ IsFiniteSet(Pollers') /\ pSize' = Cardinality(Pollers') /\ pSize' \in Nat
         /\ poller' \in [Endpoints -> {"none", "add", "remove"}]
<1>0. poller \in [Endpoints -> {"none", "add", "remove"}] /\ pSize \in Nat
  BY DEF AgentIInv, AgentTypeOK
<1>1. poller' \in [Endpoints -> {"none", "add", "remove"}]
  BY <1>0
<1>2. Pollers' = Pollers \cup {e} /\ e \notin Pollers
  BY <1>0 DEF Pollers
<1>3. IsFiniteSet(Pollers) /\ pSize = Cardinality(Pollers)
  BY DEF AgentIInv, SizeOK
<1>4. IsFiniteSet(Pollers') /\ Cardinality(Pollers') = Cardinality(Pollers) + 1
  BY <1>2, <1>3, FS_AddElement
<1> QED
  BY <1>0, <1>1, <1>3, <1>4

\* A poller that ends is counted no more.
LEMMA PollerEnded ==
  ASSUME AgentIInv, NEW e \in Endpoints, poller[e] # "none",
         poller' = [poller EXCEPT ![e] = "none"], pSize' = pSize - 1
  PROVE  /\ IsFiniteSet(Pollers') /\ pSize' = Cardinality(Pollers') /\ pSize' \in Nat
         /\ poller' \in [Endpoints -> {"none", "add", "remove"}]
         /\ Pollers' = Pollers \ {e}
<1>0. poller \in [Endpoints -> {"none", "add", "remove"}] /\ pSize \in Nat
  BY DEF AgentIInv, AgentTypeOK
<1>1. poller' \in [Endpoints -> {"none", "add", "remove"}]
  BY <1>0
<1>2. Pollers' = Pollers \ {e} /\ e \in Pollers
  BY <1>0 DEF Pollers
<1>3. IsFiniteSet(Pollers) /\ pSize = Cardinality(Pollers)
  BY DEF AgentIInv, SizeOK
<1>4. IsFiniteSet(Pollers') /\ Cardinality(Pollers') = Cardinality(Pollers) - 1
  BY <1>2, <1>3, FS_RemoveElement
<1>5. Cardinality(Pollers') \in Nat
  BY <1>4, FS_CardinalityType
<1> QED
  BY <1>1, <1>2, <1>3, <1>4, <1>5

\* pollers.size() tells whether there are pollers.
LEMMA SizeTells ==
  ASSUME AgentIInv
  PROVE  pSize \in Nat /\ (pSize = 0 <=> Pollers = {})
<1>1. IsFiniteSet(Pollers) /\ pSize = Cardinality(Pollers)
  BY DEF AgentIInv, SizeOK
<1>2. Cardinality(Pollers) = 0 <=> Pollers = {}
  BY <1>1, FS_EmptySet
<1> QED
  BY <1>1, <1>2 DEF AgentIInv, AgentTypeOK

(***************************************************************************)
(* The steps that do not touch channels.                                   *)
(***************************************************************************)

\* A timeout, the end of Serve, dockerd, and a send that panics.
LEMMA OutsideSteps ==
  ASSUME AgentIInv,
         UNCHANGED <<setting, poller, pSize, chs, hasSig, agentMutex, nMutex, closedCh, spawned,
                     loop, caller, record>>,
         late' \subseteq Endpoints, serve' \in {"serving", "error", "done"},
         closed' \in BOOLEAN, panicked' \in BOOLEAN, panicked => panicked',
         attached' \subseteq Endpoints
  PROVE  AgentIInv'
<1>1. AgentTypeOK' /\ (setting \in Settings)'
  BY DEF AgentIInv, AgentTypeOK
<1>2. SizeOK' /\ WaiterOK' /\ SelectOK' /\ SpawnedOK'
  BY DEF AgentIInv, SizeOK, Pollers, WaiterOK, SelectOK, SpawnedOK
<1>3. \A e \in Endpoints : SenderOK(e)'
  BY DEF AgentIInv, SenderOK, Sending
<1>4. WaitOK' /\ NoLostWakeup'
  BY DEF AgentIInv, WaitOK, Pollers, NoLostWakeup, SignalComing, Sending
<1> QED
  BY <1>1, <1>2, <1>3, <1>4 DEF AgentIInv

\* The loop polls, commits, or decides how to go on.
LEMMA LoopElsewhere ==
  ASSUME AgentIInv, ~panicked, loop.pc \in Elsewhere,
         loop' \in Loop, loop'.pc \in Elsewhere,
         loop'.pc = "next" => loop'.path = "next",
         loop'.pc = "match" => loop'.todo \subseteq Pollers,
         loop'.pc = "wait" /\ loop'.path = "next" => Pollers = {},
         agentMutex' \in Holders, record' \in [Containers -> SUBSET Endpoints],
         serve' \in {"serving", "error", "done"},
         UNCHANGED <<setting, poller, pSize, late, chs, hasSig, nMutex, closedCh, spawned,
                     caller, closed, panicked, attached>>
  PROVE  AgentIInv'
<1>0. /\ chs = <<>> /\ spawned = {}
      /\ \A e \in Endpoints : ~Sending(e) /\ caller[e].left = <<>>
  BY ElsewhereFacts
<1>1. AgentTypeOK' /\ (setting \in Settings)'
  BY DEF AgentIInv, AgentTypeOK
<1>2. Pollers' = Pollers
  BY DEF Pollers
<1>3. SizeOK'
  BY <1>2 DEF AgentIInv, SizeOK
<1>4. WaiterOK' /\ SelectOK' /\ SpawnedOK'
  BY <1>0 DEF WaiterOK, SelectOK, SpawnedOK, Elsewhere
<1>5. \A e \in Endpoints : SenderOK(e)'
  BY <1>0 DEF SenderOK, Sending
<1>6. WaitOK' /\ NoLostWakeup'
  BY <1>2 DEF WaitOK, NoLostWakeup, Elsewhere
<1> QED
  BY <1>1, <1>3, <1>4, <1>5, <1>6 DEF AgentIInv

\* poll: the list of containers, match and commit.
LEMMA PollSteps ==
  ASSUME AgentIInv, ~panicked, UNCHANGED setting,
         \/ Poll \/ List \/ ListContainersFails \/ Matching \/ CheckClosed \/ NextPoll \/ Fail
         \/ \E c \in Containers : Commit(c)
  PROVE  AgentIInv'
<1>0. /\ agentMutex \in Holders /\ record \in [Containers -> SUBSET Endpoints]
      /\ serve \in {"serving", "error", "done"} /\ attached \subseteq Endpoints
      /\ "none" \in Holders /\ "loop" \in Holders
  BY DEF AgentIInv, AgentTypeOK, Holders
<1>1. CASE Poll
  <2>1. loop' \in Loop /\ loop'.pc \in {"check", "list"} /\ agentMutex' \in Holders
    BY <1>0, <1>1, AgentTypes DEF Poll, LoopGoto, Loop, LoopPCs
  <2> QED
    BY <1>0, <1>1, <2>1, LoopElsewhere DEF Poll, Elsewhere, polls, notifier, outside
<1>2. CASE List
  <2>1. /\ loop' \in Loop /\ loop'.pc \in {"match", "fail"} /\ agentMutex' \in Holders
        /\ loop'.pc = "match" => loop'.todo = Pollers
    BY <1>0, <1>2, AgentTypes DEF List, PollUnlocked, Loop, LoopPCs, Pollers
  <2> QED
    BY <1>0, <1>2, <2>1, LoopElsewhere DEF List, Elsewhere, polls, notifier, outside
<1>3. CASE ListContainersFails
  <2>1. loop' \in Loop /\ loop'.pc = "fail" /\ agentMutex' \in Holders
    BY <1>0, <1>3, AgentTypes DEF ListContainersFails, Loop, LoopPCs
  <2> QED
    BY <1>0, <1>3, <2>1, LoopElsewhere DEF ListContainersFails, Elsewhere, polls, notifier, outside
<1>4. CASE Matching
  <2>1. loop' \in Loop /\ loop'.pc \in {"check", "commit"} /\ agentMutex' \in Holders
    BY <1>0, <1>4, AgentTypes DEF Matching, PollUnlocked, LoopGoto, Loop, LoopPCs
  <2> QED
    BY <1>0, <1>4, <2>1, LoopElsewhere DEF Matching, Elsewhere, polls, notifier, outside
<1>5. CASE CheckClosed
  <2>1. /\ loop' \in Loop
        /\ \/ loop'.pc = "wait" /\ loop'.path = "closed"
           \/ loop'.pc = "next" /\ loop'.path = "next"
    BY <1>0, <1>5, AgentTypes DEF CheckClosed, Loop, LoopPCs
  <2> QED
    BY <1>0, <1>5, <2>1, LoopElsewhere DEF CheckClosed, Elsewhere, polls, notifier, outside
<1>6. CASE NextPoll
  <2>1. /\ loop' \in Loop /\ loop'.pc \in {"poll", "wait"}
        /\ loop'.pc = "wait" => ~(pSize > 0)
    BY <1>0, <1>6, AgentTypes DEF NextPoll, LoopGoto, Loop, LoopPCs
  <2>2. loop'.pc = "wait" => Pollers = {}
    BY <2>1, SizeTells
  <2> QED
    BY <1>0, <1>6, <2>1, <2>2, LoopElsewhere DEF NextPoll, Elsewhere, polls, notifier, outside
<1>7. CASE Fail
  <2>1. loop' \in Loop /\ loop'.pc = "ended"
    BY <1>0, <1>7, AgentTypes DEF Fail, LoopGoto, Loop, LoopPCs
  <2> QED
    BY <1>0, <1>7, <2>1, LoopElsewhere DEF Fail, Elsewhere, polls, notifier
<1>8. ASSUME NEW c \in Containers, Commit(c)
      PROVE  AgentIInv'
  <2> DEFINE rest == [loop.matched EXCEPT ![c] = "none"]
  <2>1. rest \in [Containers -> Results]
    BY AgentTypes DEF Results
  <2>4. /\ loop.pc = "commit"
        /\ loop' = [loop EXCEPT !.matched = rest,
                                !.pc = IF rest = NothingMatched THEN "check" ELSE @,
                                !.seen = IF rest = NothingMatched THEN {} ELSE @]
        /\ agentMutex' = IF rest = NothingMatched THEN "none" ELSE agentMutex
    BY <1>8 DEF Commit
  <2>2. /\ loop' \in Loop /\ loop'.pc \in {"check", "commit"} /\ agentMutex' \in Holders
    <3> HIDE DEF rest
    <3>1. CASE rest = NothingMatched
      <4>1. loop' = [loop EXCEPT !.matched = rest, !.pc = "check", !.seen = {}] /\ agentMutex' = "none"
        BY <2>4, <3>1
      <4> QED
        BY <1>0, <2>1, <4>1, AgentTypes DEF Loop, LoopPCs
    <3>2. CASE rest # NothingMatched
      <4>1. loop' = [loop EXCEPT !.matched = rest] /\ agentMutex' = agentMutex
        BY <2>4, <3>2, AgentTypes DEF Loop
      <4> QED
        BY <1>0, <2>1, <2>4, <4>1, AgentTypes DEF Loop
    <3> QED
      BY <3>1, <3>2
  <2>3. record' \in [Containers -> SUBSET Endpoints]
    <3>1. {e \in loop.seen : ContainerOf[e] = c} \in SUBSET Endpoints /\ {} \in SUBSET Endpoints
      BY AgentTypes
    <3> DEFINE new == IF loop.matched[c] = "remove" THEN {} ELSE {e \in loop.seen : ContainerOf[e] = c}
    <3>2. new \in SUBSET Endpoints
      BY <3>1
    <3>3. record' = record \/ record' = [record EXCEPT ![c] = new]
      BY <1>8 DEF Commit
    <3> HIDE DEF new
    <3> QED
      BY <1>0, <3>2, <3>3
  <2> QED
    BY <1>0, <1>8, <2>2, <2>3, LoopElsewhere DEF Commit, Elsewhere, polls, notifier, outside
<1> QED
  BY <1>1, <1>2, <1>3, <1>4, <1>5, <1>6, <1>7, <1>8

\* match visits a poller.
LEMMA MatchStep ==
  ASSUME AgentIInv, ~panicked, UNCHANGED setting, NEW e \in Endpoints, Match(e)
  PROVE  AgentIInv'
<1>0. /\ loop.pc = "match" /\ e \in loop.todo
      /\ UNCHANGED <<notifier, agentMutex, closedCh, spawned, caller, outside, panicked,
                     attached, record>>
  BY DEF Match
<1>1. poller[e] # "none" /\ loop.todo \subseteq Pollers
  BY <1>0 DEF AgentIInv, SizeOK, Pollers
<1> DEFINE result == IF loop.matched[ContainerOf[e]] = "none" /\ ~AddRefused(e)
                     THEN ResultOf(e) ELSE loop.matched[ContainerOf[e]]
           matched == [loop.matched EXCEPT ![ContainerOf[e]] = result]
<1>2. loop' = [loop EXCEPT !.todo = @ \ {e}, !.matched = matched]
  BY AgentTypes, SettingTypes DEF Match, Loop
<1>3. matched \in [Containers -> Results]
  <2>1. poller[e] \in Results /\ ResultOf(e) \in Results
    BY DEF AgentIInv, AgentTypeOK, Results, ResultOf
  <2>2. loop.matched[ContainerOf[e]] \in Results /\ ContainerOf[e] \in Containers
    BY AgentTypes, SettingTypes
  <2>3. result \in Results
    BY <2>1, <2>2
  <2> HIDE DEF result
  <2> QED
    BY <2>3, AgentTypes
<1> HIDE DEF matched
<1>4. loop' \in Loop /\ loop'.pc = "match" /\ loop'.todo = loop.todo \ {e}
  BY <1>0, <1>2, <1>3, AgentTypes DEF Loop
<1>5. /\ IsFiniteSet(Pollers') /\ pSize' = Cardinality(Pollers') /\ pSize' \in Nat
      /\ poller' \in [Endpoints -> {"none", "add", "remove"}]
      /\ loop'.todo \subseteq Pollers' /\ late' \subseteq Endpoints
  <2>1. late' \subseteq Endpoints
    BY DEF Match, AgentIInv, AgentTypeOK
  <2>2. CASE PollerEnds(e)
    <3>1. poller' = [poller EXCEPT ![e] = "none"] /\ pSize' = pSize - 1
      BY <2>2 DEF Match
    <3> QED
      BY <1>1, <1>4, <2>1, <3>1, PollerEnded
  <2>3. CASE ~PollerEnds(e)
    <3>1. UNCHANGED <<poller, pSize>>
      BY <2>3 DEF Match
    <3>2. Pollers' = Pollers
      BY <3>1 DEF Pollers
    <3> QED
      BY <1>1, <1>4, <2>1, <3>1, <3>2 DEF AgentIInv, AgentTypeOK, SizeOK
  <2> QED
    BY <2>2, <2>3
<1>6. AgentTypeOK' /\ (setting \in Settings)' /\ SizeOK'
  BY <1>0, <1>4, <1>5 DEF AgentIInv, AgentTypeOK, SizeOK, notifier, outside
<1>7. /\ chs = <<>> /\ spawned = {}
      /\ \A f \in Endpoints : ~Sending(f) /\ caller[f].left = <<>>
  BY <1>0, ElsewhereFacts DEF Elsewhere
<1>8. WaiterOK' /\ SelectOK' /\ SpawnedOK' /\ WaitOK' /\ NoLostWakeup'
  BY <1>0, <1>4, <1>7 DEF WaiterOK, SelectOK, SpawnedOK, WaitOK, NoLostWakeup, notifier
<1>9. \A f \in Endpoints : SenderOK(f)'
  BY <1>0, <1>7 DEF SenderOK, Sending
<1> QED
  BY <1>6, <1>8, <1>9 DEF AgentIInv

(***************************************************************************)
(* The loop and its channel.                                               *)
(***************************************************************************)

\* notifier.wait: the loop registers, or finds the signal that is there already.
LEMMA WaitStep ==
  ASSUME AgentIInv, ~panicked, UNCHANGED setting, Wait
  PROVE  AgentIInv'
<1> DEFINE ch == CHOOSE x \in Channels : x \notin InUse
           pc == IF loop.path = "closed" THEN "cancel" ELSE "select"
<1>0. /\ loop.pc = "wait" /\ nMutex = "none" /\ Register(ch)
      /\ closedCh' = closedCh \ {ch}
      /\ UNCHANGED <<polls, agentMutex, nMutex, caller, outside, panicked, attached, record>>
  BY DEF Wait
<1>1. ch \in Channels
  BY <1>0, ChannelAtHand
<1>2. loop' = [loop EXCEPT !.ch = ch, !.pc = pc] /\ pc \in LoopPCs
  BY AgentTypes DEF Wait, Ending, LoopPCs
<1>3. /\ chs = <<>> /\ spawned = {}
      /\ \A f \in Endpoints : ~Sending(f) /\ caller[f].left = <<>>
  BY <1>0, ElsewhereFacts DEF Elsewhere
<1> HIDE DEF ch
<1>4. /\ loop' \in Loop /\ loop'.ch = ch /\ loop'.path = loop.path
      /\ \/ loop'.pc = "cancel" /\ loop.path = "closed"
         \/ loop'.pc = "select" /\ loop.path = "next"
  <2>1. \/ pc = "cancel" /\ loop.path = "closed"
        \/ pc = "select" /\ loop.path = "next"
    BY AgentTypes
  <2> HIDE DEF pc
  <2> QED
    BY <1>1, <1>2, <2>1, AgentTypes DEF Loop
<1>5. \/ hasSig /\ hasSig' = FALSE /\ spawned' = {ch} /\ chs' = <<>>
      \/ ~hasSig /\ chs' = <<ch>> /\ spawned' = {} /\ hasSig' = FALSE
  <2>1. hasSig \in BOOLEAN /\ Append(chs, ch) = <<ch>>
    BY <1>1, <1>3 DEF AgentIInv, AgentTypeOK
  <2> QED
    BY <1>0, <1>3, <2>1 DEF Register
<1>6. chs' \in Seq(Channels) /\ spawned' \subseteq Channels /\ hasSig' \in BOOLEAN
  <2>1. <<>> \in Seq(Channels) /\ <<ch>> \in Seq(Channels)
    BY <1>1
  <2> QED
    BY <1>1, <1>5, <2>1
<1>7. AgentTypeOK' /\ (setting \in Settings)'
  BY <1>0, <1>4, <1>6 DEF AgentIInv, AgentTypeOK, polls, outside
<1>8. Pollers' = Pollers /\ SizeOK'
  BY <1>0, <1>4 DEF AgentIInv, SizeOK, Pollers, polls
<1>9. WaiterOK' /\ SelectOK' /\ SpawnedOK' /\ WaitOK'
  BY <1>1, <1>4, <1>5 DEF WaiterOK, SelectOK, SpawnedOK, WaitOK
<1>10. \A f \in Endpoints : SenderOK(f)'
  BY <1>0, <1>3 DEF SenderOK, Sending
<1>11. NoLostWakeup'
  <2>1. SUFFICES ASSUME loop'.pc = "select", Pollers # {}
                 PROVE  SignalComing'
    BY <1>0, <1>8 DEF NoLostWakeup, Pollers, polls
  <2>2. hasSig \/ \E f \in Endpoints : caller[f].pc \in {"send", "resend"}
    BY <1>0, <1>4, <2>1 DEF AgentIInv, WaitOK
  <2> QED
    BY <1>0, <1>4, <1>5, <2>2 DEF SignalComing
<1> QED
  BY <1>7, <1>8, <1>9, <1>10, <1>11 DEF AgentIInv

\* The poll interval ends, or the loop receives from the goroutine of wait.
LEMMA WakeSteps ==
  ASSUME AgentIInv, ~panicked, UNCHANGED setting, Timer \/ ReceiveSpawned
  PROVE  AgentIInv'
<1>0. /\ loop.pc = "select" /\ loop.path = "next"
      /\ UNCHANGED <<polls, notifier, agentMutex, closedCh, caller, outside, panicked, attached, record>>
      /\ spawned' = spawned \/ spawned' = spawned \ {loop.ch}
  BY DEF Timer, ReceiveSpawned, AgentIInv, SelectOK
<1>1. loop' = [loop EXCEPT !.pc = "close"]
  BY <1>0 DEF Timer, ReceiveSpawned, LoopGoto, Ending
<1>2. loop' \in Loop /\ loop'.pc = "close" /\ loop'.path = "next" /\ loop'.ch = loop.ch
  BY <1>0, <1>1, AgentTypes DEF Loop, LoopPCs
<1>3. AgentTypeOK' /\ (setting \in Settings)'
  BY <1>0, <1>2 DEF AgentIInv, AgentTypeOK, polls, notifier, outside
<1>4. SizeOK' /\ WaitOK' /\ NoLostWakeup'
  BY <1>0, <1>2 DEF AgentIInv, SizeOK, Pollers, polls, WaitOK, NoLostWakeup
<1>5. WaiterOK' /\ SelectOK' /\ SpawnedOK'
  BY <1>0, <1>2 DEF AgentIInv, WaiterOK, SelectOK, SpawnedOK, notifier
<1>6. \A f \in Endpoints : SenderOK(f)'
  BY <1>0, <1>2 DEF AgentIInv, SenderOK, Sending, notifier
<1> QED
  BY <1>3, <1>4, <1>5, <1>6 DEF AgentIInv

\* The loop receives from a caller.
LEMMA ReceiveStep ==
  ASSUME AgentIInv, ~panicked, UNCHANGED setting, NEW e \in Endpoints, Receive(e)
  PROVE  AgentIInv'
<1>0. /\ loop.pc = "select" /\ loop.path = "next" /\ Sending(e)
      /\ UNCHANGED <<polls, notifier, agentMutex, closedCh, spawned, outside, panicked, attached, record>>
  BY DEF Receive, AgentIInv, SelectOK
<1>1. loop' = [loop EXCEPT !.pc = "close"]
  BY <1>0 DEF Receive, LoopGoto, Ending
<1>2. loop' \in Loop /\ loop'.pc = "close" /\ loop'.path = "next" /\ loop'.ch = loop.ch
  BY <1>0, <1>1, AgentTypes DEF Loop, LoopPCs
<1>3. caller[e].left = <<loop.ch>> /\ caller[e].left \in Seq(Channels)
  BY <1>0, AgentTypes DEF AgentIInv, SenderOK
<1>4. Tail(caller[e].left) = <<>>
  BY <1>3
<1>5. caller' = [caller EXCEPT ![e].left = <<>>]
  BY <1>4, AgentTypes DEF Receive
<1>6. <<>> \in Seq(Channels)
  OBVIOUS
<1>7. /\ caller' \in [Endpoints -> Caller]
      /\ caller'[e].pc = caller[e].pc /\ caller'[e].left = <<>>
      /\ \A f \in Endpoints : f # e => caller'[f] = caller[f]
  BY <1>5, <1>6, AgentTypes DEF Caller
<1>8. AgentTypeOK' /\ (setting \in Settings)'
  BY <1>0, <1>2, <1>7 DEF AgentIInv, AgentTypeOK, polls, notifier, outside
<1>9. SizeOK' /\ WaitOK' /\ NoLostWakeup'
  BY <1>0, <1>2 DEF AgentIInv, SizeOK, Pollers, polls, WaitOK, NoLostWakeup
<1>10. WaiterOK' /\ SelectOK' /\ SpawnedOK'
  BY <1>0, <1>2 DEF AgentIInv, WaiterOK, SelectOK, SpawnedOK, notifier
<1>11. \A f \in Endpoints : SenderOK(f)'
  <2>1. ASSUME NEW f \in Endpoints PROVE SenderOK(f)'
    <3>1. SenderOK(f) /\ caller'[f].pc = caller[f].pc
      BY <1>7 DEF AgentIInv
    <3> QED
      BY <1>0, <1>2, <1>7, <3>1 DEF SenderOK, Sending, notifier
  <2> QED
    BY <2>1
<1> QED
  BY <1>8, <1>9, <1>10, <1>11 DEF AgentIInv

\* close(ch): whoever still sends on the channel ends the plugin.
LEMMA CloseStep ==
  ASSUME AgentIInv, ~panicked, UNCHANGED setting, Close
  PROVE  AgentIInv'
<1>0. /\ loop.pc = "close" /\ closedCh' = closedCh \cup {loop.ch}
      /\ UNCHANGED <<polls, notifier, agentMutex, spawned, caller, outside, attached, record>>
      /\ loop.ch \in spawned => panicked'
      /\ panicked' \in BOOLEAN
  BY DEF Close
<1> DEFINE pc == IF loop.path = "next" THEN "cancel" ELSE "poll"
<1>1. loop' = [loop EXCEPT !.pc = pc] /\ pc \in LoopPCs
  BY AgentTypes DEF Close, LoopGoto, After, Ending, LoopPCs
<1>2. /\ loop' \in Loop /\ loop'.path = loop.path /\ loop'.ch = loop.ch
      /\ \/ loop'.pc = "cancel" /\ loop.path = "next"
         \/ loop'.pc = "poll" /\ loop.path = "closed"
  <2>1. \/ pc = "cancel" /\ loop.path = "next"
        \/ pc = "poll" /\ loop.path = "closed"
    BY AgentTypes
  <2> HIDE DEF pc
  <2> QED
    BY <1>1, <2>1, AgentTypes DEF Loop
<1>3. AgentTypeOK' /\ (setting \in Settings)'
  BY <1>0, <1>2 DEF SelectOK, AgentIInv, AgentTypeOK, polls, notifier, outside
<1>4. SizeOK' /\ WaitOK' /\ NoLostWakeup'
  BY <1>0, <1>2 DEF AgentIInv, SizeOK, Pollers, polls, WaitOK, NoLostWakeup
<1>5. WaiterOK' /\ SelectOK' /\ SpawnedOK'
  BY <1>0, <1>2 DEF AgentIInv, WaiterOK, SelectOK, SpawnedOK, notifier
<1>6. \A f \in Endpoints : SenderOK(f)'
  BY <1>0, <1>2 DEF AgentIInv, SenderOK, Sending, notifier
<1> QED
  BY <1>3, <1>4, <1>5, <1>6 DEF AgentIInv

\* notifier.remove never has two channels to choose from.
LEMMA RemovedFacts ==
  ASSUME AgentIInv
  PROVE  Removed(chs, loop.ch) = <<>>
<1>1. CASE chs = <<>>
  BY <1>1 DEF Removed
<1>2. CASE chs = <<loop.ch>>
  <2>1. DOMAIN chs = {1} /\ chs[1] = loop.ch /\ Len(chs) = 1
    BY <1>2
  <2> QED
    BY <2>1 DEF Removed
<1> QED
  BY <1>1, <1>2 DEF AgentIInv, WaiterOK

\* cancel: the notifier forgets the loop's channel.
LEMMA CancelStep ==
  ASSUME AgentIInv, ~panicked, UNCHANGED setting, Cancel
  PROVE  AgentIInv'
<1>0. /\ loop.pc = "cancel" /\ nMutex = "none" /\ chs' = <<>>
      /\ UNCHANGED <<polls, hasSig, nMutex, agentMutex, closedCh, spawned, caller, outside,
                     panicked, attached, record>>
  BY RemovedFacts DEF Cancel
<1> DEFINE pc == IF loop.path = "next" THEN "poll" ELSE "close"
<1>1. loop' = [loop EXCEPT !.pc = pc] /\ pc \in LoopPCs
  BY AgentTypes DEF Cancel, LoopGoto, After, Ending, LoopPCs
<1>2. /\ loop' \in Loop /\ loop'.path = loop.path /\ loop'.ch = loop.ch
      /\ \/ loop'.pc = "poll" /\ loop.path = "next"
         \/ loop'.pc = "close" /\ loop.path = "closed"
  <2>1. \/ pc = "poll" /\ loop.path = "next"
        \/ pc = "close" /\ loop.path = "closed"
    BY AgentTypes
  <2> HIDE DEF pc
  <2> QED
    BY <1>1, <2>1, AgentTypes DEF Loop
<1>3. \A f \in Endpoints : ~Sending(f) /\ caller[f].left = <<>>
  BY <1>0, NobodySends
<1>4. <<>> \in Seq(Channels)
  OBVIOUS
<1>5. AgentTypeOK' /\ (setting \in Settings)'
  BY <1>0, <1>2, <1>4 DEF AgentIInv, AgentTypeOK, polls, outside
<1>6. SizeOK' /\ WaitOK' /\ NoLostWakeup'
  BY <1>0, <1>2 DEF AgentIInv, SizeOK, Pollers, polls, WaitOK, NoLostWakeup
<1>7. WaiterOK' /\ SelectOK' /\ SpawnedOK'
  BY <1>0, <1>2 DEF AgentIInv, WaiterOK, SelectOK, SpawnedOK
<1>8. \A f \in Endpoints : SenderOK(f)'
  BY <1>0, <1>3 DEF SenderOK, Sending
<1> QED
  BY <1>5, <1>6, <1>7, <1>8 DEF AgentIInv

(***************************************************************************)
(* The callers.                                                            *)
(***************************************************************************)

\* A caller that moves without sending.
LEMMA CallerMoves ==
  ASSUME AgentIInv, NEW e \in Endpoints, NEW pc \in CallerPCs \ {"sending", "resending"},
         ~Sending(e), caller' = [caller EXCEPT ![e].pc = pc]
  PROVE  /\ caller' \in [Endpoints -> Caller] /\ caller'[e].pc = pc
         /\ \A f \in Endpoints : f # e => caller'[f] = caller[f]
         /\ \A f \in Endpoints : caller'[f].left = caller[f].left
         /\ \A f \in Endpoints : Sending(f)' <=> Sending(f)
<1>1. /\ caller' \in [Endpoints -> Caller] /\ caller'[e].pc = pc
      /\ \A f \in Endpoints : f # e => caller'[f] = caller[f]
      /\ \A f \in Endpoints : caller'[f].left = caller[f].left
  BY AgentTypes DEF Caller
<1> QED
  BY <1>1 DEF Sending

\* A request begins, or takes agent.mutex.
LEMMA RequestSteps ==
  ASSUME AgentIInv, ~panicked, UNCHANGED setting, NEW e \in Endpoints,
         NotifyEndpointCreated(e) \/ NotifyEndpointRemoved(e) \/ Lock(e)
  PROVE  AgentIInv'
<1>0. UNCHANGED <<polls, notifier, closedCh, spawned, loop, outside, panicked, attached, record>>
  BY DEF NotifyEndpointCreated, NotifyEndpointRemoved, Lock
<1>1. agentMutex' \in Holders
  BY DEF NotifyEndpointCreated, NotifyEndpointRemoved, Lock, AgentIInv, AgentTypeOK, Holders
<1>2. PICK pc \in {"new", "lock", "renew"} :
         /\ caller' = [caller EXCEPT ![e].pc = pc]
         /\ caller[e].pc \in {"none", "created", "lock"}
  BY DEF NotifyEndpointCreated, NotifyEndpointRemoved, Lock, CallerGoto
<1>3. ~Sending(e) /\ pc \in CallerPCs \ {"sending", "resending"}
  BY <1>2 DEF Sending, CallerPCs
<1>4. /\ caller' \in [Endpoints -> Caller]
      /\ \A f \in Endpoints : f # e => caller'[f] = caller[f]
      /\ \A f \in Endpoints : caller'[f].left = caller[f].left
      /\ \A f \in Endpoints : Sending(f)' <=> Sending(f)
  BY <1>2, <1>3, CallerMoves
<1>5. \A f \in Endpoints : caller[f].pc \in {"send", "resend"} => caller'[f] = caller[f]
  BY <1>2, <1>4
<1>6. AgentTypeOK' /\ (setting \in Settings)'
  BY <1>0, <1>1, <1>4 DEF AgentIInv, AgentTypeOK, polls, notifier, outside
<1>7. SizeOK' /\ WaiterOK' /\ SelectOK' /\ SpawnedOK'
  BY <1>0 DEF AgentIInv, SizeOK, Pollers, polls, WaiterOK, SelectOK, SpawnedOK, notifier
<1>8. \A f \in Endpoints : SenderOK(f)'
  BY <1>0, <1>4 DEF AgentIInv, SenderOK, notifier
<1>9. WaitOK'
  BY <1>0, <1>5 DEF AgentIInv, WaitOK, Pollers, polls, notifier
<1>10. NoLostWakeup'
  BY <1>0, <1>4, <1>5 DEF AgentIInv, NoLostWakeup, SignalComing, polls
<1> QED
  BY <1>6, <1>7, <1>8, <1>9, <1>10 DEF AgentIInv

\* newPoller: the caller is about to send afterwards.
LEMMA AddPollerStep ==
  ASSUME AgentIInv, ~panicked, UNCHANGED setting, NEW e \in Endpoints, AddPoller(e)
  PROVE  AgentIInv'
<1>0. UNCHANGED <<notifier, agentMutex, closedCh, spawned, loop, outside, panicked, attached, record>>
  BY DEF AddPoller
<1>1. PICK kind \in {"add", "remove"}, pc \in {"send", "resend"} :
         /\ NewPoller(e, kind) /\ caller' = [caller EXCEPT ![e].pc = pc]
         /\ caller[e].pc \in {"new", "renew"}
  BY DEF AddPoller, CallerGoto
<1>2. /\ poller \in [Endpoints -> {"none", "add", "remove"}] /\ late \subseteq Endpoints
      /\ loop.pc # "match" /\ late' = late \ {e}
  BY <1>1 DEF NewPoller, AgentIInv, AgentTypeOK
<1>3. /\ IsFiniteSet(Pollers') /\ pSize' = Cardinality(Pollers') /\ pSize' \in Nat
      /\ poller' \in [Endpoints -> {"none", "add", "remove"}]
  <2>1. CASE poller[e] = "none"
    <3>1. poller' = [poller EXCEPT ![e] = kind] /\ pSize' = pSize + 1
      BY <1>1, <2>1 DEF NewPoller
    <3> QED
      BY <2>1, <3>1, PollerAdded
  <2>2. CASE poller[e] = "add" /\ kind = "remove"
    <3>1. poller' = [poller EXCEPT ![e] = "none"] /\ pSize' = pSize - 1
      BY <1>1, <2>2 DEF NewPoller
    <3> QED
      BY <2>2, <3>1, PollerEnded
  <2>3. CASE ~(poller[e] = "none") /\ ~(poller[e] = "add" /\ kind = "remove")
    <3>1. UNCHANGED <<poller, pSize>>
      BY <1>1, <2>3 DEF NewPoller
    <3>2. Pollers' = Pollers
      BY <3>1 DEF Pollers
    <3> QED
      BY <3>1, <3>2 DEF AgentIInv, AgentTypeOK, SizeOK
  <2> QED
    BY <2>1, <2>2, <2>3
<1>4. ~Sending(e) /\ pc \in CallerPCs \ {"sending", "resending"}
  BY <1>1 DEF Sending, CallerPCs
<1>5. /\ caller' \in [Endpoints -> Caller] /\ caller'[e].pc \in {"send", "resend"}
      /\ \A f \in Endpoints : caller'[f].left = caller[f].left
      /\ \A f \in Endpoints : Sending(f)' <=> Sending(f)
  BY <1>1, <1>4, CallerMoves
<1>6. AgentTypeOK' /\ (setting \in Settings)' /\ SizeOK'
  BY <1>0, <1>2, <1>3, <1>5 DEF AgentIInv, AgentTypeOK, SizeOK, notifier, outside
<1>7. WaiterOK' /\ SelectOK' /\ SpawnedOK'
  BY <1>0 DEF AgentIInv, WaiterOK, SelectOK, SpawnedOK, notifier
<1>8. \A f \in Endpoints : SenderOK(f)'
  BY <1>0, <1>5 DEF AgentIInv, SenderOK, notifier
<1>9. WaitOK' /\ NoLostWakeup'
  BY <1>5 DEF WaitOK, NoLostWakeup, SignalComing
<1> QED
  BY <1>6, <1>7, <1>8, <1>9 DEF AgentIInv

\* notifier.send: the signal is kept, or the caller turns to the loop's channel.
LEMMA SendStep ==
  ASSUME AgentIInv, ~panicked, UNCHANGED setting, NEW e \in Endpoints, Send(e)
  PROVE  AgentIInv'
<1>0. /\ caller[e].pc \in {"send", "resend"} /\ nMutex = "none" /\ ~Sending(e)
      /\ UNCHANGED <<polls, chs, closedCh, spawned, loop, outside, panicked, attached, record>>
  BY DEF Send, Sending
<1>1. \A f \in Endpoints : ~Sending(f) /\ caller[f].left = <<>>
  BY <1>0, NobodySends
<1>2. CASE chs = <<>>
  <2>1. /\ hasSig' = TRUE /\ nMutex' = nMutex /\ agentMutex' = Unlocked(e)
        /\ caller' = [caller EXCEPT ![e].pc = Returned(e)]
    BY <1>2 DEF Send, CallerGoto
  <2>2. Returned(e) \in CallerPCs \ {"sending", "resending"} /\ Unlocked(e) \in Holders
    BY DEF Returned, Unlocked, CallerPCs, Holders, AgentIInv, AgentTypeOK
  <2>3. /\ caller' \in [Endpoints -> Caller]
        /\ \A f \in Endpoints : caller'[f].left = caller[f].left
        /\ \A f \in Endpoints : Sending(f)' <=> Sending(f)
    BY <1>0, <2>1, <2>2, CallerMoves
  <2>4. AgentTypeOK' /\ (setting \in Settings)'
    BY <1>0, <2>1, <2>2, <2>3 DEF AgentIInv, AgentTypeOK, polls, outside
  <2>5. SizeOK' /\ WaiterOK' /\ SelectOK' /\ SpawnedOK'
    BY <1>0 DEF AgentIInv, SizeOK, Pollers, polls, WaiterOK, SelectOK, SpawnedOK
  <2>6. \A f \in Endpoints : SenderOK(f)'
    BY <1>1, <2>3 DEF SenderOK
  <2>7. WaitOK'
    BY <2>1 DEF WaitOK
  <2>8. NoLostWakeup'
    BY <1>0, <1>2 DEF AgentIInv, NoLostWakeup, SignalComing, SelectOK
  <2> QED
    BY <2>4, <2>5, <2>6, <2>7, <2>8 DEF AgentIInv
<1>3. CASE chs # <<>>
  <2> DEFINE pc == IF caller[e].pc = "send" THEN "sending" ELSE "resending"
  <2>1. /\ hasSig' = hasSig /\ nMutex' = e /\ agentMutex' = agentMutex
        /\ caller' = [caller EXCEPT ![e].left = chs, ![e].pc = pc]
    BY <1>0, <1>3, AgentTypes DEF Send, Caller
  <2>2. pc \in CallerPCs /\ pc \in {"sending", "resending"}
    BY DEF CallerPCs
  <2>3. chs \in Seq(Channels) /\ chs = <<loop.ch>>
    BY <1>3 DEF AgentIInv, AgentTypeOK, WaiterOK
  <2> HIDE DEF pc
  <2>4. /\ caller' \in [Endpoints -> Caller] /\ caller'[e].pc = pc /\ caller'[e].left = chs
        /\ \A f \in Endpoints : f # e => caller'[f] = caller[f]
    BY <2>1, <2>2, <2>3, AgentTypes DEF Caller
  <2>5. nMutex' \in Holders
    BY <2>1 DEF Holders
  <2>6. AgentTypeOK' /\ (setting \in Settings)'
    BY <1>0, <2>1, <2>4, <2>5 DEF AgentIInv, AgentTypeOK, polls, outside
  <2>7. SizeOK' /\ WaiterOK' /\ SelectOK' /\ SpawnedOK'
    BY <1>0 DEF AgentIInv, SizeOK, Pollers, polls, WaiterOK, SelectOK, SpawnedOK
  <2>8. Sending(e)' /\ \A f \in Endpoints : f # e => ~Sending(f)' /\ caller'[f].left = <<>>
    BY <1>1, <2>2, <2>4 DEF Sending
  <2>9. \A f \in Endpoints : SenderOK(f)'
    BY <1>0, <1>3, <2>1, <2>3, <2>4, <2>8 DEF SenderOK
  <2>10. loop.pc # "wait"
    BY <1>3, ElsewhereFacts DEF Elsewhere
  <2>11. DOMAIN caller'[e].left = {1} /\ caller'[e].left[1] = loop.ch
    BY <2>3, <2>4
  <2>12. WaitOK' /\ NoLostWakeup'
    BY <1>0, <2>8, <2>10, <2>11 DEF WaitOK, NoLostWakeup, SignalComing
  <2> QED
    BY <2>6, <2>7, <2>9, <2>12 DEF AgentIInv
<1> QED
  BY <1>2, <1>3

\* The loop has received: the caller returns and the notifier is empty.
LEMMA SentStep ==
  ASSUME AgentIInv, ~panicked, UNCHANGED setting, NEW e \in Endpoints, Sent(e)
  PROVE  AgentIInv'
<1>0. /\ Sending(e) /\ caller[e].left = <<>>
      /\ chs' = <<>> /\ nMutex' = "none" /\ agentMutex' = Unlocked(e)
      /\ caller' = [caller EXCEPT ![e].pc = Returned(e)]
      /\ UNCHANGED <<polls, hasSig, closedCh, spawned, loop, outside, panicked, attached, record>>
  BY DEF Sent, CallerGoto
<1>1. nMutex = e /\ chs # <<>> /\ loop.pc # "select" /\ loop.pc \notin Elsewhere
  <2>1. nMutex = e /\ chs # <<>> /\ loop.pc # "select"
    BY <1>0 DEF AgentIInv, SenderOK
  <2> QED
    BY <2>1, ElsewhereFacts
<1>2. Returned(e) \in CallerPCs \ {"sending", "resending"} /\ Unlocked(e) \in Holders
  BY DEF Returned, Unlocked, CallerPCs, Holders, AgentIInv, AgentTypeOK
<1>3. /\ caller' \in [Endpoints -> Caller] /\ caller'[e].pc = Returned(e)
      /\ \A f \in Endpoints : f # e => caller'[f] = caller[f]
      /\ \A f \in Endpoints : caller'[f].left = caller[f].left
  BY <1>0, <1>2, AgentTypes DEF Caller
<1>4. \A f \in Endpoints : ~Sending(f)' /\ caller'[f].left = <<>>
  <2>1. ASSUME NEW f \in Endpoints, f # e PROVE ~Sending(f) /\ caller[f].left = <<>>
    BY <1>1, <2>1 DEF AgentIInv, SenderOK
  <2> QED
    BY <1>0, <1>2, <1>3, <2>1 DEF Sending
<1>5. <<>> \in Seq(Channels) /\ "none" \in Holders
  BY DEF Holders
<1>6. AgentTypeOK' /\ (setting \in Settings)'
  BY <1>0, <1>2, <1>3, <1>5 DEF AgentIInv, AgentTypeOK, polls, outside
<1>7. SizeOK' /\ WaiterOK' /\ SelectOK' /\ SpawnedOK'
  BY <1>0, <1>1 DEF AgentIInv, SizeOK, Pollers, polls, WaiterOK, SelectOK, SpawnedOK
<1>8. \A f \in Endpoints : SenderOK(f)'
  BY <1>4 DEF SenderOK
<1>9. WaitOK' /\ NoLostWakeup'
  BY <1>0, <1>1 DEF WaitOK, NoLostWakeup, Elsewhere
<1> QED
  BY <1>6, <1>7, <1>8, <1>9 DEF AgentIInv

(***************************************************************************)
(* The invariant, and what follows from it.                                *)
(***************************************************************************)

\* NewAgent: nothing has been asked of it.
LEMMA AgentInit == Init => AgentIInv
<1> SUFFICES ASSUME Init PROVE AgentIInv
  OBVIOUS
<1>1. <<>> \in Seq(Channels) /\ "none" \in Holders
  BY DEF Holders
<1>2. loop \in Loop
  BY DEF Init, Loop, LoopPCs, NothingMatched, Results
<1>3. caller \in [Endpoints -> Caller]
  BY <1>1 DEF Init, Caller, CallerPCs
<1>4. setting \in Settings /\ AgentTypeOK
  BY <1>1, <1>2, <1>3 DEF Init, AgentTypeOK
<1>5. Pollers = {}
  BY DEF Init, Pollers
<1>6. SizeOK
  BY <1>5, FS_EmptySet DEF Init, SizeOK
<1>7. \A e \in Endpoints : SenderOK(e)
  BY DEF Init, SenderOK, Sending
<1> QED
  BY <1>4, <1>6, <1>7 DEF Init, AgentIInv, WaiterOK, SelectOK, SpawnedOK, WaitOK, NoLostWakeup

\* Every step of the agent keeps the invariant.
LEMMA AgentStep == AgentIInv /\ [Next]_vars => AgentIInv'
<1> SUFFICES ASSUME AgentIInv, [Next]_vars PROVE AgentIInv'
  OBVIOUS
<1>0. /\ late \subseteq Endpoints /\ serve \in {"serving", "error", "done"} /\ closed \in BOOLEAN
      /\ panicked \in BOOLEAN /\ attached \subseteq Endpoints
  BY DEF AgentIInv, AgentTypeOK
<1>1. CASE UNCHANGED vars
  BY <1>0, <1>1, OutsideSteps DEF vars, state
<1>2. CASE Next
  <2>0. ~panicked /\ UNCHANGED setting
    BY <1>2 DEF Next
  <2>1. CASE \/ Poll \/ List \/ ListContainersFails \/ Matching \/ CheckClosed \/ NextPoll \/ Fail
             \/ \E c \in Containers : Commit(c)
    BY <2>0, <2>1, PollSteps
  <2>2. CASE \E e \in Endpoints : Match(e)
    BY <2>0, <2>2, MatchStep
  <2>3. CASE \E e \in Endpoints : Receive(e)
    BY <2>0, <2>3, ReceiveStep
  <2>4. CASE Wait
    BY <2>0, <2>4, WaitStep
  <2>5. CASE Timer \/ ReceiveSpawned
    BY <2>0, <2>5, WakeSteps
  <2>6. CASE Close
    BY <2>0, <2>6, CloseStep
  <2>7. CASE Cancel
    BY <2>0, <2>7, CancelStep
  <2>8. CASE \E e \in Endpoints : NotifyEndpointCreated(e) \/ NotifyEndpointRemoved(e) \/ Lock(e)
    BY <2>0, <2>8, RequestSteps
  <2>9. CASE \E e \in Endpoints : AddPoller(e)
    BY <2>0, <2>9, AddPollerStep
  <2>10. CASE \E e \in Endpoints : Send(e)
    BY <2>0, <2>10, SendStep
  <2>11. CASE \E e \in Endpoints : Sent(e)
    BY <2>0, <2>11, SentStep
  <2>12. CASE ContextDone \/ Dispose
    BY <1>0, <2>0, <2>12, OutsideSteps DEF ContextDone, Dispose, polls, notifier, outside
  <2>13. CASE \E e \in Endpoints : SendPanics(e) \/ Expire(e) \/ Attach(e) \/ Detach(e)
    BY <1>0, <2>0, <2>13, OutsideSteps
    DEF SendPanics, Expire, Attach, Detach, polls, notifier, outside
  <2> QED
    BY <1>2, <2>1, <2>2, <2>3, <2>4, <2>5, <2>6, <2>7, <2>8, <2>9, <2>10, <2>11, <2>12, <2>13
    DEF Next, LoopStep, CallerStep, Request
<1> QED
  BY <1>1, <1>2

\* The notifier knows at most the loop's channel.
LEMMA OneWaiterHolds == AgentIInv => OneWaiter
<1> SUFFICES ASSUME AgentIInv PROVE OneWaiter
  OBVIOUS
<1>1. CASE chs = <<>>
  BY <1>1 DEF OneWaiter
<1>2. CASE chs = <<loop.ch>>
  BY <1>2 DEF OneWaiter
<1> QED
  BY <1>1, <1>2 DEF AgentIInv, WaiterOK

(***************************************************************************)
(* Without a timer and without an end nobody sends on a closed channel.    *)
(***************************************************************************)

\* The loop is away from its channel before and after the step.
LEMMA QuietElsewhere ==
  ASSUME PanicFree, UNCHANGED panicked, loop'.pc \in Elsewhere, loop'.path = "next",
         serve' # "done", serve' = "error" => loop'.pc = "ended", closed' => serve' = "error"
  PROVE  PanicFree'
  BY DEF PanicFree, Elsewhere

\* A step of a caller that leaves the channels it has to send to alone.
LEMMA QuietCaller ==
  ASSUME PanicFree, UNCHANGED <<loop, serve, closed, panicked, closedCh, spawned, chs>>,
         \A e \in Endpoints : caller'[e].left = caller[e].left,
         \A e \in Endpoints : Sending(e) => Sending(e)'
  PROVE  PanicFree'
  BY DEF PanicFree

\* Every step keeps it.
LEMMA QuietStep ==
  ASSUME AgentIInv, AgentIInv', PanicFree, Undisturbed, [Next]_vars
  PROVE  PanicFree'
<1>1. CASE UNCHANGED vars
  BY <1>1 DEF PanicFree, vars, state, Sending
<1>2. CASE Next
  <2>0. ~panicked /\ UNCHANGED setting /\ loop.path = "next" /\ serve # "done"
    BY <1>2 DEF Next, PanicFree
  <2>1. CASE Poll \/ List \/ ListContainersFails \/ Matching
    <3>1. UNCHANGED <<serve, closed, panicked>> /\ serve # "error"
      BY <2>1 DEF Poll, List, ListContainersFails, Matching, outside, PanicFree
    <3>2. loop'.pc \in Elsewhere /\ loop'.path = "next"
      BY <2>0, <2>1, AgentTypes
      DEF Poll, List, ListContainersFails, Matching, PollUnlocked, LoopGoto, Elsewhere, Loop
    <3> QED
      BY <2>0, <3>1, <3>2, QuietElsewhere DEF PanicFree
  <2>2. CASE CheckClosed \/ NextPoll
    <3>1. UNCHANGED <<serve, closed, panicked>> /\ serve # "error" /\ ~closed
      BY <2>2 DEF CheckClosed, NextPoll, outside, PanicFree
    <3>2. loop'.pc \in Elsewhere /\ loop'.path = "next"
      BY <2>0, <2>2, <3>1, AgentTypes DEF CheckClosed, NextPoll, LoopGoto, Elsewhere, Loop
    <3> QED
      BY <2>0, <3>1, <3>2, QuietElsewhere DEF PanicFree
  <2>3. CASE Fail
    <3>1. UNCHANGED <<closed, panicked>> /\ serve' = "error"
      BY <2>3 DEF Fail
    <3>2. loop'.pc = "ended" /\ loop'.path = "next"
      BY <2>0, <2>3, AgentTypes DEF Fail, LoopGoto, Loop
    <3> QED
      BY <3>1, <3>2, QuietElsewhere DEF Elsewhere
  <2>4. CASE \E c \in Containers : Commit(c)
    <3>1. UNCHANGED <<serve, closed, panicked>> /\ serve # "error"
      BY <2>4 DEF Commit, outside, PanicFree
    <3>2. loop'.pc \in Elsewhere /\ loop'.path = "next"
      BY <2>0, <2>4, AgentTypes DEF Commit, Elsewhere, Loop
    <3> QED
      BY <2>0, <3>1, <3>2, QuietElsewhere DEF PanicFree
  <2>5. CASE \E e \in Endpoints : Match(e)
    <3>1. UNCHANGED <<serve, closed, panicked>> /\ serve # "error"
      BY <2>5 DEF Match, outside, PanicFree
    <3>2. loop'.pc \in Elsewhere /\ loop'.path = "next"
      BY <2>0, <2>5, AgentTypes DEF Match, Elsewhere, Loop
    <3> QED
      BY <2>0, <3>1, <3>2, QuietElsewhere DEF PanicFree
  <2>6. CASE Wait
    <3>1. UNCHANGED <<serve, closed, panicked>> /\ serve # "error"
      BY <2>6 DEF Wait, outside, PanicFree
    <3>2. loop'.pc = "select" /\ loop'.path = "next" /\ loop'.ch \notin closedCh'
      BY <2>0, <2>6, AgentTypes DEF Wait, Loop
    <3> QED
      BY <2>0, <3>1, <3>2 DEF PanicFree
  <2>7. CASE Timer \/ ContextDone
    BY <2>7 DEF Timer, ContextDone, Undisturbed
  <2>8. CASE ReceiveSpawned
    <3>1. /\ UNCHANGED <<serve, closed, panicked, chs, caller>> /\ serve # "error"
          /\ loop.ch \in spawned /\ spawned' = spawned \ {loop.ch}
      BY <2>8 DEF ReceiveSpawned, outside, notifier, PanicFree
    <3>2. loop'.pc = "close" /\ loop'.path = "next"
      BY <2>0, <2>8, AgentTypes DEF ReceiveSpawned, LoopGoto, Ending, Loop
    <3>3. chs = <<>> /\ spawned' = {} /\ \A e \in Endpoints : caller[e].left = <<>>
      BY <2>0, <3>1 DEF AgentIInv, SpawnedOK, SenderOK
    <3> QED
      BY <2>0, <3>1, <3>2, <3>3 DEF PanicFree
  <2>9. ASSUME NEW e \in Endpoints, Receive(e)
        PROVE  PanicFree'
    <3>1. /\ UNCHANGED <<serve, closed, panicked, chs, spawned>> /\ serve # "error"
          /\ Sending(e) /\ loop.pc = "select"
      BY <2>9 DEF Receive, outside, notifier, PanicFree
    <3>2. loop'.pc = "close" /\ loop'.path = "next"
      BY <2>0, <2>9, AgentTypes DEF Receive, LoopGoto, Ending, Loop
    <3>3. caller[e].left = <<loop.ch>> /\ nMutex = e /\ chs # <<>>
      BY <3>1 DEF AgentIInv, SenderOK
    <3>4. Tail(caller[e].left) = <<>>
      BY <3>3
    <3>5. caller'[e].left = <<>> /\ Sending(e)' /\ \A f \in Endpoints : f # e => caller'[f] = caller[f]
      BY <2>9, <3>1, <3>4, AgentTypes DEF Receive, Sending, Caller
    <3>6. spawned' = {} /\ \A f \in Endpoints : caller'[f].left = <<>>
      BY <2>0, <3>1, <3>3, <3>5 DEF AgentIInv, SpawnedOK, SenderOK
    <3> QED
      BY <2>0, <3>1, <3>2, <3>5, <3>6 DEF PanicFree
  <2>10. CASE Close
    <3>1. /\ UNCHANGED <<serve, closed, chs, spawned, caller>> /\ serve # "error"
          /\ spawned = {} /\ \A e \in Endpoints : caller[e].left = <<>>
          /\ chs # <<>> => \E e \in Endpoints : Sending(e)
      BY <2>10 DEF Close, outside, notifier, PanicFree
    <3>2. ~panicked'
      BY <2>10, <3>1 DEF Close
    <3>3. loop'.pc = "cancel" /\ loop'.path = "next"
      BY <2>0, <2>10, AgentTypes DEF Close, LoopGoto, After, Ending, Loop
    <3>4. chs' # <<>> => \E e \in Endpoints : Sending(e)'
      BY <3>1 DEF Sending
    <3> QED
      BY <2>0, <3>1, <3>2, <3>3, <3>4 DEF PanicFree
  <2>11. CASE Cancel
    <3>1. UNCHANGED <<serve, closed, panicked>> /\ serve # "error"
      BY <2>11 DEF Cancel, outside, PanicFree
    <3>2. loop'.pc = "poll" /\ loop'.path = "next"
      BY <2>0, <2>11, AgentTypes DEF Cancel, LoopGoto, After, Ending, Loop
    <3> QED
      BY <2>0, <3>1, <3>2, QuietElsewhere DEF PanicFree, Elsewhere
  <2>12. ASSUME NEW e \in Endpoints,
                NotifyEndpointCreated(e) \/ NotifyEndpointRemoved(e) \/ Lock(e) \/ AddPoller(e)
         PROVE  PanicFree'
    <3>1. /\ UNCHANGED <<loop, serve, closed, panicked, closedCh, spawned, chs>>
          /\ caller[e].pc \in {"none", "created", "lock", "new", "renew"}
          /\ \E pc \in {"new", "lock", "renew", "send", "resend"} :
                caller' = [caller EXCEPT ![e].pc = pc]
      BY <2>12 DEF NotifyEndpointCreated, NotifyEndpointRemoved, Lock, AddPoller, CallerGoto,
                   outside, notifier
    <3>2. /\ \A f \in Endpoints : caller'[f].left = caller[f].left
          /\ \A f \in Endpoints : Sending(f) => Sending(f)'
      BY <3>1, AgentTypes DEF Sending, Caller
    <3> QED
      BY <3>1, <3>2, QuietCaller
  <2>13. ASSUME NEW e \in Endpoints, Send(e)
         PROVE  PanicFree'
    <3>1. /\ UNCHANGED <<loop, serve, closed, panicked, closedCh, spawned, chs>>
          /\ nMutex = "none"
      BY <2>13 DEF Send, outside
    <3>2. \A f \in Endpoints : ~Sending(f) /\ caller[f].left = <<>>
      BY <3>1, NobodySends
    <3>3. CASE loop.pc \in {"close", "cancel"}
      <4>1. chs = <<>>
        BY <3>2, <3>3 DEF PanicFree
      <4>2. caller' = [caller EXCEPT ![e].pc = Returned(e)]
        BY <2>13, <4>1 DEF Send, CallerGoto
      <4>3. \A f \in Endpoints : caller'[f].left = caller[f].left
        BY <4>2, AgentTypes DEF Caller
      <4> QED
        BY <3>1, <3>2, <4>1, <4>3, QuietCaller
    <3>4. CASE loop.pc \notin {"close", "cancel"}
      BY <3>1, <3>4 DEF PanicFree
    <3> QED
      BY <3>3, <3>4
  <2>14. ASSUME NEW e \in Endpoints, SendPanics(e)
         PROVE  FALSE
    <3>1. Sending(e) /\ caller[e].left # <<>> /\ Head(caller[e].left) \in closedCh
      BY <2>14 DEF SendPanics
    <3>2. caller[e].left = <<loop.ch>> /\ chs # <<>>
      BY <3>1 DEF AgentIInv, SenderOK
    <3>3. loop.ch \in closedCh
      BY <3>1, <3>2
    <3>4. loop.pc \in {"select", "close", "cancel"}
      BY <3>2 DEF AgentIInv, WaiterOK
    <3> QED
      BY <3>1, <3>3, <3>4 DEF PanicFree
  <2>15. ASSUME NEW e \in Endpoints, Sent(e)
         PROVE  PanicFree'
    <3>1. /\ UNCHANGED <<loop, serve, closed, panicked, closedCh, spawned>> /\ chs' = <<>>
          /\ caller' = [caller EXCEPT ![e].pc = Returned(e)]
      BY <2>15 DEF Sent, CallerGoto, outside
    <3>2. \A f \in Endpoints : caller'[f].left = caller[f].left
      BY <3>1, AgentTypes DEF Caller
    <3> QED
      BY <3>1, <3>2 DEF PanicFree
  <2>16. CASE Dispose
    <3>1. /\ UNCHANGED <<loop, serve, panicked, closedCh, spawned, chs, caller>>
          /\ serve = "error"
      BY <2>0, <2>16 DEF Dispose, notifier, AgentIInv, AgentTypeOK
    <3> QED
      BY <3>1 DEF PanicFree, Sending
  <2>17. CASE \E e \in Endpoints : Expire(e) \/ Attach(e) \/ Detach(e)
    <3>1. UNCHANGED <<loop, serve, closed, panicked, closedCh, spawned, chs, caller>>
      BY <2>17 DEF Expire, Attach, Detach, notifier, outside
    <3> QED
      BY <3>1 DEF PanicFree, Sending
  <2> QED
    BY <1>2, <2>1, <2>2, <2>3, <2>4, <2>5, <2>6, <2>7, <2>8, <2>9, <2>10, <2>11, <2>12, <2>13,
       <2>14, <2>15, <2>16, <2>17
    DEF Next, LoopStep, CallerStep, Request
<1> QED
  BY <1>1, <1>2

\* The state that the loop and the callers share under agent.mutex and the notifier's
\* mutex is well formed, and notifier.remove never sees two channels: for every
\* number of endpoints, in every setting.
THEOREM AgentIsSound == Spec => []AgentInv
<1>1. AgentIInv => AgentInv
  BY OneWaiterHolds DEF AgentIInv, AgentInv
<1> QED
  BY <1>1, AgentInit, AgentStep, PTL DEF Spec

\* The loop never sleeps on a poller, whatever callers do between its look at
\* pollers.size() and its registration with the notifier.
THEOREM NoWakeupIsLost == Spec => []NoLostWakeup
<1>1. AgentIInv => NoLostWakeup
  BY DEF AgentIInv
<1> QED
  BY <1>1, AgentInit, AgentStep, PTL DEF Spec

\* The plugin has died of a send on a closed channel only where the poll interval
\* passes or barrel is stopped.
PanicNeedsTimer == panicked => setting.timerFires \/ setting.stops

\* "send on closed channel" takes the poll interval, or the end of barrel, to cut in
\* on a signal: as long as the loop leaves its select only with a signal, next's
\* deferred close finds no sender, whichever calls to dockerd and the vessel fail.
THEOREM PanicNeedsATimer == Spec => []PanicNeedsTimer
<1>1. Init => PanicIInv
  BY DEF Init, PanicIInv, PanicFree
<1>2. AgentIInv /\ AgentIInv' /\ PanicIInv /\ [Next]_vars => PanicIInv'
  <2>1. SUFFICES ASSUME AgentIInv, AgentIInv', PanicIInv, [Next]_vars, Undisturbed'
                 PROVE  PanicFree'
    BY DEF PanicIInv
  <2>2. setting' = setting
    BY <2>1 DEF Next, vars
  <2>3. Undisturbed
    BY <2>1, <2>2 DEF Undisturbed
  <2> QED
    BY <2>1, <2>3, QuietStep DEF PanicIInv
<1>3. AgentIInv /\ PanicIInv => PanicNeedsTimer
  BY DEF PanicIInv, PanicFree, Undisturbed, PanicNeedsTimer
<1> QED
  BY <1>1, <1>2, <1>3, AgentInit, AgentStep, PTL DEF Spec
=============================================================================
