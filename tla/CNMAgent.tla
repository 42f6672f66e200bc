------------------------------ MODULE CNMAgent ------------------------------
(***************************************************************************)
(* The CNM agent (vessel/agent.go): the network driver tells it which      *)
(* endpoints were created and removed; a loop polls dockerd until it sees  *)
(* the change and writes or deletes the container's ContainerInfo.         *)
(*                                                                         *)
(* The goroutines are the loop, one caller per endpoint (dockerd's request *)
(* that runs NotifyEndpointCreated, later NotifyEndpointRemoved), Serve,   *)
(* and the goroutine notifier.wait starts to deliver a signal that came    *)
(* before anybody waited.  They share two mutexes (agent.mutex, the        *)
(* notifier's), the pollers and unbuffered channels.  A channel that is    *)
(* closed under a sender panics, and a panic ends the plugin.              *)
(*                                                                         *)
(* The pollers' own mutex is held for one step, except in match, where     *)
(* callers wait for it.                                                    *)
(***************************************************************************)
EXTENDS Naturals, Sequences, FiniteSets

CONSTANTS
    Endpoints, Containers,
    Channels,           \* enough channels that a new one is always at hand
    Settings            \* what the instance is about, see Setting

NoChannel == 0

Setting == [
    containerOf : [Endpoints -> Containers],
    unsupervised : SUBSET Containers,   \* with a network GetPoolsByNetworkName refuses
    timerFires : BOOLEAN,               \* FALSE: agent.pollInterval is longer than the run
    pollersExpire : BOOLEAN,            \* FALSE: agent.pollTimeout is longer than the run
    stops : BOOLEAN,                    \* FALSE: barrel serves on
    faults : SUBSET {"error"}]          \* calls to dockerd and the vessel fail

ASSUME ChannelAssumption ==
    Channels \subseteq Nat \ {0} /\ IsFiniteSet(Channels) /\ Channels # {}
ASSUME EndpointAssumption == {"none", "loop"} \cap Endpoints = {}
ASSUME SettingAssumption == Settings \subseteq Setting

VARIABLES
    setting,    \* a member of Settings that never changes
    poller,     \* pollers.pollers: what each endpoint's poller waits for
    pSize,      \* pollers.pSize
    late,       \* the pollers that have timed out
    chs,        \* notifier.chs
    hasSig,     \* notifier.hasSig
    agentMutex, nMutex,     \* who holds them
    closedCh,   \* the channels that were closed
    spawned,    \* the channels on which a goroutine of notifier.wait sends
    loop,       \* the polling goroutine
    caller,     \* the requests: their place, and the channels still to send to
    serve,      \* agent.Serve: "serving", or why it returned
    closed,     \* agent.closed
    panicked,   \* the plugin is dead
    attached,   \* dockerd: the endpoints ContainerList shows
    record      \* the vessel: the endpoints in each container's ContainerInfo

polls == <<poller, pSize, late>>
notifier == <<chs, hasSig, nMutex>>
outside == <<serve, closed>>
state == <<poller, pSize, late, chs, hasSig, agentMutex, nMutex, closedCh, spawned,
           loop, caller, serve, closed, panicked, attached, record>>
vars == <<setting, state>>

ContainerOf == setting.containerOf
Faults == setting.faults

Holders == {"none", "loop"} \cup Endpoints
LoopPCs == {"poll", "list", "match", "commit", "check", "next", "wait", "select",
            "close", "cancel", "fail", "ended"}
CallerPCs == {"none", "new", "send", "sending", "created",
              "lock", "renew", "resend", "resending", "removed"}
Results == {"none", "add", "remove"}

\* path tells next() from the branch of a closed agent; seen is what
\* ContainerList returned, todo the pollers match has not visited, matched the
\* poll result of each container.
Loop == [pc : LoopPCs, path : {"next", "closed"}, ch : Channels \cup {NoChannel},
         seen : SUBSET Endpoints, todo : SUBSET Endpoints, matched : [Containers -> Results]]
Caller == [pc : CallerPCs, left : Seq(Channels)]

NothingMatched == [c \in Containers |-> "none"]
LoopGoto(pc) == loop' = [loop EXCEPT !.pc = pc]
CallerGoto(e, pc) == caller' = [caller EXCEPT ![e].pc = pc]

(***************************************************************************)
(* pollers.                                                                *)
(***************************************************************************)

\* pollers.newPoller: the first poller of an endpoint stays; a removal cancels an
\* add poller that was not matched yet.
NewPoller(e, kind) ==
    /\ loop.pc # "match"
    /\ CASE poller[e] = "none" ->
              poller' = [poller EXCEPT ![e] = kind] /\ pSize' = pSize + 1
         [] poller[e] = "add" /\ kind = "remove" ->
              poller' = [poller EXCEPT ![e] = "none"] /\ pSize' = pSize - 1
         [] OTHER -> UNCHANGED <<poller, pSize>>
    /\ late' = late \ {e}

\* A poller's timeout passes.
Expire(e) ==
    /\ setting.pollersExpire /\ poller[e] # "none"
    /\ late' = late \cup {e}
    /\ UNCHANGED <<poller, pSize, notifier, agentMutex, closedCh, spawned, loop, caller,
                   outside, panicked, attached, record>>

(***************************************************************************)
(* The loop: poll.                                                         *)
(***************************************************************************)

PollUnlocked(pc) == agentMutex' = "none" /\ loop' = [loop EXCEPT !.pc = pc, !.seen = {}]

Poll ==
    /\ loop.pc = "poll" /\ agentMutex = "none"
    /\ IF pSize = 0 THEN LoopGoto("check") /\ UNCHANGED agentMutex
                    ELSE LoopGoto("list") /\ agentMutex' = "loop"
    /\ UNCHANGED <<polls, notifier, closedCh, spawned, caller, outside, panicked, attached, record>>

\* ContainerList.
List ==
    /\ loop.pc = "list"
    /\ \/ loop' = [loop EXCEPT !.pc = "match", !.seen = attached,
                               !.todo = {e \in Endpoints : poller[e] # "none"}]
          /\ UNCHANGED agentMutex
       \/ "error" \in Faults /\ PollUnlocked("fail")
    /\ UNCHANGED <<polls, notifier, closedCh, spawned, caller, outside, panicked, attached, record>>

\* GetPoolsByNetworkName refuses a network of another driver, or without pools.
NoPools(c) == c \in setting.unsupervised

\* matchAddPoller: dockerd shows the endpoint.  makeAddPollResult fails when a
\* network of the container has no pools.
AddRefused(e) ==
    /\ poller[e] = "add" /\ e \in loop.seen
    /\ loop.matched[ContainerOf[e]] = "none"
    /\ NoPools(ContainerOf[e])

\* matchEvent.match answers true.
Matched(e) == (poller[e] = "add") <=> (e \in loop.seen)

\* A mistake: only a removal yields a result.
ResultOfRemove(e) ==
    IF Matched(e) /\ poller[e] = "remove" /\ e \in record[ContainerOf[e]] THEN "remove" ELSE "none"

\* The poll result of a container is that of the first poller that matched.  A
\* removal yields one only if the vessel knows the endpoint.
ResultOf(e) ==
    IF ~Matched(e) \/ (poller[e] = "remove" /\ e \notin record[ContainerOf[e]])
    THEN "none" ELSE poller[e]

\* A mistake: a poller that timed out is kept.
PollerEndsMatched(e) == ~AddRefused(e) /\ Matched(e)

\* An error goes on to the next poller, before the timeout is looked at.
PollerEnds(e) == ~AddRefused(e) /\ (Matched(e) \/ e \in late)

\* pollers.match visits one poller; commit follows if there are results.
Match(e) ==
    LET c == ContainerOf[e]
        after == [loop EXCEPT !.todo = @ \ {e},
                              !.matched[c] = IF @ = "none" /\ ~AddRefused(e) THEN ResultOf(e) ELSE @]
    IN /\ loop.pc = "match" /\ e \in loop.todo
       /\ IF PollerEnds(e)
          THEN poller' = [poller EXCEPT ![e] = "none"] /\ pSize' = pSize - 1
          ELSE UNCHANGED <<poller, pSize>>
       /\ late' = IF PollerEnds(e) THEN late \ {e} ELSE late
       /\ loop' = after
       /\ UNCHANGED <<notifier, agentMutex, closedCh, spawned, caller, outside, panicked,
                      attached, record>>

\* ListContainers may fail before match, which then visits nothing.
ListContainersFails ==
    /\ "error" \in Faults /\ loop.pc = "match" /\ loop.matched = NothingMatched
    /\ loop.todo = {e \in Endpoints : poller[e] # "none"}
    /\ agentMutex' = "none"
    /\ loop' = [loop EXCEPT !.pc = "fail", !.seen = {}, !.todo = {}]
    /\ UNCHANGED <<polls, notifier, closedCh, spawned, caller, outside, panicked, attached, record>>

Matching ==
    /\ loop.pc = "match" /\ loop.todo = {}
    /\ IF loop.matched = NothingMatched THEN PollUnlocked("check")
                                        ELSE LoopGoto("commit") /\ UNCHANGED agentMutex
    /\ UNCHANGED <<polls, notifier, closedCh, spawned, caller, outside, panicked, attached, record>>

\* UpdateContainer or DeleteContainer; an error is logged.
Commit(c) ==
    LET rest == [loop.matched EXCEPT ![c] = "none"]
    IN /\ loop.pc = "commit" /\ loop.matched[c] # "none"
       /\ \/ record' = [record EXCEPT ![c] = IF loop.matched[c] = "remove" THEN {}
                                             ELSE {e \in loop.seen : ContainerOf[e] = c}]
          \/ "error" \in Faults /\ UNCHANGED record
       /\ loop' = [loop EXCEPT !.matched = rest,
                               !.pc = IF rest = NothingMatched THEN "check" ELSE @,
                               !.seen = IF rest = NothingMatched THEN {} ELSE @]
       /\ agentMutex' = IF rest = NothingMatched THEN "none" ELSE agentMutex
       /\ UNCHANGED <<polls, notifier, closedCh, spawned, caller, outside, panicked, attached>>

(***************************************************************************)
(* The loop between two polls, and the notifier.                           *)
(***************************************************************************)

\* A closed agent waits on a channel that it cancels and closes at once.
CheckClosed ==
    /\ loop.pc = "check"
    /\ loop' = [loop EXCEPT !.pc = IF closed THEN "wait" ELSE "next",
                            !.path = IF closed THEN "closed" ELSE "next"]
    /\ UNCHANGED <<polls, notifier, agentMutex, closedCh, spawned, caller, outside, panicked,
                   attached, record>>

\* next: while there are pollers, the next poll follows after minPollInterval.
NextPoll ==
    /\ loop.pc = "next"
    /\ LoopGoto(IF pSize > 0 THEN "poll" ELSE "wait")
    /\ UNCHANGED <<polls, notifier, agentMutex, closedCh, spawned, caller, outside, panicked,
                   attached, record>>

InUse == {chs[i] : i \in DOMAIN chs} \cup spawned \cup UNION {{caller[e].left[i] :
             i \in DOMAIN caller[e].left} : e \in Endpoints}

\* A mistake: next's deferred calls run in the other order.
CancelFirst == <<"cancel", "close">>

\* next's deferred calls close the channel and then cancel it; the branch of a
\* closed agent cancels and then closes.
Ending == IF loop.path = "next" THEN <<"close", "cancel">> ELSE <<"cancel", "close">>
After(step) == IF Ending[1] = step THEN Ending[2] ELSE "poll"

\* A mistake: a signal that is there already is not looked at.
RegisterOnly(ch) == chs' = Append(chs, ch) /\ UNCHANGED <<hasSig, spawned>>

\* What notifier.wait does with a new channel: a signal that is there already is
\* delivered by a goroutine, otherwise the channel is registered.
Register(ch) ==
    IF hasSig THEN hasSig' = FALSE /\ spawned' = spawned \cup {ch} /\ UNCHANGED chs
              ELSE chs' = Append(chs, ch) /\ UNCHANGED <<hasSig, spawned>>

Wait ==
    LET ch == CHOOSE x \in Channels : x \notin InUse
    IN /\ loop.pc = "wait" /\ nMutex = "none"
       /\ Register(ch)
       /\ closedCh' = closedCh \ {ch}
       /\ loop' = [loop EXCEPT !.ch = ch, !.pc = IF loop.path = "closed"
                                                 THEN Ending[1] ELSE "select"]
       /\ UNCHANGED <<polls, agentMutex, nMutex, caller, outside, panicked, attached, record>>

\* The select ends with the poll interval or with a signal.
Timer ==
    /\ loop.pc = "select" /\ setting.timerFires
    /\ LoopGoto(Ending[1])
    /\ UNCHANGED <<polls, notifier, agentMutex, closedCh, spawned, caller, outside, panicked,
                   attached, record>>

ReceiveSpawned ==
    /\ loop.pc = "select" /\ loop.ch \in spawned
    /\ spawned' = spawned \ {loop.ch}
    /\ LoopGoto(Ending[1])
    /\ UNCHANGED <<polls, notifier, agentMutex, closedCh, caller, outside, panicked, attached, record>>

Sending(e) == caller[e].pc \in {"sending", "resending"}

Receive(e) ==
    /\ loop.pc = "select" /\ Sending(e) /\ Head(caller[e].left) = loop.ch
    /\ caller' = [caller EXCEPT ![e].left = Tail(@)]
    /\ LoopGoto(Ending[1])
    /\ UNCHANGED <<polls, notifier, agentMutex, closedCh, spawned, outside, panicked, attached, record>>

\* close(ch): a sender that is blocked on it panics.
Close ==
    /\ loop.pc = "close"
    /\ closedCh' = closedCh \cup {loop.ch}
    /\ panicked' = (loop.ch \in spawned \/
                    \E e \in Endpoints : Sending(e) /\ caller[e].left # <<>>
                                         /\ Head(caller[e].left) = loop.ch)
    /\ LoopGoto(After("close"))
    /\ UNCHANGED <<polls, notifier, agentMutex, spawned, caller, outside, attached, record>>

\* A mistake: the channel stays registered.
RemovedNothing(s, ch) == s

\* notifier.remove.  Of two channels or more it drops one too many.
Removed(s, ch) ==
    LET at == {i \in DOMAIN s : s[i] = ch}
        i == CHOOSE j \in at : TRUE
    IN IF at = {} THEN s
       ELSE IF Len(s) = 1 THEN <<>>
       ELSE SubSeq([s EXCEPT ![i] = s[Len(s)]], 1, Len(s) - 2)

Cancel ==
    /\ loop.pc = "cancel" /\ nMutex = "none"
    /\ chs' = Removed(chs, loop.ch)
    /\ LoopGoto(After("cancel"))
    /\ UNCHANGED <<polls, hasSig, nMutex, agentMutex, closedCh, spawned, caller, outside,
                   panicked, attached, record>>

(***************************************************************************)
(* The callers.  NotifyEndpointRemoved does all of it under agent.mutex.   *)
(***************************************************************************)

NotifyEndpointCreated(e) ==
    /\ caller[e].pc = "none"
    /\ CallerGoto(e, "new")
    /\ UNCHANGED <<polls, notifier, agentMutex, closedCh, spawned, loop, outside, panicked,
                   attached, record>>

NotifyEndpointRemoved(e) ==
    /\ caller[e].pc = "created"
    /\ CallerGoto(e, "lock")
    /\ UNCHANGED <<polls, notifier, agentMutex, closedCh, spawned, loop, outside, panicked,
                   attached, record>>

Lock(e) ==
    /\ caller[e].pc = "lock" /\ agentMutex = "none"
    /\ agentMutex' = e
    /\ CallerGoto(e, "renew")
    /\ UNCHANGED <<polls, notifier, closedCh, spawned, loop, outside, panicked, attached, record>>

AddPoller(e) ==
    /\ \/ caller[e].pc = "new" /\ NewPoller(e, "add") /\ CallerGoto(e, "send")
       \/ caller[e].pc = "renew" /\ NewPoller(e, "remove") /\ CallerGoto(e, "resend")
    /\ UNCHANGED <<notifier, agentMutex, closedCh, spawned, loop, outside, panicked, attached, record>>

\* notifier.send: without a waiter the signal is kept, otherwise the caller
\* keeps the notifier's mutex until each waiter has received.
Returned(e) == IF caller[e].pc \in {"send", "sending"} THEN "created" ELSE "removed"
Unlocked(e) == IF agentMutex = e THEN "none" ELSE agentMutex

Send(e) ==
    /\ caller[e].pc \in {"send", "resend"} /\ nMutex = "none"
    /\ IF chs = <<>>
       THEN /\ hasSig' = TRUE
            /\ CallerGoto(e, Returned(e))
            /\ agentMutex' = Unlocked(e)
            /\ UNCHANGED nMutex
       ELSE /\ nMutex' = e
            /\ caller' = [caller EXCEPT ![e].left = chs,
                                        ![e].pc = IF @ = "send" THEN "sending" ELSE "resending"]
            /\ UNCHANGED <<hasSig, agentMutex>>
    /\ UNCHANGED <<polls, chs, closedCh, spawned, loop, outside, panicked, attached, record>>

\* The next waiter's channel is closed.
SendPanics(e) ==
    /\ Sending(e) /\ caller[e].left # <<>> /\ Head(caller[e].left) \in closedCh
    /\ panicked' = TRUE
    /\ UNCHANGED <<polls, notifier, agentMutex, closedCh, spawned, loop, caller, outside,
                   attached, record>>

Sent(e) ==
    /\ Sending(e) /\ caller[e].left = <<>>
    /\ chs' = <<>> /\ nMutex' = "none"
    /\ CallerGoto(e, Returned(e))
    /\ agentMutex' = Unlocked(e)
    /\ UNCHANGED <<polls, hasSig, closedCh, spawned, loop, outside, panicked, attached, record>>

(***************************************************************************)
(* Serve, Dispose and dockerd.                                             *)
(***************************************************************************)

\* agent.chErr <- err; nobody receives after ctx.Done.
Fail ==
    /\ loop.pc = "fail" /\ serve = "serving"
    /\ serve' = "error" /\ LoopGoto("ended")
    /\ UNCHANGED <<polls, notifier, agentMutex, closedCh, spawned, caller, closed, panicked,
                   attached, record>>

ContextDone ==
    /\ setting.stops /\ serve = "serving" /\ serve' = "done"
    /\ UNCHANGED <<polls, notifier, agentMutex, closedCh, spawned, loop, caller, closed, panicked,
                   attached, record>>

Dispose ==
    /\ serve # "serving" /\ ~closed /\ closed' = TRUE
    /\ UNCHANGED <<polls, notifier, agentMutex, closedCh, spawned, loop, caller, serve, panicked,
                   attached, record>>

\* External: the container shows up after CreateEndpoint, and is gone some time
\* after DeleteEndpoint was called.
Attach(e) ==
    /\ caller[e].pc \in {"new", "send", "sending", "created"}
    /\ attached' = attached \cup {e}
    /\ UNCHANGED <<polls, notifier, agentMutex, closedCh, spawned, loop, caller, outside,
                   panicked, record>>

Detach(e) ==
    /\ e \in attached
    /\ caller[e].pc \in {"lock", "renew", "resend", "resending", "removed"}
    /\ attached' = attached \ {e}
    /\ UNCHANGED <<polls, notifier, agentMutex, closedCh, spawned, loop, caller, outside,
                   panicked, record>>

Init ==
    /\ setting \in Settings
    /\ poller = [e \in Endpoints |-> "none"] /\ pSize = 0 /\ late = {}
    /\ chs = <<>> /\ hasSig = FALSE /\ agentMutex = "none" /\ nMutex = "none"
    /\ closedCh = {} /\ spawned = {}
    /\ loop = [pc |-> "poll", path |-> "next", ch |-> NoChannel, seen |-> {}, todo |-> {},
               matched |-> NothingMatched]
    /\ caller = [e \in Endpoints |-> [pc |-> "none", left |-> <<>>]]
    /\ serve = "serving" /\ closed = FALSE /\ panicked = FALSE
    /\ attached = {} /\ record = [c \in Containers |-> {}]

LoopStep ==
    \/ Poll \/ List \/ ListContainersFails \/ Matching \/ CheckClosed \/ NextPoll
    \/ Wait \/ ReceiveSpawned \/ Close \/ Cancel \/ Fail
    \/ \E e \in Endpoints : Match(e) \/ Receive(e)
    \/ \E c \in Containers : Commit(c)
CallerStep(e) == Lock(e) \/ AddPoller(e) \/ Send(e) \/ Sent(e) \/ SendPanics(e)
Request(e) == NotifyEndpointCreated(e) \/ NotifyEndpointRemoved(e)

Next ==
    /\ ~panicked /\ UNCHANGED setting
    /\ \/ LoopStep \/ Timer \/ ContextDone \/ Dispose
       \/ \E e \in Endpoints : \/ CallerStep(e) \/ Request(e) \/ Expire(e)
                               \/ Attach(e) \/ Detach(e)

Spec == Init /\ [][Next]_vars

\* Goroutines run.  A mutex of Go's sync package is handed to whoever has waited
\* for a millisecond, so a caller that keeps finding it free gets it.  Timeouts
\* pass, and dockerd's list follows what it told the driver.
FairSpec ==
    /\ Spec
    /\ WF_state(~panicked /\ LoopStep)
    /\ \A e \in Endpoints : /\ SF_state(~panicked /\ CallerStep(e))
                            /\ WF_state(~panicked /\ Expire(e))
                            /\ WF_state(~panicked /\ Detach(e))

(***************************************************************************)
(* Properties.                                                             *)
(***************************************************************************)

\* The shapes of the agent's state.
AgentTypeOK ==
    /\ poller \in [Endpoints -> {"none", "add", "remove"}] /\ pSize \in Nat
    /\ late \subseteq Endpoints
    /\ chs \in Seq(Channels) /\ hasSig \in BOOLEAN
    /\ agentMutex \in Holders /\ nMutex \in Holders
    /\ closedCh \subseteq Channels /\ spawned \subseteq Channels
    /\ loop \in Loop /\ caller \in [Endpoints -> Caller]
    /\ serve \in {"serving", "error", "done"} /\ closed \in BOOLEAN /\ panicked \in BOOLEAN
    /\ attached \subseteq Endpoints /\ record \in [Containers -> SUBSET Endpoints]

\* A signal is on its way to the loop: a caller has still to send, is sending on
\* the loop's channel, or a goroutine does.
SignalComing ==
    \/ loop.ch \in spawned
    \/ \E e \in Endpoints :
         \/ caller[e].pc \in {"send", "resend"}
         \/ Sending(e) /\ \E i \in DOMAIN caller[e].left : caller[e].left[i] = loop.ch

\* The loop never sleeps on a poller: between its look at pollers.size() and its
\* registration with the notifier, callers add pollers and send.
NoLostWakeup ==
    loop.pc = "select" /\ (\E e \in Endpoints : poller[e] # "none") => SignalComing

\* Only the loop waits, on one channel at a time: notifier.remove, which loses
\* two channels at once, never has two to choose from.
OneWaiter == Len(chs) <= 1 /\ (chs # <<>> => chs[1] = loop.ch)

Notifying(e) == caller[e].pc \notin {"none", "created", "removed"}

\* NotifyEndpointCreated and NotifyEndpointRemoved return (dockerd's requests
\* wait for them) until the agent is disposed of, also when the loop has ended
\* with an error, unless the plugin dies.
ServedNotifyReturns ==
    \A e \in Endpoints : []<>(~Notifying(e) \/ panicked \/ closed)

\* dockerd shows the endpoint of an add poller, and a network of its container has
\* no pools: its match fails for as long as this is so.
Refusing(e) == poller[e] = "add" /\ e \in attached /\ NoPools(ContainerOf[e])

\* A poller ends, by a match or by its timeout, unless the agent has stopped, also
\* beside one whose match always fails.  A failed match skips the timeout check, and
\* this is the only way a poller lives on: one that is never seen to end is an add
\* poller that is being refused, not a removal's, nor that of an endpoint dockerd
\* does not show.
PollersEnd ==
    \A e \in Endpoints :
        []<>(setting.pollersExpire =>
               poller[e] = "none" \/ Refusing(e) \/ panicked \/ serve # "serving")

\* Endpoints are on containers of their own, calls do not fail, and neither the poll
\* interval nor a poller's timeout passes; barrel is not stopped.
Calm ==
    /\ \A e, f \in Endpoints : ContainerOf[e] = ContainerOf[f] => e = f
    /\ Faults = {} /\ setting.unsupervised = {}
    /\ ~setting.timerFires /\ ~setting.pollersExpire /\ ~setting.stops

\* Some time after the removal of an endpoint (which is the last thing to happen to
\* it) its container's record is gone for good, however far the poll for its creation had got.
RemovedIsForgotten ==
    \A e \in Endpoints :
        <>[](Calm /\ caller[e].pc = "removed" => panicked \/ e \notin record[ContainerOf[e]])

\* TestAgent: "We wait for container to be update".  An endpoint that dockerd
\* shows is recorded, unless it is removed or the agent stopped first.
CreatedIsUpdated ==
    \A e \in Endpoints :
        []<>(Calm /\ caller[e].pc = "created" /\ e \in attached => e \in record[ContainerOf[e]])

\* The state the loop and the callers share under two mutexes is well formed.
AgentInv == AgentTypeOK /\ OneWaiter

\* The records follow what dockerd does, whatever the order in which polls, removals
\* and notifications meet.
RecordsFollowDocker == RemovedIsForgotten /\ CreatedIsUpdated

=============================================================================
