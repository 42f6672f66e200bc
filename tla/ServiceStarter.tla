--------------------------- MODULE ServiceStarter ---------------------------
(***************************************************************************)
(* Starting and stopping barrel (app/app.go, app/services.go): the services*)
(* of a mode run until a signal arrives or one of them fails; then all are *)
(* cancelled and disposed of, and start returns the first error sent to the*)
(* channel that closes itself (utils/channel.go).                          *)
(*                                                                         *)
(* The parts of a service are the goroutines it starts: one per host of the*)
(* proxy, the IPAM and the network server of the plugin, the loop of the   *)
(* agent.  Time is counted in ticks up to the dispose timeout.             *)
(***************************************************************************)
EXTENDS Naturals, FiniteSets

CONSTANTS
    Hosts,      \* the hosts the proxy may listen on
    Settings    \* the configurations of the instance, see Setting

Setting == [
    mode : {"default", "proxy-only", "network-plugin-only", "unknown"},
    enableCNMAgent : BOOLEAN,
    hosts : SUBSET Hosts,
    disposeTimeout : Nat]   \* in ticks; 0: none

ASSUME HostsAssumption == IsFiniteSet(Hosts) /\ Hosts \cap {"ipam", "network", "loop"} = {}
ASSUME SettingAssumption == Settings \subseteq Setting

VARIABLES
    setting,    \* a member of Settings that never changes
    main,       \* start: its control state and what it returns
    signal,     \* a signal waits in sigs
    cancelled,  \* ctx
    svc,        \* the goroutine of each service
    ch,         \* chErr: how many nil errors were sent, and whether it is closed
    part,       \* the goroutines of the services
    busy,       \* the proxy has an open request
    age         \* ticks since the services were started

state == <<main, signal, cancelled, svc, ch, part, busy, age>>
vars == <<setting, state>>

AllServices == {"proxy", "plugin", "agent"}
AllParts == Hosts \cup {"ipam", "network", "loop"}
Mode == setting.mode
DisposeTimeout == setting.disposeTimeout

\* defaultMode, proxyOnlyMode and networkPluginOnlyMode.
Services ==
    CASE Mode = "default" -> {"proxy", "plugin"} \cup (IF setting.enableCNMAgent THEN {"agent"} ELSE {})
      [] Mode = "proxy-only" -> {"proxy"}
      [] Mode = "network-plugin-only" -> {"plugin"}
      [] OTHER -> {}

PartsOf(s) == CASE s = "proxy" -> setting.hosts [] s = "plugin" -> {"ipam", "network"} [] s = "agent" -> {"loop"}
Parts == UNION {PartsOf(s) : s \in Services}

\* "none" until the service has ended; "wrapped" is an error of Dispose around
\* one of Serve.
Errors == {"none", "nil", "serve", "dispose", "deadline", "wrapped"}

SetMain(pc, result) == main' = [pc |-> pc, result |-> result]
Goto(s, pc) == svc' = [svc EXCEPT ![s].pc = pc]

(***************************************************************************)
(* Run and runMode: signals are caught before the services are built.      *)
(***************************************************************************)

RunMode ==
    /\ main.pc = "boot"
    /\ \/ Services # {} /\ SetMain("select", "none")
          /\ svc' = [s \in Services |-> [svc[s] EXCEPT !.pc = "serving"]]
       \/ SetMain("returned", "serve") /\ UNCHANGED svc    \* no such mode, or the factory fails
    /\ UNCHANGED <<signal, cancelled, ch, part, busy, age>>

Signal ==
    /\ ~signal /\ main.pc # "returned"
    /\ signal' = TRUE
    /\ UNCHANGED <<main, cancelled, svc, ch, part, busy, age>>

(***************************************************************************)
(* The goroutines of the services.  A server returns only with an error, or*)
(* with ErrServiceShutdown in its place.                                   *)
(***************************************************************************)

PartEnds(s, p) ==
    /\ svc[s].pc # "idle" /\ part[p] = "up"
    /\ part' = [part EXCEPT ![p] = "over"]
    /\ UNCHANGED <<main, signal, cancelled, svc, ch, busy, age>>

Winners(s) == {p \in PartsOf(s) : part[p] \in {"sending", "sent"}}

\* The first goroutine to get the flag (proxy) or the mutex (plugin) sends; it
\* blocks until Serve receives, for ever if Serve has returned.
PartSends(s, p) == part[p] = "over" /\ Winners(s) = {} /\ part' = [part EXCEPT ![p] = "sending"]

\* The others end: those of the plugin only after the first has let go of the mutex.
PartEndsSilently(s, p) ==
    /\ part[p] = "over" /\ Winners(s) # {}
    /\ s = "plugin" => \E q \in Winners(s) : part[q] = "sent"
    /\ part' = [part EXCEPT ![p] = "gone"]

PartStep(s, p) ==
    /\ PartSends(s, p) \/ PartEndsSilently(s, p)
    /\ UNCHANGED <<main, signal, cancelled, svc, ch, busy, age>>

(***************************************************************************)
(* serveAndDispose.                                                        *)
(***************************************************************************)

\* Serve returns when one of its goroutines fails or the context is cancelled.
ServeFails(s) ==
    /\ svc[s].pc = "serving"
    /\ \E p \in PartsOf(s) : part[p] = "sending" /\ part' = [part EXCEPT ![p] = "sent"]
    /\ svc' = [svc EXCEPT ![s].pc = "disposing", ![s].failed = TRUE]
    /\ UNCHANGED <<main, signal, cancelled, ch, busy, age>>

ServeCancelled(s) ==
    /\ svc[s].pc = "serving" /\ cancelled
    /\ Goto(s, "disposing")
    /\ UNCHANGED <<main, signal, cancelled, ch, part, busy, age>>

\* A mistake: an error of Serve is forgotten when Dispose succeeds.
DisposeErrorOnly(s, err) == err

\* What serveAndDispose returns.
ServiceError(s, err) ==
    CASE err # "nil" /\ svc[s].failed -> "wrapped"
      [] err # "nil" /\ ~svc[s].failed -> err
      [] OTHER -> IF svc[s].failed THEN "serve" ELSE "nil"

\* The deadline is that of the context startService makes before it calls Serve.
Expired(s) == DisposeTimeout > 0 /\ age = DisposeTimeout

\* The agent just sets a flag, the plugin cannot be disposed of, and the proxy's
\* server shuts down once no request is open.
DisposeResults(s) ==
    CASE s = "agent" -> {"nil"}
      [] s = "plugin" -> {"dispose"}
      [] s = "proxy" -> IF ~busy THEN {"nil"} ELSE IF Expired(s) THEN {"deadline"} ELSE {}

Dispose(s) ==
    /\ svc[s].pc = "disposing"
    /\ \E err \in DisposeResults(s) :
         svc' = [svc EXCEPT ![s].pc = "ended", ![s].err = ServiceError(s, err)]
    /\ UNCHANGED <<main, signal, cancelled, ch, part, busy, age>>

(***************************************************************************)
(* AutoCloseChanErr.Send.  An error is sent with the mutex held.           *)
(***************************************************************************)

Held == \E s \in Services : svc[s].pc = "sending"

\* A mistake: the channel is closed one service too early.
SendClosesEarly(s) ==
    CASE ch.closed -> Goto(s, "done") /\ UNCHANGED ch
      [] ~ch.closed /\ svc[s].err # "nil" -> Goto(s, "sending") /\ UNCHANGED ch
      [] OTHER -> /\ ch' = [cnt |-> ch.cnt + 1, closed |-> ch.cnt + 2 >= Cardinality(Services)]
                  /\ Goto(s, "done")

Send(s) ==
    CASE ch.closed -> Goto(s, "done") /\ UNCHANGED ch
      [] ~ch.closed /\ svc[s].err # "nil" -> Goto(s, "sending") /\ UNCHANGED ch
      [] OTHER -> /\ ch' = [cnt |-> ch.cnt + 1, closed |-> ch.cnt + 1 >= Cardinality(Services)]
                  /\ Goto(s, "done")

SendError(s) ==
    /\ svc[s].pc = "ended" /\ ~Held
    /\ Send(s)
    /\ UNCHANGED <<main, signal, cancelled, part, busy, age>>

(***************************************************************************)
(* start.                                                                  *)
(***************************************************************************)

\* A receive from chErr: the value of the service that sends, or nil once closed.
Receive(pc) ==
    \/ \E s \in Services :
         /\ svc[s].pc = "sending"
         /\ Goto(s, "done")
         /\ ch' = [ch EXCEPT !.closed = TRUE]
         /\ SetMain(pc, svc[s].err)
    \/ ch.closed /\ SetMain(pc, "nil") /\ UNCHANGED <<svc, ch>>

\* The select of start.
ReceiveSignal ==
    /\ main.pc = "select" /\ signal
    /\ SetMain("receive", "none")
    /\ signal' = FALSE /\ cancelled' = TRUE
    /\ UNCHANGED <<svc, ch, part, busy, age>>

ReceiveError ==
    /\ main.pc = "select"
    /\ Receive("wait")
    /\ cancelled' = TRUE
    /\ UNCHANGED <<signal, part, busy, age>>

\* A mistake: after a signal the services are waited for before the error is received.
WaitThenReceive ==
    /\ main.pc = "receive" /\ \A s \in Services : svc[s].pc = "done"
    /\ Receive("wait")
    /\ UNCHANGED <<signal, cancelled, part, busy, age>>

\* After a signal the error is received before the services are waited for.
ReceiveLast ==
    /\ main.pc = "receive"
    /\ Receive("wait")
    /\ UNCHANGED <<signal, cancelled, part, busy, age>>

\* A mistake: the services are not waited for.
ReturnAtOnce == main.pc = "wait"

\* wg.Wait.
AllDone == main.pc = "wait" /\ \A s \in Services : svc[s].pc = "done"

Return ==
    /\ AllDone
    /\ SetMain("returned", main.result)
    /\ UNCHANGED <<signal, cancelled, svc, ch, part, busy, age>>

(***************************************************************************)
(* Requests of the proxy's clients, and time.                              *)
(***************************************************************************)

Request ==
    /\ "proxy" \in Services /\ svc["proxy"].pc \in {"serving", "disposing"}
    /\ IF busy THEN busy' = FALSE ELSE svc["proxy"].pc = "serving" /\ busy' = TRUE
    /\ UNCHANGED <<main, signal, cancelled, svc, ch, part, age>>

Tick ==
    /\ "proxy" \in Services /\ svc["proxy"].pc \in {"serving", "disposing"}
    /\ age < DisposeTimeout /\ age' = age + 1
    /\ UNCHANGED <<main, signal, cancelled, svc, ch, part, busy>>

Init ==
    /\ setting \in Settings
    /\ main = [pc |-> "boot", result |-> "none"]
    /\ signal = FALSE /\ cancelled = FALSE /\ busy = FALSE
    /\ svc = [s \in Services |-> [pc |-> "idle", failed |-> FALSE, err |-> "none"]]
    /\ ch = [cnt |-> 0, closed |-> FALSE]
    /\ part = [p \in Parts |-> "up"]
    /\ age = 0

ServiceStep(s) == ServeFails(s) \/ ServeCancelled(s) \/ Dispose(s) \/ SendError(s)
MainStep == RunMode \/ ReceiveSignal \/ ReceiveError \/ ReceiveLast \/ Return

ServiceGoes(s) == s \in Services /\ ServiceStep(s)
PartGoes(s, p) == s \in Services /\ p \in PartsOf(s) /\ PartStep(s, p)

Next ==
    /\ \/ MainStep \/ Signal \/ Request \/ Tick
       \/ \E s \in Services : ServiceStep(s) \/ \E p \in PartsOf(s) : PartEnds(s, p) \/ PartStep(s, p)
    /\ UNCHANGED setting

\* Goroutines that can go on do, and time passes; requests need not end.
Fairness ==
    /\ WF_state(MainStep) /\ WF_state(Tick)
    /\ \A s \in AllServices :
         WF_state(ServiceGoes(s)) /\ \A p \in AllParts : WF_state(PartGoes(s, p))

Spec == Init /\ [][Next]_vars
FairSpec == Spec /\ Fairness

(***************************************************************************)
(* Properties.                                                             *)
(***************************************************************************)

\* Every variable has its type, and what could panic does not happen: a service
\* sends only on an open channel, one at a time.
StarterTypeOK ==
    /\ main \in [pc : {"boot", "select", "receive", "wait", "returned"}, result : Errors]
    /\ svc \in [Services -> [pc : {"idle", "serving", "disposing", "ended", "sending", "done"},
                             failed : BOOLEAN, err : Errors]]
    /\ ch \in [cnt : 0..Cardinality(Services), closed : BOOLEAN]
    /\ part \in [Parts -> {"up", "over", "sending", "sent", "gone"}]
    /\ signal \in BOOLEAN /\ cancelled \in BOOLEAN /\ busy \in BOOLEAN
    /\ age \in 0..DisposeTimeout
    /\ \A s \in Services : svc[s].pc = "sending" => ~ch.closed
    /\ Cardinality({s \in Services : svc[s].pc = "sending"}) <= 1

\* Of the goroutines of a service one at most sends to its channel: the channel is
\* closed after that.
OnePartSends == \A s \in Services : Cardinality(Winners(s)) <= 1

Ran == main.pc = "returned" /\ \E s \in Services : svc[s].pc # "idle"

\* start returns nil only if every service was served and disposed of without an
\* error: no failure is lost in the channel.
NilMeansClean == Ran /\ main.result = "nil" => \A s \in Services : svc[s].err = "nil" /\ ~svc[s].failed

\* When start returns every service has been disposed of.
AllDisposed == Ran => \A s \in Services : svc[s].pc = "done"

Stopping == signal \/ cancelled \/ \E s \in Services : svc[s].pc \in {"ended", "sending", "done"}

\* After a signal, or once one service has ended, start returns, whatever the
\* other services and the proxy's clients do: no service keeps the mutex of the
\* channel while start waits for it.
StopReturns == []<>(Stopping => main.pc = "returned")

\* The goroutines of the services, the two channels they send on and start fit
\* together: nothing sends twice or on a closed channel, nothing outlives start.
StarterInv == StarterTypeOK /\ OnePartSends /\ AllDisposed

=============================================================================
