-------------------------- MODULE WorkloadEndpoint --------------------------
(***************************************************************************)
(* The network driver (driver/calico/network.go, driver/fixedip/network.go)*)
(* and the Calico objects it writes: the network annotation of IP pools,   *)
(* profiles, and one workload endpoint per docker endpoint.                *)
(*                                                                         *)
(* dockerd creates networks and takes each endpoint through CreateEndpoint,*)
(* Join, Leave and DeleteEndpoint, one call at a time.  CreateEndpoint may *)
(* leave a goroutine behind, the labeller, which waits for dockerd to know *)
(* the container and then writes the container's labels into the workload  *)
(* endpoint, racing with Join and DeleteEndpoint.  Calico's client compares*)
(* an object's revision when it updates it; nothing else orders the two.   *)
(*                                                                         *)
(* An action is one call to Calico, dockerd or netlink with the local code *)
(* up to the next one.                                                     *)
(***************************************************************************)
EXTENDS EtcdStore, Sequences

CONSTANTS
    Networks,       \* docker networks
    PoolList,       \* the IP pools in the order Calico lists them
    Endpoints,
    NoNetwork, NoPool,
    CreateProfiles, \* driver.createProfiles
    Settings        \* what the instance is about, see Setting

Pools == {PoolList[i] : i \in DOMAIN PoolList}

Setting == [
    networks : SUBSET Networks,               \* the networks dockerd creates
    cidrs : [Networks -> SUBSET Pools],       \* the pools a network's create request names
    endpoints : SUBSET Endpoints,             \* the endpoints dockerd creates
    networkOf : [Endpoints -> Networks],
    labelEndpoints : BOOLEAN,                 \* driver.labelEndpoints
    labelled : SUBSET Endpoints,              \* whose container has labels for Calico
    faults : SUBSET {"error", "timeout", "crash"},
    maxRev : Nat]   \* bound: the revision up to which operators edit a pool and answers
                    \* about a workload endpoint are lost

ASSUME PoolAssumption == PoolList \in Seq(Pools) /\ NoPool \notin Pools /\ NoNetwork \notin Networks
ASSUME FeatureAssumption == CreateProfiles \in BOOLEAN
ASSUME SettingAssumption == Settings \subseteq Setting

VARIABLES
    setting,        \* a member of Settings that never changes
    pool,           \* Calico: the slot of each pool; its value is the annotation
    profiles,       \* Calico: the profiles, named after pools
    wep,            \* Calico: the slot of each workload endpoint
    veth,           \* the endpoints whose veth pair exists on the host
    net,            \* CreateNetwork: how far it got, the pools it works through
    req,            \* the request dockerd makes for each endpoint
    listed,         \* dockerd: the endpoints it shows in NetworkInspect
    labeller,       \* the goroutine of each endpoint
    late            \* the labellers whose deadline has passed

calico == <<pool, profiles, wep>>
state == <<pool, profiles, wep, veth, net, req, listed, labeller, late>>
vars == <<setting, state>>

Faults == setting.faults
NetworkOf == setting.networkOf
CIDRs == setting.cidrs

WepValue == [mac : {"request", "veth"}, labels : BOOLEAN, profile : Pools \cup {NoPool}]
NoWep == [mac |-> "request", labels |-> FALSE, profile |-> NoPool]
EmptySlot == NoSlot(NoWep)

Calls == {"pools", "profile", "newprofile", "create", "get", "update"}
Rests == {"none", "failed", "created", "unjoined", "joined", "left", "deleted"}

\* copy is the object a request or goroutine has in its hands.
Request == [pc : Calls \cup Rests, profile : Pools \cup {NoPool}, copy : Slot(WepValue)]
Labeller == [pc : {"none", "network", "container", "update", "get", "done"},
             copy : Slot(WepValue)]
\* todo holds the positions in PoolList of the pools that are still to be annotated.
NetworkRequest == [pc : {"none", "list", "annotate", "created", "failed"},
                   todo : SUBSET DOMAIN PoolList, copy : [Pools -> Slot(Networks \cup {NoNetwork})]]

(***************************************************************************)
(* Calico's client and its answers.                                        *)
(***************************************************************************)

\* A call succeeds, fails without effect, or takes effect and reports an error.
Outcomes == {"ok"} \cup (Faults \cap {"error", "timeout"})
WriteOutcomes(slot) == {o \in Outcomes : o = "timeout" => slot.rev < setting.maxRev}

\* A mistake: an update of a missing object creates it.
FreshOrMissing(slot, copy) == ~Exists(slot) \/ slot.rev = copy.rev

\* Update of an object compares its resource version with the stored one.
Fresh(slot, copy) == Exists(slot) /\ slot.rev = copy.rev

\* The answer of a compared Update, and the slot after it.
UpdateOK(o, slot, copy) == o = "ok" /\ Fresh(slot, copy)
Updated(o, slot, copy, v) ==
    IF o # "error" /\ Fresh(slot, copy) THEN PutSlot(slot, v) ELSE slot

(***************************************************************************)
(* CreateNetwork.                                                          *)
(***************************************************************************)

\* Options the driver does not support, or another IPAM's gateway or address
\* space, are refused; otherwise populatePoolLabel is called.
CreateNetwork(n) ==
    /\ n \in setting.networks /\ net[n].pc = "none"
    /\ \E pc \in {"list", "failed"} : net' = [net EXCEPT ![n].pc = pc]
    /\ UNCHANGED <<calico, veth, req, listed, labeller, late>>

\* What remains of the listed pools: the network is created when none does.
Annotating(todo, copy) ==
    [pc |-> IF todo = {} THEN "created" ELSE "annotate", todo |-> todo, copy |-> copy]

NetworkFailed(n) == [net[n] EXCEPT !.pc = "failed", !.todo = {}]

\* populatePoolLabel lists the pools and picks those with a CIDR of the request.
ListPools(n) ==
    LET requested == {i \in DOMAIN PoolList : PoolList[i] \in CIDRs[n]}
    IN /\ net[n].pc = "list"
       /\ \E o \in Outcomes :
            net' = [net EXCEPT ![n] = IF o = "ok"
                                      THEN Annotating(requested, pool)
                                      ELSE NetworkFailed(n)]
       /\ UNCHANGED <<calico, veth, req, listed, labeller, late>>

\* The first error ends the loop; the pools before it stay annotated.
NextPool(n, i, ok) ==
    IF ok THEN Annotating(net[n].todo \ {i}, net[n].copy) ELSE NetworkFailed(n)

AnnotatePool(n) ==
    /\ net[n].pc = "annotate"
    /\ \E i \in net[n].todo, o \in Outcomes :
         LET p == PoolList[i]
         IN /\ \A j \in net[n].todo : i <= j
            /\ pool' = [pool EXCEPT ![p] = Updated(o, pool[p], net[n].copy[p], n)]
            /\ net' = [net EXCEPT ![n] = NextPool(n, i, UpdateOK(o, pool[p], net[n].copy[p]))]
    /\ UNCHANGED <<profiles, wep, veth, req, listed, labeller, late>>

\* External: an operator edits a pool, leaving the annotation alone.
EditPool(p) ==
    /\ pool[p].rev < setting.maxRev
    /\ \E n \in setting.networks : p \in CIDRs[n]
    /\ pool' = [pool EXCEPT ![p] = PutSlot(@, @.val)]
    /\ UNCHANGED <<profiles, wep, veth, net, req, listed, labeller, late>>

(***************************************************************************)
(* CreateEndpoint.                                                         *)
(***************************************************************************)

Goto(e, pc) == req' = [req EXCEPT ![e].pc = pc]

\* dockerd asks for an endpoint on a network it created.  A request with an
\* address or MAC that cannot be parsed fails at once.
CreateEndpoint(e) ==
    /\ e \in setting.endpoints /\ req[e].pc = "none"
    /\ net[NetworkOf[e]].pc = "created"
    /\ \E pc \in {"pools", "failed"} : Goto(e, pc)
    /\ UNCHANGED <<calico, veth, net, listed, labeller, late>>

\* The first listed pool annotated with the endpoint's network names the profile.
AnnotatedWith(n) == {i \in DOMAIN PoolList : pool[PoolList[i]].val = n}

FindPool(e) ==
    LET found == AnnotatedWith(NetworkOf[e])
        first == CHOOSE i \in found : \A j \in found : i <= j
    IN /\ req[e].pc = "pools"
       /\ \E o \in Outcomes :
            req' = [req EXCEPT ![e] =
                      IF o # "ok" \/ found = {} THEN [@ EXCEPT !.pc = "failed"]
                      ELSE [@ EXCEPT !.pc = IF CreateProfiles THEN "profile" ELSE "create",
                                     !.profile = IF CreateProfiles THEN PoolList[first]
                                                                   ELSE NoPool]]
       /\ UNCHANGED <<calico, veth, net, listed, labeller, late>>

\* Any error of Profiles().Get, not only a missing profile, leads to a create.
GetProfile(e) ==
    /\ req[e].pc = "profile"
    /\ \E o \in Outcomes :
         Goto(e, IF o = "ok" /\ req[e].profile \in profiles THEN "create" ELSE "newprofile")
    /\ UNCHANGED <<calico, veth, net, listed, labeller, late>>

\* A mistake: a profile somebody else created in the meantime is an error.
ProfileCreatedStrictly(o, name) == o = "ok" /\ name \notin profiles

\* A profile that exists already is not an error.
ProfileCreated(o, name) == o = "ok"

CreateProfile(e) ==
    /\ req[e].pc = "newprofile"
    /\ \E o \in Outcomes :
         /\ profiles' = profiles \cup (IF o = "error" THEN {} ELSE {req[e].profile})
         /\ Goto(e, IF ProfileCreated(o, req[e].profile) THEN "create" ELSE "failed")
    /\ UNCHANGED <<pool, wep, veth, net, listed, labeller, late>>

\* WorkloadEndpoints().Create, and the labeller.
CreateWep(e) ==
    LET slot == PutSlot(wep[e], [NoWep EXCEPT !.profile = req[e].profile])
    IN /\ req[e].pc = "create"
       /\ \E o \in WriteOutcomes(wep[e]) :
            /\ wep' = [wep EXCEPT ![e] = IF o = "error" THEN @ ELSE slot]
            /\ Goto(e, IF o = "ok" THEN "created" ELSE "failed")
            /\ labeller' = IF o = "ok" /\ setting.labelEndpoints
                           THEN [labeller EXCEPT ![e] = [pc |-> "network", copy |-> slot]]
                           ELSE labeller
       /\ UNCHANGED <<pool, profiles, veth, net, listed, late>>

(***************************************************************************)
(* Join, Leave and DeleteEndpoint.                                         *)
(***************************************************************************)

\* CreateVeth; a failure leaves no veth.
Join(e) ==
    /\ req[e].pc = "created"
    /\ \/ veth' = veth \cup {e} /\ Goto(e, "get")
       \/ "error" \in Faults /\ veth' = veth /\ Goto(e, "unjoined")
    /\ UNCHANGED <<calico, net, listed, labeller, late>>

JoinGet(e) ==
    /\ req[e].pc = "get"
    /\ \E o \in Outcomes :
         req' = [req EXCEPT ![e] = IF o = "ok" /\ Exists(wep[e])
                                   THEN [@ EXCEPT !.pc = "update", !.copy = wep[e]]
                                   ELSE [@ EXCEPT !.pc = "unjoined"]]
    /\ UNCHANGED <<calico, veth, net, listed, labeller, late>>

\* The MAC of the container's end of the veth pair goes into the object that
\* was read.  A conflict fails the Join, and the veth pair stays.
JoinUpdate(e) ==
    LET copy == req[e].copy
    IN /\ req[e].pc = "update"
       /\ \E o \in WriteOutcomes(wep[e]) :
            /\ wep' = [wep EXCEPT ![e] = Updated(o, wep[e], copy, [copy.val EXCEPT !.mac = "veth"])]
            /\ req' = [req EXCEPT ![e].pc = IF UpdateOK(o, wep[e], copy) THEN "joined" ELSE "unjoined",
                                  ![e].copy = EmptySlot]
       /\ UNCHANGED <<pool, profiles, veth, net, listed, labeller, late>>

\* RemoveVeth.
Leave(e) ==
    /\ req[e].pc \in {"joined", "unjoined"}
    /\ veth' = veth \ {e}
    /\ Goto(e, "left")
    /\ UNCHANGED <<calico, net, listed, labeller, late>>

\* An endpoint whose Join failed is deleted without a Leave.  An endpoint that
\* could not be deleted, or is not there, is an error.
DeleteEndpoint(e) ==
    /\ req[e].pc \in {"created", "unjoined", "left"}
    /\ \E o \in WriteOutcomes(wep[e]) :
         /\ wep' = [wep EXCEPT ![e] = IF o = "error" THEN @ ELSE DeleteSlot(@, NoWep)]
         /\ Goto(e, IF o = "ok" /\ Exists(wep[e]) THEN "deleted" ELSE req[e].pc)
    /\ UNCHANGED <<pool, profiles, veth, net, listed, labeller, late>>

\* External: once CreateEndpoint is answered dockerd shows the endpoint of the
\* container, until it is deleted.
DockerLists(e) ==
    /\ req[e].pc \in {"created", "get", "update", "joined"}
    /\ listed' = listed \cup {e}
    /\ UNCHANGED <<calico, veth, net, req, labeller, late>>

DockerForgets(e) ==
    /\ req[e].pc \in {"left", "deleted", "unjoined"}
    /\ listed' = listed \ {e}
    /\ UNCHANGED <<calico, veth, net, req, labeller, late>>

(***************************************************************************)
(* populateWorkloadEndpointWithLabels.                                     *)
(***************************************************************************)

LabelGoto(e, pc) == labeller' = [labeller EXCEPT ![e].pc = pc]
LabelDone(e) == labeller' = [labeller EXCEPT ![e] = [pc |-> "done", copy |-> EmptySlot]]

\* A mistake: the update loop does not look at the clock.
TimedOutInspecting(e) == e \in late /\ labeller[e].pc \in {"network", "container"}

\* Each of the three loops starts with a look at the clock.
TimedOut(e) == e \in late /\ labeller[e].pc \in {"network", "container", "update"}

LabelTimeout(e) ==
    /\ TimedOut(e)
    /\ LabelDone(e)
    /\ UNCHANGED <<calico, veth, net, req, listed, late>>

\* NetworkInspect, until it shows a container with our endpoint.
InspectNetwork(e) ==
    /\ labeller[e].pc = "network" /\ ~TimedOut(e)
    /\ \E o \in Outcomes :
         LabelGoto(e, IF o = "ok" /\ e \in listed THEN "container" ELSE "network")
    /\ UNCHANGED <<calico, veth, net, req, listed, late>>

\* ContainerInspect, until it answers.  No labels, nothing to do.
InspectContainer(e) ==
    /\ labeller[e].pc = "container" /\ ~TimedOut(e)
    /\ \/ e \in setting.labelled /\ LabelGoto(e, "update")
       \/ e \notin setting.labelled /\ LabelDone(e)
       \/ (e \notin listed \/ "error" \in Faults) /\ UNCHANGED labeller
    /\ UNCHANGED <<calico, veth, net, req, listed, late>>

UpdateLabels(e) ==
    LET copy == labeller[e].copy
    IN /\ labeller[e].pc = "update" /\ ~TimedOut(e)
       /\ \E o \in WriteOutcomes(wep[e]) :
            /\ wep' = [wep EXCEPT ![e] = Updated(o, wep[e], copy, [copy.val EXCEPT !.labels = TRUE])]
            /\ IF UpdateOK(o, wep[e], copy) THEN LabelDone(e) ELSE LabelGoto(e, "get")
       /\ UNCHANGED <<pool, profiles, veth, net, req, listed, late>>

\* A mistake: only the revision is refreshed, the object stays the old one.
RereadRevision(e) ==
    labeller' = [labeller EXCEPT ![e].pc = "update",
                                 ![e].copy = [wep[e] EXCEPT !.val = labeller[e].copy.val]]

\* A failed update is repeated on a fresh copy of the endpoint.
Reread(e) ==
    labeller' = [labeller EXCEPT ![e].pc = "update", ![e].copy = wep[e]]

\* Without a fresh copy the goroutine gives up.
GetEndpoint(e) ==
    /\ labeller[e].pc = "get"
    /\ \E o \in Outcomes :
         IF o = "ok" /\ Exists(wep[e]) THEN Reread(e) ELSE LabelDone(e)
    /\ UNCHANGED <<calico, veth, net, req, listed, late>>

\* The label poll timeout passes.
Deadline(e) ==
    /\ labeller[e].pc \notin {"none", "done"}
    /\ late' = late \cup {e}
    /\ UNCHANGED <<calico, veth, net, req, listed, labeller>>

(***************************************************************************)
(* The plugin dies: its goroutines are gone and its open requests fail.    *)
(***************************************************************************)
Interrupted(pc) ==
    CASE pc \in {"pools", "profile", "newprofile", "create"} -> "failed"
      [] pc \in {"get", "update"} -> "unjoined"
      [] OTHER -> pc

Crash ==
    /\ "crash" \in Faults
    /\ req' = [e \in Endpoints |-> [req[e] EXCEPT !.pc = Interrupted(@), !.copy = EmptySlot]]
    /\ net' = [n \in Networks |-> IF net[n].pc \in {"list", "annotate"}
                                  THEN NetworkFailed(n) ELSE net[n]]
    /\ labeller' = [e \in Endpoints |-> IF labeller[e].pc = "none" THEN labeller[e]
                                        ELSE [pc |-> "done", copy |-> EmptySlot]]
    /\ UNCHANGED <<calico, veth, listed, late>>

Init ==
    /\ setting \in Settings
    /\ pool = [p \in Pools |-> PutSlot(NoSlot(NoNetwork), NoNetwork)]
    /\ profiles = {}
    /\ wep = [e \in Endpoints |-> EmptySlot]
    /\ veth = {} /\ listed = {} /\ late = {}
    /\ net = [n \in Networks |-> [pc |-> "none", todo |-> {},
                                  copy |-> [p \in Pools |-> NoSlot(NoNetwork)]]]
    /\ req = [e \in Endpoints |-> [pc |-> "none", profile |-> NoPool, copy |-> EmptySlot]]
    /\ labeller = [e \in Endpoints |-> [pc |-> "none", copy |-> EmptySlot]]

NetworkStep(n) == CreateNetwork(n) \/ ListPools(n) \/ AnnotatePool(n)
RequestStep(e) ==
    \/ CreateEndpoint(e) \/ FindPool(e) \/ GetProfile(e) \/ CreateProfile(e) \/ CreateWep(e)
    \/ Join(e) \/ JoinGet(e) \/ JoinUpdate(e) \/ Leave(e) \/ DeleteEndpoint(e)
LabelStep(e) ==
    \/ LabelTimeout(e) \/ InspectNetwork(e) \/ InspectContainer(e)
    \/ UpdateLabels(e) \/ GetEndpoint(e)

Step ==
    \/ \E n \in Networks : NetworkStep(n)
    \/ \E p \in Pools : EditPool(p)
    \/ \E e \in Endpoints : \/ RequestStep(e) \/ LabelStep(e) \/ Deadline(e)
                            \/ DockerLists(e) \/ DockerForgets(e)
    \/ Crash

Next == Step /\ UNCHANGED setting

Spec == Init /\ [][Next]_vars

\* Goroutines are scheduled, their calls end (each has a context with a
\* deadline) and time passes.
LabelFairness == \A e \in Endpoints : WF_state(LabelStep(e)) /\ WF_state(Deadline(e))
FairSpec == Spec /\ LabelFairness

(***************************************************************************)
(* Properties.                                                             *)
(***************************************************************************)

\* Requests, goroutines and Calico's objects have the shapes above.
TypeOK ==
    /\ pool \in [Pools -> Slot(Networks \cup {NoNetwork})]
    /\ profiles \subseteq Pools
    /\ wep \in [Endpoints -> Slot(WepValue)]
    /\ veth \subseteq Endpoints /\ listed \subseteq Endpoints /\ late \subseteq Endpoints
    /\ net \in [Networks -> NetworkRequest]
    /\ req \in [Endpoints -> Request]
    /\ labeller \in [Endpoints -> Labeller]

\* Join and the labeller write the same object from copies they read earlier.
\* Whatever their order, and whichever call fails or times out: as long as the
\* endpoint exists its labels stay, the MAC Join wrote stays, and its profile
\* stays.
NothingIsOverwritten ==
    [][\A e \in Endpoints : Exists(wep[e]) /\ Exists(wep'[e]) =>
         /\ wep[e].val.labels => wep'[e].val.labels
         /\ wep[e].val.mac = "veth" => wep'[e].val.mac = "veth"
         /\ wep[e].val.profile = wep'[e].val.profile]_wep

\* After DeleteEndpoint was answered, the endpoint is gone for good: a labeller
\* that still runs does not write it again.
DeletedStaysDeleted == \A e \in Endpoints : req[e].pc = "deleted" => ~Exists(wep[e])

\* An endpoint never names a profile that does not exist, whichever endpoints of
\* the network are created at the same time.
ProfilesExist ==
    \A e \in Endpoints : Exists(wep[e]) => wep[e].val.profile \in profiles \cup {NoPool}

\* CreateNetwork said the network was created: its pools carry its annotation,
\* unless another network took one (operators edit the pools at the same time).
CreatedNetworkIsAnnotated ==
    \A n \in Networks, p \in Pools :
        net[n].pc = "created" /\ p \in CIDRs[n] => pool[p].val \in Networks /\
          (pool[p].val # n => p \in CIDRs[pool[p].val])

\* Endpoints of one network are created at the same time.  Where no call fails,
\* none of them fails once its pool is found: the one that loses the race for the
\* profile goes on with the other's.
ConcurrentCreatesSucceed ==
    [][Faults = {} => \A e \in Endpoints :
         req[e].pc \in {"profile", "newprofile", "create"} => req'[e].pc # "failed"]_req

\* Every labeller ends, though dockerd may never show the container and updates
\* may fail for ever.
LabellersEnd == \A e \in Endpoints : labeller[e].pc # "none" ~> labeller[e].pc = "done"

\* Calico's objects agree with what the driver has answered to dockerd, whichever
\* requests and goroutines wrote them at the same time.
WepInv == TypeOK /\ DeletedStaysDeleted /\ ProfilesExist /\ CreatedNetworkIsAnnotated

=============================================================================
