--------------------------- MODULE EndpointsProofs ---------------------------
(***************************************************************************)
(* Theorems about the network driver and the Calico objects it writes, for *)
(* every number of networks, pools and endpoints, every configuration and  *)
(* whatever calls fail, time out or are cut off by a crash.                *)
(*                                                                         *)
(* The argument is about copies: Join and the labeller write back an       *)
(* object they read earlier.  A copy is as old as its revision says, and   *)
(* one whose revision is that of the stored object is the stored object.   *)
(* Hence an update that Calico accepts changes what it means to change and *)
(* nothing else.                                                           *)
(***************************************************************************)
EXTENDS WorkloadEndpoint, TLAPS, WellFoundedInduction

Current(copy, slot) ==
    /\ copy.rev <= slot.rev
    /\ copy.rev = slot.rev /\ Exists(slot) => copy.val = slot.val

\* What holds of one endpoint: w is its object, r its request, l its labeller, and
\* profs are the profiles there are.
EndOK(w, r, l, profs) ==
    /\ r.pc \in {"none", "pools", "profile", "newprofile", "create", "deleted"} => ~Exists(w)
    /\ Exists(w) => w.val.profile \in profs \cup {NoPool}
    /\ r.pc = "create" => r.profile \in profs \cup {NoPool}
    /\ r.pc \in {"profile", "newprofile"} => r.profile \in Pools
    /\ r.pc = "update" => Current(r.copy, w)
    /\ l.pc \in {"network", "container", "update"} => Current(l.copy, w)

EndsOK == \A e \in Endpoints : EndOK(wep[e], req[e], labeller[e], profiles)

\* What holds of the networks: the pools CreateNetwork is done with are annotated,
\* with this network or with another that names them.
NetsOK ==
    /\ \A p \in Pools : pool[p].val \in Networks => p \in CIDRs[pool[p].val]
    /\ \A n \in Networks : net[n].pc = "annotate" =>
          \A i \in net[n].todo : PoolList[i] \in CIDRs[n]
    /\ \A n \in Networks : net[n].pc \in {"annotate", "created"} =>
          \A i \in DOMAIN PoolList :
              PoolList[i] \in CIDRs[n] /\ i \notin net[n].todo => pool[PoolList[i]].val \in Networks
    /\ \A n \in Networks : net[n].pc = "created" => net[n].todo = {}

WepIInv == setting \in Settings /\ TypeOK /\ EndsOK /\ NetsOK

\* What an object that exists before and after a step keeps.
Kept(w, x) ==
    Exists(w) /\ Exists(x) =>
         /\ w.val.labels => x.val.labels
         /\ w.val.mac = "veth" => x.val.mac = "veth"
         /\ w.val.profile = x.val.profile

(***************************************************************************)
(* Slots.                                                                  *)
(***************************************************************************)

\* A write gives the object a new revision and the value written.
LEMMA PutFacts ==
  ASSUME NEW V, NEW s \in Slot(V), NEW v \in V
  PROVE  /\ PutSlot(s, v) \in Slot(V) /\ Exists(PutSlot(s, v))
         /\ PutSlot(s, v).rev = s.rev + 1 /\ PutSlot(s, v).val = v
  BY DEF Slot, PutSlot, Exists

\* A deleted object does not exist, and no copy of it is newer.
LEMMA DeleteFacts ==
  ASSUME NEW V, NEW s \in Slot(V), NEW v \in V
  PROVE  /\ DeleteSlot(s, v) \in Slot(V) /\ ~Exists(DeleteSlot(s, v))
         /\ DeleteSlot(s, v).rev >= s.rev
  BY DEF Slot, DeleteSlot, Exists

\* The slot of an object that was never written.
LEMMA EmptySlotFacts ==
  /\ NoWep \in WepValue /\ EmptySlot \in Slot(WepValue) /\ ~Exists(EmptySlot)
  BY DEF NoWep, WepValue, EmptySlot, NoSlot, Slot, Exists

\* An update either leaves the object alone, or found it as the copy has it.
LEMMA UpdateFacts ==
  ASSUME NEW V, NEW s \in Slot(V), NEW copy \in Slot(V), NEW v \in V, NEW o
  PROVE  \/ Updated(o, s, copy, v) = s /\ (UpdateOK(o, s, copy) => FALSE)
         \/ /\ Updated(o, s, copy, v) = PutSlot(s, v)
            /\ Exists(s) /\ s.rev = copy.rev
  BY DEF Updated, UpdateOK, Fresh

\* A write to an object outdates every copy; one that does not know this yet still
\* has a smaller revision.
LEMMA StillCurrent ==
  ASSUME NEW copy \in Slot(WepValue), NEW w \in Slot(WepValue), NEW x \in Slot(WepValue),
         Current(copy, w), x = w \/ x.rev > w.rev \/ (~Exists(x) /\ x.rev >= w.rev)
  PROVE  Current(copy, x)
  BY DEF Current, Slot

\* The copy that was just made is current.
LEMMA OwnCopy ==
  ASSUME NEW w \in Slot(WepValue) PROVE Current(w, w)
  BY DEF Current, Slot

(***************************************************************************)
(* Steps about one endpoint.                                               *)
(***************************************************************************)

\* What a step about endpoint e has to establish.
StepOK(e) ==
    /\ wep' \in [Endpoints -> Slot(WepValue)] /\ req' \in [Endpoints -> Request]
    /\ labeller' \in [Endpoints -> Labeller]
    /\ veth' \subseteq Endpoints /\ listed' \subseteq Endpoints /\ late' \subseteq Endpoints
    /\ \A f \in Endpoints : f # e => wep'[f] = wep[f] /\ req'[f] = req[f] /\ labeller'[f] = labeller[f]
    /\ profiles \subseteq profiles' /\ profiles' \subseteq Pools
    /\ EndOK(wep'[e], req'[e], labeller'[e], profiles')
    /\ Kept(wep[e], wep'[e])
    /\ Faults = {} /\ req[e].pc \in {"profile", "newprofile", "create"} => req'[e].pc # "failed"
    /\ UNCHANGED <<pool, net>>

\* The types of one endpoint's parts.
LEMMA EndpointTypes ==
  ASSUME WepIInv, NEW e \in Endpoints
  PROVE  /\ wep[e] \in Slot(WepValue) /\ req[e] \in Request /\ labeller[e] \in Labeller
         /\ req[e].copy \in Slot(WepValue) /\ labeller[e].copy \in Slot(WepValue)
         /\ wep[e].val \in WepValue /\ req[e].copy.val \in WepValue /\ labeller[e].copy.val \in WepValue
         /\ req[e].profile \in Pools \cup {NoPool}
         /\ EndOK(wep[e], req[e], labeller[e], profiles)
         /\ Kept(wep[e], wep[e])
<1>1. /\ wep[e] \in Slot(WepValue) /\ req[e] \in Request /\ labeller[e] \in Labeller
      /\ EndOK(wep[e], req[e], labeller[e], profiles)
  BY DEF WepIInv, TypeOK, EndsOK
<1>2. /\ req[e].copy \in Slot(WepValue) /\ labeller[e].copy \in Slot(WepValue)
      /\ req[e].profile \in Pools \cup {NoPool}
  BY <1>1 DEF Request, Labeller
<1>3. wep[e].val \in WepValue /\ req[e].copy.val \in WepValue /\ labeller[e].copy.val \in WepValue
  BY <1>1, <1>2 DEF Slot
<1> QED
  BY <1>1, <1>2, <1>3 DEF Kept

\* A request moves on and changes nothing else.
LEMMA RequestMoves ==
  ASSUME WepIInv, NEW e \in Endpoints, NEW r \in Request,
         req' = [req EXCEPT ![e] = r],
         veth' \subseteq Endpoints,
         UNCHANGED <<pool, net, wep, labeller, listed, late>>,
         profiles \subseteq profiles', profiles' \subseteq Pools,
         EndOK(wep[e], r, labeller[e], profiles'),
         Faults = {} /\ req[e].pc \in {"profile", "newprofile", "create"} => r.pc # "failed"
  PROVE  StepOK(e)
<1>1. /\ req' \in [Endpoints -> Request] /\ req'[e] = r
      /\ \A f \in Endpoints : f # e => req'[f] = req[f]
  BY DEF WepIInv, TypeOK
<1>2. Kept(wep[e], wep[e])
  BY EndpointTypes
<1> QED
  BY <1>1, <1>2 DEF StepOK, WepIInv, TypeOK

\* The record of a request with another place in it.
LEMMA AnotherPlace ==
  ASSUME NEW r \in Request, NEW to \in Calls \cup Rests
  PROVE  [r EXCEPT !.pc = to] \in Request
         /\ [r EXCEPT !.pc = to].pc = to /\ [r EXCEPT !.pc = to].copy = r.copy
         /\ [r EXCEPT !.pc = to].profile = r.profile
  BY DEF Request

\* A request that only moves on, to a place where its copy does not matter.
LEMMA RequestGoes ==
  ASSUME WepIInv, NEW e \in Endpoints, NEW to \in Calls \cup Rests, Goto(e, to),
         to # "update", to = "create" => req[e].profile \in profiles',
         to \in {"none", "pools", "profile", "newprofile", "create", "deleted"} => ~Exists(wep[e]),
         to \in {"profile", "newprofile"} => req[e].profile \in Pools,
         veth' \subseteq Endpoints,
         UNCHANGED <<pool, net, wep, labeller, listed, late>>,
         profiles \subseteq profiles', profiles' \subseteq Pools,
         Faults = {} /\ req[e].pc \in {"profile", "newprofile", "create"} => to # "failed"
  PROVE  StepOK(e)
<1> DEFINE r == [req[e] EXCEPT !.pc = to]
<1>1. req[e] \in Request /\ EndOK(wep[e], req[e], labeller[e], profiles)
  BY EndpointTypes
<1>2. r \in Request /\ r.pc = to /\ r.copy = req[e].copy /\ r.profile = req[e].profile
  BY <1>1, AnotherPlace
<1>3. req' = [req EXCEPT ![e] = r]
  BY DEF Goto, WepIInv, TypeOK
<1> HIDE DEF r
<1>4. EndOK(wep[e], r, labeller[e], profiles')
  BY <1>1, <1>2 DEF EndOK
<1> QED
  BY <1>2, <1>3, <1>4, RequestMoves

\* CreateEndpoint and the creation of its profile.
LEMMA CreateSteps ==
  ASSUME WepIInv, NEW e \in Endpoints,
         CreateEndpoint(e) \/ GetProfile(e) \/ CreateProfile(e)
  PROVE  StepOK(e)
<1>0. /\ EndOK(wep[e], req[e], labeller[e], profiles) /\ profiles \subseteq Pools
      /\ veth \subseteq Endpoints
  BY EndpointTypes DEF WepIInv, TypeOK
<1>1. CASE CreateEndpoint(e)
  <2>1. PICK to \in {"pools", "failed"} : Goto(e, to)
    BY <1>1 DEF CreateEndpoint
  <2>2. to \in Calls \cup Rests
    BY <2>1 DEF Calls, Rests
  <2>3. /\ req[e].pc = "none" /\ ~Exists(wep[e])
        /\ UNCHANGED <<pool, net, wep, labeller, listed, late, profiles, veth>>
    BY <1>0, <1>1 DEF CreateEndpoint, calico, EndOK
  <2> QED
    BY <1>0, <2>1, <2>2, <2>3, RequestGoes
<1>2. CASE GetProfile(e)
  <2>1. PICK o \in Outcomes :
           Goto(e, IF o = "ok" /\ req[e].profile \in profiles THEN "create" ELSE "newprofile")
    BY <1>2 DEF GetProfile
  <2>2. /\ req[e].pc = "profile" /\ ~Exists(wep[e]) /\ req[e].profile \in Pools
        /\ UNCHANGED <<pool, net, wep, labeller, listed, late, profiles, veth>>
    BY <1>0, <1>2 DEF GetProfile, calico, EndOK
  <2>3. PICK to \in {"create", "newprofile"} :
           Goto(e, to) /\ (to = "create" => req[e].profile \in profiles)
    BY <2>1
  <2>4. to \in Calls \cup Rests
    BY <2>3 DEF Calls
  <2> QED
    BY <1>0, <2>2, <2>3, <2>4, RequestGoes
<1>3. CASE CreateProfile(e)
  <2>1. PICK o \in Outcomes :
           /\ profiles' = profiles \cup (IF o = "error" THEN {} ELSE {req[e].profile})
           /\ Goto(e, IF ProfileCreated(o, req[e].profile) THEN "create" ELSE "failed")
    BY <1>3 DEF CreateProfile
  <2>2. /\ req[e].pc = "newprofile" /\ ~Exists(wep[e]) /\ req[e].profile \in Pools
        /\ UNCHANGED <<pool, net, wep, labeller, listed, late, veth>>
    BY <1>0, <1>3 DEF CreateProfile, EndOK
  <2>3. PICK to \in {"create", "failed"} :
           /\ Goto(e, to) /\ (to = "create" => o = "ok") /\ (to = "failed" => o # "ok")
    BY <2>1 DEF ProfileCreated
  <2>4. to \in Calls \cup Rests
    BY <2>3 DEF Calls, Rests
  <2>5. Faults = {} => o = "ok"
    BY <2>1 DEF Outcomes
  <2>6. profiles \subseteq profiles' /\ profiles' \subseteq Pools
        /\ (to = "create" => req[e].profile \in profiles')
    BY <1>0, <2>1, <2>2, <2>3
  <2> QED
    BY <1>0, <2>2, <2>3, <2>4, <2>5, <2>6, RequestGoes
<1> QED
  BY <1>1, <1>2, <1>3

\* The positions of a set of pools have a first one.
LEMMA FirstPool ==
  ASSUME NEW T \in SUBSET Nat, T # {}
  PROVE  \E n \in T : \A m \in T : n <= m
<1> DEFINE Before == {ss \in Nat \X Nat : ss[1] < ss[2]}
<1>1. IsWellFoundedOn(Before, Nat)
  BY NatLessThanWellFounded DEF OpToRel
<1> HIDE DEF Before
<1>2. PICK n \in T : \A m \in T : ~(<<m, n>> \in Before)
  BY <1>1, WFMin
<1>3. \A m \in T : n <= m
  <2> SUFFICES ASSUME NEW m \in T PROVE n <= m
    OBVIOUS
  <2>1. ~(<<m, n>> \in Before) /\ m \in Nat /\ n \in Nat
    BY <1>2
  <2> QED
    BY <2>1 DEF Before
<1> QED
  BY <1>3

\* The pool that names the profile is one of the pools.
LEMMA FindPoolStep ==
  ASSUME WepIInv, NEW e \in Endpoints, FindPool(e) PROVE StepOK(e)
<1> DEFINE found == AnnotatedWith(NetworkOf[e])
           first == CHOOSE i \in found : \A j \in found : i <= j
           prof == IF CreateProfiles THEN PoolList[first] ELSE NoPool
           r1 == [req[e] EXCEPT !.pc = "failed"]
           r2 == [req[e] EXCEPT !.pc = IF CreateProfiles THEN "profile" ELSE "create", !.profile = prof]
<1>0. /\ EndOK(wep[e], req[e], labeller[e], profiles) /\ profiles \subseteq Pools
      /\ veth \subseteq Endpoints /\ req[e] \in Request /\ req \in [Endpoints -> Request]
  BY EndpointTypes DEF WepIInv, TypeOK
<1>1. /\ req[e].pc = "pools" /\ ~Exists(wep[e])
      /\ UNCHANGED <<pool, net, wep, labeller, listed, late, profiles, veth>>
  BY <1>0 DEF FindPool, calico, EndOK
<1>2. req' = [req EXCEPT ![e] = r1] \/ (found # {} /\ req' = [req EXCEPT ![e] = r2])
  BY DEF FindPool
<1>3. found # {} => PoolList[first] \in Pools
  <2> SUFFICES ASSUME found # {} PROVE PoolList[first] \in Pools
    OBVIOUS
  <2>1. found \subseteq DOMAIN PoolList /\ DOMAIN PoolList \subseteq Nat
    BY PoolAssumption DEF AnnotatedWith
  <2>2. \E i \in found : \A j \in found : i <= j
    BY <2>1, FirstPool
  <2>3. first \in found
    BY <2>2
  <2> QED
    BY <2>1, <2>3 DEF Pools
<1> HIDE DEF found, first
<1>4. CASE req' = [req EXCEPT ![e] = r1]
  <2>1. r1 \in Request /\ r1.pc = "failed"
    BY <1>0, AnotherPlace DEF Rests
  <2>2. EndOK(wep[e], r1, labeller[e], profiles')
    BY <1>0, <1>1, <2>1 DEF EndOK
  <2> HIDE DEF r1
  <2> QED
    BY <1>0, <1>1, <1>4, <2>1, <2>2, RequestMoves
<1>5. CASE found # {} /\ req' = [req EXCEPT ![e] = r2]
  <2>1. prof \in Pools \cup {NoPool} /\ (CreateProfiles => prof \in Pools) /\ (~CreateProfiles => prof = NoPool)
    BY <1>3, <1>5
  <2> HIDE DEF prof
  <2>2. /\ r2 \in Request /\ r2.profile = prof
        /\ r2.pc = IF CreateProfiles THEN "profile" ELSE "create"
    BY <1>0, <2>1 DEF Request, Calls, Rests
  <2> HIDE DEF r2
  <2>3. EndOK(wep[e], r2, labeller[e], profiles')
    BY <1>0, <1>1, <2>1, <2>2, FeatureAssumption DEF EndOK
  <2> QED
    BY <1>0, <1>1, <1>5, <2>2, <2>3, RequestMoves, FeatureAssumption
<1> QED
  BY <1>2, <1>4, <1>5

\* WorkloadEndpoints().Create: there is no object yet, and the labeller's copy is it.
LEMMA CreateWepStep ==
  ASSUME WepIInv, NEW e \in Endpoints, CreateWep(e) PROVE StepOK(e)
<1> DEFINE v == [NoWep EXCEPT !.profile = req[e].profile]
           slot == PutSlot(wep[e], v)
<1>0. /\ EndOK(wep[e], req[e], labeller[e], profiles) /\ req[e].profile \in Pools \cup {NoPool}
      /\ wep[e] \in Slot(WepValue) /\ req[e] \in Request /\ labeller[e] \in Labeller
      /\ req \in [Endpoints -> Request] /\ wep \in [Endpoints -> Slot(WepValue)]
      /\ labeller \in [Endpoints -> Labeller] /\ profiles \subseteq Pools
  BY EndpointTypes DEF WepIInv, TypeOK
<1>1. v \in WepValue /\ v.profile = req[e].profile
  BY <1>0 DEF NoWep, WepValue
<1> HIDE DEF v
<1>2. /\ slot \in Slot(WepValue) /\ Exists(slot) /\ slot.val = v /\ Current(slot, slot)
  BY <1>0, <1>1, PutFacts, OwnCopy
<1> HIDE DEF slot
<1>3. PICK o \in WriteOutcomes(wep[e]) :
         /\ wep' = [wep EXCEPT ![e] = IF o = "error" THEN @ ELSE slot]
         /\ Goto(e, IF o = "ok" THEN "created" ELSE "failed")
         /\ labeller' = IF o = "ok" /\ setting.labelEndpoints
                        THEN [labeller EXCEPT ![e] = [pc |-> "network", copy |-> slot]]
                        ELSE labeller
  BY DEF CreateWep, slot, v
<1>4. /\ req[e].pc = "create" /\ ~Exists(wep[e]) /\ req[e].profile \in profiles \cup {NoPool}
      /\ UNCHANGED <<pool, net, listed, late, profiles, veth>>
  BY <1>0 DEF CreateWep, EndOK
<1>5. /\ wep' \in [Endpoints -> Slot(WepValue)] /\ wep'[e] \in {wep[e], slot}
      /\ \A f \in Endpoints : f # e => wep'[f] = wep[f]
      /\ o = "ok" => wep'[e] = slot
  BY <1>0, <1>2, <1>3
<1>6. /\ req' \in [Endpoints -> Request] /\ req'[e].pc \in {"created", "failed"}
      /\ o = "ok" => req'[e].pc = "created"
      /\ \A f \in Endpoints : f # e => req'[f] = req[f]
  BY <1>0, <1>3 DEF Goto, Request, Rests
<1>7. /\ labeller' \in [Endpoints -> Labeller]
      /\ \A f \in Endpoints : f # e => labeller'[f] = labeller[f]
      /\ \/ labeller'[e].pc = "network" /\ labeller'[e].copy = slot /\ wep'[e] = slot
         \/ labeller'[e] = labeller[e]
  BY <1>0, <1>2, <1>3, <1>5 DEF Labeller
<1>8. labeller[e].pc \in {"network", "container", "update"} => Current(labeller[e].copy, wep'[e])
  <2>1. slot.rev > wep[e].rev
    BY <1>0, <1>1, PutFacts DEF slot, Slot
  <2>2. labeller[e].copy \in Slot(WepValue)
    BY EndpointTypes
  <2> QED
    BY <1>0, <1>2, <1>5, <2>1, <2>2, StillCurrent DEF EndOK
<1>9. EndOK(wep'[e], req'[e], labeller'[e], profiles')
  BY <1>1, <1>2, <1>4, <1>5, <1>6, <1>7, <1>8 DEF EndOK
<1>10. Kept(wep[e], wep'[e])
  BY <1>4 DEF Kept
<1>11. Faults = {} => o = "ok"
  BY <1>3 DEF WriteOutcomes, Outcomes
<1> QED
  BY <1>0, <1>4, <1>5, <1>6, <1>7, <1>9, <1>10, <1>11 DEF StepOK, WepIInv, TypeOK

\* Join creates the veth pair, Leave removes it.
LEMMA VethSteps ==
  ASSUME WepIInv, NEW e \in Endpoints, Join(e) \/ Leave(e) PROVE StepOK(e)
<1>1. PICK to \in {"get", "unjoined", "left"} : Goto(e, to)
  BY DEF Join, Leave
<1>2. to \in Calls \cup Rests
  BY <1>1 DEF Calls, Rests
<1>3. /\ req[e].pc \in {"created", "joined", "unjoined"} /\ veth' \subseteq Endpoints
      /\ UNCHANGED <<pool, net, wep, labeller, listed, late, profiles>> /\ profiles \subseteq Pools
  BY DEF Join, Leave, calico, WepIInv, TypeOK
<1> QED
  BY <1>1, <1>2, <1>3, RequestGoes

\* The copy Join reads is the object.
LEMMA JoinGetStep ==
  ASSUME WepIInv, NEW e \in Endpoints, JoinGet(e) PROVE StepOK(e)
<1> DEFINE r1 == [req[e] EXCEPT !.pc = "update", !.copy = wep[e]]
           r2 == [req[e] EXCEPT !.pc = "unjoined"]
<1>0. /\ EndOK(wep[e], req[e], labeller[e], profiles) /\ profiles \subseteq Pools
      /\ veth \subseteq Endpoints /\ req[e] \in Request /\ wep[e] \in Slot(WepValue)
  BY EndpointTypes DEF WepIInv, TypeOK
<1>1. /\ req[e].pc = "get" /\ UNCHANGED <<pool, net, wep, labeller, listed, late, profiles, veth>>
      /\ req' = [req EXCEPT ![e] = r1] \/ req' = [req EXCEPT ![e] = r2]
  BY DEF JoinGet, calico
<1>2. r1 \in Request /\ r1.pc = "update" /\ r1.copy = wep[e] /\ r2 \in Request /\ r2.pc = "unjoined"
  BY <1>0 DEF Request, Calls, Rests
<1> HIDE DEF r1, r2
<1>3. EndOK(wep[e], r1, labeller[e], profiles') /\ EndOK(wep[e], r2, labeller[e], profiles')
  BY <1>0, <1>1, <1>2, OwnCopy DEF EndOK
<1> QED
  BY <1>0, <1>1, <1>2, <1>3, RequestMoves

\* An update of the object from a current copy, which sets the MAC or the labels:
\* everything else stays, and the other copy is outdated or still current.
LEMMA WepUpdated ==
  ASSUME WepIInv, NEW e \in Endpoints, NEW copy \in Slot(WepValue), Current(copy, wep[e]),
         NEW v \in WepValue, NEW o,
         v.profile = copy.val.profile,
         copy.val.labels => v.labels, copy.val.mac = "veth" => v.mac = "veth",
         NEW x, x = Updated(o, wep[e], copy, v)
  PROVE  /\ x \in Slot(WepValue) /\ Kept(wep[e], x)
         /\ Exists(x) => Exists(wep[e]) /\ x.val.profile = wep[e].val.profile
         /\ \A c \in Slot(WepValue) : Current(c, wep[e]) => Current(c, x)
<1>0. wep[e] \in Slot(WepValue) /\ wep[e].rev \in Nat
  BY EndpointTypes DEF Slot
<1>1. CASE x = wep[e]
  BY <1>0, <1>1 DEF Kept
<1>2. CASE x = PutSlot(wep[e], v) /\ Exists(wep[e]) /\ wep[e].rev = copy.rev
  <2>1. copy.val = wep[e].val
    BY <1>2 DEF Current
  <2>2. x \in Slot(WepValue) /\ x.rev = wep[e].rev + 1 /\ x.val = v
    BY <1>0, <1>2, PutFacts
  <2>3. \A c \in Slot(WepValue) : Current(c, wep[e]) => Current(c, x)
    BY <1>0, <2>2, StillCurrent
  <2> QED
    BY <1>2, <2>1, <2>2, <2>3 DEF Kept
<1> QED
  BY <1>0, <1>1, <1>2, UpdateFacts

\* Join writes the MAC.
LEMMA JoinUpdateStep ==
  ASSUME WepIInv, NEW e \in Endpoints, JoinUpdate(e) PROVE StepOK(e)
<1> DEFINE copy == req[e].copy
           v == [copy.val EXCEPT !.mac = "veth"]
           x == wep'[e]
<1>0. /\ EndOK(wep[e], req[e], labeller[e], profiles) /\ copy \in Slot(WepValue)
      /\ copy.val \in WepValue
      /\ wep[e] \in Slot(WepValue) /\ req[e] \in Request /\ labeller[e] \in Labeller
      /\ labeller[e].copy \in Slot(WepValue)
      /\ req \in [Endpoints -> Request] /\ wep \in [Endpoints -> Slot(WepValue)]
      /\ labeller \in [Endpoints -> Labeller] /\ profiles \subseteq Pools
  BY EndpointTypes DEF WepIInv, TypeOK
<1>1. /\ v \in WepValue /\ v.profile = copy.val.profile /\ (copy.val.labels => v.labels)
      /\ v.mac = "veth"
  BY <1>0 DEF WepValue
<1> HIDE DEF v
<1>2. /\ req[e].pc = "update" /\ Current(copy, wep[e])
      /\ UNCHANGED <<pool, net, listed, late, profiles, veth, labeller>>
  BY <1>0 DEF JoinUpdate, EndOK
<1>3. PICK o \in WriteOutcomes(wep[e]) :
         /\ wep' = [wep EXCEPT ![e] = Updated(o, wep[e], copy, v)]
         /\ req' = [req EXCEPT ![e].pc = IF UpdateOK(o, wep[e], copy) THEN "joined" ELSE "unjoined",
                               ![e].copy = EmptySlot]
  BY DEF JoinUpdate, v
<1>4. x = Updated(o, wep[e], copy, v) /\ \A f \in Endpoints : f # e => wep'[f] = wep[f]
  BY <1>0, <1>3
<1>5. /\ x \in Slot(WepValue) /\ Kept(wep[e], x)
      /\ Exists(x) => Exists(wep[e]) /\ x.val.profile = wep[e].val.profile
      /\ \A c \in Slot(WepValue) : Current(c, wep[e]) => Current(c, x)
  BY <1>0, <1>1, <1>2, <1>4, WepUpdated
<1>6. wep' \in [Endpoints -> Slot(WepValue)]
  BY <1>0, <1>3, <1>4, <1>5
<1>7. /\ req' \in [Endpoints -> Request] /\ req'[e].pc \in {"joined", "unjoined"}
      /\ \A f \in Endpoints : f # e => req'[f] = req[f]
  BY <1>0, <1>3, EmptySlotFacts DEF Request, Rests
<1> HIDE DEF x
<1>8. EndOK(x, req'[e], labeller[e], profiles)
  BY <1>0, <1>5, <1>7 DEF EndOK
<1> QED
  BY <1>0, <1>2, <1>4, <1>5, <1>6, <1>7, <1>8 DEF StepOK, WepIInv, TypeOK, x

\* DeleteEndpoint: a deleted object has no current copy that could be written.
LEMMA DeleteStep ==
  ASSUME WepIInv, NEW e \in Endpoints, DeleteEndpoint(e) PROVE StepOK(e)
<1> DEFINE gone == DeleteSlot(wep[e], NoWep)
<1>0. /\ EndOK(wep[e], req[e], labeller[e], profiles)
      /\ wep[e] \in Slot(WepValue) /\ req[e] \in Request /\ labeller[e] \in Labeller
      /\ labeller[e].copy \in Slot(WepValue)
      /\ req \in [Endpoints -> Request] /\ wep \in [Endpoints -> Slot(WepValue)]
      /\ labeller \in [Endpoints -> Labeller] /\ profiles \subseteq Pools
  BY EndpointTypes DEF WepIInv, TypeOK
<1>1. gone \in Slot(WepValue) /\ ~Exists(gone) /\ gone.rev >= wep[e].rev
  BY <1>0, EmptySlotFacts, DeleteFacts
<1> HIDE DEF gone
<1>2. PICK o \in WriteOutcomes(wep[e]) :
         /\ wep' = [wep EXCEPT ![e] = IF o = "error" THEN @ ELSE gone]
         /\ Goto(e, IF o = "ok" /\ Exists(wep[e]) THEN "deleted" ELSE req[e].pc)
  BY DEF DeleteEndpoint, gone
<1>3. /\ req[e].pc \in {"created", "unjoined", "left"}
      /\ UNCHANGED <<pool, net, listed, late, profiles, veth, labeller>>
  BY DEF DeleteEndpoint
<1>4. /\ wep' \in [Endpoints -> Slot(WepValue)] /\ wep'[e] \in {wep[e], gone}
      /\ o # "error" => wep'[e] = gone
      /\ \A f \in Endpoints : f # e => wep'[f] = wep[f]
  BY <1>0, <1>1, <1>2
<1>5. /\ req' \in [Endpoints -> Request]
      /\ req'[e].pc \in {"created", "unjoined", "left"} \/ (req'[e].pc = "deleted" /\ o = "ok")
      /\ \A f \in Endpoints : f # e => req'[f] = req[f]
  BY <1>0, <1>2, <1>3 DEF Goto, Request, Rests
<1>6. labeller[e].pc \in {"network", "container", "update"} => Current(labeller[e].copy, wep'[e])
  BY <1>0, <1>1, <1>4, StillCurrent DEF EndOK
<1>7. EndOK(wep'[e], req'[e], labeller[e], profiles)
  BY <1>0, <1>1, <1>4, <1>5, <1>6 DEF EndOK
<1>8. Kept(wep[e], wep'[e])
  BY <1>1, <1>4 DEF Kept
<1> QED
  BY <1>0, <1>3, <1>4, <1>5, <1>7, <1>8 DEF StepOK, WepIInv, TypeOK

\* A labeller that moves on, or ends.
LEMMA LabellerMoves ==
  ASSUME WepIInv, NEW e \in Endpoints, NEW l \in Labeller,
         labeller' = [labeller EXCEPT ![e] = l],
         l.pc \in {"network", "container", "update"} => Current(l.copy, wep[e]),
         UNCHANGED <<calico, veth, net, req, listed, late>>
  PROVE  StepOK(e)
<1>0. EndOK(wep[e], req[e], labeller[e], profiles) /\ Kept(wep[e], wep[e])
  BY EndpointTypes
<1>1. /\ labeller' \in [Endpoints -> Labeller] /\ labeller'[e] = l
      /\ \A f \in Endpoints : f # e => labeller'[f] = labeller[f]
  BY DEF WepIInv, TypeOK
<1>2. EndOK(wep[e], req[e], l, profiles)
  BY <1>0 DEF EndOK
<1> QED
  BY <1>0, <1>1, <1>2 DEF StepOK, calico, WepIInv, TypeOK

\* The steps of the labeller that write nothing.
LEMMA LabelLooks ==
  ASSUME WepIInv, NEW e \in Endpoints,
         LabelTimeout(e) \/ InspectNetwork(e) \/ InspectContainer(e) \/ GetEndpoint(e)
  PROVE  StepOK(e)
<1> DEFINE ended == [pc |-> "done", copy |-> EmptySlot]
<1>0. /\ EndOK(wep[e], req[e], labeller[e], profiles) /\ labeller[e] \in Labeller
      /\ wep[e] \in Slot(WepValue) /\ labeller \in [Endpoints -> Labeller]
      /\ Kept(wep[e], wep[e])
  BY EndpointTypes DEF WepIInv, TypeOK
<1>1. UNCHANGED <<calico, veth, net, req, listed, late>>
  BY DEF LabelTimeout, InspectNetwork, InspectContainer, GetEndpoint
<1>2. ended \in Labeller /\ ended.pc = "done"
  BY EmptySlotFacts DEF Labeller
<1>3. CASE LabelDone(e)
  <2>1. labeller' = [labeller EXCEPT ![e] = ended]
    BY <1>3 DEF LabelDone
  <2> QED
    BY <1>1, <1>2, <2>1, LabellerMoves
<1>4. CASE labeller[e].pc = "get" /\ Reread(e)
  <2> DEFINE l == [labeller[e] EXCEPT !.pc = "update", !.copy = wep[e]]
  <2>1. l \in Labeller /\ l.copy = wep[e]
    BY <1>0 DEF Labeller
  <2>2. labeller' = [labeller EXCEPT ![e] = l]
    BY <1>0, <1>4 DEF Reread
  <2> HIDE DEF l
  <2> QED
    BY <1>0, <1>1, <2>1, <2>2, OwnCopy, LabellerMoves
<1>5. CASE \E to \in {"network", "container", "update"} :
              labeller[e].pc \in {"network", "container"} /\ LabelGoto(e, to)
  <2>1. PICK to \in {"network", "container", "update"} :
              labeller[e].pc \in {"network", "container"} /\ LabelGoto(e, to)
    BY <1>5
  <2> DEFINE l == [labeller[e] EXCEPT !.pc = to]
  <2>2. l \in Labeller /\ l.copy = labeller[e].copy
    BY <1>0 DEF Labeller
  <2>3. labeller' = [labeller EXCEPT ![e] = l]
    BY <1>0, <2>1 DEF LabelGoto
  <2>4. Current(l.copy, wep[e])
    BY <1>0, <2>1, <2>2 DEF EndOK
  <2> HIDE DEF l
  <2> QED
    BY <1>1, <2>2, <2>3, <2>4, LabellerMoves
<1>6. CASE UNCHANGED labeller
  BY <1>0, <1>1, <1>6 DEF StepOK, calico, WepIInv, TypeOK
<1> QED
  BY <1>3, <1>4, <1>5, <1>6 DEF LabelTimeout, InspectNetwork, InspectContainer, GetEndpoint

\* The labeller writes the labels.
LEMMA UpdateLabelsStep ==
  ASSUME WepIInv, NEW e \in Endpoints, UpdateLabels(e) PROVE StepOK(e)
<1> DEFINE copy == labeller[e].copy
           v == [copy.val EXCEPT !.labels = TRUE]
           x == wep'[e]
<1>0. /\ EndOK(wep[e], req[e], labeller[e], profiles) /\ copy \in Slot(WepValue)
      /\ copy.val \in WepValue
      /\ wep[e] \in Slot(WepValue) /\ req[e] \in Request /\ labeller[e] \in Labeller
      /\ req[e].copy \in Slot(WepValue)
      /\ req \in [Endpoints -> Request] /\ wep \in [Endpoints -> Slot(WepValue)]
      /\ labeller \in [Endpoints -> Labeller] /\ profiles \subseteq Pools
  BY EndpointTypes DEF WepIInv, TypeOK
<1>1. /\ v \in WepValue /\ v.profile = copy.val.profile /\ v.labels
      /\ (copy.val.mac = "veth" => v.mac = "veth")
  BY <1>0 DEF WepValue
<1> HIDE DEF v
<1>2. /\ labeller[e].pc = "update" /\ Current(copy, wep[e])
      /\ UNCHANGED <<pool, net, listed, late, profiles, veth, req>>
  BY <1>0 DEF UpdateLabels, EndOK
<1>3. PICK o \in WriteOutcomes(wep[e]) :
         /\ wep' = [wep EXCEPT ![e] = Updated(o, wep[e], copy, v)]
         /\ IF UpdateOK(o, wep[e], copy) THEN LabelDone(e) ELSE LabelGoto(e, "get")
  BY DEF UpdateLabels, v
<1>4. x = Updated(o, wep[e], copy, v) /\ \A f \in Endpoints : f # e => wep'[f] = wep[f]
  BY <1>0, <1>3
<1>5. /\ x \in Slot(WepValue) /\ Kept(wep[e], x)
      /\ Exists(x) => Exists(wep[e]) /\ x.val.profile = wep[e].val.profile
      /\ \A c \in Slot(WepValue) : Current(c, wep[e]) => Current(c, x)
  BY <1>0, <1>1, <1>2, <1>4, WepUpdated
<1>6. wep' \in [Endpoints -> Slot(WepValue)]
  BY <1>0, <1>3, <1>4, <1>5
<1>7. /\ labeller' \in [Endpoints -> Labeller] /\ labeller'[e].pc \in {"done", "get"}
      /\ \A f \in Endpoints : f # e => labeller'[f] = labeller[f]
  BY <1>0, <1>3, EmptySlotFacts DEF Labeller, LabelDone, LabelGoto
<1> HIDE DEF x
<1>8. EndOK(x, req[e], labeller'[e], profiles)
  BY <1>0, <1>5, <1>7 DEF EndOK
<1> QED
  BY <1>0, <1>2, <1>4, <1>5, <1>6, <1>7, <1>8 DEF StepOK, WepIInv, TypeOK, x

\* What dockerd shows, and the deadline.
LEMMA OtherSteps ==
  ASSUME WepIInv, NEW e \in Endpoints, DockerLists(e) \/ DockerForgets(e) \/ Deadline(e)
  PROVE  StepOK(e)
  BY EndpointTypes DEF DockerLists, DockerForgets, Deadline, StepOK, calico, WepIInv, TypeOK

\* Every step about one endpoint.
LEMMA EndpointSteps ==
  ASSUME WepIInv, NEW e \in Endpoints,
         RequestStep(e) \/ LabelStep(e) \/ Deadline(e) \/ DockerLists(e) \/ DockerForgets(e)
  PROVE  StepOK(e)
  BY CreateSteps, FindPoolStep, CreateWepStep, VethSteps, JoinGetStep, JoinUpdateStep, DeleteStep,
     LabelLooks, UpdateLabelsStep, OtherSteps DEF RequestStep, LabelStep

(***************************************************************************)
(* The whole invariant.                                                    *)
(***************************************************************************)

\* It holds before anything was created.
LEMMA WepInitHolds == Init => WepIInv
<1> SUFFICES ASSUME Init PROVE WepIInv
  OBVIOUS
<1>1. NoSlot(NoNetwork) \in Slot(Networks \cup {NoNetwork})
  BY DEF NoSlot, Slot
<1>2. /\ PutSlot(NoSlot(NoNetwork), NoNetwork) \in Slot(Networks \cup {NoNetwork})
      /\ PutSlot(NoSlot(NoNetwork), NoNetwork).val = NoNetwork
  BY <1>1, PutFacts
<1>3. /\ pool \in [Pools -> Slot(Networks \cup {NoNetwork})]
      /\ \A p \in Pools : pool[p].val = NoNetwork
  BY <1>2 DEF Init
<1>4. /\ net \in [Networks -> NetworkRequest] /\ \A n \in Networks : net[n].pc = "none"
  BY <1>1 DEF Init, NetworkRequest
<1>5. /\ req \in [Endpoints -> Request] /\ labeller \in [Endpoints -> Labeller]
      /\ wep \in [Endpoints -> Slot(WepValue)]
      /\ \A e \in Endpoints : req[e].pc = "none" /\ labeller[e].pc = "none" /\ ~Exists(wep[e])
  BY EmptySlotFacts DEF Init, Request, Labeller, Rests
<1>6. TypeOK
  BY <1>3, <1>4, <1>5 DEF Init, TypeOK
<1>7. EndsOK
  BY <1>5 DEF EndsOK, EndOK
<1>8. NetsOK
  BY <1>3, <1>4, PoolAssumption DEF NetsOK
<1> QED
  BY <1>6, <1>7, <1>8 DEF Init, WepIInv

\* A step about one endpoint keeps it.
LEMMA StepKeeps ==
  ASSUME WepIInv, UNCHANGED setting, NEW e \in Endpoints, StepOK(e) PROVE WepIInv'
<1>1. TypeOK'
  BY DEF StepOK, WepIInv, TypeOK
<1>2. EndsOK'
  <2> SUFFICES ASSUME NEW f \in Endpoints
               PROVE  EndOK(wep'[f], req'[f], labeller'[f], profiles')
    BY DEF EndsOK
  <2>1. CASE f = e
    BY <2>1 DEF StepOK
  <2>2. CASE f # e
    <3>1. wep'[f] = wep[f] /\ req'[f] = req[f] /\ labeller'[f] = labeller[f]
      BY <2>2 DEF StepOK
    <3>2. EndOK(wep[f], req[f], labeller[f], profiles) /\ profiles \subseteq profiles'
      BY DEF WepIInv, EndsOK, StepOK
    <3>3. EndOK(wep[f], req[f], labeller[f], profiles')
      BY <3>2 DEF EndOK
    <3> QED
      BY <3>1, <3>3
  <2> QED
    BY <2>1, <2>2
<1>3. NetsOK'
  BY DEF StepOK, WepIInv, NetsOK, CIDRs
<1> QED
  BY <1>1, <1>2, <1>3 DEF WepIInv

\* The types of the parts of one network.
LEMMA NetworkTypes ==
  ASSUME WepIInv, NEW n \in Networks
  PROVE  /\ net[n] \in NetworkRequest /\ net \in [Networks -> NetworkRequest]
         /\ net[n].todo \subseteq DOMAIN PoolList
         /\ net[n].copy \in [Pools -> Slot(Networks \cup {NoNetwork})]
         /\ pool \in [Pools -> Slot(Networks \cup {NoNetwork})]
         /\ CIDRs \in [Networks -> SUBSET Pools]
         /\ \A i \in DOMAIN PoolList : PoolList[i] \in Pools
<1>1. net[n] \in NetworkRequest
  BY DEF WepIInv, TypeOK
<1>2. CIDRs \in [Networks -> SUBSET Pools]
  BY SettingAssumption DEF WepIInv, Setting, CIDRs
<1> QED
  BY <1>1, <1>2 DEF WepIInv, TypeOK, NetworkRequest, Pools

\* A request that failed has nothing left to do.
LEMMA FailedFacts ==
  ASSUME WepIInv, NEW n \in Networks
  PROVE  NetworkFailed(n) \in NetworkRequest /\ NetworkFailed(n).pc = "failed"
  BY NetworkTypes DEF NetworkFailed, NetworkRequest

\* What populatePoolLabel goes on with.
LEMMA AnnotatingFacts ==
  ASSUME NEW todo \in SUBSET DOMAIN PoolList, NEW copy \in [Pools -> Slot(Networks \cup {NoNetwork})]
  PROVE  /\ Annotating(todo, copy) \in NetworkRequest /\ Annotating(todo, copy).todo = todo
         /\ Annotating(todo, copy).pc \in {"annotate", "created"}
         /\ Annotating(todo, copy).pc = "created" => todo = {}
  BY DEF Annotating, NetworkRequest

\* The parts of the invariant that are about endpoints do not depend on networks.
LEMMA NetworksOnly ==
  ASSUME WepIInv, UNCHANGED <<setting, profiles, wep, veth, req, listed, labeller, late>>,
         pool' \in [Pools -> Slot(Networks \cup {NoNetwork})],
         net' \in [Networks -> NetworkRequest], NetsOK'
  PROVE  WepIInv'
<1>1. TypeOK'
  BY DEF WepIInv, TypeOK
<1>2. EndsOK'
  BY DEF WepIInv, EndsOK
<1> QED
  BY <1>1, <1>2 DEF WepIInv

\* A network request that is started, refused or fails.
LEMMA NetworkMoves ==
  ASSUME WepIInv, NEW n \in Networks, NEW r \in NetworkRequest,
         net' = [net EXCEPT ![n] = r], r.pc \in {"list", "failed"},
         UNCHANGED <<setting, calico, veth, req, listed, labeller, late>>
  PROVE  WepIInv'
<1>1. /\ net' \in [Networks -> NetworkRequest] /\ net'[n] = r
      /\ \A m \in Networks : m # n => net'[m] = net[m]
  BY NetworkTypes
<1>2. CIDRs' = CIDRs /\ UNCHANGED pool
  BY DEF CIDRs, calico
<1>3. NetsOK'
  BY <1>1, <1>2 DEF NetsOK, WepIInv
<1>4. pool' \in [Pools -> Slot(Networks \cup {NoNetwork})]
  BY <1>2 DEF WepIInv, TypeOK
<1> QED
  BY <1>1, <1>3, <1>4, NetworksOnly DEF calico

\* CreateNetwork and the list of pools.
LEMMA NetworkStarts ==
  ASSUME WepIInv, NEW n \in Networks, CreateNetwork(n) \/ ListPools(n), UNCHANGED setting
  PROVE  WepIInv'
<1>0. UNCHANGED <<setting, calico, veth, req, listed, labeller, late>>
  BY DEF CreateNetwork, ListPools
<1>1. CASE CreateNetwork(n)
  <2>1. PICK to \in {"list", "failed"} : net' = [net EXCEPT ![n].pc = to]
    BY <1>1 DEF CreateNetwork
  <2> DEFINE r == [net[n] EXCEPT !.pc = to]
  <2>2. r \in NetworkRequest /\ r.pc \in {"list", "failed"} /\ net' = [net EXCEPT ![n] = r]
    BY <2>1, NetworkTypes DEF NetworkRequest
  <2> HIDE DEF r
  <2> QED
    BY <1>0, <2>2, NetworkMoves
<1>2. CASE ListPools(n)
  <2> DEFINE requested == {i \in DOMAIN PoolList : PoolList[i] \in CIDRs[n]}
             r == Annotating(requested, pool)
  <2>1. net' = [net EXCEPT ![n] = NetworkFailed(n)] \/ net' = [net EXCEPT ![n] = r]
    BY <1>2 DEF ListPools
  <2>2. CASE net' = [net EXCEPT ![n] = NetworkFailed(n)]
    BY <1>0, <2>2, FailedFacts, NetworkMoves
  <2>3. CASE net' = [net EXCEPT ![n] = r]
    <3>1. /\ r \in NetworkRequest /\ r.todo = requested
          /\ r.pc \in {"annotate", "created"} /\ (r.pc = "created" => requested = {})
      BY NetworkTypes, AnnotatingFacts
    <3> HIDE DEF r
    <3>2. /\ net' \in [Networks -> NetworkRequest] /\ net'[n] = r
          /\ \A m \in Networks : m # n => net'[m] = net[m]
      BY <2>3, <3>1, NetworkTypes
    <3>3. CIDRs' = CIDRs /\ UNCHANGED pool
      BY <1>0 DEF CIDRs, calico
    <3>4. NetsOK'
      BY <3>1, <3>2, <3>3 DEF NetsOK, WepIInv
    <3>5. pool' \in [Pools -> Slot(Networks \cup {NoNetwork})]
      BY <3>3 DEF WepIInv, TypeOK
    <3> QED
      BY <1>0, <3>2, <3>4, <3>5, NetworksOnly DEF calico
  <2> QED
    BY <2>1, <2>2, <2>3
<1> QED
  BY <1>1, <1>2

\* One pool is annotated.
LEMMA NetworkAnnotates ==
  ASSUME WepIInv, NEW n \in Networks, AnnotatePool(n), UNCHANGED setting
  PROVE  WepIInv'
<1>0. /\ net[n].pc = "annotate"
      /\ UNCHANGED <<setting, profiles, wep, veth, req, listed, labeller, late>>
  BY DEF AnnotatePool
<1>1. PICK i \in net[n].todo, o \in Outcomes :
         /\ pool' = [pool EXCEPT ![PoolList[i]] =
                       Updated(o, pool[PoolList[i]], net[n].copy[PoolList[i]], n)]
         /\ net' = [net EXCEPT ![n] =
                      NextPool(n, i, UpdateOK(o, pool[PoolList[i]], net[n].copy[PoolList[i]]))]
  BY DEF AnnotatePool
<1> DEFINE p == PoolList[i]
           copy == net[n].copy[p]
           s == Updated(o, pool[p], copy, n)
           r == NextPool(n, i, UpdateOK(o, pool[p], copy))
<1>2. /\ net[n].todo \subseteq DOMAIN PoolList /\ i \in DOMAIN PoolList /\ p \in Pools
      /\ copy \in Slot(Networks \cup {NoNetwork}) /\ pool[p] \in Slot(Networks \cup {NoNetwork})
      /\ p \in CIDRs[n] /\ net[n].copy \in [Pools -> Slot(Networks \cup {NoNetwork})]
      /\ pool \in [Pools -> Slot(Networks \cup {NoNetwork})]
      /\ \A j \in DOMAIN PoolList : PoolList[j] \in Pools
  BY <1>0, NetworkTypes DEF WepIInv, NetsOK
<1>3. \/ s = pool[p] /\ ~UpdateOK(o, pool[p], copy)
      \/ s = PutSlot(pool[p], n)
  BY <1>2, UpdateFacts
<1>4. s \in Slot(Networks \cup {NoNetwork}) /\ (s = pool[p] \/ s.val = n)
  BY <1>2, <1>3, PutFacts
<1>5. UpdateOK(o, pool[p], copy) => s.val = n
  BY <1>2, <1>3, PutFacts
<1>6. /\ r \in NetworkRequest
      /\ \/ r.pc = "failed"
         \/ /\ r.pc \in {"annotate", "created"} /\ r.todo = net[n].todo \ {i}
            /\ r.pc = "created" => r.todo = {}
            /\ s.val = n
  <2>1. CASE UpdateOK(o, pool[p], copy)
    <3> DEFINE rest == net[n].todo \ {i}
               copies == net[n].copy
    <3>1. r = Annotating(rest, copies)
      BY <2>1 DEF NextPool
    <3>2. rest \in SUBSET DOMAIN PoolList /\ copies \in [Pools -> Slot(Networks \cup {NoNetwork})]
      BY <1>2
    <3> HIDE DEF r, s, copies
    <3>3. /\ r \in NetworkRequest /\ r.todo = rest
          /\ r.pc \in {"annotate", "created"}
          /\ r.pc = "created" => rest = {}
      <4> HIDE DEF rest
      <4> QED
        BY <3>1, <3>2, AnnotatingFacts
    <3> QED
      BY <1>5, <2>1, <3>3
  <2>2. CASE ~UpdateOK(o, pool[p], copy)
    BY <2>2, FailedFacts DEF NextPool
  <2> QED
    BY <2>1, <2>2
<1> HIDE DEF r, s
<1>7. /\ pool' \in [Pools -> Slot(Networks \cup {NoNetwork})] /\ pool'[p] = s
      /\ \A q \in Pools : q # p => pool'[q] = pool[q]
  BY <1>1, <1>2, <1>4 DEF s
<1>8. /\ net' \in [Networks -> NetworkRequest] /\ net'[n] = r
      /\ \A m \in Networks : m # n => net'[m] = net[m]
  BY <1>1, <1>6, NetworkTypes DEF r
<1>9. CIDRs' = CIDRs
  BY <1>0 DEF CIDRs
<1>10. /\ \A q \in Pools : pool'[q].val \in Networks => q \in CIDRs[pool'[q].val]
       /\ \A q \in Pools : pool[q].val \in Networks => pool'[q].val \in Networks
  BY <1>2, <1>4, <1>7 DEF WepIInv, NetsOK
<1>11. NetsOK'
  <2>1. ASSUME NEW m \in Networks
        PROVE  /\ net'[m].pc = "annotate" => \A j \in net'[m].todo : PoolList[j] \in CIDRs[m]
               /\ net'[m].pc \in {"annotate", "created"} =>
                    \A j \in DOMAIN PoolList :
                       PoolList[j] \in CIDRs[m] /\ j \notin net'[m].todo => pool'[PoolList[j]].val \in Networks
               /\ net'[m].pc = "created" => net'[m].todo = {}
    <3>1. CASE m # n
      BY <1>2, <1>8, <1>10, <2>1, <3>1 DEF WepIInv, NetsOK
    <3>2. CASE m = n /\ r.pc = "failed"
      BY <1>8, <3>2
    <3>3. CASE /\ m = n /\ r.pc \in {"annotate", "created"} /\ r.todo = net[n].todo \ {i}
               /\ r.pc = "created" => r.todo = {}
               /\ s.val = n
      BY <1>0, <1>2, <1>7, <1>8, <1>10, <3>3 DEF WepIInv, NetsOK
    <3> QED
      BY <1>6, <3>1, <3>2, <3>3
  <2> QED
    BY <1>9, <1>10, <2>1 DEF NetsOK
<1> QED
  BY <1>0, <1>7, <1>8, <1>11, NetworksOnly

\* An operator's edit leaves the annotation alone.
LEMMA PoolEdited ==
  ASSUME WepIInv, NEW p \in Pools, EditPool(p), UNCHANGED setting PROVE WepIInv'
<1>1. /\ pool' = [pool EXCEPT ![p] = PutSlot(pool[p], pool[p].val)]
      /\ UNCHANGED <<setting, profiles, wep, veth, net, req, listed, labeller, late>>
      /\ pool \in [Pools -> Slot(Networks \cup {NoNetwork})]
      /\ net \in [Networks -> NetworkRequest]
  BY DEF EditPool, WepIInv, TypeOK
<1>2. pool[p] \in Slot(Networks \cup {NoNetwork}) /\ pool[p].val \in Networks \cup {NoNetwork}
  BY <1>1 DEF Slot
<1>3. /\ PutSlot(pool[p], pool[p].val) \in Slot(Networks \cup {NoNetwork})
      /\ PutSlot(pool[p], pool[p].val).val = pool[p].val
  BY <1>2, PutFacts
<1>4. /\ pool' \in [Pools -> Slot(Networks \cup {NoNetwork})]
      /\ \A q \in Pools : pool'[q].val = pool[q].val
  BY <1>1, <1>3
<1>5. NetsOK'
  <2>1. CIDRs' = CIDRs /\ net' = net /\ \A i \in DOMAIN PoolList : PoolList[i] \in Pools
    BY <1>1 DEF CIDRs, Pools
  <2> QED
    BY <1>4, <2>1 DEF NetsOK, WepIInv
<1> QED
  BY <1>1, <1>4, <1>5, NetworksOnly

\* A crash of the plugin leaves no copy behind.
LEMMA CrashKeeps ==
  ASSUME WepIInv, Crash, UNCHANGED setting PROVE WepIInv'
<1>0. UNCHANGED <<setting, pool, profiles, wep, veth, listed, late>>
  BY DEF Crash, calico
<1>1. /\ req' \in [Endpoints -> Request]
      /\ \A e \in Endpoints : req'[e].pc = Interrupted(req[e].pc)
  <2>1. \A e \in Endpoints : req[e] \in Request
    BY DEF WepIInv, TypeOK
  <2>2. \A e \in Endpoints : Interrupted(req[e].pc) \in Calls \cup Rests
    BY <2>1 DEF Request, Interrupted, Calls, Rests
  <2> QED
    BY <2>1, <2>2, EmptySlotFacts DEF Crash, Request
<1>2. /\ labeller' \in [Endpoints -> Labeller]
      /\ \A e \in Endpoints : labeller'[e].pc \in {"none", "done"}
  BY EmptySlotFacts DEF Crash, Labeller, WepIInv, TypeOK
<1>3. /\ net' \in [Networks -> NetworkRequest]
      /\ \A n \in Networks : net'[n] = net[n] \/ net'[n].pc = "failed"
  BY FailedFacts DEF Crash, WepIInv, TypeOK
<1>4. TypeOK'
  BY <1>0, <1>1, <1>2, <1>3 DEF WepIInv, TypeOK
<1>5. EndsOK'
  <2> SUFFICES ASSUME NEW e \in Endpoints
               PROVE  EndOK(wep[e], req'[e], labeller'[e], profiles)
    BY <1>0 DEF EndsOK
  <2>1. EndOK(wep[e], req[e], labeller[e], profiles) /\ req[e].pc \in Calls \cup Rests
    BY EndpointTypes DEF Request
  <2>2. /\ req'[e].pc \notin {"pools", "profile", "newprofile", "create", "update"}
        /\ req'[e].pc \in {"none", "deleted"} => req[e].pc = req'[e].pc
    BY <1>1, <2>1 DEF Interrupted, Calls, Rests
  <2> QED
    BY <1>2, <2>1, <2>2 DEF EndOK
<1>6. NetsOK'
  BY <1>0, <1>3 DEF NetsOK, WepIInv, CIDRs
<1> QED
  BY <1>0, <1>4, <1>5, <1>6 DEF WepIInv

\* Every step keeps the invariant.
LEMMA WepStep ==
  ASSUME WepIInv, [Next]_vars PROVE WepIInv'
<1>1. CASE UNCHANGED vars
  BY <1>1 DEF vars, state, WepIInv, TypeOK, EndsOK, NetsOK, CIDRs
<1>2. CASE Next
  BY <1>2, EndpointSteps, StepKeeps, NetworkStarts, NetworkAnnotates, PoolEdited, CrashKeeps
  DEF Next, Step, NetworkStep
<1> QED
  BY <1>1, <1>2

\* The invariant holds in every state.
LEMMA WepAlways == Spec => []WepIInv
<1>1. WepIInv /\ [Next]_vars => WepIInv'
  BY WepStep
<1> QED
  BY WepInitHolds, <1>1, PTL DEF Spec

\* WepInv, of CreateNetwork, CreateEndpoint, Join, DeleteEndpoint and the labeller:
\* an endpoint that was deleted stays deleted, none names a profile that does not
\* exist, and the pools of a network that was created are annotated.
THEOREM WepIsSound == Spec => []WepInv
<1>1. WepIInv => WepInv
  <2> SUFFICES ASSUME WepIInv PROVE WepInv
    OBVIOUS
  <2>1. DeletedStaysDeleted /\ ProfilesExist
    BY DEF WepIInv, EndsOK, EndOK, DeletedStaysDeleted, ProfilesExist
  <2>2. CreatedNetworkIsAnnotated
    <3> SUFFICES ASSUME NEW n \in Networks, NEW p \in Pools, net[n].pc = "created", p \in CIDRs[n]
                 PROVE  pool[p].val \in Networks /\ (pool[p].val # n => p \in CIDRs[pool[p].val])
      BY DEF CreatedNetworkIsAnnotated
    <3>1. PICK i \in DOMAIN PoolList : p = PoolList[i]
      BY DEF Pools
    <3> QED
      BY <3>1 DEF WepIInv, NetsOK
  <2> QED
    BY <2>1, <2>2 DEF WepIInv, WepInv
<1> QED
  BY WepAlways, <1>1, PTL

\* NothingIsOverwritten, of Join and populateWorkloadEndpointWithLabels: whatever the
\* order of their calls, and whichever of them fail or are answered too late, the
\* labels, the MAC and the profile of an object are kept while it exists.
THEOREM NothingOverwritten == Spec => NothingIsOverwritten
<1>1. ASSUME WepIInv, [Next]_vars
      PROVE  [\A e \in Endpoints : Exists(wep[e]) /\ Exists(wep'[e]) =>
                 /\ wep[e].val.labels => wep'[e].val.labels
                 /\ wep[e].val.mac = "veth" => wep'[e].val.mac = "veth"
                 /\ wep[e].val.profile = wep'[e].val.profile]_wep
  <2> SUFFICES ASSUME wep' # wep, NEW e \in Endpoints PROVE Kept(wep[e], wep'[e])
    BY DEF Kept
  <2>1. PICK f \in Endpoints : StepOK(f)
    BY <1>1, EndpointSteps
    DEF Next, Step, NetworkStep, vars, state, CreateNetwork, ListPools, AnnotatePool, EditPool, Crash, calico
  <2>2. CASE e = f
    BY <2>1, <2>2 DEF StepOK
  <2>3. CASE e # f
    BY <2>1, <2>3 DEF StepOK, Kept
  <2> QED
    BY <2>2, <2>3
<1> QED
  BY WepAlways, <1>1, PTL DEF Spec, NothingIsOverwritten

\* ConcurrentCreatesSucceed, of createEndpointProfile and CreateEndpoint: where no
\* call fails, an endpoint whose pool was found does not fail, also when another
\* one has created the profile in the meantime.
THEOREM CreatesSucceed == Spec => ConcurrentCreatesSucceed
<1>1. ASSUME WepIInv, [Next]_vars
      PROVE  [Faults = {} => \A e \in Endpoints :
                 req[e].pc \in {"profile", "newprofile", "create"} => req'[e].pc # "failed"]_req
  <2> SUFFICES ASSUME req' # req, Faults = {}, NEW e \in Endpoints,
                      req[e].pc \in {"profile", "newprofile", "create"}
               PROVE  req'[e].pc # "failed"
    OBVIOUS
  <2>1. PICK f \in Endpoints : StepOK(f)
    BY <1>1, EndpointSteps
    DEF Next, Step, NetworkStep, vars, state, CreateNetwork, ListPools, AnnotatePool, EditPool, Crash, calico
  <2> QED
    BY <2>1 DEF StepOK
<1> QED
  BY WepAlways, <1>1, PTL DEF Spec, ConcurrentCreatesSucceed

=============================================================================
