----------------------------- MODULE CtrAddresses ----------------------------
(***************************************************************************)
(* The address and endpoint commands of the administration tool: assign    *)
(* ip, release ip and release wep (ctr/ipam.go, ctr/wep.go), run by        *)
(* operators while containers come and go on the nodes.                    *)
(*                                                                         *)
(* There is one pool.  An address is allocated in calico or not, and a     *)
(* fixed address has a record: free, in use, or retired while it is being  *)
(* removed.  What FixedIPPool shows of a record is used here: a change of  *)
(* it takes effect at its compare-and-swap or not at all, so the reading   *)
(* before it is part of the same step.  That the first of the steps that   *)
(* remove a record may fail unnoticed is FixedIPPool's concern and is left *)
(* out.                                                                    *)
(*                                                                         *)
(* A container's endpoint goes through the stages in which docker, the     *)
(* IPAM driver and the network driver handle it: its address is taken, its *)
(* workload endpoint written, docker lists it, and back in reverse.  When  *)
(* its node is lost, docker forgets it and the rest stays: a leak.         *)
(*                                                                         *)
(* Operators recycle only leaked endpoints, and give back only what they   *)
(* assigned; the commands themselves do not check either.                  *)
(***************************************************************************)
EXTENDS Naturals, FiniteSets

CONSTANTS
    Endpoints, Addresses,
    AddrOf,
    Operators,   \* instances of the tool
    Pool,        \* the name of the pool
    PoolFlags,   \* what operators give release wep as its --namespace
    AssignKinds  \* what assign ip is given: a subset of {"fixed", "plain"}

ASSUME AddressesAssumption ==
    AddrOf \in [Endpoints -> Addresses]

VARIABLES
    rec,     \* the record of each address: "absent", "free", "used" or "retired"
    alloc,   \* the addresses allocated in calico
    stage,   \* the stage of each endpoint
    weps,    \* the workload endpoints
    hand,    \* the addresses operators have assigned
    tool     \* the command each operator runs

addrVars == <<rec, alloc, stage, weps, hand, tool>>

Stages == {"off", "assigned", "wep", "listed", "unlisted", "unwep", "dead"}
Idle == [pc |-> "idle", arg |-> "none", flag |-> "none"]

AddrInit ==
    /\ rec = [a \in Addresses |-> "absent"]
    /\ alloc = {}
    /\ stage = [e \in Endpoints |-> "off"]
    /\ weps = {}
    /\ hand = {}
    /\ tool = [o \in Operators |-> Idle]

-----------------------------------------------------------------------------
\* The operations of vessel on an address.  AllocFixedIP creates the record of an
\* address that is not allocated.
AllocFixedIP(a) ==
    /\ rec[a] = "absent"
    /\ a \notin alloc
    /\ rec' = [rec EXCEPT ![a] = "free"]
    /\ alloc' = alloc \cup {a}

\* AssignFixedIP needs a record that is not in use.
AssignFixedIP(a) ==
    /\ rec[a] = "free"
    /\ rec' = [rec EXCEPT ![a] = "used"]
    /\ UNCHANGED alloc

AllocIP(a) ==
    /\ a \notin alloc
    /\ alloc' = alloc \cup {a}
    /\ UNCHANGED rec

\* UnassignFixedIP of a record, which is looked up under the pool given.
UnassignFixedIP(pool, a) ==
    /\ pool = Pool
    /\ rec[a] # "absent"
    /\ rec' = [rec EXCEPT ![a] = "free"]
    /\ UNCHANGED alloc

\* UnallocFixedIP, forced: borrowers do not matter, being in use does.  It marks
\* the record, removes it, and gives the address back, in this order.
LockRecord(a) ==
    /\ rec[a] = "free"
    /\ rec' = [rec EXCEPT ![a] = "retired"]
    /\ UNCHANGED alloc

DeleteRecord(a) ==
    /\ rec' = [rec EXCEPT ![a] = "absent"]
    /\ UNCHANGED alloc

ReleaseToCalico(a) ==
    /\ alloc' = alloc \ {a}
    /\ UNCHANGED rec

-----------------------------------------------------------------------------
Move(e, from, to) == stage[e] = from /\ stage' = [stage EXCEPT ![e] = to]

\* What the proxy, docker and the drivers do for a container, one stage at a time.
\* The record is made when the container is created.
CreateRecord(e) ==
    /\ stage[e] = "off"
    /\ AllocFixedIP(AddrOf[e])
    /\ UNCHANGED <<stage, weps, hand, tool>>

TakeAddress(e) ==
    /\ Move(e, "off", "assigned")
    /\ AssignFixedIP(AddrOf[e])
    /\ UNCHANGED <<weps, hand, tool>>

WriteEndpoint(e) ==
    /\ Move(e, "assigned", "wep")
    /\ weps' = weps \cup {e}
    /\ UNCHANGED <<rec, alloc, hand, tool>>

List(e) == Move(e, "wep", "listed") /\ UNCHANGED <<rec, alloc, weps, hand, tool>>

Unlist(e) == Move(e, "listed", "unlisted") /\ UNCHANGED <<rec, alloc, weps, hand, tool>>

DeleteEndpoint(e) ==
    /\ Move(e, "unlisted", "unwep")
    /\ weps' = weps \ {e}
    /\ UNCHANGED <<rec, alloc, hand, tool>>

ReleaseAddress(e) ==
    /\ Move(e, "unwep", "off")
    /\ UnassignFixedIP(Pool, AddrOf[e])
    /\ UNCHANGED <<weps, hand, tool>>

\* The node is lost.  The endpoint's identifier is never used again.
Lose(e) ==
    /\ \E from \in Stages \ {"off", "dead"} : Move(e, from, "dead")
    /\ UNCHANGED <<rec, alloc, weps, hand, tool>>

Container(e) ==
    \/ CreateRecord(e) \/ TakeAddress(e) \/ WriteEndpoint(e) \/ List(e)
    \/ Unlist(e) \/ DeleteEndpoint(e) \/ ReleaseAddress(e) \/ Lose(e)

-----------------------------------------------------------------------------
\* The command ends; what it prints is left out.
Done(o) == tool' = [tool EXCEPT ![o] = [Idle EXCEPT !.pc = "done"]]

\* assign ip.  Any call may fail.
AssignIP(o, a, kind) ==
    /\ tool[o].pc = "idle"
    /\ \/ /\ kind = "fixed" /\ AssignFixedIP(a)
          /\ Done(o) /\ hand' = hand \cup {a}
       \/ /\ kind = "plain" /\ AllocIP(a)
          /\ Done(o) /\ hand' = hand \cup {a}
       \/ Done(o) /\ UNCHANGED <<rec, alloc, hand>>
    /\ UNCHANGED <<stage, weps>>

\* release ip.  Any call may fail.
ReleaseIP(o, a) ==
    /\ tool[o].pc = "idle"
    /\ a \in hand
    /\ \/ UnassignFixedIP(Pool, a) /\ Done(o) /\ hand' = hand \ {a}
       \/ Done(o) /\ UNCHANGED <<rec, alloc, hand>>
    /\ UNCHANGED <<stage, weps>>

\* release ip --unalloc, of any address: each step may fail and end it.
StartUnalloc(o, a) ==
    /\ tool[o].pc = "idle"
    /\ \/ LockRecord(a) /\ tool' = [tool EXCEPT ![o] = [Idle EXCEPT !.pc = "locked", !.arg = a]]
       \/ Done(o) /\ UNCHANGED <<rec, alloc>>
    /\ UNCHANGED <<hand, stage, weps>>

Unalloc(o) ==
    /\ \/ /\ tool[o].pc = "locked"
          /\ DeleteRecord(tool[o].arg)
          /\ tool' = [tool EXCEPT ![o].pc = "deleted"]
       \/ /\ tool[o].pc = "deleted"
          /\ ReleaseToCalico(tool[o].arg)
          /\ Done(o)
       \/ /\ tool[o].pc \in {"locked", "deleted"}
          /\ Done(o)
          /\ UNCHANGED <<rec, alloc>>
    /\ UNCHANGED <<hand, stage, weps>>

\* release wep: the endpoint is looked up by its name.
FindEndpoint(o, e, flag) ==
    /\ tool[o].pc = "idle"
    /\ stage[e] = "dead"
    /\ \/ e \in weps /\ tool' = [tool EXCEPT ![o] = [Idle EXCEPT !.pc = "delete", !.arg = e, !.flag = flag]]
       \/ Done(o)
    /\ UNCHANGED <<rec, alloc, stage, weps, hand>>

\* A deletion whose error is only logged.
DeleteAnyWorkloadEndpoint(o) ==
    /\ tool[o].pc = "delete"
    /\ weps' = weps \ {tool[o].arg}
    /\ tool' = [tool EXCEPT ![o].pc = "recycle"]
    /\ UNCHANGED <<rec, alloc, stage, hand>>

\* It is deleted; an endpoint that is gone is an error, and so is a failure.
DeleteWorkloadEndpoint(o) ==
    /\ tool[o].pc = "delete"
    /\ \/ /\ tool[o].arg \in weps
          /\ weps' = weps \ {tool[o].arg}
          /\ tool' = [tool EXCEPT ![o].pc = "recycle"]
       \/ Done(o) /\ UNCHANGED weps
    /\ UNCHANGED <<rec, alloc, stage, hand>>

\* Its address is unassigned, in the pool the command gives; an error of that is
\* logged and the command succeeds.
RecycleAddress(o) ==
    /\ tool[o].pc = "recycle"
    /\ LET a == AddrOf[tool[o].arg] IN
       \/ UnassignFixedIP(tool[o].flag, a)
       \/ UNCHANGED <<rec, alloc>>
    /\ Done(o)
    /\ UNCHANGED <<stage, weps, hand>>

Again(o) ==
    /\ tool[o].pc = "done"
    /\ tool' = [tool EXCEPT ![o] = Idle]
    /\ UNCHANGED <<rec, alloc, stage, weps, hand>>

Operator(o) ==
    \/ \E a \in Addresses :
          ReleaseIP(o, a) \/ StartUnalloc(o, a) \/ \E kind \in AssignKinds : AssignIP(o, a, kind)
    \/ \E e \in Endpoints, flag \in PoolFlags : FindEndpoint(o, e, flag)
    \/ Unalloc(o) \/ DeleteWorkloadEndpoint(o) \/ RecycleAddress(o)
    \/ Again(o)

AddrNext == (\E e \in Endpoints : Container(e)) \/ (\E o \in Operators : Operator(o))
AddrSpec == AddrInit /\ [][AddrNext]_addrVars

-----------------------------------------------------------------------------
\* The endpoints with an address: everything between taking it and giving it back.
Live(e) == stage[e] \in Stages \ {"off", "dead"}

\* Two operators may recycle the same leaked endpoint while a new container waits
\* for its address: an address has at most one holder, container or operator, and
\* a container's address is marked in use, so nobody else can assign it.
HolderExclusive ==
    \A e \in Endpoints : Live(e) =>
        /\ rec[AddrOf[e]] = "used"
        /\ AddrOf[e] \notin hand
        /\ \A f \in Endpoints \ {e} : Live(f) => AddrOf[f] # AddrOf[e]

\* Every record belongs to an address calico has allocated, also while release ip
\* --unalloc removes one step by step or stops in between: calico never hands out
\* an address that a record still claims.
RecordsAreAllocated == \A a \in Addresses : rec[a] # "absent" => a \in alloc

\* Operators and containers that take, recycle and release the same addresses never
\* share one, and calico does not hand one out that a record claims.
AddressesExclusive == HolderExclusive /\ RecordsAreAllocated

=============================================================================
