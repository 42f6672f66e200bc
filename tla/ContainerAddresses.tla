------------------------- MODULE ContainerAddresses -------------------------
(***************************************************************************)
(* The life of a container's addresses: the docker proxy's create, remove, *)
(* prune, connect and disconnect handlers (proxy/docker), the IPAM driver  *)
(* dockerd calls when a container starts and stops (driver/fixedip,        *)
(* driver/calico) and the helper that ties addresses to containers in etcd *)
(* (vessel/helper.go), all of them callers of FixedIPPool.                 *)
(*                                                                         *)
(* A request is a job: the goroutine p that serves it makes one pool, etcd *)
(* or dockerd call after another.  The steps inside a pool call are those  *)
(* of FixedIPPool; the actions below handle its answer, up to the next     *)
(* call.  dockerd is external: it knows the containers, refuses or accepts *)
(* a create, and asks the driver for addresses.                            *)
(***************************************************************************)
EXTENDS FixedIPPool, FiniteSets

CONSTANTS
    Networks,       \* the supervised networks: a sequence of pool lists
    CreateNets,     \* a fixed-ip container is created on the first CreateNets of them
    Specified,      \* addresses a user names when creating a container (--ip)
    PlainPool,      \* the pool of the network of a container without the label
    Requests,       \* the requests clients send, a subset of RequestKinds
    Overlap,        \* TRUE: requests for a container overlap; FALSE: clients wait
    MaxAsked        \* bound: the starts, connects and disconnects of a container

RequestKinds == {"create", "remove", "prune", "connect", "disconnect"}

ASSUME NetworksAssumption == Networks \in Seq(Seq(Pools))
ASSUME CreateNetsAssumption == CreateNets \in 1..Len(Networks)
ASSUME SpecifiedAssumption == Specified \subseteq IPs
ASSUME PlainPoolAssumption == PlainPool \in Pools
ASSUME RequestsAssumption == Requests \subseteq RequestKinds
ASSUME OverlapAssumption == Overlap \in BOOLEAN
ASSUME MaxAskedAssumption == MaxAsked \in Nat

VARIABLES
    docker,         \* dockerd: what became of each container
    conf,           \* dockerd: the addresses in each container's endpoint config
    fixed,          \* the ones the proxy's handlers allocated (a ghost)
    label,          \* dockerd: whether the container has the fixed-ip label
    held,           \* dockerd: the addresses the driver granted
    asked,          \* how often each container was started, connected, disconnected
    cinfo,          \* etcd: the slot of each container's ContainerInfo
    job,            \* the request each process serves
    broken,         \* a ghost: some step was Unprotected
    unanswered      \* a ghost: dockerd's answer to some connect was lost

world == <<docker, conf, fixed, label, held, asked, cinfo>>
sysVars == <<vars, world, job>>
ghosts == <<broken, unanswered>>

Stages == {"idle", "alloc", "rollback", "dockerd", "borrow", "record",
           "assign", "calico", "unassign", "free",
           "delete", "info", "return", "unalloc",
           "netalloc", "connect", "disconnect", "get", "update"}

\* The label of a job is the call it makes next or waits for.  got are the
\* addresses a create or connect allocated, addrs those the job still has to work
\* through, ip the one at hand or the one the user or dockerd named, victims the
\* removed containers still to be released, net the network of a connect or
\* disconnect, or how many networks of a create have their address, and read the
\* ContainerInfo it read.  A list of addresses is a set, worked through in any
\* order: the code does the same with each of them.
Job == [stage : Stages, c : Containers \cup {NoContainer}, ip : IPs \cup {NoIP},
        got : SUBSET IPs, addrs : SUBSET IPs, victims : SUBSET Containers,
        net : Nat, read : Slot(SUBSET IPs)]

NoJob == [stage |-> "idle", c |-> NoContainer, ip |-> NoIP,
          got |-> {}, addrs |-> {}, victims |-> {},
          net |-> 0, read |-> NoSlot({})]

SysInit ==
    /\ Init
    /\ docker = [c \in Containers |-> "none"]
    /\ conf = [c \in Containers |-> {}]
    /\ fixed = [c \in Containers |-> {}]
    /\ label = [c \in Containers |-> FALSE]
    /\ held = [c \in Containers |-> {}]
    /\ asked = [c \in Containers |-> 0]
    /\ cinfo = [c \in Containers |-> NoSlot({})]
    /\ job = [p \in Procs |-> NoJob]
    /\ broken = FALSE
    /\ unanswered = FALSE

-----------------------------------------------------------------------------
(***************************************************************************)
(* Control                                                                 *)
(***************************************************************************)

\* The job of p has the answer of its last call and goes on from stage.
At(p, stage) == job[p].stage = stage /\ call[p].pc = "idle"

\* The last call of p succeeded.
Ok(p) == call[p].err = "nil"

EndJob(p) ==
    /\ job' = [job EXCEPT ![p] = NoJob]
    /\ call' = [call EXCEPT ![p] = IdleFrame]

Finish(p) == EndJob(p) /\ UNCHANGED <<ipinfo, calico>>

\* p goes on with job j, whose next call is not one of the pool's.
Proceed(p, j) ==
    /\ job' = [job EXCEPT ![p] = j]
    /\ call' = [call EXCEPT ![p] = IdleFrame]
    /\ UNCHANGED <<ipinfo, calico>>

\* p goes on with job j by calling operation op of the pool for address ip.
Invoke(p, j, op, ip) ==
    /\ job' = [job EXCEPT ![p] = j]
    /\ Call(p, op, ip, IF op \in {"BorrowFixedIP", "ReturnFixedIP"} THEN j.c ELSE NoContainer,
            FALSE, <<>>)

\* p calls AllocFixedIPFromPools with the pools of the next network.
AllocNext(p, j) ==
    /\ job' = [job EXCEPT ![p] = [j EXCEPT !.stage = "alloc"]]
    /\ Call(p, "AllocFixedIPFromPools", NoIP, NoContainer, FALSE, Networks[j.net + 1])

\* The pools of the i-th network.
PoolsOf(i) == {Networks[i][n] : n \in DOMAIN Networks[i]}

\* What a handler does after it forwarded dockerd's answer.
Async == {"rollback", "info", "return", "unalloc", "get", "update"}

\* A process takes a new job.  A client that waits sends no request for a
\* container before another one for it is answered.
Free(p, c) ==
    /\ job[p] = NoJob
    /\ Overlap \/ \A q \in Procs : job[q].c # c \/ job[q].stage \in Async

CountRequest(c) ==
    /\ asked[c] < MaxAsked
    /\ asked' = [asked EXCEPT ![c] = @ + 1]

\* dockerd serialises what it does to one container.
DockerBusy(c) ==
    \E q \in Procs : job[q].c = c /\ job[q].stage \in {"assign", "calico", "unassign", "free"}

-----------------------------------------------------------------------------
(***************************************************************************)
(* containerCreateHandler                                                  *)
(***************************************************************************)

\* UnallocFixedIP of everything allocated, before the handler gives up.
Rollback(p, j) ==
    IF j.addrs = {}
    THEN Finish(p)
    ELSE \E ip \in j.addrs :
            Invoke(p, [j EXCEPT !.stage = "rollback", !.addrs = @ \ {ip}], "UnallocFixedIP", ip)

\* A create request for a container with the fixed-ip label: the handler asks for
\* an address in every network.
CreateFixed(p, c) ==
    /\ "create" \in Requests
    /\ Free(p, c)
    /\ docker[c] = "none"
    /\ docker' = [docker EXCEPT ![c] = "requested"]
    /\ AllocNext(p, [NoJob EXCEPT !.c = c])
    /\ UNCHANGED <<conf, fixed, label, held, asked, cinfo>>

\* One without the label, or with an address of its own: nothing is allocated.
CreatePlain(p, c, ip) ==
    /\ "create" \in Requests
    /\ Free(p, c)
    /\ docker[c] = "none"
    /\ docker' = [docker EXCEPT ![c] = "requested"]
    /\ Proceed(p, [NoJob EXCEPT !.c = c, !.stage = "dockerd", !.ip = ip])
    /\ UNCHANGED <<conf, fixed, label, held, asked, cinfo>>

Allocated(p) ==
    /\ At(p, "alloc")
    /\ LET j == [job[p] EXCEPT !.got = @ \cup {call[p].ip}, !.net = @ + 1]
       IN  CASE ~Ok(p) -> /\ docker' = [docker EXCEPT ![j.c] = "failed"]
                          /\ Rollback(p, [job[p] EXCEPT !.addrs = job[p].got])
             [] Ok(p) /\ j.net < CreateNets -> AllocNext(p, j) /\ UNCHANGED docker
             [] OTHER -> Proceed(p, [j EXCEPT !.stage = "dockerd"]) /\ UNCHANGED docker
    /\ UNCHANGED <<conf, fixed, label, held, asked, cinfo>>

RolledBack(p) ==
    /\ At(p, "rollback")
    /\ Rollback(p, job[p])
    /\ UNCHANGED world

\* The addresses in the create request the handler sends.
Wanted(j) == j.got \cup ({j.ip} \ {NoIP})

\* dockerd creates the container of job j.
Created(j) ==
    /\ docker' = [docker EXCEPT ![j.c] = "created"]
    /\ conf' = [conf EXCEPT ![j.c] = Wanted(j)]
    /\ fixed' = [fixed EXCEPT ![j.c] = j.got]
    /\ label' = [label EXCEPT ![j.c] = j.got # {}]

\* InitContainerInfoRecord borrows address after address, then writes the record.
BorrowNext(p, j) ==
    IF j.addrs = {}
    THEN Proceed(p, [j EXCEPT !.stage = "record"])
    ELSE \E ip \in j.addrs :
            Invoke(p, [j EXCEPT !.stage = "borrow", !.addrs = @ \ {ip}], "BorrowFixedIP", ip)

\* 201: the container exists, and only now are its addresses tied to it.
CreateAccepted(p) ==
    /\ At(p, "dockerd")
    /\ Created(job[p])
    /\ BorrowNext(p, [job[p] EXCEPT !.addrs = job[p].got])
    /\ UNCHANGED <<held, asked, cinfo>>

\* Any other status.
CreateRefused(p) ==
    /\ At(p, "dockerd")
    /\ docker' = [docker EXCEPT ![job[p].c] = "failed"]
    /\ Rollback(p, [job[p] EXCEPT !.addrs = job[p].got])
    /\ UNCHANGED <<conf, fixed, label, held, asked, cinfo>>

\* The connection to dockerd breaks, its reply cannot be forwarded and read, or
\* the proxy dies: the handler ends without releasing or recording anything, whether or not
\* dockerd created the container.
CreateUnanswered(p) ==
    /\ Faults \cap {"error", "crash"} # {}
    /\ At(p, "dockerd")
    /\ \/ Created(job[p])
       \/ docker' = [docker EXCEPT ![job[p].c] = "failed"] /\ UNCHANGED <<conf, fixed, label>>
    /\ Finish(p)
    /\ UNCHANGED <<held, asked, cinfo>>

\* A failed borrow is only logged.
Borrowed(p) ==
    /\ At(p, "borrow")
    /\ BorrowNext(p, job[p])
    /\ UNCHANGED world

\* Put of the ContainerInfo, or a Put that fails and is logged.
RecordInfo(p) ==
    /\ At(p, "record")
    /\ \/ cinfo' = [cinfo EXCEPT ![job[p].c] = PutSlot(@, job[p].got)]
       \/ "error" \in Faults /\ UNCHANGED cinfo
    /\ Finish(p)
    /\ UNCHANGED <<docker, conf, fixed, label, held, asked>>

-----------------------------------------------------------------------------
(***************************************************************************)
(* The IPAM driver                                                         *)
(***************************************************************************)

\* dockerd starts container c and asks for one of its addresses (AssignFixedIP),
\* or for any address (the Calico driver).
RequestAddress(p, c) ==
    /\ Free(p, c)
    /\ docker[c] = "created"
    /\ ~DockerBusy(c)
    /\ CountRequest(c)
    /\ \/ \E ip \in conf[c] \ held[c] :
             Invoke(p, [NoJob EXCEPT !.c = c, !.stage = "assign", !.ip = ip], "AssignFixedIP", ip)
       \/ /\ ~label[c] /\ conf[c] = {} /\ held[c] = {}
          /\ Proceed(p, [NoJob EXCEPT !.c = c, !.stage = "calico"])
    /\ UNCHANGED <<docker, conf, fixed, label, held, cinfo>>

Assigned(p) ==
    /\ At(p, "assign")
    /\ IF call[p].err = "ErrFixedIPNotAllocated"
       THEN Proceed(p, [job[p] EXCEPT !.stage = "calico"]) /\ UNCHANGED held
       ELSE /\ Finish(p)
            /\ held' = IF Ok(p) THEN [held EXCEPT ![job[p].c] = @ \cup {job[p].ip}] ELSE held
    /\ UNCHANGED <<docker, conf, fixed, label, asked, cinfo>>

\* What Calico can give: the address named (AllocIP), or any (AllocIPFromPool).
Choices(p) ==
    IF job[p].ip = NoIP
    THEN {[PoolID |-> PlainPool, Address |-> a] : a \in CIDR[PlainPool] \ calico}
    ELSE {ip \in {job[p].ip} : ip.Address \notin calico}

\* The Calico driver's RequestAddress.
CalicoRequest(p) ==
    /\ At(p, "calico")
    /\ IF Choices(p) = {}
       THEN UNCHANGED <<calico, held>>
       ELSE \E ip \in Choices(p) :
               /\ calico' = calico \cup {ip.Address}
               /\ held' = [held EXCEPT ![job[p].c] = @ \cup {ip}]
    /\ EndJob(p)
    /\ UNCHANGED <<ipinfo, docker, conf, fixed, label, asked, cinfo>>

\* dockerd stops the container and gives an address back.  Whatever the driver
\* answers, dockerd is through with it.
ReleaseAddress(p, c) ==
    /\ Free(p, c)
    /\ ~DockerBusy(c)
    /\ \E ip \in held[c] :
          /\ held' = [held EXCEPT ![c] = @ \ {ip}]
          /\ Invoke(p, [NoJob EXCEPT !.c = c, !.stage = "unassign", !.ip = ip],
                    "UnassignFixedIP", ip)
    /\ UNCHANGED <<docker, conf, fixed, label, asked, cinfo>>

Unassigned(p) ==
    /\ At(p, "unassign")
    /\ IF call[p].err = "ErrFixedIPNotAllocated"
       THEN Proceed(p, [job[p] EXCEPT !.stage = "free"])
       ELSE Finish(p)
    /\ UNCHANGED world

\* The Calico driver's ReleaseAddress.
CalicoRelease(p) ==
    /\ At(p, "free")
    /\ calico' = calico \ {job[p].ip.Address}
    /\ EndJob(p)
    /\ UNCHANGED <<ipinfo, world>>

\* The Calico call of either fails, with or without effect; dockerd is not given
\* the address, or is through with it.
DriverFails(p) ==
    /\ At(p, "calico") \/ At(p, "free")
    /\ \/ "error" \in Faults /\ UNCHANGED calico
       \/ /\ "timeout" \in Faults
          /\ IF job[p].stage = "free"
             THEN calico' = calico \ {job[p].ip.Address}
             ELSE \E ip \in Choices(p) : calico' = calico \cup {ip.Address}
    /\ EndJob(p)
    /\ UNCHANGED <<ipinfo, world>>

-----------------------------------------------------------------------------
(***************************************************************************)
(* containerDeleteHandler and containerPruneHandle                         *)
(***************************************************************************)

\* The container is inspected first: only an existing one is removed.
Remove(p, c) ==
    /\ "remove" \in Requests
    /\ Free(p, c)
    /\ docker[c] = "created"
    /\ Proceed(p, [NoJob EXCEPT !.c = c, !.stage = "delete"])
    /\ UNCHANGED world

\* dockerd removes the containers S and forgets what it knew of them.
Forget(S) ==
    /\ docker' = [c \in Containers |-> IF c \in S THEN "removed" ELSE docker[c]]
    /\ conf' = [c \in Containers |-> IF c \in S THEN {} ELSE conf[c]]
    /\ fixed' = [c \in Containers |-> IF c \in S THEN {} ELSE fixed[c]]
    /\ label' = [c \in Containers |-> IF c \in S THEN FALSE ELSE label[c]]
    /\ asked' = [c \in Containers |-> IF c \in S THEN 0 ELSE asked[c]]
    /\ UNCHANGED <<held, cinfo>>

\* A handler that does not look at the status of dockerd's answer.
RemoveAnsweredAnyhow(p) ==
    LET c == job[p].c
    IN  /\ At(p, "delete")
        /\ ~DockerBusy(c)
        /\ IF held[c] # {} THEN UNCHANGED world ELSE Forget({c})
        /\ Proceed(p, [job[p] EXCEPT !.stage = "info"])

\* dockerd removes a stopped container (204), answers that it is gone already
\* (404) or, while the container runs, refuses (409).  A goroutine of its own
\* then releases the addresses.
RemoveAnswered(p) ==
    LET c == job[p].c
    IN  /\ At(p, "delete")
        /\ ~DockerBusy(c)
        /\ IF held[c] # {}
           THEN Finish(p) /\ UNCHANGED world
           ELSE Forget({c}) /\ Proceed(p, [job[p] EXCEPT !.stage = "info"])

\* The connection breaks, and dockerd removed the container or did not.
RemoveUnanswered(p) ==
    /\ Faults \cap {"error", "crash"} # {}
    /\ At(p, "delete")
    /\ ~DockerBusy(job[p].c)
    /\ UNCHANGED world \/ (held[job[p].c] = {} /\ Forget({job[p].c}))
    /\ Finish(p)

\* Prune removes every stopped container and releases them one by one.
Prune(p) ==
    LET stopped == {c \in Containers : docker[c] = "created" /\ held[c] = {} /\ ~DockerBusy(c)}
    IN  /\ "prune" \in Requests
        /\ \A c \in stopped : Free(p, c)
        /\ Forget(stopped)
        /\ \E c \in stopped :
              Proceed(p, [NoJob EXCEPT !.c = c, !.stage = "info", !.victims = stopped \ {c}])

\* A loop over the victims that does not advance.
NextVictimAgain(p, j) ==
    IF j.victims = {}
    THEN Finish(p)
    ELSE \E c \in j.victims :
            Proceed(p, [NoJob EXCEPT !.c = c, !.stage = "info", !.victims = j.victims])

\* ReleaseContainerAddresses is done with j.c; prune goes on with another victim.
NextVictim(p, j) ==
    IF j.victims = {}
    THEN Finish(p)
    ELSE \E c \in j.victims :
            Proceed(p, [NoJob EXCEPT !.c = c, !.stage = "info", !.victims = j.victims \ {c}])

\* Every address of the ContainerInfo is returned, then unallocated.
ReturnNext(p, j) ==
    IF j.addrs = {}
    THEN NextVictim(p, j)
    ELSE \E ip \in j.addrs :
            Invoke(p, [j EXCEPT !.stage = "return", !.addrs = @ \ {ip}, !.ip = ip],
                   "ReturnFixedIP", ip)

\* ReleaseContainerAddresses: GetAndDelete of the ContainerInfo.
TakeInfo(p) ==
    LET c == job[p].c
    IN  /\ At(p, "info")
        /\ cinfo' = [cinfo EXCEPT ![c] = DeleteSlot(@, {})]
        /\ ReturnNext(p, [job[p] EXCEPT !.addrs = cinfo[c].val])
        /\ UNCHANGED <<docker, conf, fixed, label, held, asked>>

\* A GetAndDelete that fails ends the release of this container; when only its
\* answer is lost, the record is gone all the same.
TakeInfoFails(p) ==
    /\ At(p, "info")
    /\ \/ "error" \in Faults /\ UNCHANGED cinfo
       \/ "timeout" \in Faults /\ cinfo' = [cinfo EXCEPT ![job[p].c] = DeleteSlot(@, {})]
    /\ NextVictim(p, job[p])
    /\ UNCHANGED <<docker, conf, fixed, label, held, asked>>

\* The results of ReturnFixedIP and of UnallocFixedIP are only logged.
Returned(p) ==
    /\ At(p, "return")
    /\ Invoke(p, [job[p] EXCEPT !.stage = "unalloc"], "UnallocFixedIP", job[p].ip)
    /\ UNCHANGED world

\* A release that ends after the first address.
UnallocedFirst(p) ==
    /\ At(p, "unalloc")
    /\ NextVictim(p, job[p])
    /\ UNCHANGED world

Unalloced(p) ==
    /\ At(p, "unalloc")
    /\ ReturnNext(p, job[p])
    /\ UNCHANGED world

-----------------------------------------------------------------------------
(***************************************************************************)
(* networkConnectHandler and networkDisconnectHandler, for containers with *)
(* the fixed-ip label                                                      *)
(***************************************************************************)

\* The container is inspected, and an address allocated.
NetworkConnect(p, c) ==
    /\ "connect" \in Requests
    /\ Free(p, c)
    /\ CountRequest(c)
    /\ docker[c] = "created" /\ label[c]
    /\ \E i \in DOMAIN Networks :
          /\ \A ip \in conf[c] : ip.PoolID \notin PoolsOf(i)
          /\ job' = [job EXCEPT ![p] = [NoJob EXCEPT !.c = c, !.stage = "netalloc", !.net = i]]
          /\ Call(p, "AllocFixedIPFromPools", NoIP, NoContainer, FALSE, Networks[i])
    /\ UNCHANGED <<docker, conf, fixed, label, held, cinfo>>

NetAllocated(p) ==
    /\ At(p, "netalloc")
    /\ IF Ok(p)
       THEN Proceed(p, [job[p] EXCEPT !.stage = "connect", !.got = {call[p].ip}])
       ELSE Finish(p)
    /\ UNCHANGED world

\* dockerd connects the container; the address is not written into its
\* ContainerInfo, and not borrowed.
ConnectAccepted(p) ==
    LET c == job[p].c
    IN  /\ At(p, "connect")
        /\ docker[c] = "created"
        /\ conf' = [conf EXCEPT ![c] = @ \cup job[p].got]
        /\ fixed' = [fixed EXCEPT ![c] = @ \cup job[p].got]
        /\ Finish(p)
        /\ UNCHANGED <<docker, label, held, asked, cinfo>>

\* dockerd refuses, or cannot be reached.
ConnectRefused(p) ==
    /\ At(p, "connect")
    /\ Rollback(p, [job[p] EXCEPT !.addrs = job[p].got])
    /\ UNCHANGED world

\* dockerd connects the container, but its answer is lost: the handler takes the
\* address away from the container that has it.
ConnectUnanswered(p) ==
    /\ "error" \in Faults
    /\ At(p, "connect")
    /\ docker[job[p].c] = "created"
    /\ conf' = [conf EXCEPT ![job[p].c] = @ \cup job[p].got]
    /\ fixed' = [fixed EXCEPT ![job[p].c] = @ \cup job[p].got]
    /\ Rollback(p, [job[p] EXCEPT !.addrs = job[p].got])
    /\ UNCHANGED <<docker, label, held, asked, cinfo>>

NetworkDisconnect(p, c) ==
    /\ "disconnect" \in Requests
    /\ Free(p, c)
    /\ CountRequest(c)
    /\ docker[c] = "created" /\ label[c]
    /\ \E i \in DOMAIN Networks :
          Proceed(p, [NoJob EXCEPT !.c = c, !.stage = "disconnect", !.net = i])
    /\ UNCHANGED <<docker, conf, fixed, label, held, cinfo>>

\* The addresses of c in the network of p's job.
Leaving(p) == {ip \in conf[job[p].c] : ip.PoolID \in PoolsOf(job[p].net)}

\* dockerd disconnects the container from the network.
Leave(p) ==
    /\ conf' = [conf EXCEPT ![job[p].c] = @ \ Leaving(p)]
    /\ fixed' = [fixed EXCEPT ![job[p].c] = @ \ Leaving(p)]
    /\ UNCHANGED <<docker, label, held, asked, cinfo>>

\* It can do so once the endpoint's address is released.
CanLeave(p) ==
    /\ docker[job[p].c] = "created"
    /\ Leaving(p) # {}
    /\ Leaving(p) \cap held[job[p].c] = {}

\* 200: a goroutine of its own releases the addresses.  Or another status.
Disconnected(p) ==
    /\ At(p, "disconnect")
    /\ ~DockerBusy(job[p].c)
    /\ IF CanLeave(p)
       THEN Leave(p) /\ Proceed(p, [job[p] EXCEPT !.stage = "get"])
       ELSE Finish(p) /\ UNCHANGED world

\* ReleaseContainerAddressesByIPPools: Get of the ContainerInfo.
GetInfo(p) ==
    /\ At(p, "get")
    /\ IF cinfo[job[p].c].val = {}
       THEN Finish(p)
       ELSE Proceed(p, [job[p] EXCEPT !.stage = "update", !.read = cinfo[job[p].c]])
    /\ UNCHANGED world

\* The addresses p's job read, divided by the pools of its network.
Released(p) == {ip \in job[p].read.val : ip.PoolID \in PoolsOf(job[p].net)}
Retained(p) == job[p].read.val \ Released(p)

InfoTxn(p) == UpdateElseGet(cinfo[job[p].c], job[p].read.version, Retained(p))

\* The addresses outside the network's pools stay in the ContainerInfo, the
\* others are unallocated; when the record was changed meanwhile it is read
\* again, and when it is gone nothing more happens.
PartitionInfo(p) ==
    /\ At(p, "update")
    /\ cinfo' = [cinfo EXCEPT ![job[p].c] = InfoTxn(p).slot]
    /\ CASE InfoTxn(p).err # "nil" -> Finish(p)
         [] InfoTxn(p).err = "nil" /\ InfoTxn(p).ok ->
              Rollback(p, [job[p] EXCEPT !.addrs = Released(p)])
         [] OTHER -> Proceed(p, [job[p] EXCEPT !.stage = "get"])
    /\ UNCHANGED <<docker, conf, fixed, label, held, asked>>

\* A call of the handler or of its goroutine fails, with or without effect.
DisconnectFails(p) ==
    /\ \/ /\ "error" \in Faults
          /\ At(p, "disconnect") \/ At(p, "get") \/ At(p, "update")
          /\ UNCHANGED world
       \/ /\ "error" \in Faults
          /\ At(p, "disconnect")
          /\ ~DockerBusy(job[p].c) /\ CanLeave(p)
          /\ Leave(p)
       \/ /\ "timeout" \in Faults
          /\ At(p, "update")
          /\ cinfo' = [cinfo EXCEPT ![job[p].c] = InfoTxn(p).slot]
          /\ UNCHANGED <<docker, conf, fixed, label, held, asked>>
    /\ Finish(p)

-----------------------------------------------------------------------------
(***************************************************************************)
(* The specification                                                       *)
(***************************************************************************)

\* A step of the job p serves, inside the pool or outside.
JobStep(p) ==
    \/ Step(p) /\ UNCHANGED <<world, job>>
    \/ Allocated(p) \/ RolledBack(p) \/ CreateAccepted(p) \/ CreateRefused(p)
    \/ Borrowed(p) \/ RecordInfo(p)
    \/ Assigned(p) \/ CalicoRequest(p) \/ Unassigned(p) \/ CalicoRelease(p)
    \/ RemoveAnswered(p) \/ TakeInfo(p) \/ Returned(p) \/ Unalloced(p)
    \/ NetAllocated(p) \/ ConnectAccepted(p) \/ ConnectRefused(p)
    \/ Disconnected(p) \/ GetInfo(p) \/ PartitionInfo(p)

\* The process dies in the middle of its job; a create that dockerd did not see
\* yet is lost with it.
JobCrash(p) ==
    /\ "crash" \in Faults
    /\ job[p] # NoJob
    /\ docker' = [docker EXCEPT ![job[p].c] = IF @ = "requested" THEN "failed" ELSE @]
    /\ Finish(p)
    /\ UNCHANGED <<conf, fixed, label, held, asked, cinfo>>

JobFault(p) ==
    \/ (CallError(p) \/ CallTimeout(p)) /\ UNCHANGED <<world, job>>
    \/ JobCrash(p)
    \/ CreateUnanswered(p) \/ RemoveUnanswered(p) \/ TakeInfoFails(p)
    \/ DriverFails(p) \/ ConnectUnanswered(p) \/ DisconnectFails(p)

Request(p) ==
    \/ Prune(p)
    \/ \E c \in Containers :
          \/ CreateFixed(p, c)
          \/ \E ip \in Specified \cup {NoIP} : CreatePlain(p, c, ip)
          \/ RequestAddress(p, c) \/ ReleaseAddress(p, c) \/ Remove(p, c)
          \/ NetworkConnect(p, c) \/ NetworkDisconnect(p, c)

\* The three steps of p inside the pool against which the code has no protection:
\* UpdateElseGet compares versions, and writes to a record that was deleted and
\* created again since it was read; UnallocFixedIP goes on when the call that
\* takes its lock fails; AllocFixedIPFromPools frees the address after a Put whose
\* answer was lost, and its record stays.
Unprotected(p) ==
    /\ call'[p] # call[p]
    /\ \/ call[p].pc = "update" /\ ipinfo' # ipinfo /\ ~SameIncarnation(p)
       \/ call[p].pc = "update" /\ call'[p].pc = "delete" /\ ipinfo' = ipinfo
       \/ call[p].pc = "put" /\ call'[p].pc = "undo" /\ ipinfo' # ipinfo

\* What the ghosts remember of a step.
Remembered ==
    /\ broken' = (broken \/ \E p \in Procs : Unprotected(p))
    /\ unanswered' = (unanswered \/ \E p \in Procs : ConnectUnanswered(p))

SysNext ==
    /\ \E p \in Procs : Request(p) \/ JobStep(p) \/ JobFault(p)
    /\ Remembered

SysSpec == SysInit /\ [][SysNext]_<<sysVars, ghosts>>

SysFairSpec == SysSpec /\ \A p \in Procs : WF_sysVars(JobStep(p))

-----------------------------------------------------------------------------
(***************************************************************************)
(* Properties                                                              *)
(***************************************************************************)

\* The variables have their types, and a process that serves no request is not
\* inside the pool.
SysTypeOK ==
    /\ TypeOK
    /\ docker \in [Containers -> {"none", "requested", "failed", "created", "removed"}]
    /\ conf \in [Containers -> SUBSET IPs]
    /\ fixed \in [Containers -> SUBSET IPs]
    /\ label \in [Containers -> BOOLEAN]
    /\ held \in [Containers -> SUBSET IPs]
    /\ asked \in [Containers -> 0..MaxAsked]
    /\ cinfo \in [Containers -> Slot(SUBSET IPs)]
    /\ job \in [Procs -> Job]
    /\ broken \in BOOLEAN
    /\ unanswered \in BOOLEAN
    /\ \A p \in Procs : job[p] = NoJob => call[p].pc = "idle"

\* No two containers are given the same address, whichever pools they took it
\* from, and what a container uses is allocated in Calico and, if it is a fixed
\* IP, marked as in use.  (AssignFixedIP's check and UpdateElseGet; AllocIP for
\* an address without a record; UnallocFixedIP's lock before the delete.)
HeldOnce ==
    \A c \in Containers : \A ip \in held[c] :
        /\ ip.Address \in calico
        /\ Exists(ipinfo[ip]) => Match(ipinfo[ip].val, {"InUse"})
        /\ \A d \in Containers \ {c} : \A jp \in held[d] : jp.Address # ip.Address

\* Whatever calls fail and whoever dies, two containers share an address only after
\* one of the Unprotected steps.
HeldExclusive == ~broken => HeldOnce

\* A container keeps its fixed addresses, running or stopped, as long as it
\* exists: their records are there and no other container was created with or
\* connected to them.  There are two ways to lose them: the Unprotected steps, and
\* networkConnectHandler's roll-back of an address dockerd did connect, when
\* dockerd's answer is lost.
FixedAddressIsKept ==
    ~broken /\ ~unanswered => \A c \in Containers : docker[c] = "created" =>
        \A ip \in fixed[c] :
            /\ Exists(ipinfo[ip])
            /\ \A d \in Containers \ {c} : docker[d] = "created" => ip \notin fixed[d]

\* With clients that wait for their answers and no failures, nothing is left
\* behind: when all requests are served, an address is allocated only for a
\* container that exists, and only those have records and borrowers.
NothingLeftBehind ==
    (\A p \in Procs : job[p] = NoJob) =>
        /\ \A a \in calico : \E c \in Containers :
              /\ docker[c] = "created"
              /\ \E ip \in fixed[c] \cup held[c] : ip.Address = a
        /\ \A ip \in IPs : Exists(ipinfo[ip]) =>
              ipinfo[ip].val.borrowers = {c \in Containers : docker[c] = "created" /\ ip \in fixed[c]}
        /\ \A c \in Containers : Exists(cinfo[c]) <=> docker[c] = "created"

\* What ReleaseContainerAddressesByIPPools takes out of a ContainerInfo it gives
\* back: when all requests are served, an address is borrowed only by containers
\* whose ContainerInfo lists it.
BorrowersAreKnown ==
    (\A p \in Procs : job[p] = NoJob) =>
        \A ip \in IPs : \A c \in ipinfo[ip].val.borrowers :
            ip \in cinfo[c].val

\* Every request is served if dockerd, etcd and Calico answer: no handler waits for
\* another one, and the loops over networks, addresses and victims end.
JobsEnd == \A p \in Procs : job[p] # NoJob ~> job[p] = NoJob

\* Well-formed jobs and records, and fixed addresses that stay with their containers.
SysInv == SysTypeOK /\ FixedAddressIsKept

=============================================================================
