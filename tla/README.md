# barrel in TLA+

barrel runs beside dockerd on every host of a cluster.  It gives containers addresses of Calico
IP pools and keeps some of them *fixed*: a container with the `fixed-ip` label keeps its address
while it is stopped, and gets it back when it starts again.  The hosts share nothing but etcd and
Calico's datastore, there is no distributed lock, and every operation is a sequence of remote
calls that others interleave with, that fail, that time out, or that a crash cuts short.  This
directory models that core, checks it with TLC on small instances and proves the central facts
with TLAPS for all instances.

## 1. The system

| Component | State it keeps | Operations | What makes it hard | What makes it correct |
|---|---|---|---|---|
| etcd store (`store/etcd`) | the keyspace; a version per key | Get, Put, Delete, GetAndDelete, UpdateElseGet, Update, PutMulti | versions restart after a delete; an update may be written and still report an error; batches are not atomic | a compared write replaces what was read |
| Fixed-IP pool (`vessel/fixedippool.go`) | one `IPInfo` per address (InUse, Retired, borrowers) | Alloc, AllocFromPools, Assign, Unassign, Borrow, Return, Unalloc | read-modify-write over etcd, two stores to keep in step, bounded retries, a lock made of a status bit | no lost update; one owner per address; a record implies an allocation |
| Calico pools (`vessel/calicoippool.go`) | Calico's allocations | AllocIP, AllocIPFromPool(s), UnallocIP, lookups | allocation is by address, records are by pool and address | an address is allocated once |
| Helper (`vessel/helper.go`) | one `ContainerInfo` per container | InitContainerInfoRecord, ReleaseContainerAddresses, ...ByIPPools | several calls per address, errors only logged | what a container borrowed is returned when it goes |
| Docker proxy (`proxy/docker`) | none of its own; rewrites requests to dockerd | create, remove, prune, network connect/disconnect | answers forwarded before the bookkeeping, release in background goroutines, dockerd's answer may be lost | a fixed address is kept exactly as long as its container |
| IPAM drivers (`driver/fixedip`, `driver/calico/ipam.go`) | none | RequestAddress, ReleaseAddress | check, then act in another store | two running containers never share an address |
| Network driver (`driver/calico/network.go`) | Calico workload endpoints, profiles, the annotations of pools | CreateNetwork, CreateEndpoint, Join, Leave, DeleteEndpoint | labels filled in by a goroutine that races with Join and Delete | an endpoint that was deleted is not written again; no writer undoes the other |
| CNM agent (`vessel/agent.go`) | pollers per endpoint, a notifier made of channels, two mutexes | NotifyEndpointCreated/Removed, poll, match, commit, Serve, Dispose | channels closed while others send, timeouts, signals before anybody waits | notifications return, every poller ends, no event is lost |
| CNI (`cni/*`) | files: endpoint, owner, tenant, lock; links of containers | create, start, delete, remove network | flock on a file that is unlinked, deletion against a new tenant, handlers that die | an endpoint lives as long as a tenant uses it |
| Services (`app/*`, `utils/channel.go`) | contexts, an error channel that closes itself | start, serve, dispose | first error, signal and termination race | start returns when all have ended, with the first error |
| HTTP proxy (`proxy/proxy.go`, `utils/utils.go`) | connections | four ways to forward a body, link of two connections | clients that go away in the middle, two goroutines that close each other's source | no hole, both sides end, handlers get whole answers |
| ctr tool (`ctr/*`, `cmd/ctr/*`) | its clients, initialised in dependency order | assign, release, list, inspect, diag | operator commands race with the daemons and with each other | no client is used before it exists; nothing in use is released |
| Mount recycling (`resources`) | none | minify, recycle | paths compared as strings, in any order | every mount of a removed container is recycled once |

**How they interact.**  A client's request reaches the *docker proxy*, which asks the *fixed-IP
pool* for addresses, writes them into the request, forwards it to dockerd and, after dockerd's
answer, has the *helper* borrow the addresses for the container and record them.  When a container
starts or stops, dockerd calls the *IPAM driver*, which assigns or unassigns the fixed address, or
takes a plain one from Calico.  When a container is removed, pruned or disconnected, a goroutine of
the proxy has the helper return and unallocate its addresses.  All of it ends in the *etcd store*
and in *Calico*; both are shared by all hosts.  Beside the addresses, dockerd has the *network
driver* create and delete the workload endpoints; the driver's notifications reach the *CNM agent*,
which keeps the `ContainerInfo` in step with dockerd.  Containers that run through *CNI* instead get
their endpoint from a handler runc starts, and the docker proxy has it removed with them.  The
*services* start and stop all of these, and operators repair what leaked with the *ctr tool*.

## 2. The modules

| Module | Models | State and actions |
|---|---|---|
| `EtcdStore` | `store/etcd/etcd.go`, one key | A key is a slot: value, version, and two numbers only etcd knows (`rev`, `created`) that tell one incarnation of a key from the next. `PutSlot`, `DeleteSlot` and `UpdateElseGet` are the store's operations, the odd answer of an update without a previous value included. |
| `FixedIPPool` | `vessel/fixedippool.go`, the allocation part of `calicoippool.go` | `ipinfo` (etcd), `calico` (allocations), `call` (a stack frame per process). One action per remote call with the local code up to the next one, named after the function. `Crash`, `CallError` and `CallTimeout` are the faults. |
| `PoolOwnership` | the same, and whether anything has failed | Extends `FixedIPPool` with `faulted`, a history variable that the first fault sets. |
| `AddressLedger` | what the pool promises | An address is taken, recorded under one pool, unrecorded, given back. |
| `ContainerAddresses` | the callers: proxy handlers, IPAM drivers, helper; dockerd as environment | Extends `FixedIPPool`. `job` is the request each process serves; `docker`, `conf`, `label`, `held` are dockerd's; `cinfo` is the `ContainerInfo` in etcd; `fixed` remembers what a container was created with or connected to; `broken` and `unanswered` are history variables, set by the first step of the pool the code has no protection against (`Unprotected`, section 4) and by the first connect whose answer is lost. The actions handle the answer of one call up to the next call. Lists of addresses are sets. |
| `EtcdBatch` | PutMulti, batchPut and doBatchOp of `store/etcd/etcd.go` | One call: the records are encoded, cut into transactions, and each transaction commits, fails, or commits and loses its answer, in any order. |
| `WorkloadEndpoint` | `driver/calico/network.go`, `driver/fixedip/network.go` | Extends `EtcdStore`: pools and endpoints are slots whose revision Calico's client compares. `req` is dockerd's request per endpoint, `labeller` the goroutine CreateEndpoint leaves behind, `net` a CreateNetwork with the copies it listed. |
| `CNMAgent` | `vessel/agent.go` | The loop, one caller per endpoint, Serve, the goroutine of `notifier.wait`; both mutexes, the unbuffered channels, closed channels and the panic of a send on one. |
| `CNIEndpoint` | `cni/handler`, `cni/subhandler`, `cni/store/filesystem` | The files of an address and the inodes of its lock file; a handler process per container, one action per file operation, or per loop over the links; any of them may fail (`HandlerGivesUp`, `NotCreated`, `OccupyFails`, which leaves an empty tenant file), and the handler may die. |
| `ServiceStarter` | `app/app.go`, `app/services.go`, the services, `utils/channel.go` | start's select, one goroutine per service, one per part of a service (listeners, plugin servers, the agent's loop), the channel with its count of nil errors, time in ticks. |
| `InitUnits` | `ctr/utils.go` | initUnit's recursion as a stack of frames, over any dependency graph. |
| `CtrCommands` | `ctr/ctr.go`, the Before functions under `cmd/ctr` | Extends `InitUnits`: the real graph, each command's declared and used clients. |
| `CtrBlocks` | list blocks, release blocks, release block (`ctr/ipam.go`) | Calico's blocks and affinity objects, the command call by call, hosts that claim, fill, empty and lose blocks between the calls. |
| `CtrAddresses` | assign ip, release ip, release wep (`ctr/ipam.go`, `wep.go`) | Records and allocations of `FixedIPPool` at the grain of its compared writes, the stages of a container's endpoint, two operators. |
| `BodyForward` | Forward, ForwardAndRead, ReadAndForward, ForwardChunked (`utils/utils.go`, `proxy/proxy.go`) | A body in pieces, for every mode, reads and writes that fail anywhere. |
| `LinkConn` | linkConn, doLinkConn, Link, forwardByteStream | Two sides, two goroutines, who closed what. |
| `MountRecycling` | `resources/resources.go` | Paths as sequences of characters, since the code compares strings. |
| `FixedIPPoolProofs`, `ContainerProofs`, `FixedAddressProofs`, `EndpointsProofs`, `CNIProofs`, `CNMAgentProofs`, `HostProofs`, `CtrProofs` | theorems | section 5. `EndpointsProofs` is about `WorkloadEndpoint`; `CNIProofs` about `CNIEndpoint`; `HostProofs` about `ServiceStarter`, `BodyForward`, `LinkConn` and `EtcdBatch`; `CtrProofs` about `InitUnits`, `CtrCommands`, `CtrBlocks` and `CtrAddresses`. |
| `MC...` | instances for TLC | `MCFixedIPPool`, `MCPoolOwnership`, `MCContainerAddresses` and `MCCNMAgent` instantiate the module they are named after. `MCEndpoints`, `MCHost` and `MCCtr` instantiate several modules that share no state; a behaviour is that of one of them. |

**Settings.**  `WorkloadEndpoint`, `CNIEndpoint`, `CNMAgent` and `ServiceStarter` are asked
questions that need different surroundings: which containers there are, what may fail, which timers
pass.  These are the fields of a record, `setting`, which is a variable that Init picks from the
constant `Settings` and that never changes.  A property that does not hold in every setting names
the setting it is about (`Orderly`, `Calm`, `Faults = {}`).

**Abstractions.**  Borrowers are a set: the code appends, filters and asks for emptiness, never for
an order.  Host names are part of a container's identity.  Pools are names, `CIDR` their addresses;
lookups of pools read only and appear as constants.  Get is atomic with the local code after it:
everything an operation decides, it decides from what Get returned.  An operator whose comment
describes a mistake (`RetryOnceMore`, `AllocIPUnchecked`, ...) is a mutant: it is used by no
specification, and serves to show that a property would notice the mistake.

**Faults** (`Faults`): a process dies between two calls (`"crash"`), a call fails without effect
(`"error"`), a call takes effect and its answer is lost (`"timeout"`).

**dockerd** is modelled from how barrel uses it: it creates a container or refuses, serialises what
it does to one container, asks for the addresses in a container's configuration when it starts,
gives them back when it stops and does not care whether that succeeded, removes stopped containers.

## 3. The runs

| Run | Instance | Shows |
|---|---|---|
| `pool_faults` | 2 processes, 1 address, all faults, 6 changes of a record | `TypeOK`, `NoLostUpdate`, `GivesUpOnlyUnderContention` |
| `pool_ownership` | 2 processes, 1 address in 2 pools, crashes and errors, 3 changes per record | `OwnedOnce`, `OnlyFaultsLeak`, `ImplementsLedger` |
| `container_faults` | 2 processes, 2 containers, 2 pools of 1 and 2 addresses, containers created on the first (`CreateNets` = 1), with a fixed, a named (`--ip`) or a dynamic address, and connected to the second, all requests, all faults | `HeldExclusive`, `SysInv` |
| `container_clean` | 2 processes, 2 containers created on 2 networks at once (`CreateNets` = 2), 2 addresses, no faults, clients that wait, fairness | `NothingLeftBehind`, `JobsEnd` |
| `endpoints` | docker networks: 1 endpoint with labels under all faults; 2 networks that share one of 2 pools, with operators and failing calls; 2 endpoints of 1 network without faults.  CNI: 3 containers, the first makes the endpoint and the others name its address, with crashes and errors, and without; 2 containers with a fixed IP that name the same address, overlapping in every way but the making of the endpoint, and the same with one deletion at a time, crashes and errors | `WepInv`, `NothingIsOverwritten`, `ConcurrentCreatesSucceed`, `LabellersEnd`; `EndpointInv`, `CleanHandOver` |
| `agent` | 2 endpoints of 1 container with timers, failing calls and a stop; 2 containers whose pollers expire, one whose match always fails; 2 containers and nothing in the way; fairness | `AgentInv`, `NoLostWakeup`, `ServedNotifyReturns`, `PollersEnd`, `RecordsFollowDocker` |
| `host` | services: default mode with agent, proxy only with 2 listeners, plugins only, an unknown mode; bodies of up to 5 pieces, failing reads and writes; up to 3 bytes each way of a linked connection, either peer hangs up; every list of up to 4 of 7 paths, nested and similarly named; up to 4 records with repeated keys in transactions of 2, all faults; fairness | `StarterInv`, `NilMeansClean`, `StopReturns`; `BodyIntact`; `LinkIntact`, `HangUpEnds`; `RecycledOnce`; `BatchWritten` |
| `ctr` | the real graph with every command but two, and all graphs over 3 units, cycles included, with 1 or 2 declared; failing closures; fairness.  3 blocks of 2 pools, one of them without a host at first, 2 hosts, blocks of one address.  3 containers on 2 nodes, 2 addresses, 2 operators | `InitInOrder`, `CyclesAreRejected`, `InitReturns`, `ClientsReady`; `BlocksInv`, `BlocksKept`; `AddressesExclusive` |
| `borrowed_kept`, `lock_failure`, `version_reuse`, `disconnect_leak` | smallest that show it | violations, below |

**Bounds.**  A record is changed by one process at a time, so two processes reach every race of two
operations; since a process starts further operations, the two halves of a race can each be followed
by others, which the races on a deleted and re-created record need.  `MaxRev = 6` of `pool_faults`
leaves room for three lost races of a borrow (`retryMaxCount = 3`) plus creation, deletion and
re-creation; `MaxRev = 3` of `pool_ownership`, where retries play no part, leaves room for creation,
a change or lock, and deletion under each of the two pools.  One address makes every request
compete; the runs on two pools or two addresses are there for what needs them (the same address
under two keys; a create on two networks whose second allocation fails).  In `ContainerAddresses`
every container is created once and started, connected or disconnected `MaxAsked` times; `MaxRev` is
then large enough never to matter.  Deadlock is not checked, because a run ends when its bounds are
used up; that requests do end is `JobsEnd`.

Elsewhere: the races of `WorkloadEndpoint` are between one request and one goroutine on one object,
or between two requests for one profile or pool.  `CNMAgent` needs two endpoints, so that one caller
can send while another holds a mutex, and three channels, so that a new one is at hand when the last
two are still being sent on.  `CNIEndpoint` has as many containers as a hand-over has parties (who
frees, who deletes, who comes), each created up to twice, and five inodes for lock files that are
unlinked and made again: one for each container that has a file open and each address, and one to
spare, so that there always is a new one.  `BlockSize = 1` is empty or not, which is all the tool
asks. Two transactions' worth of records reach every remainder of the division by `TxnLimit`.  A
body of five pieces has a first, a last and a failing piece with others between.  Seven paths are
nested, apart, or prefixes of one another as strings only.

**What is assumed of clients** is part of the setting where the code leaves it to them.  In
`CNIEndpoint`, `Overlap` says what may happen at the same time, and section 6 what breaks when more
does.  In `CtrAddresses` operators recycle only leaked endpoints and give back only what they
assigned: the commands check neither.

**Fairness.**  Weak fairness of the steps of each process inside an operation or a request:
goroutines are scheduled.  That etcd, Calico and dockerd calls end is an assumption where the code
does not bound them with a context: the drivers do, the proxy's handlers call the pool with
`context.Background()` (`create.go:93` and `:156`).  New calls, faults and dockerd's decisions are
not fair.  The labeller's deadline and the pollers' timeouts pass, since time does.  The callers of
the CNM agent have strong fairness: they wait for a mutex the loop takes again and again, and Go's
mutexes do not starve a waiter.  Open requests of the proxy and peers of a linked connection need
not end by themselves.

### What the violations show

* `borrowed_kept`: `UnallocFixedIP(ip, false)` must fail while a container has borrowed the address
  (`fixed_ip_pool_test.go:101`).  It checks the borrowers, locks the record with the Retired bit
  and deletes it, but `BorrowFixedIP` does not look at the status: a borrow between the lock and
  the delete succeeds, and the borrowed address is freed.
* `lock_failure`: "Lock the ip first" (`fixedippool.go:229`).  If the update that sets the lock
  fails, the error is logged and the record is deleted all the same.  With an assignment in
  between, the address of a running container is freed.
* `version_reuse`: a compared write that fails means "the ip is modified by another container"
  (`fixedippool.go:81`), but one that succeeds does not mean that it is not: `UpdateElseGet`
  compares the version of the key (`etcd.go:142`), which starts again when the key is deleted.
  The run needs three containers and no fault.  A plain container that named the address is being
  started: `AssignFixedIP` reads the record, at version 2, of a container that is being removed.
  The removal deletes the record and frees the address.  A third container's create allocates it
  again, dockerd refuses the container, and the roll-back locks the new record, which thereby
  reaches version 2.  Now the assignment writes: the versions agree, the lock is overwritten, and
  the container is granted an address whose record the roll-back deletes and which it frees.
* `disconnect_leak`: `ReleaseContainerAddressesByIPPools` takes the addresses out of the
  `ContainerInfo` and unallocates them without returning them first, so a borrowed address is
  refused, stays allocated, and is forgotten.

## 4. The properties

An invariant of a run may be a conjunction of named parts, each stated and commented in its module;
the names in brackets are the parts.

* `NoLostUpdate`: as long as a record was not deleted and created again, an update that is written
  replaces exactly what its operation had read.
* `GivesUpOnlyUnderContention`: ErrMaxRetryCountExceeded means at least `retryMaxCount` changes by
  others since the call.
* `OwnedOnce`: an address has at most one owner, a record (under one pool) or an operation in
  flight, and what is owned is allocated.  `ImplementsLedger` is the same promise as a
  specification.
* `OnlyFaultsLeak`: until the first fault every allocated address has an owner (`NothingLeaks`).
* `HeldOnce`: no two containers are granted the same address; a granted address is allocated, and
  its record, if there is one, says in use.  It does not hold as it stands (`lock_failure`,
  `version_reuse`).  `Unprotected` names the steps that can break it: a compared write to a record
  that was deleted and created again since it was read; UnallocFixedIP going on to delete a record
  although the call that locks it failed; an allocation whose Put took effect, reported an error,
  and was undone in Calico.  `HeldExclusive` says that nothing else can: `HeldOnce` holds until the
  first such step, whatever requests overlap, calls fail, answers are lost and processes die.
* `SysInv` [`SysTypeOK`, `FixedAddressIsKept`]: as long as a container exists, the records of its
  fixed addresses do, and no other container was created with them; under every fault, until the
  first unprotected step or the first connect whose answer from dockerd is lost.  The latter is a
  second exception: the handler takes an error for a refusal and unallocates the address
  (`netconn.go:107-111`), although dockerd may have connected the container.
* `NothingLeftBehind`, `JobsEnd`: clients that wait for their answers, and no faults: requests end
  and leave nothing allocated, recorded or borrowed but for existing containers.  (With overlapping
  requests it does not hold: a container can be removed by name before its create handler has
  recorded its addresses, and the late record is never released.)
* `BatchWritten` [`BatchTypeOK`, `WrittenOnce`, `NoErrorMeansAllWritten`]: PutMulti reports success
  only if every record is in etcd with the last value given for its key, and no two of its unordered
  transactions write one key.
* `WepInv` [`TypeOK`, `DeletedStaysDeleted`, `ProfilesExist`, `CreatedNetworkIsAnnotated`],
  `NothingIsOverwritten`, `LabellersEnd`: the labelling goroutine neither revives a deleted endpoint
  nor undoes what Join wrote, nor the other way round, and it ends; endpoints name profiles that
  exist, and created networks have annotated pools.  `ConcurrentCreatesSucceed`: endpoints that race
  for one profile all get it.
* `AgentInv` [`AgentTypeOK`, `OneWaiter`], `NoLostWakeup`: the agent's loop never sleeps on a
  poller, and has at most one channel registered, on which `notifier.remove` (which drops two of
  several) depends.  `ServedNotifyReturns`, `PollersEnd`, `RecordsFollowDocker`
  [`RemovedIsForgotten`, `CreatedIsUpdated`]: dockerd's requests come back, pollers end, and the
  records follow what dockerd shows.  A poller whose match fails skips the check of its timeout
  (`agent.go:296`) and lives on; `PollersEnd` says that only such a poller does (`Refusing`: of a
  creation, shown by dockerd, whose network's pools cannot be found), and that the others end beside
  it.
* `EndpointInv` [`CNITypeOK`, `EndpointKept`, `LinksLead`]: the container that runs on a CNI
  endpoint is its tenant and the endpoint is there, and what a link points to exists, also after
  crashes and failed operations on files.  The links are counted before the tenant is looked for;
  where two containers are deleted at once, a link may appear between the two steps.  `LinksLead`
  claims nothing then (section 6); the other parts hold. `CleanHandOver` [`OneUser`, `NothingLeft`]:
  one user at a time, and the last one to go cleans up (without faults and overlaps, `Orderly`, and
  for the latter without a container that both has a fixed IP and names it: section 6).
* `StarterInv` [`StarterTypeOK`, `OnePartSends`, `AllDisposed`], `NilMeansClean`, `StopReturns`:
  nothing is sent on a closed channel, all services are disposed of before start returns, it always
  returns, and no failure is lost between the services and start.
* `InitInOrder` [`InitTypeOK`, `DependenciesFirst`, `InitOnce`], `CyclesAreRejected`, `InitReturns`:
  initialisation in dependency order, once per unit, an error exactly when needed units wait for one
  another, and never an endless recursion.  `ClientsReady` [`ReadsAreSet`, `NoNilClient`]: the graph
  written by hand has what the closures and the commands use.
* `BlocksKept` [`UsedBlocksKept`, `OnlyAskedFor`], `BlocksInv` [`BlocksTypeOK`, `NoneForgotten`]:
  what the block commands read may be stale when they act on it; they still take nothing that is in
  use; `release blocks` takes only blocks of the pool and node it was given, `release block` only a
  block of the host it was given; and `release blocks`, when it reports no error, has missed nothing
  but blocks without a host, which it claims to have released (section 6).
* `AddressesExclusive` [`HolderExclusive`, `RecordsAreAllocated`]: operators and containers never
  hold one address together, and no record outlives its allocation.
* `BodyIntact` [`NoHole`, `ReadIsComplete`]: a client sees a prefix of dockerd's answer.  A prune
  handler that gets no error has all of it although its client went away; a create handler has all
  of it if its client could be written to, or received all.  (`ForwardAndRead` stops at the first
  failed write and returns what it has, without an error.)
* `LinkIntact` [`BothClosed`, `OutputDelivered`], `HangUpEnds`: a linked connection ends when one
  peer goes, with both sides closed, and a client that only listens gets all the output.
* `RecycledOnce` [`AllRecycled`, `NoneNested`]: whatever the order and nesting, every mount that is
  under the configured prefixes with all the mounts around it is removed, once, if the names of the
  mounts are apart (none is a prefix of another as a string without being its parent directory).

## 5. The proofs

The theorems hold for every value of the constants, so for every number of processes, containers,
pools, addresses, networks, endpoints, operators and units and for every bound.  They rest on the
assumptions named in the modules that declare the constants: `CIDR` maps pools to addresses, the
null values are not real values, `retryMaxCount` is positive, the settings are well-formed records,
the faults are among those modelled.  A theorem with a further hypothesis is named as such below.

Each proof has an inductive invariant (`...IInv`) and a step per action.  The properties themselves
are seldom inductive; what follows says what had to be added and why.

`FixedIPPoolProofs`.  `TypeCorrect` comes from the inductive invariant `IInv == TypeOK /\ VersionInv`,
on which the next two theorems rest as well.  `NoLostUpdate` alone is not inductive: the store compares
*versions*, so one has to know that equal versions of one incarnation mean equal values.
`VersionInv` says so through the revision of a key: version + created = rev + 1 for every record
and every copy of one, a copy's rev is at most the record's, and if the two are equal, so are the
slots.  A write compares versions; within one incarnation equal versions give equal revs, hence
equal slots: `NoUpdateIsLost`.  The same invariant bounds the retries of an operation by the changes
of its record since the call, which gives `GivingUpMeansContention`.  The proof has one step per
action; lemmas describe the shapes a frame may take after a return, an update and a failure.

In the same module, `OwnershipIsUnique` and `PoolImplementsLedger` assume that no answer is lost
(`"timeout" \notin Faults`): a Put that takes effect and is then undone leaves a record without an
allocation.  Every step is first classified by what it does to the records, to Calico and to
the owners (a quiet step, taking an address, recording it, deleting a record, freeing); the
invariant and the refinement are then proved from the classification.

`NothingLeaksWithoutFaults` is the converse of `OwnedOnce`, for any mix of operations that overlap:
until the first fault, what Calico has given out is in a record or in the hands of an operation.  It
uses the same classification.  An allocation that finds a record in its way gives the address back,
and one that deletes a record goes on to free the address; `OwnedOnce` is needed for the latter,
since an address that is freed must not be the one another operation has just taken.

`ContainerProofs`.  `HeldExclusively` is about the whole system of `ContainerAddresses`: handlers,
drivers, helper and pool, all requests, all faults.  Its invariant, `SysIInv`, has four parts:
`VersionInv` and the types (`ContainersTyped`); that a process inside the pool is there for the
stage of its job and on its address (`Linked`), and holds what its operation is about to write
(`Prepared`); the pool's `OwnedOnce`; and `UsedOnce`, the heart of it.  A *user* of an address is a
container it was granted to, or a process that counts on nobody else using it: one that has marked
the record and has not told dockerd yet, one that is taking a mark off, one that knows that what it
gives back has no record, one that has locked a record and deletes it.  `UsedOnce` says that an
address has one user at a time and under one key, and that while it has one it is allocated, its
record says in use, and no operation is about to record or free it.  The last two parts hold until
`broken`.  Every action is first classified by its effect (`Effect`): quiet; a container's address
going to the process that releases it; a marked one going to a container; Calico giving one to a
container or to a process; marking, unmarking, recording, erasing, freeing.  Ten lemmas show that
each effect preserves `UsedOnce` and `OwnedOnce`; the lemmas on the actions show that each has one of
the effects, the compared writes by `CompareIdentifies`: unless the step is `Unprotected`, a write
that succeeds replaced the record that was read.

`FixedAddressProofs`.  `FixedAddressesKept` is `SysInv` for the same system, up to the first unprotected
step or lost answer to a connect: after the latter the handler's claim and the container's are on one
address.  Nothing in the code ties an
address to its container while it is held only in a handler's variables, so the invariant,
`KeptIInv`, is about who may delete the record of an address (`ClaimsOnce`).  A process *claims* an
address that it has allocated for a container dockerd has not created or connected yet, and one that
it gives back or has on its list to give back.  A container *has* the addresses it was created with
or connected to, and those that its ContainerInfo lists or its create handler is about to list.  An
address has one claim, or one container, and a record; the only claim without a record is that of
the process that deleted it and is freeing the address.  Three facts keep claims apart.  A
ContainerInfo that is taken by a release belongs to a container that was removed (`DockerInv`: what
dockerd has done with the containers of a job), so what it lists nobody uses.  A disconnect finds in
the ContainerInfo no address that its container still has, because dockerd has taken the
addresses of the network away before (the last part of `ClaimsOnce`).  And what the disconnect writes
back replaces the ContainerInfo it read (`InfoInv`): unlike the pool's records a ContainerInfo is not
created twice, since its one writer is the create handler, so equal versions mean equal values.
`SysIInv` is needed for the steps inside the pool: a record is deleted only by the process that has
locked it (`Effect`), and only a claim leads there.  Outside the pool every action is shown to pass
claims on (`Flow`): a new claim was the process's own or is on what a container has just lost, and
what a container gains its handler claimed.

`NothingIsLeftBehind`, in the same module, is `NothingLeftBehind` assuming `Clean`, the setting of
the `container_clean` run: nothing fails, clients wait for their answers, name no addresses, and
create, start, stop, remove and prune.  (What goes wrong otherwise is in section 6 and in
`disconnect_leak`.)  That all is in order when no request is under way is not inductive: in between,
every record and every allocation is somebody's unfinished business, and the invariant, `CleanInd`,
says whose.  `OneServer`: a container has one process at a time, from the request that waiting
clients send one after another to the end of the release, which runs after its answer. `RecordOK`: a
record is kept for the container that has the address or the process that claims it; it says in use
only while dockerd, the driver or a delete uses the address; and its borrowers are the containers
that have the address, without the one whose create is still to borrow it (`ToBorrow`), with the one
whose release is still to return it (`ToReturn`).  `AllAccounted`: what Calico has allocated is
recorded, held by a container, or in the hands of an operation or of the driver that gives it back.
`ContainerOK`: the ContainerInfo lists what the container was created with, from the end of its
create to its release.  `UpdateOK` carries the steps inside the pool.  By `OneServer` and
`ClaimsOnce` nobody else works on the record that an operation has read, so that every compare
succeeds at once, no mark or borrower is lost, and UnallocFixedIP finds the record unused and
without borrowers.  That matters because handlers only log these errors.  Every action outside the
pool is shown to satisfy `Outside`: it touches only containers of its own job, and hands on what it
gives up.

`EndpointsProofs`.  `WepIsSound`, `NothingOverwritten` and `CreatesSucceed`.  Join and the labeller
write back a copy they read earlier.  `WepIInv` says of every copy that its revision is at most that
of the object and that, if the two are equal and the object exists, the copy is the object; of every
network that the pools it no longer has to annotate carry a network's ID.

`CNIProofs`.  `EndpointsStand` is `EndpointInv` for any number of containers, handlers that run at
the same time and die or fail anywhere, assuming `Tidy`: of what clients might overlap, nobody names
an address while its endpoint is being made and no two containers are deleted at once.  (Either
breaks it with a third container, as TLC shows; two containers, which the `endpoints` run also lets
overlap in deletion, are too few.)  The lock does not carry the proof by itself, because it is a
lock on an inode and deleting an endpoint unlinks the file.  The invariant, `CNIInd`, says of each
handler which operation its place belongs to, which address it works on, which lock file it has open
and whether it holds that lock; that a container which got an address from CNI is the only one to
know of an endpoint there until it has made it (`FreshOK`, `MakingOK`); that a container which runs
on an endpoint is its tenant (`UserOK`); that a maker that could not connect or become the tenant,
and takes its files back, is alone with them.  Two parts are about the unlinked file.  `NamerOK`:
who waits on a lock file that has been replaced will find that the owner is gone, and go away.
`DropperOK`: who has decided to delete holds the lock of the file that is there now, and nobody else
uses the endpoint or has a link to it; between the count of the links and the look for the tenant,
whoever has got a link is the tenant and will be found, because with one deletion at a time it
cannot free the endpoint.  That an inode can be chosen for a new lock file is the pigeonhole lemma
`InodeLeft`.

`CleanlyHandedOver` is `CleanHandOver`.  `OneUser` follows from `CNIInd`.  `NothingLeft` is about
the end of a behaviour, so its invariant, `LeftInd`, says who will still clean up: a link belongs to
a container with a fixed IP that is not removed; a tenant will free its endpoint (`TenantOK`); an
endpoint, or a part of one, that stands is being made, used or deleted, or is complete and has a
link (`StandsOK`); the address of a container without fixed IP is allocated while it runs only
(`LentOK`). When all containers are removed, nobody is left, hence nothing.

`CNMAgentProofs`.  `AgentIsSound` and `NoWakeupIsLost`.  `AgentIInv` says where the loop's channel may
be (with the notifier between wait and cancel, in the hands of the one caller that holds the
notifier's mutex, with the goroutine of `notifier.wait`), that `pSize` counts the pollers, and that
before the loop registers a poller has left a signal or is about to.  `PanicNeedsATimer`: a send on a
closed channel needs the poll interval or the end of barrel to cut in on a signal; as long as the
loop leaves its select only with a signal, nobody sends on the channel it closes.

`HostProofs`.  `LinkIsIntact`: a goroutine that has ended has closed the side the other reads from,
and with a client that only listens dockerd's side ends first, with all it sent read and delivered.
`BodyIsIntact`: as long as the client can be written to it has all that was read, and a reading
handler has what was read always; a prune handler goes on reading to the end.  `BatchIsWritten`: the
operations are one per key that was given, and the chunks divide them (the lemmas on `Chunk` and
`Length` are about the division by `TxnLimit`); what a transaction that was sent will write nobody
else has written.  `StarterIsSound` and `NilIsClean`: the channel's count of nil errors is the
number of services that ended well, of a service's goroutines one at most has won the right to send,
and the order of main, services and channel is fixed.

`CtrProofs`.  `BlocksComplete` and `BlocksAreKept`: each key and each block in hand was asked for, and
each block that was asked for, was empty all the time and still has a host is still in hand.
`AddressesAreExclusive`: each address is claimed by one container, operator or recycling, and a record
that is being unallocated is retired and then absent, so that nobody else takes it.

Of `InitUnits`, `InitialisedInOrder` (from `InitTypeCorrect`, `DependenciesComeFirst` and
`ClosuresRunOnce`) holds for every set of units and every graph, cyclic ones included, assuming only
that graphs and declarations consist of units.  `DependenciesFirst` says nothing of a unit that is
still waiting, so the invariant is about the call stack (`StackInv`): of the dependencies a frame
has asked for, all are initialised, except that the last one of a frame with a call above it is the
unit of that call; no unit is on the stack twice, and none on it is initialised.  When the deepest
call returns, the frame below it thereby has all it asked for; when a frame has asked for
everything, its unit may run.

`CyclesRejected` adds (`CycleInv`) that only needed units are on the stack or initialised, and that
the loop has initialised every declared unit it has passed.  The error is given when a unit is asked
for that is on the stack, and the frames from there up are then a cycle.  When the loop ends well,
the initialised units are closed under requirements, hence exactly the needed ones; were there a
cycle among them, the one of its units that ran first would have run before one it requires.  "First"
is the least index in the order of execution, and that it exists is the lemma `LeastNatural`, from
the well-foundedness of the naturals; this is how the proofs replace induction over data.
`ToolClientsReady` assumes `TheTool`: the graph is that of ctr.go, and the command is one other than
the two that are known to use a client that does not exist (section 6).  Then the declared and
required units cover what the closures read and the command uses.

**Only model-checked.**  Liveness: out of the prover's reach.  `RecycledOnce` is about a sort and a
fold over sequences of characters, which would need induction over data.

## 6. Not modelled

* Mocks, the embedded etcd and other test support.
* Conversions: the JSON helpers (`utils/jsonnodes.go` and others), the codecs' formatting, HTTP headers,
  the rewriting of create and inspect messages for CNI, of the CNI configuration, of addresses to
  CIDRs.  Logging and command line parsing.
* Reads without consequence: lookups of IP pools (constants here), inspect, list ips and diag commands
  beyond the clients they use.
* Code without a caller: `ReserveAddressForContainer`, the store's `Update`.
* What runc, CNI plugins, Calico, etcd and dockerd do inside; they appear as barrel sees them.

**Known limits**, met while modelling, which the properties and settings above leave out:

* Pool and containers: a lost answer to the Put of an allocation leaves a record without an
  allocation (`OwnedOnce` is stated without lost answers); the lock of UnallocFixedIP does not
  protect when the call that takes it fails, a record that is gone meanwhile (`ErrKVNotExists`)
  included; versions are reused when a record is created again (`HeldExclusive` and `SysInv` are
  stated up to the first of these three).  UnassignFixedIP does not retry a lost race; an address
  given out by network connect is not recorded.  A lost answer to a connect makes the handler
  unallocate an address that the container may have by then.  Not modelled: a create on several
  networks that names an address on some of them only, and a labelled container with an address of
  the client's own (`--ip`) that is connected or disconnected later.
* Services: the context that bounds Dispose is made before Serve, so a barrel that has been up for
  longer than the timeout gives open requests no time; the plugin service answers every Dispose with
  an error.
* CNM agent: when the poll interval passes while a signal is being delivered, `next` closes the
  channel under the sender and the plugin panics; a disposed agent registers channels it never
  receives from; poll results are kept per container, so two endpoints of one container can hide
  each other's change; a failed commit is only logged; a poller whose match fails never times out
  (`Refusing`), and keeps the loop polling.  `NewAgent` (`agent.go:50-57`) does not set the docker
  client that `poll` uses (`:179`); the agent is modelled as if it did.  (`app.go` gives the driver
  a nil agent today, so these concern the agent as its package offers it.)
* CNI: deleting an endpoint unlinks the locked file, so that who waits on the old file and who locks
  a new one are both inside: with overlapping deletions and a third container that breaks
  `EndpointKept`, and a create that opens the lock file anew during a deletion makes the handler
  skip `cni del`.  An endpoint can be borrowed before its maker occupies it; the maker then fails,
  and its roll-back deletes the endpoint under the borrower.  When the creation of a container with
  a fixed IP that it names fails after it borrowed the endpoint, `FixedSubhandler.HandleDelete`
  looks for the link it has not got yet, and the tenant file stays.  `GetNetEndpointRefcount` is, as
  its comment says, not multiprocess safe: while one container is removed, another with a fixed IP
  may connect after the links were counted and free its tenancy before the tenant file is looked
  for, so that the endpoint goes under its link.  ReadDir and the Readlinks after it are one step
  here; a Stat that fails counts as no tenant, as in the code.  An unlink or unmount that fails
  within `DeleteNetEndpoint` is only logged there, and is not modelled.
* Network driver: a lost answer to the create of an endpoint, and the veth pair of a failed Join,
  are left to dockerd or the operator.  A RemoveVeth that fails in Leave (`network.go:504`) is not
  modelled.
* HTTP proxy: `ForwardChunked` does not close its body; `ForwardAndRead` truncates an answer of
  several pieces when the client leaves, so that the create handler may fail to find the container's
  id in it and record nothing; the deferred Close of the other bodies is not modelled, nor is the
  buffered reader of a hijacked connection, which `proxy.go` discards with the bytes it may hold; a
  client that half-closes a linked connection loses the rest of the output; a failed request to
  dockerd reaches the client as an empty answer, or the prune handler as a nil response.
* ctr: `release ip` prints its message of success when unassigning failed; `release wep` passes the
  namespace as the pool, so the address stays in use; `diag pool` calls containers of other nodes
  leaked; `release block` without a host and `diag node` use clients that do not exist; `release
  block` requires a `--pool` and ignores it.  What ReleaseAffinity answers for a block that is not
  the host's is Calico's business (its source is not part of the repository), so both an error and
  nil are modelled; with nil, `release blocks` reports success for a block without a host, which
  stays.  A failed lock ends UnallocFixedIP in `CtrAddresses`, unlike in the code (`lock_failure` is
  about that).
* Mounts: minify takes `/a/12` for a path below `/a/1`.

## 7. Plan

1. *Done:* the modules of section 2, so that every component with state of its own is modelled.
2. *Done:* the theorems of section 5.
3. *Left:* liveness and `RecycledOnce` stay with TLC; requests that overlap in `NothingLeftBehind` would
   first need the gaps of section 6 closed in the code.
