----------------------------- MODULE CNIEndpoint -----------------------------
(***************************************************************************)
(* The CNI handler (cni/handler, cni/subhandler) and its store             *)
(* (cni/store/filesystem): network endpoints that outlive their containers.*)
(*                                                                         *)
(* An endpoint is a handful of files of an address in one directory:       *)
(*   <ip>         a mount of the network namespace                         *)
(*   <ip>-owner   the container whose namespace it is, created with O_EXCL *)
(*   <ip>-tenant  the container that uses it now, created with O_EXCL      *)
(*   <ip>-flock   a file to lock                                           *)
(*   <id>         a symbolic link to <ip> for each container tied to it    *)
(*                                                                         *)
(* runc calls the handler in a process of its own whenever it creates,     *)
(* starts or deletes a container; the docker proxy calls RemoveNetwork when*)
(* a container is removed.  dockerd does one thing at a time to a          *)
(* container.  An action is one operation on the files, or the lock.       *)
(***************************************************************************)
EXTENDS Naturals, FiniteSets

CONSTANTS
    Containers, IPs,
    NoContainer, NoIP,
    Inodes,         \* enough inodes that a new one is always at hand
    MaxCreates,     \* bound: how often a container is created (started again)
    CNISettings     \* what the instance is about, see CNISetting

CNISetting == [
    containers : SUBSET Containers,     \* the containers clients create
    \* the subhandler of each container, and the address one with a specific IP names
    kindOf : [Containers -> {"fixed", "fixedspecific", "specific"}],
    want : [Containers -> IPs],
    \* what clients let overlap: "naming" an address while its endpoint is being made,
    \* "deleting" two containers, "creating" one that names the address while another is
    \* being deleted
    overlap : SUBSET {"naming", "deleting", "creating"},
    faults : SUBSET {"error", "crash"}]

ASSUME NullAssumption ==
    /\ NoContainer \notin Containers /\ NoIP \notin IPs
    /\ Containers \cap {"absent", "file", "empty"} = {} /\ NoContainer # "empty"
ASSUME FiniteAssumption == IsFiniteSet(Containers) /\ IsFiniteSet(IPs)
ASSUME InodeAssumption ==
    /\ Inodes \subseteq Nat \ {0} /\ IsFiniteSet(Inodes)
    /\ Cardinality(Inodes) > Cardinality(Containers) + Cardinality(IPs)
ASSUME MaxCreatesAssumption == MaxCreates \in Nat
ASSUME CNISettingAssumption == CNISettings \subseteq CNISetting

VARIABLES
    cniSetting,     \* a member of CNISettings that never changes
    owner, tenant,  \* the contents of <ip>-owner and <ip>-tenant, which may be "empty"
    netns,          \* <ip>: absent, a plain file, or a mount of a container's namespace
    link,           \* <id>
    flock,          \* the inode of <ip>-flock, 0 if there is no such file
    locked,         \* who holds the lock of each inode
    ipam,           \* CNI's allocations
    proc,           \* the handler at work for each container
    creates

files == <<owner, tenant, netns, link>>
locks == <<flock, locked>>
cniState == <<owner, tenant, netns, link, flock, locked, ipam, proc, creates>>
cniVars == <<cniSetting, cniState>>

KindOf == cniSetting.kindOf
Want == cniSetting.want
Overlap == cniSetting.overlap
CNIFaults == cniSetting.faults

PCs == {"stopped", "removed", "running",
        "flock", "lock", "get", "occupy",                           \* HandleCreate
        "prepared", "made",
        "owner", "file", "mount", "connect", "tenant", "undo",      \* HandleStart
        "free", "disconnect", "drop", "stat",                       \* HandleDelete, RemoveNetwork
        "rmtenant", "rmowner", "rmflock", "rmnetns"}                \* DeleteNetEndpoint

\* op is the handler, ip the address of the endpoint it works on or the container
\* has, hook whether the container got its address from CNI, fd the lock file.
Proc == [pc : PCs, op : {"none", "create", "start", "delete", "remove"},
         ip : IPs \cup {NoIP}, hook : BOOLEAN, fd : Inodes \cup {0}]

Idle == [pc |-> "stopped", op |-> "none", ip |-> NoIP, hook |-> FALSE, fd |-> 0]

Fixed(c) == KindOf[c] \in {"fixed", "fixedspecific"}
Specific(c) == KindOf[c] \in {"specific", "fixedspecific"}
Mounted(ip) == netns[ip] \in Containers

ProcGoto(c, pc) == proc' = [proc EXCEPT ![c].pc = pc]

(***************************************************************************)
(* The store.                                                              *)
(***************************************************************************)

\* GetNetEndpointByIP and GetNetEndpointByID: no endpoint, an endpoint, or an
\* error when its owner file is missing.  A link to a missing file finds nothing.
Get(ip) == IF ip = NoIP \/ netns[ip] = "absent" THEN "nil"
           ELSE IF owner[ip] = NoContainer THEN "error" ELSE "found"

\* FixedSubhandler asks by container, the others by address.
Target(c, byID) == IF byID THEN link[c] ELSE Want[c]

GetNetEndpoint(c, byID) == Get(Target(c, byID))

(***************************************************************************)
(* GetFlock, Lock, Unlock.  The lock belongs to the inode that was opened. *)
(***************************************************************************)

FDs == {proc[c].fd : c \in Containers} \cup {flock[ip] : ip \in IPs}

OpenFlock(c, ip, pc) ==
    LET inode == IF flock[ip] # 0 THEN flock[ip] ELSE CHOOSE i \in Inodes : i \notin FDs
    IN /\ flock' = [flock EXCEPT ![ip] = inode]
       /\ proc' = [proc EXCEPT ![c].fd = inode, ![c].pc = pc]

LockFlock(c) == locked[proc[c].fd] = NoContainer /\ locked' = [locked EXCEPT ![proc[c].fd] = c]

\* Unlock, or the end of the process.
Unlocked(c) == [i \in Inodes |-> IF locked[i] = c THEN NoContainer ELSE locked[i]]

\* A handler returns: its lock is released.
Return(c, p) == proc' = [proc EXCEPT ![c] = p] /\ locked' = Unlocked(c)

(***************************************************************************)
(* HandleCreate.                                                           *)
(***************************************************************************)

\* External: what clients that wait for a container's start, or for the end of a
\* deletion, do not overlap.
Unmade(c) == Fixed(c) /\ link[c] = NoIP
BeingMade(c) == (Unmade(c) \/ proc[c].op = "start") /\ proc[c].pc \notin {"stopped", "removed"}
Naming(c) == Specific(c) /\ proc[c].op = "create"
Deleting(c) == proc[c].op \in {"delete", "remove"} /\ proc[c].pc # "get"
Patient(c) ==
    \A d \in Containers \ {c} :
        /\ "naming" \in Overlap \/ ((Specific(c) => ~BeingMade(d)) /\ (Unmade(c) => ~Naming(d)))
        /\ "creating" \in Overlap \/ (Specific(c) => ~Deleting(d))

Alone(c) ==
    \A d \in Containers \ {c} : /\ "deleting" \in Overlap \/ ~Deleting(d)
                                /\ "creating" \in Overlap \/ ~Naming(d)

\* A mistake: the endpoint is looked up and borrowed without the lock.
CreateUnlocked(c) == "get"

CreateFirst(c) == IF Specific(c) THEN "flock" ELSE "get"

HandleCreate(c) ==
    /\ c \in cniSetting.containers /\ proc[c].pc = "stopped" /\ creates[c] < MaxCreates
    /\ Patient(c)
    /\ proc' = [proc EXCEPT ![c] = [Idle EXCEPT !.pc = CreateFirst(c), !.op = "create"]]
    /\ creates' = [creates EXCEPT ![c] = @ + 1]
    /\ UNCHANGED <<files, locks, ipam>>

CreateFlock(c) ==
    /\ proc[c].pc = "flock" /\ proc[c].op = "create"
    /\ OpenFlock(c, Want[c], "lock")
    /\ UNCHANGED <<files, locked, ipam, creates>>

CreateLock(c) ==
    /\ proc[c].pc = "lock" /\ proc[c].op = "create"
    /\ LockFlock(c)
    /\ ProcGoto(c, "get")
    /\ UNCHANGED <<files, flock, ipam, creates>>

Prepared(c, ip, hook) == [Idle EXCEPT !.pc = "prepared", !.ip = ip, !.hook = hook]

\* No endpoint: the CNI start hook is added.  An endpoint: it is borrowed.
CreateGet(c) ==
    LET byID == ~Specific(c)
    IN /\ proc[c].pc = "get" /\ proc[c].op = "create"
       /\ CASE GetNetEndpoint(c, byID) = "nil" -> Return(c, Prepared(c, NoIP, TRUE))
            [] GetNetEndpoint(c, byID) = "error" -> Return(c, Idle)
            [] GetNetEndpoint(c, byID) = "found" ->
                 /\ proc' = [proc EXCEPT ![c].pc = "occupy", ![c].ip = Target(c, byID)]
                 /\ UNCHANGED locked
       /\ UNCHANGED <<files, flock, ipam, creates>>

\* OccupyNetEndpoint.  The file stays, empty, when the write into it fails.
Occupied(c, ip) == tenant[ip] = NoContainer /\ tenant' = [tenant EXCEPT ![ip] = c]

OccupyFails(ip) ==
    \/ tenant[ip] # NoContainer /\ UNCHANGED tenant
    \/ /\ "error" \in CNIFaults /\ tenant[ip] = NoContainer
       /\ tenant' = [tenant EXCEPT ![ip] = "empty"]

\* BorrowNetEndpoint: occupy, write the namespace into the container's
\* specification; if that fails the tenant file is removed again.
Borrow(c) ==
    LET ip == proc[c].ip
    IN /\ proc[c].pc = "occupy"
       /\ \/ Occupied(c, ip) /\ Return(c, Prepared(c, ip, FALSE))
          \/ OccupyFails(ip) /\ Return(c, Idle)
          \/ "error" \in CNIFaults /\ UNCHANGED tenant /\ Return(c, Idle)
       /\ UNCHANGED <<owner, netns, link, flock, ipam, creates>>

(***************************************************************************)
(* runc creates the container; its hook calls CNI (external).              *)
(***************************************************************************)

CreateFails(c) == proc' = [proc EXCEPT ![c].pc = "get", ![c].op = "delete"]

RuncCreate(c) ==
    /\ proc[c].pc = "prepared"
    /\ \/ /\ proc[c].hook
          /\ \E ip \in IPs :
               /\ ipam[ip] = NoContainer
               /\ Specific(c) => ip = Want[c]
               /\ ipam' = [ipam EXCEPT ![ip] = c]
               /\ proc' = [proc EXCEPT ![c].pc = "made", ![c].ip = ip]
       \/ /\ ~proc[c].hook /\ Mounted(proc[c].ip)
          /\ ProcGoto(c, "made")
          /\ UNCHANGED ipam
       \/ CreateFails(c) /\ UNCHANGED ipam
    /\ UNCHANGED <<files, locks, creates>>

(***************************************************************************)
(* HandleStart.                                                            *)
(***************************************************************************)

Started(c) == [proc[c] EXCEPT !.pc = "running", !.op = "none"]

\* A start that fails: the container is killed and deleted.
StartFails(c) == [proc[c] EXCEPT !.pc = "get", !.op = "delete"]

HandleStart(c) ==
    LET nep == GetNetEndpoint(c, KindOf[c] = "fixed")
    IN /\ proc[c].pc = "made"
       /\ proc' = [proc EXCEPT ![c] =
                     IF ~Fixed(c) THEN Started(c)
                     ELSE CASE nep = "nil" -> [@ EXCEPT !.pc = "owner", !.op = "start"]
                            [] nep = "error" -> StartFails(c)
                            [] nep = "found" ->
                                 IF KindOf[c] = "fixed" THEN Started(c)
                                 ELSE [@ EXCEPT !.pc = "connect", !.op = "none"]]
       /\ UNCHANGED <<files, locks, ipam, creates>>

\* FSStore.CreateNetEndpoint: the owner file, with O_EXCL,
CreateOwner(c) ==
    LET ip == proc[c].ip
    IN /\ proc[c].pc = "owner"
       /\ IF owner[ip] = NoContainer
          THEN owner' = [owner EXCEPT ![ip] = c] /\ ProcGoto(c, "file")
          ELSE UNCHANGED owner /\ proc' = [proc EXCEPT ![c] = StartFails(c)]
       /\ UNCHANGED <<tenant, netns, link, locks, ipam, creates>>

\* whose clean-up removes it (a mount that failed panics on the nil endpoint before it
\* removes the empty file, too),
NotCreated(c) ==
    /\ "error" \in CNIFaults
    /\ owner' = [owner EXCEPT ![proc[c].ip] = NoContainer]
    /\ proc' = [proc EXCEPT ![c] = StartFails(c)]
    /\ UNCHANGED netns

\* an empty file,
CreateFile(c) ==
    LET ip == proc[c].ip
    IN /\ proc[c].pc = "file"
       /\ \/ /\ netns' = [netns EXCEPT ![ip] = IF @ = "absent" THEN "file" ELSE @]
             /\ ProcGoto(c, "mount") /\ UNCHANGED owner
          \/ NotCreated(c)
       /\ UNCHANGED <<tenant, link, locks, ipam, creates>>

\* and the mount.
Mount(c) ==
    LET ip == proc[c].ip
    IN /\ proc[c].pc = "mount"
       /\ \/ netns' = [netns EXCEPT ![ip] = c] /\ ProcGoto(c, "connect") /\ UNCHANGED owner
          \/ NotCreated(c)
       /\ UNCHANGED <<tenant, link, locks, ipam, creates>>

\* ConnectNetEndpoint: a link that exists is left as it is.  A container that
\* borrowed the endpoint is done; the one that made it becomes its tenant, or deletes
\* it when there is no link.
Connect(c) ==
    LET making == proc[c].op = "start"
    IN /\ proc[c].pc = "connect"
       /\ \/ /\ link' = [link EXCEPT ![c] = IF @ = NoIP THEN proc[c].ip ELSE @]
             /\ proc' = [proc EXCEPT ![c] = IF making THEN [@ EXCEPT !.pc = "tenant"]
                                                      ELSE Started(c)]
          \/ /\ "error" \in CNIFaults /\ UNCHANGED link
             /\ proc' = [proc EXCEPT ![c] = IF making THEN [@ EXCEPT !.pc = "rmtenant"]
                                                      ELSE StartFails(c)]
       /\ UNCHANGED <<owner, tenant, netns, locks, ipam, creates>>

Occupy(c) ==
    LET ip == proc[c].ip
    IN /\ proc[c].pc = "tenant"
       /\ \/ Occupied(c, ip) /\ proc' = [proc EXCEPT ![c] = Started(c)]
          \/ OccupyFails(ip) /\ ProcGoto(c, "undo")
       /\ UNCHANGED <<owner, netns, link, locks, ipam, creates>>

\* The deferred clean-up of CreateNetEndpoint: disconnect and delete, unlocked.
Undo(c) ==
    /\ proc[c].pc = "undo"
    /\ link' = [link EXCEPT ![c] = NoIP]
    /\ ProcGoto(c, "rmtenant")
    /\ UNCHANGED <<owner, tenant, netns, locks, ipam, creates>>

(***************************************************************************)
(* HandleDelete and RemoveNetwork.                                         *)
(***************************************************************************)

\* runc deletes the container.  The stop hook of one that got its address from
\* CNI without a fixed IP gives it back.
HandleDelete(c) ==
    /\ proc[c].pc = "running"
    /\ proc' = [proc EXCEPT ![c].pc = "get", ![c].op = "delete"]
    /\ ipam' = IF proc[c].hook /\ ~Fixed(c)
               THEN [ip \in IPs |-> IF ipam[ip] = c THEN NoContainer ELSE ipam[ip]] ELSE ipam
    /\ UNCHANGED <<files, locks, creates>>

\* dockerd removes a stopped container.  The proxy calls RemoveNetwork only for
\* containers with a fixed IP.
RemoveNetwork(c) ==
    /\ c \in cniSetting.containers /\ proc[c].pc = "stopped"
    /\ proc' = [proc EXCEPT ![c] = IF Fixed(c) THEN [Idle EXCEPT !.pc = "get", !.op = "remove"]
                                               ELSE [Idle EXCEPT !.pc = "removed"]]
    /\ UNCHANGED <<files, locks, ipam, creates>>

Finished(c) == [Idle EXCEPT !.pc = IF proc[c].op = "remove" THEN "removed" ELSE "stopped"]

\* Without an endpoint there is nothing to do (FixedSubhandler.HandleDelete
\* dereferences the nil endpoint, and the process dies: the same).
DeleteGet(c) ==
    LET byID == Fixed(c)
    IN /\ proc[c].pc = "get" /\ proc[c].op \in {"delete", "remove"}
       /\ Alone(c)
       /\ proc' = [proc EXCEPT ![c] =
                     IF GetNetEndpoint(c, byID) = "found"
                     THEN [@ EXCEPT !.ip = Target(c, byID), !.hook = FALSE,
                                    !.pc = IF proc[c].op = "remove" THEN "disconnect" ELSE "free"]
                     ELSE Finished(c)]
       /\ UNCHANGED <<files, locks, ipam, creates>>

\* FreeNetEndpoint: refused unless the container is the tenant.
Free(c) ==
    LET ip == proc[c].ip
    IN /\ proc[c].pc = "free"
       /\ tenant' = [tenant EXCEPT ![ip] = IF @ = c THEN NoContainer ELSE @]
       /\ proc' = [proc EXCEPT ![c] = IF Fixed(c) \/ tenant[ip] # c THEN Finished(c)
                                      ELSE [@ EXCEPT !.pc = "flock"]]
       /\ UNCHANGED <<owner, netns, link, locks, ipam, creates>>

Disconnect(c) ==
    /\ proc[c].pc = "disconnect"
    /\ link' = [link EXCEPT ![c] = NoIP]
    /\ ProcGoto(c, "flock")
    /\ UNCHANGED <<owner, tenant, netns, locks, ipam, creates>>

(***************************************************************************)
(* DeleteDanglingNetwork: under the lock, an endpoint without references is*)
(* deleted and CNI's address given back.                                   *)
(***************************************************************************)

DropFlock(c) ==
    /\ proc[c].pc = "flock" /\ proc[c].op \in {"delete", "remove"}
    /\ OpenFlock(c, proc[c].ip, "lock")
    /\ UNCHANGED <<files, locked, ipam, creates>>

DropLock(c) ==
    /\ proc[c].pc = "lock" /\ proc[c].op \in {"delete", "remove"}
    /\ LockFlock(c)
    /\ ProcGoto(c, "drop")
    /\ UNCHANGED <<files, flock, ipam, creates>>

References(ip) == {d \in Containers : link[d] = ip}

\* GetNetEndpointRefcount reads the directory and its links,
CountLinks(c) ==
    /\ proc[c].pc = "drop"
    /\ IF References(proc[c].ip) # {} THEN Return(c, Finished(c))
                                      ELSE ProcGoto(c, "stat") /\ UNCHANGED locked
    /\ UNCHANGED <<files, flock, ipam, creates>>

\* where a link that goes while it is read is an error,
CountFails(c) ==
    /\ proc[c].pc = "drop" /\ "deleting" \in Overlap
    /\ Return(c, Finished(c))
    /\ UNCHANGED <<files, flock, ipam, creates>>

\* and looks for the tenant file afterwards.
CountTenant(c) ==
    /\ proc[c].pc = "stat"
    /\ IF tenant[proc[c].ip] # NoContainer THEN Return(c, Finished(c))
                                           ELSE ProcGoto(c, "rmtenant") /\ UNCHANGED locked
    /\ UNCHANGED <<files, flock, ipam, creates>>

\* FSStore.DeleteNetEndpoint removes the tenant, owner and lock files, the mount
\* and its file, whoever made them.
RemoveTenant(c) ==
    /\ proc[c].pc = "rmtenant"
    /\ tenant' = [tenant EXCEPT ![proc[c].ip] = NoContainer]
    /\ ProcGoto(c, "rmowner")
    /\ UNCHANGED <<owner, netns, link, locks, ipam, creates>>

RemoveOwner(c) ==
    /\ proc[c].pc = "rmowner"
    /\ owner' = [owner EXCEPT ![proc[c].ip] = NoContainer]
    /\ ProcGoto(c, "rmflock")
    /\ UNCHANGED <<tenant, netns, link, locks, ipam, creates>>

RemoveFlock(c) ==
    /\ proc[c].pc = "rmflock"
    /\ flock' = [flock EXCEPT ![proc[c].ip] = 0]
    /\ ProcGoto(c, "rmnetns")
    /\ UNCHANGED <<files, locked, ipam, creates>>

\* A mistake: the address is not given back to CNI.
NotGivenBack(ip) == UNCHANGED ipam

\* cni del, unless assertFileNotExists finds a file of the endpoint: somebody else
\* opened the lock file anew.
GivenBack(ip) ==
    IF flock[ip] = 0 /\ owner[ip] = NoContainer /\ tenant[ip] = NoContainer
    THEN ipam' = [ipam EXCEPT ![ip] = NoContainer]
    ELSE UNCHANGED ipam

\* The mount goes, and CNI gets the address back; after a failed start the
\* clean-up ends here.
RemoveNetns(c) ==
    LET ip == proc[c].ip
    IN /\ proc[c].pc = "rmnetns"
       /\ netns' = [netns EXCEPT ![ip] = "absent"]
       /\ IF proc[c].op = "start"
          THEN proc' = [proc EXCEPT ![c] = StartFails(c)] /\ UNCHANGED <<ipam, locked>>
          ELSE /\ Return(c, Finished(c))
               /\ GivenBack(ip) \/ ("error" \in CNIFaults /\ UNCHANGED ipam)
       /\ UNCHANGED <<owner, tenant, link, flock, creates>>

(***************************************************************************)
(* A handler whose look-up, lock, removal of a file or first write fails   *)
(* returns the error and does no more; or its process dies.  dockerd       *)
(* deletes a container it could not create or start.                       *)
(***************************************************************************)
HandlerGivesUp(c) ==
    /\ "error" \in CNIFaults
    /\ \/ proc[c].pc \in {"flock", "lock", "get", "owner", "free", "disconnect", "drop"}
       \/ proc[c].pc = "made" /\ Fixed(c)
    /\ Return(c, IF proc[c].op = "create" THEN Idle
                 ELSE IF proc[c].pc \in {"made", "owner"} THEN StartFails(c) ELSE Finished(c))
    /\ UNCHANGED <<files, flock, ipam, creates>>

HandlerDies(c) ==
    /\ "crash" \in CNIFaults /\ proc[c].op # "none"
    /\ Return(c, IF proc[c].op \in {"create", "start"} THEN [StartFails(c) EXCEPT !.fd = 0]
                 ELSE Finished(c))
    /\ UNCHANGED <<files, flock, ipam, creates>>

CNIInit ==
    /\ cniSetting \in CNISettings
    /\ owner = [ip \in IPs |-> NoContainer] /\ tenant = [ip \in IPs |-> NoContainer]
    /\ netns = [ip \in IPs |-> "absent"] /\ link = [c \in Containers |-> NoIP]
    /\ flock = [ip \in IPs |-> 0] /\ locked = [i \in Inodes |-> NoContainer]
    /\ ipam = [ip \in IPs |-> NoContainer]
    /\ proc = [c \in Containers |-> Idle] /\ creates = [c \in Containers |-> 0]

HandlerStep(c) ==
    \/ CreateFlock(c) \/ CreateLock(c) \/ CreateGet(c) \/ Borrow(c) \/ RuncCreate(c)
    \/ HandleStart(c) \/ CreateOwner(c) \/ CreateFile(c) \/ Mount(c) \/ Connect(c)
    \/ Occupy(c) \/ Undo(c) \/ DeleteGet(c) \/ Free(c) \/ Disconnect(c)
    \/ DropFlock(c) \/ DropLock(c) \/ CountLinks(c) \/ CountFails(c) \/ CountTenant(c)
    \/ RemoveTenant(c) \/ RemoveOwner(c) \/ RemoveFlock(c) \/ RemoveNetns(c)

CNINext ==
    /\ \E c \in Containers : \/ HandleCreate(c) \/ HandleDelete(c) \/ RemoveNetwork(c)
                              \/ HandlerStep(c) \/ HandlerGivesUp(c) \/ HandlerDies(c)
    /\ UNCHANGED cniSetting

CNISpec == CNIInit /\ [][CNINext]_cniVars

(***************************************************************************)
(* Properties.                                                             *)
(***************************************************************************)

\* The files have the contents the code writes, and a lock is held only by a handler
\* at work that opened its file.
CNITypeOK ==
    /\ owner \in [IPs -> Containers \cup {NoContainer}]
    /\ tenant \in [IPs -> Containers \cup {NoContainer, "empty"}]
    /\ netns \in [IPs -> Containers \cup {"absent", "file"}]
    /\ link \in [Containers -> IPs \cup {NoIP}]
    /\ flock \in [IPs -> Inodes \cup {0}]
    /\ locked \in [Inodes -> Containers \cup {NoContainer}]
    /\ ipam \in [IPs -> Containers \cup {NoContainer}]
    /\ \A i \in Inodes : locked[i] # NoContainer => proc[locked[i]].fd = i
    /\ proc \in [Containers -> Proc] /\ creates \in [Containers -> 0..MaxCreates]

Alive(c) == proc[c].pc \in {"made", "running", "owner", "file", "mount", "connect", "tenant"}

\* Handlers do not die, and nobody creates a container that names the address
\* while another is deleted.
Orderly == Overlap = {} /\ CNIFaults = {}

\* An address is that of one container at a time, also while an endpoint passes
\* from container to container.
OneUser ==
    Orderly => \A c, d \in Containers : Alive(c) /\ Alive(d) /\ proc[c].ip = proc[d].ip => c = d

\* The container that runs on an endpoint is its tenant, and the endpoint is
\* there: nobody deletes an endpoint that was borrowed in the meantime
\* ("OccupyNetEndpoint tries to borrow a nep; multiprocess safe").
EndpointKept ==
    \A c \in Containers :
        proc[c].pc = "running" /\ (Fixed(c) \/ ~proc[c].hook) =>
            Mounted(proc[c].ip) /\ tenant[proc[c].ip] = c

\* "ConnectNetEndpoint links a container to fixed-ip nep, until container is
\* removed": what a link points to exists.  "GetNetEndpointRefcount calculates the
\* ref count, not multiprocess safe": when two containers are deleted at once, one may
\* connect after the links were counted and free its tenancy before that is looked
\* for, and its endpoint goes; so nothing is said then.
LinkLeads(c) == link[c] # NoIP => Mounted(link[c])
LinksLead == "deleting" \notin Overlap => \A c \in Containers : LinkLeads(c)

NoFixedSpecific == \A c \in cniSetting.containers : KindOf[c] # "fixedspecific"

\* When all containers are gone, so are the endpoints, the links and CNI's
\* allocations.  A container with a fixed IP that it names may leave its endpoint behind:
\* when it cannot be created after it borrowed the endpoint, FixedSubhandler.HandleDelete
\* looks for the link it has not got yet, and the tenant file stays.
NothingLeft ==
    Orderly /\ NoFixedSpecific /\ (\A c \in cniSetting.containers : proc[c].pc = "removed") =>
        /\ \A ip \in IPs : /\ netns[ip] = "absent" /\ ipam[ip] = NoContainer
                           /\ owner[ip] = NoContainer /\ tenant[ip] = NoContainer
        /\ \A c \in Containers : link[c] = NoIP

\* The files on the host agree with the containers that run, whichever handlers
\* work on them at the same time and wherever they die.
EndpointInv == CNITypeOK /\ EndpointKept /\ LinksLead

\* An endpoint passes from container to container, one at a time, and the last one
\* takes everything along.
CleanHandOver == OneUser /\ NothingLeft

=============================================================================
