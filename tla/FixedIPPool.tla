----------------------------- MODULE FixedIPPool -----------------------------
(***************************************************************************)
(* The fixed-IP pool of vessel/fixedippool.go: fixedIPPool and             *)
(* fixedIPAllocator, over the etcd records of vessel/codecs and over       *)
(* Calico's IPAM (vessel/calicoippool.go).                                 *)
(*                                                                         *)
(* Every barrel process of the cluster (docker proxies, network plugins,   *)
(* the ctr tool) calls the pool at any time, and no lock is shared between *)
(* them: an operation is a sequence of etcd and Calico calls, and the      *)
(* calls of different operations interleave.  One action is one such call  *)
(* together with the local computation up to the next one.                 *)
(***************************************************************************)
EXTENDS Naturals, Sequences, EtcdStore

CONSTANTS
    Procs,          \* concurrent callers of the pool
    Pools,          \* Calico pool names
    Addresses,      \* the IP addresses of the Calico pools
    CIDR,           \* CIDR[pool]: the addresses the pool's subnet contains
    Containers,     \* containers that borrow addresses
    NoIP, NoContainer,
    Faults,         \* the faults of a run, a subset of FaultKinds
    RetryMaxCount,  \* retryMaxCount
    MaxRev          \* bound: no call starts once a record saw MaxRev changes

FaultKinds == {"crash", "error", "timeout"}

\* types.IP: the record of an address is keyed by its pool and its address.
IPs == [PoolID : Pools, Address : Addresses]

ASSUME CIDRAssumption == CIDR \in [Pools -> SUBSET Addresses]
ASSUME NoIPAssumption == NoIP \notin IPs
ASSUME NoContainerAssumption == NoContainer \notin Containers
ASSUME FaultsAssumption == Faults \subseteq FaultKinds
ASSUME RetryAssumption == RetryMaxCount \in Nat \ {0}
ASSUME BoundAssumption == MaxRev \in Nat

VARIABLES
    ipinfo,         \* etcd: the slot of every address's IPInfo
    calico,         \* Calico IPAM: the addresses allocated
    call            \* the operation each process is in the middle of

vars == <<ipinfo, calico, call>>

-----------------------------------------------------------------------------
(***************************************************************************)
(* Values                                                                  *)
(***************************************************************************)

Flags == {"InUse", "Retired"}

\* types.IPInfo: the status bits and Attrs.Borrowers.  The code appends to the
\* list, removes every occurrence of a container and asks whether the list is
\* empty, so order and repetition make no difference and a set will do.
IPInfo == [status : SUBSET Flags, borrowers : SUBSET Containers]

NewIPInfo == [status |-> {}, borrowers |-> {}]

Match(info, flags)  == flags \subseteq info.status
Mark(info, flags)   == [info EXCEPT !.status = @ \cup flags]
Unmark(info, flags) == [info EXCEPT !.status = @ \ flags]

Ops == {"AllocFixedIP", "AllocFixedIPFromPools", "AssignFixedIP",
        "UnassignFixedIP", "BorrowFixedIP", "ReturnFixedIP", "UnallocFixedIP"}

Errors == {"nil", "ErrFixedIPNotAllocated", "ErrIPInUse", "ErrFixedIPHasBorrower",
           "ErrMaxRetryCountExceeded", "ErrKVNotExists", "ErrCalico", "ErrCall",
           "crashed"}

\* The call a process makes next.
PCs == {"idle", "get", "auto", "alloc", "put", "update", "delete", "free", "undo"}

\* The stack frame of an operation.  read is what its last Get returned, codec
\* the value it is about to write, err the result of the last finished call.
\* began, the revision of the record when the call started, is kept for the
\* properties only.
Frame == [pc : PCs, op : Ops, ip : IPs \cup {NoIP},
          container : Containers \cup {NoContainer}, force : BOOLEAN,
          pools : Seq(Pools), read : Slot(IPInfo), codec : IPInfo,
          cnt : 0..(RetryMaxCount - 1), began : Nat, err : Errors]

IdleFrame == [pc |-> "idle", op |-> "AllocFixedIP", ip |-> NoIP,
              container |-> NoContainer, force |-> FALSE, pools |-> <<>>,
              read |-> NoSlot(NewIPInfo), codec |-> NewIPInfo,
              cnt |-> 0, began |-> 0, err |-> "nil"]

Init ==
    /\ ipinfo = [ip \in IPs |-> NoSlot(NewIPInfo)]
    /\ calico = {}
    /\ call = [p \in Procs |-> IdleFrame]

-----------------------------------------------------------------------------
(***************************************************************************)
(* Control                                                                 *)
(***************************************************************************)

Goto(p, l) == call' = [call EXCEPT ![p].pc = l]

\* The operation returns err; AllocFixedIPFromPools also returns the address.
Return(p, err) ==
    call' = [call EXCEPT ![p] = [IdleFrame EXCEPT !.err = err, !.ip = call[p].ip]]

\* A process calls the pool.  Operations on a given address start with
\* GetFixedIP, AllocFixedIPFromPools with AutoAssign.
Call(p, op, ip, container, force, pools) ==
    /\ call[p].pc = "idle"
    /\ \A i \in IPs : ipinfo[i].rev < MaxRev
    /\ call' = [call EXCEPT ![p] =
           [IdleFrame EXCEPT !.op = op, !.ip = ip, !.container = container,
                             !.force = force, !.pools = pools,
                             !.pc = IF op = "AllocFixedIPFromPools" THEN "auto" ELSE "get",
                             !.began = IF ip \in IPs THEN ipinfo[ip].rev ELSE 0]]
    /\ UNCHANGED <<ipinfo, calico>>

\* GetFixedIP found the record, and the operation op goes on with it.
Got(p, op) ==
    /\ call[p].pc = "get"
    /\ call[p].op = op
    /\ Exists(ipinfo[call[p].ip])

\* GetFixedIP found no record, and there is nothing to create it with.
NotAllocated(p) ==
    /\ call[p].pc = "get"
    /\ call[p].op # "AllocFixedIP"
    /\ ~Exists(ipinfo[call[p].ip])
    /\ Return(p, "ErrFixedIPNotAllocated")
    /\ UNCHANGED <<ipinfo, calico>>

\* The operation changed its copy of the record to info and will now try to
\* write it back.
ToUpdate(p, info) ==
    call' = [call EXCEPT ![p].pc = "update",
                         ![p].read = ipinfo[call[p].ip],
                         ![p].codec = info]

\* The record of p's address as Get returns it.
Info(p) == ipinfo[call[p].ip].val

-----------------------------------------------------------------------------
(***************************************************************************)
(* The operations, from the answer of GetFixedIP to the next call          *)
(***************************************************************************)

AssignFixedIP(p) ==
    /\ Got(p, "AssignFixedIP")
    /\ IF Match(Info(p), {"InUse"})
       THEN Return(p, "ErrIPInUse")
       ELSE ToUpdate(p, Mark(Info(p), {"InUse"}))
    /\ UNCHANGED <<ipinfo, calico>>

UnassignFixedIP(p) ==
    /\ Got(p, "UnassignFixedIP")
    /\ IF Match(Info(p), {"InUse"})
       THEN ToUpdate(p, Unmark(Info(p), {"InUse"}))
       ELSE Return(p, "nil")
    /\ UNCHANGED <<ipinfo, calico>>

BorrowFixedIP(p) ==
    /\ Got(p, "BorrowFixedIP")
    /\ ToUpdate(p, [Info(p) EXCEPT !.borrowers = @ \cup {call[p].container}])
    /\ UNCHANGED <<ipinfo, calico>>

ReturnFixedIP(p) ==
    /\ Got(p, "ReturnFixedIP")
    /\ IF Info(p).borrowers = {}
       THEN Return(p, "nil")
       ELSE ToUpdate(p, [Info(p) EXCEPT !.borrowers = @ \ {call[p].container}])
    /\ UNCHANGED <<ipinfo, calico>>

\* An UnallocFixedIP that does not ask whether the address is in use.
UnallocInUse(p) ==
    /\ Got(p, "UnallocFixedIP")
    /\ IF ~call[p].force /\ Info(p).borrowers # {}
       THEN Return(p, "ErrFixedIPHasBorrower")
       ELSE ToUpdate(p, Mark(Info(p), {"InUse", "Retired"}))
    /\ UNCHANGED <<ipinfo, calico>>

UnallocFixedIP(p) ==
    /\ Got(p, "UnallocFixedIP")
    /\ CASE Match(Info(p), {"InUse"}) -> Return(p, "ErrIPInUse")
         [] ~Match(Info(p), {"InUse"}) /\ ~call[p].force /\ Info(p).borrowers # {} ->
              Return(p, "ErrFixedIPHasBorrower")
         [] OTHER -> ToUpdate(p, Mark(Info(p), {"InUse", "Retired"}))
    /\ UNCHANGED <<ipinfo, calico>>

\* AllocFixedIP reserves an existing record that is not in use, and creates a
\* missing one (createFixedIP: AllocIP, then Put).
AllocFixedIP(p) ==
    /\ call[p].pc = "get"
    /\ call[p].op = "AllocFixedIP"
    /\ IF Exists(ipinfo[call[p].ip])
       THEN Return(p, IF Match(Info(p), {"InUse"}) THEN "ErrIPInUse" ELSE "nil")
       ELSE Goto(p, "alloc")
    /\ UNCHANGED <<ipinfo, calico>>

-----------------------------------------------------------------------------
(***************************************************************************)
(* Calls of Calico's IPAM                                                  *)
(***************************************************************************)

\* AllocIP taking an address that is allocated already for a success.
AllocIPUnchecked(p) ==
    /\ call[p].pc = "alloc"
    /\ Goto(p, "put")
    /\ calico' = calico \cup {call[p].ip.Address}
    /\ UNCHANGED ipinfo

\* calicoIPAllocator.AllocIP: fails when the address is allocated already,
\* whichever pool it was asked for in.
AllocIP(p) ==
    /\ call[p].pc = "alloc"
    /\ IF call[p].ip.Address \in calico
       THEN Return(p, "ErrCalico") /\ UNCHANGED calico
       ELSE Goto(p, "put") /\ calico' = calico \cup {call[p].ip.Address}
    /\ UNCHANGED ipinfo

\* One round of calicoIPAllocator.AllocIPFromPools: AutoAssign takes any free
\* address of the next pool, or the pool is exhausted and the loop goes on.
AllocIPFromPools(p) ==
    /\ call[p].pc = "auto"
    /\ IF call[p].pools = <<>>
       THEN Return(p, "ErrCalico") /\ UNCHANGED calico
       ELSE LET pool == Head(call[p].pools)
                free == CIDR[pool] \ calico
            IN  IF free = {}
                THEN /\ call' = [call EXCEPT ![p].pools = Tail(@)]
                     /\ UNCHANGED calico
                ELSE \E a \in free :
                     /\ calico' = calico \cup {a}
                     /\ call' = [call EXCEPT ![p].pc = "put",
                                             ![p].ip = [PoolID |-> pool, Address |-> a]]
    /\ UNCHANGED ipinfo

\* calicoIPPoolmanager.UnallocIP: the last call of UnallocFixedIP, and the
\* compensation of AllocFixedIPFromPools.  Freeing a free address is a no-op.
UnallocIP(p) ==
    /\ call[p].pc \in {"free", "undo"}
    /\ calico' = calico \ {call[p].ip.Address}
    /\ Return(p, IF call[p].pc = "free" THEN "nil" ELSE "ErrCall")
    /\ UNCHANGED ipinfo

-----------------------------------------------------------------------------
(***************************************************************************)
(* Calls of etcd                                                           *)
(***************************************************************************)

\* Put of a fresh IPInfo by createFixedIP and AllocFixedIPFromPools.
Put(p) ==
    /\ call[p].pc = "put"
    /\ ipinfo' = [ipinfo EXCEPT ![call[p].ip] = PutSlot(@, NewIPInfo)]
    /\ Return(p, "nil")
    /\ UNCHANGED calico

\* One attempt too many, and one too few.
RetryOnceMore(p) ==
    IF call[p].cnt < RetryMaxCount
    THEN call' = [call EXCEPT ![p].pc = "get", ![p].cnt = @ + 1]
    ELSE Return(p, "ErrMaxRetryCountExceeded")
RetryOnceLess(p) ==
    IF call[p].cnt + 2 < RetryMaxCount
    THEN call' = [call EXCEPT ![p].pc = "get", ![p].cnt = @ + 1]
    ELSE Return(p, "ErrMaxRetryCountExceeded")

\* Borrow and Return read the record again, at most retryMaxCount times.
Retry(p) ==
    IF call[p].cnt + 1 < RetryMaxCount
    THEN call' = [call EXCEPT ![p].pc = "get", ![p].cnt = @ + 1,
                              ![p].read = NoSlot(NewIPInfo), ![p].codec = NewIPInfo]
    ELSE Return(p, "ErrMaxRetryCountExceeded")

\* An UnallocFixedIP that frees the address without deleting its record.
AfterUpdateNoDelete(p, ok, err) ==
    IF call[p].op = "UnallocFixedIP" /\ err = "nil" /\ ok
    THEN Goto(p, "free")
    ELSE Return(p, err)

\* What the operations do with the answer (ok, err) of UpdateElseGet.
\* UnallocFixedIP only logs an error, and goes on to delete the record.
AfterUpdate(p, ok, err) ==
    IF call[p].op = "UnallocFixedIP"
    THEN IF err = "nil" /\ ~ok THEN Return(p, "ErrIPInUse") ELSE Goto(p, "delete")
    ELSE CASE err # "nil" -> Return(p, err)
           [] err = "nil" /\ ok -> Return(p, "nil")
           [] err = "nil" /\ ~ok /\ call[p].op \in {"BorrowFixedIP", "ReturnFixedIP"} ->
                Retry(p)
           [] OTHER -> Return(p, "ErrIPInUse")

\* The transaction's answer: the slot it leaves, whether it wrote, its error.
Txn(p) == UpdateElseGet(ipinfo[call[p].ip], call[p].read.version, call[p].codec)

Update(p) ==
    /\ call[p].pc = "update"
    /\ ipinfo' = [ipinfo EXCEPT ![call[p].ip] = Txn(p).slot]
    /\ AfterUpdate(p, Txn(p).ok, Txn(p).err)
    /\ UNCHANGED calico

\* A Delete after which the address is forgotten.
DeleteOnly(p) ==
    /\ call[p].pc = "delete"
    /\ ipinfo' = [ipinfo EXCEPT ![call[p].ip] = DeleteSlot(@, NewIPInfo)]
    /\ Return(p, "nil")
    /\ UNCHANGED calico

\* UnallocFixedIP's unconditional Delete of the record.
Delete(p) ==
    /\ call[p].pc = "delete"
    /\ ipinfo' = [ipinfo EXCEPT ![call[p].ip] = DeleteSlot(@, NewIPInfo)]
    /\ IF Exists(ipinfo[call[p].ip])
       THEN Goto(p, "free")
       ELSE Return(p, "ErrKVNotExists")
    /\ UNCHANGED calico

-----------------------------------------------------------------------------
(***************************************************************************)
(* Faults.  A call fails without effect ("error"), takes effect although   *)
(* its answer is lost ("timeout"), or the calling process dies ("crash").  *)
(***************************************************************************)

Crash(p) ==
    /\ "crash" \in Faults
    /\ call[p].pc # "idle"
    /\ Return(p, "crashed")
    /\ UNCHANGED <<ipinfo, calico>>

\* A failed read, AllocIP, Delete or UnallocIP ends the operation.  So does a
\* failed Put of createFixedIP, which keeps the address; AllocFixedIPFromPools
\* frees it.
AfterFailure(p) ==
    CASE call[p].pc = "update" -> AfterUpdate(p, FALSE, "ErrCall")
      [] call[p].pc = "put" /\ call[p].op = "AllocFixedIPFromPools" -> Goto(p, "undo")
      [] call[p].pc = "auto" /\ call[p].pools # <<>> ->
           call' = [call EXCEPT ![p].pools = Tail(@)]
      [] OTHER -> Return(p, "ErrCall")

CallError(p) ==
    /\ "error" \in Faults
    /\ call[p].pc # "idle"
    /\ call[p].pc = "auto" => call[p].pools # <<>>
    /\ AfterFailure(p)
    /\ UNCHANGED <<ipinfo, calico>>

\* The effect on etcd and on Calico of the call p is waiting for.
WriteEffect(p) ==
    ipinfo' = [ipinfo EXCEPT ![call[p].ip] =
                 CASE call[p].pc = "put"    -> PutSlot(@, NewIPInfo)
                   [] call[p].pc = "update" -> Txn(p).slot
                   [] OTHER                 -> DeleteSlot(@, NewIPInfo)]

CallTimeout(p) ==
    /\ "timeout" \in Faults
    /\ AfterFailure(p)
    /\ \/ /\ call[p].pc \in {"put", "update", "delete"}
          /\ WriteEffect(p)
          /\ UNCHANGED calico
       \/ /\ call[p].pc = "alloc"
          /\ calico' = calico \cup {call[p].ip.Address}
          /\ UNCHANGED ipinfo
       \/ /\ call[p].pc \in {"free", "undo"}
          /\ calico' = calico \ {call[p].ip.Address}
          /\ UNCHANGED ipinfo
       \/ /\ call[p].pc = "auto"
          /\ call[p].pools # <<>>
          /\ \E a \in CIDR[Head(call[p].pools)] \ calico : calico' = calico \cup {a}
          /\ UNCHANGED ipinfo

-----------------------------------------------------------------------------
(***************************************************************************)
(* The specification                                                       *)
(***************************************************************************)

\* A step of the pool's own code for the operation p is in.
Step(p) ==
    \/ NotAllocated(p)
    \/ AssignFixedIP(p) \/ UnassignFixedIP(p)
    \/ BorrowFixedIP(p) \/ ReturnFixedIP(p)
    \/ UnallocFixedIP(p) \/ AllocFixedIP(p)
    \/ AllocIP(p) \/ AllocIPFromPools(p) \/ UnallocIP(p)
    \/ Put(p) \/ Update(p) \/ Delete(p)

Fault(p) == Crash(p) \/ CallError(p) \/ CallTimeout(p)

\* The lists of pools an AllocFixedIPFromPools may be given.
PoolLists == {<<x>> : x \in Pools} \cup {<<x, y>> : x, y \in Pools}

\* Any process may call any operation on any address.
AnyCall(p) ==
    \/ \E ip \in IPs, op \in {"AllocFixedIP", "AssignFixedIP", "UnassignFixedIP"} :
           Call(p, op, ip, NoContainer, FALSE, <<>>)
    \/ \E ip \in IPs, c \in Containers, op \in {"BorrowFixedIP", "ReturnFixedIP"} :
           Call(p, op, ip, c, FALSE, <<>>)
    \/ \E ip \in IPs, force \in BOOLEAN :
           Call(p, "UnallocFixedIP", ip, NoContainer, force, <<>>)
    \/ \E pools \in PoolLists :
           Call(p, "AllocFixedIPFromPools", NoIP, NoContainer, FALSE, pools)

Next == \E p \in Procs : AnyCall(p) \/ Step(p) \/ Fault(p)

Spec == Init /\ [][Next]_vars

-----------------------------------------------------------------------------
(***************************************************************************)
(* Properties                                                              *)
(***************************************************************************)

\* The variables have their types, a process past the choice of its address has
\* one, and so has a borrow its container.
TypeOK ==
    /\ ipinfo \in [IPs -> Slot(IPInfo)]
    /\ calico \in SUBSET Addresses
    /\ call \in [Procs -> Frame]
    /\ \A p \in Procs :
          /\ call[p].pc \notin {"idle", "auto"} => call[p].ip \in IPs
          /\ call[p].op = "BorrowFixedIP" => call[p].container \in Containers

\* p's pending UpdateElseGet was prepared from the incarnation of the record
\* that is in etcd now.
SameIncarnation(p) ==
    /\ Exists(ipinfo[call[p].ip])
    /\ call[p].read.created = ipinfo[call[p].ip].created

\* Optimistic concurrency (UpdateElseGet's compare of versions): as long as the
\* record was not deleted and created again, an update that is written replaces
\* exactly the status and the borrowers its operation had read.  No assignment,
\* borrow or lock of another process is overwritten.
ReplacesWhatItRead(p) ==
    /\ call[p].pc = "update"
    /\ call'[p] # call[p]
    /\ ipinfo' # ipinfo
    /\ SameIncarnation(p)
    => call[p].read = ipinfo[call[p].ip]

NoLostUpdate == [][\A p \in Procs : ReplacesWhatItRead(p)]_vars

\* BorrowFixedIP and ReturnFixedIP give up (ErrMaxRetryCountExceeded) only when
\* others really changed the record, at least retryMaxCount times since the call.
GivesUpOutrun(p) ==
    /\ call[p].pc = "update"
    /\ call'[p].pc = "idle"
    /\ call'[p].err = "ErrMaxRetryCountExceeded"
    => ipinfo[call[p].ip].rev >= call[p].began + RetryMaxCount

GivesUpOnlyUnderContention == [][\A p \in Procs : GivesUpOutrun(p)]_vars

\* p holds the Calico allocation of ip without a record of it: between AllocIP
\* and Put, or between Delete and UnallocIP.
Owns(p, ip) ==
    /\ call[p].pc \in {"put", "free", "undo"}
    /\ call[p].ip = ip

\* An address has at most one owner, its record or one operation in flight, and
\* what is owned is allocated in Calico: no address is given to somebody else
\* while a fixed-IP record, or an operation about to write or free it, counts on
\* it.  (createFixedIP allocates before Put, UnallocFixedIP deletes before
\* UnallocIP; the key carries the pool, the allocation does not.)
OwnedOnce ==
    \A ip, jp \in IPs :
        /\ Exists(ipinfo[ip]) => ip.Address \in calico
        /\ (Exists(ipinfo[ip]) /\ Exists(ipinfo[jp]) /\ ip.Address = jp.Address) => ip = jp
        /\ \A p \in Procs : Owns(p, ip) =>
              /\ ip.Address \in calico
              /\ jp.Address = ip.Address => ~Exists(ipinfo[jp])
              /\ \A q \in Procs \ {p} : jp.Address = ip.Address => ~Owns(q, jp)

\* While no call fails, nothing is lost: an address allocated in Calico has a
\* record or an operation that is about to write one or to free it.
NothingLeaks ==
    \A a \in calico :
        \E ip \in IPs :
            /\ ip.Address = a
            /\ Exists(ipinfo[ip]) \/ \E p \in Procs : Owns(p, ip)

\* The pools under which address a has a record.
RecordedIn(a) == {x \in Pools : Exists(ipinfo[[PoolID |-> x, Address |-> a]])}

Ledger == INSTANCE AddressLedger WITH
              allocated <- calico,
              fixedIn <- [a \in Addresses |-> RecordedIn(a)]

\* The pool implements the ledger: the etcd and Calico calls of all operations
\* together move an address through allocated, recorded, unrecorded, freed.
ImplementsLedger == Ledger!LedgerSpec

\* An unforced UnallocFixedIP does not remove an address that a container has
\* borrowed (types.ErrFixedIPHasBorrower).
BorrowedIsKept ==
    [][\A p \in Procs :
          /\ call[p].pc = "delete"
          /\ call'[p].pc = "free"
          /\ ~call[p].force
          => Info(p).borrowers = {}]_vars

=============================================================================
