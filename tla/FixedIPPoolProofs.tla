-------------------------- MODULE FixedIPPoolProofs --------------------------
(***************************************************************************)
(* Theorems about FixedIPPool for every number of processes, pools,        *)
(* addresses and containers, every bound and every set of faults: its      *)
(* types, who owns an address, and that it implements AddressLedger.       *)
(***************************************************************************)
EXTENDS PoolOwnership, TLAPS

-----------------------------------------------------------------------------
(***************************************************************************)
(* Typing                                                                  *)
(***************************************************************************)

\* etcd counts the writes of a record from its creation.
SlotOK(slot) ==
    Exists(slot) => /\ slot.created \in 1..slot.rev
                    /\ slot.version + slot.created = slot.rev + 1

\* What an operation between Get and UpdateElseGet knows of its record: it read
\* the record as it is, or the record has been changed since.  And it retried at
\* most as often as the record was changed since the operation was called.
ReadOK(p) ==
    LET f == call[p]
        slot == ipinfo[f.ip]
    IN  /\ f.pc = "get" => f.began + f.cnt <= slot.rev
        /\ f.pc = "update" =>
              /\ Exists(f.read) /\ SlotOK(f.read)
              /\ f.read.rev <= slot.rev
              /\ f.read.rev = slot.rev => f.read = slot
              /\ f.began + f.cnt <= f.read.rev

\* The inductive invariant behind the properties of updates: a record's version
\* and its incarnation determine its value, so comparing versions (UpdateElseGet)
\* detects every change but a delete and a new creation.
VersionInv ==
    /\ \A ip \in IPs : SlotOK(ipinfo[ip])
    /\ \A p \in Procs : ReadOK(p)

\* etcd's operations on a slot yield a slot.
LEMMA SlotOps ==
    ASSUME NEW s \in Slot(IPInfo), NEW v \in IPInfo, NEW n \in Nat
    PROVE  /\ PutSlot(s, v) \in Slot(IPInfo)
           /\ DeleteSlot(s, v) \in Slot(IPInfo)
           /\ UpdateElseGet(s, n, v).slot \in Slot(IPInfo)
           /\ UpdateElseGet(s, n, v).ok \in BOOLEAN
           /\ UpdateElseGet(s, n, v).err \in {"nil", "ErrKVNotExists"}
BY DEF Slot, PutSlot, DeleteSlot, UpdateElseGet, Exists, KeyError

\* The zero values are well typed, and marking keeps an IPInfo one.
LEMMA ValueTypes ==
    /\ NewIPInfo \in IPInfo
    /\ NoSlot(NewIPInfo) \in Slot(IPInfo)
    /\ \A v \in IPInfo, f \in SUBSET Flags : Mark(v, f) \in IPInfo /\ Unmark(v, f) \in IPInfo
BY DEF NewIPInfo, IPInfo, NoSlot, Slot, Mark, Unmark, Flags

\* The idle frame is well typed.
LEMMA IdleType == IdleFrame \in Frame
BY ValueTypes, RetryAssumption DEF IdleFrame, Frame, PCs, Ops, Errors

\* The part of TypeOK about the frames.
FramesOK ==
    /\ call \in [Procs -> Frame]
    /\ \A p \in Procs :
          /\ call[p].pc \notin {"idle", "auto"} => call[p].ip \in IPs
          /\ call[p].op = "BorrowFixedIP" => call[p].container \in Containers

\* Nobody but p moves.
Alone(p) == \A q \in Procs \ {p} : call'[q] = call[q]

\* Replacing p's frame by a good one keeps the frames well typed.
LEMMA FrameChange ==
    ASSUME TypeOK, NEW p \in Procs, NEW g \in Frame, call' = [call EXCEPT ![p] = g],
           g.pc \notin {"idle", "auto"} => g.ip \in IPs,
           g.op = "BorrowFixedIP" => g.container \in Containers
    PROVE  FramesOK' /\ Alone(p) /\ call'[p] = g
BY DEF TypeOK, FramesOK, Alone

\* Returning from an operation keeps the frames well typed.
LEMMA ReturnType ==
    ASSUME TypeOK, NEW p \in Procs, NEW e \in Errors, Return(p, e)
    PROVE  FramesOK' /\ Alone(p) /\ call'[p].pc = "idle" /\ call'[p].err = e
<1> DEFINE g == [IdleFrame EXCEPT !.err = e, !.ip = call[p].ip]
<1>1. call[p].ip \in IPs \cup {NoIP}
  BY DEF TypeOK, Frame
<1>2. g \in Frame
  BY <1>1, IdleType DEF Frame
<1>3. g.pc = "idle" /\ g.op # "BorrowFixedIP" /\ g.err = e
  BY DEF IdleFrame
<1>4. call' = [call EXCEPT ![p] = g]
  BY DEF Return
<1> HIDE DEF g
<1> QED BY <1>2, <1>3, <1>4, FrameChange

\* Moving to another call keeps the frames well typed.
LEMMA GotoType ==
    ASSUME TypeOK, NEW p \in Procs, NEW l \in PCs, Goto(p, l),
           call[p].pc \notin {"idle", "auto"}
    PROVE  FramesOK' /\ Alone(p) /\ call'[p].pc = l /\ call'[p].ip = call[p].ip
<1> DEFINE g == [call[p] EXCEPT !.pc = l]
<1>1. call[p] \in Frame
  BY DEF TypeOK
<1>2. /\ g \in Frame /\ g.pc = l /\ g.ip = call[p].ip
      /\ g.op = call[p].op /\ g.container = call[p].container
  BY <1>1 DEF Frame
<1>3. call' = [call EXCEPT ![p] = g]
  BY DEF Goto
<1> HIDE DEF g
<1> QED BY <1>2, <1>3, FrameChange DEF TypeOK

\* So does preparing an update.
LEMMA ToUpdateType ==
    ASSUME TypeOK, NEW p \in Procs, NEW v \in IPInfo, call[p].pc = "get", ToUpdate(p, v)
    PROVE  /\ FramesOK' /\ Alone(p)
           /\ call'[p] = [call[p] EXCEPT !.pc = "update", !.read = ipinfo[call[p].ip],
                                         !.codec = v]
<1> DEFINE g == [call[p] EXCEPT !.pc = "update", !.read = ipinfo[call[p].ip], !.codec = v]
<1>1. ipinfo[call[p].ip] \in Slot(IPInfo)
  BY DEF TypeOK
<1>2. call[p] \in Frame /\ "update" \in PCs
  BY DEF TypeOK, PCs
<1>3. g \in Frame /\ g.ip = call[p].ip /\ g.op = call[p].op /\ g.container = call[p].container
  BY <1>1, <1>2 DEF Frame
<1>4. call' = [call EXCEPT ![p] = g]
  BY DEF ToUpdate
<1> HIDE DEF g
<1>5. FramesOK' /\ Alone(p) /\ call'[p] = g
  BY <1>3, <1>4, FrameChange DEF TypeOK
<1> QED BY <1>5 DEF g

\* A call that starts gives its process a well-typed frame, with nothing read and
\* nothing retried.
LEMMA CallType ==
    ASSUME TypeOK, NEW p \in Procs, NEW op \in Ops, NEW ip \in IPs \cup {NoIP},
           NEW c \in Containers \cup {NoContainer}, NEW f \in BOOLEAN,
           NEW pools \in Seq(Pools), op # "AllocFixedIPFromPools" => ip \in IPs,
           op = "BorrowFixedIP" => c \in Containers,
           Call(p, op, ip, c, f, pools)
    PROVE  FramesOK' /\ Alone(p) /\ ReadOK(p)' /\ UNCHANGED <<ipinfo, calico>>
           /\ call[p].pc = "idle" /\ call'[p].pc \in {"get", "auto"}
<1> DEFINE g == [IdleFrame EXCEPT !.op = op, !.ip = ip, !.container = c,
                             !.force = f, !.pools = pools,
                             !.pc = IF op = "AllocFixedIPFromPools" THEN "auto" ELSE "get",
                             !.began = IF ip \in IPs THEN ipinfo[ip].rev ELSE 0]
<1>1. (IF ip \in IPs THEN ipinfo[ip].rev ELSE 0) \in Nat
  BY DEF TypeOK, Slot
<1>2. (IF op = "AllocFixedIPFromPools" THEN "auto" ELSE "get") \in PCs
  BY DEF PCs
<1>3. g \in Frame
  BY <1>1, <1>2, IdleType DEF Frame
<1>4. /\ g.pc \in {"get", "auto"}
      /\ g.pc = "get" => g.ip \in IPs /\ g.began = ipinfo[g.ip].rev /\ g.cnt = 0
      /\ g.op = "BorrowFixedIP" => g.container \in Containers
  BY DEF IdleFrame
<1>5. call' = [call EXCEPT ![p] = g] /\ UNCHANGED <<ipinfo, calico>> /\ call[p].pc = "idle"
  BY DEF Call
<1> HIDE DEF g
<1>6. FramesOK' /\ Alone(p) /\ call'[p] = g
  BY <1>3, <1>4, <1>5, FrameChange
<1>7. ReadOK(p)'
  <2>1. CASE g.pc = "get"
    <3>1. ipinfo[g.ip].rev \in Nat
      BY <1>4, <2>1 DEF TypeOK, Slot
    <3> QED BY <1>4, <1>5, <1>6, <2>1, <3>1 DEF ReadOK
  <2>2. CASE g.pc = "auto"
    BY <1>6, <2>2 DEF ReadOK
  <2> QED BY <1>4, <2>1, <2>2
<1> QED BY <1>4, <1>5, <1>6, <1>7

\* Any call of the pool starts well typed.
LEMMA AnyCallType ==
    ASSUME TypeOK, NEW p \in Procs, AnyCall(p)
    PROVE  FramesOK' /\ Alone(p) /\ ReadOK(p)' /\ UNCHANGED <<ipinfo, calico>>
           /\ call[p].pc = "idle" /\ call'[p].pc \in {"get", "auto"}
<1>0. <<>> \in Seq(Pools)
  OBVIOUS
<1>1. CASE \E ip \in IPs, op \in {"AllocFixedIP", "AssignFixedIP", "UnassignFixedIP"} :
             Call(p, op, ip, NoContainer, FALSE, <<>>)
  <2>1. PICK ip \in IPs, op \in {"AllocFixedIP", "AssignFixedIP", "UnassignFixedIP"} :
             Call(p, op, ip, NoContainer, FALSE, <<>>)
    BY <1>1
  <2>2. op \in Ops /\ op # "BorrowFixedIP"
    BY DEF Ops
  <2> QED BY <1>0, <2>1, <2>2, CallType
<1>2. CASE \E ip \in IPs, c \in Containers, op \in {"BorrowFixedIP", "ReturnFixedIP"} :
             Call(p, op, ip, c, FALSE, <<>>)
  <2>1. PICK ip \in IPs, c \in Containers, op \in {"BorrowFixedIP", "ReturnFixedIP"} :
             Call(p, op, ip, c, FALSE, <<>>)
    BY <1>2
  <2>2. op \in Ops
    BY DEF Ops
  <2> QED BY <1>0, <2>1, <2>2, CallType
<1>3. CASE \E ip \in IPs, force \in BOOLEAN :
             Call(p, "UnallocFixedIP", ip, NoContainer, force, <<>>)
  <2>1. PICK ip \in IPs, force \in BOOLEAN :
             Call(p, "UnallocFixedIP", ip, NoContainer, force, <<>>)
    BY <1>3
  <2>2. "UnallocFixedIP" \in Ops
    BY DEF Ops
  <2> QED BY <1>0, <2>1, <2>2, CallType
<1>4. CASE \E pools \in PoolLists :
             Call(p, "AllocFixedIPFromPools", NoIP, NoContainer, FALSE, pools)
  <2>1. PICK pools \in PoolLists :
             Call(p, "AllocFixedIPFromPools", NoIP, NoContainer, FALSE, pools)
    BY <1>4
  <2>2. "AllocFixedIPFromPools" \in Ops
    BY DEF Ops
  <2>3. pools \in Seq(Pools)
    <3>1. CASE \E x \in Pools : pools = <<x>>
      BY <3>1
    <3>2. CASE \E x, y \in Pools : pools = <<x, y>>
      BY <3>2
    <3> QED BY <3>1, <3>2 DEF PoolLists
  <2> QED BY <2>1, <2>2, <2>3, CallType
<1> QED BY <1>1, <1>2, <1>3, <1>4 DEF AnyCall

\* The value of p's record, while p works on one.
LEMMA InfoType ==
    ASSUME TypeOK, NEW p \in Procs, call[p].pc \notin {"idle", "auto"}
    PROVE  /\ call[p].ip \in IPs
           /\ ipinfo[call[p].ip] \in Slot(IPInfo)
           /\ Info(p) \in IPInfo
BY DEF TypeOK, Info, Slot

\* The local steps after GetFixedIP change the frame of their process only.
LEMMA GotSteps ==
    ASSUME TypeOK, NEW p \in Procs,
           \/ NotAllocated(p) \/ AssignFixedIP(p) \/ UnassignFixedIP(p) \/ BorrowFixedIP(p)
           \/ ReturnFixedIP(p) \/ UnallocFixedIP(p) \/ AllocFixedIP(p)
    PROVE  /\ call[p].pc = "get"
           /\ UNCHANGED <<ipinfo, calico>>
           /\ \/ \E e \in Errors : Return(p, e)
              \/ Exists(ipinfo[call[p].ip]) /\ \E v \in IPInfo : ToUpdate(p, v)
              \/ Goto(p, "alloc")
<1> USE InfoType
<1>1. CASE NotAllocated(p)
  BY <1>1 DEF NotAllocated, Errors
<1>2. CASE AssignFixedIP(p)
  BY <1>2, ValueTypes DEF AssignFixedIP, Got, Errors, Flags
<1>3. CASE UnassignFixedIP(p)
  BY <1>3, ValueTypes DEF UnassignFixedIP, Got, Errors, Flags
<1>4. CASE BorrowFixedIP(p)
  BY <1>4 DEF BorrowFixedIP, Got, IPInfo, TypeOK, Frame
<1>5. CASE ReturnFixedIP(p)
  BY <1>5 DEF ReturnFixedIP, Got, IPInfo, Errors
<1>6. CASE UnallocFixedIP(p)
  BY <1>6, ValueTypes DEF UnallocFixedIP, Got, Errors, Flags
<1>7. CASE AllocFixedIP(p)
  BY <1>7 DEF AllocFixedIP, Errors
<1> QED BY <1>1, <1>2, <1>3, <1>4, <1>5, <1>6, <1>7

\* The frame of a Borrow or Return that reads the record again.
Retried(p) ==
    [call[p] EXCEPT !.pc = "get", !.cnt = @ + 1,
                    !.read = NoSlot(NewIPInfo), !.codec = NewIPInfo]

\* A compared write that lost the race reads again.
LEMMA RetriedType ==
    ASSUME TypeOK, NEW p \in Procs, call[p].pc = "update", call[p].cnt + 1 < RetryMaxCount,
           call' = [call EXCEPT ![p] = Retried(p)]
    PROVE  FramesOK' /\ Alone(p) /\ call'[p] = Retried(p)
<1>1. call[p] \in Frame /\ "get" \in PCs
  BY DEF TypeOK, PCs
<1>2. call[p].cnt + 1 \in 0..(RetryMaxCount - 1)
  BY <1>1, RetryAssumption DEF Frame
<1>3. /\ Retried(p) \in Frame
      /\ Retried(p).ip = call[p].ip /\ Retried(p).op = call[p].op
      /\ Retried(p).container = call[p].container
  BY <1>1, <1>2, ValueTypes DEF Frame, Retried
<1> QED BY <1>3, FrameChange DEF TypeOK

\* How an operation goes on after UpdateElseGet.
LEMMA AfterUpdateShape ==
    ASSUME TypeOK, NEW p \in Procs, NEW ok \in BOOLEAN,
           NEW err \in {"nil", "ErrKVNotExists", "ErrCall"},
           call[p].pc = "update", AfterUpdate(p, ok, err)
    PROVE  \/ \E e \in Errors \ {"ErrMaxRetryCountExceeded"} : Return(p, e)
           \/ Goto(p, "delete")
           \/ /\ err = "nil" /\ ~ok
              /\ \/ /\ call[p].cnt + 1 < RetryMaxCount
                    /\ call' = [call EXCEPT ![p] = Retried(p)]
                 \/ /\ ~(call[p].cnt + 1 < RetryMaxCount)
                    /\ Return(p, "ErrMaxRetryCountExceeded")
<1>1. {"nil", "ErrKVNotExists", "ErrCall", "ErrIPInUse"} \subseteq Errors \ {"ErrMaxRetryCountExceeded"}
  BY DEF Errors
<1>2. CASE call[p].op = "UnallocFixedIP"
  BY <1>1, <1>2 DEF AfterUpdate
<1>3. CASE call[p].op # "UnallocFixedIP" /\ err # "nil"
  BY <1>1, <1>3 DEF AfterUpdate
<1>4. CASE call[p].op # "UnallocFixedIP" /\ err = "nil" /\ ok
  BY <1>1, <1>4 DEF AfterUpdate
<1>5. CASE /\ call[p].op # "UnallocFixedIP" /\ err = "nil" /\ ~ok
           /\ call[p].op \in {"BorrowFixedIP", "ReturnFixedIP"}
  BY <1>5 DEF AfterUpdate, Retry, Retried
<1>6. CASE /\ call[p].op # "UnallocFixedIP" /\ err = "nil" /\ ~ok
           /\ call[p].op \notin {"BorrowFixedIP", "ReturnFixedIP"}
  BY <1>1, <1>6 DEF AfterUpdate
<1> QED BY <1>2, <1>3, <1>4, <1>5, <1>6

\* How an operation goes on after a call that failed.
LEMMA AfterFailureShape ==
    ASSUME TypeOK, NEW p \in Procs, call[p].pc # "idle",
           AfterFailure(p)
    PROVE  \/ \E e \in Errors \ {"ErrMaxRetryCountExceeded"} : Return(p, e)
           \/ call[p].pc = "update" /\ Goto(p, "delete")
           \/ call[p].pc = "put" /\ call[p].op = "AllocFixedIPFromPools" /\ Goto(p, "undo")
           \/ /\ call[p].pc = "auto" /\ call[p].pools # <<>>
              /\ call' = [call EXCEPT ![p].pools = Tail(@)]
<1>1. "ErrCall" \in Errors \ {"ErrMaxRetryCountExceeded"}
  BY DEF Errors
<1>2. CASE call[p].pc = "update"
  <2>1. AfterUpdate(p, FALSE, "ErrCall")
    BY <1>2 DEF AfterFailure
  <2> QED BY <1>2, <2>1, AfterUpdateShape
<1>3. CASE call[p].pc = "put" /\ call[p].op = "AllocFixedIPFromPools"
  BY <1>3 DEF AfterFailure
<1>4. CASE call[p].pc = "auto" /\ call[p].pools # <<>>
  BY <1>4 DEF AfterFailure
<1>5. CASE /\ call[p].pc # "update"
           /\ ~(call[p].pc = "put" /\ call[p].op = "AllocFixedIPFromPools")
           /\ ~(call[p].pc = "auto" /\ call[p].pools # <<>>)
  BY <1>1, <1>5 DEF AfterFailure
<1> QED BY <1>2, <1>3, <1>4, <1>5

\* The next pool of AllocIPFromPools.
LEMMA TailType ==
    ASSUME TypeOK, NEW p \in Procs, call[p].pc = "auto", call[p].pools # <<>>,
           call' = [call EXCEPT ![p].pools = Tail(@)]
    PROVE  FramesOK' /\ Alone(p) /\ call'[p].pc = "auto"
<1> DEFINE g == [call[p] EXCEPT !.pools = Tail(@)]
<1>1. call[p] \in Frame
  BY DEF TypeOK
<1>2. Tail(call[p].pools) \in Seq(Pools)
  BY <1>1 DEF Frame
<1>3. g \in Frame /\ g.pc = "auto" /\ g.op = call[p].op /\ g.container = call[p].container
  BY <1>1, <1>2 DEF Frame
<1>4. call' = [call EXCEPT ![p] = g]
  OBVIOUS
<1> HIDE DEF g
<1> QED BY <1>3, <1>4, FrameChange DEF TypeOK

-----------------------------------------------------------------------------
(***************************************************************************)
(* The version invariant                                                   *)
(***************************************************************************)

IInv == TypeOK /\ VersionInv

\* Each record stays as it is or moves to its next revision.
Advance ==
    \A ip \in IPs :
        /\ SlotOK(ipinfo'[ip])
        /\ ipinfo'[ip] = ipinfo[ip] \/ ipinfo'[ip].rev = ipinfo[ip].rev + 1

\* etcd's operations keep the count of writes, and move to the next revision
\* whenever they change anything.
LEMMA SlotAdvance ==
    ASSUME NEW s \in Slot(IPInfo), NEW v \in IPInfo, NEW n \in Nat, SlotOK(s)
    PROVE  /\ SlotOK(PutSlot(s, v)) /\ PutSlot(s, v).rev = s.rev + 1
           /\ SlotOK(DeleteSlot(s, v))
           /\ DeleteSlot(s, v) = s \/ DeleteSlot(s, v).rev = s.rev + 1
           /\ SlotOK(UpdateElseGet(s, n, v).slot)
           /\ \/ UpdateElseGet(s, n, v).slot = s
              \/ UpdateElseGet(s, n, v).slot.rev = s.rev + 1
BY DEF Slot, SlotOK, PutSlot, DeleteSlot, UpdateElseGet, Exists

\* Writing one record's next slot advances the store.
LEMMA StoreAdvance ==
    ASSUME IInv, NEW ip \in IPs, NEW t \in Slot(IPInfo),
           SlotOK(t), t = ipinfo[ip] \/ t.rev = ipinfo[ip].rev + 1,
           ipinfo' = [ipinfo EXCEPT ![ip] = t]
    PROVE  Advance /\ ipinfo' \in [IPs -> Slot(IPInfo)]
BY DEF IInv, TypeOK, VersionInv, Advance

\* What p's step must show for the invariant: its own frame.
LEMMA Preserve ==
    ASSUME IInv, NEW p \in Procs, FramesOK', Alone(p),
           ipinfo' \in [IPs -> Slot(IPInfo)], calico' \in SUBSET Addresses,
           Advance, ReadOK(p)'
    PROVE  IInv'
<1>1. TypeOK'
  BY DEF TypeOK, FramesOK
<1>2. ASSUME NEW q \in Procs \ {p}
      PROVE  ReadOK(q)'
  <2>1. call'[q] = call[q] /\ ReadOK(q)
    BY DEF Alone, IInv, VersionInv
  <2>2. CASE call[q].pc = "get"
    <3>1. call[q].ip \in IPs /\ call[q] \in Frame
      BY <2>2 DEF IInv, TypeOK
    <3>2. /\ ipinfo[call[q].ip].rev \in Nat
          /\ ipinfo'[call[q].ip].rev >= ipinfo[call[q].ip].rev
      BY <3>1 DEF Advance, IInv, TypeOK, Slot
    <3>3. call[q].began + call[q].cnt \in Nat /\ ipinfo'[call[q].ip].rev \in Nat
      BY <3>1, RetryAssumption DEF Frame, Slot
    <3> QED BY <2>1, <2>2, <3>2, <3>3 DEF ReadOK
  <2>3. CASE call[q].pc = "update"
    <3>1. call[q].ip \in IPs /\ call[q].read.rev \in Nat
      BY <2>3 DEF IInv, TypeOK, Frame, Slot
    <3>2. /\ ipinfo[call[q].ip].rev \in Nat
          /\ \/ ipinfo'[call[q].ip] = ipinfo[call[q].ip]
             \/ ipinfo'[call[q].ip].rev = ipinfo[call[q].ip].rev + 1
      BY <3>1 DEF Advance, IInv, TypeOK, Slot
    <3> QED BY <2>1, <2>3, <3>1, <3>2 DEF ReadOK
  <2>4. CASE call[q].pc \notin {"get", "update"}
    BY <2>1, <2>4 DEF ReadOK
  <2> QED BY <2>2, <2>3, <2>4
<1> QED BY <1>1, <1>2 DEF IInv, VersionInv, Advance

\* A process that is neither about to read nor about to write has nothing to show.
LEMMA QuietFrame ==
    ASSUME NEW p \in Procs, call'[p].pc \notin {"get", "update"}
    PROVE  ReadOK(p)'
BY DEF ReadOK

\* Nor does a step that leaves the store alone disturb the others.
LEMMA SameStore ==
    ASSUME IInv, UNCHANGED ipinfo
    PROVE  Advance /\ ipinfo' \in [IPs -> Slot(IPInfo)]
BY DEF IInv, TypeOK, VersionInv, Advance

\* Starting a call.
LEMMA CallInv ==
    ASSUME IInv, NEW p \in Procs, AnyCall(p)
    PROVE  IInv'
<1>1. TypeOK /\ calico \in SUBSET Addresses
  BY DEF IInv, TypeOK
<1> QED BY <1>1, AnyCallType, SameStore, Preserve

\* The local steps after GetFixedIP: a prepared update was read from the record
\* as it is.
LEMMA GotInv ==
    ASSUME IInv, NEW p \in Procs,
           \/ NotAllocated(p) \/ AssignFixedIP(p) \/ UnassignFixedIP(p) \/ BorrowFixedIP(p)
           \/ ReturnFixedIP(p) \/ UnallocFixedIP(p) \/ AllocFixedIP(p)
    PROVE  IInv'
<1>1. TypeOK /\ calico \in SUBSET Addresses
  BY DEF IInv, TypeOK
<1>2. call[p].pc = "get" /\ UNCHANGED <<ipinfo, calico>>
  BY <1>1, GotSteps
<1>3. CASE \E e \in Errors : Return(p, e)
  BY <1>1, <1>2, <1>3, ReturnType, QuietFrame, SameStore, Preserve
<1>4. CASE Exists(ipinfo[call[p].ip]) /\ \E v \in IPInfo : ToUpdate(p, v)
  <2>1. PICK v \in IPInfo : ToUpdate(p, v)
    BY <1>4
  <2>2. /\ FramesOK' /\ Alone(p)
        /\ call'[p] = [call[p] EXCEPT !.pc = "update", !.read = ipinfo[call[p].ip], !.codec = v]
    BY <1>1, <1>2, <2>1, ToUpdateType
  <2>3. call[p] \in Frame /\ call[p].ip \in IPs
    BY <1>1, <1>2 DEF TypeOK
  <2>4. /\ call'[p].pc = "update" /\ call'[p].read = ipinfo[call[p].ip]
        /\ call'[p].ip = call[p].ip /\ call'[p].cnt = call[p].cnt
        /\ call'[p].began = call[p].began
    BY <2>2, <2>3 DEF Frame
  <2>5. SlotOK(ipinfo[call[p].ip]) /\ ReadOK(p) /\ ipinfo[call[p].ip].rev \in Nat
    BY <2>3 DEF IInv, VersionInv, TypeOK, Slot
  <2>6. ReadOK(p)'
    BY <1>2, <1>4, <2>4, <2>5 DEF ReadOK
  <2> QED BY <1>1, <1>2, <2>2, <2>6, SameStore, Preserve
<1>5. CASE Goto(p, "alloc")
  <2>1. "alloc" \in PCs
    BY DEF PCs
  <2>2. FramesOK' /\ Alone(p) /\ call'[p].pc = "alloc"
    BY <1>1, <1>2, <1>5, <2>1, GotoType
  <2> QED BY <1>1, <1>2, <2>2, QuietFrame, SameStore, Preserve
<1> QED BY <1>1, <1>3, <1>4, <1>5, GotSteps

\* An operation that returns, or moves to a call other than a read or a
\* transaction, while the store advances.
LEMMA LeaveInv ==
    ASSUME IInv, NEW p \in Procs, Advance,
           ipinfo' \in [IPs -> Slot(IPInfo)], calico' \in SUBSET Addresses,
           \/ \E e \in Errors : Return(p, e)
           \/ /\ call[p].pc \notin {"idle", "auto"}
              /\ \E l \in PCs \ {"get", "update"} : Goto(p, l)
    PROVE  IInv'
<1>1. TypeOK
  BY DEF IInv
<1>2. CASE \E e \in Errors : Return(p, e)
  BY <1>1, <1>2, ReturnType, QuietFrame, Preserve
<1>3. CASE /\ call[p].pc \notin {"idle", "auto"}
           /\ \E l \in PCs \ {"get", "update"} : Goto(p, l)
  <2>1. PICK l \in PCs \ {"get", "update"} : Goto(p, l)
    BY <1>3
  <2>2. FramesOK' /\ Alone(p) /\ call'[p].pc = l
    BY <1>1, <1>3, <2>1, GotoType
  <2> QED BY <2>1, <2>2, QuietFrame, Preserve
<1> QED BY <1>2, <1>3

\* The next pool of AllocIPFromPools is tried, whatever became of the last one.
LEMMA TailInv ==
    ASSUME IInv, NEW p \in Procs, call[p].pc = "auto", call[p].pools # <<>>,
           call' = [call EXCEPT ![p].pools = Tail(@)],
           UNCHANGED ipinfo, calico' \in SUBSET Addresses
    PROVE  IInv'
<1>1. TypeOK
  BY DEF IInv
<1> QED BY <1>1, TailType, QuietFrame, SameStore, Preserve

\* The calls of Calico.
LEMMA CalicoInv ==
    ASSUME IInv, NEW p \in Procs, AllocIP(p) \/ AllocIPFromPools(p) \/ UnallocIP(p)
    PROVE  IInv'
<1>1. TypeOK /\ call[p] \in Frame /\ calico \in SUBSET Addresses
  BY DEF IInv, TypeOK
<1>2. /\ {"ErrCalico", "ErrCall", "nil"} \subseteq Errors
      /\ "put" \in PCs \ {"get", "update"}
  BY DEF Errors, PCs
<1>3. CASE AllocIP(p)
  <2>1. /\ UNCHANGED ipinfo /\ call[p].pc = "alloc"
        /\ Return(p, "ErrCalico") \/ Goto(p, "put")
        /\ calico' = calico \/ calico' = calico \cup {call[p].ip.Address}
    BY <1>3 DEF AllocIP
  <2>2. call[p].ip.Address \in Addresses
    BY <1>1, <2>1 DEF TypeOK, IPs
  <2> QED BY <1>1, <1>2, <2>1, <2>2, SameStore, LeaveInv
<1>4. CASE UnallocIP(p)
  <2>1. /\ UNCHANGED ipinfo
        /\ Return(p, "nil") \/ Return(p, "ErrCall")
        /\ calico' = calico \ {call[p].ip.Address}
    BY <1>4 DEF UnallocIP
  <2> QED BY <1>1, <1>2, <2>1, SameStore, LeaveInv
<1>5. CASE AllocIPFromPools(p) /\ call[p].pools = <<>>
  <2>1. UNCHANGED ipinfo /\ UNCHANGED calico /\ Return(p, "ErrCalico")
    BY <1>5 DEF AllocIPFromPools
  <2> QED BY <1>1, <1>2, <2>1, SameStore, LeaveInv
<1>6. CASE /\ AllocIPFromPools(p) /\ call[p].pools # <<>>
           /\ CIDR[Head(call[p].pools)] \ calico = {}
  <2>1. /\ UNCHANGED ipinfo /\ UNCHANGED calico /\ call[p].pc = "auto"
        /\ call' = [call EXCEPT ![p].pools = Tail(@)]
    BY <1>6 DEF AllocIPFromPools
  <2> QED BY <1>1, <1>6, <2>1, TailInv
<1>7. CASE /\ AllocIPFromPools(p) /\ call[p].pools # <<>>
           /\ CIDR[Head(call[p].pools)] \ calico # {}
  <2>1. PICK a \in CIDR[Head(call[p].pools)] \ calico :
           /\ calico' = calico \cup {a}
           /\ call' = [call EXCEPT ![p].pc = "put",
                          ![p].ip = [PoolID |-> Head(call[p].pools), Address |-> a]]
    BY <1>7 DEF AllocIPFromPools
  <2>2. Head(call[p].pools) \in Pools
    BY <1>1, <1>7 DEF Frame
  <2>3. a \in Addresses /\ [PoolID |-> Head(call[p].pools), Address |-> a] \in IPs
    BY <2>1, <2>2, CIDRAssumption DEF IPs
  <2> DEFINE g == [call[p] EXCEPT !.pc = "put",
                      !.ip = [PoolID |-> Head(call[p].pools), Address |-> a]]
  <2>4. /\ g \in Frame /\ g.pc = "put" /\ g.ip \in IPs
        /\ g.op = call[p].op /\ g.container = call[p].container
    BY <1>1, <1>2, <2>3 DEF Frame
  <2>5. call' = [call EXCEPT ![p] = g]
    BY <2>1
  <2> HIDE DEF g
  <2>6. FramesOK' /\ Alone(p) /\ call'[p].pc = "put"
    BY <1>1, <2>4, <2>5, FrameChange DEF TypeOK
  <2>7. UNCHANGED ipinfo /\ calico' \in SUBSET Addresses
    BY <1>1, <1>7, <2>1, <2>3 DEF AllocIPFromPools
  <2> QED BY <2>6, <2>7, QuietFrame, SameStore, Preserve
<1> QED BY <1>3, <1>4, <1>5, <1>6, <1>7

\* A process at update, put or delete works on a record of the store.
LEMMA Working ==
    ASSUME IInv, NEW p \in Procs, call[p].pc \in {"update", "put", "delete"}
    PROVE  /\ TypeOK /\ calico \in SUBSET Addresses
           /\ call[p] \in Frame /\ call[p].ip \in IPs
           /\ ipinfo[call[p].ip] \in Slot(IPInfo) /\ SlotOK(ipinfo[call[p].ip])
           /\ call[p].read \in Slot(IPInfo) /\ call[p].read.version \in Nat
           /\ call[p].codec \in IPInfo
BY DEF IInv, TypeOK, VersionInv, Frame, Slot

\* The three writes advance the store.
LEMMA WriteAdvance ==
    ASSUME IInv, NEW p \in Procs,
           \/ call[p].pc = "put" /\ ipinfo' = [ipinfo EXCEPT ![call[p].ip] = PutSlot(@, NewIPInfo)]
           \/ call[p].pc = "update" /\ ipinfo' = [ipinfo EXCEPT ![call[p].ip] = Txn(p).slot]
           \/ call[p].pc = "delete" /\ ipinfo' = [ipinfo EXCEPT ![call[p].ip] = DeleteSlot(@, NewIPInfo)]
    PROVE  Advance /\ ipinfo' \in [IPs -> Slot(IPInfo)]
<1> DEFINE s == ipinfo[call[p].ip]
<1>1. call[p].pc \in {"update", "put", "delete"}
  OBVIOUS
<1>2. /\ call[p].ip \in IPs /\ s \in Slot(IPInfo) /\ SlotOK(s)
      /\ call[p].read.version \in Nat /\ call[p].codec \in IPInfo
  BY <1>1, Working
<1>3. CASE call[p].pc = "put"
  <2>1. ipinfo' = [ipinfo EXCEPT ![call[p].ip] = PutSlot(s, NewIPInfo)]
    BY <1>3
  <2>2. /\ PutSlot(s, NewIPInfo) \in Slot(IPInfo) /\ SlotOK(PutSlot(s, NewIPInfo))
        /\ PutSlot(s, NewIPInfo).rev = s.rev + 1
    BY <1>2, SlotOps, SlotAdvance, ValueTypes
  <2> QED BY <1>2, <2>1, <2>2, StoreAdvance
<1>4. CASE call[p].pc = "delete"
  <2>1. ipinfo' = [ipinfo EXCEPT ![call[p].ip] = DeleteSlot(s, NewIPInfo)]
    BY <1>4
  <2>2. /\ DeleteSlot(s, NewIPInfo) \in Slot(IPInfo) /\ SlotOK(DeleteSlot(s, NewIPInfo))
        /\ DeleteSlot(s, NewIPInfo) = s \/ DeleteSlot(s, NewIPInfo).rev = s.rev + 1
    BY <1>2, SlotOps, SlotAdvance, ValueTypes
  <2> QED BY <1>2, <2>1, <2>2, StoreAdvance
<1>5. CASE call[p].pc = "update"
  <2>1. ipinfo' = [ipinfo EXCEPT ![call[p].ip] = Txn(p).slot]
    BY <1>5
  <2>2. /\ Txn(p).slot \in Slot(IPInfo) /\ SlotOK(Txn(p).slot)
        /\ Txn(p).slot = s \/ Txn(p).slot.rev = s.rev + 1
    BY <1>2, SlotOps, SlotAdvance DEF Txn
  <2> QED BY <1>2, <2>1, <2>2, StoreAdvance
<1> QED BY <1>1, <1>3, <1>4, <1>5

\* A transaction that is refused found the record at a later revision than its
\* operation read, and leaves it alone.
LEMMA RefusedUpdate ==
    ASSUME IInv, NEW p \in Procs, call[p].pc = "update", ~Txn(p).ok
    PROVE  /\ Txn(p).slot = ipinfo[call[p].ip]
           /\ call[p].began + call[p].cnt + 1 <= ipinfo[call[p].ip].rev
<1>1. /\ call[p] \in Frame /\ call[p].ip \in IPs
      /\ ipinfo[call[p].ip] \in Slot(IPInfo) /\ call[p].read \in Slot(IPInfo)
  BY Working
<1>2. /\ ipinfo[call[p].ip].version # call[p].read.version
      /\ Txn(p).slot = ipinfo[call[p].ip]
  BY <1>1 DEF Txn, UpdateElseGet
<1>3. /\ call[p].read.rev <= ipinfo[call[p].ip].rev
      /\ call[p].read.rev # ipinfo[call[p].ip].rev
      /\ call[p].began + call[p].cnt <= call[p].read.rev
  BY <1>2 DEF IInv, VersionInv, ReadOK
<1>4. /\ call[p].read.rev \in Nat /\ ipinfo[call[p].ip].rev \in Nat
      /\ call[p].began \in Nat /\ call[p].cnt \in Nat
  BY <1>1, RetryAssumption DEF Frame, Slot
<1> QED BY <1>2, <1>3, <1>4

\* The calls of etcd.
LEMMA EtcdInv ==
    ASSUME IInv, NEW p \in Procs, Put(p) \/ Delete(p) \/ Update(p)
    PROVE  IInv'
<1>1. /\ {"nil", "ErrKVNotExists", "ErrMaxRetryCountExceeded"} \subseteq Errors
      /\ {"delete", "free"} \subseteq PCs \ {"get", "update"}
  BY DEF Errors, PCs
<1>2. TypeOK /\ calico \in SUBSET Addresses
  BY DEF IInv, TypeOK
<1>3. CASE Put(p)
  <2>1. Advance /\ ipinfo' \in [IPs -> Slot(IPInfo)]
    BY <1>3, WriteAdvance DEF Put
  <2> QED BY <1>1, <1>2, <1>3, <2>1, LeaveInv DEF Put
<1>4. CASE Delete(p)
  <2>1. Advance /\ ipinfo' \in [IPs -> Slot(IPInfo)]
    BY <1>4, WriteAdvance DEF Delete
  <2>2. /\ call[p].pc = "delete" /\ UNCHANGED calico
        /\ Goto(p, "free") \/ Return(p, "ErrKVNotExists")
    BY <1>4 DEF Delete
  <2> QED BY <1>1, <1>2, <2>1, <2>2, LeaveInv
<1>5. CASE Update(p)
  <2>1. Advance /\ ipinfo' \in [IPs -> Slot(IPInfo)]
    BY <1>5, WriteAdvance DEF Update
  <2>2. /\ call[p].pc = "update" /\ UNCHANGED calico
        /\ AfterUpdate(p, Txn(p).ok, Txn(p).err)
    BY <1>5 DEF Update
  <2>3. Txn(p).ok \in BOOLEAN /\ Txn(p).err \in {"nil", "ErrKVNotExists"}
    BY <2>2, Working, SlotOps DEF Txn
  <2>4. CASE \/ \E e \in Errors : Return(p, e)
             \/ Goto(p, "delete")
    BY <1>1, <1>2, <2>1, <2>2, <2>4, LeaveInv
  <2>5. CASE /\ ~Txn(p).ok /\ call[p].cnt + 1 < RetryMaxCount
             /\ call' = [call EXCEPT ![p] = Retried(p)]
    <3>1. FramesOK' /\ Alone(p) /\ call'[p] = Retried(p)
      BY <1>2, <2>2, <2>5, RetriedType
    <3>2. /\ call'[p].pc = "get" /\ call'[p].ip = call[p].ip
          /\ call'[p].began = call[p].began /\ call'[p].cnt = call[p].cnt + 1
      BY <2>2, <3>1, Working DEF Retried, Frame
    <3>3. ipinfo'[call[p].ip] = ipinfo[call[p].ip]
      BY <1>2, <1>5, <2>2, <2>5, RefusedUpdate, Working DEF Update, TypeOK
    <3>4. call[p].began + (call[p].cnt + 1) <= ipinfo[call[p].ip].rev
      <4>1. call[p].began \in Nat /\ call[p].cnt \in Nat /\ ipinfo[call[p].ip].rev \in Nat
        BY <2>2, Working, RetryAssumption DEF Frame, Slot
      <4> QED BY <2>2, <2>5, <4>1, RefusedUpdate
    <3>5. ReadOK(p)'
      BY <3>2, <3>3, <3>4 DEF ReadOK
    <3> QED BY <1>2, <2>1, <2>2, <3>1, <3>5, Preserve
  <2> QED BY <1>1, <1>2, <2>2, <2>3, <2>4, <2>5, AfterUpdateShape
<1> QED BY <1>3, <1>4, <1>5

\* An operation goes on after a failed call, whatever the call did.
LEMMA FailureInv ==
    ASSUME IInv, NEW p \in Procs, call[p].pc # "idle", AfterFailure(p),
           Advance, ipinfo' \in [IPs -> Slot(IPInfo)], calico' \in SUBSET Addresses,
           call[p].pc = "auto" => UNCHANGED ipinfo
    PROVE  IInv'
<1>1. TypeOK /\ {"delete", "undo"} \subseteq PCs \ {"get", "update"}
  BY DEF IInv, PCs
<1>2. CASE \E e \in Errors \ {"ErrMaxRetryCountExceeded"} : Return(p, e)
  BY <1>2, LeaveInv
<1>3. CASE \/ call[p].pc = "update" /\ Goto(p, "delete")
           \/ call[p].pc = "put" /\ Goto(p, "undo")
  BY <1>1, <1>3, LeaveInv
<1>4. CASE /\ call[p].pc = "auto" /\ call[p].pools # <<>>
           /\ call' = [call EXCEPT ![p].pools = Tail(@)]
  BY <1>4, TailInv
<1> QED BY <1>1, <1>2, <1>3, <1>4, AfterFailureShape

\* The faults.
LEMMA FaultInv ==
    ASSUME IInv, NEW p \in Procs, Fault(p)
    PROVE  IInv'
<1>1. TypeOK /\ calico \in SUBSET Addresses
  BY DEF IInv, TypeOK
<1>2. CASE Crash(p)
  <2>1. "crashed" \in Errors
    BY DEF Errors
  <2> QED BY <1>1, <1>2, <2>1, SameStore, LeaveInv DEF Crash
<1>3. CASE CallError(p)
  BY <1>1, <1>3, SameStore, FailureInv DEF CallError
<1>4. CASE CallTimeout(p)
  <2>1. AfterFailure(p)
    BY <1>4 DEF CallTimeout
  <2>2. CASE call[p].pc \in {"put", "update", "delete"} /\ WriteEffect(p) /\ UNCHANGED calico
    <3>1. \/ call[p].pc = "put" /\ ipinfo' = [ipinfo EXCEPT ![call[p].ip] = PutSlot(@, NewIPInfo)]
          \/ call[p].pc = "update" /\ ipinfo' = [ipinfo EXCEPT ![call[p].ip] = Txn(p).slot]
          \/ call[p].pc = "delete" /\ ipinfo' = [ipinfo EXCEPT ![call[p].ip] = DeleteSlot(@, NewIPInfo)]
      BY <2>2 DEF WriteEffect
    <3>2. Advance /\ ipinfo' \in [IPs -> Slot(IPInfo)]
      BY <3>1, WriteAdvance
    <3> QED BY <1>1, <2>1, <2>2, <3>2, FailureInv
  <2>3. CASE /\ call[p].pc \in {"alloc", "free", "undo"} /\ UNCHANGED ipinfo
             /\ \/ calico' = calico \cup {call[p].ip.Address}
                \/ calico' = calico \ {call[p].ip.Address}
    <3>1. call[p].ip.Address \in Addresses
      BY <1>1, <2>3 DEF TypeOK, IPs
    <3> QED BY <1>1, <2>1, <2>3, <3>1, SameStore, FailureInv
  <2>4. CASE /\ call[p].pc = "auto" /\ call[p].pools # <<>> /\ UNCHANGED ipinfo
             /\ \E a \in CIDR[Head(call[p].pools)] \ calico : calico' = calico \cup {a}
    <3>1. call[p] \in Frame
      BY <1>1 DEF TypeOK
    <3>2. Head(call[p].pools) \in Pools
      BY <2>4, <3>1 DEF Frame
    <3>3. calico' \in SUBSET Addresses
      BY <1>1, <2>4, <3>2, CIDRAssumption
    <3> QED BY <1>1, <2>1, <2>4, <3>3, SameStore, FailureInv
  <2> QED BY <1>4, <2>2, <2>3, <2>4 DEF CallTimeout
<1> QED BY <1>2, <1>3, <1>4 DEF Fault

\* The invariant is inductive.
LEMMA IInvInductive ==
    /\ Init => IInv
    /\ IInv /\ [Next]_vars => IInv'
<1>1. Init => IInv
  <2> SUFFICES ASSUME Init PROVE IInv
    OBVIOUS
  <2>1. TypeOK
    BY IdleType, ValueTypes DEF Init, TypeOK, IdleFrame
  <2>2. \A ip \in IPs : SlotOK(ipinfo[ip])
    BY DEF Init, SlotOK, NoSlot, Exists
  <2>3. \A p \in Procs : ReadOK(p)
    BY DEF Init, ReadOK, IdleFrame
  <2> QED BY <2>1, <2>2, <2>3 DEF IInv, VersionInv
<1>2. IInv /\ [Next]_vars => IInv'
  <2> SUFFICES ASSUME IInv, [Next]_vars PROVE IInv'
    OBVIOUS
  <2>1. CASE Next
    <3>1. PICK p \in Procs : AnyCall(p) \/ Step(p) \/ Fault(p)
      BY <2>1 DEF Next
    <3>2. CASE AnyCall(p)
      BY <3>2, CallInv
    <3>3. CASE Step(p)
      BY <3>3, GotInv, CalicoInv, EtcdInv DEF Step
    <3>4. CASE Fault(p)
      BY <3>4, FaultInv
    <3> QED BY <3>1, <3>2, <3>3, <3>4
  <2>2. CASE UNCHANGED vars
    BY <2>2 DEF vars, IInv, TypeOK, VersionInv, ReadOK, SlotOK, Exists
  <2> QED BY <2>1, <2>2
<1> QED BY <1>1, <1>2

\* The pool is type correct.
THEOREM TypeCorrect == Spec => []TypeOK
<1>1. IInv => TypeOK
  BY DEF IInv
<1> QED BY <1>1, IInvInductive, PTL DEF Spec

-----------------------------------------------------------------------------
(***************************************************************************)
(* Optimistic concurrency                                                  *)
(***************************************************************************)

\* A step moves one process.
LEMMA OneMoves ==
    ASSUME TypeOK, NEW p \in Procs, AnyCall(p) \/ Step(p) \/ Fault(p)
    PROVE  Alone(p)
<1>1. CASE AnyCall(p)
  BY <1>1, AnyCallType
<1>2. CASE \/ NotAllocated(p) \/ AssignFixedIP(p) \/ UnassignFixedIP(p) \/ BorrowFixedIP(p)
           \/ ReturnFixedIP(p) \/ UnallocFixedIP(p) \/ AllocFixedIP(p)
  <2>1. \/ \E e \in Errors : Return(p, e)
        \/ \E v \in IPInfo : ToUpdate(p, v)
        \/ Goto(p, "alloc")
    BY <1>2, GotSteps
  <2> QED BY <2>1 DEF Return, ToUpdate, Goto, Alone, TypeOK
<1>3. CASE AllocIP(p) \/ UnallocIP(p) \/ Put(p) \/ Delete(p) \/ Crash(p)
  BY <1>3 DEF AllocIP, UnallocIP, Put, Delete, Crash, Return, Goto, Alone, TypeOK
<1>4. CASE AllocIPFromPools(p)
  BY <1>4 DEF AllocIPFromPools, Return, Alone, TypeOK
<1>5. CASE Update(p)
  <2>1. AfterUpdate(p, Txn(p).ok, Txn(p).err)
    BY <1>5 DEF Update
  <2> QED BY <2>1 DEF AfterUpdate, Retry, Return, Goto, Alone, TypeOK
<1>6. CASE CallError(p) \/ CallTimeout(p)
  <2>1. AfterFailure(p)
    BY <1>6 DEF CallError, CallTimeout
  <2> QED BY <2>1 DEF AfterFailure, AfterUpdate, Retry, Return, Goto, Alone, TypeOK
<1> QED BY <1>1, <1>2, <1>3, <1>4, <1>5, <1>6 DEF Step, Fault

\* A process at update leaves it with its transaction, or without one.
LEMMA UpdateStep ==
    ASSUME TypeOK, NEW p \in Procs, call[p].pc = "update", AnyCall(p) \/ Step(p) \/ Fault(p)
    PROVE  \/ UNCHANGED ipinfo
           \/ ipinfo' = [ipinfo EXCEPT ![call[p].ip] = Txn(p).slot]
<1>1. ~AnyCall(p)
  BY AnyCallType
<1>2. CASE Step(p)
  BY <1>2 DEF Step, NotAllocated, AssignFixedIP, UnassignFixedIP, BorrowFixedIP, ReturnFixedIP,
              UnallocFixedIP, AllocFixedIP, AllocIP, AllocIPFromPools, UnallocIP,
              Put, Update, Delete
<1>3. CASE Fault(p)
  BY <1>3 DEF Fault, Crash, CallError, CallTimeout, WriteEffect
<1> QED BY <1>1, <1>2, <1>3

\* The compare of versions: a transaction that changes the store, prepared from
\* the present incarnation, was prepared from the present value.
LEMMA CompareIdentifies ==
    ASSUME IInv, NEW p \in Procs, call[p].pc = "update", SameIncarnation(p),
           Txn(p).slot # ipinfo[call[p].ip]
    PROVE  call[p].read = ipinfo[call[p].ip]
<1> DEFINE s == ipinfo[call[p].ip]
           r == call[p].read
<1>1. s \in Slot(IPInfo) /\ r \in Slot(IPInfo) /\ SlotOK(s)
  BY Working
<1>2. Exists(r) /\ SlotOK(r) /\ (r.rev = s.rev => r = s)
  BY DEF IInv, VersionInv, ReadOK
<1>3. s.version = r.version
  BY DEF Txn, UpdateElseGet
<1>4. Exists(s) /\ r.created = s.created
  BY DEF SameIncarnation
<1>5. r.rev = s.rev
  BY <1>1, <1>2, <1>3, <1>4 DEF SlotOK, Slot
<1> QED BY <1>2, <1>5

\* No update is lost while a record lives (the compare of UpdateElseGet).
THEOREM NoUpdateIsLost == Spec => NoLostUpdate
<1>1. IInv /\ [Next]_vars => [\A p \in Procs : ReplacesWhatItRead(p)]_vars
  <2> SUFFICES ASSUME IInv, Next, NEW p \in Procs,
                      call[p].pc = "update", call'[p] # call[p], ipinfo' # ipinfo,
                      SameIncarnation(p)
               PROVE  call[p].read = ipinfo[call[p].ip]
    BY DEF ReplacesWhatItRead
  <2>1. TypeOK
    BY DEF IInv
  <2>2. PICK q \in Procs : AnyCall(q) \/ Step(q) \/ Fault(q)
    BY DEF Next
  <2>3. q = p
    BY <2>1, <2>2, OneMoves DEF Alone
  <2>4. ipinfo' = [ipinfo EXCEPT ![call[p].ip] = Txn(p).slot]
    BY <2>1, <2>2, <2>3, UpdateStep
  <2>5. Txn(p).slot # ipinfo[call[p].ip]
    BY <2>1, <2>4 DEF TypeOK
  <2> QED BY <2>5, CompareIdentifies
<1> QED BY <1>1, IInvInductive, PTL DEF Spec, NoLostUpdate

\* Borrow and Return give up only when they were overtaken retryMaxCount times.
THEOREM GivingUpMeansContention == Spec => GivesUpOnlyUnderContention
<1>1. IInv /\ [Next]_vars => [\A p \in Procs : GivesUpOutrun(p)]_vars
  <2> SUFFICES ASSUME IInv, Next, NEW p \in Procs,
                      call[p].pc = "update", call'[p].pc = "idle",
                      call'[p].err = "ErrMaxRetryCountExceeded"
               PROVE  ipinfo[call[p].ip].rev >= call[p].began + RetryMaxCount
    BY DEF GivesUpOutrun
  <2>1. TypeOK
    BY DEF IInv
  <2>2. PICK q \in Procs : AnyCall(q) \/ Step(q) \/ Fault(q)
    BY DEF Next
  <2>3. q = p
    BY <2>1, <2>2, OneMoves DEF Alone
  <2>4. ASSUME NEW e \in Errors \ {"ErrMaxRetryCountExceeded"}, Return(p, e)
        PROVE  FALSE
    BY <2>1, <2>4, ReturnType
  <2>5. ~Goto(p, "delete")
    BY <2>1 DEF Goto, TypeOK, Frame
  <2>6. CASE Update(p)
    <3>1. AfterUpdate(p, Txn(p).ok, Txn(p).err)
      BY <2>6 DEF Update
    <3>2. Txn(p).ok \in BOOLEAN /\ Txn(p).err \in {"nil", "ErrKVNotExists"}
      BY Working, SlotOps DEF Txn
    <3>3. ~Txn(p).ok
      BY <2>1, <2>4, <2>5, <3>1, <3>2, AfterUpdateShape
    <3>4. ~(call[p].cnt + 1 < RetryMaxCount)
      <4>1. SUFFICES ASSUME call' = [call EXCEPT ![p] = Retried(p)] PROVE FALSE
        BY <2>1, <2>4, <2>5, <3>1, <3>2, AfterUpdateShape
      <4> QED BY <2>1, <4>1 DEF TypeOK, Retried, Frame
    <3>5. call[p].began + call[p].cnt + 1 <= ipinfo[call[p].ip].rev
      BY <3>3, RefusedUpdate
    <3>6. call[p].cnt \in Nat /\ call[p].began \in Nat /\ ipinfo[call[p].ip].rev \in Nat
      BY Working, RetryAssumption DEF Frame, Slot
    <3> QED BY <3>4, <3>5, <3>6, RetryAssumption
  <2>7. CASE CallError(p) \/ CallTimeout(p)
    <3>1. AfterFailure(p)
      BY <2>7 DEF CallError, CallTimeout
    <3> QED BY <2>1, <2>4, <2>5, <3>1, AfterFailureShape
  <2>8. CASE Crash(p)
    <3>1. "crashed" \in Errors \ {"ErrMaxRetryCountExceeded"}
      BY DEF Errors
    <3> QED BY <2>4, <2>8, <3>1 DEF Crash
  <2>9. Update(p) \/ Fault(p)
    <3>1. ~AnyCall(p)
      BY <2>1, AnyCallType
    <3> QED BY <2>2, <2>3, <3>1
           DEF Step, NotAllocated, AssignFixedIP, UnassignFixedIP, BorrowFixedIP, ReturnFixedIP,
               UnallocFixedIP, AllocFixedIP, Got, AllocIP, AllocIPFromPools, UnallocIP, Put, Delete
  <2> QED BY <2>6, <2>7, <2>8, <2>9 DEF Fault
<1> QED BY <1>1, IInvInductive, PTL DEF Spec, GivesUpOnlyUnderContention

-----------------------------------------------------------------------------
(***************************************************************************)
(* The pool implements the ledger of addresses, as long as a call that     *)
(* reports a failure had no effect (no "timeout" among the faults).        *)
(* Processes may crash, and calls may fail, at any point.                  *)
(*                                                                         *)
(* What a step does to the records, to Calico and to its process's hold on *)
(* an address.                                                             *)
(***************************************************************************)

Recorded(ip) == Exists(ipinfo[ip])

SameRecords == \A ip \in IPs : Recorded(ip)' <=> Recorded(ip)

Keeps(p) ==
    /\ UNCHANGED calico /\ SameRecords
    /\ \A ip \in IPs : Owns(p, ip)' => Owns(p, ip)

Takes(p, ip) ==
    /\ ip.Address \notin calico
    /\ calico' = calico \cup {ip.Address} /\ SameRecords
    /\ \A jp \in IPs : Owns(p, jp)' => jp = ip

Records(p, ip) ==
    /\ Owns(p, ip)
    /\ UNCHANGED calico
    /\ \A jp \in IPs : Recorded(jp)' <=> (jp = ip \/ Recorded(jp))
    /\ \A jp \in IPs : ~Owns(p, jp)'

Unrecords(p, ip) ==
    /\ Recorded(ip)
    /\ UNCHANGED calico
    /\ \A jp \in IPs : Recorded(jp)' <=> (jp # ip /\ Recorded(jp))
    /\ \A jp \in IPs : Owns(p, jp)' => jp = ip

GivesBack(p, ip) ==
    /\ Owns(p, ip)
    /\ calico' = calico \ {ip.Address} /\ SameRecords
    /\ \A jp \in IPs : ~Owns(p, jp)'

Moves(p) ==
    \/ Keeps(p)
    \/ \E ip \in IPs :
          Takes(p, ip) \/ Records(p, ip) \/ Unrecords(p, ip) \/ GivesBack(p, ip)

\* A step that leaves both stores alone and does not start to own an address.
LEMMA QuietKeeps ==
    ASSUME NEW p \in Procs, UNCHANGED <<ipinfo, calico>>,
           \A ip \in IPs : Owns(p, ip)' => Owns(p, ip)
    PROVE  Moves(p)
BY DEF Moves, Keeps, SameRecords, Recorded, Exists

\* A process that returned owns nothing.
LEMMA ReturnOwnsNothing ==
    ASSUME TypeOK, NEW p \in Procs, NEW e \in Errors, Return(p, e)
    PROVE  \A ip \in IPs : ~Owns(p, ip)'
BY ReturnType DEF Owns

\* etcd's operations and the existence of a record.
LEMMA SlotExists ==
    ASSUME NEW s \in Slot(IPInfo), NEW v \in IPInfo, NEW n \in Nat \ {0}
    PROVE  /\ Exists(PutSlot(s, v))
           /\ ~Exists(DeleteSlot(s, v))
           /\ Exists(UpdateElseGet(s, n, v).slot) <=> Exists(s)
BY DEF Slot, PutSlot, DeleteSlot, UpdateElseGet, Exists

\* Starting a call, and the local steps after GetFixedIP.
LEMMA LocalMoves ==
    ASSUME IInv, NEW p \in Procs,
           \/ AnyCall(p)
           \/ NotAllocated(p) \/ AssignFixedIP(p) \/ UnassignFixedIP(p) \/ BorrowFixedIP(p)
           \/ ReturnFixedIP(p) \/ UnallocFixedIP(p) \/ AllocFixedIP(p)
    PROVE  Moves(p)
<1>1. TypeOK
  BY DEF IInv
<1>2. CASE AnyCall(p)
  <2>1. UNCHANGED <<ipinfo, calico>> /\ call'[p].pc \in {"get", "auto"}
    BY <1>1, <1>2, AnyCallType
  <2> QED BY <2>1, QuietKeeps DEF Owns
<1>3. CASE \/ NotAllocated(p) \/ AssignFixedIP(p) \/ UnassignFixedIP(p) \/ BorrowFixedIP(p)
           \/ ReturnFixedIP(p) \/ UnallocFixedIP(p) \/ AllocFixedIP(p)
  <2>1. /\ call[p].pc = "get" /\ UNCHANGED <<ipinfo, calico>>
        /\ \/ \E e \in Errors : Return(p, e)
           \/ \E v \in IPInfo : ToUpdate(p, v)
           \/ Goto(p, "alloc")
    BY <1>1, <1>3, GotSteps
  <2>2. CASE \E e \in Errors : Return(p, e)
    BY <1>1, <2>1, <2>2, ReturnOwnsNothing, QuietKeeps
  <2>3. CASE Goto(p, "alloc")
    <3>1. "alloc" \in PCs
      BY DEF PCs
    <3>2. call'[p].pc = "alloc"
      BY <1>1, <2>1, <2>3, <3>1, GotoType
    <3> QED BY <2>1, <3>2, QuietKeeps DEF Owns
  <2>4. CASE \E v \in IPInfo : ToUpdate(p, v)
    <3>1. call'[p].pc = "update"
      BY <1>1, <2>4 DEF ToUpdate, TypeOK, Frame
    <3> QED BY <2>1, <3>1, QuietKeeps DEF Owns
  <2> QED BY <2>1, <2>2, <2>3, <2>4
<1> QED BY <1>2, <1>3

\* The calls of Calico take an address or give one back.
LEMMA CalicoMoves ==
    ASSUME IInv, NEW p \in Procs, AllocIP(p) \/ AllocIPFromPools(p) \/ UnallocIP(p)
    PROVE  Moves(p)
<1>1. TypeOK /\ call[p] \in Frame
  BY DEF IInv, TypeOK
<1>2. {"ErrCalico", "ErrCall", "nil"} \subseteq Errors /\ "put" \in PCs
  BY DEF Errors, PCs
<1>3. ASSUME UNCHANGED ipinfo PROVE SameRecords
  BY <1>3 DEF SameRecords, Recorded, Exists
<1>4. CASE AllocIP(p) /\ call[p].ip.Address \in calico
  <2>1. UNCHANGED <<ipinfo, calico>> /\ Return(p, "ErrCalico")
    BY <1>4 DEF AllocIP
  <2> QED BY <1>1, <1>2, <2>1, ReturnOwnsNothing, QuietKeeps
<1>5. CASE AllocIP(p) /\ call[p].ip.Address \notin calico
  <2>1. /\ UNCHANGED ipinfo /\ calico' = calico \cup {call[p].ip.Address}
        /\ call[p].pc = "alloc" /\ Goto(p, "put")
    BY <1>5 DEF AllocIP
  <2>2. call'[p].ip = call[p].ip /\ call[p].ip \in IPs
    BY <1>1, <1>2, <2>1, GotoType DEF TypeOK
  <2>3. Takes(p, call[p].ip)
    BY <1>3, <1>5, <2>1, <2>2 DEF Takes, Owns
  <2> QED BY <2>2, <2>3 DEF Moves
<1>6. CASE AllocIPFromPools(p) /\ call[p].pools = <<>>
  <2>1. UNCHANGED <<ipinfo, calico>> /\ Return(p, "ErrCalico")
    BY <1>6 DEF AllocIPFromPools
  <2> QED BY <1>1, <1>2, <2>1, ReturnOwnsNothing, QuietKeeps
<1>7. CASE /\ AllocIPFromPools(p) /\ call[p].pools # <<>>
           /\ CIDR[Head(call[p].pools)] \ calico = {}
  <2>1. /\ UNCHANGED <<ipinfo, calico>> /\ call[p].pc = "auto"
        /\ call' = [call EXCEPT ![p].pools = Tail(@)]
    BY <1>7 DEF AllocIPFromPools
  <2>2. call'[p].pc = "auto"
    BY <1>1, <1>7, <2>1, TailType
  <2> QED BY <2>1, <2>2, QuietKeeps DEF Owns
<1>8. CASE /\ AllocIPFromPools(p) /\ call[p].pools # <<>>
           /\ CIDR[Head(call[p].pools)] \ calico # {}
  <2>1. PICK a \in CIDR[Head(call[p].pools)] \ calico :
           /\ calico' = calico \cup {a}
           /\ call' = [call EXCEPT ![p].pc = "put",
                          ![p].ip = [PoolID |-> Head(call[p].pools), Address |-> a]]
    BY <1>8 DEF AllocIPFromPools
  <2> DEFINE ip == [PoolID |-> Head(call[p].pools), Address |-> a]
  <2>2. Head(call[p].pools) \in Pools
    BY <1>1, <1>8 DEF Frame
  <2>3. ip \in IPs /\ ip.Address = a
    BY <2>1, <2>2, CIDRAssumption DEF IPs
  <2>4. call'[p].ip = ip
    BY <1>1, <2>1 DEF TypeOK, Frame
  <2>5. UNCHANGED ipinfo
    BY <1>8 DEF AllocIPFromPools
  <2> HIDE DEF ip
  <2>6. Takes(p, ip)
    BY <1>3, <2>1, <2>3, <2>4, <2>5 DEF Takes, Owns
  <2> QED BY <2>3, <2>6 DEF Moves
<1>9. CASE UnallocIP(p)
  <2>1. /\ UNCHANGED ipinfo /\ calico' = calico \ {call[p].ip.Address}
        /\ call[p].pc \in {"free", "undo"}
    BY <1>9 DEF UnallocIP
  <2>2. \A ip \in IPs : ~Owns(p, ip)'
    BY <1>1, <1>2, <1>9, ReturnOwnsNothing DEF UnallocIP
  <2>3. call[p].ip \in IPs /\ Owns(p, call[p].ip)
    BY <1>1, <1>9 DEF TypeOK, Owns, UnallocIP
  <2>4. GivesBack(p, call[p].ip)
    BY <1>3, <1>9, <2>2, <2>3 DEF GivesBack, UnallocIP
  <2> QED BY <2>3, <2>4 DEF Moves
<1> QED BY <1>4, <1>5, <1>6, <1>7, <1>8, <1>9

\* A transaction neither creates nor removes a record: the version it compares
\* with was read from an existing one.
LEMMA UpdateKeepsRecords ==
    ASSUME IInv, NEW p \in Procs, call[p].pc = "update",
           ipinfo' = [ipinfo EXCEPT ![call[p].ip] = Txn(p).slot]
    PROVE  SameRecords
<1>1. /\ TypeOK /\ call[p].ip \in IPs /\ ipinfo[call[p].ip] \in Slot(IPInfo)
      /\ call[p].read.version \in Nat /\ call[p].codec \in IPInfo
  BY Working
<1>2. call[p].read.version \in Nat \ {0}
  BY <1>1 DEF IInv, VersionInv, ReadOK, Exists
<1>3. Exists(Txn(p).slot) <=> Exists(ipinfo[call[p].ip])
  BY <1>1, <1>2, SlotExists DEF Txn
<1>4. \A ip \in IPs : ipinfo'[ip] = IF ip = call[p].ip THEN Txn(p).slot ELSE ipinfo[ip]
  BY <1>1 DEF TypeOK
<1> QED BY <1>3, <1>4 DEF SameRecords, Recorded, Exists

\* The calls of etcd record an address, unrecord it, or leave it as it is.
LEMMA EtcdMoves ==
    ASSUME IInv, NEW p \in Procs, Put(p) \/ Delete(p) \/ Update(p)
    PROVE  Moves(p)
<1>1. TypeOK /\ call[p] \in Frame
  BY DEF IInv, TypeOK
<1>2. /\ {"nil", "ErrKVNotExists", "ErrMaxRetryCountExceeded"} \subseteq Errors
      /\ {"delete", "free"} \subseteq PCs
  BY DEF Errors, PCs
<1>3. CASE Put(p)
  <2>1. /\ call[p].pc = "put" /\ UNCHANGED calico /\ Return(p, "nil")
        /\ ipinfo' = [ipinfo EXCEPT ![call[p].ip] = PutSlot(@, NewIPInfo)]
    BY <1>3 DEF Put
  <2>2. call[p].ip \in IPs /\ ipinfo[call[p].ip] \in Slot(IPInfo)
    BY <2>1, Working
  <2>3. Exists(PutSlot(ipinfo[call[p].ip], NewIPInfo))
    BY <2>2, SlotExists, ValueTypes
  <2>4. \A jp \in IPs : ipinfo'[jp] = IF jp = call[p].ip
                                      THEN PutSlot(ipinfo[call[p].ip], NewIPInfo) ELSE ipinfo[jp]
    BY <1>1, <2>1, <2>2 DEF TypeOK
  <2>5. \A jp \in IPs : Recorded(jp)' <=> (jp = call[p].ip \/ Recorded(jp))
    BY <2>3, <2>4 DEF Recorded, Exists
  <2>6. \A jp \in IPs : ~Owns(p, jp)'
    BY <1>1, <1>2, <2>1, ReturnOwnsNothing
  <2>7. Records(p, call[p].ip)
    BY <2>1, <2>5, <2>6 DEF Records, Owns
  <2> QED BY <2>2, <2>7 DEF Moves
<1>4. CASE Delete(p)
  <2>1. /\ call[p].pc = "delete" /\ UNCHANGED calico
        /\ ipinfo' = [ipinfo EXCEPT ![call[p].ip] = DeleteSlot(@, NewIPInfo)]
    BY <1>4 DEF Delete
  <2>2. call[p].ip \in IPs /\ ipinfo[call[p].ip] \in Slot(IPInfo)
    BY <2>1, Working
  <2>3. CASE Exists(ipinfo[call[p].ip])
    <3>1. Goto(p, "free")
      BY <1>4, <2>3 DEF Delete
    <3>2. call'[p].ip = call[p].ip
      BY <1>1, <1>2, <2>1, <3>1, GotoType
    <3>3. ~Exists(DeleteSlot(ipinfo[call[p].ip], NewIPInfo))
      BY <2>2, SlotExists, ValueTypes
    <3>4. \A jp \in IPs : ipinfo'[jp] = IF jp = call[p].ip
                             THEN DeleteSlot(ipinfo[call[p].ip], NewIPInfo) ELSE ipinfo[jp]
      BY <1>1, <2>1, <2>2 DEF TypeOK
    <3>5. \A jp \in IPs : Recorded(jp)' <=> (jp # call[p].ip /\ Recorded(jp))
      BY <3>3, <3>4 DEF Recorded, Exists
    <3>6. Unrecords(p, call[p].ip)
      BY <2>1, <2>3, <3>2, <3>5 DEF Unrecords, Owns, Recorded
    <3> QED BY <2>2, <3>6 DEF Moves
  <2>4. CASE ~Exists(ipinfo[call[p].ip])
    <3>1. Return(p, "ErrKVNotExists")
      BY <1>4, <2>4 DEF Delete
    <3>2. UNCHANGED ipinfo
      BY <1>1, <2>1, <2>2, <2>4 DEF DeleteSlot, TypeOK
    <3> QED BY <1>1, <1>2, <2>1, <3>1, <3>2, ReturnOwnsNothing, QuietKeeps
  <2> QED BY <2>3, <2>4
<1>5. CASE Update(p)
  <2>1. /\ call[p].pc = "update" /\ UNCHANGED calico
        /\ ipinfo' = [ipinfo EXCEPT ![call[p].ip] = Txn(p).slot]
        /\ AfterUpdate(p, Txn(p).ok, Txn(p).err)
    BY <1>5 DEF Update
  <2>2. Txn(p).ok \in BOOLEAN /\ Txn(p).err \in {"nil", "ErrKVNotExists"}
    BY <2>1, Working, SlotOps DEF Txn
  <2>3. \A ip \in IPs : ~Owns(p, ip)'
    <3>1. CASE \E e \in Errors : Return(p, e)
      BY <1>1, <3>1, ReturnOwnsNothing
    <3>2. CASE Goto(p, "delete")
      BY <1>1, <1>2, <2>1, <3>2, GotoType DEF Owns
    <3>3. CASE call[p].cnt + 1 < RetryMaxCount /\ call' = [call EXCEPT ![p] = Retried(p)]
      <4>1. call'[p] = Retried(p)
        BY <1>1, <2>1, <3>3, RetriedType
      <4>2. call'[p].pc = "get"
        BY <1>1, <4>1 DEF Retried, Frame
      <4> QED BY <4>2 DEF Owns
    <3> QED BY <1>1, <1>2, <2>1, <2>2, <3>1, <3>2, <3>3, AfterUpdateShape
  <2>4. Keeps(p)
    BY <2>1, <2>3, UpdateKeepsRecords DEF Keeps
  <2> QED BY <2>4 DEF Moves
<1> QED BY <1>3, <1>4, <1>5

\* A crash, and a call that failed without effect: the hold on an address may be
\* dropped (the address leaks), it is never gained.
LEMMA FaultMoves ==
    ASSUME IInv, NEW p \in Procs, Crash(p) \/ CallError(p)
    PROVE  Moves(p)
<1>1. TypeOK /\ call[p] \in Frame
  BY DEF IInv, TypeOK
<1>2. "crashed" \in Errors /\ {"delete", "undo"} \subseteq PCs
  BY DEF Errors, PCs
<1>3. CASE Crash(p)
  BY <1>1, <1>2, <1>3, ReturnOwnsNothing, QuietKeeps DEF Crash
<1>4. CASE CallError(p)
  <2>1. UNCHANGED <<ipinfo, calico>> /\ call[p].pc # "idle" /\ AfterFailure(p)
    BY <1>4 DEF CallError
  <2>2. CASE \E e \in Errors : Return(p, e)
    BY <1>1, <2>1, <2>2, ReturnOwnsNothing, QuietKeeps
  <2>3. CASE call[p].pc = "update" /\ Goto(p, "delete")
    <3>1. call'[p].pc = "delete"
      BY <1>1, <1>2, <2>3, GotoType
    <3> QED BY <2>1, <3>1, QuietKeeps DEF Owns
  <2>4. CASE call[p].pc = "put" /\ Goto(p, "undo")
    <3>1. call'[p].ip = call[p].ip
      BY <1>1, <1>2, <2>4, GotoType
    <3> QED BY <2>1, <2>4, <3>1, QuietKeeps DEF Owns
  <2>5. CASE /\ call[p].pc = "auto" /\ call[p].pools # <<>>
             /\ call' = [call EXCEPT ![p].pools = Tail(@)]
    <3>1. call'[p].pc = "auto"
      BY <1>1, <2>5, TailType
    <3> QED BY <2>1, <3>1, QuietKeeps DEF Owns
  <2> QED BY <1>1, <2>1, <2>2, <2>3, <2>4, <2>5, AfterFailureShape
<1> QED BY <1>3, <1>4

-----------------------------------------------------------------------------
(***************************************************************************)
(* Ownership                                                               *)
(***************************************************************************)

\* Each step of a process is one of the moves.
LEMMA StepMoves ==
    ASSUME IInv, "timeout" \notin Faults, Next
    PROVE  \E p \in Procs : Moves(p) /\ Alone(p)
<1>1. PICK p \in Procs : AnyCall(p) \/ Step(p) \/ Fault(p)
  BY DEF Next
<1>2. Alone(p)
  BY <1>1, OneMoves DEF IInv
<1>3. ~CallTimeout(p)
  BY DEF CallTimeout
<1>4. CASE AnyCall(p)
  BY <1>4, LocalMoves, <1>2
<1>5. CASE Step(p)
  BY <1>5, LocalMoves, CalicoMoves, EtcdMoves, <1>2 DEF Step
<1>6. CASE Fault(p)
  BY <1>3, <1>6, FaultMoves, <1>2 DEF Fault
<1> QED BY <1>1, <1>4, <1>5, <1>6

\* The parts of OwnedOnce, for two addresses and two processes.
OwnedPair(ip, jp) ==
    /\ Recorded(ip) => ip.Address \in calico
    /\ (Recorded(ip) /\ Recorded(jp) /\ ip.Address = jp.Address) => ip = jp
    /\ \A p \in Procs : Owns(p, ip) =>
          /\ ip.Address \in calico
          /\ jp.Address = ip.Address => ~Recorded(jp)
          /\ \A q \in Procs \ {p} : jp.Address = ip.Address => ~Owns(q, jp)

\* A process that does not move owns what it owned.
LEMMA AloneOwns ==
    ASSUME NEW p \in Procs, Alone(p)
    PROVE  \A q \in Procs \ {p}, ip \in IPs : Owns(q, ip)' <=> Owns(q, ip)
BY DEF Alone, Owns

\* Every move keeps the ownership unique.
LEMMA MovesKeepOwnership ==
    ASSUME TypeOK, OwnedOnce, NEW p \in Procs, Moves(p), Alone(p)
    PROVE  OwnedOnce'
<1>1. \A ip, jp \in IPs : OwnedPair(ip, jp)
  BY DEF OwnedOnce, OwnedPair, Recorded
<1>2. \A q \in Procs \ {p}, ip \in IPs : Owns(q, ip)' <=> Owns(q, ip)
  BY AloneOwns
<1> HIDE DEF OwnedOnce
<1>3. SUFFICES ASSUME NEW ip \in IPs, NEW jp \in IPs PROVE OwnedPair(ip, jp)'
  BY DEF OwnedOnce, OwnedPair, Recorded
<1>4. CASE Keeps(p)
  BY <1>1, <1>2, <1>4 DEF Keeps, SameRecords, OwnedPair
<1>5. ASSUME NEW kp \in IPs, Takes(p, kp) PROVE OwnedPair(ip, jp)'
  BY <1>1, <1>2, <1>5 DEF Takes, SameRecords, OwnedPair
<1>6. ASSUME NEW kp \in IPs, Records(p, kp) PROVE OwnedPair(ip, jp)'
  BY <1>1, <1>2, <1>6 DEF Records, OwnedPair
<1>7. ASSUME NEW kp \in IPs, Unrecords(p, kp) PROVE OwnedPair(ip, jp)'
  BY <1>1, <1>2, <1>7 DEF Unrecords, OwnedPair
<1>8. ASSUME NEW kp \in IPs, GivesBack(p, kp) PROVE OwnedPair(ip, jp)'
  BY <1>1, <1>2, <1>8 DEF GivesBack, SameRecords, OwnedPair
<1> QED BY <1>4, <1>5, <1>6, <1>7, <1>8 DEF Moves

\* An address has at most one owner, and what is owned is allocated in Calico.
THEOREM OwnershipIsUnique ==
    ASSUME "timeout" \notin Faults
    PROVE  Spec => []OwnedOnce
<1>1. Init => OwnedOnce
  BY DEF Init, OwnedOnce, Owns, NoSlot, Exists, IdleFrame
<1>2. IInv /\ OwnedOnce /\ [Next]_vars => OwnedOnce'
  <2> SUFFICES ASSUME IInv, OwnedOnce, [Next]_vars PROVE OwnedOnce'
    OBVIOUS
  <2>1. CASE Next
    BY <2>1, StepMoves, MovesKeepOwnership DEF IInv
  <2>2. CASE UNCHANGED vars
    BY <2>2 DEF vars, OwnedOnce, Owns, Exists
  <2> QED BY <2>1, <2>2
<1> QED BY <1>1, <1>2, IInvInductive, PTL DEF Spec

-----------------------------------------------------------------------------
(***************************************************************************)
(* Refinement                                                              *)
(***************************************************************************)

\* The key of address a in pool x.
LEMMA KeyOf ==
    ASSUME NEW a \in Addresses, NEW x \in Pools
    PROVE  /\ [PoolID |-> x, Address |-> a] \in IPs
           /\ \A ip \in IPs : ip = [PoolID |-> ip.PoolID, Address |-> ip.Address]
BY DEF IPs

\* Every move is a step of the ledger, or none.
LEMMA MovesRefine ==
    ASSUME TypeOK, OwnedOnce, OwnedOnce', NEW p \in Procs, Moves(p)
    PROVE  [Ledger!LedgerNext]_(Ledger!ledger)
<1> DEFINE F == [a \in Addresses |-> RecordedIn(a)]
<1>1. \A a \in Addresses : F[a] = {x \in Pools : Recorded([PoolID |-> x, Address |-> a])}
  BY DEF RecordedIn, Recorded
<1>2. \A a \in Addresses : F'[a] = {x \in Pools : Recorded([PoolID |-> x, Address |-> a])'}
  BY DEF RecordedIn, Recorded
<1>3. ASSUME SameRecords PROVE F' = F
  <2>1. ASSUME NEW a \in Addresses PROVE RecordedIn(a)' = RecordedIn(a)
    BY <1>3, KeyOf DEF SameRecords, RecordedIn, Recorded
  <2> QED BY <2>1
<1>4. CASE Keeps(p)
  BY <1>3, <1>4 DEF Keeps, Ledger!ledger
<1>5. ASSUME NEW ip \in IPs, Takes(p, ip) PROVE [Ledger!LedgerNext]_(Ledger!ledger)
  <2>1. ip.Address \in Addresses
    BY DEF IPs
  <2>2. Ledger!Take(ip.Address)
    BY <1>3, <1>5 DEF Takes, Ledger!Take
  <2> QED BY <2>1, <2>2 DEF Ledger!LedgerNext
<1>6. ASSUME NEW ip \in IPs, GivesBack(p, ip) PROVE [Ledger!LedgerNext]_(Ledger!ledger)
  <2>1. ip.Address \in Addresses
    BY DEF IPs
  <2>2. ip.Address \in calico /\ F[ip.Address] = {}
    BY <1>1, <1>6, <2>1, KeyOf DEF GivesBack, OwnedOnce, Recorded
  <2>3. Ledger!GiveBack(ip.Address)
    BY <1>3, <1>6, <2>2 DEF GivesBack, Ledger!GiveBack
  <2> QED BY <2>1, <2>3 DEF Ledger!LedgerNext
<1>7. ASSUME NEW ip \in IPs, Records(p, ip) PROVE [Ledger!LedgerNext]_(Ledger!ledger)
  <2>1. ip.Address \in Addresses /\ ip.PoolID \in Pools
    BY DEF IPs
  <2>2. ip.Address \in calico /\ F[ip.Address] = {}
    BY <1>1, <1>7, <2>1, KeyOf DEF Records, OwnedOnce, Recorded
  <2>3. ASSUME NEW a \in Addresses
        PROVE  RecordedIn(a)' = IF a = ip.Address THEN {ip.PoolID} ELSE RecordedIn(a)
    <3>1. \A x \in Pools : /\ [PoolID |-> x, Address |-> a] \in IPs
                           /\ [PoolID |-> x, Address |-> a] = ip <=> (a = ip.Address /\ x = ip.PoolID)
      BY KeyOf DEF IPs
    <3>2. \A x \in Pools : x \in RecordedIn(a)' <=>
             \/ a = ip.Address /\ x = ip.PoolID
             \/ x \in RecordedIn(a)
      BY <1>7, <3>1 DEF Records, RecordedIn, Recorded
    <3>3. RecordedIn(ip.Address) = {}
      BY <2>1, <2>2
    <3> QED BY <2>1, <3>2, <3>3 DEF RecordedIn
  <2>4. F' = [F EXCEPT ![ip.Address] = {ip.PoolID}]
    BY <2>1, <2>3
  <2>5. Ledger!Record(ip.Address, ip.PoolID)
    BY <1>7, <2>2, <2>4 DEF Records, Ledger!Record
  <2> QED BY <2>1, <2>5 DEF Ledger!LedgerNext
<1>8. ASSUME NEW ip \in IPs, Unrecords(p, ip) PROVE [Ledger!LedgerNext]_(Ledger!ledger)
  <2>1. ip.Address \in Addresses /\ ip.PoolID \in Pools /\ ip = [PoolID |-> ip.PoolID, Address |-> ip.Address]
    BY DEF IPs
  <2>2. F[ip.Address] # {}
    BY <1>1, <1>8, <2>1 DEF Unrecords
  <2>3. ASSUME NEW a \in Addresses
        PROVE  RecordedIn(a)' = IF a = ip.Address THEN {} ELSE RecordedIn(a)
    <3>1. \A x \in Pools : /\ [PoolID |-> x, Address |-> a] \in IPs
                           /\ [PoolID |-> x, Address |-> a].Address = a
                           /\ a # ip.Address => [PoolID |-> x, Address |-> a] # ip
      BY KeyOf
    <3>2. a = ip.Address => \A x \in Pools : ~Recorded([PoolID |-> x, Address |-> a])'
      BY <1>8, <3>1 DEF Unrecords, OwnedOnce, Recorded
    <3>3. a # ip.Address => \A x \in Pools : Recorded([PoolID |-> x, Address |-> a])'
                                         <=> Recorded([PoolID |-> x, Address |-> a])
      BY <1>8, <3>1 DEF Unrecords
    <3> QED BY <3>2, <3>3 DEF RecordedIn, Recorded
  <2>4. F' = [F EXCEPT ![ip.Address] = {}]
    BY <2>1, <2>3
  <2>5. Ledger!Unrecord(ip.Address)
    BY <1>8, <2>2, <2>4 DEF Unrecords, Ledger!Unrecord
  <2> QED BY <2>1, <2>5 DEF Ledger!LedgerNext
<1> QED BY <1>4, <1>5, <1>6, <1>7, <1>8 DEF Moves

\* The pool implements the ledger.
THEOREM PoolImplementsLedger ==
    ASSUME "timeout" \notin Faults
    PROVE  Spec => ImplementsLedger
<1>1. Init => Ledger!LedgerInit
  BY DEF Init, Ledger!LedgerInit, RecordedIn, NoSlot, Exists, IPs
<1>2. IInv /\ OwnedOnce /\ OwnedOnce' /\ [Next]_vars => [Ledger!LedgerNext]_(Ledger!ledger)
  <2> SUFFICES ASSUME IInv, OwnedOnce, OwnedOnce', [Next]_vars
               PROVE  [Ledger!LedgerNext]_(Ledger!ledger)
    OBVIOUS
  <2>1. CASE Next
    BY <2>1, StepMoves, MovesRefine DEF IInv
  <2>2. CASE UNCHANGED vars
    BY <2>2 DEF vars, Ledger!ledger, RecordedIn, Exists
  <2> QED BY <2>1, <2>2
<1>3. Spec => []IInv
  BY IInvInductive, PTL DEF Spec
<1> QED BY <1>1, <1>2, <1>3, OwnershipIsUnique, PTL DEF Spec, ImplementsLedger, Ledger!LedgerSpec

-----------------------------------------------------------------------------
(***************************************************************************)
(* Nothing leaks before the first fault, whatever the faults are.          *)
(***************************************************************************)

\* A step of p loses track of no address: what p takes it owns, what it owned it
\* still owns, has recorded or has given back, and a record it removes it owns.
KeepsTrack(p) ==
    /\ \A a \in calico' \ calico : \E ip \in IPs : ip.Address = a /\ Owns(p, ip)'
    /\ \A ip \in IPs : Owns(p, ip) => Owns(p, ip)' \/ Recorded(ip)' \/ ip.Address \notin calico'
    /\ \A ip \in IPs : Recorded(ip) => Recorded(ip)' \/ Owns(p, ip)'

\* Starting a call, and the local steps after GetFixedIP: p owned nothing.
LEMMA LocalTrack ==
    ASSUME IInv, NEW p \in Procs,
           \/ AnyCall(p)
           \/ NotAllocated(p) \/ AssignFixedIP(p) \/ UnassignFixedIP(p) \/ BorrowFixedIP(p)
           \/ ReturnFixedIP(p) \/ UnallocFixedIP(p) \/ AllocFixedIP(p)
    PROVE  KeepsTrack(p)
<1>1. UNCHANGED <<ipinfo, calico>> /\ call[p].pc \in {"idle", "get"}
  <2>1. CASE AnyCall(p)
    BY <2>1, AnyCallType DEF IInv
  <2>2. CASE ~AnyCall(p)
    BY <2>2, GotSteps DEF IInv
  <2> QED BY <2>1, <2>2
<1> QED BY <1>1 DEF KeepsTrack, Owns, Recorded, Exists

\* The calls of Calico.
LEMMA CalicoTrack ==
    ASSUME IInv, NEW p \in Procs, AllocIP(p) \/ AllocIPFromPools(p) \/ UnallocIP(p)
    PROVE  KeepsTrack(p)
<1>1. TypeOK /\ call[p] \in Frame /\ "put" \in PCs
  BY DEF IInv, TypeOK, PCs
<1>2. UNCHANGED ipinfo
  BY DEF AllocIP, AllocIPFromPools, UnallocIP
<1>3. CASE AllocIP(p)
  <2>1. call[p].pc = "alloc" /\ call[p].ip \in IPs
    BY <1>1, <1>3 DEF AllocIP, TypeOK
  <2>2. CASE call[p].ip.Address \in calico
    <3>1. UNCHANGED calico
      BY <1>3, <2>2 DEF AllocIP
    <3> QED BY <1>2, <2>1, <3>1 DEF KeepsTrack, Owns, Recorded, Exists
  <2>3. CASE call[p].ip.Address \notin calico
    <3>1. Goto(p, "put") /\ calico' = calico \cup {call[p].ip.Address}
      BY <1>3, <2>3 DEF AllocIP
    <3>2. call'[p].pc = "put" /\ call'[p].ip = call[p].ip
      BY <1>1, <2>1, <3>1, GotoType
    <3> QED BY <1>2, <2>1, <3>1, <3>2 DEF KeepsTrack, Owns, Recorded, Exists
  <2> QED BY <2>2, <2>3
<1>4. CASE AllocIPFromPools(p)
  <2>1. call[p].pc = "auto"
    BY <1>4 DEF AllocIPFromPools
  <2>2. CASE call[p].pools = <<>> \/ CIDR[Head(call[p].pools)] \ calico = {}
    <3>1. UNCHANGED calico
      BY <1>4, <2>2 DEF AllocIPFromPools
    <3> QED BY <1>2, <2>1, <3>1 DEF KeepsTrack, Owns, Recorded, Exists
  <2>3. CASE call[p].pools # <<>> /\ CIDR[Head(call[p].pools)] \ calico # {}
    <3>1. PICK a \in CIDR[Head(call[p].pools)] \ calico :
             /\ calico' = calico \cup {a}
             /\ call' = [call EXCEPT ![p].pc = "put",
                            ![p].ip = [PoolID |-> Head(call[p].pools), Address |-> a]]
      BY <1>4, <2>3 DEF AllocIPFromPools
    <3> DEFINE ip == [PoolID |-> Head(call[p].pools), Address |-> a]
    <3>2. Head(call[p].pools) \in Pools
      BY <1>1, <2>3 DEF Frame
    <3>3. ip \in IPs /\ ip.Address = a
      BY <3>1, <3>2, CIDRAssumption DEF IPs
    <3>4. call'[p].ip = ip /\ call'[p].pc = "put"
      BY <1>1, <3>1 DEF TypeOK, Frame
    <3> HIDE DEF ip
    <3> QED BY <1>2, <2>1, <3>1, <3>3, <3>4 DEF KeepsTrack, Owns, Recorded, Exists
  <2> QED BY <2>2, <2>3
<1>5. CASE UnallocIP(p)
  BY <1>2, <1>5 DEF UnallocIP, KeepsTrack, Owns, Recorded, Exists
<1> QED BY <1>3, <1>4, <1>5

\* The calls of etcd.
LEMMA EtcdTrack ==
    ASSUME IInv, NEW p \in Procs, Put(p) \/ Delete(p) \/ Update(p)
    PROVE  KeepsTrack(p)
<1>1. TypeOK /\ "free" \in PCs /\ UNCHANGED calico
  BY DEF IInv, PCs, Put, Delete, Update
<1>2. call[p].pc \in {"put", "delete", "update"}
  BY DEF Put, Delete, Update
<1>3. call[p].ip \in IPs /\ ipinfo[call[p].ip] \in Slot(IPInfo)
  BY <1>2, Working
<1>4. CASE Put(p)
  <2>1. ipinfo' = [ipinfo EXCEPT ![call[p].ip] = PutSlot(@, NewIPInfo)] /\ call[p].pc = "put"
    BY <1>4 DEF Put
  <2>2. Exists(PutSlot(ipinfo[call[p].ip], NewIPInfo))
    BY <1>3, SlotExists, ValueTypes
  <2>3. \A jp \in IPs : ipinfo'[jp] = IF jp = call[p].ip
                                      THEN PutSlot(ipinfo[call[p].ip], NewIPInfo) ELSE ipinfo[jp]
    BY <1>1, <1>3, <2>1 DEF TypeOK
  <2>4. \A jp \in IPs : Recorded(jp)' <=> (jp = call[p].ip \/ Recorded(jp))
    BY <2>2, <2>3 DEF Recorded, Exists
  <2> QED BY <1>1, <2>4 DEF KeepsTrack, Owns
<1>5. CASE Delete(p)
  <2>1. ipinfo' = [ipinfo EXCEPT ![call[p].ip] = DeleteSlot(@, NewIPInfo)] /\ call[p].pc = "delete"
    BY <1>5 DEF Delete
  <2>2. \A jp \in IPs \ {call[p].ip} : Recorded(jp)' <=> Recorded(jp)
    BY <1>1, <1>3, <2>1 DEF TypeOK, Recorded, Exists
  <2>4. \A jp \in IPs : ~Owns(p, jp)
    BY <2>1 DEF Owns
  <2>5. ASSUME NEW jp \in IPs, Recorded(jp) PROVE Recorded(jp)' \/ Owns(p, jp)'
    <3>1. CASE jp = call[p].ip
      <4>1. Goto(p, "free")
        BY <1>5, <2>5, <3>1 DEF Delete, Recorded
      <4>2. call'[p].pc = "free" /\ call'[p].ip = jp
        BY <1>1, <2>1, <3>1, <4>1, GotoType
      <4> QED BY <4>2 DEF Owns
    <3> QED BY <2>2, <2>5, <3>1
  <2> QED BY <1>1, <2>4, <2>5 DEF KeepsTrack
<1>6. CASE Update(p)
  <2>1. ipinfo' = [ipinfo EXCEPT ![call[p].ip] = Txn(p).slot] /\ call[p].pc = "update"
    BY <1>6 DEF Update
  <2>2. SameRecords
    BY <2>1, UpdateKeepsRecords
  <2> QED BY <1>1, <2>1, <2>2 DEF KeepsTrack, Owns, SameRecords
<1> QED BY <1>4, <1>5, <1>6

\* Who keeps track leaks nothing.
LEMMA TrackLeaksNothing ==
    ASSUME NothingLeaks, NEW p \in Procs, KeepsTrack(p), Alone(p)
    PROVE  NothingLeaks'
<1>1. \A q \in Procs \ {p}, ip \in IPs : Owns(q, ip)' <=> Owns(q, ip)
  BY AloneOwns
<1>2. SUFFICES ASSUME NEW a \in calico'
               PROVE  \E ip \in IPs : ip.Address = a /\ (Recorded(ip)' \/ \E q \in Procs : Owns(q, ip)')
  BY DEF NothingLeaks, Recorded
<1>3. CASE a \notin calico
  BY <1>3 DEF KeepsTrack
<1>4. CASE a \in calico
  <2>1. PICK ip \in IPs : ip.Address = a /\ (Recorded(ip) \/ \E q \in Procs : Owns(q, ip))
    BY <1>4 DEF NothingLeaks, Recorded
  <2>2. CASE Recorded(ip)
    BY <2>1, <2>2 DEF KeepsTrack
  <2>3. CASE Owns(p, ip)
    BY <1>2, <2>1, <2>3 DEF KeepsTrack
  <2>4. ASSUME NEW q \in Procs \ {p}, Owns(q, ip) PROVE Owns(q, ip)'
    BY <1>1, <2>4
  <2> QED BY <2>1, <2>2, <2>3, <2>4
<1> QED BY <1>3, <1>4

\* As long as no call fails and no process dies, an address that is allocated in Calico
\* has a record or an operation that will write one or free it: no interleaving of the
\* pool's operations, for any number of processes, loses an address.
THEOREM NothingLeaksWithoutFaults == OSpec => []OnlyFaultsLeak
<1>1. OInit => OnlyFaultsLeak
  BY DEF OInit, Init, OnlyFaultsLeak, NothingLeaks
<1>2. IInv /\ OnlyFaultsLeak /\ [ONext]_<<vars, faulted>> => OnlyFaultsLeak'
  <2> SUFFICES ASSUME IInv, OnlyFaultsLeak, [ONext]_<<vars, faulted>>, ~faulted'
               PROVE  NothingLeaks'
    BY DEF OnlyFaultsLeak
  <2>1. CASE ONext
    <3>1. PICK p \in Procs : (AnyCall(p) \/ Step(p)) /\ UNCHANGED faulted
      BY <2>1 DEF ONext
    <3>2. NothingLeaks
      BY <3>1 DEF OnlyFaultsLeak
    <3>3. Alone(p)
      BY <3>1, OneMoves DEF IInv
    <3>4. KeepsTrack(p)
      BY <3>1, LocalTrack, CalicoTrack, EtcdTrack DEF Step
    <3> QED BY <3>2, <3>3, <3>4, TrackLeaksNothing
  <2>2. CASE UNCHANGED <<vars, faulted>>
    BY <2>2 DEF vars, OnlyFaultsLeak, NothingLeaks, Owns, Exists
  <2> QED BY <2>1, <2>2
<1>3. Init /\ [][Next]_vars => []IInv
  BY IInvInductive, PTL
<1>4. [ONext]_<<vars, faulted>> => [Next]_vars
  BY DEF ONext, Next, vars
<1>5. OInit => Init
  BY DEF OInit
<1> QED BY <1>1, <1>2, <1>3, <1>4, <1>5, PTL DEF OSpec

=============================================================================
