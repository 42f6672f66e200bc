--------------------------- MODULE ContainerProofs ---------------------------
(***************************************************************************)
(* Two containers never share an address, for every number of processes,   *)
(* containers, pools and networks, all requests and all faults, unless one *)
(* of the Unprotected steps of ContainerAddresses happens.                 *)
(***************************************************************************)
EXTENDS ContainerAddresses, FixedIPPoolProofs

-----------------------------------------------------------------------------
(***************************************************************************)
(* The invariant                                                           *)
(***************************************************************************)

\* The pool operation a job is in, by its stage; no other stage is in the pool.
OpOf(stage) ==
    CASE stage \in {"alloc", "netalloc"}     -> "AllocFixedIPFromPools"
      [] stage \in {"rollback", "unalloc"}   -> "UnallocFixedIP"
      [] stage = "borrow"                    -> "BorrowFixedIP"
      [] stage = "return"                    -> "ReturnFixedIP"
      [] stage = "assign"                    -> "AssignFixedIP"
      [] stage = "unassign"                  -> "UnassignFixedIP"
      [] OTHER                               -> "none"

\* A job has the container and the address its stage needs.
GoodJob(j) ==
    /\ j \in Job
    /\ j.stage # "idle" => j.c \in Containers
    /\ j.stage \in {"assign", "unassign", "free", "return", "unalloc"} => j.ip \in IPs

\* A process inside the pool is in the operation of its job and, if dockerd asked
\* for it, works on the address of its job.
Linked(p) ==
    /\ call[p].pc # "idle" => call[p].op = OpOf(job[p].stage)
    /\ job[p].stage \in {"assign", "unassign"} /\ call[p].pc # "idle" => call[p].ip = job[p].ip
    /\ GoodJob(job[p])
    /\ job[p].stage \in {"alloc", "netalloc"} /\ Ok(p) /\ call[p].pc = "idle" => call[p].ip \in IPs

\* The calls each operation makes, and what it is about to write from what it read.
Prepared(p) ==
    LET f == call[p]
    IN  /\ f.pc # "alloc"
        /\ f.pc \in {"delete", "free"} => f.op = "UnallocFixedIP"
        /\ f.pc \in {"auto", "put", "undo"} => f.op = "AllocFixedIPFromPools"
        /\ f.pc \in {"get", "update"} => f.op # "AllocFixedIPFromPools"
        /\ f.pc = "update" =>
              /\ f.op \in {"AssignFixedIP", "UnallocFixedIP"} =>
                    "InUse" \notin f.read.val.status /\ "InUse" \in f.codec.status
              /\ f.op \in {"BorrowFixedIP", "ReturnFixedIP"} =>
                    f.codec.status = f.read.val.status

\* p has marked ip as in use, and dockerd is not told yet.
Granted(p, ip) ==
    /\ job[p].stage = "assign" /\ job[p].ip = ip
    /\ call[p].pc = "idle" /\ Ok(p)

\* p knows that ip, which it gives back, has no record.
Freeing(p, ip) ==
    /\ job[p].ip = ip
    /\ \/ job[p].stage = "free"
       \/ /\ job[p].stage = "unassign"
          /\ call[p].pc = "idle" /\ call[p].err = "ErrFixedIPNotAllocated"

\* p takes the mark off ip.
Unmarking(p, ip) ==
    /\ job[p].stage = "unassign" /\ job[p].ip = ip
    /\ call[p].pc \in {"get", "update"}

\* p has locked ip and deletes its record.
Deleting(p, ip) == call[p].pc = "delete" /\ call[p].ip = ip

\* p counts on nobody else using ip.
Busy(p, ip) == Granted(p, ip) \/ Freeing(p, ip) \/ Unmarking(p, ip) \/ Deleting(p, ip)

\* A container or a process uses ip.
Used(ip) == (\E c \in Containers : ip \in held[c]) \/ (\E p \in Procs : Busy(p, ip))

MarkedInUse(ip) == "InUse" \in ipinfo[ip].val.status

\* An address has one user at a time, under one key.  While it has one it is
\* allocated, its record, if there is one, says in use, and nobody is about to
\* record or free it.
UsedPair(ip, jp) ==
    /\ Used(ip) =>
          /\ ip.Address \in calico
          /\ Recorded(jp) => jp = ip /\ MarkedInUse(ip)
          /\ \A q \in Procs : ~Owns(q, jp)
    /\ \A c, d \in Containers : ip \in held[c] /\ jp \in held[d] => c = d /\ ip = jp
    /\ \A c \in Containers, q \in Procs : ip \in held[c] => ~Busy(q, jp)
    /\ \A p, q \in Procs : Busy(p, ip) /\ Busy(q, jp) => p = q

UsedOnce ==
    /\ \A ip, jp \in IPs : ip.Address = jp.Address => UsedPair(ip, jp)
    /\ \A p \in Procs, ip \in IPs :
          /\ Freeing(p, ip) => ~Recorded(ip)
          /\ Deleting(p, ip) => Recorded(ip)

SysIInv ==
    /\ SysTypeOK /\ VersionInv
    /\ \A p \in Procs : Linked(p) /\ Prepared(p)
    /\ ~broken => OwnedOnce /\ UsedOnce

-----------------------------------------------------------------------------
(***************************************************************************)
(* What a step of p does to the records, to Calico, to the containers and  *)
(* to p's own hold on an address.                                          *)
(***************************************************************************)

\* The records stay and so do their marks, except that of ip.
SameBut(ip) ==
    \A jp \in IPs : /\ Recorded(jp)' <=> Recorded(jp)
                    /\ jp # ip => (MarkedInUse(jp)' <=> MarkedInUse(jp))

SameMarks ==
    \A jp \in IPs : /\ Recorded(jp)' <=> Recorded(jp)
                    /\ MarkedInUse(jp)' <=> MarkedInUse(jp)

\* p holds nothing afterwards, or nothing but ip.
HoldsNone(p) == \A ip \in IPs : ~Owns(p, ip)' /\ ~Busy(p, ip)'
OwnsOnly(p, ip) == \A jp \in IPs : (Owns(p, jp)' => jp = ip) /\ ~Busy(p, jp)'
BusyOnly(p, ip) == \A jp \in IPs : ~Owns(p, jp)' /\ (Busy(p, jp)' => jp = ip)

\* Nothing changes but that p may drop what it holds, or learn that the record
\* of what it gives back does not exist.
Quiet(p) ==
    /\ UNCHANGED <<calico, held>> /\ SameMarks
    /\ \A ip \in IPs : /\ Owns(p, ip)' => Owns(p, ip)
                       /\ Busy(p, ip)' => Busy(p, ip)
                       /\ Deleting(p, ip)' => Deleting(p, ip)
                       /\ Freeing(p, ip)' => Freeing(p, ip) \/ ~Recorded(ip)

\* A container's address goes to p, which releases it, and one p has marked goes
\* to a container.
Releases(p, c, ip) ==
    /\ ip \in held[c] /\ held' = [held EXCEPT ![c] = @ \ {ip}]
    /\ UNCHANGED calico /\ SameMarks /\ BusyOnly(p, ip)
    /\ \A jp \in IPs : ~Freeing(p, jp)' /\ ~Deleting(p, jp)'

Grants(p, c, ip) ==
    /\ Busy(p, ip) /\ held' = [held EXCEPT ![c] = @ \cup {ip}]
    /\ UNCHANGED calico /\ SameMarks /\ HoldsNone(p)

\* p marks a record, for a container or to delete it, or takes the mark off.
Marks(p, ip) ==
    /\ Recorded(ip) /\ ~MarkedInUse(ip) /\ MarkedInUse(ip)'
    /\ UNCHANGED <<calico, held>> /\ SameBut(ip) /\ BusyOnly(p, ip)
    /\ \A jp \in IPs : ~Freeing(p, jp)'

Unmarks(p, ip) ==
    /\ Busy(p, ip)
    /\ UNCHANGED <<calico, held>> /\ SameBut(ip) /\ HoldsNone(p)

\* Calico gives an address to p, or to container c.
TakesFree(p, ip) ==
    /\ ip.Address \notin calico /\ calico' = calico \cup {ip.Address}
    /\ UNCHANGED held /\ SameMarks /\ OwnsOnly(p, ip)

GivesFree(p, c, ip) ==
    /\ ip.Address \notin calico /\ calico' = calico \cup {ip.Address}
    /\ held' = [held EXCEPT ![c] = @ \cup {ip}] /\ SameMarks /\ HoldsNone(p)

\* p records an address, deletes the record of one, or frees it.
Writes(p, ip) ==
    /\ Owns(p, ip)
    /\ \A jp \in IPs : /\ Recorded(jp)' <=> (jp = ip \/ Recorded(jp))
                       /\ jp # ip => (MarkedInUse(jp)' <=> MarkedInUse(jp))
    /\ UNCHANGED <<calico, held>> /\ HoldsNone(p)

Erases(p, ip) ==
    /\ Deleting(p, ip)
    /\ \A jp \in IPs : /\ Recorded(jp)' <=> (jp # ip /\ Recorded(jp))
                       /\ jp # ip => (MarkedInUse(jp)' <=> MarkedInUse(jp))
    /\ UNCHANGED <<calico, held>> /\ OwnsOnly(p, ip)

Frees(p, ip) ==
    /\ Owns(p, ip) \/ Freeing(p, ip)
    /\ calico' = calico \ {ip.Address}
    /\ UNCHANGED held /\ SameMarks /\ HoldsNone(p)

Effect(p) ==
    \/ Quiet(p)
    \/ \E ip \in IPs :
          \/ \E c \in Containers : Releases(p, c, ip) \/ Grants(p, c, ip) \/ GivesFree(p, c, ip)
          \/ Marks(p, ip) \/ Unmarks(p, ip) \/ TakesFree(p, ip)
          \/ Writes(p, ip) \/ Erases(p, ip) \/ Frees(p, ip)

\* The other processes' jobs stay as they are.
JobAlone(p) == \A q \in Procs \ {p} : job'[q] = job[q]

\* What a process that does not move holds stays the same.
LEMMA OthersHold ==
    ASSUME NEW p \in Procs, Alone(p), JobAlone(p)
    PROVE  \A q \in Procs \ {p}, ip \in IPs :
              /\ Owns(q, ip)' <=> Owns(q, ip)
              /\ Busy(q, ip)' <=> Busy(q, ip)
              /\ Freeing(q, ip)' <=> Freeing(q, ip)
              /\ Deleting(q, ip)' <=> Deleting(q, ip)
BY DEF Alone, JobAlone, Owns, Busy, Granted, Freeing, Unmarking, Deleting, Ok

\* The records, Calico and the holders of two keys of one address.
PairOK(ip, jp) == OwnedPair(ip, jp) /\ (ip.Address = jp.Address => UsedPair(ip, jp))

\* What p gives back has no record, and what it deletes has one.
HoldOK(p, ip) == (Freeing(p, ip) => ~Recorded(ip)) /\ (Deleting(p, ip) => Recorded(ip))

\* The invariant, pair by pair.
LEMMA PairsOK ==
    OwnedOnce /\ UsedOnce <=>
        /\ \A ip, jp \in IPs : PairOK(ip, jp)
        /\ \A p \in Procs, ip \in IPs : HoldOK(p, ip)
BY DEF OwnedOnce, UsedOnce, PairOK, HoldOK, OwnedPair, Recorded

\* Whatever a step does, an address keeps its one owner and its one user.
LEMMA EffectKeeps ==
    ASSUME OwnedOnce, UsedOnce, held \in [Containers -> SUBSET IPs],
           NEW p \in Procs, Alone(p), JobAlone(p), Effect(p)
    PROVE  OwnedOnce' /\ UsedOnce'
<1>1. \A q \in Procs \ {p}, ip \in IPs :
         /\ Owns(q, ip)' <=> Owns(q, ip)
         /\ Busy(q, ip)' <=> Busy(q, ip)
         /\ Freeing(q, ip)' <=> Freeing(q, ip)
         /\ Deleting(q, ip)' <=> Deleting(q, ip)
  BY OthersHold
<1>2. /\ \A ip, jp \in IPs : PairOK(ip, jp)
      /\ \A q \in Procs, ip \in IPs : HoldOK(q, ip)
  BY PairsOK
<1>3. \A q \in Procs, ip \in IPs : /\ Freeing(q, ip) => Busy(q, ip)
                                   /\ Deleting(q, ip) => Busy(q, ip)
                                   /\ Freeing(q, ip)' => Busy(q, ip)'
                                   /\ Deleting(q, ip)' => Busy(q, ip)'
  BY DEF Busy
<1>4. SUFFICES /\ \A ip, jp \in IPs : PairOK(ip, jp)'
               /\ \A q \in Procs, ip \in IPs : HoldOK(q, ip)'
  <2>1. OwnedOnce' /\ UsedOnce' <=>
           /\ \A ip, jp \in IPs : PairOK(ip, jp)'
           /\ \A q \in Procs, ip \in IPs : HoldOK(q, ip)'
    BY DEF OwnedOnce, UsedOnce, PairOK, HoldOK, OwnedPair, Recorded
  <2> QED BY <2>1
<1>5. CASE Quiet(p)
  <2>1. ASSUME NEW ip \in IPs, NEW jp \in IPs PROVE PairOK(ip, jp)'
    <3>1. OwnedPair(ip, jp)'
      BY <1>1, <1>2, <1>5 DEF Quiet, SameMarks, PairOK, OwnedPair
    <3>2. ip.Address = jp.Address => UsedPair(ip, jp)'
      BY <1>1, <1>2, <1>5 DEF Quiet, SameMarks, PairOK, UsedPair, Used
    <3> QED BY <3>1, <3>2 DEF PairOK
  <2>2. ASSUME NEW q \in Procs, NEW ip \in IPs PROVE HoldOK(q, ip)'
    BY <1>1, <1>2, <1>5 DEF Quiet, SameMarks, HoldOK
  <2> QED BY <2>1, <2>2
<1>6. ASSUME NEW kp \in IPs, NEW c \in Containers, Releases(p, c, kp)
      PROVE  /\ \A ip, jp \in IPs : PairOK(ip, jp)'
             /\ \A q \in Procs, ip \in IPs : HoldOK(q, ip)'
  <2>0. \A d \in Containers, ip \in IPs : ip \in held'[d] <=> (ip \in held[d] /\ ~(d = c /\ ip = kp))
    BY <1>6 DEF Releases
  <2>1. ASSUME NEW ip \in IPs, NEW jp \in IPs PROVE PairOK(ip, jp)'
    <3>1. OwnedPair(ip, jp)'
      BY <1>1, <1>2, <1>6 DEF Releases, BusyOnly, SameMarks, PairOK, OwnedPair
    <3>2. ip.Address = jp.Address => UsedPair(ip, jp)'
      BY <1>1, <1>2, <1>6, <2>0 DEF Releases, BusyOnly, SameMarks, PairOK, UsedPair, Used
    <3> QED BY <3>1, <3>2 DEF PairOK
  <2>2. ASSUME NEW q \in Procs, NEW ip \in IPs PROVE HoldOK(q, ip)'
    BY <1>1, <1>2, <1>6 DEF Releases, SameMarks, HoldOK
  <2> QED BY <2>1, <2>2
<1>7. ASSUME NEW kp \in IPs, NEW c \in Containers, Grants(p, c, kp)
      PROVE  /\ \A ip, jp \in IPs : PairOK(ip, jp)'
             /\ \A q \in Procs, ip \in IPs : HoldOK(q, ip)'
  <2>0. \A d \in Containers, ip \in IPs : ip \in held'[d] <=> (ip \in held[d] \/ (d = c /\ ip = kp))
    BY <1>7 DEF Grants
  <2>1. ASSUME NEW ip \in IPs, NEW jp \in IPs PROVE PairOK(ip, jp)'
    <3>1. OwnedPair(ip, jp)'
      BY <1>1, <1>2, <1>7 DEF Grants, HoldsNone, SameMarks, PairOK, OwnedPair
    <3>2. ip.Address = jp.Address => UsedPair(ip, jp)'
      BY <1>1, <1>2, <1>7, <2>0 DEF Grants, HoldsNone, SameMarks, PairOK, UsedPair, Used
    <3> QED BY <3>1, <3>2 DEF PairOK
  <2>2. ASSUME NEW q \in Procs, NEW ip \in IPs PROVE HoldOK(q, ip)'
    BY <1>1, <1>2, <1>3, <1>7 DEF Grants, SameMarks, HoldOK, HoldsNone
  <2> QED BY <2>1, <2>2
<1>8. ASSUME NEW kp \in IPs, NEW c \in Containers, GivesFree(p, c, kp)
      PROVE  /\ \A ip, jp \in IPs : PairOK(ip, jp)'
             /\ \A q \in Procs, ip \in IPs : HoldOK(q, ip)'
  <2>0. \A d \in Containers, ip \in IPs : ip \in held'[d] <=> (ip \in held[d] \/ (d = c /\ ip = kp))
    BY <1>8 DEF GivesFree
  <2>1. ASSUME NEW ip \in IPs, NEW jp \in IPs PROVE PairOK(ip, jp)'
    <3>1. OwnedPair(ip, jp)'
      BY <1>1, <1>2, <1>8 DEF GivesFree, HoldsNone, SameMarks, PairOK, OwnedPair
    <3>2. ip.Address = jp.Address => UsedPair(ip, jp)'
      BY <1>1, <1>2, <1>8, <2>0 DEF GivesFree, HoldsNone, SameMarks, PairOK, UsedPair, OwnedPair, Used
    <3> QED BY <3>1, <3>2 DEF PairOK
  <2>2. ASSUME NEW q \in Procs, NEW ip \in IPs PROVE HoldOK(q, ip)'
    BY <1>1, <1>2, <1>3, <1>8 DEF GivesFree, SameMarks, HoldOK, HoldsNone
  <2> QED BY <2>1, <2>2
<1>9. ASSUME NEW kp \in IPs, Marks(p, kp)
      PROVE  /\ \A ip, jp \in IPs : PairOK(ip, jp)'
             /\ \A q \in Procs, ip \in IPs : HoldOK(q, ip)'
  <2>1. ASSUME NEW ip \in IPs, NEW jp \in IPs PROVE PairOK(ip, jp)'
    <3>1. OwnedPair(ip, jp)'
      BY <1>1, <1>2, <1>9 DEF Marks, BusyOnly, SameBut, PairOK, OwnedPair
    <3>2. ip.Address = jp.Address => UsedPair(ip, jp)'
      BY <1>1, <1>2, <1>9 DEF Marks, BusyOnly, SameBut, PairOK, UsedPair, OwnedPair, Used
    <3> QED BY <3>1, <3>2 DEF PairOK
  <2>2. ASSUME NEW q \in Procs, NEW ip \in IPs PROVE HoldOK(q, ip)'
    BY <1>1, <1>2, <1>3, <1>9 DEF Marks, BusyOnly, SameBut, HoldOK
  <2> QED BY <2>1, <2>2
<1>10. ASSUME NEW kp \in IPs, Unmarks(p, kp)
       PROVE  /\ \A ip, jp \in IPs : PairOK(ip, jp)'
              /\ \A q \in Procs, ip \in IPs : HoldOK(q, ip)'
  <2>1. ASSUME NEW ip \in IPs, NEW jp \in IPs PROVE PairOK(ip, jp)'
    <3>1. OwnedPair(ip, jp)'
      BY <1>1, <1>2, <1>10 DEF Unmarks, HoldsNone, SameBut, PairOK, OwnedPair
    <3>2. ip.Address = jp.Address => UsedPair(ip, jp)'
      BY <1>1, <1>2, <1>10 DEF Unmarks, HoldsNone, SameBut, PairOK, UsedPair, Used
    <3> QED BY <3>1, <3>2 DEF PairOK
  <2>2. ASSUME NEW q \in Procs, NEW ip \in IPs PROVE HoldOK(q, ip)'
    BY <1>1, <1>2, <1>3, <1>10 DEF Unmarks, HoldsNone, SameBut, HoldOK
  <2> QED BY <2>1, <2>2
<1>11. ASSUME NEW kp \in IPs, TakesFree(p, kp)
       PROVE  /\ \A ip, jp \in IPs : PairOK(ip, jp)'
              /\ \A q \in Procs, ip \in IPs : HoldOK(q, ip)'
  <2>1. ASSUME NEW ip \in IPs, NEW jp \in IPs PROVE PairOK(ip, jp)'
    <3>1. OwnedPair(ip, jp)'
      BY <1>1, <1>2, <1>11 DEF TakesFree, OwnsOnly, SameMarks, PairOK, OwnedPair
    <3>2. ip.Address = jp.Address => UsedPair(ip, jp)'
      BY <1>1, <1>2, <1>11 DEF TakesFree, OwnsOnly, SameMarks, PairOK, UsedPair, OwnedPair, Used
    <3> QED BY <3>1, <3>2 DEF PairOK
  <2>2. ASSUME NEW q \in Procs, NEW ip \in IPs PROVE HoldOK(q, ip)'
    BY <1>1, <1>2, <1>3, <1>11 DEF TakesFree, OwnsOnly, SameMarks, HoldOK
  <2> QED BY <2>1, <2>2
<1>12. ASSUME NEW kp \in IPs, Writes(p, kp)
       PROVE  /\ \A ip, jp \in IPs : PairOK(ip, jp)'
              /\ \A q \in Procs, ip \in IPs : HoldOK(q, ip)'
  <2>1. ASSUME NEW ip \in IPs, NEW jp \in IPs PROVE PairOK(ip, jp)'
    <3>1. OwnedPair(ip, jp)'
      BY <1>1, <1>2, <1>12 DEF Writes, HoldsNone, PairOK, OwnedPair
    <3>2. ip.Address = jp.Address => UsedPair(ip, jp)'
      BY <1>1, <1>2, <1>12 DEF Writes, HoldsNone, PairOK, UsedPair, Used
    <3> QED BY <3>1, <3>2 DEF PairOK
  <2>2. ASSUME NEW q \in Procs, NEW ip \in IPs PROVE HoldOK(q, ip)'
    BY <1>1, <1>2, <1>3, <1>12 DEF Writes, HoldsNone, HoldOK, PairOK, UsedPair, Used
  <2> QED BY <2>1, <2>2
<1>13. ASSUME NEW kp \in IPs, Erases(p, kp)
       PROVE  /\ \A ip, jp \in IPs : PairOK(ip, jp)'
              /\ \A q \in Procs, ip \in IPs : HoldOK(q, ip)'
  <2>0. Busy(p, kp) /\ Recorded(kp)
    BY <1>2, <1>3, <1>13 DEF Erases, HoldOK
  <2>1. ASSUME NEW ip \in IPs, NEW jp \in IPs PROVE PairOK(ip, jp)'
    <3>1. OwnedPair(ip, jp)'
      BY <1>1, <1>2, <1>13, <2>0 DEF Erases, OwnsOnly, PairOK, OwnedPair, UsedPair, Used
    <3>2. ip.Address = jp.Address => UsedPair(ip, jp)'
      BY <1>1, <1>2, <1>13, <2>0 DEF Erases, OwnsOnly, PairOK, UsedPair, Used
    <3> QED BY <3>1, <3>2 DEF PairOK
  <2>2. ASSUME NEW q \in Procs, NEW ip \in IPs PROVE HoldOK(q, ip)'
    BY <1>1, <1>2, <1>3, <1>13, <2>0 DEF Erases, OwnsOnly, HoldOK, PairOK, UsedPair
  <2> QED BY <2>1, <2>2
<1>14. ASSUME NEW kp \in IPs, Frees(p, kp)
       PROVE  /\ \A ip, jp \in IPs : PairOK(ip, jp)'
              /\ \A q \in Procs, ip \in IPs : HoldOK(q, ip)'
  <2>0. Freeing(p, kp) => Busy(p, kp) /\ ~Recorded(kp)
    BY <1>2, <1>3 DEF HoldOK
  <2>1. ASSUME NEW ip \in IPs, NEW jp \in IPs PROVE PairOK(ip, jp)'
    <3>1. OwnedPair(ip, jp)'
      BY <1>1, <1>2, <1>14, <2>0 DEF Frees, HoldsNone, SameMarks, PairOK, OwnedPair, UsedPair, Used
    <3>2. ip.Address = jp.Address => UsedPair(ip, jp)'
      BY <1>1, <1>2, <1>14, <2>0 DEF Frees, HoldsNone, SameMarks, PairOK, UsedPair, Used
    <3> QED BY <3>1, <3>2 DEF PairOK
  <2>2. ASSUME NEW q \in Procs, NEW ip \in IPs PROVE HoldOK(q, ip)'
    BY <1>1, <1>2, <1>3, <1>14 DEF Frees, HoldsNone, SameMarks, HoldOK
  <2> QED BY <2>1, <2>2
<1> QED BY <1>5, <1>6, <1>7, <1>8, <1>9, <1>10, <1>11, <1>12, <1>13, <1>14 DEF Effect

-----------------------------------------------------------------------------
(***************************************************************************)
(* Steps inside the pool                                                   *)
(***************************************************************************)

\* dockerd and the ContainerInfos have their types.
WorldOK ==
    /\ docker \in [Containers -> {"none", "requested", "failed", "created", "removed"}]
    /\ conf \in [Containers -> SUBSET IPs]
    /\ fixed \in [Containers -> SUBSET IPs]
    /\ label \in [Containers -> BOOLEAN]
    /\ held \in [Containers -> SUBSET IPs]
    /\ asked \in [Containers -> 0..MaxAsked]
    /\ cinfo \in [Containers -> Slot(SUBSET IPs)]

\* What the invariant says of p, of the store and of the world.
LEMMA SysParts ==
    ASSUME SysIInv, NEW p \in Procs
    PROVE  /\ IInv /\ TypeOK /\ WorldOK /\ job \in [Procs -> Job]
           /\ call[p] \in Frame /\ job[p] \in Job /\ GoodJob(job[p])
           /\ Linked(p) /\ Prepared(p)
           /\ job[p] = NoJob => call[p].pc = "idle"
           /\ call[p].pc \notin {"idle", "auto"} => call[p].ip \in IPs
           /\ broken \in BOOLEAN /\ unanswered \in BOOLEAN
BY DEF SysIInv, IInv, SysTypeOK, WorldOK, TypeOK, Linked

\* No stage calls "none", and AllocFixedIP is not called at all.
LEMMA StageOps ==
    ASSUME NEW st
    PROVE  /\ OpOf(st) # "AllocFixedIP"
           /\ OpOf(st) = "AssignFixedIP" <=> st = "assign"
           /\ OpOf(st) = "UnassignFixedIP" <=> st = "unassign"
           /\ OpOf(st) = "AllocFixedIPFromPools" <=> st \in {"alloc", "netalloc"}
           /\ OpOf(st) \in Ops => st \notin {"idle", "free"}
BY DEF OpOf, Ops

\* What p's step must show for the invariant: p's own frame and job, the world's
\* types and, as long as nothing unprotected happened, an Effect.
LEMMA SysPreserve ==
    ASSUME SysIInv, NEW p \in Procs, IInv', Alone(p), JobAlone(p), job' \in [Procs -> Job],
           WorldOK', Linked(p)', Prepared(p)', broken' \in BOOLEAN, unanswered' \in BOOLEAN,
           ~broken' => ~broken /\ Effect(p)
    PROVE  SysIInv'
<1>1. ASSUME NEW q \in Procs
      PROVE  Linked(q)' /\ Prepared(q)'
  <2>1. CASE q = p
    BY <2>1
  <2>2. CASE q # p
    <3>1. call'[q] = call[q] /\ job'[q] = job[q] /\ Linked(q) /\ Prepared(q)
      BY <2>2 DEF Alone, JobAlone, SysIInv
    <3>2. Linked(q)'
      BY <3>1 DEF Linked, Ok
    <3>3. Prepared(q)'
      BY <3>1 DEF Prepared
    <3> QED BY <3>2, <3>3
  <2> QED BY <2>1, <2>2
<1>2. ASSUME NEW q \in Procs, job'[q] = NoJob
      PROVE  call'[q].pc = "idle"
  <2>1. call'[q].op \in Ops
    BY DEF IInv, TypeOK, Frame
  <2>2. job'[q].stage = "idle"
    BY <1>2 DEF NoJob
  <2> QED BY <1>1, <2>1, <2>2, StageOps DEF Linked
<1>3. SysTypeOK' /\ VersionInv'
  BY <1>2 DEF SysTypeOK, WorldOK, IInv
<1>4. ~broken' => OwnedOnce' /\ UsedOnce'
  <2>1. held \in [Containers -> SUBSET IPs]
    BY SysParts DEF WorldOK
  <2> QED BY <2>1, EffectKeeps DEF SysIInv
<1> QED BY <1>1, <1>3, <1>4 DEF SysIInv

\* A process that leaves the pool keeps its job, and has an address if it has
\* allocated one.
LEMMA ReturnLinked ==
    ASSUME SysIInv, NEW p \in Procs, UNCHANGED job, call[p].pc # "idle",
           NEW e \in Errors, Return(p, e), call[p].pc = "auto" => e # "nil"
    PROVE  /\ Linked(p)' /\ Prepared(p)'
           /\ \A ip \in IPs :
                 /\ ~Owns(p, ip)' /\ ~Deleting(p, ip)' /\ ~Unmarking(p, ip)'
                 /\ Granted(p, ip)' => job[p].stage = "assign" /\ ip = job[p].ip /\ e = "nil"
                 /\ Freeing(p, ip)' => /\ job[p].stage = "unassign" /\ ip = job[p].ip
                                       /\ e = "ErrFixedIPNotAllocated"
<1>1. TypeOK /\ Linked(p) /\ job[p].stage \notin {"idle", "free"}
  <2>1. OpOf(job[p].stage) \in Ops
    BY SysParts DEF Linked, Frame
  <2> QED BY <2>1, SysParts, StageOps
<1>2. call'[p].pc = "idle" /\ call'[p].err = e /\ call'[p].ip = call[p].ip
  <2>1. call'[p] = [IdleFrame EXCEPT !.err = e, !.ip = call[p].ip]
    BY <1>1 DEF Return, TypeOK
  <2> QED BY <2>1 DEF IdleFrame
<1>3. Linked(p)'
  <2>1. call[p].pc # "auto" => call[p].ip \in IPs
    BY SysParts
  <2> QED BY <1>1, <1>2, <2>1 DEF Linked, Ok
<1>4. Prepared(p)'
  BY <1>2 DEF Prepared
<1>5. ASSUME NEW ip \in IPs
      PROVE  /\ ~Owns(p, ip)' /\ ~Deleting(p, ip)' /\ ~Unmarking(p, ip)'
             /\ Granted(p, ip)' => job[p].stage = "assign" /\ ip = job[p].ip /\ e = "nil"
             /\ Freeing(p, ip)' => /\ job[p].stage = "unassign" /\ ip = job[p].ip
                                   /\ e = "ErrFixedIPNotAllocated"
  BY <1>1, <1>2 DEF Owns, Deleting, Unmarking, Granted, Freeing, Ok
<1> QED BY <1>3, <1>4, <1>5

\* A process that stays in its operation stays in its job.
LEMMA StaysLinked ==
    ASSUME SysIInv, NEW p \in Procs, UNCHANGED job, call[p].pc # "idle", call'[p].pc # "idle",
           call'[p].op = call[p].op, call[p].pc = "auto" \/ call'[p].ip = call[p].ip
    PROVE  /\ Linked(p)'
           /\ \A ip \in IPs :
                 /\ ~Granted(p, ip)' /\ ~Freeing(p, ip)' /\ ~Granted(p, ip) /\ ~Freeing(p, ip)
                 /\ Deleting(p, ip)' <=> call'[p].pc = "delete" /\ ip = call'[p].ip
                 /\ Unmarking(p, ip)' <=> /\ call[p].op = "UnassignFixedIP" /\ ip = job[p].ip
                                          /\ call'[p].pc \in {"get", "update"}
<1>1. /\ Linked(p) /\ Prepared(p) /\ call[p].op = OpOf(job[p].stage)
      /\ job[p].stage \notin {"idle", "free"}
      /\ call[p].op = "UnassignFixedIP" <=> job[p].stage = "unassign"
  <2>1. OpOf(job[p].stage) \in Ops
    BY SysParts DEF Linked, Frame
  <2> QED BY <2>1, SysParts, StageOps DEF Linked
<1>2. Linked(p)'
  <2>1. job[p].stage \in {"assign", "unassign"} => call[p].pc # "auto"
    BY <1>1, StageOps DEF Prepared
  <2> QED BY <1>1, <2>1 DEF Linked
<1>3. ASSUME NEW ip \in IPs
      PROVE  /\ ~Granted(p, ip)' /\ ~Freeing(p, ip)' /\ ~Granted(p, ip) /\ ~Freeing(p, ip)
             /\ Deleting(p, ip)' <=> call'[p].pc = "delete" /\ ip = call'[p].ip
             /\ Unmarking(p, ip)' <=> /\ call[p].op = "UnassignFixedIP" /\ ip = job[p].ip
                                      /\ call'[p].pc \in {"get", "update"}
  BY <1>1 DEF Granted, Freeing, Deleting, Unmarking
<1> QED BY <1>2, <1>3

\* A step that leaves the stores and the containers alone, and after which p holds
\* no more than before.
LEMMA QuietStep ==
    ASSUME NEW p \in Procs, UNCHANGED <<ipinfo, calico, held>>,
           \A ip \in IPs : /\ Owns(p, ip)' => Owns(p, ip)
                           /\ Busy(p, ip)' => Busy(p, ip)
                           /\ Deleting(p, ip)' => Deleting(p, ip)
                           /\ Freeing(p, ip)' => Freeing(p, ip) \/ ~Recorded(ip)
    PROVE  Effect(p)
<1>1. SameMarks
  BY DEF SameMarks, Recorded, Exists, MarkedInUse
<1> QED BY <1>1 DEF Effect, Quiet

\* The frame of an operation that has read its record.
LEMMA ToUpdateFrame ==
    ASSUME TypeOK, NEW p \in Procs, NEW v \in IPInfo, call[p].pc = "get", ToUpdate(p, v)
    PROVE  /\ call'[p].pc = "update" /\ call'[p].op = call[p].op /\ call'[p].ip = call[p].ip
           /\ call'[p].read = ipinfo[call[p].ip] /\ call'[p].codec = v
<1>1. call[p] \in Frame
  BY DEF TypeOK
<1>2. call'[p] = [call[p] EXCEPT !.pc = "update", !.read = ipinfo[call[p].ip], !.codec = v]
  BY ToUpdateType
<1> QED BY <1>1, <1>2 DEF Frame

\* What each operation makes of the record it read.
LEMMA GotUpdates ==
    ASSUME TypeOK, NEW p \in Procs, call[p].pc = "get",
           \/ NotAllocated(p) \/ AssignFixedIP(p) \/ UnassignFixedIP(p) \/ BorrowFixedIP(p)
           \/ ReturnFixedIP(p) \/ UnallocFixedIP(p) \/ AllocFixedIP(p),
           call[p].op # "AllocFixedIP", call[p].op # "AllocFixedIPFromPools"
    PROVE  /\ UNCHANGED <<ipinfo, calico>>
           /\ \/ \E e \in Errors :
                    /\ Return(p, e)
                    /\ call[p].op = "AssignFixedIP" => e # "nil"
                    /\ e = "ErrFixedIPNotAllocated" => ~Recorded(call[p].ip)
              \/ \E v \in IPInfo :
                    /\ ToUpdate(p, v)
                    /\ call[p].op \in {"AssignFixedIP", "UnallocFixedIP"} =>
                          "InUse" \notin Info(p).status /\ "InUse" \in v.status
                    /\ call[p].op \in {"BorrowFixedIP", "ReturnFixedIP"} =>
                          v.status = Info(p).status
<1>0. Info(p) \in IPInfo /\ call[p] \in Frame /\ call[p].ip \in IPs
  BY InfoType DEF TypeOK
<1>1. CASE NotAllocated(p)
  BY <1>1 DEF NotAllocated, Errors, Recorded
<1>2. CASE AssignFixedIP(p)
  <2>1. CASE Match(Info(p), {"InUse"})
    BY <1>2, <2>1 DEF AssignFixedIP, Errors
  <2>2. CASE ~Match(Info(p), {"InUse"})
    <3> DEFINE v == Mark(Info(p), {"InUse"})
    <3>1. v \in IPInfo /\ "InUse" \in v.status /\ "InUse" \notin Info(p).status
      BY <1>0, <2>2 DEF Mark, Match, IPInfo, Flags
    <3>2. /\ ToUpdate(p, v) /\ UNCHANGED <<ipinfo, calico>> /\ call[p].op = "AssignFixedIP"
      BY <1>2, <2>2 DEF AssignFixedIP, Got
    <3> HIDE DEF v
    <3> QED BY <3>1, <3>2
  <2> QED BY <2>1, <2>2
<1>3. CASE UnassignFixedIP(p)
  <2>1. CASE ~Match(Info(p), {"InUse"})
    BY <1>3, <2>1 DEF UnassignFixedIP, Got, Errors
  <2>2. CASE Match(Info(p), {"InUse"})
    <3> DEFINE v == Unmark(Info(p), {"InUse"})
    <3>1. v \in IPInfo
      BY <1>0 DEF Unmark, IPInfo, Flags
    <3>2. /\ ToUpdate(p, v) /\ UNCHANGED <<ipinfo, calico>> /\ call[p].op = "UnassignFixedIP"
      BY <1>3, <2>2 DEF UnassignFixedIP, Got
    <3> HIDE DEF v
    <3> QED BY <3>1, <3>2
  <2> QED BY <2>1, <2>2
<1>4. CASE BorrowFixedIP(p)
  <2> DEFINE v == [Info(p) EXCEPT !.borrowers = @ \cup {call[p].container}]
  <2>1. call[p].op = "BorrowFixedIP" /\ ToUpdate(p, v) /\ UNCHANGED <<ipinfo, calico>>
    BY <1>4 DEF BorrowFixedIP, Got
  <2>2. v \in IPInfo /\ v.status = Info(p).status
    BY <1>0, <2>1 DEF IPInfo, TypeOK
  <2> HIDE DEF v
  <2> QED BY <2>1, <2>2
<1>5. CASE ReturnFixedIP(p)
  <2>1. CASE Info(p).borrowers = {}
    BY <1>5, <2>1 DEF ReturnFixedIP, Got, Errors
  <2>2. CASE Info(p).borrowers # {}
    <3> DEFINE v == [Info(p) EXCEPT !.borrowers = @ \ {call[p].container}]
    <3>1. v \in IPInfo /\ v.status = Info(p).status
      BY <1>0 DEF IPInfo
    <3>2. /\ ToUpdate(p, v) /\ UNCHANGED <<ipinfo, calico>> /\ call[p].op = "ReturnFixedIP"
      BY <1>5, <2>2 DEF ReturnFixedIP, Got
    <3> HIDE DEF v
    <3> QED BY <3>1, <3>2
  <2> QED BY <2>1, <2>2
<1>6. CASE UnallocFixedIP(p)
  <2>1. call[p].op = "UnallocFixedIP" /\ UNCHANGED <<ipinfo, calico>>
    BY <1>6 DEF UnallocFixedIP, Got
  <2>2. CASE Return(p, "ErrIPInUse") \/ Return(p, "ErrFixedIPHasBorrower")
    BY <2>1, <2>2 DEF Errors
  <2>3. CASE ~Match(Info(p), {"InUse"}) /\ ToUpdate(p, Mark(Info(p), {"InUse", "Retired"}))
    <3> DEFINE v == Mark(Info(p), {"InUse", "Retired"})
    <3>1. v \in IPInfo /\ "InUse" \in v.status /\ "InUse" \notin Info(p).status
      BY <1>0, <2>3 DEF Mark, Match, IPInfo, Flags
    <3>2. ToUpdate(p, v)
      BY <2>3
    <3> HIDE DEF v
    <3> QED BY <2>1, <3>1, <3>2
  <2>4. \/ Return(p, "ErrIPInUse") \/ Return(p, "ErrFixedIPHasBorrower")
        \/ ~Match(Info(p), {"InUse"}) /\ ToUpdate(p, Mark(Info(p), {"InUse", "Retired"}))
    BY <1>6 DEF UnallocFixedIP
  <2> QED BY <2>2, <2>3, <2>4
<1>7. ~AllocFixedIP(p)
  BY DEF AllocFixedIP
<1> QED BY <1>1, <1>2, <1>3, <1>4, <1>5, <1>6, <1>7

\* The local steps after GetFixedIP take nothing.
LEMMA GotEffect ==
    ASSUME SysIInv, NEW p \in Procs, UNCHANGED <<world, job>>,
           \/ NotAllocated(p) \/ AssignFixedIP(p) \/ UnassignFixedIP(p) \/ BorrowFixedIP(p)
           \/ ReturnFixedIP(p) \/ UnallocFixedIP(p) \/ AllocFixedIP(p)
    PROVE  Linked(p)' /\ Prepared(p)' /\ Effect(p)
<1>1. /\ TypeOK /\ Linked(p) /\ Prepared(p) /\ UNCHANGED <<held, job>>
      /\ call[p] \in Frame
  BY SysParts DEF world
<1>2. call[p].pc = "get"
  BY <1>1, GotSteps
<1>3. /\ call[p].op = OpOf(job[p].stage) /\ call[p].op # "AllocFixedIP"
      /\ call[p].op # "AllocFixedIPFromPools"
      /\ call[p].op = "AssignFixedIP" <=> job[p].stage = "assign"
      /\ job[p].stage \in {"assign", "unassign"} => call[p].ip = job[p].ip
      /\ call[p].ip \in IPs
  BY <1>1, <1>2, StageOps, SysParts DEF Linked, Prepared
<1>4. CASE \E e \in Errors :
                    /\ Return(p, e)
                    /\ call[p].op = "AssignFixedIP" => e # "nil"
                    /\ e = "ErrFixedIPNotAllocated" => ~Recorded(call[p].ip)
  <2>1. PICK e \in Errors :
                    /\ Return(p, e)
                    /\ call[p].op = "AssignFixedIP" => e # "nil"
                    /\ e = "ErrFixedIPNotAllocated" => ~Recorded(call[p].ip)
    BY <1>4
  <2>2. /\ Linked(p)' /\ Prepared(p)'
        /\ \A ip \in IPs :
                 /\ ~Owns(p, ip)' /\ ~Deleting(p, ip)' /\ ~Unmarking(p, ip)'
                 /\ Granted(p, ip)' => job[p].stage = "assign" /\ ip = job[p].ip /\ e = "nil"
                 /\ Freeing(p, ip)' => /\ job[p].stage = "unassign" /\ ip = job[p].ip
                                       /\ e = "ErrFixedIPNotAllocated"
    BY <1>1, <1>2, <2>1, ReturnLinked
  <2>3. \A ip \in IPs : job[p].stage = "unassign" /\ ip = job[p].ip => Busy(p, ip)
    BY <1>2 DEF Busy, Unmarking
  <2>4. UNCHANGED <<ipinfo, calico, held>>
    BY <1>1, <1>2, <1>3, GotUpdates
  <2> QED BY <1>3, <2>1, <2>2, <2>3, <2>4, QuietStep DEF Busy
<1>5. CASE \E v \in IPInfo :
                    /\ ToUpdate(p, v)
                    /\ call[p].op \in {"AssignFixedIP", "UnallocFixedIP"} =>
                          "InUse" \notin Info(p).status /\ "InUse" \in v.status
                    /\ call[p].op \in {"BorrowFixedIP", "ReturnFixedIP"} =>
                          v.status = Info(p).status
  <2>1. PICK v \in IPInfo :
                    /\ ToUpdate(p, v)
                    /\ call[p].op \in {"AssignFixedIP", "UnallocFixedIP"} =>
                          "InUse" \notin Info(p).status /\ "InUse" \in v.status
                    /\ call[p].op \in {"BorrowFixedIP", "ReturnFixedIP"} =>
                          v.status = Info(p).status
    BY <1>5
  <2>2. /\ call'[p].pc = "update" /\ call'[p].op = call[p].op /\ call'[p].ip = call[p].ip
        /\ call'[p].read = ipinfo[call[p].ip] /\ call'[p].codec = v
    BY <1>1, <1>2, <2>1, ToUpdateFrame
  <2>3. Prepared(p)'
    BY <1>3, <2>1, <2>2 DEF Prepared, Info
  <2>4. /\ Linked(p)'
        /\ \A ip \in IPs :
                 /\ ~Granted(p, ip)' /\ ~Freeing(p, ip)' /\ ~Granted(p, ip) /\ ~Freeing(p, ip)
                 /\ Deleting(p, ip)' <=> call'[p].pc = "delete" /\ ip = call'[p].ip
                 /\ Unmarking(p, ip)' <=> /\ call[p].op = "UnassignFixedIP" /\ ip = job[p].ip
                                          /\ call'[p].pc \in {"get", "update"}
    BY <1>1, <1>2, <2>2, StaysLinked
  <2>5. UNCHANGED <<ipinfo, calico, held>>
    BY <1>1, <1>2, <1>3, GotUpdates
  <2>6. \A ip \in IPs : ~Owns(p, ip)'
    BY <2>2 DEF Owns
  <2>7. \A ip \in IPs : Unmarking(p, ip)' => Unmarking(p, ip)
    BY <1>2, <1>3, <2>4, StageOps DEF Unmarking
  <2> QED BY <2>2, <2>3, <2>4, <2>5, <2>6, <2>7, QuietStep DEF Busy
<1> QED BY <1>1, <1>2, <1>3, <1>4, <1>5, GotUpdates

\* A process that allocates an address has no other hold on one.
LEMMA AllocatesFreely ==
    ASSUME SysIInv, NEW p \in Procs, call[p].pc \in {"auto", "put", "undo", "delete", "free"}
    PROVE  job[p].stage \notin {"assign", "unassign", "idle", "free"}
<1>1. /\ call[p].op \in {"AllocFixedIPFromPools", "UnallocFixedIP"}
      /\ call[p].op = OpOf(job[p].stage)
  BY SysParts DEF Linked, Prepared
<1>2. call[p].op \in Ops
  BY SysParts DEF Frame
<1> QED BY <1>1, <1>2, StageOps

\* A process that leaves Calico or the pool's writes empty-handed.
LEMMA ReturnsEmpty ==
    ASSUME SysIInv, NEW p \in Procs, UNCHANGED job,
           call[p].pc \in {"auto", "put", "undo", "delete", "free"},
           NEW e \in Errors, Return(p, e), call[p].pc = "auto" => e # "nil"
    PROVE  Linked(p)' /\ Prepared(p)' /\ HoldsNone(p)
<1>1. /\ Linked(p)' /\ Prepared(p)'
      /\ \A ip \in IPs :
            /\ ~Owns(p, ip)' /\ ~Deleting(p, ip)' /\ ~Unmarking(p, ip)'
            /\ Granted(p, ip)' => job[p].stage = "assign" /\ ip = job[p].ip /\ e = "nil"
            /\ Freeing(p, ip)' => /\ job[p].stage = "unassign" /\ ip = job[p].ip
                                  /\ e = "ErrFixedIPNotAllocated"
  BY ReturnLinked
<1> QED BY <1>1, AllocatesFreely DEF HoldsNone, Busy

\* The step to another pool of the list.
LEMMA TailEmpty ==
    ASSUME SysIInv, NEW p \in Procs, UNCHANGED job, call[p].pc = "auto", call[p].pools # <<>>,
           call' = [call EXCEPT ![p].pools = Tail(@)]
    PROVE  Linked(p)' /\ Prepared(p)' /\ HoldsNone(p)
<1>1. TypeOK /\ call[p] \in Frame /\ Prepared(p)
  BY SysParts
<1>2. call'[p].pc = "auto" /\ call'[p].op = call[p].op
  BY <1>1 DEF TypeOK, Frame
<1>3. /\ Linked(p)'
      /\ \A ip \in IPs :
            /\ ~Granted(p, ip)' /\ ~Freeing(p, ip)' /\ ~Granted(p, ip) /\ ~Freeing(p, ip)
            /\ Deleting(p, ip)' <=> call'[p].pc = "delete" /\ ip = call'[p].ip
            /\ Unmarking(p, ip)' <=> /\ call[p].op = "UnassignFixedIP" /\ ip = job[p].ip
                                     /\ call'[p].pc \in {"get", "update"}
  BY <1>2, StaysLinked
<1>4. Prepared(p)'
  BY <1>1, <1>2 DEF Prepared
<1> QED BY <1>2, <1>3, <1>4 DEF HoldsNone, Busy, Owns

\* Moving on to another call with the same address, from one that is neither a
\* read nor an allocation.
LEMMA GotoHolds ==
    ASSUME SysIInv, NEW p \in Procs, UNCHANGED job, NEW l \in {"delete", "free", "undo"},
           call[p].pc \in {"put", "update", "delete"}, Goto(p, l),
           l \in {"delete", "free"} => call[p].op = "UnallocFixedIP",
           l = "undo" => call[p].op = "AllocFixedIPFromPools"
    PROVE  /\ Linked(p)' /\ Prepared(p)' /\ call[p].ip \in IPs
           /\ l = "delete" => BusyOnly(p, call[p].ip)
           /\ l # "delete" => OwnsOnly(p, call[p].ip)
           /\ \A ip \in IPs : ~Freeing(p, ip)'
<1>1. TypeOK /\ call[p] \in Frame /\ call[p].ip \in IPs /\ l \in PCs
  BY SysParts DEF PCs
<1>2. call'[p].pc = l /\ call'[p].ip = call[p].ip /\ call'[p].op = call[p].op
  BY <1>1 DEF Goto, TypeOK, Frame
<1>3. /\ Linked(p)'
      /\ \A ip \in IPs :
            /\ ~Granted(p, ip)' /\ ~Freeing(p, ip)' /\ ~Granted(p, ip) /\ ~Freeing(p, ip)
            /\ Deleting(p, ip)' <=> call'[p].pc = "delete" /\ ip = call'[p].ip
            /\ Unmarking(p, ip)' <=> /\ call[p].op = "UnassignFixedIP" /\ ip = job[p].ip
                                     /\ call'[p].pc \in {"get", "update"}
  BY <1>2, StaysLinked
<1>4. Prepared(p)'
  BY <1>2 DEF Prepared
<1>5. l = "delete" => BusyOnly(p, call[p].ip)
  BY <1>2, <1>3 DEF BusyOnly, Owns, Busy
<1>6. l # "delete" => OwnsOnly(p, call[p].ip)
  BY <1>2, <1>3 DEF OwnsOnly, Owns, Busy
<1> QED BY <1>1, <1>3, <1>4, <1>5, <1>6

\* Nothing but p's hold changes, and p holds nothing afterwards.
LEMMA EmptyQuiet ==
    ASSUME NEW p \in Procs, UNCHANGED <<ipinfo, calico, held>>, HoldsNone(p)
    PROVE  Effect(p)
<1>1. \A ip \in IPs : /\ Deleting(p, ip)' => Busy(p, ip)'
                      /\ Freeing(p, ip)' => Busy(p, ip)'
  BY DEF Busy
<1> QED BY <1>1, QuietStep DEF HoldsNone

\* Records and marks stay when the store does.
LEMMA StoreSame ==
    ASSUME UNCHANGED ipinfo
    PROVE  SameMarks
BY DEF SameMarks, Recorded, Exists, MarkedInUse

\* A free address that p or nobody takes.
LEMMA TakesEffect ==
    ASSUME NEW p \in Procs, NEW ip \in IPs, UNCHANGED <<ipinfo, held>>,
           ip.Address \notin calico, calico' = calico \cup {ip.Address}, OwnsOnly(p, ip)
    PROVE  Effect(p)
BY StoreSame DEF Effect, TakesFree

\* An address p has no record of is freed.
LEMMA FreesEffect ==
    ASSUME NEW p \in Procs, NEW ip \in IPs, UNCHANGED <<ipinfo, held>>,
           Owns(p, ip) \/ Freeing(p, ip), calico' = calico \ {ip.Address}, HoldsNone(p)
    PROVE  Effect(p)
BY StoreSame DEF Effect, Frees

\* The calls of Calico inside the pool.
LEMMA CalicoEffect ==
    ASSUME SysIInv, NEW p \in Procs, UNCHANGED <<world, job>>,
           AllocIP(p) \/ AllocIPFromPools(p) \/ UnallocIP(p)
    PROVE  Linked(p)' /\ Prepared(p)' /\ Effect(p)
<1>1. /\ TypeOK /\ call[p] \in Frame /\ Prepared(p) /\ UNCHANGED <<held, job>>
  BY SysParts DEF world
<1>2. {"ErrCalico", "ErrCall", "nil"} \subseteq Errors /\ "put" \in PCs
  BY DEF Errors, PCs
<1>3. ~AllocIP(p)
  BY <1>1 DEF AllocIP, Prepared
<1>4. CASE UnallocIP(p)
  <2>1. /\ call[p].pc \in {"free", "undo"} /\ UNCHANGED ipinfo
        /\ calico' = calico \ {call[p].ip.Address}
        /\ Return(p, "nil") \/ Return(p, "ErrCall")
    BY <1>4 DEF UnallocIP
  <2>2. Linked(p)' /\ Prepared(p)' /\ HoldsNone(p)
    BY <1>1, <1>2, <2>1, ReturnsEmpty
  <2>3. call[p].ip \in IPs /\ Owns(p, call[p].ip)
    BY <2>1, SysParts DEF Owns
  <2> QED BY <1>1, <2>1, <2>2, <2>3, FreesEffect
<1>5. CASE AllocIPFromPools(p) /\ call[p].pools = <<>>
  <2>1. /\ call[p].pc = "auto" /\ UNCHANGED <<ipinfo, calico>> /\ Return(p, "ErrCalico")
    BY <1>5 DEF AllocIPFromPools
  <2> QED BY <1>1, <1>2, <2>1, ReturnsEmpty, EmptyQuiet
<1>6. CASE /\ AllocIPFromPools(p) /\ call[p].pools # <<>>
           /\ CIDR[Head(call[p].pools)] \ calico = {}
  <2>1. /\ call[p].pc = "auto" /\ UNCHANGED <<ipinfo, calico>>
        /\ call' = [call EXCEPT ![p].pools = Tail(@)]
    BY <1>6 DEF AllocIPFromPools
  <2> QED BY <1>1, <1>6, <2>1, TailEmpty, EmptyQuiet
<1>7. CASE /\ AllocIPFromPools(p) /\ call[p].pools # <<>>
           /\ CIDR[Head(call[p].pools)] \ calico # {}
  <2>1. PICK a \in CIDR[Head(call[p].pools)] \ calico :
           /\ calico' = calico \cup {a}
           /\ call' = [call EXCEPT ![p].pc = "put",
                          ![p].ip = [PoolID |-> Head(call[p].pools), Address |-> a]]
    BY <1>7 DEF AllocIPFromPools
  <2> DEFINE ip == [PoolID |-> Head(call[p].pools), Address |-> a]
  <2>2. Head(call[p].pools) \in Pools
    BY <1>1, <1>7 DEF Frame
  <2>3. ip \in IPs /\ ip.Address = a
    BY <2>1, <2>2, CIDRAssumption DEF IPs
  <2>4. call'[p].ip = ip /\ call'[p].pc = "put" /\ call'[p].op = call[p].op
    BY <1>1, <2>1 DEF TypeOK, Frame
  <2>5. UNCHANGED ipinfo /\ call[p].pc = "auto"
    BY <1>7 DEF AllocIPFromPools
  <2> HIDE DEF ip
  <2>6. /\ Linked(p)'
        /\ \A jp \in IPs :
              /\ ~Granted(p, jp)' /\ ~Freeing(p, jp)' /\ ~Granted(p, jp) /\ ~Freeing(p, jp)
              /\ Deleting(p, jp)' <=> call'[p].pc = "delete" /\ jp = call'[p].ip
              /\ Unmarking(p, jp)' <=> /\ call[p].op = "UnassignFixedIP" /\ jp = job[p].ip
                                       /\ call'[p].pc \in {"get", "update"}
    BY <1>1, <2>4, <2>5, StaysLinked
  <2>7. Prepared(p)'
    BY <1>1, <2>4, <2>5 DEF Prepared
  <2>8. OwnsOnly(p, ip)
    BY <2>4, <2>6 DEF OwnsOnly, Owns, Busy
  <2> QED BY <1>1, <2>1, <2>3, <2>5, <2>6, <2>7, <2>8, TakesEffect
<1> QED BY <1>3, <1>4, <1>5, <1>6, <1>7

\* Writing one slot.
LEMMA StoreOne ==
    ASSUME TypeOK, NEW ip \in IPs, NEW t \in Slot(IPInfo), ipinfo' = [ipinfo EXCEPT ![ip] = t]
    PROVE  /\ \A jp \in IPs : jp # ip => /\ Recorded(jp)' <=> Recorded(jp)
                                         /\ MarkedInUse(jp)' <=> MarkedInUse(jp)
           /\ Recorded(ip)' <=> Exists(t)
           /\ MarkedInUse(ip)' <=> "InUse" \in t.val.status
<1>1. \A jp \in IPs : ipinfo'[jp] = IF jp = ip THEN t ELSE ipinfo[jp]
  BY DEF TypeOK
<1> QED BY <1>1 DEF Recorded, MarkedInUse, Exists

\* The Put of a fresh record.
LEMMA PutEffect ==
    ASSUME SysIInv, NEW p \in Procs, UNCHANGED <<world, job>>, Put(p)
    PROVE  Linked(p)' /\ Prepared(p)' /\ Effect(p)
<1>1. /\ call[p].pc = "put" /\ UNCHANGED calico /\ Return(p, "nil")
      /\ ipinfo' = [ipinfo EXCEPT ![call[p].ip] = PutSlot(@, NewIPInfo)]
  BY DEF Put
<1>2. TypeOK /\ call[p].ip \in IPs /\ UNCHANGED <<held, job>>
  BY <1>1, SysParts DEF world
<1>3. "nil" \in Errors
  BY DEF Errors
<1>4. Linked(p)' /\ Prepared(p)' /\ HoldsNone(p)
  BY <1>1, <1>2, <1>3, ReturnsEmpty
<1> DEFINE t == PutSlot(ipinfo[call[p].ip], NewIPInfo)
<1>5. ipinfo[call[p].ip] \in Slot(IPInfo)
  BY <1>2 DEF TypeOK
<1>6. t \in Slot(IPInfo) /\ Exists(t)
  BY <1>5, ValueTypes, SlotOps, SlotExists
<1>7. ipinfo' = [ipinfo EXCEPT ![call[p].ip] = t]
  BY <1>1
<1> HIDE DEF t
<1>8. \A jp \in IPs : /\ Recorded(jp)' <=> (jp = call[p].ip \/ Recorded(jp))
                      /\ jp # call[p].ip => (MarkedInUse(jp)' <=> MarkedInUse(jp))
  BY <1>2, <1>6, <1>7, StoreOne
<1>9. Writes(p, call[p].ip)
  BY <1>1, <1>2, <1>4, <1>8 DEF Writes, Owns
<1> QED BY <1>2, <1>4, <1>9 DEF Effect

\* The Delete of a locked record, whatever p does next.
LEMMA EraseEffect ==
    ASSUME SysIInv, NEW p \in Procs, UNCHANGED <<calico, held>>, call[p].pc = "delete",
           ipinfo' = [ipinfo EXCEPT ![call[p].ip] = DeleteSlot(@, NewIPInfo)],
           OwnsOnly(p, call[p].ip)
    PROVE  Effect(p)
<1>2. TypeOK /\ call[p].ip \in IPs
  BY SysParts
<1> DEFINE t == DeleteSlot(ipinfo[call[p].ip], NewIPInfo)
<1>5. ipinfo[call[p].ip] \in Slot(IPInfo)
  BY <1>2 DEF TypeOK
<1>6. t \in Slot(IPInfo) /\ ~Exists(t)
  BY <1>5, ValueTypes, SlotOps, SlotExists
<1>7. ipinfo' = [ipinfo EXCEPT ![call[p].ip] = t]
  OBVIOUS
<1> HIDE DEF t
<1>8. \A jp \in IPs : /\ Recorded(jp)' <=> (jp # call[p].ip /\ Recorded(jp))
                      /\ jp # call[p].ip => (MarkedInUse(jp)' <=> MarkedInUse(jp))
  BY <1>2, <1>6, <1>7, StoreOne
<1>9. Erases(p, call[p].ip)
  BY <1>8 DEF Erases, Deleting
<1> QED BY <1>2, <1>9 DEF Effect

\* UnallocFixedIP's Delete.
LEMMA DeleteEffect ==
    ASSUME SysIInv, NEW p \in Procs, UNCHANGED <<world, job>>, Delete(p)
    PROVE  Linked(p)' /\ Prepared(p)' /\ Effect(p)
<1>1. /\ call[p].pc = "delete" /\ UNCHANGED calico
      /\ ipinfo' = [ipinfo EXCEPT ![call[p].ip] = DeleteSlot(@, NewIPInfo)]
      /\ Goto(p, "free") \/ Return(p, "ErrKVNotExists")
  BY DEF Delete
<1>2. UNCHANGED <<held, job>> /\ call[p].op = "UnallocFixedIP" /\ "ErrKVNotExists" \in Errors
  BY <1>1, SysParts DEF world, Prepared, Errors
<1>3. CASE Goto(p, "free")
  <2>1. Linked(p)' /\ Prepared(p)' /\ OwnsOnly(p, call[p].ip)
    BY <1>1, <1>2, <1>3, GotoHolds
  <2> QED BY <1>1, <1>2, <2>1, EraseEffect
<1>4. CASE Return(p, "ErrKVNotExists")
  <2>1. Linked(p)' /\ Prepared(p)' /\ HoldsNone(p)
    BY <1>1, <1>2, <1>4, ReturnsEmpty
  <2> QED BY <1>1, <1>2, <2>1, EraseEffect DEF HoldsNone, OwnsOnly
<1> QED BY <1>1, <1>3, <1>4

\* What p does after its transaction: it returns, goes on to delete the record it
\* has locked, or tries again.
AfterTxn(p) ==
    \/ /\ \E e \in Errors \ {"ErrFixedIPNotAllocated"} :
             /\ Return(p, e)
             /\ e = "nil" /\ call[p].op = "AssignFixedIP" => ipinfo' # ipinfo
       /\ call[p].op = "UnallocFixedIP" => ipinfo' = ipinfo
    \/ call[p].op = "UnallocFixedIP" /\ Goto(p, "delete")
    \/ /\ call[p].op \in {"BorrowFixedIP", "ReturnFixedIP"} /\ ipinfo' = ipinfo
       /\ call[p].cnt + 1 < RetryMaxCount
       /\ call' = [call EXCEPT ![p] = Retried(p)]

\* The frame of p after its transaction, and what p then holds: the address, if
\* it was marked for p, and else nothing.
LEMMA AfterTxnHolds ==
    ASSUME SysIInv, NEW p \in Procs, UNCHANGED <<world, job>>, call[p].pc = "update", AfterTxn(p)
    PROVE  /\ Linked(p)' /\ Prepared(p)' /\ call'[p] # call[p] /\ call[p].ip \in IPs
           /\ \A ip \in IPs : ~Freeing(p, ip)'
           /\ BusyOnly(p, call[p].ip)
           /\ call[p].op \notin {"AssignFixedIP", "UnallocFixedIP"} => HoldsNone(p)
           /\ call[p].op = "AssignFixedIP" /\ ipinfo' = ipinfo => HoldsNone(p)
           /\ call[p].op = "UnallocFixedIP" /\ call'[p].pc # "delete" => HoldsNone(p)
           /\ call[p].op = "UnallocFixedIP" /\ ipinfo' # ipinfo => call'[p].pc = "delete"
<1>1. /\ TypeOK /\ call[p] \in Frame /\ call[p].ip \in IPs /\ UNCHANGED job
      /\ Linked(p) /\ Prepared(p)
  BY SysParts DEF world
<1>2. /\ call[p].op = OpOf(job[p].stage)
      /\ call[p].op = "AssignFixedIP" <=> job[p].stage = "assign"
      /\ job[p].stage = "assign" => call[p].ip = job[p].ip
  BY <1>1, StageOps DEF Linked
<1>3. ASSUME NEW e \in Errors \ {"ErrFixedIPNotAllocated"}, Return(p, e),
             e = "nil" /\ call[p].op = "AssignFixedIP" => ipinfo' # ipinfo,
             call[p].op = "UnallocFixedIP" => ipinfo' = ipinfo
      PROVE  /\ Linked(p)' /\ Prepared(p)' /\ call'[p] # call[p]
             /\ \A ip \in IPs : ~Freeing(p, ip)'
             /\ BusyOnly(p, call[p].ip)
             /\ call[p].op # "AssignFixedIP" => HoldsNone(p)
             /\ call[p].op = "AssignFixedIP" /\ ipinfo' = ipinfo => HoldsNone(p)
  <2>1. /\ Linked(p)' /\ Prepared(p)'
        /\ \A ip \in IPs :
                 /\ ~Owns(p, ip)' /\ ~Deleting(p, ip)' /\ ~Unmarking(p, ip)'
                 /\ Granted(p, ip)' => job[p].stage = "assign" /\ ip = job[p].ip /\ e = "nil"
                 /\ Freeing(p, ip)' => /\ job[p].stage = "unassign" /\ ip = job[p].ip
                                       /\ e = "ErrFixedIPNotAllocated"
    BY <1>1, <1>3, ReturnLinked
  <2>2. call'[p].pc = "idle"
    BY <1>1, <1>3, ReturnType
  <2>3. /\ BusyOnly(p, call[p].ip)
        /\ call[p].op # "AssignFixedIP" => HoldsNone(p)
        /\ call[p].op = "AssignFixedIP" /\ ipinfo' = ipinfo => HoldsNone(p)
    BY <1>2, <1>3, <2>1 DEF BusyOnly, HoldsNone, Busy
  <2> QED BY <2>1, <2>2, <2>3
<1>4. CASE call[p].op = "UnallocFixedIP" /\ Goto(p, "delete")
  <2>1. /\ Linked(p)' /\ Prepared(p)' /\ BusyOnly(p, call[p].ip)
        /\ \A ip \in IPs : ~Freeing(p, ip)'
    BY <1>1, <1>4, GotoHolds
  <2>2. call'[p].pc = "delete"
    BY <1>1, <1>4 DEF Goto, TypeOK, Frame
  <2> QED BY <1>1, <1>4, <2>1, <2>2
<1>5. CASE /\ call[p].op \in {"BorrowFixedIP", "ReturnFixedIP"}
           /\ call[p].cnt + 1 < RetryMaxCount
           /\ call' = [call EXCEPT ![p] = Retried(p)]
  <2>1. call'[p].pc = "get" /\ call'[p].op = call[p].op /\ call'[p].ip = call[p].ip
    <3>1. call'[p] = Retried(p)
      BY <1>1, <1>5, RetriedType
    <3> QED BY <1>1, <3>1 DEF Retried, Frame
  <2>2. /\ Linked(p)'
        /\ \A ip \in IPs :
              /\ ~Granted(p, ip)' /\ ~Freeing(p, ip)' /\ ~Granted(p, ip) /\ ~Freeing(p, ip)
              /\ Deleting(p, ip)' <=> call'[p].pc = "delete" /\ ip = call'[p].ip
              /\ Unmarking(p, ip)' <=> /\ call[p].op = "UnassignFixedIP" /\ ip = job[p].ip
                                       /\ call'[p].pc \in {"get", "update"}
    BY <1>1, <2>1, StaysLinked
  <2>3. Prepared(p)'
    BY <1>5, <2>1 DEF Prepared
  <2>4. HoldsNone(p)
    BY <1>5, <2>1, <2>2 DEF HoldsNone, Owns, Busy
  <2>5. call'[p] # call[p]
    BY <2>1
  <2> QED BY <1>1, <1>5, <2>2, <2>3, <2>4, <2>5 DEF HoldsNone, BusyOnly
<1>6. \/ \E e \in Errors \ {"ErrFixedIPNotAllocated"} :
            /\ Return(p, e)
            /\ e = "nil" /\ call[p].op = "AssignFixedIP" => ipinfo' # ipinfo
            /\ call[p].op = "UnallocFixedIP" => ipinfo' = ipinfo
      \/ call[p].op = "UnallocFixedIP" /\ Goto(p, "delete")
      \/ /\ call[p].op \in {"BorrowFixedIP", "ReturnFixedIP"}
         /\ call[p].cnt + 1 < RetryMaxCount
         /\ call' = [call EXCEPT ![p] = Retried(p)]
  BY DEF AfterTxn
<1> QED BY <1>1, <1>3, <1>4, <1>5, <1>6

\* A transaction on the incarnation p has read: the mark goes on, comes off, or
\* stays, as the operation of p says.
LEMMA WrittenEffect ==
    ASSUME SysIInv, NEW p \in Procs, UNCHANGED <<world, job, calico>>, call[p].pc = "update",
           AfterTxn(p), ipinfo' = [ipinfo EXCEPT ![call[p].ip] = Txn(p).slot],
           Txn(p).slot # ipinfo[call[p].ip], SameIncarnation(p)
    PROVE  Effect(p)
<1>1. /\ IInv /\ TypeOK /\ call[p] \in Frame /\ call[p].ip \in IPs /\ UNCHANGED <<held, job>>
      /\ Prepared(p) /\ Linked(p)
  BY SysParts DEF world
<1>2. PICK kp \in IPs : kp = call[p].ip
  BY <1>1
<1>3. call[p].read = ipinfo[kp]
  BY <1>1, <1>2, CompareIdentifies
<1>4. /\ ipinfo[kp] \in Slot(IPInfo) /\ call[p].codec \in IPInfo
      /\ Recorded(kp)
  BY <1>1, <1>2, Working DEF SameIncarnation, Recorded
<1> DEFINE t == Txn(p).slot
<1>5. t = PutSlot(ipinfo[kp], call[p].codec)
  BY <1>2 DEF Txn, UpdateElseGet
<1>6. t \in Slot(IPInfo) /\ Exists(t) /\ t.val = call[p].codec
  <2>1. PutSlot(ipinfo[kp], call[p].codec).val = call[p].codec
    BY DEF PutSlot
  <2>2. /\ PutSlot(ipinfo[kp], call[p].codec) \in Slot(IPInfo)
        /\ Exists(PutSlot(ipinfo[kp], call[p].codec))
    BY <1>4, SlotOps, SlotExists
  <2> QED BY <1>5, <2>1, <2>2
<1>7. /\ \A jp \in IPs : jp # kp => /\ Recorded(jp)' <=> Recorded(jp)
                                    /\ MarkedInUse(jp)' <=> MarkedInUse(jp)
      /\ Recorded(kp)'
      /\ MarkedInUse(kp)' <=> "InUse" \in call[p].codec.status
  <2>1. ipinfo' = [ipinfo EXCEPT ![kp] = t]
    BY <1>2
  <2> HIDE DEF t
  <2>2. /\ \A jp \in IPs : jp # kp => /\ Recorded(jp)' <=> Recorded(jp)
                                      /\ MarkedInUse(jp)' <=> MarkedInUse(jp)
        /\ Recorded(kp)' <=> Exists(t)
        /\ MarkedInUse(kp)' <=> "InUse" \in t.val.status
    BY <1>1, <1>6, <2>1, StoreOne
  <2> QED BY <1>6, <2>2
<1> HIDE DEF t
<1>8. SameBut(kp)
  BY <1>4, <1>7 DEF SameBut
<1>9. /\ \A ip \in IPs : ~Freeing(p, ip)'
      /\ BusyOnly(p, kp)
      /\ call[p].op \notin {"AssignFixedIP", "UnallocFixedIP"} => HoldsNone(p)
  BY <1>2, AfterTxnHolds
<1>10. CASE call[p].op \in {"AssignFixedIP", "UnallocFixedIP"}
  <2>1. ~MarkedInUse(kp) /\ MarkedInUse(kp)'
    BY <1>1, <1>3, <1>7, <1>10 DEF Prepared, MarkedInUse
  <2>2. Marks(p, kp)
    BY <1>1, <1>4, <1>8, <1>9, <2>1 DEF Marks
  <2> QED BY <1>1, <2>2 DEF Effect
<1>11. CASE call[p].op = "UnassignFixedIP"
  <2>1. Busy(p, kp)
    BY <1>1, <1>2, <1>11, StageOps DEF Busy, Unmarking, Linked
  <2>2. Unmarks(p, kp)
    BY <1>1, <1>8, <1>9, <1>11, <2>1 DEF Unmarks
  <2> QED BY <1>1, <2>2 DEF Effect
<1>12. CASE call[p].op \in {"BorrowFixedIP", "ReturnFixedIP"}
  <2>0. /\ call[p].codec.status = call[p].read.val.status
        /\ MarkedInUse(kp) <=> "InUse" \in call[p].read.val.status
    BY <1>1, <1>3, <1>12 DEF Prepared, MarkedInUse
  <2>1. MarkedInUse(kp)' <=> MarkedInUse(kp)
    BY <1>7, <2>0
  <2>2. SameMarks
    BY <1>4, <1>7, <2>1 DEF SameMarks
  <2>3. HoldsNone(p) /\ \A ip \in IPs : Deleting(p, ip)' => Busy(p, ip)'
    BY <1>9, <1>12 DEF Busy
  <2>4. Quiet(p)
    BY <1>1, <1>9, <2>2, <2>3 DEF Quiet, HoldsNone
  <2> QED BY <2>4 DEF Effect
<1>13. call[p].op \in {"AssignFixedIP", "UnallocFixedIP", "UnassignFixedIP",
                       "BorrowFixedIP", "ReturnFixedIP"}
  <2>1. call[p].op = OpOf(job[p].stage) /\ call[p].op # "AllocFixedIPFromPools"
    BY <1>1 DEF Linked, Prepared
  <2> QED BY <1>1, <2>1, StageOps DEF Frame, Ops
<1> QED BY <1>10, <1>11, <1>12, <1>13

\* A transaction, answered or not, refused or not.
LEMMA TxnEffect ==
    ASSUME SysIInv, NEW p \in Procs, UNCHANGED <<world, job, calico>>, call[p].pc = "update",
           AfterTxn(p), ipinfo' = ipinfo \/ ipinfo' = [ipinfo EXCEPT ![call[p].ip] = Txn(p).slot]
    PROVE  /\ Linked(p)' /\ Prepared(p)'
           /\ ~Unprotected(p) => Effect(p)
<1>1. /\ Linked(p)' /\ Prepared(p)' /\ call'[p] # call[p]
      /\ call[p].op \notin {"AssignFixedIP", "UnallocFixedIP"} => HoldsNone(p)
      /\ call[p].op = "AssignFixedIP" /\ ipinfo' = ipinfo => HoldsNone(p)
      /\ call[p].op = "UnallocFixedIP" /\ call'[p].pc # "delete" => HoldsNone(p)
  BY AfterTxnHolds
<1>2. ASSUME ~Unprotected(p) PROVE Effect(p)
  <2>1. CASE ipinfo' # ipinfo
    <3>1. SameIncarnation(p)
      BY <1>1, <1>2, <2>1 DEF Unprotected
    <3>2. Txn(p).slot # ipinfo[call[p].ip]
      BY <2>1, SysParts DEF TypeOK
    <3> QED BY <2>1, <3>1, <3>2, WrittenEffect
  <2>2. CASE ipinfo' = ipinfo
    <3>1. HoldsNone(p)
      BY <1>1, <1>2, <2>2 DEF Unprotected
    <3> QED BY <2>2, <3>1, EmptyQuiet DEF world
  <2> QED BY <2>1, <2>2
<1> QED BY <1>1, <1>2

\* The transaction of UpdateElseGet.
LEMMA UpdateEffect ==
    ASSUME SysIInv, NEW p \in Procs, UNCHANGED <<world, job>>, Update(p)
    PROVE  /\ Linked(p)' /\ Prepared(p)'
           /\ ~Unprotected(p) => Effect(p)
<1>1. /\ call[p].pc = "update" /\ UNCHANGED calico
      /\ ipinfo' = [ipinfo EXCEPT ![call[p].ip] = Txn(p).slot]
      /\ AfterUpdate(p, Txn(p).ok, Txn(p).err)
  BY DEF Update
<1>2. /\ IInv /\ TypeOK /\ call[p].ip \in IPs /\ call[p] \in Frame
      /\ ipinfo[call[p].ip] \in Slot(IPInfo) /\ call[p].codec \in IPInfo
      /\ call[p].read.version \in Nat
  BY <1>1, SysParts, Working
<1>3. Txn(p).ok \in BOOLEAN /\ Txn(p).err \in {"nil", "ErrKVNotExists"}
  BY <1>2, SlotOps DEF Txn
<1>4. ~Txn(p).ok => ipinfo' = ipinfo
  <2>1. ~Txn(p).ok => Txn(p).slot = ipinfo[call[p].ip]
    BY DEF Txn, UpdateElseGet
  <2> QED BY <1>1, <1>2, <2>1 DEF TypeOK
<1>5. Txn(p).ok => ipinfo' # ipinfo
  <2>1. ASSUME Txn(p).ok PROVE Txn(p).slot.rev = ipinfo[call[p].ip].rev + 1
    BY <2>1 DEF Txn, UpdateElseGet, PutSlot
  <2>2. Txn(p).ok => Txn(p).slot # ipinfo[call[p].ip]
    BY <1>2, <2>1 DEF Slot
  <2>3. ipinfo'[call[p].ip] = Txn(p).slot
    BY <1>1, <1>2 DEF TypeOK
  <2> QED BY <2>2, <2>3
<1>6. {"nil", "ErrKVNotExists", "ErrIPInUse", "ErrMaxRetryCountExceeded"}
         \subseteq Errors \ {"ErrFixedIPNotAllocated"}
  BY DEF Errors
<1>7. AfterTxn(p)
  <2>1. CASE call[p].op = "UnallocFixedIP"
    BY <1>1, <1>3, <1>4, <1>6, <2>1 DEF AfterUpdate, AfterTxn
  <2>2. CASE call[p].op # "UnallocFixedIP" /\ Txn(p).err # "nil"
    BY <1>1, <1>3, <1>6, <2>2 DEF AfterUpdate, AfterTxn
  <2>3. CASE call[p].op # "UnallocFixedIP" /\ Txn(p).err = "nil" /\ Txn(p).ok
    BY <1>1, <1>5, <1>6, <2>3 DEF AfterUpdate, AfterTxn
  <2>4. CASE /\ call[p].op # "UnallocFixedIP" /\ Txn(p).err = "nil" /\ ~Txn(p).ok
             /\ call[p].op \in {"BorrowFixedIP", "ReturnFixedIP"}
    <3>1. Retry(p)
      BY <1>1, <2>4 DEF AfterUpdate
    <3> QED BY <1>4, <1>6, <2>4, <3>1 DEF Retry, Retried, AfterTxn
  <2>5. CASE /\ call[p].op # "UnallocFixedIP" /\ Txn(p).err = "nil" /\ ~Txn(p).ok
             /\ call[p].op \notin {"BorrowFixedIP", "ReturnFixedIP"}
    BY <1>1, <1>6, <2>5 DEF AfterUpdate, AfterTxn
  <2> QED BY <2>1, <2>2, <2>3, <2>4, <2>5
<1> QED BY <1>1, <1>7, TxnEffect

\* A transaction that reports a failure.
LEMMA FailedTxn ==
    ASSUME SysIInv, NEW p \in Procs, call[p].pc = "update", AfterFailure(p)
    PROVE  AfterTxn(p)
<1>1. AfterUpdate(p, FALSE, "ErrCall")
  BY DEF AfterFailure
<1>2. "ErrCall" \in Errors \ {"ErrFixedIPNotAllocated"}
  BY DEF Errors
<1>3. CASE call[p].op = "UnallocFixedIP"
  BY <1>1, <1>3 DEF AfterUpdate, AfterTxn
<1>4. CASE call[p].op # "UnallocFixedIP"
  BY <1>1, <1>2, <1>4 DEF AfterUpdate, AfterTxn
<1> QED BY <1>3, <1>4

\* Every other call that reports a failure: p returns empty-handed, tries the
\* next pool, or is about to free what it could not record.
LEMMA FailedCall ==
    ASSUME SysIInv, NEW p \in Procs, UNCHANGED job, call[p].pc \notin {"idle", "update"},
           call[p].pc = "auto" => call[p].pools # <<>>, AfterFailure(p)
    PROVE  /\ Linked(p)' /\ Prepared(p)'
           /\ call[p].pc # "put" => HoldsNone(p)
           /\ call[p].pc = "put" => OwnsOnly(p, call[p].ip) /\ call'[p].pc = "undo"
<1>1. /\ TypeOK /\ call[p] \in Frame /\ Prepared(p) /\ Linked(p)
  BY SysParts
<1>2. "ErrCall" \in Errors
  BY DEF Errors
<1>3. CASE call[p].pc = "put"
  <2>1. Goto(p, "undo") /\ call[p].op = "AllocFixedIPFromPools"
    BY <1>1, <1>3 DEF AfterFailure, Prepared
  <2>2. Linked(p)' /\ Prepared(p)' /\ OwnsOnly(p, call[p].ip)
    BY <1>3, <2>1, GotoHolds
  <2>3. call'[p].pc = "undo"
    BY <1>1, <2>1 DEF Goto, TypeOK, Frame
  <2> QED BY <1>3, <2>2, <2>3
<1>4. CASE call[p].pc = "auto"
  <2>1. call' = [call EXCEPT ![p].pools = Tail(@)]
    BY <1>4 DEF AfterFailure
  <2> QED BY <1>4, <2>1, TailEmpty
<1>5. CASE call[p].pc \in {"undo", "delete", "free"}
  <2>1. Return(p, "ErrCall")
    BY <1>5 DEF AfterFailure
  <2> QED BY <1>2, <1>5, <2>1, ReturnsEmpty
<1>6. CASE call[p].pc = "get"
  <2>1. Return(p, "ErrCall")
    BY <1>6 DEF AfterFailure
  <2>2. /\ Linked(p)' /\ Prepared(p)'
        /\ \A ip \in IPs :
              /\ ~Owns(p, ip)' /\ ~Deleting(p, ip)' /\ ~Unmarking(p, ip)'
              /\ ~Granted(p, ip)' /\ ~Freeing(p, ip)'
    BY <1>2, <1>6, <2>1, ReturnLinked
  <2> QED BY <1>6, <2>2 DEF HoldsNone, Busy
<1>7. call[p].pc \in PCs /\ call[p].pc # "alloc"
  BY <1>1 DEF Frame, Prepared
<1> QED BY <1>3, <1>4, <1>5, <1>6, <1>7 DEF PCs

\* A call that fails without effect.
LEMMA ErrorEffect ==
    ASSUME SysIInv, NEW p \in Procs, UNCHANGED <<world, job>>, CallError(p)
    PROVE  /\ Linked(p)' /\ Prepared(p)'
           /\ ~Unprotected(p) => Effect(p)
<1>1. /\ call[p].pc # "idle" /\ (call[p].pc = "auto" => call[p].pools # <<>>)
      /\ AfterFailure(p) /\ UNCHANGED <<ipinfo, calico, held, job>>
  BY DEF CallError, world
<1>2. CASE call[p].pc = "update"
  BY <1>1, <1>2, FailedTxn, TxnEffect
<1>3. CASE call[p].pc = "put"
  <2>1. Linked(p)' /\ Prepared(p)' /\ OwnsOnly(p, call[p].ip)
    BY <1>1, <1>3, FailedCall
  <2>2. Owns(p, call[p].ip)
    BY <1>3 DEF Owns
  <2>3. \A ip \in IPs : /\ Deleting(p, ip)' => Busy(p, ip)'
                        /\ Freeing(p, ip)' => Busy(p, ip)'
    BY DEF Busy
  <2>4. Effect(p)
    BY <1>1, <2>1, <2>2, <2>3, QuietStep DEF OwnsOnly
  <2> QED BY <2>1, <2>4
<1>4. CASE call[p].pc \notin {"update", "put"}
  BY <1>1, <1>4, FailedCall, EmptyQuiet
<1> QED BY <1>2, <1>3, <1>4

\* A call that takes effect although it reports a failure.
LEMMA TimeoutEffect ==
    ASSUME SysIInv, NEW p \in Procs, UNCHANGED <<world, job>>, CallTimeout(p)
    PROVE  /\ Linked(p)' /\ Prepared(p)'
           /\ ~Unprotected(p) => Effect(p)
<1>1. AfterFailure(p) /\ UNCHANGED <<held, job>>
  BY DEF CallTimeout, world
<1>2. /\ TypeOK /\ call[p] \in Frame /\ Prepared(p)
  BY SysParts
<1>3. CASE call[p].pc = "update" /\ WriteEffect(p) /\ UNCHANGED calico
  <2>1. ipinfo' = [ipinfo EXCEPT ![call[p].ip] = Txn(p).slot]
    BY <1>3 DEF WriteEffect
  <2> QED BY <1>1, <1>3, <2>1, FailedTxn, TxnEffect
<1>4. CASE call[p].pc = "delete" /\ WriteEffect(p) /\ UNCHANGED calico
  <2>1. ipinfo' = [ipinfo EXCEPT ![call[p].ip] = DeleteSlot(@, NewIPInfo)]
    BY <1>4 DEF WriteEffect
  <2>2. Linked(p)' /\ Prepared(p)' /\ HoldsNone(p)
    BY <1>1, <1>4, FailedCall
  <2> QED BY <1>1, <1>4, <2>1, <2>2, EraseEffect DEF HoldsNone, OwnsOnly
<1>5. CASE call[p].pc = "put" /\ WriteEffect(p) /\ UNCHANGED calico
  <2>1. ipinfo' = [ipinfo EXCEPT ![call[p].ip] = PutSlot(@, NewIPInfo)]
    BY <1>5 DEF WriteEffect
  <2>2. Linked(p)' /\ Prepared(p)' /\ call'[p].pc = "undo"
    BY <1>1, <1>5, FailedCall
  <2>3. call[p].ip \in IPs /\ ipinfo[call[p].ip] \in Slot(IPInfo)
    BY <1>2, <1>5 DEF TypeOK
  <2>4. ipinfo'[call[p].ip].rev = ipinfo[call[p].ip].rev + 1
    BY <1>2, <2>1, <2>3 DEF TypeOK, PutSlot
  <2>5. ipinfo' # ipinfo
    BY <2>3, <2>4 DEF Slot
  <2>6. Unprotected(p)
    BY <1>5, <2>2, <2>5 DEF Unprotected
  <2> QED BY <2>2, <2>6
<1>6. CASE /\ call[p].pc \in {"free", "undo"} /\ UNCHANGED ipinfo
           /\ calico' = calico \ {call[p].ip.Address}
  <2>1. Linked(p)' /\ Prepared(p)' /\ HoldsNone(p)
    BY <1>1, <1>6, FailedCall
  <2>2. call[p].ip \in IPs /\ Owns(p, call[p].ip)
    BY <1>6, SysParts DEF Owns
  <2> QED BY <1>1, <1>6, <2>1, <2>2, FreesEffect
<1>7. CASE /\ call[p].pc = "auto" /\ call[p].pools # <<>> /\ UNCHANGED ipinfo
           /\ \E a \in CIDR[Head(call[p].pools)] \ calico : calico' = calico \cup {a}
  <2>1. Linked(p)' /\ Prepared(p)' /\ HoldsNone(p)
    BY <1>1, <1>7, FailedCall
  <2>2. PICK a \in CIDR[Head(call[p].pools)] \ calico : calico' = calico \cup {a}
    BY <1>7
  <2>3. Head(call[p].pools) \in Pools
    BY <1>2, <1>7 DEF Frame
  <2> DEFINE ip == [PoolID |-> Head(call[p].pools), Address |-> a]
  <2>4. ip \in IPs /\ ip.Address = a
    BY <2>2, <2>3, CIDRAssumption DEF IPs
  <2> HIDE DEF ip
  <2>5. OwnsOnly(p, ip)
    BY <2>1 DEF OwnsOnly, HoldsNone
  <2>6. Effect(p)
    BY <1>1, <1>7, <2>2, <2>4, <2>5, TakesEffect
  <2> QED BY <2>1, <2>6
<1>8. call[p].pc # "alloc"
  BY <1>2 DEF Prepared
<1> QED BY <1>3, <1>4, <1>5, <1>6, <1>7, <1>8 DEF CallTimeout

\* A step inside the pool.
LEMMA PoolStep ==
    ASSUME SysIInv, NEW p \in Procs, UNCHANGED <<world, job>>,
           Step(p) \/ CallError(p) \/ CallTimeout(p),
           Remembered
    PROVE  SysIInv'
<1>1. /\ IInv /\ TypeOK /\ WorldOK /\ job \in [Procs -> Job]
      /\ broken \in BOOLEAN /\ unanswered \in BOOLEAN
  BY SysParts
<1>2. IInv'
  <2>1. Next
    BY DEF Next, Fault
  <2> QED BY <1>1, <2>1, IInvInductive
<1>3. Alone(p)
  BY <1>1, OneMoves DEF Fault
<1>4. JobAlone(p) /\ job' \in [Procs -> Job]
  BY <1>1 DEF JobAlone
<1>5. WorldOK'
  BY <1>1 DEF world, WorldOK
<1>6. /\ Linked(p)' /\ Prepared(p)'
      /\ ~Unprotected(p) => Effect(p)
  BY GotEffect, CalicoEffect, PutEffect, UpdateEffect, DeleteEffect, ErrorEffect, TimeoutEffect
     DEF Step
<1>7. /\ broken' \in BOOLEAN /\ unanswered' \in BOOLEAN
      /\ ~broken' => ~broken /\ ~Unprotected(p)
  BY <1>1 DEF Remembered
<1> QED BY <1>2, <1>3, <1>4, <1>5, <1>6, <1>7, SysPreserve

-----------------------------------------------------------------------------
(***************************************************************************)
(* Steps outside the pool                                                  *)
(***************************************************************************)

\* p is outside the pool, or has just called it, with a job of its own.
Moved(p) ==
    /\ IInv' /\ Alone(p) /\ JobAlone(p) /\ job' \in [Procs -> Job]
    /\ Linked(p)' /\ Prepared(p)'
    /\ call'[p].pc \in {"idle", "get", "auto"}
    /\ call'[p].pc = "idle" =>
          call'[p].err = "nil" /\ job'[p].stage \notin {"assign", "unassign"}

\* It does nothing to an address that somebody else may hold.
Calm(p) ==
    /\ Moved(p) /\ job'[p].stage \notin {"unassign", "free"}
    /\ UNCHANGED <<ipinfo, calico>>

\* What such a process holds.
LEMMA MovedHolds ==
    ASSUME NEW p \in Procs, Moved(p)
    PROVE  \A ip \in IPs :
              /\ ~Owns(p, ip)' /\ ~Deleting(p, ip)' /\ ~Granted(p, ip)'
              /\ Freeing(p, ip)' => job'[p].stage = "free" /\ ip = job'[p].ip
              /\ Unmarking(p, ip)' => job'[p].stage = "unassign" /\ ip = job'[p].ip
BY DEF Moved, Owns, Deleting, Granted, Freeing, Unmarking

\* A job that moved on, and is not giving an address back, holds nothing.
LEMMA CalmHolds ==
    ASSUME NEW p \in Procs, Moved(p), job'[p].stage \notin {"unassign", "free"}
    PROVE  HoldsNone(p)
BY MovedHolds DEF HoldsNone, Busy

\* What such a step must show.
LEMMA SysMoved ==
    ASSUME SysIInv, NEW p \in Procs, Moved(p), WorldOK', ~broken => Effect(p),
           Remembered
    PROVE  SysIInv'
<1>1. broken \in BOOLEAN /\ unanswered \in BOOLEAN
  BY SysParts
<1>2. broken' \in BOOLEAN /\ unanswered' \in BOOLEAN /\ (~broken' => ~broken)
  BY <1>1 DEF Remembered
<1> QED BY <1>2, SysPreserve DEF Moved

\* A calm step with the world well typed keeps the invariant.
LEMMA SysCalm ==
    ASSUME SysIInv, NEW p \in Procs, Calm(p), WorldOK', UNCHANGED held,
           Remembered
    PROVE  SysIInv'
<1>1. Effect(p)
  BY CalmHolds, EmptyQuiet DEF Calm
<1> QED BY <1>1, SysMoved DEF Calm

\* A process changes its job.
LEMMA JobChange ==
    ASSUME SysIInv, NEW p \in Procs, NEW j, GoodJob(j), job' = [job EXCEPT ![p] = j]
    PROVE  job' \in [Procs -> Job] /\ JobAlone(p) /\ job'[p] = j
<1>1. job \in [Procs -> Job] /\ j \in Job
  BY SysParts DEF GoodJob
<1> QED BY <1>1 DEF JobAlone

\* Outside the pool.
LEMMA RestMoves ==
    ASSUME SysIInv, NEW p \in Procs, NEW j, GoodJob(j),
           j.stage \notin {"alloc", "netalloc", "assign", "unassign"},
           job' = [job EXCEPT ![p] = j], call' = [call EXCEPT ![p] = IdleFrame],
           UNCHANGED ipinfo, calico' \in SUBSET Addresses
    PROVE  Moved(p) /\ job'[p] = j
<1>1. IInv /\ TypeOK
  BY SysParts
<1>2. IdleFrame.pc = "idle" /\ IdleFrame.op = "AllocFixedIP" /\ IdleFrame.err = "nil"
  BY DEF IdleFrame
<1>3. FramesOK' /\ Alone(p) /\ call'[p] = IdleFrame
  BY <1>1, <1>2, IdleType, FrameChange
<1>4. IInv'
  BY <1>1, <1>2, <1>3, QuietFrame, SameStore, Preserve
<1>5. job' \in [Procs -> Job] /\ JobAlone(p) /\ job'[p] = j
  BY JobChange
<1>6. Linked(p)' /\ Prepared(p)'
  BY <1>2, <1>3, <1>5 DEF Linked, Prepared
<1> QED BY <1>2, <1>3, <1>4, <1>5, <1>6 DEF Moved

\* The frame of a call that starts.
LEMMA CallFrame ==
    ASSUME TypeOK, NEW p \in Procs, NEW op, NEW ip, NEW c, NEW f, NEW pools,
           Call(p, op, ip, c, f, pools)
    PROVE  /\ call'[p].op = op /\ call'[p].ip = ip
           /\ call'[p].pc = IF op = "AllocFixedIPFromPools" THEN "auto" ELSE "get"
BY DEF Call, TypeOK, IdleFrame

\* Into the pool.
LEMMA CallMoves ==
    ASSUME SysIInv, NEW p \in Procs, NEW j, GoodJob(j), job' = [job EXCEPT ![p] = j],
           NEW op \in Ops, NEW ip \in IPs \cup {NoIP}, NEW c \in Containers \cup {NoContainer},
           NEW pools \in Seq(Pools), op # "AllocFixedIPFromPools" => ip \in IPs,
           op = "BorrowFixedIP" => c \in Containers,
           Call(p, op, ip, c, FALSE, pools),
           op = OpOf(j.stage), j.stage \in {"assign", "unassign"} => ip = j.ip
    PROVE  Moved(p) /\ job'[p] = j /\ UNCHANGED <<ipinfo, calico>>
<1>1. IInv /\ TypeOK /\ calico \in SUBSET Addresses
  BY SysParts DEF TypeOK
<1>2. /\ FramesOK' /\ Alone(p) /\ ReadOK(p)' /\ UNCHANGED <<ipinfo, calico>>
      /\ call'[p].pc \in {"get", "auto"}
  BY <1>1, CallType
<1>3. IInv'
  BY <1>1, <1>2, SameStore, Preserve
<1>4. job' \in [Procs -> Job] /\ JobAlone(p) /\ job'[p] = j
  BY JobChange
<1>5. /\ call'[p].op = op /\ call'[p].ip = ip
      /\ call'[p].pc = IF op = "AllocFixedIPFromPools" THEN "auto" ELSE "get"
  BY <1>1, CallFrame
<1>6. Linked(p)' /\ Prepared(p)'
  BY <1>4, <1>5 DEF Linked, Prepared
<1> QED BY <1>2, <1>3, <1>4, <1>5, <1>6 DEF Moved

\* Proceed, Finish and EndJob.
LEMMA ProceedCalm ==
    ASSUME SysIInv, NEW p \in Procs, NEW j, GoodJob(j), Proceed(p, j),
           j.stage \notin {"alloc", "netalloc", "assign", "unassign", "free"}
    PROVE  Calm(p) /\ job'[p] = j
<1>1. calico \in SUBSET Addresses
  BY SysParts DEF TypeOK
<1> QED BY <1>1, RestMoves DEF Proceed, Calm

\* The end of a job leaves an idle process.
LEMMA EndMoves ==
    ASSUME SysIInv, NEW p \in Procs, EndJob(p), UNCHANGED ipinfo, calico' \in SUBSET Addresses
    PROVE  Moved(p) /\ job'[p].stage = "idle"
<1>1. GoodJob(NoJob) /\ NoJob.stage = "idle"
  BY DEF NoJob, Job, NoSlot, Slot, Stages, GoodJob
<1> QED BY <1>1, RestMoves DEF EndJob

\* Finish, the end of a job outside the pool, is calm.
LEMMA FinishCalm ==
    ASSUME SysIInv, NEW p \in Procs, Finish(p)
    PROVE  Calm(p)
<1>1. calico \in SUBSET Addresses
  BY SysParts DEF TypeOK
<1> QED BY <1>1, EndMoves DEF Finish, Calm

\* Invoke.
LEMMA InvokeMoves ==
    ASSUME SysIInv, NEW p \in Procs, NEW j, GoodJob(j), NEW ip \in IPs,
           j.stage \in {"rollback", "unalloc", "borrow", "return", "assign", "unassign"},
           j.stage \in {"assign", "unassign"} => ip = j.ip,
           Invoke(p, j, OpOf(j.stage), ip)
    PROVE  Moved(p) /\ job'[p] = j /\ UNCHANGED <<ipinfo, calico>>
<1> DEFINE op == OpOf(j.stage)
           c == IF op \in {"BorrowFixedIP", "ReturnFixedIP"} THEN j.c ELSE NoContainer
<1>1. op \in Ops /\ op # "AllocFixedIPFromPools"
  BY DEF OpOf, Ops
<1>2. c \in Containers \cup {NoContainer} /\ (op = "BorrowFixedIP" => c \in Containers)
  BY DEF GoodJob
<1>3. <<>> \in Seq(Pools)
  OBVIOUS
<1>4. job' = [job EXCEPT ![p] = j] /\ Call(p, op, ip, c, FALSE, <<>>)
  BY DEF Invoke
<1> HIDE DEF op, c
<1>5. op = OpOf(j.stage)
  BY DEF op
<1> QED BY <1>1, <1>2, <1>3, <1>4, <1>5, CallMoves

\* AllocFixedIPFromPools for one of the networks.
LEMMA AllocCalm ==
    ASSUME SysIInv, NEW p \in Procs, NEW j, GoodJob(j), j.stage \in {"alloc", "netalloc"},
           NEW i \in DOMAIN Networks, job' = [job EXCEPT ![p] = j],
           Call(p, "AllocFixedIPFromPools", NoIP, NoContainer, FALSE, Networks[i])
    PROVE  Calm(p) /\ job'[p] = j
<1>1. Networks[i] \in Seq(Pools)
  BY NetworksAssumption
<1>2. "AllocFixedIPFromPools" \in Ops /\ OpOf(j.stage) = "AllocFixedIPFromPools"
  BY DEF Ops, OpOf
<1>3. Moved(p) /\ job'[p] = j /\ UNCHANGED <<ipinfo, calico>>
  BY <1>1, <1>2, CallMoves
<1> QED BY <1>3 DEF Calm

\* The job of p with another stage, another list of addresses and another address.
LEMMA JobEdit ==
    ASSUME NEW j \in Job, j.c \in Containers, NEW st \in Stages, NEW as \in SUBSET IPs, NEW ip \in IPs
    PROVE  /\ GoodJob([j EXCEPT !.stage = st, !.addrs = as, !.ip = ip])
           /\ st \in {"rollback", "borrow", "record", "calico", "dockerd", "info", "update", "get"} =>
                 /\ GoodJob([j EXCEPT !.stage = st, !.addrs = as])
                 /\ GoodJob([j EXCEPT !.stage = st])
<1>1. [j EXCEPT !.stage = st, !.addrs = as, !.ip = ip] \in Job
  BY DEF Job
<1>2. [j EXCEPT !.stage = st, !.addrs = as] \in Job /\ [j EXCEPT !.stage = st] \in Job
  BY DEF Job
<1> QED BY <1>1, <1>2 DEF GoodJob, Job

\* UnallocFixedIP of one address after another.
LEMMA RollbackCalm ==
    ASSUME SysIInv, NEW p \in Procs, NEW j \in Job, j.c \in Containers, Rollback(p, j)
    PROVE  Calm(p)
<1>1. CASE j.addrs = {}
  BY <1>1, FinishCalm DEF Rollback
<1>2. CASE j.addrs # {}
  <2>1. PICK ip \in j.addrs :
           Invoke(p, [j EXCEPT !.stage = "rollback", !.addrs = @ \ {ip}], "UnallocFixedIP", ip)
    BY <1>2 DEF Rollback
  <2> DEFINE k == [j EXCEPT !.stage = "rollback", !.addrs = @ \ {ip}]
  <2>2. ip \in IPs /\ j.addrs \ {ip} \in SUBSET IPs /\ "rollback" \in Stages
    BY DEF Job, Stages
  <2>3. GoodJob(k)
    BY <2>2, JobEdit
  <2>4. k.stage = "rollback" /\ OpOf("rollback") = "UnallocFixedIP"
    BY DEF Job, OpOf
  <2>5. Invoke(p, k, "UnallocFixedIP", ip)
    BY <2>1
  <2> HIDE DEF k
  <2>6. Moved(p) /\ job'[p] = k /\ UNCHANGED <<ipinfo, calico>>
    BY <2>2, <2>3, <2>4, <2>5, InvokeMoves
  <2> QED BY <2>4, <2>6 DEF Calm
<1> QED BY <1>1, <1>2

\* BorrowFixedIP of one address after another.
LEMMA BorrowCalm ==
    ASSUME SysIInv, NEW p \in Procs, NEW j \in Job, j.c \in Containers, BorrowNext(p, j)
    PROVE  Calm(p)
<1>1. CASE j.addrs = {}
  <2> DEFINE k == [j EXCEPT !.stage = "record"]
  <2>1. Proceed(p, k) /\ "record" \in Stages
    BY <1>1 DEF BorrowNext, Stages
  <2>2. k \in Job /\ k.c = j.c /\ k.stage = "record"
    BY <2>1 DEF Job
  <2>3. GoodJob(k)
    BY <2>2 DEF GoodJob
  <2> HIDE DEF k
  <2> QED BY <2>1, <2>2, <2>3, ProceedCalm
<1>2. CASE j.addrs # {}
  <2>1. PICK ip \in j.addrs :
           Invoke(p, [j EXCEPT !.stage = "borrow", !.addrs = @ \ {ip}], "BorrowFixedIP", ip)
    BY <1>2 DEF BorrowNext
  <2> DEFINE k == [j EXCEPT !.stage = "borrow", !.addrs = @ \ {ip}]
  <2>2. ip \in IPs /\ j.addrs \ {ip} \in SUBSET IPs /\ "borrow" \in Stages
    BY DEF Job, Stages
  <2>3. GoodJob(k)
    BY <2>2, JobEdit
  <2>4. k.stage = "borrow" /\ OpOf("borrow") = "BorrowFixedIP"
    BY DEF Job, OpOf
  <2>5. Invoke(p, k, "BorrowFixedIP", ip)
    BY <2>1
  <2> HIDE DEF k
  <2>6. Moved(p) /\ job'[p] = k /\ UNCHANGED <<ipinfo, calico>>
    BY <2>2, <2>3, <2>4, <2>5, InvokeMoves
  <2> QED BY <2>4, <2>6 DEF Calm
<1> QED BY <1>1, <1>2

\* One victim of a prune after another.
LEMMA VictimCalm ==
    ASSUME SysIInv, NEW p \in Procs, NEW vs \in SUBSET Containers,
           \E c \in vs : Proceed(p, [NoJob EXCEPT !.c = c, !.stage = "info", !.victims = vs \ {c}])
    PROVE  Calm(p)
<1>1. PICK c \in vs : Proceed(p, [NoJob EXCEPT !.c = c, !.stage = "info", !.victims = vs \ {c}])
  OBVIOUS
<1> DEFINE k == [NoJob EXCEPT !.c = c, !.stage = "info", !.victims = vs \ {c}]
<1>2. NoJob \in Job /\ "info" \in Stages
  BY DEF NoJob, Job, NoSlot, Slot, Stages
<1>3. k \in Job /\ k.c = c /\ k.stage = "info"
  BY <1>2 DEF Job
<1>4. GoodJob(k)
  BY <1>3 DEF GoodJob
<1>5. Proceed(p, k)
  BY <1>1
<1> HIDE DEF k
<1> QED BY <1>3, <1>4, <1>5, ProceedCalm

\* Going on to the next container of a prune is calm.
LEMMA NextVictimCalm ==
    ASSUME SysIInv, NEW p \in Procs, NEW j \in Job, NextVictim(p, j)
    PROVE  Calm(p)
<1>1. CASE j.victims = {}
  BY <1>1, FinishCalm DEF NextVictim
<1>2. CASE j.victims # {}
  <2>1. j.victims \in SUBSET Containers
    BY DEF Job
  <2> QED BY <1>2, <2>1, VictimCalm DEF NextVictim
<1> QED BY <1>1, <1>2

\* ReturnFixedIP of one address after another.
LEMMA ReturnCalm ==
    ASSUME SysIInv, NEW p \in Procs, NEW j \in Job, j.c \in Containers, ReturnNext(p, j)
    PROVE  Calm(p)
<1>1. CASE j.addrs = {}
  BY <1>1, NextVictimCalm DEF ReturnNext
<1>2. CASE j.addrs # {}
  <2>1. PICK ip \in j.addrs :
           Invoke(p, [j EXCEPT !.stage = "return", !.addrs = @ \ {ip}, !.ip = ip],
                  "ReturnFixedIP", ip)
    BY <1>2 DEF ReturnNext
  <2> DEFINE k == [j EXCEPT !.stage = "return", !.addrs = @ \ {ip}, !.ip = ip]
  <2>2. ip \in IPs /\ j.addrs \ {ip} \in SUBSET IPs /\ "return" \in Stages
    BY DEF Job, Stages
  <2>3. GoodJob(k)
    BY <2>2, JobEdit
  <2>4. k.stage = "return" /\ OpOf("return") = "ReturnFixedIP"
    BY DEF Job, OpOf
  <2>5. Invoke(p, k, "ReturnFixedIP", ip)
    BY <2>1
  <2> HIDE DEF k
  <2>6. Moved(p) /\ job'[p] = k /\ UNCHANGED <<ipinfo, calico>>
    BY <2>2, <2>3, <2>4, <2>5, InvokeMoves
  <2> QED BY <2>4, <2>6 DEF Calm
<1> QED BY <1>1, <1>2

\* The stage of a job that waits for an answer, and what is known of it.
LEMMA AtStage ==
    ASSUME SysIInv, NEW p \in Procs, NEW st, At(p, st), st # "idle"
    PROVE  /\ job[p] \in Job /\ job[p].stage = st /\ job[p].c \in Containers
           /\ st \in {"assign", "unassign", "free", "return", "unalloc"} => job[p].ip \in IPs
           /\ st \in {"alloc", "netalloc"} /\ Ok(p) => call[p].ip \in IPs
           /\ call[p].pc = "idle"
           /\ [job[p] EXCEPT !.addrs = job[p].got] \in Job
           /\ [job[p] EXCEPT !.addrs = job[p].got].c = job[p].c
<1>1. /\ job[p] \in Job /\ job[p].stage = st /\ job[p].c \in Containers
      /\ st \in {"assign", "unassign", "free", "return", "unalloc"} => job[p].ip \in IPs
      /\ st \in {"alloc", "netalloc"} /\ Ok(p) => call[p].ip \in IPs
      /\ call[p].pc = "idle"
  BY SysParts DEF At, Linked, GoodJob
<1> QED BY <1>1 DEF Job

\* A step that leaves what containers are given alone.
Served(p) == Calm(p) /\ WorldOK' /\ UNCHANGED held

\* A world that does not change has its types.
LEMMA WorldSame ==
    ASSUME SysIInv, UNCHANGED world
    PROVE  WorldOK' /\ UNCHANGED held
BY DEF SysIInv, SysTypeOK, WorldOK, world

\* dockerd changes what it knows of container c.
LEMMA DockerChange ==
    ASSUME SysIInv, NEW c \in Containers,
           NEW s \in {"none", "requested", "failed", "created", "removed"},
           docker' = [docker EXCEPT ![c] = s] \/ UNCHANGED docker,
           UNCHANGED <<conf, fixed, label, held, asked, cinfo>>
    PROVE  WorldOK'
BY DEF SysIInv, SysTypeOK, WorldOK

\* dockerd forgets containers.
LEMMA ForgetWorld ==
    ASSUME SysIInv, NEW S \in SUBSET Containers, Forget(S)
    PROVE  WorldOK' /\ UNCHANGED held
<1>0. 0 \in 0..MaxAsked
  BY MaxAskedAssumption
<1>1. WorldOK
  BY DEF SysIInv, SysTypeOK, WorldOK
<1>2. docker' \in [Containers -> {"none", "requested", "failed", "created", "removed"}]
  BY <1>1 DEF WorldOK, Forget
<1>3. /\ conf' \in [Containers -> SUBSET IPs] /\ fixed' \in [Containers -> SUBSET IPs]
      /\ label' \in [Containers -> BOOLEAN]
  BY <1>1 DEF WorldOK, Forget
<1>4. asked' \in [Containers -> 0..MaxAsked]
  BY <1>0, <1>1 DEF WorldOK, Forget
<1>5. UNCHANGED <<held, cinfo>>
  BY DEF Forget
<1> QED BY <1>1, <1>2, <1>3, <1>4, <1>5 DEF WorldOK

\* containerCreateHandler up to dockerd's answer.
LEMMA CreateServed ==
    ASSUME SysIInv, NEW p \in Procs, Allocated(p) \/ RolledBack(p) \/ CreateRefused(p)
    PROVE  Served(p)
<1>1. CASE RolledBack(p)
  <2>1. At(p, "rollback") /\ Rollback(p, job[p]) /\ UNCHANGED world
    BY <1>1 DEF RolledBack
  <2> QED BY <2>1, AtStage, RollbackCalm, WorldSame DEF Served
<1>2. CASE CreateRefused(p)
  <2>1. /\ At(p, "dockerd") /\ docker' = [docker EXCEPT ![job[p].c] = "failed"]
        /\ Rollback(p, [job[p] EXCEPT !.addrs = job[p].got])
        /\ UNCHANGED <<conf, fixed, label, held, asked, cinfo>>
    BY <1>2 DEF CreateRefused
  <2> QED BY <2>1, AtStage, RollbackCalm, DockerChange DEF Served
<1>3. CASE Allocated(p)
  <2>1. At(p, "alloc") /\ UNCHANGED <<conf, fixed, label, held, asked, cinfo>>
    BY <1>3 DEF Allocated
  <2>2. job[p] \in Job /\ job[p].c \in Containers /\ (Ok(p) => call[p].ip \in IPs)
    BY <2>1, AtStage
  <2> DEFINE j == [job[p] EXCEPT !.got = @ \cup {call[p].ip}, !.net = @ + 1]
  <2>3. ASSUME Ok(p) PROVE j \in Job
    <3>1. job[p].got \cup {call[p].ip} \in SUBSET IPs /\ job[p].net + 1 \in Nat
      BY <2>2, <2>3 DEF Job
    <3> QED BY <2>2, <3>1 DEF Job
  <2>4. j.c = job[p].c /\ j.net = job[p].net + 1
    BY <2>2 DEF Job
  <2>5. CASE ~Ok(p)
    <3>1. /\ docker' = [docker EXCEPT ![j.c] = "failed"]
          /\ Rollback(p, [job[p] EXCEPT !.addrs = job[p].got])
      BY <1>3, <2>5 DEF Allocated
    <3> QED BY <2>1, <2>2, <2>4, <3>1, AtStage, RollbackCalm, DockerChange DEF Served
  <2>6. CASE Ok(p) /\ j.net < CreateNets
    <3>1. AllocNext(p, j) /\ UNCHANGED docker
      BY <1>3, <2>6 DEF Allocated
    <3> DEFINE k == [j EXCEPT !.stage = "alloc"]
    <3>2. j.net + 1 \in DOMAIN Networks
      <4>1. job[p].net \in Nat
        BY <2>2 DEF Job
      <4>2. j.net + 1 \in 1..Len(Networks)
        BY <2>4, <2>6, <4>1, CreateNetsAssumption, NetworksAssumption
      <4> QED BY <4>2, NetworksAssumption
    <3>3. k \in Job /\ k.c = job[p].c /\ k.stage = "alloc"
      BY <2>3, <2>4, <2>6 DEF Job, Stages
    <3>4. GoodJob(k)
      BY <2>2, <3>3 DEF GoodJob
    <3>5. /\ job' = [job EXCEPT ![p] = k]
          /\ Call(p, "AllocFixedIPFromPools", NoIP, NoContainer, FALSE, Networks[j.net + 1])
      BY <3>1 DEF AllocNext
    <3> HIDE DEF k, j
    <3> QED BY <2>1, <2>2, <3>1, <3>2, <3>3, <3>4, <3>5, AllocCalm, DockerChange DEF Served
  <2>7. CASE Ok(p) /\ ~(j.net < CreateNets)
    <3>1. Proceed(p, [j EXCEPT !.stage = "dockerd"]) /\ UNCHANGED docker
      BY <1>3, <2>7 DEF Allocated
    <3> DEFINE k == [j EXCEPT !.stage = "dockerd"]
    <3>3. k \in Job /\ k.c = job[p].c /\ k.stage = "dockerd"
      BY <2>3, <2>4, <2>7 DEF Job, Stages
    <3>4. GoodJob(k)
      BY <2>2, <3>3 DEF GoodJob
    <3>5. Proceed(p, k)
      BY <3>1
    <3> HIDE DEF k, j
    <3> QED BY <2>1, <2>2, <3>1, <3>3, <3>4, <3>5, ProceedCalm, DockerChange DEF Served
  <2> QED BY <2>5, <2>6, <2>7
<1> QED BY <1>1, <1>2, <1>3

\* dockerd creates a container with addresses.
LEMMA CreatedWorld ==
    ASSUME SysIInv, NEW j \in Job, j.c \in Containers, Created(j), UNCHANGED <<held, asked, cinfo>>
    PROVE  WorldOK'
<1>1. WorldOK
  BY DEF SysIInv, SysTypeOK, WorldOK
<1>2. Wanted(j) \in SUBSET IPs /\ j.got \in SUBSET IPs /\ (j.got # {}) \in BOOLEAN
  BY DEF Wanted, Job
<1> QED BY <1>1, <1>2 DEF Created, WorldOK

\* What follows dockerd's answer to a create.
LEMMA AnswerServed ==
    ASSUME SysIInv, NEW p \in Procs,
           CreateAccepted(p) \/ CreateUnanswered(p) \/ Borrowed(p) \/ RecordInfo(p)
    PROVE  Served(p)
<1>1. CASE CreateAccepted(p)
  <2>1. /\ At(p, "dockerd") /\ Created(job[p]) /\ UNCHANGED <<held, asked, cinfo>>
        /\ BorrowNext(p, [job[p] EXCEPT !.addrs = job[p].got])
    BY <1>1 DEF CreateAccepted
  <2>2. Calm(p)
    BY <2>1, AtStage, BorrowCalm
  <2> QED BY <2>1, <2>2, AtStage, CreatedWorld DEF Served
<1>2. CASE CreateUnanswered(p)
  <2>1. /\ At(p, "dockerd") /\ Finish(p) /\ UNCHANGED <<held, asked, cinfo>>
        /\ \/ Created(job[p])
           \/ docker' = [docker EXCEPT ![job[p].c] = "failed"] /\ UNCHANGED <<conf, fixed, label>>
    BY <1>2 DEF CreateUnanswered
  <2>2. job[p] \in Job /\ job[p].c \in Containers
    BY <2>1, AtStage
  <2>3. WorldOK'
    BY <2>1, <2>2, CreatedWorld, DockerChange
  <2> QED BY <2>1, <2>3, FinishCalm DEF Served
<1>3. CASE Borrowed(p)
  <2>1. At(p, "borrow") /\ BorrowNext(p, job[p]) /\ UNCHANGED world
    BY <1>3 DEF Borrowed
  <2> QED BY <2>1, AtStage, BorrowCalm, WorldSame DEF Served
<1>4. CASE RecordInfo(p)
  <2>1. /\ At(p, "record") /\ Finish(p) /\ UNCHANGED <<docker, conf, fixed, label, held, asked>>
        /\ cinfo' = [cinfo EXCEPT ![job[p].c] = PutSlot(@, job[p].got)] \/ UNCHANGED cinfo
    BY <1>4 DEF RecordInfo
  <2>2. job[p] \in Job /\ job[p].c \in Containers /\ WorldOK
    BY <2>1, AtStage, SysParts
  <2>3. PutSlot(cinfo[job[p].c], job[p].got) \in Slot(SUBSET IPs)
    BY <2>2 DEF WorldOK, Job, Slot, PutSlot, Exists
  <2>4. WorldOK'
    BY <2>1, <2>2, <2>3 DEF WorldOK
  <2> QED BY <2>1, <2>4, FinishCalm DEF Served
<1> QED BY <1>1, <1>2, <1>3, <1>4

\* Deleting a ContainerInfo leaves a slot.
LEMMA InfoDeleted ==
    ASSUME NEW s \in Slot(SUBSET IPs)
    PROVE  DeleteSlot(s, {}) \in Slot(SUBSET IPs)
BY DEF DeleteSlot, Slot, Exists

\* containerDeleteHandler, containerPruneHandle and ReleaseContainerAddresses.
LEMMA RemoveServed ==
    ASSUME SysIInv, NEW p \in Procs,
           \/ RemoveAnswered(p) \/ RemoveUnanswered(p) \/ TakeInfo(p) \/ TakeInfoFails(p)
           \/ Returned(p) \/ Unalloced(p)
    PROVE  Served(p)
<1>0. WorldOK
  BY SysParts
<1>1. CASE RemoveAnswered(p)
  <2>1. /\ At(p, "delete")
        /\ \/ Finish(p) /\ UNCHANGED world
           \/ Forget({job[p].c}) /\ Proceed(p, [job[p] EXCEPT !.stage = "info"])
    BY <1>1 DEF RemoveAnswered
  <2>2. job[p] \in Job /\ job[p].c \in Containers /\ {job[p].c} \in SUBSET Containers
    BY <2>1, AtStage
  <2>3. WorldOK' /\ UNCHANGED held
    BY <2>1, <2>2, ForgetWorld, WorldSame
  <2> DEFINE k == [job[p] EXCEPT !.stage = "info"]
  <2>4. k \in Job /\ k.stage = "info" /\ k.c = job[p].c
    BY <2>2 DEF Job, Stages
  <2>5. GoodJob(k)
    BY <2>2, <2>4 DEF GoodJob
  <2>6. Finish(p) \/ Proceed(p, k)
    BY <2>1
  <2> HIDE DEF k
  <2> QED BY <2>1, <2>3, <2>4, <2>5, <2>6, FinishCalm, ProceedCalm DEF Served
<1>2. CASE RemoveUnanswered(p)
  <2>1. At(p, "delete") /\ (UNCHANGED world \/ Forget({job[p].c})) /\ Finish(p)
    BY <1>2 DEF RemoveUnanswered
  <2>2. {job[p].c} \in SUBSET Containers
    BY <2>1, AtStage
  <2>3. WorldOK' /\ UNCHANGED held
    BY <2>1, <2>2, ForgetWorld, WorldSame
  <2> QED BY <2>1, <2>3, FinishCalm DEF Served
<1>3. CASE TakeInfo(p)
  <2>1. /\ At(p, "info") /\ UNCHANGED <<docker, conf, fixed, label, held, asked>>
        /\ cinfo' = [cinfo EXCEPT ![job[p].c] = DeleteSlot(@, {})]
        /\ ReturnNext(p, [job[p] EXCEPT !.addrs = cinfo[job[p].c].val])
    BY <1>3 DEF TakeInfo
  <2>2. job[p] \in Job /\ job[p].c \in Containers
    BY <2>1, AtStage
  <2>3. cinfo[job[p].c].val \in SUBSET IPs /\ DeleteSlot(cinfo[job[p].c], {}) \in Slot(SUBSET IPs)
    BY <1>0, <2>2, InfoDeleted DEF WorldOK, Slot
  <2> DEFINE k == [job[p] EXCEPT !.addrs = cinfo[job[p].c].val]
  <2>4. k \in Job /\ k.c = job[p].c
    BY <2>2, <2>3 DEF Job
  <2>5. ReturnNext(p, k)
    BY <2>1
  <2> HIDE DEF k
  <2>6. Calm(p)
    BY <2>2, <2>4, <2>5, ReturnCalm
  <2>7. WorldOK'
    BY <1>0, <2>1, <2>2, <2>3 DEF WorldOK
  <2> QED BY <2>1, <2>6, <2>7 DEF Served
<1>4. CASE TakeInfoFails(p)
  <2>1. /\ At(p, "info") /\ UNCHANGED <<docker, conf, fixed, label, held, asked>>
        /\ UNCHANGED cinfo \/ cinfo' = [cinfo EXCEPT ![job[p].c] = DeleteSlot(@, {})]
        /\ NextVictim(p, job[p])
    BY <1>4 DEF TakeInfoFails
  <2>2. job[p] \in Job /\ job[p].c \in Containers
    BY <2>1, AtStage
  <2>3. DeleteSlot(cinfo[job[p].c], {}) \in Slot(SUBSET IPs)
    BY <1>0, <2>2, InfoDeleted DEF WorldOK
  <2>4. WorldOK'
    BY <1>0, <2>1, <2>2, <2>3 DEF WorldOK
  <2> QED BY <2>1, <2>2, <2>4, NextVictimCalm DEF Served
<1>5. CASE Returned(p)
  <2>1. /\ At(p, "return") /\ UNCHANGED world
        /\ Invoke(p, [job[p] EXCEPT !.stage = "unalloc"], "UnallocFixedIP", job[p].ip)
    BY <1>5 DEF Returned
  <2>2. job[p] \in Job /\ job[p].c \in Containers /\ job[p].ip \in IPs
    BY <2>1, AtStage
  <2> DEFINE k == [job[p] EXCEPT !.stage = "unalloc"]
  <2>3. k \in Job /\ k.c = job[p].c /\ k.ip = job[p].ip /\ k.stage = "unalloc"
    BY <2>2 DEF Job, Stages
  <2>4. GoodJob(k) /\ OpOf("unalloc") = "UnallocFixedIP"
    BY <2>2, <2>3 DEF GoodJob, OpOf
  <2>5. Invoke(p, k, "UnallocFixedIP", job[p].ip)
    BY <2>1
  <2> HIDE DEF k
  <2>6. Moved(p) /\ job'[p] = k /\ UNCHANGED <<ipinfo, calico>>
    BY <2>2, <2>3, <2>4, <2>5, InvokeMoves
  <2> QED BY <2>1, <2>3, <2>6, WorldSame DEF Served, Calm
<1>6. CASE Unalloced(p)
  <2>1. At(p, "unalloc") /\ ReturnNext(p, job[p]) /\ UNCHANGED world
    BY <1>6 DEF Unalloced
  <2> QED BY <2>1, AtStage, ReturnCalm, WorldSame DEF Served
<1> QED BY <1>1, <1>2, <1>3, <1>4, <1>5, <1>6

\* networkConnectHandler.
LEMMA ConnectServed ==
    ASSUME SysIInv, NEW p \in Procs,
           NetAllocated(p) \/ ConnectAccepted(p) \/ ConnectRefused(p) \/ ConnectUnanswered(p)
    PROVE  Served(p)
<1>0. WorldOK
  BY SysParts
<1>1. CASE NetAllocated(p)
  <2>1. At(p, "netalloc") /\ UNCHANGED world
    BY <1>1 DEF NetAllocated
  <2>2. CASE Ok(p)
    <3> DEFINE k == [job[p] EXCEPT !.stage = "connect", !.got = {call[p].ip}]
    <3>1. Proceed(p, k)
      BY <1>1, <2>2 DEF NetAllocated
    <3>2. job[p] \in Job /\ job[p].c \in Containers /\ {call[p].ip} \in SUBSET IPs
      BY <2>1, <2>2, AtStage
    <3>3. k \in Job /\ k.stage = "connect" /\ k.c = job[p].c
      BY <3>2 DEF Job, Stages
    <3>4. GoodJob(k)
      BY <3>2, <3>3 DEF GoodJob
    <3> HIDE DEF k
    <3> QED BY <2>1, <3>1, <3>3, <3>4, ProceedCalm, WorldSame DEF Served
  <2>3. CASE ~Ok(p)
    BY <1>1, <2>1, <2>3, FinishCalm, WorldSame DEF Served, NetAllocated
  <2> QED BY <2>2, <2>3
<1>2. CASE ConnectAccepted(p)
  <2>1. /\ At(p, "connect") /\ Finish(p) /\ UNCHANGED <<docker, label, held, asked, cinfo>>
        /\ conf' = [conf EXCEPT ![job[p].c] = @ \cup job[p].got]
        /\ fixed' = [fixed EXCEPT ![job[p].c] = @ \cup job[p].got]
    BY <1>2 DEF ConnectAccepted
  <2>2. job[p].c \in Containers /\ job[p].got \in SUBSET IPs
    BY <2>1, AtStage DEF Job
  <2>3. WorldOK'
    BY <1>0, <2>1, <2>2 DEF WorldOK
  <2> QED BY <2>1, <2>3, FinishCalm DEF Served
<1>3. CASE ConnectRefused(p)
  <2>1. /\ At(p, "connect") /\ UNCHANGED world
        /\ Rollback(p, [job[p] EXCEPT !.addrs = job[p].got])
    BY <1>3 DEF ConnectRefused
  <2> QED BY <2>1, AtStage, RollbackCalm, WorldSame DEF Served
<1>4. CASE ConnectUnanswered(p)
  <2>1. /\ At(p, "connect") /\ UNCHANGED <<docker, label, held, asked, cinfo>>
        /\ conf' = [conf EXCEPT ![job[p].c] = @ \cup job[p].got]
        /\ fixed' = [fixed EXCEPT ![job[p].c] = @ \cup job[p].got]
        /\ Rollback(p, [job[p] EXCEPT !.addrs = job[p].got])
    BY <1>4 DEF ConnectUnanswered
  <2>2. job[p].c \in Containers /\ job[p].got \in SUBSET IPs
    BY <2>1, AtStage DEF Job
  <2>3. WorldOK'
    BY <1>0, <2>1, <2>2 DEF WorldOK
  <2> QED BY <2>1, <2>3, AtStage, RollbackCalm DEF Served
<1> QED BY <1>1, <1>2, <1>3, <1>4

\* dockerd disconnects a container.
LEMMA LeaveWorld ==
    ASSUME SysIInv, NEW p \in Procs, job[p].c \in Containers, Leave(p)
    PROVE  WorldOK' /\ UNCHANGED held
<1>1. WorldOK
  BY SysParts
<1> QED BY <1>1 DEF Leave, WorldOK

\* The transaction on a ContainerInfo leaves a slot.
LEMMA InfoTxnSlot ==
    ASSUME SysIInv, NEW p \in Procs, job[p].c \in Containers
    PROVE  InfoTxn(p).slot \in Slot(SUBSET IPs)
<1>1. WorldOK /\ job[p] \in Job
  BY SysParts
<1>2. cinfo[job[p].c] \in Slot(SUBSET IPs) /\ Retained(p) \in SUBSET IPs
  BY <1>1 DEF WorldOK, Retained, Job, Slot
<1>3. PutSlot(cinfo[job[p].c], Retained(p)) \in Slot(SUBSET IPs)
  BY <1>2 DEF PutSlot, Slot, Exists
<1> QED BY <1>2, <1>3 DEF InfoTxn, UpdateElseGet

\* A ContainerInfo is replaced.
LEMMA InfoWorld ==
    ASSUME SysIInv, NEW c \in Containers, NEW s \in Slot(SUBSET IPs),
           cinfo' = [cinfo EXCEPT ![c] = s], UNCHANGED <<docker, conf, fixed, label, held, asked>>
    PROVE  WorldOK'
BY DEF SysIInv, SysTypeOK, WorldOK

\* networkDisconnectHandler and ReleaseContainerAddressesByIPPools.
LEMMA DisconnectServed ==
    ASSUME SysIInv, NEW p \in Procs,
           Disconnected(p) \/ GetInfo(p) \/ PartitionInfo(p) \/ DisconnectFails(p)
    PROVE  Served(p)
<1>0. WorldOK
  BY SysParts
<1>1. CASE Disconnected(p)
  <2>1. /\ At(p, "disconnect")
        /\ \/ Leave(p) /\ Proceed(p, [job[p] EXCEPT !.stage = "get"])
           \/ Finish(p) /\ UNCHANGED world
    BY <1>1 DEF Disconnected
  <2>2. job[p] \in Job /\ job[p].c \in Containers
    BY <2>1, AtStage
  <2> DEFINE k == [job[p] EXCEPT !.stage = "get"]
  <2>3. k \in Job /\ k.stage = "get" /\ k.c = job[p].c
    BY <2>2 DEF Job, Stages
  <2>4. GoodJob(k)
    BY <2>2, <2>3 DEF GoodJob
  <2>5. \/ Leave(p) /\ Proceed(p, k)
        \/ Finish(p) /\ UNCHANGED world
    BY <2>1
  <2> HIDE DEF k
  <2> QED BY <2>2, <2>3, <2>4, <2>5, FinishCalm, ProceedCalm, LeaveWorld, WorldSame DEF Served
<1>2. CASE GetInfo(p)
  <2>1. /\ At(p, "get") /\ UNCHANGED world
        /\ \/ Finish(p)
           \/ Proceed(p, [job[p] EXCEPT !.stage = "update", !.read = cinfo[job[p].c]])
    BY <1>2 DEF GetInfo
  <2>2. job[p] \in Job /\ job[p].c \in Containers
    BY <2>1, AtStage
  <2>3. cinfo[job[p].c] \in Slot(SUBSET IPs)
    BY <1>0, <2>2 DEF WorldOK
  <2> DEFINE k == [job[p] EXCEPT !.stage = "update", !.read = cinfo[job[p].c]]
  <2>4. k \in Job /\ k.stage = "update" /\ k.c = job[p].c
    BY <2>2, <2>3 DEF Job, Stages
  <2>5. GoodJob(k)
    BY <2>2, <2>4 DEF GoodJob
  <2>6. Finish(p) \/ Proceed(p, k)
    BY <2>1
  <2> HIDE DEF k
  <2> QED BY <2>1, <2>4, <2>5, <2>6, FinishCalm, ProceedCalm, WorldSame DEF Served
<1>3. CASE PartitionInfo(p)
  <2>1. /\ At(p, "update") /\ UNCHANGED <<docker, conf, fixed, label, held, asked>>
        /\ cinfo' = [cinfo EXCEPT ![job[p].c] = InfoTxn(p).slot]
        /\ \/ Finish(p)
           \/ Rollback(p, [job[p] EXCEPT !.addrs = Released(p)])
           \/ Proceed(p, [job[p] EXCEPT !.stage = "get"])
    BY <1>3 DEF PartitionInfo
  <2>2. job[p] \in Job /\ job[p].c \in Containers
    BY <2>1, AtStage
  <2>3. WorldOK'
    BY <2>1, <2>2, InfoTxnSlot, InfoWorld
  <2>4. Released(p) \in SUBSET IPs
    BY <2>2 DEF Released, Job, Slot
  <2> DEFINE k == [job[p] EXCEPT !.stage = "get"]
             r == [job[p] EXCEPT !.addrs = Released(p)]
  <2>5. /\ k \in Job /\ k.stage = "get" /\ k.c = job[p].c
        /\ r \in Job /\ r.c = job[p].c
    BY <2>2, <2>4 DEF Job, Stages
  <2>6. GoodJob(k)
    BY <2>2, <2>5 DEF GoodJob
  <2>7. Finish(p) \/ Rollback(p, r) \/ Proceed(p, k)
    BY <2>1
  <2> HIDE DEF k, r
  <2>8. Calm(p)
    BY <2>2, <2>5, <2>6, <2>7, FinishCalm, ProceedCalm, RollbackCalm
  <2> QED BY <2>1, <2>3, <2>8 DEF Served
<1>4. CASE DisconnectFails(p)
  <2>1. /\ Finish(p)
        /\ \/ UNCHANGED world
           \/ At(p, "disconnect") /\ Leave(p)
           \/ /\ At(p, "update") /\ cinfo' = [cinfo EXCEPT ![job[p].c] = InfoTxn(p).slot]
              /\ UNCHANGED <<docker, conf, fixed, label, held, asked>>
    BY <1>4 DEF DisconnectFails
  <2>2. WorldOK' /\ UNCHANGED held
    <3>1. CASE UNCHANGED world
      BY <3>1, WorldSame
    <3>2. CASE At(p, "disconnect") /\ Leave(p)
      BY <3>2, AtStage, LeaveWorld
    <3>3. CASE /\ At(p, "update") /\ cinfo' = [cinfo EXCEPT ![job[p].c] = InfoTxn(p).slot]
               /\ UNCHANGED <<docker, conf, fixed, label, held, asked>>
      BY <3>3, AtStage, InfoTxnSlot, InfoWorld
    <3> QED BY <2>1, <3>1, <3>2, <3>3
  <2> QED BY <2>1, <2>2, FinishCalm DEF Served
<1> QED BY <1>1, <1>2, <1>3, <1>4

\* A process dies.
LEMMA CrashServed ==
    ASSUME SysIInv, NEW p \in Procs, JobCrash(p)
    PROVE  Served(p)
<1>1. /\ Finish(p) /\ job[p] # NoJob /\ UNCHANGED <<conf, fixed, label, held, asked, cinfo>>
      /\ docker' = [docker EXCEPT ![job[p].c] = IF @ = "requested" THEN "failed" ELSE @]
  BY DEF JobCrash
<1>2. docker' \in [Containers -> {"none", "requested", "failed", "created", "removed"}]
  BY <1>1, SysParts DEF WorldOK
<1>3. WorldOK'
  BY <1>1, <1>2, SysParts DEF WorldOK
<1> QED BY <1>1, <1>3, FinishCalm DEF Served

\* The empty job.
LEMMA NoJobType == NoJob \in Job /\ NoJob.net = 0 /\ NoJob.stage = "idle"
BY DEF NoJob, Job, NoSlot, Slot, Stages

\* A counted request.
LEMMA CountWorld ==
    ASSUME SysIInv, NEW c \in Containers, CountRequest(c),
           UNCHANGED <<docker, conf, fixed, label, held, cinfo>>
    PROVE  WorldOK' /\ UNCHANGED held
<1>1. asked \in [Containers -> 0..MaxAsked] /\ asked[c] < MaxAsked
  BY DEF SysIInv, SysTypeOK, CountRequest
<1>2. asked[c] + 1 \in 0..MaxAsked
  BY <1>1, MaxAskedAssumption
<1>3. asked' = [asked EXCEPT ![c] = asked[c] + 1]
  BY DEF CountRequest
<1>4. asked' \in [Containers -> 0..MaxAsked]
  BY <1>1, <1>2, <1>3
<1> QED BY <1>4 DEF SysIInv, SysTypeOK, WorldOK

\* What the proxy's clients ask for.
LEMMA ClientServed ==
    ASSUME SysIInv, NEW p \in Procs, NEW c \in Containers,
           \/ CreateFixed(p, c) \/ (\E ip \in Specified \cup {NoIP} : CreatePlain(p, c, ip))
           \/ Remove(p, c) \/ NetworkConnect(p, c) \/ NetworkDisconnect(p, c)
    PROVE  Served(p)
<1>1. CASE CreateFixed(p, c)
  <2> DEFINE j == [NoJob EXCEPT !.c = c]
             k == [j EXCEPT !.stage = "alloc"]
  <2>1. /\ docker' = [docker EXCEPT ![c] = "requested"] /\ AllocNext(p, j)
        /\ UNCHANGED <<conf, fixed, label, held, asked, cinfo>>
    BY <1>1 DEF CreateFixed
  <2>2. j.net = 0 /\ k \in Job /\ k.c = c /\ k.stage = "alloc"
    BY DEF NoJob, Job, NoSlot, Slot, Stages
  <2>3. GoodJob(k)
    BY <2>2 DEF GoodJob
  <2>4. 1 \in DOMAIN Networks
    <3>1. 1 \in 1..Len(Networks)
      BY CreateNetsAssumption, NetworksAssumption
    <3> QED BY <3>1, NetworksAssumption
  <2>5. /\ job' = [job EXCEPT ![p] = k]
        /\ Call(p, "AllocFixedIPFromPools", NoIP, NoContainer, FALSE, Networks[1])
    <3> HIDE DEF j
    <3>1. /\ job' = [job EXCEPT ![p] = [j EXCEPT !.stage = "alloc"]]
          /\ Call(p, "AllocFixedIPFromPools", NoIP, NoContainer, FALSE, Networks[j.net + 1])
      BY <2>1 DEF AllocNext
    <3>2. j.net + 1 = 1
      BY <2>2
    <3>3. Call(p, "AllocFixedIPFromPools", NoIP, NoContainer, FALSE, Networks[1])
      BY <3>1, <3>2
    <3> QED BY <3>1, <3>3
  <2> HIDE DEF j, k
  <2>6. Calm(p)
    BY <2>2, <2>3, <2>4, <2>5, AllocCalm
  <2> QED BY <2>1, <2>6, DockerChange DEF Served
<1>2. CASE \E ip \in Specified \cup {NoIP} : CreatePlain(p, c, ip)
  <2>1. PICK ip \in Specified \cup {NoIP} : CreatePlain(p, c, ip)
    BY <1>2
  <2> DEFINE k == [NoJob EXCEPT !.c = c, !.stage = "dockerd", !.ip = ip]
  <2>2. /\ docker' = [docker EXCEPT ![c] = "requested"] /\ Proceed(p, k)
        /\ UNCHANGED <<conf, fixed, label, held, asked, cinfo>>
    BY <2>1 DEF CreatePlain
  <2>3. ip \in IPs \cup {NoIP}
    BY SpecifiedAssumption
  <2>4. k.stage = "dockerd" /\ GoodJob(k)
    <3>1. k \in Job /\ k.c = c /\ k.stage = "dockerd"
      BY <2>3, NoJobType DEF Job, Stages
    <3> QED BY <3>1 DEF GoodJob
  <2> HIDE DEF k
  <2>5. Calm(p)
    BY <2>2, <2>4, ProceedCalm
  <2> QED BY <2>2, <2>5, DockerChange DEF Served
<1>3. CASE Remove(p, c)
  <2> DEFINE k == [NoJob EXCEPT !.c = c, !.stage = "delete"]
  <2>1. Proceed(p, k) /\ UNCHANGED world
    BY <1>3 DEF Remove
  <2>3. k.stage = "delete" /\ GoodJob(k)
    <3>1. k \in Job /\ k.c = c /\ k.stage = "delete"
      BY NoJobType DEF Job, Stages
    <3> QED BY <3>1 DEF GoodJob
  <2> HIDE DEF k
  <2> QED BY <2>1, <2>3, ProceedCalm, WorldSame DEF Served
<1>4. CASE NetworkConnect(p, c)
  <2>1. PICK i \in DOMAIN Networks :
           /\ job' = [job EXCEPT ![p] = [NoJob EXCEPT !.c = c, !.stage = "netalloc", !.net = i]]
           /\ Call(p, "AllocFixedIPFromPools", NoIP, NoContainer, FALSE, Networks[i])
    BY <1>4 DEF NetworkConnect
  <2>2. CountRequest(c) /\ UNCHANGED <<docker, conf, fixed, label, held, cinfo>>
    BY <1>4 DEF NetworkConnect
  <2> DEFINE k == [NoJob EXCEPT !.c = c, !.stage = "netalloc", !.net = i]
  <2>3. i \in Nat
    BY NetworksAssumption
  <2>4. k.stage = "netalloc" /\ GoodJob(k)
    <3>1. k \in Job /\ k.c = c /\ k.stage = "netalloc"
      BY <2>3, NoJobType DEF Job, Stages
    <3> QED BY <3>1 DEF GoodJob
  <2>5. job' = [job EXCEPT ![p] = k]
    BY <2>1
  <2> HIDE DEF k
  <2>6. Calm(p)
    BY <2>1, <2>4, <2>5, AllocCalm
  <2> QED BY <2>2, <2>6, CountWorld DEF Served
<1>5. CASE NetworkDisconnect(p, c)
  <2>1. PICK i \in DOMAIN Networks :
           Proceed(p, [NoJob EXCEPT !.c = c, !.stage = "disconnect", !.net = i])
    BY <1>5 DEF NetworkDisconnect
  <2>2. CountRequest(c) /\ UNCHANGED <<docker, conf, fixed, label, held, cinfo>>
    BY <1>5 DEF NetworkDisconnect
  <2> DEFINE k == [NoJob EXCEPT !.c = c, !.stage = "disconnect", !.net = i]
  <2>3. i \in Nat
    BY NetworksAssumption
  <2>4. k.stage = "disconnect" /\ GoodJob(k)
    <3>1. k \in Job /\ k.c = c /\ k.stage = "disconnect"
      BY <2>3, NoJobType DEF Job, Stages
    <3> QED BY <3>1 DEF GoodJob
  <2>5. Proceed(p, k)
    BY <2>1
  <2> HIDE DEF k
  <2>6. Calm(p)
    BY <2>4, <2>5, ProceedCalm
  <2> QED BY <2>2, <2>6, CountWorld DEF Served
<1> QED BY <1>1, <1>2, <1>3, <1>4, <1>5

\* A prune.
LEMMA PruneServed ==
    ASSUME SysIInv, NEW p \in Procs, Prune(p)
    PROVE  Served(p)
<1> DEFINE stopped == {c \in Containers : docker[c] = "created" /\ held[c] = {} /\ ~DockerBusy(c)}
<1>1. /\ Forget(stopped)
      /\ \E c \in stopped :
            Proceed(p, [NoJob EXCEPT !.c = c, !.stage = "info", !.victims = stopped \ {c}])
  BY DEF Prune
<1>2. stopped \in SUBSET Containers
  OBVIOUS
<1> HIDE DEF stopped
<1>3. Calm(p)
  BY <1>1, <1>2, VictimCalm
<1>4. WorldOK' /\ UNCHANGED held
  BY <1>1, <1>2, ForgetWorld
<1> QED BY <1>3, <1>4 DEF Served

\* dockerd starts a container.
LEMMA StartServed ==
    ASSUME SysIInv, NEW p \in Procs, NEW c \in Containers, RequestAddress(p, c)
    PROVE  Served(p)
<1>1. /\ CountRequest(c) /\ UNCHANGED <<docker, conf, fixed, label, held, cinfo>>
      /\ \/ \E ip \in conf[c] :
               Invoke(p, [NoJob EXCEPT !.c = c, !.stage = "assign", !.ip = ip], "AssignFixedIP", ip)
         \/ Proceed(p, [NoJob EXCEPT !.c = c, !.stage = "calico"])
  BY DEF RequestAddress
<1>2. WorldOK' /\ UNCHANGED held
  BY <1>1, CountWorld
<1>3. {"assign", "calico"} \subseteq Stages /\ OpOf("assign") = "AssignFixedIP"
  BY DEF Stages, OpOf
<1>4. ASSUME NEW ip \in conf[c],
             Invoke(p, [NoJob EXCEPT !.c = c, !.stage = "assign", !.ip = ip], "AssignFixedIP", ip)
      PROVE  Calm(p)
  <2> DEFINE k == [NoJob EXCEPT !.c = c, !.stage = "assign", !.ip = ip]
  <2>1. ip \in IPs
    BY SysParts DEF WorldOK
  <2>2. k.stage = "assign" /\ k.ip = ip /\ GoodJob(k)
    <3>1. k \in Job /\ k.c = c /\ k.stage = "assign" /\ k.ip = ip
      BY <1>3, <2>1, NoJobType DEF Job
    <3> QED BY <2>1, <3>1 DEF GoodJob
  <2>3. Invoke(p, k, "AssignFixedIP", ip)
    BY <1>4
  <2> HIDE DEF k
  <2>4. Moved(p) /\ job'[p] = k /\ UNCHANGED <<ipinfo, calico>>
    BY <1>3, <2>1, <2>2, <2>3, InvokeMoves
  <2> QED BY <2>2, <2>4 DEF Calm
<1>5. ASSUME Proceed(p, [NoJob EXCEPT !.c = c, !.stage = "calico"])
      PROVE  Calm(p)
  <2> DEFINE k == [NoJob EXCEPT !.c = c, !.stage = "calico"]
  <2>1. k.stage = "calico" /\ GoodJob(k)
    <3>1. k \in Job /\ k.c = c /\ k.stage = "calico"
      BY <1>3, NoJobType DEF Job
    <3> QED BY <3>1 DEF GoodJob
  <2>2. Proceed(p, k)
    BY <1>5
  <2> HIDE DEF k
  <2> QED BY <2>1, <2>2, ProceedCalm
<1> QED BY <1>1, <1>2, <1>4, <1>5 DEF Served

\* The driver answers dockerd's request for a named address.
LEMMA AssignedInv ==
    ASSUME SysIInv, NEW p \in Procs, Assigned(p),
           Remembered
    PROVE  SysIInv'
<1>1. /\ At(p, "assign") /\ UNCHANGED <<docker, conf, fixed, label, asked, cinfo>>
  BY DEF Assigned
<1>2. /\ job[p] \in Job /\ job[p].c \in Containers /\ job[p].ip \in IPs /\ WorldOK
      /\ job[p].stage = "assign" /\ call[p].pc = "idle"
  BY <1>1, AtStage, SysParts
<1>3. CASE call[p].err = "ErrFixedIPNotAllocated"
  <2> DEFINE k == [job[p] EXCEPT !.stage = "calico"]
  <2>1. Proceed(p, k) /\ UNCHANGED held
    BY <1>3 DEF Assigned
  <2>2. k \in Job /\ k.stage = "calico" /\ k.c = job[p].c
    BY <1>2 DEF Job, Stages
  <2>3. GoodJob(k)
    BY <1>2, <2>2 DEF GoodJob
  <2> HIDE DEF k
  <2>4. Calm(p)
    BY <2>1, <2>2, <2>3, ProceedCalm
  <2>5. WorldOK'
    BY <1>1, <1>2, <2>1 DEF WorldOK
  <2> QED BY <2>1, <2>4, <2>5, SysCalm
<1>4. CASE call[p].err # "ErrFixedIPNotAllocated" /\ ~Ok(p)
  <2>1. Finish(p) /\ UNCHANGED held
    BY <1>4 DEF Assigned
  <2>2. WorldOK'
    BY <1>1, <1>2, <2>1 DEF WorldOK
  <2> QED BY <2>1, <2>2, FinishCalm, SysCalm
<1>5. CASE Ok(p)
  <2>1. Finish(p) /\ held' = [held EXCEPT ![job[p].c] = @ \cup {job[p].ip}]
    BY <1>5 DEF Assigned, Ok
  <2>2. Calm(p)
    BY <2>1, FinishCalm
  <2>3. WorldOK'
    BY <1>1, <1>2, <2>1 DEF WorldOK
  <2>4. Busy(p, job[p].ip)
    BY <1>2, <1>5 DEF Busy, Granted
  <2>5. HoldsNone(p) /\ SameMarks
    BY <2>2, CalmHolds, StoreSame DEF Calm
  <2>6. Grants(p, job[p].c, job[p].ip)
    BY <2>1, <2>2, <2>4, <2>5 DEF Grants, Calm
  <2>7. Effect(p)
    BY <1>2, <2>6 DEF Effect
  <2> QED BY <2>2, <2>3, <2>7, SysMoved DEF Calm
<1> QED BY <1>3, <1>4, <1>5

\* What Calico can give is free.
LEMMA ChoicesFree ==
    ASSUME NEW p \in Procs, job[p] \in Job, NEW ip \in Choices(p)
    PROVE  ip \in IPs /\ ip.Address \notin calico /\ ip.Address \in Addresses
<1>1. CASE job[p].ip = NoIP
  <2>1. PICK a \in CIDR[PlainPool] \ calico : ip = [PoolID |-> PlainPool, Address |-> a]
    BY <1>1 DEF Choices
  <2> QED BY <2>1, PlainPoolAssumption, CIDRAssumption DEF IPs
<1>2. CASE job[p].ip # NoIP
  <2>1. ip = job[p].ip /\ ip.Address \notin calico
    BY <1>2 DEF Choices
  <2> QED BY <1>2, <2>1 DEF Job, IPs
<1> QED BY <1>1, <1>2

\* The Calico driver answers dockerd's request.
LEMMA CalicoRequestInv ==
    ASSUME SysIInv, NEW p \in Procs, CalicoRequest(p),
           Remembered
    PROVE  SysIInv'
<1>1. /\ At(p, "calico") /\ EndJob(p)
      /\ UNCHANGED <<ipinfo, docker, conf, fixed, label, asked, cinfo>>
  BY DEF CalicoRequest
<1>2. job[p] \in Job /\ job[p].c \in Containers /\ WorldOK /\ calico \in SUBSET Addresses
  BY <1>1, AtStage, SysParts DEF TypeOK
<1>3. CASE UNCHANGED <<calico, held>>
  <2>1. Moved(p) /\ job'[p].stage = "idle"
    BY <1>1, <1>2, <1>3, EndMoves
  <2>2. WorldOK'
    BY <1>1, <1>2, <1>3 DEF WorldOK
  <2> QED BY <1>1, <1>3, <2>1, <2>2, SysCalm DEF Calm
<1>4. CASE \E ip \in Choices(p) :
               /\ calico' = calico \cup {ip.Address}
               /\ held' = [held EXCEPT ![job[p].c] = @ \cup {ip}]
  <2>1. PICK ip \in Choices(p) :
               /\ calico' = calico \cup {ip.Address}
               /\ held' = [held EXCEPT ![job[p].c] = @ \cup {ip}]
    BY <1>4
  <2>2. ip \in IPs /\ ip.Address \notin calico /\ ip.Address \in Addresses
    BY <1>2, ChoicesFree
  <2>3. Moved(p) /\ job'[p].stage = "idle"
    BY <1>1, <1>2, <2>1, <2>2, EndMoves
  <2>4. WorldOK'
    BY <1>1, <1>2, <2>1, <2>2 DEF WorldOK
  <2>5. HoldsNone(p) /\ SameMarks
    BY <1>1, <2>3, CalmHolds, StoreSame
  <2>6. GivesFree(p, job[p].c, ip)
    BY <2>1, <2>2, <2>5 DEF GivesFree
  <2>7. Effect(p)
    BY <1>2, <2>2, <2>6 DEF Effect
  <2> QED BY <2>3, <2>4, <2>7, SysMoved
<1> QED BY <1>3, <1>4 DEF CalicoRequest

\* dockerd gives an address back.
LEMMA ReleaseInv ==
    ASSUME SysIInv, NEW p \in Procs, NEW c \in Containers, ReleaseAddress(p, c),
           Remembered
    PROVE  SysIInv'
<1>1. PICK ip \in held[c] :
          /\ held' = [held EXCEPT ![c] = @ \ {ip}]
          /\ Invoke(p, [NoJob EXCEPT !.c = c, !.stage = "unassign", !.ip = ip],
                    "UnassignFixedIP", ip)
  BY DEF ReleaseAddress
<1>2. UNCHANGED <<docker, conf, fixed, label, asked, cinfo>> /\ WorldOK
  BY SysParts DEF ReleaseAddress
<1> DEFINE k == [NoJob EXCEPT !.c = c, !.stage = "unassign", !.ip = ip]
<1>3. ip \in IPs
  BY <1>2 DEF WorldOK
<1>4. k.stage = "unassign" /\ k.ip = ip /\ GoodJob(k) /\ OpOf("unassign") = "UnassignFixedIP"
  <2>1. k \in Job /\ k.c = c /\ k.stage = "unassign" /\ k.ip = ip
    BY <1>3, NoJobType DEF Job, Stages
  <2> QED BY <1>3, <2>1 DEF GoodJob, OpOf
<1>5. Invoke(p, k, "UnassignFixedIP", ip)
  BY <1>1
<1> HIDE DEF k
<1>6. Moved(p) /\ job'[p] = k /\ UNCHANGED <<ipinfo, calico>>
  BY <1>3, <1>4, <1>5, InvokeMoves
<1>7. WorldOK'
  BY <1>1, <1>2 DEF WorldOK
<1>8. \A jp \in IPs :
         /\ ~Owns(p, jp)' /\ ~Deleting(p, jp)' /\ ~Granted(p, jp)'
         /\ ~Freeing(p, jp)' /\ (Unmarking(p, jp)' => jp = ip)
  BY <1>4, <1>6, MovedHolds
<1>9. BusyOnly(p, ip) /\ SameMarks
  BY <1>6, <1>8, StoreSame DEF BusyOnly, Busy
<1>10. Releases(p, c, ip)
  BY <1>1, <1>6, <1>8, <1>9 DEF Releases
<1>11. Effect(p)
  BY <1>3, <1>10 DEF Effect
<1> QED BY <1>6, <1>7, <1>11, SysMoved

\* The pool does not know the address: it goes back to Calico.
LEMMA UnassignedInv ==
    ASSUME SysIInv, NEW p \in Procs, Unassigned(p),
           Remembered
    PROVE  SysIInv'
<1>1. At(p, "unassign") /\ UNCHANGED world
  BY DEF Unassigned
<1>2. /\ job[p] \in Job /\ job[p].c \in Containers /\ job[p].ip \in IPs
      /\ job[p].stage = "unassign" /\ call[p].pc = "idle"
  BY <1>1, AtStage
<1>3. WorldOK' /\ UNCHANGED held
  BY <1>1, WorldSame
<1>4. CASE call[p].err = "ErrFixedIPNotAllocated"
  <2> DEFINE k == [job[p] EXCEPT !.stage = "free"]
  <2>1. /\ job' = [job EXCEPT ![p] = k] /\ call' = [call EXCEPT ![p] = IdleFrame]
        /\ UNCHANGED <<ipinfo, calico>>
    BY <1>4 DEF Unassigned, Proceed
  <2>2. k \in Job /\ k.stage = "free" /\ k.c = job[p].c /\ k.ip = job[p].ip
    BY <1>2 DEF Job, Stages
  <2>3. GoodJob(k)
    BY <1>2, <2>2 DEF GoodJob
  <2>4. calico' \in SUBSET Addresses
    BY <2>1, SysParts DEF TypeOK
  <2> HIDE DEF k
  <2>5. Moved(p) /\ job'[p] = k
    BY <2>1, <2>2, <2>3, <2>4, RestMoves
  <2>6. \A ip \in IPs :
         /\ ~Owns(p, ip)' /\ ~Deleting(p, ip)' /\ ~Granted(p, ip)' /\ ~Unmarking(p, ip)'
         /\ Freeing(p, ip)' => ip = job[p].ip
    BY <2>2, <2>5, MovedHolds
  <2>7. Freeing(p, job[p].ip)
    BY <1>2, <1>4 DEF Freeing
  <2>8. Effect(p)
    BY <1>3, <2>1, <2>6, <2>7, QuietStep DEF Busy
  <2> QED BY <1>3, <2>5, <2>8, SysMoved
<1>5. CASE call[p].err # "ErrFixedIPNotAllocated"
  BY <1>3, <1>5, FinishCalm, SysCalm DEF Unassigned
<1> QED BY <1>4, <1>5

\* The Calico driver's release, and its calls that fail.
LEMMA CalicoReleaseInv ==
    ASSUME SysIInv, NEW p \in Procs, CalicoRelease(p) \/ DriverFails(p),
           Remembered
    PROVE  SysIInv'
<1>1. /\ EndJob(p) /\ UNCHANGED <<ipinfo, world>>
      /\ At(p, "free") \/ At(p, "calico")
      /\ \/ UNCHANGED calico
         \/ job[p].stage = "free" /\ calico' = calico \ {job[p].ip.Address}
         \/ \E ip \in Choices(p) : calico' = calico \cup {ip.Address}
  BY DEF CalicoRelease, DriverFails, At
<1>2. job[p] \in Job /\ calico \in SUBSET Addresses
  BY SysParts DEF TypeOK
<1>3. \A ip \in Choices(p) : ip \in IPs /\ ip.Address \notin calico /\ ip.Address \in Addresses
  BY <1>2, ChoicesFree
<1>4. Moved(p) /\ job'[p].stage = "idle"
  <2>1. calico' \in SUBSET Addresses
    BY <1>1, <1>2, <1>3
  <2> QED BY <1>1, <2>1, EndMoves
<1>5. HoldsNone(p)
  BY <1>4, CalmHolds
<1>6. WorldOK' /\ UNCHANGED held
  BY <1>1, WorldSame
<1>7. Effect(p)
  <2>1. CASE UNCHANGED calico
    BY <1>1, <1>5, <1>6, <2>1, EmptyQuiet
  <2>2. CASE job[p].stage = "free" /\ calico' = calico \ {job[p].ip.Address}
    <3>1. job[p].ip \in IPs
      BY <2>2, SysParts DEF GoodJob
    <3>2. Freeing(p, job[p].ip)
      BY <2>2 DEF Freeing
    <3> QED BY <1>1, <1>5, <1>6, <2>2, <3>1, <3>2, FreesEffect
  <2>3. CASE \E ip \in Choices(p) : calico' = calico \cup {ip.Address}
    <3>1. PICK ip \in Choices(p) : calico' = calico \cup {ip.Address}
      BY <2>3
    <3>2. OwnsOnly(p, ip)
      BY <1>5 DEF OwnsOnly, HoldsNone
    <3> QED BY <1>1, <1>3, <1>6, <3>1, <3>2, TakesEffect
  <2> QED BY <1>1, <2>1, <2>2, <2>3
<1> QED BY <1>4, <1>6, <1>7, SysMoved

-----------------------------------------------------------------------------
(***************************************************************************)
(* The theorems                                                            *)
(***************************************************************************)

\* A step outside the pool.
LEMMA OutsideStep ==
    ASSUME SysIInv, NEW p \in Procs, Request(p) \/ JobStep(p) \/ JobFault(p),
           ~((Step(p) \/ CallError(p) \/ CallTimeout(p)) /\ UNCHANGED <<world, job>>),
           Remembered
    PROVE  SysIInv'
<1>1. Served(p) => SysIInv'
  BY SysCalm DEF Served
<1>2. CASE Request(p)
  <2>1. CASE Prune(p)
    BY <1>1, <2>1, PruneServed
  <2>2. ASSUME NEW c \in Containers,
               \/ CreateFixed(p, c) \/ (\E ip \in Specified \cup {NoIP} : CreatePlain(p, c, ip))
               \/ RequestAddress(p, c) \/ ReleaseAddress(p, c) \/ Remove(p, c)
               \/ NetworkConnect(p, c) \/ NetworkDisconnect(p, c)
        PROVE  SysIInv'
    BY <1>1, <2>2, ClientServed, StartServed, ReleaseInv
  <2> QED BY <1>2, <2>1, <2>2 DEF Request
<1>3. CASE JobStep(p)
  <2>1. \/ Allocated(p) \/ RolledBack(p) \/ CreateAccepted(p) \/ CreateRefused(p)
        \/ Borrowed(p) \/ RecordInfo(p)
        \/ Assigned(p) \/ CalicoRequest(p) \/ Unassigned(p) \/ CalicoRelease(p)
        \/ RemoveAnswered(p) \/ TakeInfo(p) \/ Returned(p) \/ Unalloced(p)
        \/ NetAllocated(p) \/ ConnectAccepted(p) \/ ConnectRefused(p)
        \/ Disconnected(p) \/ GetInfo(p) \/ PartitionInfo(p)
    BY <1>3 DEF JobStep
  <2> QED BY <1>1, <2>1, CreateServed, AnswerServed, RemoveServed, ConnectServed, DisconnectServed,
             AssignedInv, CalicoRequestInv, UnassignedInv, CalicoReleaseInv
<1>4. CASE JobFault(p)
  <2>1. \/ JobCrash(p) \/ CreateUnanswered(p) \/ RemoveUnanswered(p) \/ TakeInfoFails(p)
        \/ DriverFails(p) \/ ConnectUnanswered(p) \/ DisconnectFails(p)
    BY <1>4 DEF JobFault
  <2> QED BY <1>1, <2>1, AnswerServed, RemoveServed, ConnectServed, DisconnectServed,
             CrashServed, CalicoReleaseInv
<1> QED BY <1>2, <1>3, <1>4

\* The invariant is inductive.
LEMMA SysIInvInductive ==
    /\ SysInit => SysIInv
    /\ SysIInv /\ [SysNext]_<<sysVars, ghosts>> => SysIInv'
<1>1. SysInit => SysIInv
  <2> SUFFICES ASSUME SysInit PROVE SysIInv
    OBVIOUS
  <2>1. IInv
    BY IInvInductive DEF SysInit
  <2>2. \A p \in Procs : job[p] = NoJob /\ call[p] = IdleFrame
    BY DEF SysInit, Init
  <2>3. NoSlot({}) \in Slot(SUBSET IPs) /\ 0 \in 0..MaxAsked
    BY MaxAskedAssumption DEF NoSlot, Slot
  <2>4. SysTypeOK /\ VersionInv
    <3>1. TypeOK /\ VersionInv
      BY <2>1 DEF IInv
    <3>2. job \in [Procs -> Job]
      BY NoJobType DEF SysInit
    <3>3. \A p \in Procs : job[p] = NoJob => call[p].pc = "idle"
      BY <2>2 DEF IdleFrame
    <3>4. broken \in BOOLEAN /\ unanswered \in BOOLEAN
      BY DEF SysInit
    <3>5. cinfo \in [Containers -> Slot(SUBSET IPs)] /\ asked \in [Containers -> 0..MaxAsked]
      BY <2>3 DEF SysInit
    <3> QED BY <3>1, <3>2, <3>3, <3>4, <3>5 DEF SysInit, SysTypeOK
  <2>5. \A p \in Procs : Linked(p) /\ Prepared(p)
    BY <2>2, NoJobType DEF Linked, Prepared, GoodJob, IdleFrame, NoJob
  <2>6. \A p \in Procs, ip \in IPs : ~Owns(p, ip) /\ ~Busy(p, ip) /\ ~Freeing(p, ip) /\ ~Deleting(p, ip)
    BY <2>2, NoJobType DEF Owns, Busy, Granted, Freeing, Unmarking, Deleting, IdleFrame
  <2>7. \A ip \in IPs : ~Recorded(ip)
    BY DEF SysInit, Init, Recorded, NoSlot, Exists
  <2>8. \A c \in Containers : held[c] = {}
    BY DEF SysInit
  <2>9. OwnedOnce /\ UsedOnce
    BY <2>6, <2>7, <2>8 DEF OwnedOnce, UsedOnce, UsedPair, Used, Recorded
  <2> QED BY <2>4, <2>5, <2>9 DEF SysIInv
<1>2. SysIInv /\ [SysNext]_<<sysVars, ghosts>> => SysIInv'
  <2> SUFFICES ASSUME SysIInv, [SysNext]_<<sysVars, ghosts>> PROVE SysIInv'
    OBVIOUS
  <2>1. CASE SysNext
    <3>1. PICK p \in Procs : Request(p) \/ JobStep(p) \/ JobFault(p)
      BY <2>1 DEF SysNext
    <3>2. Remembered
      BY <2>1 DEF SysNext
    <3> QED BY <3>1, <3>2, PoolStep, OutsideStep
  <2>2. CASE UNCHANGED <<sysVars, ghosts>>
    <3>1. /\ UNCHANGED <<ipinfo, calico, call, docker, conf, fixed, label, held, asked, cinfo, job>>
          /\ UNCHANGED <<broken, unanswered>>
      BY <2>2 DEF sysVars, vars, world, ghosts
    <3>2. IInv'
      BY <3>1, IInvInductive DEF SysIInv, SysTypeOK, IInv, vars
    <3>3. SysTypeOK' /\ VersionInv'
      BY <3>1, <3>2 DEF SysIInv, SysTypeOK, IInv
    <3>4. \A p \in Procs : Linked(p)' /\ Prepared(p)'
      BY <3>1 DEF SysIInv, Linked, Prepared, Ok
    <3>5. \A p \in Procs, ip \in IPs : /\ Owns(p, ip)' <=> Owns(p, ip)
                                       /\ Busy(p, ip)' <=> Busy(p, ip)
                                       /\ Freeing(p, ip)' <=> Freeing(p, ip)
                                       /\ Deleting(p, ip)' <=> Deleting(p, ip)
      BY <3>1 DEF Owns, Busy, Granted, Freeing, Unmarking, Deleting, Ok
    <3>6. ~broken' => OwnedOnce' /\ UsedOnce'
      <4>1. \A ip \in IPs : /\ Recorded(ip)' <=> Recorded(ip)
                            /\ MarkedInUse(ip)' <=> MarkedInUse(ip)
        BY <3>1, StoreSame DEF SameMarks
      <4>2. ~broken => OwnedOnce /\ UsedOnce
        BY DEF SysIInv
      <4>3. OwnedOnce => OwnedOnce'
        BY <3>1, <3>5, <4>1 DEF OwnedOnce, Recorded
      <4>4. UsedOnce => UsedOnce'
        BY <3>1, <3>5, <4>1 DEF UsedOnce, UsedPair, Used
      <4> QED BY <3>1, <4>2, <4>3, <4>4
    <3> QED BY <3>3, <3>4, <3>6 DEF SysIInv
  <2> QED BY <2>1, <2>2
<1> QED BY <1>1, <1>2

\* Jobs, records and what dockerd knows are well formed, and a process that serves
\* no request is not inside the pool.
THEOREM ContainersTyped == SysSpec => []SysTypeOK
<1>1. SysIInv => SysTypeOK
  BY DEF SysIInv
<1> QED BY <1>1, SysIInvInductive, PTL DEF SysSpec

\* No two containers are given the same address, and what a container uses is
\* allocated and marked as in use, whatever requests overlap, calls fail and
\* processes die, unless one of the Unprotected steps happens (AssignFixedIP's
\* check and UpdateElseGet; AllocIP for an address without a record;
\* UnallocFixedIP's lock before the delete).
THEOREM HeldExclusively == SysSpec => []HeldExclusive
<1>1. SysIInv => HeldExclusive
  <2> SUFFICES ASSUME SysIInv, ~broken PROVE HeldOnce
    BY DEF HeldExclusive
  <2>1. UsedOnce /\ held \in [Containers -> SUBSET IPs]
    BY DEF SysIInv, SysTypeOK
  <2> SUFFICES ASSUME NEW c \in Containers, NEW ip \in held[c]
               PROVE  /\ ip.Address \in calico
                      /\ Exists(ipinfo[ip]) => Match(ipinfo[ip].val, {"InUse"})
                      /\ \A d \in Containers \ {c} : \A jp \in held[d] : jp.Address # ip.Address
    BY DEF HeldOnce
  <2>2. ip \in IPs /\ Used(ip)
    BY <2>1 DEF Used
  <2>3. UsedPair(ip, ip)
    BY <2>1, <2>2 DEF UsedOnce
  <2>4. ip.Address \in calico /\ (Exists(ipinfo[ip]) => Match(ipinfo[ip].val, {"InUse"}))
    BY <2>2, <2>3 DEF UsedPair, Recorded, MarkedInUse, Match
  <2>5. ASSUME NEW d \in Containers \ {c}, NEW jp \in held[d], jp.Address = ip.Address
        PROVE  FALSE
    <3>1. jp \in IPs
      BY <2>1
    <3>2. UsedPair(ip, jp)
      BY <2>1, <2>2, <2>5, <3>1 DEF UsedOnce
    <3> QED BY <3>2 DEF UsedPair
  <2> QED BY <2>4, <2>5
<1> QED BY <1>1, SysIInvInductive, PTL DEF SysSpec

=============================================================================
