-------------------------- MODULE FixedAddressProofs --------------------------
(***************************************************************************)
(* A container keeps its fixed addresses as long as it exists, for every   *)
(* number of processes, containers, pools and networks, all requests and   *)
(* all faults, unless one of the Unprotected steps of ContainerAddresses   *)
(* happens or dockerd's answer to a connect is lost.  And when clients     *)
(* wait for their answers and nothing fails, nothing is left behind.       *)
(***************************************************************************)
EXTENDS ContainerProofs

-----------------------------------------------------------------------------
(***************************************************************************)
(* The invariant: who may delete the record of an address.                 *)
(*                                                                         *)
(* A process has a claim on an address it has allocated for a container    *)
(* that does not exist yet, and on one it gives back.  A container has the *)
(* addresses it was created with or connected to, and those its            *)
(* ContainerInfo lists or will list.  Claims pass from create to           *)
(* container to release, and nobody else has one meanwhile.                *)
(***************************************************************************)

\* p gives ip back, or has it on its list to do so.
AtHand(p, ip) ==
    \/ job[p].stage = "return" /\ job[p].ip = ip
    \/ job[p].stage \in {"rollback", "unalloc"} /\ call[p].pc # "idle" /\ call[p].ip = ip

Pending(p, ip) == job[p].stage \in {"rollback", "return", "unalloc"} /\ ip \in job[p].addrs

\* p has allocated ip for a container, or for a network it is connected to.
Making(p, ip) ==
    \/ job[p].stage \in {"alloc", "dockerd", "connect"} /\ ip \in job[p].got
    \/ /\ job[p].stage \in {"alloc", "netalloc"} /\ call[p].pc = "idle" /\ Ok(p)
       /\ call[p].ip = ip

Claims(p, ip) == AtHand(p, ip) \/ Pending(p, ip) \/ Making(p, ip)

\* The ContainerInfo of c lists ip, or the create handler is about to write it.
Creating == {"alloc", "dockerd", "borrow", "record"}
Listing(p, c, ip) == job[p].stage \in {"borrow", "record"} /\ job[p].c = c /\ ip \in job[p].got
Listed(c, ip) == ip \in cinfo[c].val \/ \E p \in Procs : Listing(p, c, ip)
Has(c, ip) == Listed(c, ip) \/ ip \in fixed[c]

\* p has disconnected c from the network of ip.
Left(p, c, ip) ==
    job[p].stage \in {"get", "update"} /\ job[p].c = c /\ ip.PoolID \in PoolsOf(job[p].net)

\* An address is claimed by one process or belongs to one container.  What is
\* claimed has a record, except one that its process has just deleted.  What a
\* container was created with or connected to a disconnect does not find in its
\* ContainerInfo.
ClaimsOnce ==
    \A ip \in IPs :
        /\ \A p, q \in Procs : Claims(p, ip) /\ Claims(q, ip) => p = q
        /\ \A p \in Procs, c \in Containers : Claims(p, ip) => ~Has(c, ip)
        /\ \A c, d \in Containers : Has(c, ip) /\ Has(d, ip) => c = d
        /\ \A p \in Procs : AtHand(p, ip) => ~Pending(p, ip)
        /\ \A p \in Procs : Claims(p, ip) => Recorded(ip) \/ (AtHand(p, ip) /\ call[p].pc = "free")
        /\ \A c \in Containers : Has(c, ip) => Recorded(ip)
        /\ \A p \in Procs, c \in Containers : Left(p, c, ip) /\ ip \in fixed[c] => ~Listed(c, ip)

\* What dockerd has done with the containers of a job.
DockerOf(d, j) ==
    /\ j.stage = "idle" => j = NoJob
    /\ j.stage # "idle" => d[j.c] # "none"
    /\ j.stage # "idle" /\ d[j.c] = "requested" => j.stage \in {"alloc", "dockerd"}
    /\ j.stage \in {"alloc", "dockerd"} => d[j.c] = "requested"
    /\ j.stage \in {"info", "return", "unalloc"} => d[j.c] = "removed"
    /\ \A v \in j.victims : d[v] = "removed"

DockerInv ==
    /\ \A p \in Procs : DockerOf(docker, job[p])
    /\ \A p, q \in Procs :
          job[p].stage \in Creating /\ job[q].stage \in Creating /\ job[p].c = job[q].c => p = q
    /\ \A c \in Containers :
          /\ fixed[c] \subseteq conf[c]
          /\ docker[c] # "created" => fixed[c] = {}
          /\ held[c] # {} => docker[c] \notin {"none", "requested"}

\* A ContainerInfo with the version that was read is the one that was read, and
\* before its create handler has written it there is none.
InfoInv ==
    /\ \A c \in Containers :
          /\ ~Exists(cinfo[c]) => cinfo[c].val = {}
          /\ docker[c] = "none" => ~Exists(cinfo[c])
    /\ \A p \in Procs : job[p].stage = "update" =>
          /\ Exists(job[p].read)
          /\ Exists(cinfo[job[p].c]) =>
                /\ job[p].read.version <= cinfo[job[p].c].version
                /\ job[p].read.version = cinfo[job[p].c].version =>
                      job[p].read.val = cinfo[job[p].c].val
    /\ \A p, q \in Procs : job[p].stage \in Creating /\ job[q].stage = "update" =>
          job[p].c # job[q].c
    /\ \A p \in Procs : job[p].stage \in Creating => ~Exists(cinfo[job[p].c])

\* Nothing happened yet that takes addresses away.
Sound == ~broken /\ ~unanswered

KeptIInv == SysIInv /\ DockerInv /\ InfoInv /\ (Sound => ClaimsOnce)

-----------------------------------------------------------------------------
(***************************************************************************)
(* What a step of p must show                                              *)
(***************************************************************************)

\* Outside the pool: a claim of p was one before, or is on what a container has no
\* more; what a container has it had before, or p claimed it for that container.
Flow(p) ==
    /\ \A ip \in IPs : Claims(p, ip)' =>
          \/ Claims(p, ip) /\ call[p].pc = "idle"
          \/ \E c \in Containers : Has(c, ip) /\ ~Has(c, ip)'
    /\ \A ip \in IPs, c \in Containers : Has(c, ip)' =>
          \/ Has(c, ip)
          \/ Claims(p, ip) /\ call[p].pc = "idle" /\ ~Claims(p, ip)' /\ c = job[p].c
    /\ \A ip \in IPs : AtHand(p, ip)' => ~Pending(p, ip)'
    /\ \A ip \in IPs, c \in Containers, q \in Procs :
          Left(q, c, ip)' /\ ip \in fixed'[c] => ~Listed(c, ip)'

\* dockerd creates and removes containers, and p's job fits what it did.
DockerStep(p) ==
    /\ \A c \in Containers :
          \/ docker'[c] = docker[c]
          \/ docker[c] = "none" /\ docker'[c] = "requested"
          \/ /\ docker[c] = "requested" /\ docker'[c] \in {"failed", "created"}
             /\ job[p].c = c /\ job[p].stage \in {"alloc", "dockerd"}
          \/ docker[c] \notin {"none", "requested"} /\ docker'[c] = "removed"
    /\ DockerOf(docker', job'[p])
    /\ job'[p].stage \in Creating =>
          \/ job[p].stage \in Creating /\ job'[p].c = job[p].c
          \/ docker[job'[p].c] = "none"
    /\ \A c \in Containers :
          /\ fixed'[c] \subseteq conf'[c]
          /\ docker'[c] # "created" => fixed'[c] = {}
          /\ held'[c] # {} => held[c] # {} \/ docker[c] \notin {"none", "requested"}

\* A ContainerInfo is deleted, overwritten, or written by its create handler.
InfoStep(p) ==
    /\ \A c \in Containers :
          \/ cinfo'[c] = cinfo[c]
          \/ ~Exists(cinfo'[c]) /\ cinfo'[c].val = {}
          \/ Exists(cinfo[c]) /\ Exists(cinfo'[c]) /\ cinfo[c].version < cinfo'[c].version
          \/ Exists(cinfo'[c]) /\ c = job[p].c /\ job[p].stage = "record" /\ job'[p].stage = "idle"
    /\ job'[p].stage = "update" =>
          UNCHANGED cinfo /\ Exists(job'[p].read) /\ job'[p].read = cinfo[job'[p].c]
    /\ job'[p].stage \in Creating => UNCHANGED cinfo

\* p's job becomes k, and the records stay.
Turned(p, k) == Alone(p) /\ JobAlone(p) /\ job'[p] = k /\ UNCHANGED ipinfo

Kept(p) ==
    /\ Turned(p, job'[p]) /\ DockerStep(p) /\ InfoStep(p)
    /\ Sound => Flow(p)

\* The claims of the others stay.
LEMMA OthersClaim ==
    ASSUME NEW p \in Procs, Alone(p), JobAlone(p)
    PROVE  \A q \in Procs \ {p}, ip \in IPs :
              /\ Claims(q, ip)' <=> Claims(q, ip)
              /\ AtHand(q, ip)' <=> AtHand(q, ip)
              /\ Pending(q, ip)' <=> Pending(q, ip)
              /\ \A c \in Containers : /\ Listing(q, c, ip)' <=> Listing(q, c, ip)
                                       /\ Left(q, c, ip)' <=> Left(q, c, ip)
BY DEF Alone, JobAlone, Claims, AtHand, Pending, Making, Listing, Left, Ok

\* A step outside the pool passes claims on.
LEMMA FlowKeeps ==
    ASSUME ClaimsOnce, NEW p \in Procs, Alone(p), JobAlone(p), UNCHANGED ipinfo, Flow(p)
    PROVE  ClaimsOnce'
<1>1. \A q \in Procs \ {p}, ip \in IPs :
         /\ Claims(q, ip)' <=> Claims(q, ip)
         /\ AtHand(q, ip)' <=> AtHand(q, ip)
         /\ Pending(q, ip)' <=> Pending(q, ip)
         /\ call'[q] = call[q]
  BY OthersClaim DEF Alone
<1>2. \A ip \in IPs : Recorded(ip)' <=> Recorded(ip)
  BY StoreSame DEF SameMarks
<1> SUFFICES ASSUME NEW ip \in IPs
             PROVE  /\ \A q, r \in Procs : Claims(q, ip)' /\ Claims(r, ip)' => q = r
                    /\ \A q \in Procs, c \in Containers : Claims(q, ip)' => ~Has(c, ip)'
                    /\ \A c, d \in Containers : Has(c, ip)' /\ Has(d, ip)' => c = d
                    /\ \A q \in Procs : AtHand(q, ip)' => ~Pending(q, ip)'
                    /\ \A q \in Procs : Claims(q, ip)' =>
                          Recorded(ip)' \/ (AtHand(q, ip)' /\ call'[q].pc = "free")
                    /\ \A c \in Containers : Has(c, ip)' => Recorded(ip)'
                    /\ \A q \in Procs, c \in Containers :
                          Left(q, c, ip)' /\ ip \in fixed'[c] => ~Listed(c, ip)'
  BY DEF ClaimsOnce
<1>3. /\ \A q, r \in Procs : Claims(q, ip) /\ Claims(r, ip) => q = r
      /\ \A q \in Procs, c \in Containers : Claims(q, ip) => ~Has(c, ip)
      /\ \A c, d \in Containers : Has(c, ip) /\ Has(d, ip) => c = d
      /\ \A q \in Procs : AtHand(q, ip) => ~Pending(q, ip)
      /\ \A q \in Procs : Claims(q, ip) => Recorded(ip) \/ (AtHand(q, ip) /\ call[q].pc = "free")
      /\ \A c \in Containers : Has(c, ip) => Recorded(ip)
  BY DEF ClaimsOnce
<1>4. /\ Claims(p, ip)' => \/ Claims(p, ip) /\ call[p].pc = "idle"
                           \/ \E c \in Containers : Has(c, ip) /\ ~Has(c, ip)'
      /\ \A c \in Containers : Has(c, ip)' =>
          \/ Has(c, ip)
          \/ Claims(p, ip) /\ call[p].pc = "idle" /\ ~Claims(p, ip)' /\ c = job[p].c
      /\ AtHand(p, ip)' => ~Pending(p, ip)'
      /\ \A c \in Containers, q \in Procs : Left(q, c, ip)' /\ ip \in fixed'[c] => ~Listed(c, ip)'
  BY DEF Flow
<1>5. ASSUME NEW q \in Procs, NEW r \in Procs, Claims(q, ip)', Claims(r, ip)' PROVE q = r
  BY <1>1, <1>3, <1>4, <1>5
<1>6. ASSUME NEW q \in Procs, NEW c \in Containers, Claims(q, ip)', Has(c, ip)' PROVE FALSE
  BY <1>1, <1>3, <1>4, <1>6
<1>7. ASSUME NEW c \in Containers, NEW d \in Containers, Has(c, ip)', Has(d, ip)' PROVE c = d
  BY <1>3, <1>4, <1>7
<1>8. ASSUME NEW q \in Procs, Claims(q, ip)'
      PROVE  Recorded(ip)' \/ (AtHand(q, ip)' /\ call'[q].pc = "free")
  BY <1>1, <1>2, <1>3, <1>4, <1>8
<1>9. ASSUME NEW c \in Containers, Has(c, ip)' PROVE Recorded(ip)'
  BY <1>2, <1>3, <1>4, <1>9
<1>10. ASSUME NEW q \in Procs, AtHand(q, ip)' PROVE ~Pending(q, ip)'
  BY <1>1, <1>3, <1>4, <1>10
<1> QED BY <1>4, <1>5, <1>6, <1>7, <1>8, <1>9, <1>10

\* What dockerd does keeps the jobs of all in step with it.
LEMMA DockerKeeps ==
    ASSUME SysIInv, DockerInv, NEW p \in Procs, JobAlone(p), DockerStep(p)
    PROVE  DockerInv'
<1>1. ASSUME NEW q \in Procs \ {p} PROVE DockerOf(docker', job'[q])
  <2>1. job'[q] = job[q] /\ DockerOf(docker, job[q])
    BY DEF JobAlone, DockerInv
  <2>2. job[q].victims \subseteq Containers /\ (job[q].stage # "idle" => job[q].c \in Containers)
    BY SysParts DEF GoodJob, Job
  <2>3. \A v \in job[q].victims : docker'[v] = "removed"
    BY <2>1, <2>2 DEF DockerOf, DockerStep
  <2>4. CASE job[q].stage = "idle"
    BY <2>1, <2>3, <2>4 DEF DockerOf
  <2>5. CASE job[q].stage # "idle"
    <3>1. ~(docker[job[q].c] = "requested" /\ job[p].c = job[q].c /\ job[p].stage \in {"alloc", "dockerd"})
      BY <2>1, <2>5 DEF DockerOf, DockerInv, Creating
    <3>2. \/ docker'[job[q].c] = docker[job[q].c]
          \/ docker[job[q].c] \notin {"none", "requested"} /\ docker'[job[q].c] = "removed"
      BY <2>1, <2>2, <2>5, <3>1 DEF DockerStep, DockerOf
    <3> QED BY <2>1, <2>3, <2>5, <3>2 DEF DockerOf
  <2> QED BY <2>4, <2>5
<1>2. \A q \in Procs : DockerOf(docker', job'[q])
  BY <1>1 DEF DockerStep
<1>3. ASSUME NEW q \in Procs \ {p}, job'[p].stage \in Creating, job'[q].stage \in Creating,
             job'[p].c = job'[q].c
      PROVE  FALSE
  <2>1. job'[q] = job[q] /\ DockerOf(docker, job[q])
    BY DEF JobAlone, DockerInv
  <2> QED BY <1>3, <2>1 DEF DockerStep, DockerOf, DockerInv, Creating
<1>4. ASSUME NEW q \in Procs, NEW r \in Procs, job'[q].stage \in Creating, job'[r].stage \in Creating,
             job'[q].c = job'[r].c
      PROVE  q = r
  BY <1>3, <1>4 DEF JobAlone, DockerInv
<1>5. ASSUME NEW c \in Containers, held'[c] # {} PROVE docker'[c] \notin {"none", "requested"}
  BY <1>5 DEF DockerStep, DockerInv
<1> QED BY <1>2, <1>4, <1>5 DEF DockerInv, DockerStep

\* So do the ContainerInfos.
LEMMA InfoKeeps ==
    ASSUME SysIInv, DockerInv, InfoInv, NEW p \in Procs, JobAlone(p), DockerStep(p), InfoStep(p),
           SysIInv'
    PROVE  InfoInv'
<1>1. \A q \in Procs : /\ job[q].stage # "idle" => job[q].c \in Containers
                       /\ job[q] \in Job /\ DockerOf(docker, job[q])
                       /\ q # p => job'[q] = job[q]
  BY SysParts DEF GoodJob, JobAlone, DockerInv
<1>2. \A c \in Containers : cinfo[c].version \in Nat
  BY SysParts DEF WorldOK, Slot
<1>3. ASSUME NEW c \in Containers, job[p].stage = "record", c = job[p].c
      PROVE  docker[c] # "none"
  BY <1>1, <1>3 DEF DockerOf
<1>4. ASSUME NEW c \in Containers
      PROVE  /\ ~Exists(cinfo'[c]) => cinfo'[c].val = {}
             /\ docker'[c] = "none" => ~Exists(cinfo'[c])
  BY <1>3 DEF InfoStep, InfoInv, DockerStep
<1>5. ASSUME NEW q \in Procs, job'[q].stage = "update"
      PROVE  /\ Exists(job'[q].read)
             /\ Exists(cinfo'[job'[q].c]) =>
                   /\ job'[q].read.version <= cinfo'[job'[q].c].version
                   /\ job'[q].read.version = cinfo'[job'[q].c].version =>
                         job'[q].read.val = cinfo'[job'[q].c].val
  <2>1. CASE q = p
    <3>1. UNCHANGED cinfo /\ Exists(job'[p].read) /\ job'[p].read = cinfo[job'[p].c]
      BY <1>5, <2>1 DEF InfoStep
    <3>2. job'[p].c \in Containers
      BY <1>5, <2>1 DEF SysIInv, Linked, GoodJob
    <3> QED BY <1>2, <2>1, <3>1, <3>2
  <2>2. CASE q # p
    <3> DEFINE c == job[q].c
    <3>1. job'[q] = job[q] /\ job[q].stage = "update" /\ c \in Containers
      BY <1>1, <1>5, <2>2
    <3>2. /\ Exists(job[q].read)
          /\ Exists(cinfo[c]) =>
                /\ job[q].read.version <= cinfo[c].version
                /\ job[q].read.version = cinfo[c].version => job[q].read.val = cinfo[c].val
      BY <3>1 DEF InfoInv
    <3>3. ~(job[p].stage = "record" /\ c = job[p].c)
      BY <3>1 DEF InfoInv, Creating
    <3>4. job[q].read.version \in Nat /\ cinfo[c].version \in Nat
      BY <1>1, <1>2, <3>1 DEF Job, Slot
    <3>5. \/ cinfo'[c] = cinfo[c] \/ ~Exists(cinfo'[c])
          \/ Exists(cinfo[c]) /\ Exists(cinfo'[c]) /\ cinfo[c].version < cinfo'[c].version
      BY <3>1, <3>3 DEF InfoStep
    <3>6. cinfo'[c].version \in Nat
      BY <3>1 DEF SysIInv, SysTypeOK, Slot
    <3> HIDE DEF c
    <3>7. Exists(cinfo'[c]) =>
                /\ job[q].read.version <= cinfo'[c].version
                /\ job[q].read.version = cinfo'[c].version => job[q].read.val = cinfo'[c].val
      BY <3>2, <3>4, <3>5, <3>6
    <3> QED BY <3>1, <3>2, <3>7 DEF c
  <2> QED BY <2>1, <2>2
<1>6. ASSUME NEW q \in Procs, job'[q].stage \in Creating PROVE ~Exists(cinfo'[job'[q].c])
  <2>1. job'[q].c \in Containers
    BY <1>6 DEF SysIInv, Linked, GoodJob, Creating
  <2>2. CASE q = p
    <3>1. UNCHANGED cinfo
      BY <1>6, <2>2 DEF InfoStep
    <3> QED BY <1>6, <2>1, <2>2, <3>1 DEF DockerStep, InfoInv
  <2>3. CASE q # p
    <3>1. job'[q] = job[q] /\ ~Exists(cinfo[job[q].c])
      BY <1>1, <1>6, <2>3 DEF InfoInv
    <3>2. ~(job[p].stage = "record" /\ job[q].c = job[p].c)
      BY <1>6, <2>3, <3>1 DEF DockerInv, Creating
    <3> QED BY <2>1, <3>1, <3>2 DEF InfoStep
  <2> QED BY <2>2, <2>3
<1>7. ASSUME NEW q \in Procs, NEW r \in Procs, job'[q].stage \in Creating, job'[r].stage = "update",
             job'[q].c = job'[r].c
      PROVE  FALSE
  <2>1. CASE r = p
    BY <1>6, <1>7, <2>1 DEF InfoStep
  <2>2. CASE r # p /\ q # p
    BY <1>1, <1>7, <2>2 DEF InfoInv
  <2>3. CASE r # p /\ q = p
    BY <1>1, <1>7, <2>3 DEF InfoInv, DockerStep, DockerOf
  <2> QED BY <2>1, <2>2, <2>3
<1> QED BY <1>4, <1>5, <1>6, <1>7 DEF InfoInv

\* What such a step keeps.
LEMMA KeptKeeps ==
    ASSUME KeptIInv, NEW p \in Procs, Kept(p), SysIInv', Sound' => Sound
    PROVE  KeptIInv'
<1>1. DockerInv' /\ InfoInv'
  BY DockerKeeps, InfoKeeps DEF Kept, KeptIInv, Turned
<1>2. Sound' => ClaimsOnce'
  BY FlowKeeps DEF Kept, KeptIInv, Turned
<1> QED BY <1>1, <1>2 DEF KeptIInv

-----------------------------------------------------------------------------
(***************************************************************************)
(* Steps inside the pool                                                   *)
(***************************************************************************)

\* Only the process that has locked a record deletes it.
LEMMA EffectUnrecords ==
    ASSUME NEW p \in Procs, Effect(p)
    PROVE  \A ip \in IPs : Recorded(ip) /\ ~Recorded(ip)' => Deleting(p, ip)
BY DEF Effect, Quiet, Releases, Grants, GivesFree, Marks, Unmarks, TakesFree, Writes, Erases, Frees,
       SameMarks, SameBut

\* A step that is protected has an Effect.
LEMMA PoolEffect ==
    ASSUME SysIInv, NEW p \in Procs, UNCHANGED <<world, job>>,
           Step(p) \/ CallError(p) \/ CallTimeout(p), ~Unprotected(p)
    PROVE  Effect(p)
BY GotEffect, CalicoEffect, PutEffect, UpdateEffect, DeleteEffect, ErrorEffect, TimeoutEffect
   DEF Step

\* The frame of an operation that returns, goes on, or reads again.
LEMMA NextFrame ==
    ASSUME TypeOK, NEW p \in Procs
    PROVE  /\ \A e : Return(p, e) =>
                 call'[p].pc = "idle" /\ call'[p].err = e /\ call'[p].ip = call[p].ip
           /\ \A l : Goto(p, l) => call'[p].pc = l /\ call'[p].ip = call[p].ip
           /\ \A v : ToUpdate(p, v) => call'[p].pc = "update" /\ call'[p].ip = call[p].ip
           /\ Retry(p) => /\ call'[p].pc \in {"get", "idle"} /\ call'[p].ip = call[p].ip
                          /\ call'[p].pc = "idle" => call'[p].err = "ErrMaxRetryCountExceeded"
           /\ call' = [call EXCEPT ![p].pools = Tail(@)] =>
                 call'[p].pc = call[p].pc /\ call'[p].ip = call[p].ip
<1>1. call \in [Procs -> Frame] /\ call[p] \in Frame
  BY DEF TypeOK
<1>2. ASSUME NEW e, Return(p, e)
      PROVE  call'[p].pc = "idle" /\ call'[p].err = e /\ call'[p].ip = call[p].ip
  BY <1>1, <1>2 DEF Return, IdleFrame
<1>3. ASSUME NEW l, Goto(p, l) PROVE call'[p].pc = l /\ call'[p].ip = call[p].ip
  BY <1>1, <1>3 DEF Goto, Frame
<1>4. ASSUME NEW v, ToUpdate(p, v) PROVE call'[p].pc = "update" /\ call'[p].ip = call[p].ip
  BY <1>1, <1>4 DEF ToUpdate, Frame
<1>5. ASSUME Retry(p)
      PROVE  /\ call'[p].pc \in {"get", "idle"} /\ call'[p].ip = call[p].ip
             /\ call'[p].pc = "idle" => call'[p].err = "ErrMaxRetryCountExceeded"
  <2>1. CASE Return(p, "ErrMaxRetryCountExceeded")
    BY <1>2, <2>1
  <2>2. CASE call' = [call EXCEPT ![p].pc = "get", ![p].cnt = @ + 1,
                              ![p].read = NoSlot(NewIPInfo), ![p].codec = NewIPInfo]
    BY <1>1, <2>2 DEF Frame
  <2> QED BY <1>5, <2>1, <2>2 DEF Retry
<1>6. ASSUME call' = [call EXCEPT ![p].pools = Tail(@)]
      PROVE  call'[p].pc = call[p].pc /\ call'[p].ip = call[p].ip
  BY <1>1, <1>6 DEF Frame
<1> QED BY <1>2, <1>3, <1>4, <1>5, <1>6

\* How a step moves p through its operation.
MovesOn(p) ==
    /\ call[p].pc # "idle"
    /\ call[p].pc = "delete" => call'[p].pc \in {"free", "idle"}
    /\ call[p].pc = "free" => call'[p].pc = "idle"
    /\ call'[p].pc # "idle" /\ call[p].op # "AllocFixedIPFromPools" => call'[p].ip = call[p].ip
    /\ call[p].op = "AllocFixedIPFromPools" /\ call'[p].pc = "idle" /\ call'[p].err = "nil" =>
          call[p].pc = "put" /\ call'[p].ip = call[p].ip /\ Exists(ipinfo'[call[p].ip])

\* The answer of a transaction or of a failed call.
LEMMA FailureAdvances ==
    ASSUME SysIInv, NEW p \in Procs
    PROVE  /\ \A ok, err : call[p].pc = "update" /\ AfterUpdate(p, ok, err) => MovesOn(p)
           /\ call[p].pc # "idle" /\ AfterFailure(p) => MovesOn(p)
<1>1. TypeOK /\ Prepared(p)
  BY SysParts
<1>2. ASSUME NEW ok, NEW err, call[p].pc = "update", AfterUpdate(p, ok, err)
      PROVE  MovesOn(p)
  <2>1. call[p].op # "AllocFixedIPFromPools"
    BY <1>1, <1>2 DEF Prepared
  <2>2. (\E e : Return(p, e)) \/ Goto(p, "delete") \/ Retry(p)
    BY <1>2 DEF AfterUpdate
  <2>3. call'[p].pc # "idle" => call'[p].ip = call[p].ip
    BY <1>1, <2>2, NextFrame
  <2> QED BY <1>2, <2>1, <2>3 DEF MovesOn
<1>3. ASSUME call[p].pc # "idle", AfterFailure(p)
      PROVE  MovesOn(p)
  <2>1. CASE call[p].pc = "update"
    BY <1>2, <1>3, <2>1 DEF AfterFailure
  <2>2. CASE call[p].pc = "put" /\ Goto(p, "undo")
    BY <1>1, <2>2, NextFrame DEF MovesOn
  <2>3. CASE call[p].pc = "auto" /\ call' = [call EXCEPT ![p].pools = Tail(@)]
    BY <1>1, <2>3, NextFrame DEF MovesOn
  <2>4. CASE Return(p, "ErrCall")
    BY <1>1, <1>3, <2>4, NextFrame DEF MovesOn
  <2> QED BY <1>3, <2>1, <2>2, <2>3, <2>4 DEF AfterFailure
<1> QED BY <1>2, <1>3

\* Every step of the pool's code advances.
LEMMA PoolAdvances ==
    ASSUME SysIInv, NEW p \in Procs, Step(p) \/ CallError(p) \/ CallTimeout(p)
    PROVE  MovesOn(p)
<1>1. TypeOK /\ Prepared(p) /\ (call[p].pc \notin {"idle", "auto"} => call[p].ip \in IPs)
  BY SysParts
<1>2. CASE \/ NotAllocated(p) \/ AssignFixedIP(p) \/ UnassignFixedIP(p) \/ BorrowFixedIP(p)
           \/ ReturnFixedIP(p) \/ UnallocFixedIP(p) \/ AllocFixedIP(p)
  <2>1. call[p].pc = "get"
    BY <1>2 DEF NotAllocated, AssignFixedIP, UnassignFixedIP, BorrowFixedIP, ReturnFixedIP,
                UnallocFixedIP, AllocFixedIP, Got
  <2>2. call[p].op # "AllocFixedIPFromPools"
    BY <1>1, <2>1 DEF Prepared
  <2>3. (\E e : Return(p, e)) \/ (\E v : ToUpdate(p, v)) \/ Goto(p, "alloc")
    BY <1>2 DEF NotAllocated, AssignFixedIP, UnassignFixedIP, BorrowFixedIP, ReturnFixedIP,
                UnallocFixedIP, AllocFixedIP
  <2>4. call'[p].pc # "idle" => call'[p].ip = call[p].ip
    BY <1>1, <2>3, NextFrame
  <2> QED BY <2>1, <2>2, <2>4 DEF MovesOn
<1>3. CASE AllocIP(p)
  BY <1>1, <1>3 DEF AllocIP, Prepared
<1>4. CASE AllocIPFromPools(p)
  <2>1. call[p].pc = "auto" /\ call[p].op = "AllocFixedIPFromPools"
    BY <1>1, <1>4 DEF AllocIPFromPools, Prepared
  <2>2. CASE Return(p, "ErrCalico")
    BY <1>1, <2>1, <2>2, NextFrame DEF MovesOn
  <2>3. CASE call' = [call EXCEPT ![p].pools = Tail(@)]
    BY <1>1, <2>1, <2>3, NextFrame DEF MovesOn
  <2>4. ASSUME NEW a, NEW pool,
               call' = [call EXCEPT ![p].pc = "put", ![p].ip = [PoolID |-> pool, Address |-> a]]
        PROVE  MovesOn(p)
    <3>1. call'[p].pc = "put"
      BY <1>1, <2>4 DEF TypeOK, Frame
    <3> QED BY <2>1, <3>1 DEF MovesOn
  <2> QED BY <1>4, <2>2, <2>3, <2>4 DEF AllocIPFromPools
<1>5. CASE UnallocIP(p)
  <2>1. /\ call[p].pc \in {"free", "undo"} /\ Return(p, IF call[p].pc = "free" THEN "nil" ELSE "ErrCall")
        /\ call[p].pc = "free" => call[p].op = "UnallocFixedIP"
    BY <1>1, <1>5 DEF UnallocIP, Prepared
  <2>2. call'[p].pc = "idle" /\ (call[p].pc = "undo" => call'[p].err = "ErrCall")
    BY <1>1, <2>1, NextFrame
  <2> QED BY <2>1, <2>2 DEF MovesOn
<1>6. CASE Put(p)
  <2>1. call[p].pc = "put" /\ Return(p, "nil") /\ ipinfo' = [ipinfo EXCEPT ![call[p].ip] = PutSlot(@, NewIPInfo)]
    BY <1>6 DEF Put
  <2>2. Exists(ipinfo'[call[p].ip])
    BY <1>1, <2>1 DEF TypeOK, Exists, PutSlot, Slot
  <2> QED BY <1>1, <2>1, <2>2, NextFrame DEF MovesOn
<1>7. CASE Update(p)
  BY <1>7, FailureAdvances DEF Update
<1>8. CASE Delete(p)
  <2>1. call[p].pc = "delete" /\ (Goto(p, "free") \/ Return(p, "ErrKVNotExists"))
    BY <1>8 DEF Delete
  <2>2. call[p].op = "UnallocFixedIP"
    BY <1>1, <2>1 DEF Prepared
  <2> QED BY <1>1, <2>1, <2>2, NextFrame DEF MovesOn
<1>9. CASE CallError(p) \/ CallTimeout(p)
  BY <1>9, FailureAdvances DEF CallError, CallTimeout
<1> QED BY <1>2, <1>3, <1>4, <1>5, <1>6, <1>7, <1>8, <1>9 DEF Step

\* The stages that unallocate.
LEMMA UnallocStages ==
    ASSUME SysIInv, NEW p \in Procs, call[p].pc \in {"delete", "free"}
    PROVE  job[p].stage \in {"rollback", "unalloc"}
<1>1. call[p].op = "UnallocFixedIP" /\ call[p].op = OpOf(job[p].stage)
  BY SysParts DEF Prepared, Linked
<1> QED BY <1>1 DEF OpOf

\* A step inside the pool makes no claim but on an address it has just recorded,
\* and drops the claim on one whose record it deletes.
LEMMA PoolClaims ==
    ASSUME KeptIInv, Sound, NEW p \in Procs, UNCHANGED <<world, job>>, Alone(p), MovesOn(p),
           \A ip \in IPs : Recorded(ip) /\ ~Recorded(ip)' => Deleting(p, ip)
    PROVE  ClaimsOnce'
<1>1. SysIInv /\ ClaimsOnce /\ OwnedOnce
  BY DEF KeptIInv, SysIInv, Sound
<1>2. UNCHANGED <<fixed, cinfo, job>> /\ JobAlone(p)
  BY DEF world, JobAlone
<1>3. \A q \in Procs \ {p}, ip \in IPs :
         /\ Claims(q, ip)' <=> Claims(q, ip)
         /\ AtHand(q, ip)' <=> AtHand(q, ip)
         /\ call'[q] = call[q]
  BY <1>2, OthersClaim DEF Alone
<1>4. \A ip \in IPs : /\ \A q \in Procs : Pending(q, ip)' <=> Pending(q, ip)
                      /\ \A c \in Containers : /\ Has(c, ip)' <=> Has(c, ip)
                                               /\ Listed(c, ip)' <=> Listed(c, ip)
                      /\ \A q \in Procs, c \in Containers : Left(q, c, ip)' <=> Left(q, c, ip)
  BY <1>2 DEF Pending, Has, Listed, Listing, Left
<1>5. /\ call[p].op = OpOf(job[p].stage) /\ call[p].pc # "idle"
      /\ job[p].stage \in {"rollback", "unalloc"} => call[p].op # "AllocFixedIPFromPools"
      /\ job[p].stage \in {"alloc", "netalloc"} => call[p].op = "AllocFixedIPFromPools"
  <2>1. call[p].op = OpOf(job[p].stage) /\ call[p].pc # "idle"
    BY <1>1, SysParts DEF MovesOn, Linked
  <2> QED BY <2>1 DEF OpOf
<1>6. \A ip \in IPs : AtHand(p, ip)' => AtHand(p, ip)
  BY <1>2, <1>5 DEF AtHand, MovesOn
<1>7. \A ip \in IPs : Making(p, ip)' => Making(p, ip) \/ (Owns(p, ip) /\ Recorded(ip)')
  BY <1>2, <1>5 DEF Making, MovesOn, Ok, Owns, Recorded
<1>8. \A ip \in IPs : Claims(p, ip)' => Claims(p, ip) \/ (Owns(p, ip) /\ Recorded(ip)')
  BY <1>4, <1>6, <1>7 DEF Claims
<1>9. ASSUME NEW q \in Procs, NEW ip \in IPs, AtHand(q, ip), call[q].pc \in {"delete", "free"}
      PROVE  call[q].ip = ip
  BY <1>1, <1>9, UnallocStages DEF AtHand
<1>10. ASSUME NEW ip \in IPs, Owns(p, ip)
       PROVE  /\ ~Recorded(ip)
              /\ \A q \in Procs \ {p} : ~Claims(q, ip)
              /\ \A c \in Containers : ~Has(c, ip)
  <2>1. ~Recorded(ip) /\ \A q \in Procs \ {p} : ~Owns(q, ip)
    BY <1>1, <1>10 DEF OwnedOnce, Recorded
  <2> QED BY <1>1, <1>9, <2>1 DEF ClaimsOnce, Owns
<1>11. ASSUME NEW ip \in IPs, Deleting(p, ip)
       PROVE  /\ AtHand(p, ip) /\ ~Pending(p, ip) /\ ~Making(p, ip)
              /\ \A q \in Procs \ {p} : ~Claims(q, ip)
              /\ \A c \in Containers : ~Has(c, ip)
              /\ call'[p].pc \in {"free", "idle"}
  <2>1. call[p].pc = "delete" /\ call[p].ip = ip /\ job[p].stage \in {"rollback", "unalloc"}
    BY <1>1, <1>11, UnallocStages DEF Deleting
  <2>2. AtHand(p, ip) /\ ~Making(p, ip)
    BY <2>1 DEF AtHand, Making
  <2>3. Claims(p, ip)
    BY <2>2 DEF Claims
  <2> QED BY <1>1, <2>1, <2>2, <2>3 DEF ClaimsOnce, MovesOn
<1>12. ASSUME NEW ip \in IPs, Claims(p, ip)'
       PROVE  Recorded(ip)' \/ (AtHand(p, ip)' /\ call'[p].pc = "free")
  <2>1. CASE Owns(p, ip) /\ Recorded(ip)'
    BY <2>1
  <2>2. CASE Claims(p, ip) /\ Recorded(ip)
    <3>1. CASE Deleting(p, ip)
      <4>1. ~Pending(p, ip)' /\ ~Making(p, ip)' /\ job[p].stage \in {"rollback", "unalloc"}
        BY <1>1, <1>2, <1>4, <1>11, <3>1, UnallocStages DEF Making, Deleting
      <4>2. AtHand(p, ip)'
        BY <1>12, <4>1 DEF Claims
      <4>3. call'[p].pc # "idle"
        BY <1>2, <4>1, <4>2 DEF AtHand
      <4> QED BY <1>11, <3>1, <4>2, <4>3
    <3> QED BY <2>2, <3>1
  <2>3. CASE AtHand(p, ip) /\ call[p].pc = "free"
    <3>1. call[p].ip = ip /\ job[p].stage \in {"rollback", "unalloc"} /\ call'[p].pc = "idle"
      BY <1>1, <1>9, <2>3, UnallocStages DEF MovesOn
    <3>2. ~Pending(p, ip)'
      BY <1>1, <1>4, <2>3 DEF ClaimsOnce
    <3> QED BY <1>2, <1>12, <3>1, <3>2 DEF Claims, AtHand, Making
  <2> QED BY <1>1, <1>8, <1>12, <2>1, <2>2, <2>3 DEF ClaimsOnce
<1> SUFFICES ASSUME NEW ip \in IPs
             PROVE  /\ \A q, r \in Procs : Claims(q, ip)' /\ Claims(r, ip)' => q = r
                    /\ \A q \in Procs, c \in Containers : Claims(q, ip)' => ~Has(c, ip)'
                    /\ \A c, d \in Containers : Has(c, ip)' /\ Has(d, ip)' => c = d
                    /\ \A q \in Procs : AtHand(q, ip)' => ~Pending(q, ip)'
                    /\ \A q \in Procs : Claims(q, ip)' =>
                          Recorded(ip)' \/ (AtHand(q, ip)' /\ call'[q].pc = "free")
                    /\ \A c \in Containers : Has(c, ip)' => Recorded(ip)'
                    /\ \A q \in Procs, c \in Containers :
                          Left(q, c, ip)' /\ ip \in fixed'[c] => ~Listed(c, ip)'
  BY DEF ClaimsOnce
<1>13. ASSUME NEW q \in Procs, NEW r \in Procs, Claims(q, ip)', Claims(r, ip)' PROVE q = r
  BY <1>1, <1>3, <1>8, <1>10, <1>13 DEF ClaimsOnce
<1>14. ASSUME NEW q \in Procs, NEW c \in Containers, Claims(q, ip)', Has(c, ip)' PROVE FALSE
  BY <1>1, <1>3, <1>4, <1>8, <1>10, <1>14 DEF ClaimsOnce
<1>15. ASSUME NEW q \in Procs, Claims(q, ip)'
       PROVE  Recorded(ip)' \/ (AtHand(q, ip)' /\ call'[q].pc = "free")
  BY <1>1, <1>3, <1>11, <1>12, <1>15 DEF ClaimsOnce
<1>16. ASSUME NEW c \in Containers, Has(c, ip)' PROVE Recorded(ip)'
  BY <1>1, <1>4, <1>11, <1>16 DEF ClaimsOnce
<1>17. ASSUME NEW q \in Procs, AtHand(q, ip)' PROVE ~Pending(q, ip)'
  BY <1>1, <1>3, <1>4, <1>6, <1>17 DEF ClaimsOnce
<1>18. ASSUME NEW q \in Procs, NEW c \in Containers, Left(q, c, ip)', ip \in fixed'[c]
       PROVE  ~Listed(c, ip)'
  BY <1>1, <1>2, <1>4, <1>18 DEF ClaimsOnce
<1>19. \A c, d \in Containers : Has(c, ip)' /\ Has(d, ip)' => c = d
  BY <1>1, <1>4 DEF ClaimsOnce
<1> QED BY <1>13, <1>14, <1>15, <1>16, <1>17, <1>18, <1>19

\* The invariant is kept inside the pool.
LEMMA PoolKeeps ==
    ASSUME KeptIInv, NEW p \in Procs, UNCHANGED <<world, job>>,
           Step(p) \/ CallError(p) \/ CallTimeout(p), SysIInv',
           Remembered
    PROVE  KeptIInv'
<1>1. SysIInv /\ DockerInv /\ InfoInv
  BY DEF KeptIInv
<1>2. UNCHANGED <<docker, conf, fixed, held, cinfo, job>>
  BY DEF world
<1>3. DockerInv' /\ InfoInv'
  BY <1>1, <1>2 DEF DockerInv, InfoInv, DockerOf
<1>4. ASSUME Sound' PROVE ClaimsOnce'
  <2>1. Sound /\ ~Unprotected(p)
    BY <1>1, <1>4, SysParts DEF Sound, Remembered
  <2>2. \A ip \in IPs : Recorded(ip) /\ ~Recorded(ip)' => Deleting(p, ip)
    BY <1>1, <2>1, PoolEffect, EffectUnrecords
  <2>3. Alone(p)
    BY <1>1, SysParts, OneMoves DEF Fault
  <2> QED BY <1>1, <2>1, <2>2, <2>3, PoolAdvances, PoolClaims
<1> QED BY <1>3, <1>4 DEF KeptIInv

-----------------------------------------------------------------------------
(***************************************************************************)
(* Steps outside the pool: what p's next job claims                        *)
(***************************************************************************)

\* p goes on outside the pool.
LEMMA RestTurns ==
    ASSUME SysIInv, NEW p \in Procs, NEW k, job' = [job EXCEPT ![p] = k],
           call' = [call EXCEPT ![p] = IdleFrame], UNCHANGED ipinfo
    PROVE  Turned(p, k) /\ call'[p].pc = "idle" /\ call'[p].ip = NoIP
<1>1. job \in [Procs -> Job] /\ call \in [Procs -> Frame]
  BY SysParts DEF TypeOK
<1> QED BY <1>1 DEF Turned, Alone, JobAlone, IdleFrame

\* p calls the pool.
LEMMA CallTurns ==
    ASSUME SysIInv, NEW p \in Procs, NEW k, NEW op, NEW ip, NEW c, NEW f, NEW pools,
           job' = [job EXCEPT ![p] = k], Call(p, op, ip, c, f, pools)
    PROVE  Turned(p, k) /\ call'[p].pc # "idle" /\ call'[p].ip = ip /\ call[p].pc = "idle"
<1>1. job \in [Procs -> Job] /\ call \in [Procs -> Frame] /\ TypeOK
  BY SysParts DEF TypeOK
<1>2. call'[p].ip = ip /\ call'[p].pc = IF op = "AllocFixedIPFromPools" THEN "auto" ELSE "get"
  BY <1>1, CallFrame
<1>3. Turned(p, k) /\ call[p].pc = "idle"
  BY <1>1 DEF Turned, Alone, JobAlone, Call
<1> QED BY <1>2, <1>3

\* p has not just been given an address.
Fresh(p) == call'[p].pc = "idle" => call'[p].ip = NoIP

\* What p claims is then what its job says.
LEMMA TurnClaims ==
    ASSUME NEW p \in Procs, NEW k, Turned(p, k), Fresh(p), NEW ip \in IPs
    PROVE  /\ AtHand(p, ip)' <=> \/ k.stage = "return" /\ k.ip = ip
                                 \/ /\ k.stage \in {"rollback", "unalloc"}
                                    /\ call'[p].pc # "idle" /\ call'[p].ip = ip
           /\ Pending(p, ip)' <=> k.stage \in {"rollback", "return", "unalloc"} /\ ip \in k.addrs
           /\ Making(p, ip)' <=> k.stage \in {"alloc", "dockerd", "connect"} /\ ip \in k.got
           /\ \A c \in Containers :
                 /\ Listing(p, c, ip)' <=> k.stage \in {"borrow", "record"} /\ k.c = c /\ ip \in k.got
                 /\ Left(p, c, ip)' <=> /\ k.stage \in {"get", "update"} /\ k.c = c
                                        /\ ip.PoolID \in PoolsOf(k.net)
<1>1. job'[p] = k /\ ip # NoIP
  BY NoIPAssumption DEF Turned
<1> QED BY <1>1 DEF AtHand, Pending, Making, Listing, Left, Fresh

\* What is listed was listed before.
LEMMA ListedStays ==
    ASSUME NEW p \in Procs, NEW k, Turned(p, k),
           \A c \in Containers, ip \in IPs : Listing(p, c, ip)' => Listing(p, c, ip),
           \A c \in Containers : cinfo'[c].val \subseteq cinfo[c].val
    PROVE  \A c \in Containers, ip \in IPs : Listed(c, ip)' => Listed(c, ip)
<1>1. \A q \in Procs \ {p}, c \in Containers, ip \in IPs : Listing(q, c, ip)' <=> Listing(q, c, ip)
  BY OthersClaim DEF Turned
<1> QED BY <1>1 DEF Listed

\* No container gains an address, and p's claims were its own.
LEMMA StillFlow ==
    ASSUME KeptIInv, Sound, NEW p \in Procs, NEW k, Turned(p, k),
           \A ip \in IPs : Claims(p, ip)' => Claims(p, ip) /\ call[p].pc = "idle",
           \A ip \in IPs : AtHand(p, ip)' => ~Pending(p, ip)',
           \A c \in Containers : fixed'[c] \subseteq fixed[c],
           \A c \in Containers, ip \in IPs : Listed(c, ip)' => Listed(c, ip),
           \A c \in Containers, ip \in IPs : Left(p, c, ip)' => Left(p, c, ip) \/ ip \notin fixed'[c]
    PROVE  Flow(p)
<1>1. \A q \in Procs \ {p}, c \in Containers, ip \in IPs : Left(q, c, ip)' <=> Left(q, c, ip)
  BY OthersClaim DEF Turned
<1>2. \A ip \in IPs, c \in Containers, q \in Procs :
         Left(q, c, ip)' /\ ip \in fixed'[c] => ~Listed(c, ip)'
  BY <1>1 DEF KeptIInv, ClaimsOnce
<1>3. \A ip \in IPs, c \in Containers : Has(c, ip)' => Has(c, ip)
  BY DEF Has
<1> QED BY <1>2, <1>3 DEF Flow

\* p's next job claims nothing.
Idles(k) ==
    \/ k.stage \in {"idle", "assign", "calico", "unassign", "free", "delete", "info", "disconnect"}
    \/ k.stage \in {"alloc", "netalloc", "dockerd"} /\ k.got = {}

\* No container is given an address.
Shrinks == \A c \in Containers : /\ fixed'[c] \subseteq fixed[c]
                                 /\ cinfo'[c].val \subseteq cinfo[c].val

\* A step after which p claims nothing.
LEMMA IdleKept ==
    ASSUME KeptIInv, NEW p \in Procs, NEW k, Turned(p, k), Fresh(p), Idles(k), Shrinks,
           DockerStep(p), InfoStep(p)
    PROVE  Kept(p)
<1>1. \A ip \in IPs : /\ ~Claims(p, ip)' /\ ~AtHand(p, ip)'
                      /\ \A c \in Containers : ~Listing(p, c, ip)' /\ ~Left(p, c, ip)'
  <2> SUFFICES ASSUME NEW ip \in IPs
               PROVE  /\ ~Claims(p, ip)' /\ ~AtHand(p, ip)'
                      /\ \A c \in Containers : ~Listing(p, c, ip)' /\ ~Left(p, c, ip)'
    OBVIOUS
  <2>1. /\ ~AtHand(p, ip)' /\ ~Pending(p, ip)' /\ ~Making(p, ip)'
        /\ \A c \in Containers : ~Listing(p, c, ip)' /\ ~Left(p, c, ip)'
    BY TurnClaims DEF Idles
  <2> QED BY <2>1 DEF Claims
<1>2. \A c \in Containers, ip \in IPs : Listed(c, ip)' => Listed(c, ip)
  BY <1>1, ListedStays DEF Shrinks
<1>3. Sound => Flow(p)
  BY <1>1, <1>2, StillFlow DEF Shrinks
<1> QED BY <1>3 DEF Kept, Turned

-----------------------------------------------------------------------------
(***************************************************************************)
(* Steps outside the pool: dockerd and the ContainerInfos                  *)
(***************************************************************************)

\* What is known of the job of p.
LEMMA KeptParts ==
    ASSUME KeptIInv, NEW p \in Procs
    PROVE  /\ SysIInv /\ DockerInv /\ InfoInv
           /\ job[p] \in Job /\ (job[p].stage # "idle" => job[p].c \in Containers)
           /\ DockerOf(docker, job[p])
           /\ docker \in [Containers -> {"none", "requested", "failed", "created", "removed"}]
           /\ conf \in [Containers -> SUBSET IPs] /\ fixed \in [Containers -> SUBSET IPs]
           /\ held \in [Containers -> SUBSET IPs] /\ cinfo \in [Containers -> Slot(SUBSET IPs)]
BY SysParts DEF KeptIInv, DockerInv, GoodJob, WorldOK

\* dockerd keeps its containers.
LEMMA SameDocker ==
    ASSUME KeptIInv, NEW p \in Procs, NEW k, Turned(p, k), UNCHANGED <<docker, conf, fixed>>,
           DockerOf(docker, k),
           k.stage \in Creating => job[p].stage \in Creating /\ k.c = job[p].c,
           \A c \in Containers : held'[c] # {} => held[c] # {} \/ docker[c] \notin {"none", "requested"}
    PROVE  DockerStep(p)
<1>1. DockerInv /\ job'[p] = k
  BY DEF KeptIInv, Turned
<1> QED BY <1>1 DEF DockerStep, DockerInv

\* dockerd and the ContainerInfos stay.
LEMMA SameWorld ==
    ASSUME KeptIInv, NEW p \in Procs, NEW k, Turned(p, k), UNCHANGED <<docker, conf, fixed, cinfo>>,
           DockerOf(docker, k), k.stage # "update",
           k.stage \in Creating => job[p].stage \in Creating /\ k.c = job[p].c,
           \A c \in Containers : held'[c] # {} => held[c] # {} \/ docker[c] \notin {"none", "requested"}
    PROVE  DockerStep(p) /\ InfoStep(p) /\ Shrinks
<1>1. DockerStep(p) /\ job'[p] = k
  BY SameDocker DEF Turned
<1> QED BY <1>1 DEF InfoStep, Shrinks

\* A job that ends, a job that goes on for the same container, a new one.
LEMMA DockerOfJobs ==
    ASSUME KeptIInv, NEW p \in Procs
    PROVE  /\ \A d : DockerOf(d, NoJob)
           /\ \A k : /\ job[p].stage \notin {"idle", "alloc", "dockerd"}
                     /\ k.stage \notin {"idle", "alloc", "dockerd"}
                     /\ k.c = job[p].c /\ k.victims = job[p].victims
                     /\ k.stage \in {"info", "return", "unalloc"} => docker[k.c] = "removed"
                     => DockerOf(docker, k)
           /\ \A k : /\ docker[k.c] \notin {"none", "requested"} /\ k.victims = {}
                     /\ k.stage \notin {"idle", "alloc", "dockerd", "info", "return", "unalloc"}
                     => DockerOf(docker, k)
<1>1. DockerOf(docker, job[p])
  BY KeptParts
<1>2. \A d : DockerOf(d, NoJob)
  BY DEF DockerOf, NoJob
<1> QED BY <1>1, <1>2 DEF DockerOf

\* The end of a job that leaves the containers and their records alone.
LEMMA EndKept ==
    ASSUME KeptIInv, NEW p \in Procs, EndJob(p), UNCHANGED <<ipinfo, docker, conf, fixed, cinfo>>,
           \A c \in Containers : held'[c] # {} => held[c] # {} \/ docker[c] \notin {"none", "requested"}
    PROVE  Kept(p)
<1>1. Turned(p, NoJob) /\ Fresh(p)
  BY KeptParts, RestTurns DEF EndJob, Fresh
<1>2. NoJob.stage = "idle"
  BY DEF NoJob
<1>3. DockerOf(docker, NoJob)
  BY DockerOfJobs
<1>4. DockerStep(p) /\ InfoStep(p) /\ Shrinks
  BY <1>1, <1>2, <1>3, SameWorld DEF Creating
<1> QED BY <1>1, <1>2, <1>4, IdleKept DEF Idles

\* A job that goes on with nothing to claim, in the same world.
LEMMA GoesOnKept ==
    ASSUME KeptIInv, NEW p \in Procs, NEW k, Proceed(p, k),
           UNCHANGED <<docker, conf, fixed, held, cinfo>>, DockerOf(docker, k),
           k.stage \in {"calico", "free", "delete", "info", "disconnect"}
    PROVE  Kept(p)
<1>1. Turned(p, k) /\ Fresh(p)
  BY KeptParts, RestTurns DEF Proceed, Fresh
<1>2. DockerStep(p) /\ InfoStep(p) /\ Shrinks
  BY <1>1, SameWorld DEF Creating
<1> QED BY <1>1, <1>2, IdleKept DEF Idles

\* A container is requested.
LEMMA RequestedKept ==
    ASSUME KeptIInv, NEW p \in Procs, NEW k, Turned(p, k), Fresh(p), NEW c \in Containers,
           docker[c] = "none", docker' = [docker EXCEPT ![c] = "requested"],
           UNCHANGED <<conf, fixed, held, cinfo>>, k.c = c, k.stage \in {"alloc", "dockerd"},
           k.victims = {}, k.got = {}
    PROVE  Kept(p)
<1>1. DockerInv /\ job'[p] = k /\ docker \in [Containers -> {"none", "requested", "failed", "created", "removed"}]
  BY KeptParts DEF Turned
<1>2. \A d \in Containers : docker'[d] = IF d = c THEN "requested" ELSE docker[d]
  BY <1>1
<1>3. DockerOf(docker', k)
  BY <1>2 DEF DockerOf
<1>4. DockerStep(p)
  BY <1>1, <1>2, <1>3 DEF DockerStep, DockerInv
<1>5. InfoStep(p) /\ Shrinks
  BY <1>1 DEF InfoStep, Shrinks
<1> QED BY <1>4, <1>5, IdleKept DEF Idles

\* dockerd does not create it, and the handler gives its addresses back or dies.
LEMMA FailedSteps ==
    ASSUME KeptIInv, NEW p \in Procs, NEW k, Turned(p, k),
           job[p].stage \in {"alloc", "dockerd"}, docker' = [docker EXCEPT ![job[p].c] = "failed"],
           UNCHANGED <<conf, fixed, held, cinfo>>,
           \/ k = NoJob
           \/ k.stage = "rollback" /\ k.c = job[p].c /\ k.victims = job[p].victims
    PROVE  DockerStep(p) /\ InfoStep(p) /\ Shrinks
<1>1. /\ DockerInv /\ job'[p] = k /\ job[p].c \in Containers /\ DockerOf(docker, job[p])
      /\ docker \in [Containers -> {"none", "requested", "failed", "created", "removed"}]
  BY KeptParts DEF Turned
<1>2. \A d \in Containers : docker'[d] = IF d = job[p].c THEN "failed" ELSE docker[d]
  BY <1>1
<1>3. docker[job[p].c] = "requested" /\ \A v \in job[p].victims : v \in Containers /\ docker[v] = "removed"
  BY <1>1, KeptParts DEF DockerOf, Job
<1>4. DockerOf(docker', k)
  <2>1. CASE k = NoJob
    BY <2>1, DockerOfJobs
  <2>2. CASE k.stage = "rollback" /\ k.c = job[p].c /\ k.victims = job[p].victims
    BY <1>1, <1>2, <1>3, <2>2 DEF DockerOf
  <2> QED BY <2>1, <2>2
<1>5. k.stage \notin Creating /\ k.stage # "update"
  BY DEF Creating, NoJob
<1>6. DockerStep(p)
  BY <1>1, <1>2, <1>3, <1>4, <1>5 DEF DockerStep, DockerInv
<1>7. InfoStep(p) /\ Shrinks
  BY <1>1, <1>5 DEF InfoStep, Shrinks
<1> QED BY <1>6, <1>7

\* dockerd removes containers.
LEMMA ForgetSteps ==
    ASSUME KeptIInv, NEW p \in Procs, NEW k, Turned(p, k), NEW S \in SUBSET Containers, Forget(S),
           \A c \in S : docker[c] \notin {"none", "requested"},
           DockerOf(docker', k), k.stage \notin Creating, k.stage # "update"
    PROVE  DockerStep(p) /\ InfoStep(p) /\ Shrinks
<1>1. /\ DockerInv /\ job'[p] = k
      /\ docker \in [Containers -> {"none", "requested", "failed", "created", "removed"}]
  BY KeptParts DEF Turned
<1>2. /\ \A c \in Containers : /\ docker'[c] = IF c \in S THEN "removed" ELSE docker[c]
                               /\ fixed'[c] = IF c \in S THEN {} ELSE fixed[c]
                               /\ conf'[c] = IF c \in S THEN {} ELSE conf[c]
      /\ UNCHANGED <<held, cinfo>>
  BY DEF Forget
<1>3. DockerStep(p)
  BY <1>1, <1>2 DEF DockerStep, DockerInv
<1> QED BY <1>1, <1>2, <1>3 DEF InfoStep, Shrinks

-----------------------------------------------------------------------------
(***************************************************************************)
(* The loops over addresses                                                *)
(***************************************************************************)

\* p claims nothing but addresses in S, each once, and writes no ContainerInfo.
Gives(p, S) ==
    \A ip \in IPs :
        /\ Claims(p, ip)' => ip \in S
        /\ AtHand(p, ip)' => ~Pending(p, ip)'
        /\ \A c \in Containers : ~Listing(p, c, ip)' /\ ~Left(p, c, ip)'

\* What p gives back, or goes on making, it had claimed.
LEMMA GivesKept ==
    ASSUME KeptIInv, NEW p \in Procs, NEW k, Turned(p, k), NEW S, Gives(p, S),
           \A ip \in IPs : ip \in S => Claims(p, ip), call[p].pc = "idle",
           Shrinks, DockerStep(p), InfoStep(p)
    PROVE  Kept(p)
<1>1. \A c \in Containers, ip \in IPs : Listed(c, ip)' => Listed(c, ip)
  BY ListedStays DEF Gives, Shrinks
<1>2. Sound => Flow(p)
  BY <1>1, StillFlow DEF Gives, Shrinks
<1> QED BY <1>2 DEF Kept, Turned

\* A job without a stage that claims.
LEMMA IdleGives ==
    ASSUME NEW p \in Procs, NEW k, Turned(p, k), Fresh(p), Idles(k), NEW S
    PROVE  Gives(p, S)
<1> SUFFICES ASSUME NEW ip \in IPs
             PROVE  /\ ~Claims(p, ip)' /\ ~AtHand(p, ip)'
                    /\ \A c \in Containers : ~Listing(p, c, ip)' /\ ~Left(p, c, ip)'
  BY DEF Gives
<1>1. /\ ~AtHand(p, ip)' /\ ~Pending(p, ip)' /\ ~Making(p, ip)'
      /\ \A c \in Containers : ~Listing(p, c, ip)' /\ ~Left(p, c, ip)'
  BY TurnClaims DEF Idles
<1> QED BY <1>1 DEF Claims

\* The end of a job.
LEMMA EndTurns ==
    ASSUME SysIInv, NEW p \in Procs, EndJob(p), UNCHANGED ipinfo, NEW S
    PROVE  Turned(p, NoJob) /\ Fresh(p) /\ Idles(NoJob) /\ Gives(p, S)
<1>1. Turned(p, NoJob) /\ Fresh(p) /\ Idles(NoJob)
  BY RestTurns DEF EndJob, Fresh, Idles, NoJob
<1> QED BY <1>1, IdleGives

\* UnallocFixedIP of one address after another.
LEMMA RollbackTurns ==
    ASSUME SysIInv, NEW p \in Procs, NEW j \in Job, Rollback(p, j)
    PROVE  /\ Turned(p, job'[p]) /\ Gives(p, j.addrs)
           /\ \/ job'[p] = NoJob
              \/ job'[p].stage = "rollback" /\ job'[p].c = j.c /\ job'[p].victims = j.victims
<1>1. CASE j.addrs = {}
  <2>1. Turned(p, NoJob) /\ Gives(p, j.addrs)
    BY <1>1, EndTurns DEF Rollback, Finish
  <2> QED BY <2>1 DEF Turned
<1>2. CASE j.addrs # {}
  <2>1. PICK ip \in j.addrs :
           Invoke(p, [j EXCEPT !.stage = "rollback", !.addrs = @ \ {ip}], "UnallocFixedIP", ip)
    BY <1>2 DEF Rollback
  <2> DEFINE k == [j EXCEPT !.stage = "rollback", !.addrs = @ \ {ip}]
  <2>2. k.stage = "rollback" /\ k.c = j.c /\ k.victims = j.victims /\ k.addrs = j.addrs \ {ip}
    BY DEF Job
  <2>3. Invoke(p, k, "UnallocFixedIP", ip)
    BY <2>1
  <2> HIDE DEF k
  <2>4. Turned(p, k) /\ call'[p].pc # "idle" /\ call'[p].ip = ip
    BY <2>3, CallTurns DEF Invoke
  <2>5. Gives(p, j.addrs)
    <3> SUFFICES ASSUME NEW jp \in IPs
                 PROVE  /\ Claims(p, jp)' => jp \in j.addrs
                        /\ AtHand(p, jp)' => ~Pending(p, jp)'
                        /\ \A c \in Containers : ~Listing(p, c, jp)' /\ ~Left(p, c, jp)'
      BY DEF Gives
    <3>1. /\ AtHand(p, jp)' <=> jp = ip
          /\ Pending(p, jp)' <=> jp \in j.addrs \ {ip}
          /\ ~Making(p, jp)'
          /\ \A c \in Containers : ~Listing(p, c, jp)' /\ ~Left(p, c, jp)'
      BY <2>2, <2>4, TurnClaims DEF Fresh
    <3> QED BY <3>1 DEF Claims
  <2> QED BY <2>2, <2>4, <2>5 DEF Turned
<1> QED BY <1>1, <1>2

\* One victim of a prune after another.
LEMMA VictimTurns ==
    ASSUME SysIInv, NEW p \in Procs, NEW vs \in SUBSET Containers, NEW S,
           \/ Finish(p)
           \/ \E c \in vs : Proceed(p, [NoJob EXCEPT !.c = c, !.stage = "info", !.victims = vs \ {c}])
    PROVE  /\ Turned(p, job'[p]) /\ Fresh(p) /\ Idles(job'[p]) /\ Gives(p, S)
           /\ \/ job'[p] = NoJob
              \/ job'[p].stage = "info" /\ job'[p].c \in vs /\ job'[p].victims \subseteq vs
<1>1. CASE Finish(p)
  <2>1. Turned(p, NoJob) /\ Fresh(p) /\ Idles(NoJob) /\ Gives(p, S)
    BY <1>1, EndTurns DEF Finish
  <2> QED BY <2>1 DEF Turned
<1>2. ASSUME NEW c \in vs, Proceed(p, [NoJob EXCEPT !.c = c, !.stage = "info", !.victims = vs \ {c}])
      PROVE  /\ Turned(p, job'[p]) /\ Fresh(p) /\ Idles(job'[p]) /\ Gives(p, S)
             /\ job'[p].stage = "info" /\ job'[p].c \in vs /\ job'[p].victims \subseteq vs
  <2> DEFINE k == [NoJob EXCEPT !.c = c, !.stage = "info", !.victims = vs \ {c}]
  <2>1. k.stage = "info" /\ k.c = c /\ k.victims = vs \ {c}
    BY DEF NoJob
  <2>2. Proceed(p, k)
    BY <1>2
  <2> HIDE DEF k
  <2>3. Turned(p, k) /\ Fresh(p) /\ Idles(k)
    BY <2>1, <2>2, RestTurns DEF Proceed, Fresh, Idles
  <2> QED BY <2>1, <2>3, IdleGives DEF Turned
<1> QED BY <1>1, <1>2

\* ReturnFixedIP of one address after another.
LEMMA ReturnTurns ==
    ASSUME SysIInv, NEW p \in Procs, NEW j \in Job, ReturnNext(p, j)
    PROVE  /\ Turned(p, job'[p]) /\ Gives(p, j.addrs)
           /\ \/ job'[p] = NoJob
              \/ job'[p].stage = "info" /\ job'[p].c \in j.victims /\ job'[p].victims \subseteq j.victims
              \/ job'[p].stage = "return" /\ job'[p].c = j.c /\ job'[p].victims = j.victims
<1>1. CASE j.addrs = {}
  <2>1. j.victims \in SUBSET Containers
    BY DEF Job
  <2> QED BY <1>1, <2>1, VictimTurns DEF ReturnNext, NextVictim
<1>2. CASE j.addrs # {}
  <2>1. PICK ip \in j.addrs :
           Invoke(p, [j EXCEPT !.stage = "return", !.addrs = @ \ {ip}, !.ip = ip],
                  "ReturnFixedIP", ip)
    BY <1>2 DEF ReturnNext
  <2> DEFINE k == [j EXCEPT !.stage = "return", !.addrs = @ \ {ip}, !.ip = ip]
  <2>2. /\ k.stage = "return" /\ k.c = j.c /\ k.victims = j.victims /\ k.addrs = j.addrs \ {ip}
        /\ k.ip = ip
    BY DEF Job
  <2>3. Invoke(p, k, "ReturnFixedIP", ip)
    BY <2>1
  <2> HIDE DEF k
  <2>4. Turned(p, k) /\ call'[p].pc # "idle" /\ call'[p].ip = ip
    BY <2>3, CallTurns DEF Invoke
  <2>5. Gives(p, j.addrs)
    <3> SUFFICES ASSUME NEW jp \in IPs
                 PROVE  /\ Claims(p, jp)' => jp \in j.addrs
                        /\ AtHand(p, jp)' => ~Pending(p, jp)'
                        /\ \A c \in Containers : ~Listing(p, c, jp)' /\ ~Left(p, c, jp)'
      BY DEF Gives
    <3>1. /\ AtHand(p, jp)' <=> jp = ip
          /\ Pending(p, jp)' <=> jp \in j.addrs \ {ip}
          /\ ~Making(p, jp)'
          /\ \A c \in Containers : ~Listing(p, c, jp)' /\ ~Left(p, c, jp)'
      BY <2>2, <2>4, TurnClaims DEF Fresh
    <3> QED BY <3>1 DEF Claims
  <2> QED BY <2>2, <2>4, <2>5 DEF Turned
<1> QED BY <1>1, <1>2

\* BorrowFixedIP of one address after another.
LEMMA BorrowTurns ==
    ASSUME SysIInv, NEW p \in Procs, NEW j \in Job, BorrowNext(p, j)
    PROVE  /\ Turned(p, job'[p]) /\ Fresh(p)
           /\ job'[p].stage \in {"borrow", "record"} /\ job'[p].c = j.c
           /\ job'[p].got = j.got /\ job'[p].victims = j.victims
<1>1. CASE j.addrs = {}
  <2> DEFINE k == [j EXCEPT !.stage = "record"]
  <2>1. k.stage = "record" /\ k.c = j.c /\ k.victims = j.victims /\ k.got = j.got
    BY DEF Job
  <2>2. Proceed(p, k)
    BY <1>1 DEF BorrowNext
  <2> HIDE DEF k
  <2>3. Turned(p, k) /\ Fresh(p)
    BY <2>2, RestTurns DEF Proceed, Fresh
  <2> QED BY <2>1, <2>3 DEF Turned
<1>2. CASE j.addrs # {}
  <2>1. PICK ip \in j.addrs :
           Invoke(p, [j EXCEPT !.stage = "borrow", !.addrs = @ \ {ip}], "BorrowFixedIP", ip)
    BY <1>2 DEF BorrowNext
  <2> DEFINE k == [j EXCEPT !.stage = "borrow", !.addrs = @ \ {ip}]
  <2>2. k.stage = "borrow" /\ k.c = j.c /\ k.victims = j.victims /\ k.got = j.got
    BY DEF Job
  <2>3. Invoke(p, k, "BorrowFixedIP", ip)
    BY <2>1
  <2> HIDE DEF k
  <2>4. Turned(p, k) /\ Fresh(p)
    BY <2>3, CallTurns DEF Invoke, Fresh
  <2> QED BY <2>2, <2>4 DEF Turned
<1> QED BY <1>1, <1>2

\* A borrowing job claims nothing: its addresses belong to its container.
LEMMA BorrowClaims ==
    ASSUME NEW p \in Procs, Turned(p, job'[p]), Fresh(p), job'[p].stage \in {"borrow", "record"}
    PROVE  \A ip \in IPs :
              /\ ~Claims(p, ip)' /\ ~AtHand(p, ip)'
              /\ \A c \in Containers : /\ Listing(p, c, ip)' <=> job'[p].c = c /\ ip \in job'[p].got
                                       /\ ~Left(p, c, ip)'
<1> SUFFICES ASSUME NEW ip \in IPs
             PROVE  /\ ~Claims(p, ip)' /\ ~AtHand(p, ip)'
                    /\ \A c \in Containers : /\ Listing(p, c, ip)' <=> job'[p].c = c /\ ip \in job'[p].got
                                             /\ ~Left(p, c, ip)'
  OBVIOUS
<1> DEFINE k == job'[p]
<1>1. Turned(p, k) /\ k.stage \in {"borrow", "record"}
  OBVIOUS
<1> HIDE DEF k
<1>2. /\ ~AtHand(p, ip)' /\ ~Pending(p, ip)' /\ ~Making(p, ip)'
      /\ \A c \in Containers : /\ Listing(p, c, ip)' <=> k.c = c /\ ip \in k.got
                               /\ ~Left(p, c, ip)'
  BY <1>1, TurnClaims
<1> QED BY <1>2 DEF Claims, k

-----------------------------------------------------------------------------
(***************************************************************************)
(* The handlers                                                            *)
(***************************************************************************)

\* Requests of clients and of dockerd, except prune.
LEMMA RequestKept ==
    ASSUME KeptIInv, NEW p \in Procs, NEW c \in Containers,
           \/ CreateFixed(p, c) \/ (\E ip \in Specified \cup {NoIP} : CreatePlain(p, c, ip))
           \/ RequestAddress(p, c) \/ ReleaseAddress(p, c) \/ Remove(p, c)
           \/ NetworkConnect(p, c) \/ NetworkDisconnect(p, c)
    PROVE  Kept(p)
<1>0. SysIInv /\ DockerInv
  BY KeptParts
<1>1. CASE CreateFixed(p, c)
  <2> DEFINE k == [[NoJob EXCEPT !.c = c] EXCEPT !.stage = "alloc"]
  <2>1. k.c = c /\ k.stage = "alloc" /\ k.victims = {} /\ k.got = {}
    BY DEF NoJob
  <2>2. job' = [job EXCEPT ![p] = k] /\ \E ps : Call(p, "AllocFixedIPFromPools", NoIP, NoContainer, FALSE, ps)
    BY <1>1 DEF CreateFixed, AllocNext
  <2> HIDE DEF k
  <2>3. Turned(p, k) /\ Fresh(p)
    BY <1>0, <2>2, CallTurns DEF Fresh
  <2> QED BY <1>1, <2>1, <2>3, RequestedKept DEF CreateFixed
<1>2. CASE \E ip \in Specified \cup {NoIP} : CreatePlain(p, c, ip)
  <2>1. PICK ip \in Specified \cup {NoIP} : CreatePlain(p, c, ip)
    BY <1>2
  <2> DEFINE k == [NoJob EXCEPT !.c = c, !.stage = "dockerd", !.ip = ip]
  <2>2. k.c = c /\ k.stage = "dockerd" /\ k.victims = {} /\ k.got = {}
    BY DEF NoJob
  <2>3. Proceed(p, k)
    BY <2>1 DEF CreatePlain
  <2> HIDE DEF k
  <2>4. Turned(p, k) /\ Fresh(p)
    BY <1>0, <2>3, RestTurns DEF Proceed, Fresh
  <2> QED BY <2>1, <2>2, <2>4, RequestedKept DEF CreatePlain
<1>3. ASSUME NEW k, Turned(p, k), Fresh(p), k.c = c, k.victims = {}, k.got = {},
             k.stage \in {"assign", "unassign", "calico", "delete", "disconnect", "netalloc"},
             docker[c] \notin {"none", "requested"}, UNCHANGED <<docker, conf, fixed, cinfo>>,
             \A d \in Containers : held'[d] # {} => held[d] # {}
      PROVE  Kept(p)
  <2>1. DockerOf(docker, k)
    BY <1>3, DockerOfJobs
  <2>2. DockerStep(p) /\ InfoStep(p) /\ Shrinks
    BY <1>3, <2>1, SameWorld DEF Creating
  <2> QED BY <1>3, <2>2, IdleKept DEF Idles
<1>4. CASE RequestAddress(p, c)
  <2>1. /\ docker[c] = "created" /\ UNCHANGED <<docker, conf, fixed, held, cinfo>>
        /\ \/ \E ip \in conf[c] :
                 Invoke(p, [NoJob EXCEPT !.c = c, !.stage = "assign", !.ip = ip], "AssignFixedIP", ip)
           \/ Proceed(p, [NoJob EXCEPT !.c = c, !.stage = "calico"])
    BY <1>4 DEF RequestAddress
  <2>2. ASSUME NEW ip, Invoke(p, [NoJob EXCEPT !.c = c, !.stage = "assign", !.ip = ip], "AssignFixedIP", ip)
        PROVE  Kept(p)
    <3> DEFINE k == [NoJob EXCEPT !.c = c, !.stage = "assign", !.ip = ip]
    <3>1. k.c = c /\ k.stage = "assign" /\ k.victims = {} /\ k.got = {} /\ Invoke(p, k, "AssignFixedIP", ip)
      BY <2>2 DEF NoJob
    <3> HIDE DEF k
    <3>2. Turned(p, k) /\ Fresh(p)
      BY <1>0, <3>1, CallTurns DEF Invoke, Fresh
    <3> QED BY <1>3, <2>1, <3>1, <3>2
  <2>3. ASSUME Proceed(p, [NoJob EXCEPT !.c = c, !.stage = "calico"])
        PROVE  Kept(p)
    <3> DEFINE k == [NoJob EXCEPT !.c = c, !.stage = "calico"]
    <3>1. k.c = c /\ k.stage = "calico" /\ k.victims = {} /\ k.got = {} /\ Proceed(p, k)
      BY <2>3 DEF NoJob
    <3> HIDE DEF k
    <3>2. Turned(p, k) /\ Fresh(p)
      BY <1>0, <3>1, RestTurns DEF Proceed, Fresh
    <3> QED BY <1>3, <2>1, <3>1, <3>2
  <2> QED BY <2>1, <2>2, <2>3
<1>5. CASE ReleaseAddress(p, c)
  <2>1. PICK ip \in held[c] :
          /\ held' = [held EXCEPT ![c] = @ \ {ip}]
          /\ Invoke(p, [NoJob EXCEPT !.c = c, !.stage = "unassign", !.ip = ip],
                    "UnassignFixedIP", ip)
    BY <1>5 DEF ReleaseAddress
  <2> DEFINE k == [NoJob EXCEPT !.c = c, !.stage = "unassign", !.ip = ip]
  <2>2. k.c = c /\ k.stage = "unassign" /\ k.victims = {} /\ k.got = {} /\ Invoke(p, k, "UnassignFixedIP", ip)
    BY <2>1 DEF NoJob
  <2> HIDE DEF k
  <2>3. Turned(p, k) /\ Fresh(p)
    BY <1>0, <2>2, CallTurns DEF Invoke, Fresh
  <2>4. docker[c] \notin {"none", "requested"}
    BY <1>0, <2>1 DEF DockerInv
  <2>5. \A d \in Containers : held'[d] # {} => held[d] # {}
    BY <2>1, KeptParts
  <2> QED BY <1>3, <1>5, <2>2, <2>3, <2>4, <2>5 DEF ReleaseAddress
<1>6. CASE Remove(p, c)
  <2> DEFINE k == [NoJob EXCEPT !.c = c, !.stage = "delete"]
  <2>1. k.c = c /\ k.stage = "delete" /\ k.victims = {} /\ k.got = {} /\ Proceed(p, k)
    BY <1>6 DEF NoJob, Remove
  <2> HIDE DEF k
  <2>2. Turned(p, k) /\ Fresh(p)
    BY <1>0, <2>1, RestTurns DEF Proceed, Fresh
  <2> QED BY <1>3, <1>6, <2>1, <2>2 DEF Remove, world
<1>7. CASE NetworkConnect(p, c)
  <2>1. PICK i \in DOMAIN Networks :
           /\ job' = [job EXCEPT ![p] = [NoJob EXCEPT !.c = c, !.stage = "netalloc", !.net = i]]
           /\ Call(p, "AllocFixedIPFromPools", NoIP, NoContainer, FALSE, Networks[i])
    BY <1>7 DEF NetworkConnect
  <2> DEFINE k == [NoJob EXCEPT !.c = c, !.stage = "netalloc", !.net = i]
  <2>2. k.c = c /\ k.stage = "netalloc" /\ k.victims = {} /\ k.got = {} /\ job' = [job EXCEPT ![p] = k]
    BY <2>1 DEF NoJob
  <2> HIDE DEF k
  <2>3. Turned(p, k) /\ Fresh(p)
    BY <1>0, <2>1, <2>2, CallTurns DEF Fresh
  <2> QED BY <1>3, <1>7, <2>2, <2>3 DEF NetworkConnect
<1>8. CASE NetworkDisconnect(p, c)
  <2>1. PICK i \in DOMAIN Networks :
           Proceed(p, [NoJob EXCEPT !.c = c, !.stage = "disconnect", !.net = i])
    BY <1>8 DEF NetworkDisconnect
  <2> DEFINE k == [NoJob EXCEPT !.c = c, !.stage = "disconnect", !.net = i]
  <2>2. k.c = c /\ k.stage = "disconnect" /\ k.victims = {} /\ k.got = {} /\ Proceed(p, k)
    BY <2>1 DEF NoJob
  <2> HIDE DEF k
  <2>3. Turned(p, k) /\ Fresh(p)
    BY <1>0, <2>2, RestTurns DEF Proceed, Fresh
  <2> QED BY <1>3, <1>8, <2>2, <2>3 DEF NetworkDisconnect
<1> QED BY <1>1, <1>2, <1>4, <1>5, <1>6, <1>7, <1>8

\* The addresses a create has allocated, it claims until dockerd answers.
LEMMA AllocClaims ==
    ASSUME NEW p \in Procs, job[p].stage \in {"alloc", "dockerd", "connect"}
    PROVE  \A ip \in IPs : ip \in job[p].got => Claims(p, ip)
BY DEF Claims, Making

\* containerCreateHandler up to dockerd's answer.
LEMMA AllocatedKept ==
    ASSUME KeptIInv, NEW p \in Procs, Allocated(p)
    PROVE  Kept(p)
<1>1. /\ At(p, "alloc") /\ SysIInv /\ job[p] \in Job /\ job[p].stage = "alloc" /\ call[p].pc = "idle"
      /\ UNCHANGED <<conf, fixed, held, cinfo>> /\ DockerOf(docker, job[p])
  BY KeptParts DEF Allocated, At
<1> DEFINE j == [job[p] EXCEPT !.got = @ \cup {call[p].ip}, !.net = @ + 1]
           r == [job[p] EXCEPT !.addrs = job[p].got]
<1>2. /\ j.c = job[p].c /\ j.victims = job[p].victims /\ j.got = job[p].got \cup {call[p].ip}
      /\ r \in Job /\ r.c = job[p].c /\ r.victims = job[p].victims /\ r.addrs = job[p].got
  BY <1>1 DEF Job
<1>3. CASE ~Ok(p)
  <2>1. docker' = [docker EXCEPT ![job[p].c] = "failed"] /\ Rollback(p, r)
    BY <1>2, <1>3 DEF Allocated
  <2> HIDE DEF r, j
  <2>2. /\ Turned(p, job'[p]) /\ Gives(p, job[p].got)
        /\ \/ job'[p] = NoJob
           \/ job'[p].stage = "rollback" /\ job'[p].c = job[p].c /\ job'[p].victims = job[p].victims
    BY <1>1, <1>2, <2>1, RollbackTurns
  <2>3. DockerStep(p) /\ InfoStep(p) /\ Shrinks
    BY <1>1, <2>1, <2>2, FailedSteps
  <2> QED BY <1>1, <2>2, <2>3, AllocClaims, GivesKept
<1>4. ASSUME Ok(p), NEW k, k.stage \in {"alloc", "dockerd"}, k.c = j.c, k.victims = j.victims,
             k.got = j.got, Turned(p, k), Fresh(p), UNCHANGED docker
      PROVE  Kept(p)
  <2> HIDE DEF r, j
  <2>1. DockerOf(docker, k)
    BY <1>1, <1>2, <1>4 DEF DockerOf
  <2>2. DockerStep(p) /\ InfoStep(p) /\ Shrinks
    BY <1>1, <1>2, <1>4, <2>1, SameWorld DEF Creating
  <2>3. \A ip \in IPs : ip \in j.got => Claims(p, ip)
    BY <1>1, <1>2, <1>4 DEF Claims, Making
  <2>4. Gives(p, j.got)
    <3> SUFFICES ASSUME NEW ip \in IPs
                 PROVE  /\ Claims(p, ip)' => ip \in j.got
                        /\ ~AtHand(p, ip)'
                        /\ \A c \in Containers : ~Listing(p, c, ip)' /\ ~Left(p, c, ip)'
      BY DEF Gives
    <3>1. /\ ~AtHand(p, ip)' /\ ~Pending(p, ip)' /\ (Making(p, ip)' => ip \in j.got)
          /\ \A c \in Containers : ~Listing(p, c, ip)' /\ ~Left(p, c, ip)'
      BY <1>4, TurnClaims
    <3> QED BY <3>1 DEF Claims
  <2> QED BY <1>1, <1>4, <2>2, <2>3, <2>4, GivesKept
<1>5. CASE Ok(p) /\ AllocNext(p, j) /\ UNCHANGED docker
  <2> DEFINE k == [j EXCEPT !.stage = "alloc"]
  <2>1. k.stage = "alloc" /\ k.c = j.c /\ k.victims = j.victims /\ k.got = j.got
    BY <1>1 DEF Job
  <2> HIDE DEF j
  <2>2. job' = [job EXCEPT ![p] = k] /\ \E ps : Call(p, "AllocFixedIPFromPools", NoIP, NoContainer, FALSE, ps)
    BY <1>5 DEF AllocNext
  <2> HIDE DEF k
  <2>3. Turned(p, k) /\ Fresh(p)
    BY <1>1, <2>2, CallTurns DEF Fresh
  <2> QED BY <1>4, <1>5, <2>1, <2>3
<1>6. CASE Ok(p) /\ Proceed(p, [j EXCEPT !.stage = "dockerd"]) /\ UNCHANGED docker
  <2> DEFINE k == [j EXCEPT !.stage = "dockerd"]
  <2>1. k.stage = "dockerd" /\ k.c = j.c /\ k.victims = j.victims /\ k.got = j.got
    BY <1>1 DEF Job
  <2>2. Proceed(p, k)
    BY <1>6
  <2> HIDE DEF j, k
  <2>3. Turned(p, k) /\ Fresh(p)
    BY <1>1, <2>2, RestTurns DEF Proceed, Fresh
  <2> QED BY <1>4, <1>6, <2>1, <2>3
<1>7. \/ ~Ok(p)
      \/ Ok(p) /\ AllocNext(p, j) /\ UNCHANGED docker
      \/ Ok(p) /\ Proceed(p, [j EXCEPT !.stage = "dockerd"]) /\ UNCHANGED docker
  BY DEF Allocated
<1> HIDE DEF j, r
<1> QED BY <1>3, <1>5, <1>6, <1>7

\* Addresses given back without being returned first.
LEMMA RollbackKept ==
    ASSUME KeptIInv, NEW p \in Procs, RolledBack(p) \/ CreateRefused(p)
    PROVE  Kept(p)
<1>1. SysIInv /\ job[p] \in Job /\ DockerOf(docker, job[p])
  BY KeptParts
<1>2. CASE RolledBack(p)
  <2>1. job[p].stage = "rollback" /\ call[p].pc = "idle" /\ Rollback(p, job[p]) /\ UNCHANGED world
    BY <1>2 DEF RolledBack, At
  <2>2. /\ Turned(p, job'[p]) /\ Gives(p, job[p].addrs)
        /\ \/ job'[p] = NoJob
           \/ job'[p].stage = "rollback" /\ job'[p].c = job[p].c /\ job'[p].victims = job[p].victims
    BY <1>1, <2>1, RollbackTurns
  <2>3. DockerOf(docker, job'[p]) /\ job'[p].stage \in {"idle", "rollback"}
    BY <2>1, <2>2, DockerOfJobs DEF NoJob
  <2>4. DockerStep(p) /\ InfoStep(p) /\ Shrinks
    BY <2>1, <2>2, <2>3, SameWorld DEF Creating, world
  <2>5. \A ip \in IPs : ip \in job[p].addrs => Claims(p, ip)
    BY <2>1 DEF Claims, Pending
  <2> QED BY <2>1, <2>2, <2>4, <2>5, GivesKept
<1>3. CASE CreateRefused(p)
  <2> DEFINE r == [job[p] EXCEPT !.addrs = job[p].got]
  <2>1. /\ job[p].stage = "dockerd" /\ call[p].pc = "idle"
        /\ docker' = [docker EXCEPT ![job[p].c] = "failed"] /\ Rollback(p, r)
        /\ UNCHANGED <<conf, fixed, held, cinfo>>
    BY <1>3 DEF CreateRefused, At
  <2>2. r \in Job /\ r.c = job[p].c /\ r.victims = job[p].victims /\ r.addrs = job[p].got
    BY <1>1 DEF Job
  <2> HIDE DEF r
  <2>3. /\ Turned(p, job'[p]) /\ Gives(p, job[p].got)
        /\ \/ job'[p] = NoJob
           \/ job'[p].stage = "rollback" /\ job'[p].c = job[p].c /\ job'[p].victims = job[p].victims
    BY <1>1, <2>1, <2>2, RollbackTurns
  <2>4. DockerStep(p) /\ InfoStep(p) /\ Shrinks
    BY <2>1, <2>3, FailedSteps
  <2> QED BY <2>1, <2>3, <2>4, AllocClaims, GivesKept
<1> QED BY <1>2, <1>3

\* dockerd creates the container: what the handler had claimed is the container's.
LEMMA CreatedKept ==
    ASSUME KeptIInv, NEW p \in Procs, job[p].stage = "dockerd", call[p].pc = "idle",
           Created(job[p]), UNCHANGED <<held, cinfo>>, Turned(p, job'[p]), Fresh(p),
           \/ job'[p] = NoJob
           \/ /\ job'[p].stage \in {"borrow", "record"} /\ job'[p].c = job[p].c
              /\ job'[p].got = job[p].got /\ job'[p].victims = job[p].victims
    PROVE  Kept(p)
<1> DEFINE c == job[p].c
<1>1. /\ DockerInv /\ job[p] \in Job /\ c \in Containers /\ DockerOf(docker, job[p])
      /\ docker \in [Containers -> {"none", "requested", "failed", "created", "removed"}]
      /\ conf \in [Containers -> SUBSET IPs] /\ fixed \in [Containers -> SUBSET IPs]
  BY KeptParts
<1>2. \A d \in Containers : /\ docker'[d] = IF d = c THEN "created" ELSE docker[d]
                            /\ fixed'[d] = IF d = c THEN job[p].got ELSE fixed[d]
                            /\ conf'[d] = IF d = c THEN Wanted(job[p]) ELSE conf[d]
  BY <1>1 DEF Created
<1>3. docker[c] = "requested" /\ \A v \in job[p].victims : v \in Containers /\ docker[v] = "removed"
  BY <1>1 DEF DockerOf, Job
<1>4. job[p].got \subseteq Wanted(job[p])
  BY DEF Wanted
<1>5. DockerOf(docker', job'[p])
  <2>1. CASE job'[p] = NoJob
    BY <2>1, DockerOfJobs
  <2>2. CASE job'[p].stage \in {"borrow", "record"} /\ job'[p].c = c /\ job'[p].victims = job[p].victims
    BY <1>1, <1>2, <1>3, <2>2 DEF DockerOf
  <2> QED BY <2>1, <2>2
<1>6. DockerStep(p)
  <2>1. job'[p].stage \in Creating => job[p].stage \in Creating /\ job'[p].c = job[p].c
    BY DEF Creating, NoJob
  <2>2. \A d \in Containers : /\ fixed'[d] \subseteq conf'[d]
                              /\ docker'[d] # "created" => fixed'[d] = {}
    BY <1>1, <1>2, <1>4 DEF DockerInv
  <2> QED BY <1>2, <1>3, <1>5, <2>1, <2>2 DEF DockerStep
<1>7. InfoStep(p)
  BY DEF InfoStep, NoJob
<1>8. \A ip \in IPs :
         /\ ~Claims(p, ip)' /\ ~AtHand(p, ip)'
         /\ \A d \in Containers : /\ Listing(p, d, ip)' => d = c /\ ip \in job[p].got
                                  /\ ~Left(p, d, ip)'
  <2>1. CASE job'[p] = NoJob
    <3>1. Idles(job'[p])
      BY <2>1 DEF Idles, NoJob
    <3>2. Gives(p, {})
      BY <3>1, IdleGives
    <3>3. job'[p].stage = "idle"
      BY <2>1 DEF NoJob
    <3> QED BY <3>2, <3>3 DEF Gives, AtHand
  <2>2. CASE job'[p].stage \in {"borrow", "record"}
    BY <2>2, BorrowClaims DEF NoJob
  <2> QED BY <2>1, <2>2
<1>9. \A q \in Procs \ {p}, d \in Containers, ip \in IPs :
         /\ Listing(q, d, ip)' <=> Listing(q, d, ip)
         /\ Left(q, d, ip)' <=> Left(q, d, ip)
  BY OthersClaim DEF Turned
<1>10. \A d \in Containers, ip \in IPs : Listed(d, ip)' =>
          Listed(d, ip) \/ (d = c /\ ip \in job[p].got)
  BY <1>8, <1>9 DEF Listed
<1>11. ASSUME Sound PROVE Flow(p)
  <2>1. \A ip \in IPs : ip \in job[p].got => Claims(p, ip)
    BY AllocClaims
  <2>2. \A ip \in IPs, d \in Containers : Has(d, ip)' => Has(d, ip) \/ (Claims(p, ip) /\ d = c)
    BY <1>2, <1>10, <2>1 DEF Has
  <2>3. ASSUME NEW q \in Procs, NEW d \in Containers, NEW ip \in IPs, Left(q, d, ip)' PROVE d # c
    <3>1. q # p /\ Left(q, d, ip) /\ DockerOf(docker, job[q])
      BY <1>1, <1>8, <1>9, <2>3 DEF DockerInv
    <3> QED BY <1>3, <3>1 DEF Left, DockerOf
  <2>4. ASSUME NEW ip \in IPs, NEW d \in Containers, NEW q \in Procs,
               Left(q, d, ip)', ip \in fixed'[d], Listed(d, ip)'
        PROVE  FALSE
    <3>1. d # c /\ q # p /\ Left(q, d, ip) /\ ip \in fixed[d]
      BY <1>2, <1>8, <1>9, <2>3, <2>4
    <3>2. Listed(d, ip)
      BY <1>10, <2>4, <3>1
    <3> QED BY <1>11, <3>1, <3>2 DEF KeptIInv, ClaimsOnce
  <2> QED BY <1>8, <2>2, <2>4 DEF Flow
<1> QED BY <1>6, <1>7, <1>11 DEF Kept

\* dockerd's answer to a create, and what follows it.
LEMMA AnswerKept ==
    ASSUME KeptIInv, NEW p \in Procs,
           CreateAccepted(p) \/ CreateUnanswered(p) \/ Borrowed(p) \/ RecordInfo(p)
    PROVE  Kept(p)
<1>1. /\ SysIInv /\ job[p] \in Job /\ DockerOf(docker, job[p])
      /\ cinfo \in [Containers -> Slot(SUBSET IPs)]
  BY KeptParts
<1>2. CASE CreateAccepted(p)
  <2> DEFINE r == [job[p] EXCEPT !.addrs = job[p].got]
  <2>1. /\ job[p].stage = "dockerd" /\ call[p].pc = "idle" /\ Created(job[p])
        /\ BorrowNext(p, r) /\ UNCHANGED <<held, cinfo>>
    BY <1>2 DEF CreateAccepted, At
  <2>2. r \in Job /\ r.c = job[p].c /\ r.victims = job[p].victims /\ r.got = job[p].got
    BY <1>1 DEF Job
  <2> HIDE DEF r
  <2>3. /\ Turned(p, job'[p]) /\ Fresh(p)
        /\ job'[p].stage \in {"borrow", "record"} /\ job'[p].c = job[p].c
        /\ job'[p].got = job[p].got /\ job'[p].victims = job[p].victims
    BY <1>1, <2>1, <2>2, BorrowTurns
  <2> QED BY <2>1, <2>3, CreatedKept
<1>3. CASE CreateUnanswered(p)
  <2>1. /\ job[p].stage = "dockerd" /\ call[p].pc = "idle" /\ UNCHANGED <<held, cinfo>>
        /\ Turned(p, NoJob) /\ Fresh(p) /\ Idles(NoJob)
    BY <1>1, <1>3, EndTurns DEF CreateUnanswered, At, Finish
  <2>2. job'[p] = NoJob
    BY <2>1 DEF Turned
  <2>3. CASE Created(job[p])
    BY <2>1, <2>2, <2>3, CreatedKept
  <2>4. CASE docker' = [docker EXCEPT ![job[p].c] = "failed"] /\ UNCHANGED <<conf, fixed, label>>
    <3>1. DockerStep(p) /\ InfoStep(p) /\ Shrinks
      BY <2>1, <2>4, FailedSteps
    <3> QED BY <2>1, <3>1, IdleKept
  <2> QED BY <1>3, <2>3, <2>4 DEF CreateUnanswered
<1>4. CASE Borrowed(p)
  <2>1. job[p].stage = "borrow" /\ call[p].pc = "idle" /\ BorrowNext(p, job[p]) /\ UNCHANGED world
    BY <1>4 DEF Borrowed, At
  <2>2. /\ Turned(p, job'[p]) /\ Fresh(p)
        /\ job'[p].stage \in {"borrow", "record"} /\ job'[p].c = job[p].c
        /\ job'[p].got = job[p].got /\ job'[p].victims = job[p].victims
    BY <1>1, <2>1, BorrowTurns
  <2>3. DockerOf(docker, job'[p])
    BY <1>1, <2>1, <2>2 DEF DockerOf
  <2>4. DockerStep(p) /\ InfoStep(p) /\ Shrinks
    BY <2>1, <2>2, <2>3, SameWorld DEF Creating, world
  <2>5. \A ip \in IPs :
              /\ ~Claims(p, ip)' /\ ~AtHand(p, ip)'
              /\ \A c \in Containers : /\ Listing(p, c, ip)' => Listing(p, c, ip)
                                       /\ ~Left(p, c, ip)'
    BY <2>1, <2>2, BorrowClaims DEF Listing
  <2>6. \A c \in Containers, ip \in IPs : Listed(c, ip)' => Listed(c, ip)
    BY <2>2, <2>4, <2>5, ListedStays DEF Shrinks
  <2>7. Sound => Flow(p)
    BY <2>2, <2>4, <2>5, <2>6, StillFlow DEF Shrinks
  <2> QED BY <2>2, <2>4, <2>7 DEF Kept
<1>5. CASE RecordInfo(p)
  <2>1. job[p].stage = "record" /\ call[p].pc = "idle" /\ Finish(p) /\ UNCHANGED <<docker, conf, fixed, held>>
    BY <1>5 DEF RecordInfo, At
  <2>2. CASE UNCHANGED cinfo
    BY <2>1, <2>2, EndKept DEF Finish
  <2>3. CASE cinfo' = [cinfo EXCEPT ![job[p].c] = PutSlot(@, job[p].got)]
    <3>1. Turned(p, NoJob) /\ Fresh(p) /\ Idles(NoJob) /\ Gives(p, {}) /\ NoJob.stage = "idle"
      BY <1>1, <2>1, EndTurns DEF Finish, NoJob
    <3>2. DockerStep(p)
      BY <2>1, <3>1, DockerOfJobs, SameDocker DEF Creating
    <3>3. job[p].c \in Containers
      BY <2>1, KeptParts
    <3>4. /\ \A c \in Containers \ {job[p].c} : cinfo'[c] = cinfo[c]
          /\ cinfo'[job[p].c].val = job[p].got /\ Exists(cinfo'[job[p].c])
      BY <1>1, <2>3, <3>3 DEF PutSlot, Exists, Slot
    <3>5. InfoStep(p)
      BY <2>1, <3>1, <3>4 DEF InfoStep, Creating, Turned
    <3>6. \A c \in Containers, ip \in IPs : Listed(c, ip)' => Listed(c, ip)
      <4>1. \A q \in Procs \ {p}, c \in Containers, ip \in IPs : Listing(q, c, ip)' <=> Listing(q, c, ip)
        BY <3>1, OthersClaim DEF Turned
      <4>2. \A ip \in IPs : ip \in job[p].got => Listing(p, job[p].c, ip)
        BY <2>1 DEF Listing
      <4> QED BY <3>1, <3>4, <4>1, <4>2 DEF Listed, Gives
    <3>7. Sound => Flow(p)
      BY <2>1, <3>1, <3>6, StillFlow DEF Gives
    <3>8. Turned(p, job'[p])
      BY <3>1 DEF Turned
    <3> QED BY <3>2, <3>5, <3>7, <3>8 DEF Kept
  <2> QED BY <1>5, <2>2, <2>3 DEF RecordInfo
<1> QED BY <1>2, <1>3, <1>4, <1>5

\* The IPAM driver's answers.
LEMMA DriverKept ==
    ASSUME KeptIInv, NEW p \in Procs,
           Assigned(p) \/ CalicoRequest(p) \/ Unassigned(p) \/ CalicoRelease(p) \/ DriverFails(p)
    PROVE  Kept(p)
<1>1. /\ SysIInv /\ job[p] \in Job /\ DockerOf(docker, job[p])
      /\ held \in [Containers -> SUBSET IPs]
  BY KeptParts
<1>2. /\ job[p].stage \in {"assign", "calico", "unassign", "free"}
      /\ UNCHANGED <<ipinfo, docker, conf, fixed, cinfo>>
  BY DEF Assigned, CalicoRequest, Unassigned, CalicoRelease, DriverFails, At, Finish, Proceed, world
<1>3. docker[job[p].c] \notin {"none", "requested"} /\ job[p].c \in Containers
  BY <1>1, <1>2, KeptParts DEF DockerOf
<1>4. ASSUME EndJob(p), \/ UNCHANGED held
                        \/ \E ip : held' = [held EXCEPT ![job[p].c] = @ \cup {ip}]
      PROVE  Kept(p)
  <2>1. \A c \in Containers : held'[c] # {} => held[c] # {} \/ docker[c] \notin {"none", "requested"}
    BY <1>1, <1>3, <1>4
  <2> QED BY <1>2, <1>4, <2>1, EndKept
<1>5. ASSUME NEW st \in {"calico", "free"}, Proceed(p, [job[p] EXCEPT !.stage = st]), UNCHANGED held
      PROVE  Kept(p)
  <2> DEFINE k == [job[p] EXCEPT !.stage = st]
  <2>1. k.stage = st /\ k.c = job[p].c /\ k.victims = job[p].victims
    BY <1>1 DEF Job
  <2>2. Proceed(p, k)
    BY <1>5
  <2> HIDE DEF k
  <2>3. DockerOf(docker, k)
    BY <1>2, <2>1, DockerOfJobs
  <2> QED BY <1>2, <1>5, <2>1, <2>2, <2>3, GoesOnKept
<1>6. CASE Assigned(p)
  BY <1>4, <1>5, <1>6 DEF Assigned, Finish
<1>7. CASE CalicoRequest(p)
  BY <1>4, <1>7 DEF CalicoRequest
<1>8. CASE Unassigned(p)
  BY <1>4, <1>5, <1>8 DEF Unassigned, Finish, world
<1>9. CASE CalicoRelease(p) \/ DriverFails(p)
  BY <1>4, <1>9 DEF CalicoRelease, DriverFails, world
<1> QED BY <1>6, <1>7, <1>8, <1>9

\* containerDeleteHandler: dockerd removes the container, and nobody else loses it.
LEMMA RemoveKept ==
    ASSUME KeptIInv, NEW p \in Procs, RemoveAnswered(p) \/ RemoveUnanswered(p)
    PROVE  Kept(p)
<1>1. /\ SysIInv /\ job[p] \in Job /\ DockerOf(docker, job[p]) /\ job[p].stage = "delete"
      /\ job[p].c \in Containers
  BY KeptParts DEF RemoveAnswered, RemoveUnanswered, At
<1>2. docker[job[p].c] \notin {"none", "requested"} /\ {job[p].c} \in SUBSET Containers
  BY <1>1 DEF DockerOf
<1>3. CASE Finish(p) /\ UNCHANGED world
  BY <1>3, EndKept DEF Finish, world
<1>4. CASE Finish(p) /\ Forget({job[p].c})
  <2>1. Turned(p, NoJob) /\ Fresh(p) /\ Idles(NoJob) /\ NoJob.stage = "idle"
    BY <1>1, <1>4, EndTurns DEF Finish, NoJob
  <2>2. DockerStep(p) /\ InfoStep(p) /\ Shrinks
    BY <1>2, <1>4, <2>1, ForgetSteps, DockerOfJobs DEF Creating
  <2> QED BY <2>1, <2>2, IdleKept
<1>5. CASE Forget({job[p].c}) /\ Proceed(p, [job[p] EXCEPT !.stage = "info"])
  <2> DEFINE k == [job[p] EXCEPT !.stage = "info"]
  <2>1. k.stage = "info" /\ k.c = job[p].c /\ k.victims = job[p].victims
    BY <1>1 DEF Job
  <2>2. Proceed(p, k)
    BY <1>5
  <2> HIDE DEF k
  <2>3. Turned(p, k) /\ Fresh(p) /\ Idles(k)
    BY <1>1, <2>1, <2>2, RestTurns DEF Proceed, Fresh, Idles
  <2>4. DockerOf(docker', k)
    <3>1. /\ docker'[job[p].c] = "removed"
          /\ \A v \in job[p].victims : v \in Containers /\ docker[v] = "removed"
      BY <1>1, <1>5 DEF Forget, DockerOf, Job
    <3>2. \A v \in job[p].victims : docker'[v] = "removed"
      BY <1>5, <3>1 DEF Forget
    <3> QED BY <2>1, <3>1, <3>2 DEF DockerOf
  <2>5. DockerStep(p) /\ InfoStep(p) /\ Shrinks
    BY <1>2, <1>5, <2>1, <2>3, <2>4, ForgetSteps DEF Creating
  <2> QED BY <2>3, <2>5, IdleKept
<1> QED BY <1>3, <1>4, <1>5 DEF RemoveAnswered, RemoveUnanswered

\* containerPruneHandle: dockerd removes the stopped containers.
LEMMA PruneKept ==
    ASSUME KeptIInv, NEW p \in Procs, Prune(p)
    PROVE  Kept(p)
<1> DEFINE stopped == {c \in Containers : docker[c] = "created" /\ held[c] = {} /\ ~DockerBusy(c)}
<1>1. /\ Forget(stopped) /\ stopped \in SUBSET Containers
      /\ \A c \in stopped : docker[c] \notin {"none", "requested"}
      /\ \E c \in stopped :
            Proceed(p, [NoJob EXCEPT !.c = c, !.stage = "info", !.victims = stopped \ {c}])
  BY DEF Prune
<1> HIDE DEF stopped
<1>2. SysIInv
  BY KeptParts
<1>3. /\ Turned(p, job'[p]) /\ Fresh(p) /\ Idles(job'[p])
      /\ \/ job'[p] = NoJob
         \/ job'[p].stage = "info" /\ job'[p].c \in stopped /\ job'[p].victims \subseteq stopped
  BY <1>1, <1>2, VictimTurns
<1>4. DockerOf(docker', job'[p]) /\ job'[p].stage \in {"idle", "info"}
  <2>1. CASE job'[p] = NoJob
    <3>1. DockerOf(docker', NoJob)
      BY DockerOfJobs
    <3> QED BY <2>1, <3>1 DEF NoJob
  <2>2. CASE job'[p].stage = "info" /\ job'[p].c \in stopped /\ job'[p].victims \subseteq stopped
    <3>1. \A c \in stopped : docker'[c] = "removed"
      BY <1>1 DEF Forget
    <3> QED BY <2>2, <3>1 DEF DockerOf
  <2> QED BY <1>3, <2>1, <2>2
<1>5. DockerStep(p) /\ InfoStep(p) /\ Shrinks
  BY <1>1, <1>3, <1>4, ForgetSteps DEF Creating
<1> QED BY <1>3, <1>5, IdleKept

\* ReleaseContainerAddresses works for containers that are removed.
LEMMA ReleaseOf ==
    ASSUME KeptIInv, NEW p \in Procs, job[p].stage \in {"info", "return", "unalloc"}, NEW k,
           \/ k = NoJob
           \/ k.stage = "info" /\ k.c \in job[p].victims /\ k.victims \subseteq job[p].victims
           \/ k.stage \in {"return", "unalloc"} /\ k.c = job[p].c /\ k.victims = job[p].victims
    PROVE  DockerOf(docker, k) /\ k.stage \notin Creating /\ k.stage # "update"
<1>1. DockerOf(docker, job[p]) /\ DockerOf(docker, NoJob)
  BY KeptParts, DockerOfJobs
<1>2. CASE k = NoJob
  BY <1>1, <1>2 DEF NoJob, Creating
<1>3. CASE k.stage = "info" /\ k.c \in job[p].victims /\ k.victims \subseteq job[p].victims
  BY <1>1, <1>3 DEF DockerOf, Creating
<1>4. CASE k.stage \in {"return", "unalloc"} /\ k.c = job[p].c /\ k.victims = job[p].victims
  BY <1>1, <1>4 DEF DockerOf, Creating
<1> QED BY <1>2, <1>3, <1>4

\* GetAndDelete of a ContainerInfo.
LEMMA InfoTaken ==
    ASSUME KeptIInv, NEW p \in Procs, NEW k, Turned(p, k), k.stage \notin Creating, k.stage # "update",
           NEW c \in Containers, cinfo' = [cinfo EXCEPT ![c] = DeleteSlot(@, {})], UNCHANGED fixed
    PROVE  InfoStep(p) /\ Shrinks /\ cinfo'[c].val = {}
<1>1. InfoInv /\ job'[p] = k /\ cinfo \in [Containers -> Slot(SUBSET IPs)]
  BY KeptParts DEF Turned
<1>2. /\ \A d \in Containers \ {c} : cinfo'[d] = cinfo[d]
      /\ cinfo'[c] = DeleteSlot(cinfo[c], {})
  BY <1>1
<1>3. cinfo'[c].val = {} /\ (cinfo'[c] = cinfo[c] \/ ~Exists(cinfo'[c]))
  BY <1>1, <1>2 DEF InfoInv, DeleteSlot, Exists
<1> QED BY <1>1, <1>2, <1>3 DEF InfoStep, Shrinks

\* ReleaseContainerAddresses: what the ContainerInfo listed its taker claims.
LEMMA ReleaseKept ==
    ASSUME KeptIInv, NEW p \in Procs,
           TakeInfo(p) \/ TakeInfoFails(p) \/ Returned(p) \/ Unalloced(p)
    PROVE  Kept(p)
<1> DEFINE c == job[p].c
<1>1. /\ SysIInv /\ DockerInv /\ InfoInv /\ job[p] \in Job /\ DockerOf(docker, job[p])
      /\ cinfo \in [Containers -> Slot(SUBSET IPs)]
      /\ job[p].stage \in {"info", "return", "unalloc"} /\ call[p].pc = "idle" /\ c \in Containers
      /\ UNCHANGED <<docker, conf, fixed, held>>
  BY KeptParts DEF TakeInfo, TakeInfoFails, Returned, Unalloced, At, world
<1>2. CASE TakeInfo(p)
  <2> DEFINE r == [job[p] EXCEPT !.addrs = cinfo[c].val]
  <2>1. /\ job[p].stage = "info" /\ cinfo' = [cinfo EXCEPT ![c] = DeleteSlot(@, {})]
        /\ ReturnNext(p, r)
    BY <1>2 DEF TakeInfo, At
  <2>2. r \in Job /\ r.c = c /\ r.victims = job[p].victims /\ r.addrs = cinfo[c].val
    BY <1>1 DEF Job, Slot
  <2> HIDE DEF r
  <2>3. /\ Turned(p, job'[p]) /\ Gives(p, cinfo[c].val)
        /\ \/ job'[p] = NoJob
           \/ job'[p].stage = "info" /\ job'[p].c \in job[p].victims /\ job'[p].victims \subseteq job[p].victims
           \/ job'[p].stage = "return" /\ job'[p].c = job[p].c /\ job'[p].victims = job[p].victims
    BY <1>1, <2>1, <2>2, ReturnTurns
  <2>4. DockerOf(docker, job'[p]) /\ job'[p].stage \notin Creating /\ job'[p].stage # "update"
    BY <1>1, <2>3, ReleaseOf
  <2>5. DockerStep(p)
    BY <1>1, <2>3, <2>4, SameDocker
  <2>6. InfoStep(p) /\ Shrinks /\ cinfo'[c].val = {}
    BY <1>1, <2>1, <2>3, <2>4, InfoTaken
  <2>7. \A d \in Containers, ip \in IPs : Listed(d, ip)' => Listed(d, ip)
    BY <2>3, <2>6, ListedStays DEF Gives, Shrinks
  <2>8. ASSUME NEW ip \in IPs, ip \in cinfo[c].val, NEW d \in Containers, d = c
        PROVE  Has(d, ip) /\ ~Has(d, ip)'
    <3>1. fixed'[d] = {} /\ Exists(cinfo[d])
      BY <1>1, <2>8 DEF DockerInv, DockerOf, InfoInv
    <3>2. ASSUME NEW q \in Procs, Listing(q, d, ip)' PROVE FALSE
      <4>1. q # p
        BY <2>3, <3>2 DEF Gives
      <4>2. Listing(q, d, ip)
        BY <2>3, <3>2, <4>1, OthersClaim DEF Turned
      <4> QED BY <1>1, <3>1, <4>2 DEF Listing, InfoInv, Creating
    <3> QED BY <2>6, <2>8, <3>1, <3>2 DEF Has, Listed
  <2>9. ASSUME Sound PROVE Flow(p)
    <3>1. \A ip \in IPs : Claims(p, ip)' => \E d \in Containers : Has(d, ip) /\ ~Has(d, ip)'
      BY <1>1, <2>3, <2>8 DEF Gives
    <3>2. \A ip \in IPs, d \in Containers : Has(d, ip)' => Has(d, ip)
      BY <1>1, <2>7 DEF Has
    <3>3. \A ip \in IPs, d \in Containers, q \in Procs :
             Left(q, d, ip)' /\ ip \in fixed'[d] => ~Listed(d, ip)'
      <4>1. \A q \in Procs \ {p}, d \in Containers, ip \in IPs : Left(q, d, ip)' <=> Left(q, d, ip)
        BY <2>3, OthersClaim DEF Turned
      <4> QED BY <1>1, <2>3, <2>7, <2>9, <4>1 DEF Gives, KeptIInv, ClaimsOnce
    <3> QED BY <2>3, <3>1, <3>2, <3>3 DEF Flow, Gives
  <2> QED BY <2>3, <2>5, <2>6, <2>9 DEF Kept
<1>3. CASE TakeInfoFails(p)
  <2>1. /\ \/ UNCHANGED cinfo
           \/ cinfo' = [cinfo EXCEPT ![c] = DeleteSlot(@, {})]
        /\ NextVictim(p, job[p]) /\ job[p].victims \in SUBSET Containers
    BY <1>1, <1>3 DEF TakeInfoFails, Job
  <2>2. /\ Turned(p, job'[p]) /\ Fresh(p) /\ Idles(job'[p])
        /\ \/ job'[p] = NoJob
           \/ job'[p].stage = "info" /\ job'[p].c \in job[p].victims /\ job'[p].victims \subseteq job[p].victims
    BY <1>1, <2>1, VictimTurns DEF NextVictim
  <2>3. DockerOf(docker, job'[p]) /\ job'[p].stage \notin Creating /\ job'[p].stage # "update"
    BY <1>1, <2>2, ReleaseOf
  <2>4. DockerStep(p)
    BY <1>1, <2>2, <2>3, SameDocker
  <2>5. InfoStep(p) /\ Shrinks
    <3>1. CASE UNCHANGED cinfo
      BY <1>1, <2>3, <3>1 DEF InfoStep, Shrinks
    <3>2. CASE cinfo' = [cinfo EXCEPT ![c] = DeleteSlot(@, {})]
      BY <1>1, <2>2, <2>3, <3>2, InfoTaken
    <3> QED BY <2>1, <3>1, <3>2
  <2> QED BY <2>2, <2>4, <2>5, IdleKept
<1>4. CASE Returned(p)
  <2> DEFINE k == [job[p] EXCEPT !.stage = "unalloc"]
  <2>1. /\ k.stage = "unalloc" /\ k.c = c /\ k.victims = job[p].victims /\ k.addrs = job[p].addrs
        /\ Invoke(p, k, "UnallocFixedIP", job[p].ip) /\ UNCHANGED world /\ job[p].stage = "return"
    BY <1>1, <1>4 DEF Job, Returned, At
  <2> HIDE DEF k
  <2>2. Turned(p, k) /\ call'[p].pc # "idle" /\ call'[p].ip = job[p].ip
    BY <1>1, <2>1, CallTurns DEF Invoke
  <2>3. DockerOf(docker, k) /\ k.stage \notin Creating /\ k.stage # "update"
    BY <1>1, <2>1, ReleaseOf
  <2>4. DockerStep(p) /\ InfoStep(p) /\ Shrinks
    BY <1>1, <2>1, <2>2, <2>3, SameWorld DEF world
  <2>5. \A ip \in IPs :
           /\ AtHand(p, ip)' => AtHand(p, ip)
           /\ Pending(p, ip)' => Pending(p, ip)
           /\ ~Making(p, ip)'
           /\ \A d \in Containers : ~Listing(p, d, ip)' /\ ~Left(p, d, ip)'
    BY <2>1, <2>2, TurnClaims DEF Fresh, AtHand, Pending
  <2>6. \A ip \in IPs : Claims(p, ip)' => Claims(p, ip)
    BY <2>5 DEF Claims
  <2>7. ASSUME Sound PROVE Flow(p)
    <3>1. \A ip \in IPs : AtHand(p, ip)' => ~Pending(p, ip)'
      BY <2>5, <2>7 DEF KeptIInv, ClaimsOnce
    <3>2. \A d \in Containers, ip \in IPs : Listed(d, ip)' => Listed(d, ip)
      BY <2>2, <2>4, <2>5, ListedStays DEF Shrinks
    <3> QED BY <1>1, <2>2, <2>4, <2>5, <2>6, <2>7, <3>1, <3>2, StillFlow DEF Shrinks
  <2>8. Turned(p, job'[p])
    BY <2>2 DEF Turned
  <2> QED BY <2>4, <2>7, <2>8 DEF Kept
<1>5. CASE Unalloced(p)
  <2>1. ReturnNext(p, job[p]) /\ UNCHANGED world /\ job[p].stage = "unalloc"
    BY <1>5 DEF Unalloced, At
  <2>2. /\ Turned(p, job'[p]) /\ Gives(p, job[p].addrs)
        /\ \/ job'[p] = NoJob
           \/ job'[p].stage = "info" /\ job'[p].c \in job[p].victims /\ job'[p].victims \subseteq job[p].victims
           \/ job'[p].stage = "return" /\ job'[p].c = job[p].c /\ job'[p].victims = job[p].victims
    BY <1>1, <2>1, ReturnTurns
  <2>3. DockerOf(docker, job'[p]) /\ job'[p].stage \notin Creating /\ job'[p].stage # "update"
    BY <1>1, <2>2, ReleaseOf
  <2>4. DockerStep(p) /\ InfoStep(p) /\ Shrinks
    BY <1>1, <2>1, <2>2, <2>3, SameWorld DEF world
  <2>5. \A ip \in IPs : ip \in job[p].addrs => Claims(p, ip)
    BY <2>1 DEF Claims, Pending
  <2> QED BY <1>1, <2>2, <2>4, <2>5, GivesKept
<1> QED BY <1>2, <1>3, <1>4, <1>5

\* networkConnectHandler: the address is the handler's until dockerd has connected
\* the container, and then the container's.
LEMMA ConnectKept ==
    ASSUME KeptIInv, NEW p \in Procs,
           NetAllocated(p) \/ ConnectAccepted(p) \/ ConnectRefused(p)
    PROVE  Kept(p)
<1> DEFINE c == job[p].c
           r == [job[p] EXCEPT !.addrs = job[p].got]
<1>1. /\ SysIInv /\ DockerInv /\ job[p] \in Job /\ c \in Containers
      /\ job[p].stage \in {"netalloc", "connect"} /\ call[p].pc = "idle"
      /\ conf \in [Containers -> SUBSET IPs] /\ fixed \in [Containers -> SUBSET IPs]
      /\ UNCHANGED <<docker, held, cinfo>>
  BY KeptParts DEF NetAllocated, ConnectAccepted, ConnectRefused, At, world
<1>2. r \in Job /\ r.c = c /\ r.victims = job[p].victims /\ r.addrs = job[p].got
  BY <1>1 DEF Job
<1>3. CASE NetAllocated(p)
  <2>1. UNCHANGED world /\ job[p].stage = "netalloc"
    BY <1>3 DEF NetAllocated, At
  <2>2. CASE ~Ok(p)
    BY <1>3, <2>1, <2>2, EndKept DEF NetAllocated, Finish, world
  <2>3. CASE Ok(p)
    <3> DEFINE k == [job[p] EXCEPT !.stage = "connect", !.got = {call[p].ip}]
    <3>1. /\ k.stage = "connect" /\ k.c = c /\ k.victims = job[p].victims /\ k.got = {call[p].ip}
          /\ Proceed(p, k)
      BY <1>1, <1>3, <2>3 DEF Job, NetAllocated
    <3> HIDE DEF k
    <3>2. Turned(p, k) /\ Fresh(p)
      BY <1>1, <3>1, RestTurns DEF Proceed, Fresh
    <3>3. DockerOf(docker, k)
      BY <2>1, <3>1, DockerOfJobs
    <3>4. DockerStep(p) /\ InfoStep(p) /\ Shrinks
      BY <2>1, <3>1, <3>2, <3>3, SameWorld DEF Creating, world
    <3>5. Gives(p, {call[p].ip})
      <4> SUFFICES ASSUME NEW ip \in IPs
                   PROVE  /\ Claims(p, ip)' => ip \in {call[p].ip}
                          /\ ~AtHand(p, ip)'
                          /\ \A d \in Containers : ~Listing(p, d, ip)' /\ ~Left(p, d, ip)'
        BY DEF Gives
      <4>1. /\ ~AtHand(p, ip)' /\ ~Pending(p, ip)' /\ (Making(p, ip)' => ip \in {call[p].ip})
            /\ \A d \in Containers : ~Listing(p, d, ip)' /\ ~Left(p, d, ip)'
        BY <3>1, <3>2, TurnClaims
      <4> QED BY <4>1 DEF Claims
    <3>6. \A ip \in IPs : ip \in {call[p].ip} => Claims(p, ip)
      BY <1>1, <2>1, <2>3 DEF Claims, Making
    <3> QED BY <1>1, <3>2, <3>4, <3>5, <3>6, GivesKept
  <2> QED BY <2>2, <2>3
<1>4. CASE ConnectAccepted(p)
  <2>1. /\ docker[c] = "created" /\ job[p].stage = "connect" /\ Finish(p)
        /\ \A d \in Containers : /\ conf'[d] = IF d = c THEN conf[d] \cup job[p].got ELSE conf[d]
                                 /\ fixed'[d] = IF d = c THEN fixed[d] \cup job[p].got ELSE fixed[d]
    BY <1>1, <1>4 DEF ConnectAccepted, At
  <2>2. Turned(p, NoJob) /\ Gives(p, {}) /\ NoJob.stage = "idle" /\ DockerOf(docker, NoJob)
    BY <1>1, <2>1, EndTurns, DockerOfJobs DEF Finish, NoJob
  <2>3. job'[p] = NoJob
    BY <2>2 DEF Turned
  <2>4. DockerStep(p)
    BY <1>1, <2>1, <2>2, <2>3 DEF DockerStep, DockerInv, Creating
  <2>5. InfoStep(p)
    BY <1>1, <2>2, <2>3 DEF InfoStep
  <2>6. \A d \in Containers, ip \in IPs : Listed(d, ip)' => Listed(d, ip)
    BY <1>1, <2>2, ListedStays DEF Gives
  <2>7. ASSUME Sound PROVE Flow(p)
    <3>1. \A ip \in IPs : ip \in job[p].got => Claims(p, ip)
      BY <2>1, AllocClaims
    <3>2. \A ip \in IPs, d \in Containers : Has(d, ip)' => Has(d, ip) \/ (Claims(p, ip) /\ d = c)
      BY <2>1, <2>6, <3>1 DEF Has
    <3>3. \A ip \in IPs, d \in Containers, q \in Procs :
             Left(q, d, ip)' /\ ip \in fixed'[d] => ~Listed(d, ip)'
      <4>1. \A q \in Procs \ {p}, d \in Containers, ip \in IPs : Left(q, d, ip)' <=> Left(q, d, ip)
        BY <2>2, OthersClaim DEF Turned
      <4>2. \A ip \in IPs, d \in Containers : ip \in job[p].got => ~Listed(d, ip)
        BY <2>7, <3>1 DEF KeptIInv, ClaimsOnce, Has
      <4> QED BY <2>1, <2>2, <2>6, <2>7, <4>1, <4>2 DEF Gives, KeptIInv, ClaimsOnce
    <3>4. \A ip \in IPs : ~Claims(p, ip)' /\ (AtHand(p, ip)' => ~Pending(p, ip)')
      BY <2>2 DEF Gives
    <3> QED BY <1>1, <3>2, <3>3, <3>4 DEF Flow
  <2>8. Turned(p, job'[p])
    BY <2>2, <2>3
  <2> QED BY <2>4, <2>5, <2>7, <2>8 DEF Kept
<1>5. CASE ConnectRefused(p)
  <2>1. /\ Rollback(p, r) /\ job[p].stage = "connect" /\ UNCHANGED <<conf, fixed>>
    BY <1>1, <1>5 DEF ConnectRefused, At, world
  <2> HIDE DEF r
  <2>2. /\ Turned(p, job'[p]) /\ Gives(p, job[p].got)
        /\ \/ job'[p] = NoJob
           \/ job'[p].stage = "rollback" /\ job'[p].c = c /\ job'[p].victims = job[p].victims
    BY <1>1, <1>2, <2>1, RollbackTurns
  <2>3. DockerOf(docker, job'[p])
    BY <2>1, <2>2, DockerOfJobs
  <2>4. job'[p].stage \in {"idle", "rollback"}
    BY <2>2 DEF NoJob
  <2>5. DockerStep(p)
    BY <1>1, <2>1, <2>3, <2>4 DEF DockerStep, DockerInv, Creating
  <2>6. InfoStep(p) /\ Shrinks
    BY <1>1, <2>1, <2>4 DEF InfoStep, Shrinks
  <2> QED BY <1>1, <2>1, <2>2, <2>5, <2>6, AllocClaims, GivesKept
<1> QED BY <1>3, <1>4, <1>5

\* An answer of dockerd is lost: from here on nothing is said about the addresses.
LEMMA UnansweredKeeps ==
    ASSUME KeptIInv, NEW p \in Procs, ConnectUnanswered(p), Remembered, SysIInv'
    PROVE  KeptIInv'
<1> DEFINE c == job[p].c
           r == [job[p] EXCEPT !.addrs = job[p].got]
<1>1. /\ SysIInv /\ DockerInv /\ InfoInv /\ job[p] \in Job /\ c \in Containers
      /\ job[p].stage = "connect" /\ call[p].pc = "idle"
      /\ conf \in [Containers -> SUBSET IPs] /\ fixed \in [Containers -> SUBSET IPs]
      /\ UNCHANGED <<docker, held, cinfo>> /\ Rollback(p, r) /\ docker[c] = "created"
  BY KeptParts DEF ConnectUnanswered, At, KeptIInv
<1>2. \A d \in Containers : /\ conf'[d] = IF d = c THEN conf[d] \cup job[p].got ELSE conf[d]
                            /\ fixed'[d] = IF d = c THEN fixed[d] \cup job[p].got ELSE fixed[d]
  BY <1>1 DEF ConnectUnanswered
<1>3. r \in Job /\ r.c = c /\ r.victims = job[p].victims /\ r.addrs = job[p].got
  BY <1>1 DEF Job
<1> HIDE DEF r
<1>4. /\ Turned(p, job'[p])
      /\ \/ job'[p] = NoJob
         \/ job'[p].stage = "rollback" /\ job'[p].c = c /\ job'[p].victims = job[p].victims
  BY <1>1, <1>3, RollbackTurns
<1>5. DockerOf(docker, job'[p])
  BY <1>1, <1>4, DockerOfJobs
<1>6. job'[p].stage \in {"idle", "rollback"}
  BY <1>4 DEF NoJob
<1>7. DockerStep(p)
  BY <1>1, <1>2, <1>5, <1>6 DEF DockerStep, DockerInv, Creating
<1>8. InfoStep(p)
  BY <1>1, <1>6 DEF InfoStep
<1>9. DockerInv' /\ InfoInv'
  BY <1>1, <1>4, <1>7, <1>8, DockerKeeps, InfoKeeps DEF Turned
<1>10. ~Sound'
  BY DEF Sound, Remembered
<1> QED BY <1>9, <1>10 DEF KeptIInv

\* dockerd disconnects a container: the container keeps no address of the network.
LEMMA LeaveSteps ==
    ASSUME KeptIInv, NEW p \in Procs, NEW k, Turned(p, k), Leave(p), job[p].c \in Containers,
           DockerOf(docker, k), k.stage \notin Creating, k.stage # "update"
    PROVE  /\ DockerStep(p) /\ InfoStep(p) /\ Shrinks
           /\ \A ip \in IPs : ip.PoolID \in PoolsOf(job[p].net) => ip \notin fixed'[job[p].c]
<1>1. /\ DockerInv /\ job'[p] = k /\ UNCHANGED <<docker, held, cinfo>>
      /\ conf \in [Containers -> SUBSET IPs] /\ fixed \in [Containers -> SUBSET IPs]
  BY KeptParts DEF Turned, Leave
<1>2. \A d \in Containers : /\ conf'[d] = IF d = job[p].c THEN conf[d] \ Leaving(p) ELSE conf[d]
                            /\ fixed'[d] = IF d = job[p].c THEN fixed[d] \ Leaving(p) ELSE fixed[d]
  BY <1>1 DEF Leave
<1>3. DockerStep(p)
  BY <1>1, <1>2 DEF DockerStep, DockerInv
<1>4. InfoStep(p) /\ Shrinks
  BY <1>1, <1>2 DEF InfoStep, Shrinks
<1>5. \A ip \in IPs : ip.PoolID \in PoolsOf(job[p].net) => ip \notin fixed'[job[p].c]
  <2>1. fixed[job[p].c] \subseteq conf[job[p].c]
    BY <1>1 DEF DockerInv
  <2>2. \A ip \in IPs : ip \in conf[job[p].c] /\ ip.PoolID \in PoolsOf(job[p].net) => ip \in Leaving(p)
    BY DEF Leaving
  <2> QED BY <1>2, <2>1, <2>2
<1> QED BY <1>3, <1>4, <1>5

\* The transaction of ReleaseContainerAddressesByIPPools writes to the ContainerInfo
\* that was read, or not at all.
LEMMA TxnSteps ==
    ASSUME KeptIInv, NEW p \in Procs, NEW k, Turned(p, k), job[p].stage = "update",
           cinfo' = [cinfo EXCEPT ![job[p].c] = InfoTxn(p).slot], UNCHANGED fixed,
           k.stage \notin Creating, k.stage # "update"
    PROVE  /\ InfoStep(p) /\ Shrinks
           /\ \/ cinfo' = cinfo /\ ~(InfoTxn(p).err = "nil" /\ InfoTxn(p).ok)
              \/ /\ Released(p) \subseteq cinfo[job[p].c].val
                 /\ cinfo'[job[p].c].val = Retained(p)
                 /\ InfoTxn(p).err = "nil" /\ InfoTxn(p).ok
<1> DEFINE s == cinfo[job[p].c]
<1>1. /\ InfoInv /\ job'[p] = k /\ job[p] \in Job /\ job[p].c \in Containers
      /\ cinfo \in [Containers -> Slot(SUBSET IPs)]
  BY KeptParts DEF Turned
<1>2. /\ s.version \in Nat /\ job[p].read.version \in Nat /\ Exists(job[p].read)
      /\ Exists(s) /\ job[p].read.version = s.version => job[p].read.val = s.val
  BY <1>1 DEF InfoInv, Job, Slot
<1>3. /\ cinfo'[job[p].c] = InfoTxn(p).slot
      /\ \A d \in Containers \ {job[p].c} : cinfo'[d] = cinfo[d]
  BY <1>1
<1>4. CASE s.version # job[p].read.version
  <2>1. InfoTxn(p).slot = s /\ ~InfoTxn(p).ok
    BY <1>4 DEF InfoTxn, UpdateElseGet
  <2>2. cinfo' = cinfo
    BY <1>1, <2>1
  <2> QED BY <1>1, <2>1, <2>2 DEF InfoStep, Shrinks
<1>5. CASE s.version = job[p].read.version
  <2>1. Exists(s) /\ job[p].read.val = s.val
    BY <1>2, <1>5 DEF Exists
  <2>2. InfoTxn(p).slot = PutSlot(s, Retained(p)) /\ InfoTxn(p).ok /\ InfoTxn(p).err = "nil"
    BY <1>5, <2>1 DEF InfoTxn, UpdateElseGet, KeyError
  <2>3. cinfo'[job[p].c].val = Retained(p) /\ cinfo'[job[p].c].version = s.version + 1
    BY <1>3, <2>2 DEF PutSlot
  <2>4. Exists(cinfo'[job[p].c]) /\ s.version < cinfo'[job[p].c].version
    BY <1>2, <2>3 DEF Exists
  <2>5. Retained(p) \subseteq s.val /\ Released(p) \subseteq s.val
    BY <2>1 DEF Retained, Released
  <2> QED BY <1>1, <1>3, <2>1, <2>2, <2>3, <2>4, <2>5 DEF InfoStep, Shrinks
<1> QED BY <1>4, <1>5

\* networkDisconnectHandler and ReleaseContainerAddressesByIPPools: the addresses of
\* the network go from the ContainerInfo to the job that gives them back.
LEMMA DisconnectKept ==
    ASSUME KeptIInv, NEW p \in Procs,
           Disconnected(p) \/ GetInfo(p) \/ PartitionInfo(p) \/ DisconnectFails(p)
    PROVE  Kept(p)
<1> DEFINE c == job[p].c
<1>1. /\ SysIInv /\ DockerInv /\ InfoInv /\ job[p] \in Job /\ c \in Containers
      /\ cinfo \in [Containers -> Slot(SUBSET IPs)]
      /\ job[p].stage \in {"disconnect", "get", "update"} /\ call[p].pc = "idle"
  BY KeptParts DEF Disconnected, GetInfo, PartitionInfo, DisconnectFails, At
<1>2. CASE Finish(p) /\ UNCHANGED world
  BY <1>2, EndKept DEF Finish, world
<1>3. ASSUME NEW k, Proceed(p, k), k.stage \in {"get", "update"}, k.c = c, k.victims = job[p].victims,
             k.net = job[p].net
      PROVE  /\ Turned(p, k) /\ Turned(p, job'[p]) /\ DockerOf(docker, k)
             /\ \A ip \in IPs :
                   /\ ~Claims(p, ip)' /\ ~AtHand(p, ip)'
                   /\ \A d \in Containers :
                         /\ ~Listing(p, d, ip)'
                         /\ Left(p, d, ip)' => d = c /\ ip.PoolID \in PoolsOf(job[p].net)
  <2>1. Turned(p, k) /\ Fresh(p)
    BY <1>1, <1>3, RestTurns DEF Proceed, Fresh
  <2>2. DockerOf(docker, k)
    BY <1>1, <1>3, DockerOfJobs
  <2>3. ASSUME NEW ip \in IPs
        PROVE  /\ ~Claims(p, ip)' /\ ~AtHand(p, ip)'
               /\ \A d \in Containers :
                     /\ ~Listing(p, d, ip)'
                     /\ Left(p, d, ip)' => d = c /\ ip.PoolID \in PoolsOf(job[p].net)
    <3>1. /\ ~AtHand(p, ip)' /\ ~Pending(p, ip)' /\ ~Making(p, ip)'
          /\ \A d \in Containers :
                /\ ~Listing(p, d, ip)'
                /\ Left(p, d, ip)' => d = c /\ ip.PoolID \in PoolsOf(job[p].net)
      BY <1>3, <2>1, TurnClaims
    <3> QED BY <3>1 DEF Claims
  <2>4. Turned(p, job'[p])
    BY <2>1 DEF Turned
  <2> QED BY <2>1, <2>2, <2>3, <2>4
<1>4. CASE Leave(p) /\ Finish(p)
  <2>1. Turned(p, NoJob) /\ Fresh(p) /\ Idles(NoJob) /\ NoJob.stage = "idle" /\ DockerOf(docker, NoJob)
    BY <1>1, <1>4, EndTurns, DockerOfJobs DEF Finish, NoJob
  <2>2. DockerStep(p) /\ InfoStep(p) /\ Shrinks
    BY <1>1, <1>4, <2>1, LeaveSteps DEF Creating
  <2> QED BY <2>1, <2>2, IdleKept
<1>5. CASE Leave(p) /\ Proceed(p, [job[p] EXCEPT !.stage = "get"])
  <2> DEFINE k == [job[p] EXCEPT !.stage = "get"]
  <2>1. /\ k.stage = "get" /\ k.c = c /\ k.victims = job[p].victims /\ k.net = job[p].net
        /\ Proceed(p, k)
    BY <1>1, <1>5 DEF Job
  <2> HIDE DEF k
  <2>2. /\ Turned(p, k) /\ Turned(p, job'[p]) /\ DockerOf(docker, k)
        /\ \A ip \in IPs :
              /\ ~Claims(p, ip)' /\ ~AtHand(p, ip)'
              /\ \A d \in Containers :
                    /\ ~Listing(p, d, ip)'
                    /\ Left(p, d, ip)' => d = c /\ ip.PoolID \in PoolsOf(job[p].net)
    BY <1>3, <2>1
  <2>3. /\ DockerStep(p) /\ InfoStep(p) /\ Shrinks
        /\ \A ip \in IPs : ip.PoolID \in PoolsOf(job[p].net) => ip \notin fixed'[c]
    BY <1>1, <1>5, <2>1, <2>2, LeaveSteps DEF Creating
  <2>4. \A d \in Containers, ip \in IPs : Listed(d, ip)' => Listed(d, ip)
    BY <2>2, <2>3, ListedStays DEF Shrinks
  <2>5. Sound => Flow(p)
    BY <2>2, <2>3, <2>4, StillFlow DEF Shrinks
  <2> QED BY <2>2, <2>3, <2>5 DEF Kept
<1>6. ASSUME NEW k, Proceed(p, k), k.stage \in {"get", "update"}, k.c = c, k.victims = job[p].victims,
             k.net = job[p].net, job[p].stage \in {"get", "update"},
             k.stage = "update" => k.read = cinfo[c] /\ Exists(cinfo[c]),
             UNCHANGED <<docker, conf, fixed, held, cinfo>>
      PROVE  Kept(p)
  <2>1. /\ Turned(p, k) /\ Turned(p, job'[p]) /\ DockerOf(docker, k)
        /\ \A ip \in IPs :
              /\ ~Claims(p, ip)' /\ ~AtHand(p, ip)'
              /\ \A d \in Containers :
                    /\ ~Listing(p, d, ip)'
                    /\ Left(p, d, ip)' => d = c /\ ip.PoolID \in PoolsOf(job[p].net)
    BY <1>3, <1>6
  <2>2. DockerStep(p)
    BY <1>6, <2>1, SameDocker DEF Creating
  <2>3. InfoStep(p) /\ Shrinks
    <3>1. job'[p] = k
      BY <2>1 DEF Turned
    <3> QED BY <1>6, <3>1 DEF InfoStep, Shrinks, Creating
  <2>4. \A d \in Containers, ip \in IPs : Listed(d, ip)' => Listed(d, ip)
    BY <2>1, <2>3, ListedStays DEF Shrinks
  <2>5. \A d \in Containers, ip \in IPs : Left(p, d, ip)' => Left(p, d, ip)
    BY <1>6, <2>1 DEF Left
  <2>6. Sound => Flow(p)
    BY <2>1, <2>3, <2>4, <2>5, StillFlow DEF Shrinks
  <2> QED BY <2>1, <2>2, <2>3, <2>6 DEF Kept
<1>7. CASE Disconnected(p)
  BY <1>2, <1>5, <1>7 DEF Disconnected
<1>8. CASE GetInfo(p)
  <2>1. UNCHANGED world /\ job[p].stage = "get"
    BY <1>8 DEF GetInfo, At
  <2>2. CASE cinfo[c].val = {}
    BY <1>2, <1>8, <2>1, <2>2 DEF GetInfo
  <2>3. CASE cinfo[c].val # {}
    <3> DEFINE k == [job[p] EXCEPT !.stage = "update", !.read = cinfo[job[p].c]]
    <3>1. /\ k.stage = "update" /\ k.c = c /\ k.victims = job[p].victims /\ k.net = job[p].net
          /\ k.read = cinfo[c] /\ Proceed(p, k)
      BY <1>1, <1>8, <2>3 DEF Job, GetInfo
    <3>2. Exists(cinfo[c])
      BY <1>1, <2>3 DEF InfoInv
    <3> HIDE DEF k
    <3> QED BY <1>6, <2>1, <3>1, <3>2 DEF world
  <2> QED BY <2>2, <2>3
<1>9. CASE PartitionInfo(p)
  <2>1. /\ job[p].stage = "update" /\ cinfo' = [cinfo EXCEPT ![job[p].c] = InfoTxn(p).slot]
        /\ UNCHANGED <<docker, conf, fixed, held>>
    BY <1>9 DEF PartitionInfo, At
  <2>2. CASE InfoTxn(p).err = "nil" /\ InfoTxn(p).ok
    <3> DEFINE r == [job[p] EXCEPT !.addrs = Released(p)]
    <3>1. Rollback(p, r)
      BY <1>9, <2>2 DEF PartitionInfo
    <3>2. r \in Job /\ r.c = c /\ r.victims = job[p].victims /\ r.addrs = Released(p)
      BY <1>1 DEF Job, Released, Slot
    <3> HIDE DEF r
    <3>3. /\ Turned(p, job'[p]) /\ Gives(p, Released(p))
          /\ \/ job'[p] = NoJob
             \/ job'[p].stage = "rollback" /\ job'[p].c = c /\ job'[p].victims = job[p].victims
      BY <1>1, <3>1, <3>2, RollbackTurns
    <3>4. DockerOf(docker, job'[p])
      BY <2>1, <3>3, DockerOfJobs
    <3>5. job'[p].stage \in {"idle", "rollback"}
      BY <3>3 DEF NoJob
    <3>6. DockerStep(p)
      BY <2>1, <3>3, <3>4, <3>5, SameDocker DEF Creating
    <3>7. /\ InfoStep(p) /\ Shrinks
          /\ Released(p) \subseteq cinfo[c].val /\ cinfo'[c].val = Retained(p)
      BY <2>1, <2>2, <3>3, <3>5, TxnSteps DEF Creating
    <3>8. \A d \in Containers, ip \in IPs : Listed(d, ip)' => Listed(d, ip)
      BY <3>3, <3>7, ListedStays DEF Gives, Shrinks
    <3>9. ASSUME Sound, NEW ip \in IPs, ip \in Released(p), NEW d \in Containers, d = c
          PROVE  Has(d, ip) /\ ~Has(d, ip)'
      <4>1. Listed(d, ip) /\ Left(p, d, ip)
        BY <2>1, <3>7, <3>9 DEF Listed, Left, Released
      <4>2. ip \notin fixed'[d] /\ ip \notin cinfo'[d].val
        BY <2>1, <3>7, <3>9, <4>1 DEF KeptIInv, ClaimsOnce, Retained
      <4>3. ASSUME NEW q \in Procs, Listing(q, d, ip)' PROVE FALSE
        <5>1. q # p
          BY <3>3, <4>3 DEF Gives
        <5>2. Listing(q, d, ip)
          BY <3>3, <4>3, <5>1, OthersClaim DEF Turned
        <5> QED BY <1>1, <2>1, <3>9, <5>2 DEF Listing, InfoInv, Creating
      <4> QED BY <4>1, <4>2, <4>3 DEF Has, Listed
    <3>10. ASSUME Sound PROVE Flow(p)
      <4>1. \A ip \in IPs : Claims(p, ip)' => \E d \in Containers : Has(d, ip) /\ ~Has(d, ip)'
        BY <1>1, <3>3, <3>9, <3>10 DEF Gives
      <4>2. \A ip \in IPs, d \in Containers : Has(d, ip)' => Has(d, ip)
        BY <2>1, <3>8 DEF Has
      <4>3. \A ip \in IPs, d \in Containers, q \in Procs :
               Left(q, d, ip)' /\ ip \in fixed'[d] => ~Listed(d, ip)'
        <5>1. \A q \in Procs \ {p}, d \in Containers, ip \in IPs : Left(q, d, ip)' <=> Left(q, d, ip)
          BY <3>3, OthersClaim DEF Turned
        <5> QED BY <2>1, <3>3, <3>8, <3>10, <5>1 DEF Gives, KeptIInv, ClaimsOnce
      <4> QED BY <3>3, <4>1, <4>2, <4>3 DEF Flow, Gives
    <3> QED BY <3>3, <3>6, <3>7, <3>10 DEF Kept
  <2>3. CASE ~(InfoTxn(p).err = "nil" /\ InfoTxn(p).ok)
    <3>1. ASSUME NEW k, Turned(p, k), k.stage \in {"idle", "get"} PROVE cinfo' = cinfo
      BY <2>1, <2>3, <3>1, TxnSteps DEF Creating
    <3>2. CASE Finish(p)
      <4>1. Turned(p, NoJob) /\ NoJob.stage = "idle"
        BY <1>1, <3>2, EndTurns DEF Finish, NoJob
      <4>2. cinfo' = cinfo
        BY <3>1, <4>1
      <4> QED BY <2>1, <3>2, <4>2, EndKept DEF Finish
    <3>3. CASE Proceed(p, [job[p] EXCEPT !.stage = "get"])
      <4> DEFINE k == [job[p] EXCEPT !.stage = "get"]
      <4>1. /\ k.stage = "get" /\ k.c = c /\ k.victims = job[p].victims /\ k.net = job[p].net
            /\ Proceed(p, k)
        BY <1>1, <3>3 DEF Job
      <4> HIDE DEF k
      <4>2. cinfo' = cinfo
        BY <1>3, <3>1, <4>1
      <4> QED BY <1>6, <2>1, <4>1, <4>2
    <3> QED BY <1>9, <2>3, <3>2, <3>3 DEF PartitionInfo
  <2> QED BY <2>2, <2>3
<1>10. CASE DisconnectFails(p)
  <2>1. ASSUME job[p].stage = "update", Finish(p),
               cinfo' = [cinfo EXCEPT ![job[p].c] = InfoTxn(p).slot],
               UNCHANGED <<docker, conf, fixed, held>>
        PROVE  Kept(p)
    <3>1. Turned(p, NoJob) /\ Fresh(p) /\ Idles(NoJob) /\ NoJob.stage = "idle" /\ DockerOf(docker, NoJob)
      BY <1>1, <2>1, EndTurns, DockerOfJobs DEF Finish, NoJob
    <3>2. DockerStep(p)
      BY <2>1, <3>1, SameDocker DEF Creating
    <3>3. InfoStep(p) /\ Shrinks
      BY <2>1, <3>1, TxnSteps DEF Creating
    <3> QED BY <3>1, <3>2, <3>3, IdleKept
  <2> QED BY <1>2, <1>4, <1>10, <2>1 DEF DisconnectFails, At
<1> QED BY <1>7, <1>8, <1>9, <1>10

\* A process dies; a create that dockerd did not see is lost with it.
LEMMA CrashKept ==
    ASSUME KeptIInv, NEW p \in Procs, JobCrash(p)
    PROVE  Kept(p)
<1>1. /\ SysIInv /\ DockerOf(docker, job[p]) /\ job[p] # NoJob /\ Finish(p)
      /\ docker \in [Containers -> {"none", "requested", "failed", "created", "removed"}]
      /\ docker' = [docker EXCEPT ![job[p].c] = IF @ = "requested" THEN "failed" ELSE @]
      /\ UNCHANGED <<conf, fixed, held, cinfo>>
  BY KeptParts DEF JobCrash
<1>2. job[p].stage # "idle" /\ job[p].c \in Containers
  BY <1>1, KeptParts DEF DockerOf
<1>3. CASE docker[job[p].c] = "requested"
  <2>1. /\ docker' = [docker EXCEPT ![job[p].c] = "failed"]
        /\ job[p].stage \in {"alloc", "dockerd"}
    BY <1>1, <1>2, <1>3 DEF DockerOf
  <2>2. Turned(p, NoJob) /\ Fresh(p) /\ Idles(NoJob)
    BY <1>1, EndTurns DEF Finish
  <2>3. DockerStep(p) /\ InfoStep(p) /\ Shrinks
    BY <1>1, <2>1, <2>2, FailedSteps
  <2> QED BY <2>2, <2>3, IdleKept
<1>4. CASE docker[job[p].c] # "requested"
  <2>1. UNCHANGED docker
    BY <1>1, <1>2, <1>4
  <2> QED BY <1>1, <2>1, EndKept DEF Finish
<1> QED BY <1>3, <1>4

-----------------------------------------------------------------------------
(***************************************************************************)
(* The theorem                                                             *)
(***************************************************************************)

\* The invariant holds at first, and every step keeps it.
LEMMA KeptInductive ==
    /\ SysInit => KeptIInv
    /\ KeptIInv /\ [SysNext]_<<sysVars, ghosts>> => KeptIInv'
<1>1. SysInit => KeptIInv
  <2> SUFFICES ASSUME SysInit PROVE KeptIInv
    OBVIOUS
  <2>1. SysIInv
    BY SysIInvInductive
  <2>2. /\ \A p \in Procs : job[p] = NoJob /\ job[p].stage = "idle"
        /\ \A c \in Containers : /\ docker[c] = "none" /\ fixed[c] = {} /\ conf[c] = {} /\ held[c] = {}
                                 /\ cinfo[c].val = {} /\ ~Exists(cinfo[c])
    BY DEF SysInit, NoJob, NoSlot, Exists
  <2>3. DockerOf(docker, NoJob)
    BY DEF DockerOf, NoJob
  <2>4. DockerInv
    BY <2>2, <2>3 DEF DockerInv, Creating
  <2>5. InfoInv
    BY <2>2 DEF InfoInv, Creating
  <2>6. /\ \A p \in Procs, ip \in IPs : ~AtHand(p, ip) /\ ~Claims(p, ip)
        /\ \A c \in Containers, ip \in IPs : ~Has(c, ip) /\ ~Listed(c, ip)
    BY <2>2 DEF Claims, AtHand, Pending, Making, Has, Listed, Listing
  <2>7. ClaimsOnce
    BY <2>6 DEF ClaimsOnce
  <2> QED BY <2>1, <2>4, <2>5, <2>7 DEF KeptIInv
<1>2. KeptIInv /\ [SysNext]_<<sysVars, ghosts>> => KeptIInv'
  <2> SUFFICES ASSUME KeptIInv, [SysNext]_<<sysVars, ghosts>> PROVE KeptIInv'
    OBVIOUS
  <2>1. SysIInv'
    BY SysIInvInductive DEF KeptIInv
  <2>2. CASE UNCHANGED <<sysVars, ghosts>>
    <3>1. UNCHANGED <<ipinfo, call, docker, conf, fixed, held, cinfo, job, broken, unanswered>>
      BY <2>2 DEF sysVars, vars, world, ghosts
    <3>2. DockerInv' /\ InfoInv'
      BY <3>1 DEF KeptIInv, DockerInv, InfoInv, DockerOf
    <3>3. Sound' => ClaimsOnce'
      BY <3>1 DEF KeptIInv, Sound, ClaimsOnce, Claims, AtHand, Pending, Making, Ok, Has, Listed, Listing,
                  Left, Recorded
    <3> QED BY <2>1, <3>2, <3>3 DEF KeptIInv
  <2>3. CASE SysNext
    <3>1. Remembered /\ (Sound' => Sound)
      BY <2>3 DEF SysNext, Remembered, Sound
    <3>2. PICK p \in Procs : Request(p) \/ JobStep(p) \/ JobFault(p)
      BY <2>3 DEF SysNext
    <3>3. CASE /\ Step(p) \/ CallError(p) \/ CallTimeout(p)
               /\ UNCHANGED <<world, job>>
      BY <2>1, <3>1, <3>3, PoolKeeps
    <3>4. Kept(p) => KeptIInv'
      BY <2>1, <3>1, KeptKeeps
    <3>5. CASE Request(p)
      BY <3>4, <3>5, PruneKept, RequestKept DEF Request
    <3>6. CASE JobStep(p)
      BY <3>3, <3>4, <3>6, AllocatedKept, RollbackKept, AnswerKept, DriverKept, RemoveKept,
         ReleaseKept, ConnectKept, DisconnectKept DEF JobStep
    <3>7. CASE JobFault(p)
      BY <2>1, <3>1, <3>3, <3>4, <3>7, UnansweredKeeps, CrashKept, AnswerKept, RemoveKept, ReleaseKept, DriverKept,
         ConnectKept, DisconnectKept DEF JobFault
    <3> QED BY <3>2, <3>5, <3>6, <3>7
  <2> QED BY <2>2, <2>3
<1> QED BY <1>1, <1>2

\* A container keeps its fixed addresses as long as it exists, running or stopped:
\* their records are there and no other container has them, however requests
\* overlap, calls fail and processes die, unless one of the Unprotected steps
\* happens or dockerd's answer to a connect is lost, whose address the handler
\* takes away again.  (AllocFixedIPFromPools hands an address to one create; only the
\* handler that allocated it, took it out of the ContainerInfo or disconnected
\* its container calls UnallocFixedIP.)
THEOREM FixedAddressesKept == SysSpec => []SysInv
<1>1. KeptIInv => SysInv
  <2> SUFFICES ASSUME KeptIInv PROVE SysTypeOK /\ FixedAddressIsKept
    BY DEF SysInv
  <2>1. SysTypeOK /\ fixed \in [Containers -> SUBSET IPs]
    BY DEF KeptIInv, SysIInv, SysTypeOK
  <2>2. ASSUME Sound, NEW c \in Containers, NEW ip \in fixed[c]
        PROVE  Exists(ipinfo[ip]) /\ \A d \in Containers \ {c} : ip \notin fixed[d]
    <3>1. ip \in IPs /\ ClaimsOnce
      BY <2>1, <2>2 DEF KeptIInv
    <3>2. Has(c, ip) /\ \A d \in Containers : ip \in fixed[d] => Has(d, ip)
      BY DEF Has
    <3> QED BY <3>1, <3>2 DEF ClaimsOnce, Recorded
  <2> QED BY <2>1, <2>2 DEF FixedAddressIsKept, Sound
<1> QED BY <1>1, KeptInductive, PTL DEF SysSpec

-----------------------------------------------------------------------------
(***************************************************************************)
(* Nothing is left behind, when clients wait for their answers and nothing *)
(* fails.  What each process and each record owes to a container:          *)
(*                                                                         *)
(* A container is served by one process at a time.  A record is kept for   *)
(* the container or process that has the address; it says in use while     *)
(* dockerd or the driver uses it, and its borrowers are the containers     *)
(* that have the address, but for the one whose create is about to borrow  *)
(* it, and the one whose release is about to return it.  Every address     *)
(* Calico has allocated has a record, a container or a process that will   *)
(* free it.                                                                *)
(***************************************************************************)

\* Clients wait for their answers, nothing fails, and containers are created, with the
\* addresses barrel chooses or with none, started, stopped and removed.
Clean ==
    /\ Faults = {} /\ Overlap = FALSE /\ Specified = {}
    /\ Requests \subseteq {"create", "remove", "prune"}

\* The containers p's job is about.
Serves(p) == {c \in Containers : c = job[p].c \/ c \in job[p].victims}

\* Where p's job stands, and what dockerd has done with its container.
PlaceOK(p) ==
    LET j == job[p]
    IN  /\ j.stage \notin {"netalloc", "connect", "disconnect", "get", "update"}
        /\ j.stage = "rollback" => docker[j.c] = "failed"
        /\ j.stage \in {"borrow", "record", "assign", "calico", "unassign", "free", "delete"} =>
              docker[j.c] = "created"
        /\ j.victims # {} => j.stage \in {"info", "return", "unalloc"}
        /\ j.stage \in {"alloc", "dockerd", "calico"} => j.ip = NoIP
        /\ j.stage \in {"borrow", "record"} => j.got = fixed[j.c]
        /\ j.stage = "borrow" => j.addrs \subseteq j.got

\* What p asks of the pool is what its job is about.
AskedOK(p) ==
    call[p].pc # "idle" =>
        /\ job[p].stage \in {"borrow", "return"} => call[p].container = job[p].c
        /\ job[p].stage = "borrow" => call[p].ip \in job[p].got \ job[p].addrs
        /\ job[p].stage = "return" => call[p].ip = job[p].ip

\* What the driver works on is a fixed address of its container, or has no record.
DriverOK(p) ==
    LET j == job[p]
    IN  /\ j.stage = "assign" =>
              /\ j.ip \in fixed[j.c]
              /\ call[p].pc = "idle" => call[p].err # "ErrFixedIPNotAllocated"
        /\ j.stage = "unassign" =>
              /\ Recorded(j.ip) => j.ip \in fixed[j.c]
              /\ call[p].pc = "idle" /\ ~Recorded(j.ip) => call[p].err = "ErrFixedIPNotAllocated"

\* What an operation writes back, from what it read.
Change(f) ==
    CASE f.op = "AssignFixedIP"   -> Mark(f.read.val, {"InUse"})
      [] f.op = "UnassignFixedIP" -> Unmark(f.read.val, {"InUse"})
      [] f.op = "BorrowFixedIP"   -> [f.read.val EXCEPT !.borrowers = @ \cup {f.container}]
      [] f.op = "ReturnFixedIP"   -> [f.read.val EXCEPT !.borrowers = @ \ {f.container}]
      [] OTHER                    -> Mark(f.read.val, {"InUse", "Retired"})

\* Nobody has changed the record since p read it.
UpdateOK(p) ==
    call[p].pc = "update" => call[p].read = ipinfo[call[p].ip] /\ call[p].codec = Change(call[p])

\* A container has one process at a time.
OneServer == \A p, q \in Procs : Serves(p) \cap Serves(q) # {} => p = q

\* The ContainerInfo of c lists its addresses, from the end of its create to its release.
ContainerOK(c) ==
    /\ conf[c] = fixed[c]
    /\ docker[c] # "created" => held[c] = {}
    /\ docker[c] = "created" =>
          \/ Exists(cinfo[c]) /\ cinfo[c].val = fixed[c]
          \/ \E p \in Procs : job[p].c = c /\ job[p].stage \in {"borrow", "record"}
    /\ Exists(cinfo[c]) =>
          \/ docker[c] = "created"
          \/ \E p \in Procs : (job[p].c = c /\ job[p].stage = "info") \/ c \in job[p].victims
    /\ \A ip \in held[c] : Recorded(ip) => ip \in fixed[c]

\* p has yet to enter its container as a borrower of ip, or to take it off.
ToBorrow(p, ip) ==
    job[p].stage = "borrow" /\ (ip \in job[p].addrs \/ (call[p].pc # "idle" /\ call[p].ip = ip))
ToReturn(p, ip) ==
    \/ job[p].stage \in {"return", "unalloc"} /\ ip \in job[p].addrs
    \/ job[p].stage = "return" /\ job[p].ip = ip /\ call[p].pc # "idle"

\* c should be among the borrowers of ip.
Borrows(c, ip) ==
    \/ Has(c, ip) /\ \A p \in Procs : ~ToBorrow(p, ip)
    \/ \E p \in Procs : job[p].c = c /\ ToReturn(p, ip)

\* Somebody will delete the record of ip.
ForSomebody(ip) == (\E c \in Containers : Has(c, ip)) \/ (\E p \in Procs : Claims(p, ip))

\* A record is kept for somebody, says in use while it is used, and names its borrowers.
RecordOK(ip) ==
    Recorded(ip) =>
        /\ ForSomebody(ip)
        /\ MarkedInUse(ip) => Used(ip)
        /\ \A c \in Containers : c \in ipinfo[ip].val.borrowers <=> Borrows(c, ip)

\* p takes ip from its container, or gives it back to Calico.
Giving(p, ip) == job[p].stage \in {"unassign", "free"} /\ job[p].ip = ip

\* Somebody will free ip.
Accounted(ip) ==
    \/ Recorded(ip)
    \/ \E p \in Procs : Owns(p, ip) \/ Giving(p, ip)
    \/ \E c \in Containers : ip \in held[c]

\* All that Calico has allocated is.
AllAccounted == \A a \in calico : \E ip \in IPs : ip.Address = a /\ Accounted(ip)

\* The invariant, beside KeptIInv.
CleanInd ==
    /\ Sound
    /\ OneServer
    /\ \A p \in Procs : PlaceOK(p) /\ AskedOK(p) /\ DriverOK(p) /\ UpdateOK(p)
    /\ \A c \in Containers : ContainerOK(c)
    /\ \A ip \in IPs : RecordOK(ip)
    /\ AllAccounted

-----------------------------------------------------------------------------
(***************************************************************************)
(* What the invariant says of a process inside the pool                    *)
(***************************************************************************)

\* The parts that the steps use.
LEMMA CleanParts ==
    ASSUME KeptIInv, CleanInd, NEW p \in Procs
    PROVE  /\ SysIInv /\ IInv /\ TypeOK /\ WorldOK /\ VersionInv /\ DockerInv /\ InfoInv
           /\ OwnedOnce /\ UsedOnce /\ ClaimsOnce
           /\ call \in [Procs -> Frame] /\ job \in [Procs -> Job]
           /\ call[p] \in Frame /\ job[p] \in Job /\ GoodJob(job[p])
           /\ Linked(p) /\ Prepared(p) /\ DockerOf(docker, job[p])
           /\ PlaceOK(p) /\ AskedOK(p) /\ DriverOK(p) /\ UpdateOK(p)
<1>1. SysIInv /\ DockerInv /\ InfoInv /\ ClaimsOnce
  BY DEF KeptIInv, CleanInd
<1>2. OwnedOnce /\ UsedOnce /\ VersionInv
  BY <1>1 DEF SysIInv, CleanInd, Sound
<1>3. IInv /\ TypeOK /\ WorldOK /\ Linked(p) /\ Prepared(p) /\ GoodJob(job[p]) /\ job \in [Procs -> Job]
  BY <1>1, SysParts
<1>4. call \in [Procs -> Frame]
  BY <1>3 DEF TypeOK
<1>5. PlaceOK(p) /\ AskedOK(p) /\ DriverOK(p) /\ UpdateOK(p)
  BY DEF CleanInd
<1> QED BY <1>1, <1>2, <1>3, <1>4, <1>5 DEF DockerInv

\* The stages of a process inside the pool.
LEMMA PoolStages ==
    ASSUME SysIInv, NEW p \in Procs, call[p].pc # "idle"
    PROVE  /\ call[p].pc \in {"auto", "put", "undo"} => job[p].stage \in {"alloc", "netalloc"}
           /\ call[p].pc \in {"delete", "free"} => job[p].stage \in {"rollback", "unalloc"}
           /\ call[p].pc \in {"get", "update"} =>
                 job[p].stage \in {"rollback", "unalloc", "borrow", "return", "assign", "unassign"}
           /\ call[p].pc # "alloc"
           /\ call[p].op = OpOf(job[p].stage)
<1>1. /\ call[p] \in Frame /\ call[p].op = OpOf(job[p].stage) /\ Prepared(p)
  BY SysParts DEF Linked
<1>2. call[p].op \in Ops
  BY <1>1 DEF Frame
<1>3. job[p].stage \in {"alloc", "netalloc", "rollback", "unalloc", "borrow", "return", "assign", "unassign"}
  BY <1>1, <1>2 DEF OpOf, Ops
<1> QED BY <1>1, <1>3 DEF Prepared, OpOf

\* Whose address p works on: its own, or that of its container.
LEMMA WorksOn ==
    ASSUME KeptIInv, CleanInd, NEW p \in Procs, call[p].pc \in {"get", "update", "delete"},
           Recorded(call[p].ip)
    PROVE  /\ call[p].ip \in IPs /\ job[p].c \in Containers
           /\ job[p].stage \in {"rollback", "unalloc", "return"} => AtHand(p, call[p].ip)
           /\ job[p].stage \in {"borrow", "assign", "unassign"} =>
                 Has(job[p].c, call[p].ip) /\ call[p].ip \in fixed[job[p].c]
           /\ job[p].stage \in {"rollback", "unalloc", "return", "borrow", "assign", "unassign"}
<1>1. /\ SysIInv /\ Linked(p) /\ PlaceOK(p) /\ AskedOK(p) /\ DriverOK(p) /\ TypeOK
  BY CleanParts
<1>2. job[p].stage \in {"rollback", "unalloc", "return", "borrow", "assign", "unassign"}
  BY <1>1, PoolStages
<1>3. call[p].ip \in IPs /\ job[p].c \in Containers
  BY <1>1, <1>2 DEF TypeOK, Linked, GoodJob
<1>4. CASE job[p].stage \in {"rollback", "unalloc", "return"}
  BY <1>1, <1>3, <1>4 DEF AtHand, AskedOK
<1>5. CASE job[p].stage \in {"borrow", "assign", "unassign"}
  <2>1. call[p].ip \in fixed[job[p].c]
    BY <1>1, <1>5 DEF AskedOK, PlaceOK, DriverOK, Linked
  <2> QED BY <1>2, <1>3, <1>5, <2>1 DEF Has
<1> QED BY <1>2, <1>3, <1>4, <1>5

\* Nobody else works on it.
LEMMA WorksAlone ==
    ASSUME KeptIInv, CleanInd, NEW p \in Procs, NEW q \in Procs, Recorded(call[p].ip),
           call[p].pc \in {"get", "update", "delete"}, call[q].pc \in {"get", "update", "delete"},
           call[q].ip = call[p].ip
    PROVE  p = q
<1>1. ClaimsOnce /\ OneServer
  BY CleanParts DEF CleanInd
<1>2. PICK ip : ip = call[p].ip
  OBVIOUS
<1>3. /\ ip \in IPs /\ job[p].c \in Containers /\ job[q].c \in Containers
      /\ Claims(p, ip) \/ Has(job[p].c, ip)
      /\ Claims(q, ip) \/ Has(job[q].c, ip)
  BY <1>2, WorksOn DEF Claims
<1>4. CASE Claims(p, ip) \/ Claims(q, ip)
  BY <1>1, <1>3, <1>4 DEF ClaimsOnce
<1>5. CASE Has(job[p].c, ip) /\ Has(job[q].c, ip)
  <2>1. job[p].c = job[q].c
    BY <1>1, <1>3, <1>5 DEF ClaimsOnce
  <2>2. job[p].c \in Serves(p) /\ job[p].c \in Serves(q)
    BY <1>3, <2>1 DEF Serves
  <2> QED BY <1>1, <2>2 DEF OneServer
<1> QED BY <1>3, <1>4, <1>5

\* An update is always written, and what it writes is Change.
LEMMA UpdateWritten ==
    ASSUME KeptIInv, CleanInd, NEW p \in Procs, Update(p)
    PROVE  /\ call[p].pc = "update" /\ call[p].ip \in IPs /\ Recorded(call[p].ip)
           /\ ipinfo' = [ipinfo EXCEPT ![call[p].ip] = PutSlot(@, Change(call[p]))]
           /\ call[p].read = ipinfo[call[p].ip]
           /\ call[p].op = "UnallocFixedIP" => Goto(p, "delete")
           /\ call[p].op # "UnallocFixedIP" => Return(p, "nil")
           /\ UNCHANGED calico /\ ~Unprotected(p)
<1>1. /\ IInv /\ TypeOK /\ VersionInv /\ UpdateOK(p) /\ call[p].pc = "update"
  BY CleanParts DEF Update
<1>2. /\ call[p].read = ipinfo[call[p].ip] /\ call[p].codec = Change(call[p])
      /\ call[p].ip \in IPs /\ Exists(call[p].read) /\ ipinfo[call[p].ip] \in Slot(IPInfo)
  BY <1>1, Working DEF UpdateOK, VersionInv, ReadOK
<1>3. /\ Txn(p).slot = PutSlot(ipinfo[call[p].ip], Change(call[p])) /\ Txn(p).ok /\ Txn(p).err = "nil"
  BY <1>2 DEF Txn, UpdateElseGet, KeyError
<1>4. ipinfo' = [ipinfo EXCEPT ![call[p].ip] = PutSlot(@, Change(call[p]))] /\ UNCHANGED calico
  BY <1>3 DEF Update
<1>5. AfterUpdate(p, TRUE, "nil")
  BY <1>3 DEF Update
<1>6. /\ call[p].op = "UnallocFixedIP" => Goto(p, "delete")
      /\ call[p].op # "UnallocFixedIP" => Return(p, "nil")
  BY <1>5 DEF AfterUpdate
<1>7. ipinfo'[call[p].ip].rev = ipinfo[call[p].ip].rev + 1 /\ ipinfo[call[p].ip].rev \in Nat
  BY <1>1, <1>2, <1>4 DEF TypeOK, PutSlot, Slot
<1>8. ipinfo' # ipinfo
  BY <1>7
<1>9. ~Unprotected(p)
  BY <1>1, <1>2, <1>8 DEF Unprotected, SameIncarnation
<1> QED BY <1>1, <1>2, <1>4, <1>6, <1>9 DEF Recorded

\* Who is to enter a borrower has it, and who is to take one off claims it.
LEMMA ToDo ==
    ASSUME KeptIInv, CleanInd, NEW q \in Procs, NEW ip \in IPs
    PROVE  /\ ToBorrow(q, ip) => job[q].c \in Containers /\ Has(job[q].c, ip)
           /\ ToReturn(q, ip) => Claims(q, ip)
<1>1. PlaceOK(q) /\ AskedOK(q) /\ GoodJob(job[q])
  BY CleanParts
<1>2. ASSUME ToBorrow(q, ip) PROVE job[q].c \in Containers /\ Has(job[q].c, ip)
  <2>1. job[q].stage = "borrow" /\ job[q].c \in Containers /\ ip \in job[q].got
    BY <1>1, <1>2 DEF ToBorrow, PlaceOK, AskedOK, GoodJob
  <2> QED BY <1>1, <2>1 DEF PlaceOK, Has
<1>3. ToReturn(q, ip) => Claims(q, ip)
  BY DEF ToReturn, Claims, Pending, AtHand
<1> QED BY <1>2, <1>3

\* What a process gives back is neither in use nor borrowed.
LEMMA NothingInTheWay ==
    ASSUME KeptIInv, CleanInd, NEW p \in Procs, NEW ip \in IPs, Recorded(ip), AtHand(p, ip)
    PROVE  /\ MarkedInUse(ip) => call[p].pc = "delete"
           /\ \A c \in ipinfo[ip].val.borrowers : job[p].stage = "return" /\ c = job[p].c
<1>1. /\ ClaimsOnce /\ UsedOnce /\ TypeOK /\ RecordOK(ip)
      /\ \A c \in Containers : ContainerOK(c)
      /\ \A q \in Procs : DriverOK(q) /\ GoodJob(job[q])
  BY CleanParts DEF CleanInd
<1>2. /\ Claims(p, ip)
      /\ \A q \in Procs : Claims(q, ip) => q = p
      /\ \A c \in Containers : ~Has(c, ip)
      /\ ~Pending(p, ip)
  BY <1>1 DEF Claims, ClaimsOnce
<1>3. ASSUME MarkedInUse(ip) PROVE call[p].pc = "delete"
  <2>1. Used(ip)
    BY <1>1, <1>3 DEF RecordOK
  <2>2. \A c \in Containers : ip \notin held[c]
    BY <1>1, <1>2 DEF ContainerOK, Has
  <2>3. PICK q \in Procs : Busy(q, ip)
    BY <2>1, <2>2 DEF Used
  <2>4. ~Granted(q, ip) /\ ~Unmarking(q, ip)
    BY <1>1, <1>2 DEF Granted, Unmarking, DriverOK, GoodJob, Has
  <2>5. ~Freeing(q, ip)
    BY <1>1 DEF UsedOnce
  <2>6. Deleting(q, ip)
    BY <2>3, <2>4, <2>5 DEF Busy
  <2>7. Claims(q, ip) /\ call[q].pc = "delete"
    BY <2>6, UnallocStages, CleanParts DEF Claims, AtHand, Deleting
  <2> QED BY <1>2, <2>7
<1>4. ASSUME NEW c \in ipinfo[ip].val.borrowers PROVE job[p].stage = "return" /\ c = job[p].c
  <2>1. c \in Containers
    BY <1>1 DEF TypeOK, Slot, IPInfo
  <2>2. Borrows(c, ip)
    BY <1>1, <1>4, <2>1 DEF RecordOK
  <2>3. PICK q \in Procs : job[q].c = c /\ ToReturn(q, ip)
    BY <1>2, <2>1, <2>2 DEF Borrows
  <2>4. q = p
    BY <1>2, <2>3, ToDo
  <2> QED BY <1>2, <2>3, <2>4 DEF ToReturn, Pending
<1> QED BY <1>3, <1>4

\* Away from p's address nothing changes for anybody.
LEMMA Elsewhere ==
    ASSUME KeptIInv, CleanInd, SysIInv', NEW p \in Procs, Alone(p), UNCHANGED <<world, job>>,
           MovesOn(p), NEW ip \in IPs, ip # call[p].ip, ipinfo'[ip] = ipinfo[ip]
    PROVE  RecordOK(ip)'
<1>1. /\ RecordOK(ip) /\ Linked(p) /\ Prepared(p) /\ call[p].pc # "idle" /\ SysIInv
  BY CleanParts DEF CleanInd, MovesOn
<1>2. /\ UNCHANGED <<fixed, held, cinfo, job>> /\ JobAlone(p)
  BY DEF world, JobAlone
<1>3. \A q \in Procs \ {p} : /\ Claims(q, ip)' <=> Claims(q, ip)
                             /\ Busy(q, ip)' <=> Busy(q, ip)
                             /\ call'[q] = call[q]
  BY <1>2, OthersClaim, OthersHold DEF Alone
<1>4. /\ call[p].op = OpOf(job[p].stage)
      /\ call'[p].pc = "delete" => job[p].stage \in {"rollback", "unalloc"}
      /\ job[p].stage \in {"alloc", "netalloc"} <=> call[p].op = "AllocFixedIPFromPools"
      /\ job[p].stage \in {"assign", "unassign"} => call[p].ip = job[p].ip
      /\ job[p].stage # "free"
  <2>1. /\ call'[p].pc = "delete" => call'[p].op = "UnallocFixedIP"
        /\ call'[p].pc # "idle" => call'[p].op = OpOf(job'[p].stage)
    BY DEF SysIInv, Prepared, Linked
  <2>2. call[p].op = OpOf(job[p].stage) /\ call[p] \in Frame
    BY <1>1, SysParts DEF Linked
  <2>3. call[p].op \in Ops
    BY <2>2 DEF Frame
  <2> QED BY <1>1, <1>2, <2>1, <2>2, <2>3, StageOps DEF OpOf, Linked
<1>5. Claims(p, ip)' <=> Claims(p, ip)
  <2>1. Pending(p, ip)' <=> Pending(p, ip)
    BY <1>2 DEF Pending
  <2>2. AtHand(p, ip)' <=> AtHand(p, ip)
    BY <1>1, <1>2, <1>4 DEF AtHand, MovesOn
  <2>3. Making(p, ip)' <=> Making(p, ip)
    BY <1>1, <1>2, <1>4 DEF Making, MovesOn, Ok
  <2> QED BY <2>1, <2>2, <2>3 DEF Claims
<1>6. Busy(p, ip)' <=> Busy(p, ip)
  <2>1. ~Granted(p, ip)' /\ ~Granted(p, ip) /\ ~Freeing(p, ip)' /\ ~Freeing(p, ip)
    BY <1>2, <1>4 DEF Granted, Freeing
  <2>2. ~Unmarking(p, ip)' /\ ~Unmarking(p, ip)
    BY <1>2, <1>4 DEF Unmarking
  <2>3. ~Deleting(p, ip)' /\ ~Deleting(p, ip)
    BY <1>4 DEF Deleting, MovesOn
  <2> QED BY <2>1, <2>2, <2>3 DEF Busy
<1>7. /\ ToBorrow(p, ip)' <=> ToBorrow(p, ip)
      /\ ToReturn(p, ip)' <=> ToReturn(p, ip)
  <2>1. ToBorrow(p, ip)' <=> ToBorrow(p, ip)
    BY <1>1, <1>2, <1>4 DEF ToBorrow, MovesOn
  <2>2. call[p].pc # "idle" /\ job[p].stage = "return" => call[p].ip = job[p].ip
    BY CleanParts DEF AskedOK
  <2>3. ToReturn(p, ip)' <=> ToReturn(p, ip)
    BY <1>1, <1>2, <2>2 DEF ToReturn
  <2> QED BY <2>1, <2>3
<1>8. \A q \in Procs \ {p} : /\ ToBorrow(q, ip)' <=> ToBorrow(q, ip)
                             /\ ToReturn(q, ip)' <=> ToReturn(q, ip)
  BY <1>2, <1>3 DEF ToBorrow, ToReturn
<1>9. \A c \in Containers : Has(c, ip)' <=> Has(c, ip)
  BY <1>2 DEF Has, Listed, Listing
<1>10. \A c \in Containers : Borrows(c, ip)' <=> Borrows(c, ip)
  BY <1>2, <1>7, <1>8, <1>9 DEF Borrows
<1>11. ForSomebody(ip)' <=> ForSomebody(ip)
  BY <1>3, <1>5, <1>9 DEF ForSomebody
<1>12. Used(ip)' <=> Used(ip)
  BY <1>2, <1>3, <1>6 DEF Used
<1> QED BY <1>1, <1>10, <1>11, <1>12 DEF RecordOK, Recorded, MarkedInUse

\* What a step of p inside the pool must show.
PoolClean(p) ==
    /\ KeepsTrack(p) /\ ~Unprotected(p)
    /\ AskedOK(p)' /\ DriverOK(p)' /\ UpdateOK(p)'
    /\ \A ip \in IPs :
          /\ ipinfo'[ip] # ipinfo[ip] => ip = call[p].ip /\ call[p].pc \in {"put", "update", "delete"}
          /\ Recorded(ip)' /\ ~Recorded(ip) => Owns(p, ip)
          /\ Recorded(ip) /\ ~Recorded(ip)' => Deleting(p, ip)
          /\ ip = call[p].ip => RecordOK(ip)'

\* Nobody but p and the owners of its address notices.
LEMMA PoolCleanKeeps ==
    ASSUME Clean, KeptIInv, CleanInd, SysIInv', NEW p \in Procs, Step(p), UNCHANGED <<world, job>>,
           PoolClean(p), Remembered
    PROVE  CleanInd'
<1>1. /\ SysIInv /\ TypeOK /\ ClaimsOnce /\ UsedOnce /\ OwnedOnce
      /\ UNCHANGED <<docker, conf, fixed, held, cinfo, job>>
  BY CleanParts DEF world
<1>2. Alone(p) /\ MovesOn(p)
  BY <1>1, OneMoves, PoolAdvances
<1>3. Sound'
  <2>1. \A q \in Procs \ {p} : ~Unprotected(q)
    BY <1>2 DEF Alone, Unprotected
  <2>2. \A q \in Procs : ~ConnectUnanswered(q)
    BY DEF Clean, ConnectUnanswered
  <2> QED BY <2>1, <2>2 DEF CleanInd, PoolClean, Sound, Remembered
<1>4. OneServer' /\ \A q \in Procs : PlaceOK(q)'
  BY <1>1 DEF CleanInd, OneServer, Serves, PlaceOK
<1>5. ASSUME NEW q \in Procs PROVE AskedOK(q)' /\ DriverOK(q)' /\ UpdateOK(q)'
  <2>1. CASE q = p
    BY <2>1 DEF PoolClean
  <2>2. CASE q # p
    <3>1. /\ call'[q] = call[q] /\ AskedOK(q) /\ DriverOK(q) /\ UpdateOK(q)
          /\ Linked(q) /\ Prepared(q) /\ GoodJob(job[q]) /\ call[q] \in Frame
      BY <1>2, <2>2, CleanParts DEF Alone
    <3>2. AskedOK(q)'
      BY <1>1, <3>1 DEF AskedOK
    <3>3. DriverOK(q)'
      <4>1. CASE job[q].stage = "unassign"
        <5>1. PICK ip \in IPs : ip = job[q].ip
          BY <3>1, <4>1 DEF GoodJob
        <5>2. call[q].pc # "idle" => call[q].op = "UnassignFixedIP" /\ call[q].pc \in {"get", "update"}
          <6>1. call[q].pc # "idle" => call[q].op = "UnassignFixedIP"
            BY <3>1, <4>1 DEF Linked, OpOf
          <6> QED BY <3>1, <6>1 DEF Prepared, Frame, PCs
        <5>3. ~Recorded(ip) => Busy(q, ip)
          BY <3>1, <4>1, <5>1, <5>2 DEF DriverOK, Busy, Freeing, Unmarking
        <5>4. ~Recorded(ip) => ~Owns(p, ip)
          BY <1>1, <5>3 DEF UsedOnce, UsedPair, Used
        <5>5. ~(Recorded(ip) /\ Deleting(p, ip))
          <6>1. Recorded(ip) => Has(job[q].c, ip) /\ job[q].c \in Containers
            BY <3>1, <4>1, <5>1 DEF DriverOK, Has, GoodJob
          <6>2. Deleting(p, ip) => Claims(p, ip)
            BY <1>1, UnallocStages DEF Deleting, Claims, AtHand
          <6> QED BY <1>1, <6>1, <6>2 DEF ClaimsOnce
        <5>6. Recorded(ip)' <=> Recorded(ip)
          BY <5>4, <5>5 DEF PoolClean
        <5> QED BY <1>1, <3>1, <4>1, <5>1, <5>6 DEF DriverOK
      <4>2. CASE job[q].stage # "unassign"
        BY <1>1, <3>1, <4>2 DEF DriverOK
      <4> QED BY <4>1, <4>2
    <3>4. UpdateOK(q)'
      <4>1. CASE call[q].pc = "update"
        <5>1. PICK ip \in IPs : ip = call[q].ip
          BY <1>1, <4>1 DEF TypeOK
        <5>2. call[q].read = ipinfo[ip] /\ call[q].codec = Change(call[q]) /\ Recorded(ip)
          BY <1>1, <3>1, <4>1, <5>1 DEF UpdateOK, SysIInv, VersionInv, ReadOK, Recorded
        <5>3. ipinfo'[ip] = ipinfo[ip]
          <6>1. SUFFICES ASSUME ipinfo'[ip] # ipinfo[ip] PROVE FALSE
            OBVIOUS
          <6>2. call[p].ip = ip /\ call[p].pc \in {"put", "update", "delete"}
            BY <6>1 DEF PoolClean
          <6>3. call[p].pc # "put"
            BY <1>1, <5>2, <6>2 DEF OwnedOnce, Owns, Recorded
          <6> QED BY <2>2, <4>1, <5>1, <5>2, <6>2, <6>3, WorksAlone
        <5> QED BY <3>1, <5>1, <5>2, <5>3 DEF UpdateOK
      <4>2. CASE call[q].pc # "update"
        BY <3>1, <4>2 DEF UpdateOK
      <4> QED BY <4>1, <4>2
    <3> QED BY <3>2, <3>3, <3>4
  <2> QED BY <2>1, <2>2
<1>6. ASSUME NEW c \in Containers PROVE ContainerOK(c)'
  <2>1. ContainerOK(c)
    BY DEF CleanInd
  <2>2. \A ip \in held[c] : Recorded(ip)' => Recorded(ip)
    <3> SUFFICES ASSUME NEW ip \in held[c], Recorded(ip)', ~Recorded(ip) PROVE FALSE
      OBVIOUS
    <3>1. ip \in IPs
      BY <1>1, CleanParts DEF WorldOK
    <3>2. Owns(p, ip) /\ Used(ip)
      BY <3>1 DEF PoolClean, Used
    <3> QED BY <1>1, <3>1, <3>2 DEF UsedOnce, UsedPair
  <2> QED BY <1>1, <2>1, <2>2 DEF ContainerOK
<1>7. ASSUME NEW ip \in IPs PROVE RecordOK(ip)'
  <2>1. CASE ip = call[p].ip
    BY <2>1 DEF PoolClean
  <2>2. CASE ip # call[p].ip
    BY <1>2, <2>2, Elsewhere DEF PoolClean
  <2> QED BY <2>1, <2>2
<1>8. AllAccounted'
  <2> SUFFICES ASSUME NEW a \in calico'
               PROVE  \E ip \in IPs : ip.Address = a /\ Accounted(ip)'
    BY DEF AllAccounted
  <2>1. CASE a \notin calico
    BY <2>1 DEF PoolClean, KeepsTrack, Accounted
  <2>2. CASE a \in calico
    <3>1. PICK ip \in IPs : ip.Address = a /\ Accounted(ip)
      BY <2>2 DEF CleanInd, AllAccounted
    <3>2. \A q \in Procs \ {p} : Owns(q, ip)' <=> Owns(q, ip)
      BY <1>2, AloneOwns
    <3>3. \A q \in Procs : Giving(q, ip)' <=> Giving(q, ip)
      BY <1>1 DEF Giving
    <3>4. CASE Recorded(ip) \/ Owns(p, ip)
      BY <3>1, <3>4 DEF PoolClean, KeepsTrack, Accounted
    <3>5. CASE ~Recorded(ip) /\ ~Owns(p, ip)
      BY <1>1, <3>1, <3>2, <3>3, <3>5 DEF Accounted
    <3> QED BY <3>1, <3>4, <3>5
  <2> QED BY <2>1, <2>2
<1> QED BY <1>3, <1>4, <1>5, <1>6, <1>7, <1>8 DEF CleanInd

\* The record of an address that a step leaves alone, with its users and borrowers.
LEMMA SameRecordOK ==
    ASSUME CleanInd, NEW p \in Procs, Alone(p), UNCHANGED <<world, job>>,
           NEW ip \in IPs, ipinfo'[ip] = ipinfo[ip],
           Claims(p, ip) => Claims(p, ip)',
           MarkedInUse(ip) /\ Busy(p, ip) => Busy(p, ip)',
           ToBorrow(p, ip)' <=> ToBorrow(p, ip), ToReturn(p, ip)' <=> ToReturn(p, ip)
    PROVE  RecordOK(ip)'
<1>1. UNCHANGED <<fixed, held, cinfo, job>> /\ JobAlone(p)
  BY DEF world, JobAlone
<1>2. \A q \in Procs \ {p} : /\ Claims(q, ip)' <=> Claims(q, ip)
                             /\ Busy(q, ip)' <=> Busy(q, ip)
                             /\ call'[q] = call[q]
  BY <1>1, OthersClaim, OthersHold DEF Alone
<1>3. \A q \in Procs : /\ ToBorrow(q, ip)' <=> ToBorrow(q, ip)
                       /\ ToReturn(q, ip)' <=> ToReturn(q, ip)
  BY <1>1, <1>2 DEF ToBorrow, ToReturn
<1>4. \A c \in Containers : Has(c, ip)' <=> Has(c, ip)
  BY <1>1 DEF Has, Listed, Listing
<1>5. \A c \in Containers : Borrows(c, ip)' <=> Borrows(c, ip)
  BY <1>1, <1>3, <1>4 DEF Borrows
<1>6. ForSomebody(ip) => ForSomebody(ip)'
  BY <1>2, <1>4 DEF ForSomebody
<1>7. MarkedInUse(ip) /\ Used(ip) => Used(ip)'
  BY <1>1, <1>2 DEF Used
<1>8. RecordOK(ip)
  BY DEF CleanInd
<1> QED BY <1>5, <1>6, <1>7, <1>8 DEF RecordOK, Recorded, MarkedInUse

\* After GetFixedIP an operation changes the record, unless there is none, dockerd asks
\* for an address in use, or one is given back that is not.
LEMMA GotOutcome ==
    ASSUME KeptIInv, CleanInd, NEW p \in Procs,
           \/ NotAllocated(p) \/ AssignFixedIP(p) \/ UnassignFixedIP(p) \/ BorrowFixedIP(p)
           \/ ReturnFixedIP(p) \/ UnallocFixedIP(p) \/ AllocFixedIP(p),
           NEW ip \in IPs, ip = call[p].ip
    PROVE  \/ /\ call'[p].pc = "update" /\ call'[p].op = call[p].op /\ call'[p].ip = ip
              /\ call'[p].container = call[p].container
              /\ call'[p].read = ipinfo[ip] /\ call'[p].codec = Change(call'[p])
           \/ Return(p, "ErrFixedIPNotAllocated") /\ ~Recorded(ip)
           \/ Return(p, "ErrIPInUse") /\ job[p].stage = "assign"
           \/ Return(p, "nil") /\ job[p].stage = "unassign" /\ Recorded(ip) /\ ~MarkedInUse(ip)
<1>1. /\ SysIInv /\ TypeOK /\ call[p] \in Frame
  BY CleanParts
<1>2. /\ call[p].pc = "get"
  BY <1>1, GotSteps
<1>3. /\ call[p].op = OpOf(job[p].stage) /\ Info(p) \in IPInfo /\ Info(p) = ipinfo[ip].val
      /\ job[p].stage \in {"rollback", "unalloc", "borrow", "return", "assign", "unassign"}
  BY <1>1, <1>2, PoolStages, InfoType DEF Info
<1>4. ASSUME NEW v \in IPInfo, ToUpdate(p, v)
      PROVE  /\ call'[p].pc = "update" /\ call'[p].op = call[p].op /\ call'[p].ip = ip
             /\ call'[p].container = call[p].container
             /\ call'[p].read = ipinfo[ip] /\ call'[p].codec = v
  <2>1. call'[p] = [call[p] EXCEPT !.pc = "update", !.read = ipinfo[call[p].ip], !.codec = v]
    BY <1>1, <1>2, <1>4, ToUpdateType
  <2> QED BY <1>1, <2>1 DEF Frame
<1>5. CASE NotAllocated(p)
  BY <1>5 DEF NotAllocated, Recorded
<1>6. CASE AssignFixedIP(p)
  <2>1. CASE Match(Info(p), {"InUse"})
    BY <1>3, <1>6, <2>1 DEF AssignFixedIP, Got, OpOf
  <2>2. CASE ~Match(Info(p), {"InUse"})
    <3>1. Mark(Info(p), {"InUse"}) \in IPInfo /\ ToUpdate(p, Mark(Info(p), {"InUse"}))
      BY <1>3, <1>6, <2>2, ValueTypes DEF AssignFixedIP, Flags
    <3>2. call[p].op = "AssignFixedIP"
      BY <1>6 DEF AssignFixedIP, Got
    <3> QED BY <1>3, <1>4, <3>1, <3>2 DEF Change
  <2> QED BY <2>1, <2>2
<1>7. CASE UnassignFixedIP(p)
  <2>1. CASE ~Match(Info(p), {"InUse"})
    <3>1. Return(p, "nil") /\ call[p].op = "UnassignFixedIP" /\ Recorded(ip)
      BY <1>7, <2>1 DEF UnassignFixedIP, Got, Recorded
    <3> QED BY <1>3, <2>1, <3>1 DEF OpOf, Match, MarkedInUse
  <2>2. CASE Match(Info(p), {"InUse"})
    <3>1. Unmark(Info(p), {"InUse"}) \in IPInfo /\ ToUpdate(p, Unmark(Info(p), {"InUse"}))
      BY <1>3, <1>7, <2>2, ValueTypes DEF UnassignFixedIP, Flags
    <3>2. call[p].op = "UnassignFixedIP"
      BY <1>7 DEF UnassignFixedIP, Got
    <3> QED BY <1>3, <1>4, <3>1, <3>2 DEF Change
  <2> QED BY <2>1, <2>2
<1>8. CASE BorrowFixedIP(p)
  <2> DEFINE v == [Info(p) EXCEPT !.borrowers = @ \cup {call[p].container}]
  <2>1. call[p].op = "BorrowFixedIP" /\ ToUpdate(p, v)
    BY <1>8 DEF BorrowFixedIP, Got
  <2>2. v \in IPInfo
    BY <1>1, <1>3, <2>1 DEF IPInfo, TypeOK
  <2>3. /\ call'[p].pc = "update" /\ call'[p].op = call[p].op /\ call'[p].ip = ip
        /\ call'[p].container = call[p].container
        /\ call'[p].read = ipinfo[ip] /\ call'[p].codec = v
    BY <1>4, <2>1, <2>2
  <2>4. v = Change(call'[p])
    BY <1>3, <2>1, <2>3 DEF Change
  <2> QED BY <2>3, <2>4
<1>9. CASE ReturnFixedIP(p)
  <2>0. call[p].op = "ReturnFixedIP" /\ Recorded(ip) /\ job[p].stage = "return"
    BY <1>3, <1>9 DEF ReturnFixedIP, Got, Recorded, OpOf
  <2>1. Info(p).borrowers # {}
    <3>1. job[p].c \in Containers /\ RecordOK(ip) /\ AskedOK(p)
      BY <2>0, CleanParts DEF CleanInd, GoodJob
    <3>2. Borrows(job[p].c, ip)
      BY <1>2, <2>0, <3>1 DEF Borrows, ToReturn, AskedOK
    <3> QED BY <1>3, <2>0, <3>1, <3>2 DEF RecordOK
  <2> DEFINE v == [Info(p) EXCEPT !.borrowers = @ \ {call[p].container}]
  <2>2. v \in IPInfo
    BY <1>3 DEF IPInfo
  <2>3. ToUpdate(p, v)
    BY <1>9, <2>1 DEF ReturnFixedIP
  <2>4. /\ call'[p].pc = "update" /\ call'[p].op = call[p].op /\ call'[p].ip = ip
        /\ call'[p].container = call[p].container
        /\ call'[p].read = ipinfo[ip] /\ call'[p].codec = v
    BY <1>4, <2>2, <2>3
  <2>5. v = Change(call'[p])
    BY <1>3, <2>0, <2>4 DEF Change
  <2> QED BY <2>4, <2>5
<1>10. CASE UnallocFixedIP(p)
  <2>1. call[p].op = "UnallocFixedIP" /\ Recorded(ip) /\ job[p].stage \in {"rollback", "unalloc"}
    BY <1>3, <1>10 DEF UnallocFixedIP, Got, Recorded, OpOf
  <2>2. AtHand(p, ip)
    BY <1>2, <2>1 DEF AtHand
  <2>3. ~Match(Info(p), {"InUse"}) /\ Info(p).borrowers = {}
    <3>1. /\ MarkedInUse(ip) => call[p].pc = "delete"
          /\ \A c \in ipinfo[ip].val.borrowers : job[p].stage = "return"
      BY <2>1, <2>2, NothingInTheWay
    <3> QED BY <1>2, <1>3, <2>1, <3>1 DEF MarkedInUse, Match
  <2>4. /\ Mark(Info(p), {"InUse", "Retired"}) \in IPInfo
        /\ ToUpdate(p, Mark(Info(p), {"InUse", "Retired"}))
    BY <1>3, <1>10, <2>3, ValueTypes DEF UnallocFixedIP, Flags
  <2> QED BY <1>3, <1>4, <2>1, <2>4 DEF Change
<1>11. ~AllocFixedIP(p)
  BY <1>3, StageOps DEF AllocFixedIP
<1> QED BY <1>5, <1>6, <1>7, <1>8, <1>9, <1>10, <1>11

\* The steps after GetFixedIP.
LEMMA GotClean ==
    ASSUME KeptIInv, CleanInd, NEW p \in Procs, UNCHANGED <<world, job>>, Alone(p), MovesOn(p),
           \/ NotAllocated(p) \/ AssignFixedIP(p) \/ UnassignFixedIP(p) \/ BorrowFixedIP(p)
           \/ ReturnFixedIP(p) \/ UnallocFixedIP(p) \/ AllocFixedIP(p)
    PROVE  PoolClean(p)
<1>1. /\ SysIInv /\ IInv /\ TypeOK /\ AskedOK(p) /\ DriverOK(p) /\ Linked(p) /\ GoodJob(job[p])
      /\ UNCHANGED <<fixed, held, job>>
  BY CleanParts DEF world
<1>2. call[p].pc = "get" /\ UNCHANGED <<ipinfo, calico>>
  BY <1>1, GotSteps
<1>3. PICK ip \in IPs : ip = call[p].ip
  BY <1>1, <1>2 DEF TypeOK
<1>4. /\ job[p].stage \in {"rollback", "unalloc", "borrow", "return", "assign", "unassign"}
      /\ job[p].stage \in {"assign", "unassign"} => job[p].ip = ip
  BY <1>1, <1>2, <1>3, PoolStages DEF Linked
<1>5. KeepsTrack(p) /\ ~Unprotected(p)
  BY <1>1, <1>2, LocalTrack DEF Unprotected
<1>6. \A jp \in IPs : ipinfo'[jp] = ipinfo[jp] /\ (Recorded(jp)' <=> Recorded(jp))
  BY <1>2 DEF Recorded
<1>7. /\ AskedOK(p)' /\ DriverOK(p)' /\ UpdateOK(p)' /\ RecordOK(ip)'
  <2>1. CASE /\ call'[p].pc = "update" /\ call'[p].op = call[p].op /\ call'[p].ip = ip
             /\ call'[p].container = call[p].container
             /\ call'[p].read = ipinfo[ip] /\ call'[p].codec = Change(call'[p])
    <3>1. AskedOK(p)' /\ DriverOK(p)' /\ UpdateOK(p)'
      <4>1. AskedOK(p)'
        BY <1>1, <1>2, <1>3, <2>1 DEF AskedOK
      <4>2. DriverOK(p)'
        BY <1>1, <1>4, <1>6, <2>1 DEF DriverOK
      <4>3. UpdateOK(p)'
        BY <1>2, <2>1 DEF UpdateOK
      <4> QED BY <4>1, <4>2, <4>3
    <3>2. Claims(p, ip) => Claims(p, ip)'
      BY <1>1, <1>2, <1>3, <2>1 DEF Claims, AtHand, Pending, Making
    <3>3. Busy(p, ip) => Busy(p, ip)'
      BY <1>1, <1>2, <1>3, <1>4, <2>1 DEF Busy, Granted, Freeing, Unmarking, Deleting
    <3>4. /\ ToBorrow(p, ip)' <=> ToBorrow(p, ip)
          /\ ToReturn(p, ip)' <=> ToReturn(p, ip)
      BY <1>1, <1>2, <1>3, <2>1 DEF ToBorrow, ToReturn
    <3> QED BY <1>6, <3>1, <3>2, <3>3, <3>4, SameRecordOK
  <2>2. ASSUME NEW e, Return(p, e)
        PROVE  /\ call'[p].pc = "idle" /\ call'[p].err = e /\ AskedOK(p)' /\ UpdateOK(p)'
    <3>1. call'[p].pc = "idle" /\ call'[p].err = e
      BY <1>1, <2>2, NextFrame
    <3> QED BY <3>1 DEF AskedOK, UpdateOK
  <2>3. CASE Return(p, "ErrFixedIPNotAllocated") /\ ~Recorded(ip)
    <3>1. call'[p].pc = "idle" /\ call'[p].err = "ErrFixedIPNotAllocated" /\ AskedOK(p)' /\ UpdateOK(p)'
      BY <2>2, <2>3
    <3>2. job[p].stage # "assign"
      <4>1. ClaimsOnce
        BY CleanParts
      <4> QED BY <1>1, <1>4, <2>3, <4>1 DEF DriverOK, ClaimsOnce, Has, GoodJob
    <3>3. DriverOK(p)'
      BY <1>1, <1>4, <1>6, <2>3, <3>1, <3>2 DEF DriverOK
    <3> QED BY <1>6, <2>3, <3>1, <3>3 DEF RecordOK
  <2>4. CASE \/ Return(p, "ErrIPInUse") /\ job[p].stage = "assign"
             \/ Return(p, "nil") /\ job[p].stage = "unassign" /\ Recorded(ip) /\ ~MarkedInUse(ip)
    <3>1. call'[p].pc = "idle" /\ call'[p].err # "ErrFixedIPNotAllocated" /\ AskedOK(p)' /\ UpdateOK(p)'
      BY <2>2, <2>4
    <3>2. DriverOK(p)'
      BY <1>1, <1>4, <1>6, <2>4, <3>1 DEF DriverOK
    <3>3. ~Claims(p, ip)
      BY <2>4 DEF Claims, AtHand, Pending, Making
    <3>4. MarkedInUse(ip) => ~Busy(p, ip)
      BY <1>2, <2>4 DEF Busy, Granted, Freeing, Unmarking, Deleting
    <3>5. /\ ToBorrow(p, ip)' <=> ToBorrow(p, ip)
          /\ ToReturn(p, ip)' <=> ToReturn(p, ip)
      BY <1>1, <2>4 DEF ToBorrow, ToReturn
    <3> QED BY <1>6, <3>1, <3>2, <3>3, <3>4, <3>5, SameRecordOK
  <2> QED BY <1>3, <2>1, <2>3, <2>4, GotOutcome
<1> QED BY <1>3, <1>5, <1>6, <1>7 DEF PoolClean

\* What a job that allocates or gives back has to say of its next call.
LEMMA OwnerClean ==
    ASSUME NEW p \in Procs, UNCHANGED job, call'[p].pc # "update",
           job[p].stage \in {"alloc", "netalloc", "rollback", "unalloc"}
    PROVE  AskedOK(p)' /\ DriverOK(p)' /\ UpdateOK(p)'
<1>1. AskedOK(p)'
  BY DEF AskedOK
<1>2. DriverOK(p)'
  BY DEF DriverOK
<1>3. UpdateOK(p)'
  BY DEF UpdateOK
<1> QED BY <1>1, <1>2, <1>3

\* The calls of Calico.
LEMMA CalicoClean ==
    ASSUME KeptIInv, CleanInd, NEW p \in Procs, UNCHANGED <<world, job>>, Alone(p), MovesOn(p),
           AllocIPFromPools(p) \/ UnallocIP(p)
    PROVE  PoolClean(p)
<1>1. /\ SysIInv /\ IInv /\ TypeOK /\ OwnedOnce /\ UNCHANGED job
  BY CleanParts
<1>2. /\ call[p].pc \in {"auto", "free", "undo"} /\ UNCHANGED ipinfo
      /\ job[p].stage \in {"alloc", "netalloc", "rollback", "unalloc"}
  BY <1>1, PoolStages DEF AllocIPFromPools, UnallocIP
<1>3. KeepsTrack(p) /\ ~Unprotected(p)
  BY <1>1, <1>2, CalicoTrack DEF Unprotected
<1>4. call'[p].pc # "update"
  <2>1. CASE UnallocIP(p)
    BY <1>1, <2>1, NextFrame DEF UnallocIP
  <2>2. CASE AllocIPFromPools(p)
    <3>1. CASE Return(p, "ErrCalico")
      BY <1>1, <3>1, NextFrame
    <3>2. CASE call' = [call EXCEPT ![p].pools = Tail(@)]
      BY <1>1, <1>2, <3>2, NextFrame
    <3>3. ASSUME NEW jp, call' = [call EXCEPT ![p].pc = "put", ![p].ip = jp]
          PROVE  call'[p].pc = "put"
      BY <1>1, <3>3 DEF TypeOK, Frame
    <3> QED BY <2>2, <3>1, <3>2, <3>3 DEF AllocIPFromPools
  <2> QED BY <2>1, <2>2
<1>5. \A jp \in IPs : ipinfo'[jp] = ipinfo[jp] /\ (Recorded(jp)' <=> Recorded(jp))
  BY <1>2 DEF Recorded
<1>6. ASSUME NEW ip \in IPs, ip = call[p].ip PROVE RecordOK(ip)'
  <2>1. CASE call[p].pc = "auto"
    <3>1. job[p].stage \in {"alloc", "netalloc"}
      BY <1>1, <2>1, PoolStages
    <3>2. Claims(p, ip) => Claims(p, ip)'
      BY <1>1, <2>1, <3>1 DEF Claims, AtHand, Pending, Making
    <3>3. ~Busy(p, ip)
      BY <2>1, <3>1 DEF Busy, Granted, Freeing, Unmarking, Deleting
    <3>4. /\ ToBorrow(p, ip)' <=> ToBorrow(p, ip)
          /\ ToReturn(p, ip)' <=> ToReturn(p, ip)
      BY <1>1, <3>1 DEF ToBorrow, ToReturn
    <3> QED BY <1>5, <3>2, <3>3, <3>4, SameRecordOK
  <2>2. CASE call[p].pc \in {"free", "undo"}
    BY <1>1, <1>5, <1>6, <2>2 DEF OwnedOnce, Owns, Recorded, RecordOK
  <2> QED BY <1>2, <2>1, <2>2
<1> QED BY <1>1, <1>2, <1>3, <1>4, <1>5, <1>6, OwnerClean DEF PoolClean

\* The record of a new address: p claims it, and nobody borrows it.
LEMMA PutClean ==
    ASSUME KeptIInv, CleanInd, NEW p \in Procs, UNCHANGED <<world, job>>, Alone(p), Put(p)
    PROVE  PoolClean(p)
<1>1. /\ SysIInv /\ IInv /\ TypeOK /\ OwnedOnce /\ ClaimsOnce
      /\ UNCHANGED <<fixed, cinfo, job>> /\ JobAlone(p)
  BY CleanParts DEF world, JobAlone
<1>2. /\ call[p].pc = "put" /\ job[p].stage \in {"alloc", "netalloc"}
      /\ ipinfo' = [ipinfo EXCEPT ![call[p].ip] = PutSlot(@, NewIPInfo)]
  BY <1>1, PoolStages DEF Put
<1>3. /\ call'[p].pc = "idle" /\ call'[p].err = "nil" /\ call'[p].ip = call[p].ip
  BY <1>1, NextFrame DEF Put
<1>4. KeepsTrack(p) /\ ~Unprotected(p)
  BY <1>1, <1>2, <1>3, EtcdTrack DEF Unprotected
<1>5. PICK ip \in IPs : ip = call[p].ip
  BY <1>1, <1>2 DEF TypeOK
<1>6. /\ ipinfo'[ip] = PutSlot(ipinfo[ip], NewIPInfo) /\ ipinfo[ip] \in Slot(IPInfo)
      /\ \A jp \in IPs \ {ip} : ipinfo'[jp] = ipinfo[jp]
  BY <1>1, <1>2, <1>5 DEF TypeOK
<1>7. Owns(p, ip)
  BY <1>2, <1>5 DEF Owns
<1>8. Recorded(ip)' /\ ipinfo'[ip].val = NewIPInfo
  BY <1>6, SlotExists, ValueTypes DEF Recorded, PutSlot, Slot, Exists
<1>9. ~Recorded(ip) /\ \A q \in Procs \ {p} : ~Owns(q, ip)
  BY <1>1, <1>7 DEF OwnedOnce, Recorded
<1>10. \A c \in Containers : ~Has(c, ip)'
  <2>1. \A c \in Containers : Has(c, ip)' <=> Has(c, ip)
    BY <1>1 DEF Has, Listed, Listing
  <2> QED BY <1>1, <1>9, <2>1 DEF ClaimsOnce
<1>11. \A q \in Procs : ~ToReturn(q, ip)'
  <2>1. ~ToReturn(p, ip)'
    BY <1>1, <1>2 DEF ToReturn
  <2>2. ASSUME NEW q \in Procs \ {p} PROVE ~ToReturn(q, ip)'
    <3>1. ToReturn(q, ip)' <=> ToReturn(q, ip)
      BY <1>1 DEF ToReturn, Alone
    <3>2. ~Claims(q, ip)
      <4>1. SUFFICES ASSUME Claims(q, ip) PROVE FALSE
        OBVIOUS
      <4>2. AtHand(q, ip) /\ call[q].pc = "free"
        BY <1>1, <1>9, <4>1 DEF ClaimsOnce
      <4>3. Owns(q, ip)
        BY <1>1, <4>2, UnallocStages DEF AtHand, Owns
      <4> QED BY <1>9, <4>3
    <3> QED BY <3>1, <3>2, ToDo
  <2> QED BY <2>1, <2>2
<1>12. RecordOK(ip)'
  <2>1. ForSomebody(ip)'
    BY <1>1, <1>2, <1>3, <1>5 DEF ForSomebody, Claims, Making, Ok
  <2>2. \A c \in Containers : ~Borrows(c, ip)'
    BY <1>10, <1>11 DEF Borrows
  <2> QED BY <1>8, <2>1, <2>2 DEF RecordOK, MarkedInUse, NewIPInfo
<1>13. \A jp \in IPs : /\ ipinfo'[jp] # ipinfo[jp] => jp = call[p].ip
                       /\ Recorded(jp)' /\ ~Recorded(jp) => Owns(p, jp)
                       /\ Recorded(jp) => Recorded(jp)'
  BY <1>5, <1>6, <1>7, <1>8 DEF Recorded
<1> QED BY <1>1, <1>2, <1>3, <1>4, <1>5, <1>12, <1>13, OwnerClean DEF PoolClean

\* The record goes, and the address is p's.
LEMMA DeleteClean ==
    ASSUME KeptIInv, CleanInd, NEW p \in Procs, UNCHANGED <<world, job>>, Alone(p), Delete(p),
           MovesOn(p)
    PROVE  PoolClean(p)
<1>1. /\ SysIInv /\ IInv /\ TypeOK /\ UNCHANGED job
  BY CleanParts
<1>2. /\ call[p].pc = "delete" /\ job[p].stage \in {"rollback", "unalloc"}
      /\ ipinfo' = [ipinfo EXCEPT ![call[p].ip] = DeleteSlot(@, NewIPInfo)]
  BY <1>1, PoolStages DEF Delete
<1>3. KeepsTrack(p) /\ ~Unprotected(p)
  BY <1>1, <1>2, EtcdTrack DEF Unprotected
<1>4. PICK ip \in IPs : ip = call[p].ip
  BY <1>1, <1>2 DEF TypeOK
<1>5. /\ ipinfo'[ip] = DeleteSlot(ipinfo[ip], NewIPInfo) /\ ipinfo[ip] \in Slot(IPInfo)
      /\ \A jp \in IPs \ {ip} : ipinfo'[jp] = ipinfo[jp]
  BY <1>1, <1>2, <1>4 DEF TypeOK
<1>6. ~Recorded(ip)'
  BY <1>5 DEF Recorded, DeleteSlot, Slot, Exists
<1>7. \A jp \in IPs : /\ ipinfo'[jp] # ipinfo[jp] => jp = call[p].ip
                      /\ Recorded(jp)' => Recorded(jp)
                      /\ Recorded(jp) /\ ~Recorded(jp)' => Deleting(p, jp)
  BY <1>2, <1>4, <1>5, <1>6 DEF Recorded, Deleting
<1>8. call'[p].pc # "update"
  BY <1>2 DEF MovesOn
<1> QED BY <1>1, <1>2, <1>3, <1>4, <1>6, <1>7, <1>8, OwnerClean DEF PoolClean, RecordOK

\* What an operation writes, and what that changes.
LEMMA UpdateClean ==
    ASSUME KeptIInv, CleanInd, NEW p \in Procs, UNCHANGED <<world, job>>, Alone(p), Update(p)
    PROVE  PoolClean(p)
<1>1. /\ SysIInv /\ IInv /\ TypeOK /\ ClaimsOnce /\ OneServer /\ DriverOK(p) /\ AskedOK(p) /\ Linked(p)
      /\ PlaceOK(p) /\ GoodJob(job[p])
      /\ UNCHANGED <<fixed, held, cinfo, job>> /\ JobAlone(p)
  BY CleanParts DEF world, JobAlone, CleanInd
<1>2. PICK ip \in IPs : ip = call[p].ip
  BY UpdateWritten
<1>3. /\ call[p].pc = "update" /\ Recorded(ip) /\ call[p].read = ipinfo[ip] /\ ~Unprotected(p)
      /\ ipinfo' = [ipinfo EXCEPT ![ip] = PutSlot(@, Change(call[p]))]
  BY <1>2, UpdateWritten
<1>4. PICK v : v = Change(call[p])
  OBVIOUS
<1>5. PICK w \in IPInfo : w = ipinfo[ip].val
  BY <1>1 DEF TypeOK, Slot
<1>6. /\ ipinfo'[ip] = PutSlot(ipinfo[ip], v) /\ ipinfo[ip] \in Slot(IPInfo)
      /\ \A jp \in IPs \ {ip} : ipinfo'[jp] = ipinfo[jp]
  BY <1>1, <1>3, <1>4 DEF TypeOK
<1>7. Recorded(ip)' /\ ipinfo'[ip].val = v
  BY <1>6 DEF Recorded, PutSlot, Slot, Exists
<1>8. KeepsTrack(p)
  BY <1>1, EtcdTrack
<1>9. \A jp \in IPs : /\ ipinfo'[jp] # ipinfo[jp] => jp = call[p].ip
                      /\ Recorded(jp)' <=> Recorded(jp)
  BY <1>2, <1>3, <1>6, <1>7 DEF Recorded
<1>10. /\ call[p].op = OpOf(job[p].stage)
       /\ job[p].stage \in {"rollback", "unalloc", "borrow", "return", "assign", "unassign"}
  BY <1>1, <1>3, PoolStages
<1>11. /\ job[p].stage \in {"rollback", "unalloc"} => call'[p].pc = "delete" /\ call'[p].ip = ip
       /\ job[p].stage \notin {"rollback", "unalloc"} => call'[p].pc = "idle" /\ call'[p].err = "nil"
  <2>1. call[p].op = "UnallocFixedIP" <=> job[p].stage \in {"rollback", "unalloc"}
    BY <1>10 DEF OpOf
  <2>2. /\ call[p].op = "UnallocFixedIP" => Goto(p, "delete")
        /\ call[p].op # "UnallocFixedIP" => Return(p, "nil")
    BY UpdateWritten
  <2> QED BY <1>1, <1>2, <2>1, <2>2, NextFrame
<1>12. AskedOK(p)' /\ DriverOK(p)' /\ UpdateOK(p)'
  <2>1. AskedOK(p)' /\ UpdateOK(p)'
    BY <1>1, <1>11 DEF AskedOK, UpdateOK
  <2>2. job[p].stage \in {"assign", "unassign"} => job[p].ip = ip
    BY <1>1, <1>2, <1>3 DEF Linked
  <2> QED BY <1>1, <1>3, <1>7, <1>11, <2>1, <2>2 DEF DriverOK
<1>13. \A q \in Procs \ {p} : /\ Claims(q, ip)' <=> Claims(q, ip)
                              /\ Busy(q, ip)' <=> Busy(q, ip)
                              /\ ToBorrow(q, ip)' <=> ToBorrow(q, ip)
                              /\ ToReturn(q, ip)' <=> ToReturn(q, ip)
  <2>1. \A q \in Procs \ {p} : call'[q] = call[q]
    BY DEF Alone
  <2> QED BY <1>1, <2>1, OthersClaim, OthersHold DEF ToBorrow, ToReturn
<1>14. \A c \in Containers : Has(c, ip)' <=> Has(c, ip)
  BY <1>1 DEF Has, Listed, Listing
<1>15. RecordOK(ip)
  BY DEF CleanInd
<1>16. /\ ForSomebody(ip)' /\ (MarkedInUse(ip)' => Used(ip)')
       /\ \A c \in Containers : c \in v.borrowers <=> Borrows(c, ip)'
  <2>1. CASE job[p].stage \in {"rollback", "unalloc", "assign", "unassign"}
    <3>1. /\ v.borrowers = w.borrowers
          /\ job[p].stage = "unassign" => "InUse" \notin v.status
      BY <1>3, <1>4, <1>5, <1>10, <2>1 DEF Change, OpOf, Mark, Unmark, IPInfo
    <3>2. Claims(p, ip)' <=> Claims(p, ip)
      BY <1>1, <1>2, <1>3, <1>11, <2>1 DEF Claims, AtHand, Pending, Making
    <3>3. /\ ToBorrow(p, ip)' <=> ToBorrow(p, ip)
          /\ ToReturn(p, ip)' <=> ToReturn(p, ip)
      BY <1>1, <2>1 DEF ToBorrow, ToReturn
    <3>4. ForSomebody(ip)'
      BY <1>3, <1>13, <1>14, <1>15, <3>2 DEF RecordOK, ForSomebody
    <3>5. job[p].stage # "unassign" => Busy(p, ip)'
      <4>1. job[p].stage = "assign" => Granted(p, ip)'
        BY <1>1, <1>2, <1>3, <1>11 DEF Granted, Linked, Ok
      <4>2. job[p].stage \in {"rollback", "unalloc"} => Deleting(p, ip)'
        BY <1>11 DEF Deleting
      <4> QED BY <2>1, <4>1, <4>2 DEF Busy
    <3>6. MarkedInUse(ip)' => Used(ip)'
      BY <1>7, <3>1, <3>5 DEF Used, MarkedInUse
    <3>7. \A c \in Containers : Borrows(c, ip)' <=> Borrows(c, ip)
      BY <1>1, <1>13, <1>14, <3>3 DEF Borrows
    <3> QED BY <1>3, <1>5, <1>15, <3>1, <3>4, <3>6, <3>7 DEF RecordOK
  <2>2. CASE job[p].stage \in {"borrow", "return"}
    <3>1. PICK c \in Containers : c = job[p].c
      BY <1>1, <2>2 DEF GoodJob
    <3>2. /\ call[p].container = c /\ v.status = w.status
          /\ job[p].stage = "borrow" => v.borrowers = w.borrowers \cup {c}
          /\ job[p].stage = "return" => v.borrowers = w.borrowers \ {c}
      <4>1. call[p].container = c
        BY <1>1, <1>3, <2>2, <3>1 DEF AskedOK
      <4> QED BY <1>3, <1>4, <1>5, <1>10, <2>2, <4>1 DEF Change, OpOf, IPInfo
    <3>3. ~Busy(p, ip)
      BY <1>3, <2>2 DEF Busy, Granted, Freeing, Unmarking, Deleting
    <3>4. MarkedInUse(ip)' => Used(ip)'
      <4>1. MarkedInUse(ip)' <=> MarkedInUse(ip)
        BY <1>5, <1>7, <3>2 DEF MarkedInUse
      <4> QED BY <1>1, <1>3, <1>13, <1>15, <3>3, <4>1 DEF RecordOK, Used
    <3>5. Claims(p, ip)' <=> Claims(p, ip)
      BY <1>1, <2>2 DEF Claims, AtHand, Pending, Making
    <3>6. ForSomebody(ip)'
      BY <1>3, <1>13, <1>14, <1>15, <3>5 DEF RecordOK, ForSomebody
    <3>7. CASE job[p].stage = "borrow"
      <4>1. /\ ToBorrow(p, ip) /\ Has(c, ip) /\ ~ToBorrow(p, ip)' /\ ~ToReturn(p, ip)'
        <5>1. ip \in job[p].got \ job[p].addrs /\ job[p].got = fixed[c]
          BY <1>1, <1>2, <1>3, <3>1, <3>7 DEF AskedOK, PlaceOK
        <5> QED BY <1>1, <1>2, <1>3, <1>11, <3>7, <5>1 DEF ToBorrow, ToReturn, Has
      <4>2. \A q \in Procs : ~Claims(q, ip)
        BY <1>1, <4>1 DEF ClaimsOnce
      <4>3. \A q \in Procs : ~ToReturn(q, ip)
        BY <4>2, ToDo
      <4>4. \A q \in Procs \ {p} : ~ToBorrow(q, ip)
        <5> SUFFICES ASSUME NEW q \in Procs, ToBorrow(q, ip) PROVE q = p
          OBVIOUS
        <5>1. job[q].c = c
          BY <1>1, <4>1, ToDo DEF ClaimsOnce
        <5>2. c \in Serves(q) /\ c \in Serves(p)
          BY <3>1, <5>1 DEF Serves
        <5> QED BY <1>1, <5>2 DEF OneServer
      <4>5. \A d \in Containers : Borrows(d, ip)' <=> d = c
        <5>1. \A d \in Containers : Borrows(d, ip)' <=> Has(d, ip)
          BY <1>1, <1>13, <1>14, <4>1, <4>3, <4>4 DEF Borrows
        <5> QED BY <1>1, <4>1, <5>1 DEF ClaimsOnce
      <4>6. \A d \in Containers : ~Borrows(d, ip)
        BY <4>1, <4>3 DEF Borrows
      <4>7. w.borrowers = {}
        BY <1>3, <1>5, <1>15, <4>6 DEF RecordOK, IPInfo
      <4> QED BY <3>2, <3>4, <3>6, <3>7, <4>5, <4>7
    <3>8. CASE job[p].stage = "return"
      <4>1. AtHand(p, ip) /\ Claims(p, ip)
        BY <1>1, <1>2, <1>3, <3>8 DEF AtHand, Claims, AskedOK
      <4>2. /\ \A q \in Procs \ {p} : ~Claims(q, ip)
            /\ \A d \in Containers : ~Has(d, ip)
            /\ ~Pending(p, ip)
        BY <1>1, <4>1 DEF ClaimsOnce
      <4>3. \A q \in Procs \ {p} : ~ToReturn(q, ip)
        BY <4>2, ToDo
      <4>4. ~ToReturn(p, ip)'
        BY <1>1, <1>11, <3>8, <4>2 DEF ToReturn, Pending
      <4>5. \A d \in Containers : ~Borrows(d, ip)'
        BY <1>13, <1>14, <4>2, <4>3, <4>4 DEF Borrows
      <4>6. \A d \in Containers : Borrows(d, ip) => d = c
        BY <3>1, <4>2, <4>3 DEF Borrows
      <4>7. \A d \in w.borrowers : d = c
        BY <1>3, <1>5, <1>15, <4>6 DEF RecordOK, IPInfo
      <4> QED BY <3>2, <3>4, <3>6, <3>8, <4>5, <4>7
    <3> QED BY <2>2, <3>7, <3>8
  <2> QED BY <1>10, <2>1, <2>2
<1>17. RecordOK(ip)'
  BY <1>7, <1>16 DEF RecordOK
<1> QED BY <1>2, <1>3, <1>8, <1>9, <1>12, <1>17 DEF PoolClean

\* The invariant is kept inside the pool.
LEMMA PoolStaysClean ==
    ASSUME Clean, KeptIInv, CleanInd, SysIInv', NEW p \in Procs, Step(p), UNCHANGED <<world, job>>,
           Remembered
    PROVE  CleanInd'
<1>1. SysIInv /\ TypeOK
  BY CleanParts
<1>2. Alone(p) /\ MovesOn(p) /\ ~AllocIP(p)
  BY <1>1, OneMoves, PoolAdvances, SysParts DEF AllocIP, Prepared
<1> QED BY <1>2, GotClean, CalicoClean, PutClean, UpdateClean, DeleteClean, PoolCleanKeeps DEF Step

-----------------------------------------------------------------------------
(***************************************************************************)
(* Steps outside the pool                                                  *)
(***************************************************************************)

\* What is known of container c stays.
SameContainer(c) ==
    /\ docker'[c] = docker[c] /\ conf'[c] = conf[c] /\ fixed'[c] = fixed[c]
    /\ held'[c] = held[c] /\ cinfo'[c] = cinfo[c]

\* The records stay true.
RecordsStand ==
    \A ip \in IPs : Recorded(ip) =>
        /\ ForSomebody(ip)' /\ (MarkedInUse(ip) => Used(ip)')
        /\ \A c \in Containers : Borrows(c, ip)' <=> Borrows(c, ip)

\* p takes over no container that another serves, and touches no other.
Minds(p) ==
    /\ \A c \in Containers : c \in Serves(p)' => c \in Serves(p) \/ \A q \in Procs : c \notin Serves(q)
    /\ \A c \in Containers : \/ c \notin Serves(p) /\ c \notin Serves(p)' /\ SameContainer(c)
                             \/ (c \in Serves(p) \/ c \in Serves(p)') /\ ContainerOK(c)'

\* What a step of p outside the pool must show.
Outside(p) ==
    /\ Turned(p, job'[p]) /\ call[p].pc = "idle" /\ call'[p].pc # "update"
    /\ Minds(p) /\ PlaceOK(p)' /\ AskedOK(p)' /\ DriverOK(p)'
    /\ RecordsStand /\ AllAccounted'

\* Others do not notice.
LEMMA OutsideKeeps ==
    ASSUME Clean, KeptIInv, CleanInd, NEW p \in Procs, Outside(p), Remembered
    PROVE  CleanInd'
<1>1. /\ Alone(p) /\ JobAlone(p) /\ UNCHANGED ipinfo /\ Minds(p)
      /\ OneServer /\ \A c \in Containers : ContainerOK(c)
  BY DEF Outside, Turned, CleanInd
<1>2. \A q \in Procs \ {p} : call'[q] = call[q] /\ job'[q] = job[q]
  BY <1>1 DEF Alone, JobAlone
<1>3. Sound'
  <2>1. \A q \in Procs : ~Unprotected(q)
    BY <1>2 DEF Outside, Unprotected
  <2>2. \A q \in Procs : ~ConnectUnanswered(q)
    BY DEF Clean, ConnectUnanswered
  <2> QED BY <2>1, <2>2 DEF CleanInd, Sound, Remembered
<1>4. \A q \in Procs \ {p}, c \in Containers :
         /\ c \in Serves(q)' <=> c \in Serves(q)
         /\ c \in Serves(q) => c \notin Serves(p) /\ c \notin Serves(p)'
  <2>1. \A q \in Procs \ {p}, c \in Containers : c \in Serves(q)' <=> c \in Serves(q)
    BY <1>2 DEF Serves
  <2> QED BY <1>1, <2>1 DEF OneServer, Minds
<1>5. OneServer'
  <2> SUFFICES ASSUME NEW q \in Procs, NEW r \in Procs, NEW c, c \in Serves(q)', c \in Serves(r)'
               PROVE  q = r
    BY DEF OneServer
  <2>1. c \in Containers
    BY DEF Serves
  <2>2. CASE q # p /\ r # p
    BY <1>1, <1>4, <2>1, <2>2 DEF OneServer
  <2> QED BY <1>4, <2>1, <2>2
<1>6. ASSUME NEW q \in Procs PROVE PlaceOK(q)' /\ AskedOK(q)' /\ DriverOK(q)' /\ UpdateOK(q)'
  <2>1. CASE q = p
    BY <2>1 DEF Outside, UpdateOK
  <2>2. CASE q # p
    <3>1. /\ call'[q] = call[q] /\ job'[q] = job[q] /\ PlaceOK(q) /\ AskedOK(q) /\ DriverOK(q)
          /\ UpdateOK(q) /\ GoodJob(job[q])
      BY <1>2, <2>2, CleanParts
    <3>2. job[q].stage # "idle" => SameContainer(job[q].c)
      <4>1. job[q].stage # "idle" => job[q].c \in Containers /\ job[q].c \in Serves(q)
        BY <3>1 DEF GoodJob, Serves
      <4> QED BY <1>1, <1>4, <2>2, <4>1 DEF Minds
    <3>3. PlaceOK(q)'
      BY <3>1, <3>2 DEF PlaceOK, SameContainer
    <3>4. AskedOK(q)' /\ UpdateOK(q)'
      BY <1>1, <3>1 DEF AskedOK, UpdateOK
    <3>5. DriverOK(q)'
      BY <1>1, <3>1, <3>2 DEF DriverOK, SameContainer, Recorded
    <3> QED BY <3>3, <3>4, <3>5
  <2> QED BY <2>1, <2>2
<1>7. ASSUME NEW c \in Containers PROVE ContainerOK(c)'
  <2>1. CASE c \notin Serves(p) /\ c \notin Serves(p)' /\ SameContainer(c)
    <3>1. ContainerOK(c) /\ \A ip : Recorded(ip)' <=> Recorded(ip)
      BY <1>1 DEF Recorded
    <3>2. \A q \in Procs : job[q].c = c \/ c \in job[q].victims => job'[q] = job[q]
      BY <1>2, <2>1 DEF Serves
    <3> QED BY <2>1, <3>1, <3>2 DEF ContainerOK, SameContainer
  <2> QED BY <1>1, <2>1 DEF Minds
<1>8. ASSUME NEW ip \in IPs PROVE RecordOK(ip)'
  <2>1. RecordOK(ip) /\ ipinfo'[ip] = ipinfo[ip]
    BY <1>1 DEF CleanInd
  <2> QED BY <2>1 DEF Outside, RecordsStand, RecordOK, Recorded, MarkedInUse
<1> QED BY <1>3, <1>5, <1>6, <1>7, <1>8 DEF CleanInd, Outside

\* What p claims, is to enter and to take off, and what containers have.
SameHold(p) ==
    \A ip \in IPs :
        /\ Claims(p, ip)' <=> Claims(p, ip)
        /\ ToBorrow(p, ip)' <=> ToBorrow(p, ip)
        /\ ToReturn(p, ip)' <=> ToReturn(p, ip)
        /\ ToReturn(p, ip) => job'[p].c = job[p].c
        /\ \A c \in Containers : Has(c, ip)' <=> Has(c, ip)

\* The others' part in it stays.
LEMMA OthersToDo ==
    ASSUME NEW p \in Procs, Alone(p), JobAlone(p)
    PROVE  \A q \in Procs \ {p}, ip \in IPs :
              /\ ToBorrow(q, ip)' <=> ToBorrow(q, ip)
              /\ ToReturn(q, ip)' <=> ToReturn(q, ip)
              /\ job'[q] = job[q]
BY DEF Alone, JobAlone, ToBorrow, ToReturn

\* Then a record has the same claimants and borrowers.
LEMMA SameHoldRecords ==
    ASSUME NEW p \in Procs, Alone(p), JobAlone(p), SameHold(p), NEW ip \in IPs
    PROVE  /\ ForSomebody(ip)' <=> ForSomebody(ip)
           /\ \A c \in Containers : Borrows(c, ip)' <=> Borrows(c, ip)
<1>1. \A q \in Procs \ {p} : /\ Claims(q, ip)' <=> Claims(q, ip)
                             /\ ToBorrow(q, ip)' <=> ToBorrow(q, ip)
                             /\ ToReturn(q, ip)' <=> ToReturn(q, ip)
                             /\ job'[q] = job[q]
  BY OthersClaim, OthersToDo
<1>2. ForSomebody(ip)' <=> ForSomebody(ip)
  BY <1>1 DEF ForSomebody, SameHold
<1>3. ASSUME NEW c \in Containers PROVE Borrows(c, ip)' <=> Borrows(c, ip)
  <2>1. (\A q \in Procs : ~ToBorrow(q, ip)') <=> (\A q \in Procs : ~ToBorrow(q, ip))
    BY <1>1 DEF SameHold
  <2>2. \A q \in Procs : job'[q].c = c /\ ToReturn(q, ip)' <=> job[q].c = c /\ ToReturn(q, ip)
    BY <1>1 DEF SameHold
  <2> QED BY <2>1, <2>2 DEF Borrows, SameHold
<1> QED BY <1>2, <1>3

\* A handler's step, which leaves alone what dockerd was given and what Calico has.
LEMMA HandlerRecords ==
    ASSUME KeptIInv, CleanInd, NEW p \in Procs, Turned(p, job'[p]), call[p].pc = "idle",
           UNCHANGED <<calico, held>>, job[p].stage \notin {"assign", "unassign", "free"}
    PROVE  /\ AllAccounted'
           /\ \A ip \in IPs : Used(ip) => Used(ip)'
           /\ SameHold(p) => RecordsStand
<1>1. Alone(p) /\ JobAlone(p) /\ UNCHANGED ipinfo
  BY DEF Turned
<1>2. AllAccounted'
  <2> SUFFICES ASSUME NEW a \in calico PROVE \E ip \in IPs : ip.Address = a /\ Accounted(ip)'
    BY DEF AllAccounted
  <2>1. PICK ip \in IPs : ip.Address = a /\ Accounted(ip)
    BY DEF CleanInd, AllAccounted
  <2>2. \A q \in Procs \ {p} : Owns(q, ip)' <=> Owns(q, ip)
    BY <1>1, AloneOwns
  <2>3. ~Owns(p, ip) /\ ~Giving(p, ip)
    BY DEF Owns, Giving
  <2>4. \A q \in Procs \ {p} : Giving(q, ip)' <=> Giving(q, ip)
    BY <1>1 DEF Giving, JobAlone
  <2>5. Recorded(ip)' <=> Recorded(ip)
    BY <1>1 DEF Recorded
  <2> QED BY <2>1, <2>2, <2>3, <2>4, <2>5 DEF Accounted
<1>3. ASSUME NEW ip \in IPs, Used(ip) PROVE Used(ip)'
  <2>1. ~Busy(p, ip)
    BY DEF Busy, Granted, Freeing, Unmarking, Deleting
  <2>2. \A q \in Procs \ {p} : Busy(q, ip)' <=> Busy(q, ip)
    BY <1>1, OthersHold
  <2> QED BY <1>3, <2>1, <2>2 DEF Used
<1>4. SameHold(p) => RecordsStand
  BY <1>1, <1>3, SameHoldRecords DEF RecordsStand, CleanInd, RecordOK
<1> QED BY <1>2, <1>3, <1>4

\* A process that takes a new job for a container is the only one to serve it.
LEMMA FreeAlone ==
    ASSUME Clean, KeptIInv, CleanInd, NEW p \in Procs, NEW c \in Containers, Free(p, c),
           docker[c] \in {"none", "created"}
    PROVE  job[p] = NoJob /\ \A q \in Procs : c \notin Serves(q)
<1>1. job[p] = NoJob /\ \A q \in Procs : job[q].c # c \/ job[q].stage \in Async
  BY DEF Free, Clean
<1>2. ASSUME NEW q \in Procs, c \in Serves(q) PROVE FALSE
  <2>1. PlaceOK(q) /\ DockerOf(docker, job[q])
    BY CleanParts
  <2>2. c \notin job[q].victims
    BY <2>1 DEF DockerOf
  <2>3. job[q].c = c /\ job[q].stage \in Async
    BY <1>1, <1>2, <2>2 DEF Serves
  <2> QED BY <2>1, <2>3 DEF PlaceOK, DockerOf, Async
<1> QED BY <1>1, <1>2

\* What is known of a container that p alone serves, or nobody.
LEMMA ServedAlone ==
    ASSUME CleanInd, NEW p \in Procs, NEW c \in Containers, \A q \in Procs \ {p} : c \notin Serves(q)
    PROVE  /\ ContainerOK(c)
           /\ docker[c] = "created" =>
                 \/ Exists(cinfo[c]) /\ cinfo[c].val = fixed[c]
                 \/ job[p].c = c /\ job[p].stage \in {"borrow", "record"}
           /\ Exists(cinfo[c]) => \/ docker[c] = "created"
                                  \/ job[p].c = c /\ job[p].stage = "info"
                                  \/ c \in job[p].victims
<1>1. ContainerOK(c)
  BY DEF CleanInd
<1>2. \A q \in Procs \ {p} : job[q].c # c /\ c \notin job[q].victims
  BY DEF Serves
<1> QED BY <1>1, <1>2 DEF ContainerOK

\* That is so for the containers of p's job.
LEMMA ServesAlone ==
    ASSUME CleanInd, NEW p \in Procs, NEW c \in Containers, c \in Serves(p)
    PROVE  \A q \in Procs \ {p} : c \notin Serves(q)
BY DEF CleanInd, OneServer

\* The empty job serves nobody and holds nothing.
LEMMA NoJobHolds ==
    /\ NoJob.stage = "idle" /\ NoJob.victims = {} /\ NoJob.c \notin Containers /\ NoJob.ip = NoIP
    /\ NoJob.got = {} /\ NoJob.addrs = {}
BY NoContainerAssumption DEF NoJob

\* A job that takes up a container.
LEMMA TakesUp ==
    ASSUME NEW p \in Procs, job[p] = NoJob, NEW c \in Containers, \A q \in Procs : c \notin Serves(q),
           job'[p].c = c, job'[p].victims = {}, ContainerOK(c)',
           \A d \in Containers \ {c} : SameContainer(d)
    PROVE  Minds(p)
<1>1. \A d \in Containers : d \notin Serves(p) /\ (d \in Serves(p)' <=> d = c)
  BY NoJobHolds DEF Serves
<1> QED BY <1>1 DEF Minds

\* A job that goes on for its container, or ends.
LEMMA GoesOn ==
    ASSUME NEW p \in Procs, NEW c \in Containers, job[p].c = c, job[p].victims = {},
           job'[p].c \in {c, NoContainer}, job'[p].victims = {}, ContainerOK(c)',
           \A d \in Containers \ {c} : SameContainer(d)
    PROVE  Minds(p)
<1>1. \A d \in Containers : (d \in Serves(p) <=> d = c) /\ (d \in Serves(p)' => d = c)
  BY NoContainerAssumption DEF Serves
<1> QED BY <1>1 DEF Minds

\* p claims nothing, and what containers have stays.
LEMMA IdleHold ==
    ASSUME NEW p \in Procs, Turned(p, job'[p]), Fresh(p), Idles(job'[p]),
           job[p].stage \in {"idle", "assign", "calico", "unassign", "free", "delete"},
           \A c \in Containers, ip \in IPs :
              (ip \in cinfo'[c].val \/ ip \in fixed'[c]) <=> (ip \in cinfo[c].val \/ ip \in fixed[c])
    PROVE  SameHold(p)
<1> SUFFICES ASSUME NEW ip \in IPs
             PROVE  /\ ~Claims(p, ip)' /\ ~Claims(p, ip)
                    /\ ~ToBorrow(p, ip)' /\ ~ToBorrow(p, ip)
                    /\ ~ToReturn(p, ip)' /\ ~ToReturn(p, ip)
                    /\ \A c \in Containers : Has(c, ip)' <=> Has(c, ip)
  BY DEF SameHold
<1>1. ~Claims(p, ip) /\ ~ToBorrow(p, ip) /\ ~ToReturn(p, ip) /\ \A c \in Containers : ~Listing(p, c, ip)
  BY DEF Claims, AtHand, Pending, Making, ToBorrow, ToReturn, Listing
<1>2. ~AtHand(p, ip)' /\ ~Pending(p, ip)' /\ ~Making(p, ip)' /\ \A c \in Containers : ~Listing(p, c, ip)'
  BY TurnClaims DEF Idles
<1>3. ~ToBorrow(p, ip)' /\ ~ToReturn(p, ip)'
  BY DEF ToBorrow, ToReturn, Idles
<1>4. \A q \in Procs \ {p}, c \in Containers : Listing(q, c, ip)' <=> Listing(q, c, ip)
  BY OthersClaim DEF Turned
<1>5. \A c \in Containers : Has(c, ip)' <=> Has(c, ip)
  BY <1>1, <1>2, <1>4 DEF Has, Listed
<1> QED BY <1>1, <1>2, <1>3, <1>5 DEF Claims

\* Proceed and Finish, and what p then asks of the pool: nothing.
LEMMA Rests ==
    ASSUME SysIInv, NEW p \in Procs, NEW k, job' = [job EXCEPT ![p] = k],
           call' = [call EXCEPT ![p] = IdleFrame], UNCHANGED ipinfo
    PROVE  /\ Turned(p, job'[p]) /\ job'[p] = k /\ Fresh(p) /\ AskedOK(p)'
           /\ call'[p].pc = "idle" /\ call'[p].err = "nil"
<1>1. Turned(p, k) /\ call'[p].pc = "idle" /\ call'[p].ip = NoIP
  BY RestTurns
<1>2. call'[p].err = "nil"
  BY SysParts DEF TypeOK, IdleFrame
<1> QED BY <1>1, <1>2 DEF Turned, Fresh, AskedOK

\* The job of p becomes k.
LEMMA JobTurns ==
    ASSUME SysIInv, NEW p \in Procs, NEW k, job' = [job EXCEPT ![p] = k]
    PROVE  JobAlone(p) /\ job'[p] = k
<1>1. job \in [Procs -> Job]
  BY SysParts
<1> QED BY <1>1 DEF JobAlone

\* A call of the pool.
LEMMA Asks ==
    ASSUME SysIInv, NEW p \in Procs, NEW op, NEW ip, NEW c, NEW f, NEW pools,
           JobAlone(p), Call(p, op, ip, c, f, pools)
    PROVE  /\ Turned(p, job'[p]) /\ Fresh(p) /\ call[p].pc = "idle"
           /\ call'[p].pc \in {"get", "auto"} /\ call'[p].ip = ip /\ call'[p].container = c
           /\ UNCHANGED calico
<1>1. TypeOK
  BY SysParts
<1>2. /\ call'[p].pc \in {"get", "auto"} /\ call'[p].ip = ip /\ call'[p].container = c
      /\ UNCHANGED <<ipinfo, calico>> /\ call[p].pc = "idle" /\ Alone(p)
  BY <1>1 DEF TypeOK, Call, IdleFrame, Alone
<1> QED BY <1>2 DEF Turned, Fresh

\* What p holds after it has gone on to the next address to give back.
LEMMA RollbackHolds ==
    ASSUME SysIInv, NEW p \in Procs, NEW j \in Job, Rollback(p, j)
    PROVE  /\ Turned(p, job'[p]) /\ call'[p].pc # "update" /\ UNCHANGED calico
           /\ \/ job'[p] = NoJob
              \/ job'[p].stage = "rollback" /\ job'[p].c = j.c /\ job'[p].victims = j.victims
           /\ AskedOK(p)' /\ DriverOK(p)'
           /\ \A ip \in IPs : /\ Claims(p, ip)' <=> ip \in j.addrs
                              /\ ~ToBorrow(p, ip)' /\ ~ToReturn(p, ip)'
                              /\ \A c \in Containers : ~Listing(p, c, ip)'
<1>1. CASE j.addrs = {}
  <2>1. Finish(p)
    BY <1>1 DEF Rollback
  <2>2. /\ Turned(p, job'[p]) /\ job'[p] = NoJob /\ Fresh(p) /\ AskedOK(p)' /\ call'[p].pc = "idle"
        /\ UNCHANGED calico
    BY <2>1, Rests DEF Finish, EndJob
  <2>3. DriverOK(p)'
    BY <2>2, NoJobHolds DEF DriverOK
  <2>4. ASSUME NEW ip \in IPs
        PROVE  /\ ~Claims(p, ip)' /\ ~ToBorrow(p, ip)' /\ ~ToReturn(p, ip)'
               /\ \A c \in Containers : ~Listing(p, c, ip)'
    BY <2>2, NoJobHolds DEF Claims, AtHand, Pending, Making, ToBorrow, ToReturn, Listing
  <2> QED BY <1>1, <2>2, <2>3, <2>4
<1>2. CASE j.addrs # {}
  <2>1. PICK jp \in j.addrs :
           Invoke(p, [j EXCEPT !.stage = "rollback", !.addrs = @ \ {jp}], "UnallocFixedIP", jp)
    BY <1>2 DEF Rollback
  <2> DEFINE k == [j EXCEPT !.stage = "rollback", !.addrs = @ \ {jp}]
  <2>2. k.stage = "rollback" /\ k.addrs = j.addrs \ {jp} /\ k.c = j.c /\ k.victims = j.victims
    BY DEF Job
  <2>3. job' = [job EXCEPT ![p] = k] /\ Call(p, "UnallocFixedIP", jp, NoContainer, FALSE, <<>>)
    BY <2>1 DEF Invoke
  <2> HIDE DEF k
  <2>4. /\ Turned(p, job'[p]) /\ job'[p] = k /\ call'[p].pc \in {"get", "auto"} /\ call'[p].ip = jp
        /\ UNCHANGED calico
    <3>1. JobAlone(p) /\ job'[p] = k
      BY <2>3, JobTurns
    <3>2. Turned(p, job'[p]) /\ Fresh(p) /\ call'[p].pc \in {"get", "auto"} /\ UNCHANGED calico
      BY <2>3, <3>1, Asks
    <3>3. call'[p].ip = jp
      <4>1. call \in [Procs -> Frame]
        BY SysParts DEF TypeOK
      <4> QED BY <2>3, <4>1 DEF Call, IdleFrame
    <3> QED BY <3>1, <3>2, <3>3
  <2>5. AskedOK(p)' /\ DriverOK(p)'
    BY <2>2, <2>4 DEF AskedOK, DriverOK
  <2>6. ASSUME NEW ip \in IPs
        PROVE  /\ Claims(p, ip)' <=> ip \in j.addrs
               /\ ~ToBorrow(p, ip)' /\ ~ToReturn(p, ip)'
               /\ \A c \in Containers : ~Listing(p, c, ip)'
    <3>1. AtHand(p, ip)' <=> ip = jp
      BY <2>2, <2>4 DEF AtHand
    <3>2. Pending(p, ip)' <=> ip \in j.addrs \ {jp}
      BY <2>2, <2>4 DEF Pending
    <3>3. ~Making(p, ip)' /\ ~ToBorrow(p, ip)' /\ ~ToReturn(p, ip)'
          /\ \A c \in Containers : ~Listing(p, c, ip)'
      BY <2>2, <2>4 DEF Making, ToBorrow, ToReturn, Listing
    <3> QED BY <2>1, <3>1, <3>2, <3>3 DEF Claims
  <2> QED BY <2>2, <2>4, <2>5, <2>6
<1> QED BY <1>1, <1>2

\* And to return.
LEMMA ReturnHolds ==
    ASSUME SysIInv, NEW p \in Procs, NEW j \in Job, ReturnNext(p, j)
    PROVE  /\ Turned(p, job'[p]) /\ call'[p].pc # "update" /\ UNCHANGED calico
           /\ \/ job'[p] = NoJob /\ j.victims = {} /\ j.addrs = {}
              \/ /\ job'[p].stage = "info" /\ job'[p].c \in j.victims
                 /\ job'[p].victims = j.victims \ {job'[p].c} /\ j.addrs = {}
              \/ job'[p].stage = "return" /\ job'[p].c = j.c /\ job'[p].victims = j.victims
           /\ AskedOK(p)' /\ DriverOK(p)'
           /\ \A ip \in IPs : /\ Claims(p, ip)' <=> ip \in j.addrs
                              /\ ToReturn(p, ip)' <=> ip \in j.addrs
                              /\ ~ToBorrow(p, ip)'
                              /\ \A c \in Containers : ~Listing(p, c, ip)'
<1>1. CASE j.addrs = {}
  <2>1. \/ Finish(p) /\ j.victims = {}
        \/ \E c \in j.victims :
              Proceed(p, [NoJob EXCEPT !.c = c, !.stage = "info", !.victims = j.victims \ {c}])
    BY <1>1 DEF ReturnNext, NextVictim
  <2>2. PICK k : /\ job' = [job EXCEPT ![p] = k] /\ call' = [call EXCEPT ![p] = IdleFrame]
                 /\ UNCHANGED <<ipinfo, calico>>
                 /\ \/ k = NoJob /\ j.victims = {}
                    \/ /\ k.stage = "info" /\ k.c \in j.victims /\ k.victims = j.victims \ {k.c}
                       /\ k.addrs = {} /\ k.got = {}
    <3>1. CASE Finish(p) /\ j.victims = {}
      BY <3>1 DEF Finish, EndJob
    <3>2. CASE \E c \in j.victims :
                 Proceed(p, [NoJob EXCEPT !.c = c, !.stage = "info", !.victims = j.victims \ {c}])
      <4>1. PICK c \in j.victims :
                 Proceed(p, [NoJob EXCEPT !.c = c, !.stage = "info", !.victims = j.victims \ {c}])
        BY <3>2
      <4> DEFINE k == [NoJob EXCEPT !.c = c, !.stage = "info", !.victims = j.victims \ {c}]
      <4>2. /\ k.stage = "info" /\ k.c = c /\ k.victims = j.victims \ {c}
            /\ k.addrs = {} /\ k.got = {}
        BY DEF NoJob
      <4>3. /\ job' = [job EXCEPT ![p] = k] /\ call' = [call EXCEPT ![p] = IdleFrame]
            /\ UNCHANGED <<ipinfo, calico>>
        BY <4>1 DEF Proceed
      <4> HIDE DEF k
      <4> QED BY <4>1, <4>2, <4>3
    <3> QED BY <2>1, <3>1, <3>2
  <2>3. /\ Turned(p, job'[p]) /\ job'[p] = k /\ Fresh(p) /\ AskedOK(p)' /\ call'[p].pc = "idle"
    BY <2>2, Rests
  <2>4. k.stage \in {"idle", "info"}
    BY <2>2, NoJobHolds
  <2>5. DriverOK(p)'
    BY <2>3, <2>4 DEF DriverOK
  <2>6. ASSUME NEW ip \in IPs
        PROVE  /\ ~Claims(p, ip)' /\ ~ToBorrow(p, ip)' /\ ~ToReturn(p, ip)'
               /\ \A c \in Containers : ~Listing(p, c, ip)'
    BY <2>3, <2>4 DEF Claims, AtHand, Pending, Making, ToBorrow, ToReturn, Listing
  <2> QED BY <1>1, <2>2, <2>3, <2>5, <2>6
<1>2. CASE j.addrs # {}
  <2>1. PICK jp \in j.addrs :
           Invoke(p, [j EXCEPT !.stage = "return", !.addrs = @ \ {jp}, !.ip = jp], "ReturnFixedIP", jp)
    BY <1>2 DEF ReturnNext
  <2> DEFINE k == [j EXCEPT !.stage = "return", !.addrs = @ \ {jp}, !.ip = jp]
  <2>2. /\ k.stage = "return" /\ k.addrs = j.addrs \ {jp} /\ k.c = j.c /\ k.victims = j.victims
        /\ k.ip = jp
    BY DEF Job
  <2>3. job' = [job EXCEPT ![p] = k] /\ Call(p, "ReturnFixedIP", jp, k.c, FALSE, <<>>)
    BY <2>1 DEF Invoke
  <2> HIDE DEF k
  <2>7. PICK d : d = k.c
    OBVIOUS
  <2>8. Call(p, "ReturnFixedIP", jp, d, FALSE, <<>>)
    BY <2>3, <2>7
  <2>4. /\ Turned(p, job'[p]) /\ job'[p] = k /\ call'[p].pc \in {"get", "auto"} /\ call'[p].ip = jp
        /\ call'[p].container = k.c /\ UNCHANGED calico
    <3>1. /\ Turned(p, job'[p]) /\ job'[p] = k /\ call'[p].pc \in {"get", "auto"} /\ call'[p].ip = jp
          /\ call'[p].container = d /\ UNCHANGED calico
      <4>1. JobAlone(p) /\ job'[p] = k
        BY <2>3, <2>8, JobTurns
      <4>2. Turned(p, job'[p]) /\ Fresh(p) /\ call'[p].pc \in {"get", "auto"} /\ UNCHANGED calico
        BY <2>3, <2>8, <4>1, Asks
      <4>3. call'[p].ip = jp /\ call'[p].container = d
        <5>1. call \in [Procs -> Frame]
          BY SysParts DEF TypeOK
        <5> QED BY <2>8, <5>1 DEF Call, IdleFrame
      <4> QED BY <4>1, <4>2, <4>3
    <3> QED BY <2>7, <3>1
  <2>5. AskedOK(p)' /\ DriverOK(p)'
    BY <2>2, <2>4 DEF AskedOK, DriverOK
  <2>6. ASSUME NEW ip \in IPs
        PROVE  /\ Claims(p, ip)' <=> ip \in j.addrs
               /\ ToReturn(p, ip)' <=> ip \in j.addrs
               /\ ~ToBorrow(p, ip)'
               /\ \A c \in Containers : ~Listing(p, c, ip)'
    <3>1. AtHand(p, ip)' <=> ip = jp
      BY <2>2, <2>4 DEF AtHand
    <3>2. Pending(p, ip)' <=> ip \in j.addrs \ {jp}
      BY <2>2, <2>4 DEF Pending
    <3>3. ToReturn(p, ip)' <=> ip \in j.addrs
      BY <2>1, <2>2, <2>4 DEF ToReturn
    <3>4. ~Making(p, ip)' /\ ~ToBorrow(p, ip)' /\ \A c \in Containers : ~Listing(p, c, ip)'
      BY <2>2, <2>4 DEF Making, ToBorrow, Listing
    <3> QED BY <2>1, <3>1, <3>2, <3>3, <3>4 DEF Claims
  <2> QED BY <2>2, <2>4, <2>5, <2>6
<1> QED BY <1>1, <1>2

\* And to borrow.
LEMMA BorrowHolds ==
    ASSUME SysIInv, NEW p \in Procs, NEW j \in Job, BorrowNext(p, j), j.addrs \subseteq j.got
    PROVE  /\ Turned(p, job'[p]) /\ call'[p].pc # "update" /\ UNCHANGED calico
           /\ job'[p].stage \in {"borrow", "record"} /\ job'[p].c = j.c /\ job'[p].got = j.got
           /\ job'[p].victims = j.victims
           /\ job'[p].stage = "borrow" => job'[p].addrs \subseteq j.got
           /\ AskedOK(p)' /\ DriverOK(p)'
           /\ \A ip \in IPs : /\ ~Claims(p, ip)' /\ ~ToReturn(p, ip)'
                              /\ ToBorrow(p, ip)' <=> ip \in j.addrs
                              /\ \A c \in Containers : Listing(p, c, ip)' <=> c = j.c /\ ip \in j.got
<1>1. CASE j.addrs = {}
  <2> DEFINE k == [j EXCEPT !.stage = "record"]
  <2>1. k.stage = "record" /\ k.addrs = {} /\ k.c = j.c /\ k.victims = j.victims /\ k.got = j.got
    BY <1>1 DEF Job
  <2>2. /\ job' = [job EXCEPT ![p] = k] /\ call' = [call EXCEPT ![p] = IdleFrame]
        /\ UNCHANGED <<ipinfo, calico>>
    BY <1>1 DEF BorrowNext, Proceed
  <2> HIDE DEF k
  <2>3. /\ Turned(p, job'[p]) /\ job'[p] = k /\ Fresh(p) /\ AskedOK(p)' /\ call'[p].pc = "idle"
    BY <2>2, Rests
  <2>4. DriverOK(p)'
    BY <2>1, <2>3 DEF DriverOK
  <2>5. ASSUME NEW ip \in IPs
        PROVE  /\ ~Claims(p, ip)' /\ ~ToReturn(p, ip)' /\ ~ToBorrow(p, ip)'
               /\ \A c \in Containers : Listing(p, c, ip)' <=> c = j.c /\ ip \in j.got
    BY <2>1, <2>3 DEF Claims, AtHand, Pending, Making, ToBorrow, ToReturn, Listing
  <2> QED BY <1>1, <2>1, <2>2, <2>3, <2>4, <2>5
<1>2. CASE j.addrs # {}
  <2>1. PICK jp \in j.addrs :
           Invoke(p, [j EXCEPT !.stage = "borrow", !.addrs = @ \ {jp}], "BorrowFixedIP", jp)
    BY <1>2 DEF BorrowNext
  <2> DEFINE k == [j EXCEPT !.stage = "borrow", !.addrs = @ \ {jp}]
  <2>2. /\ k.stage = "borrow" /\ k.addrs = j.addrs \ {jp} /\ k.c = j.c /\ k.victims = j.victims
        /\ k.got = j.got
    BY DEF Job
  <2>3. job' = [job EXCEPT ![p] = k] /\ Call(p, "BorrowFixedIP", jp, k.c, FALSE, <<>>)
    BY <2>1 DEF Invoke
  <2> HIDE DEF k
  <2>7. PICK d : d = k.c
    OBVIOUS
  <2>8. Call(p, "BorrowFixedIP", jp, d, FALSE, <<>>)
    BY <2>3, <2>7
  <2>4. /\ Turned(p, job'[p]) /\ job'[p] = k /\ call'[p].pc \in {"get", "auto"} /\ call'[p].ip = jp
        /\ call'[p].container = k.c /\ UNCHANGED calico
    <3>1. /\ Turned(p, job'[p]) /\ job'[p] = k /\ call'[p].pc \in {"get", "auto"} /\ call'[p].ip = jp
          /\ call'[p].container = d /\ UNCHANGED calico
      <4>1. JobAlone(p) /\ job'[p] = k
        BY <2>3, <2>8, JobTurns
      <4>2. Turned(p, job'[p]) /\ Fresh(p) /\ call'[p].pc \in {"get", "auto"} /\ UNCHANGED calico
        BY <2>3, <2>8, <4>1, Asks
      <4>3. call'[p].ip = jp /\ call'[p].container = d
        <5>1. call \in [Procs -> Frame]
          BY SysParts DEF TypeOK
        <5> QED BY <2>8, <5>1 DEF Call, IdleFrame
      <4> QED BY <4>1, <4>2, <4>3
    <3> QED BY <2>7, <3>1
  <2>5. AskedOK(p)' /\ DriverOK(p)'
    BY <2>1, <2>2, <2>4 DEF AskedOK, DriverOK
  <2>6. ASSUME NEW ip \in IPs
        PROVE  /\ ~Claims(p, ip)' /\ ~ToReturn(p, ip)'
               /\ ToBorrow(p, ip)' <=> ip \in j.addrs
               /\ \A c \in Containers : Listing(p, c, ip)' <=> c = j.c /\ ip \in j.got
    <3>1. ToBorrow(p, ip)' <=> ip \in j.addrs
      BY <2>1, <2>2, <2>4 DEF ToBorrow
    <3>2. ~Claims(p, ip)' /\ ~ToReturn(p, ip)'
      BY <2>2, <2>4 DEF Claims, AtHand, Pending, Making, ToReturn
    <3>3. \A c \in Containers : Listing(p, c, ip)' <=> c = j.c /\ ip \in j.got
      BY <2>2, <2>4 DEF Listing
    <3> QED BY <3>1, <3>2, <3>3
  <2> QED BY <2>2, <2>4, <2>5, <2>6
<1> QED BY <1>1, <1>2

\* A new job for a container that nobody serves.
LEMMA NewJobClean ==
    ASSUME KeptIInv, CleanInd, NEW p \in Procs, NEW c \in Containers, job[p] = NoJob,
           \A q \in Procs : c \notin Serves(q),
           Turned(p, job'[p]), Fresh(p), call'[p].pc # "update",
           AskedOK(p)', DriverOK(p)', PlaceOK(p)', Idles(job'[p]),
           job'[p].c = c, job'[p].victims = {}, UNCHANGED <<calico, conf, fixed, held, cinfo>>,
           \A d \in Containers \ {c} : docker'[d] = docker[d],
           docker'[c] = docker[c] \/ (docker[c] = "none" /\ docker'[c] = "requested")
    PROVE  Outside(p)
<1>1. call[p].pc = "idle" /\ job[p].stage = "idle" /\ SysIInv /\ InfoInv
  BY NoJobHolds, SysParts, CleanParts
<1>2. SameHold(p)
  BY <1>1, IdleHold
<1>3. RecordsStand /\ AllAccounted'
  BY <1>1, <1>2, HandlerRecords
<1>4. ContainerOK(c)'
  <2>1. /\ ContainerOK(c)
        /\ docker[c] = "created" => Exists(cinfo[c]) /\ cinfo[c].val = fixed[c]
        /\ Exists(cinfo[c]) => docker[c] = "created"
    BY <1>1, ServedAlone, NoJobHolds
  <2>2. docker[c] = "none" => ~Exists(cinfo[c])
    BY <1>1 DEF InfoInv
  <2>3. \A ip : Recorded(ip)' <=> Recorded(ip)
    BY DEF Turned, Recorded
  <2> QED BY <2>1, <2>2, <2>3 DEF ContainerOK
<1>5. Minds(p)
  BY <1>4, TakesUp DEF SameContainer
<1> QED BY <1>1, <1>3, <1>5 DEF Outside

\* Creates, starts and removes of containers.
LEMMA RequestClean ==
    ASSUME Clean, KeptIInv, CleanInd, NEW p \in Procs, NEW c \in Containers,
           \/ CreateFixed(p, c) \/ (\E ip \in Specified \cup {NoIP} : CreatePlain(p, c, ip))
           \/ RequestAddress(p, c) \/ Remove(p, c)
    PROVE  Outside(p)
<1>1. SysIInv /\ ContainerOK(c) /\ WorldOK
  BY CleanParts DEF CleanInd
<1>2. Free(p, c) /\ docker[c] \in {"none", "created"}
  BY DEF CreateFixed, CreatePlain, RequestAddress, Remove
<1>3. job[p] = NoJob /\ \A q \in Procs : c \notin Serves(q)
  BY <1>2, FreeAlone
<1>4. CASE CreateFixed(p, c)
  <2> DEFINE k == [[NoJob EXCEPT !.c = c] EXCEPT !.stage = "alloc"]
  <2>1. k.stage = "alloc" /\ k.c = c /\ k.victims = {} /\ k.got = {} /\ k.ip = NoIP
    BY DEF NoJob
  <2>2. PICK pools : /\ job' = [job EXCEPT ![p] = k]
                     /\ Call(p, "AllocFixedIPFromPools", NoIP, NoContainer, FALSE, pools)
    BY <1>4 DEF CreateFixed, AllocNext
  <2>3. /\ docker[c] = "none" /\ docker' = [docker EXCEPT ![c] = "requested"]
        /\ UNCHANGED <<conf, fixed, held, cinfo>>
    BY <1>4 DEF CreateFixed
  <2> HIDE DEF k
  <2>4. /\ Turned(p, job'[p]) /\ job'[p] = k /\ Fresh(p) /\ call'[p].pc \in {"get", "auto"}
        /\ UNCHANGED calico
    <3>1. JobAlone(p) /\ job'[p] = k
      BY <1>1, <2>2, JobTurns
    <3> QED BY <1>1, <2>2, <3>1, Asks
  <2>5. AskedOK(p)' /\ DriverOK(p)' /\ PlaceOK(p)' /\ Idles(k)
    BY <2>1, <2>4 DEF AskedOK, DriverOK, PlaceOK, Idles
  <2> QED BY <1>1, <1>3, <2>1, <2>3, <2>4, <2>5, NewJobClean DEF WorldOK
<1>5. CASE \E ip \in Specified \cup {NoIP} : CreatePlain(p, c, ip)
  <2>1. CreatePlain(p, c, NoIP)
    BY <1>5 DEF Clean
  <2> DEFINE k == [NoJob EXCEPT !.c = c, !.stage = "dockerd", !.ip = NoIP]
  <2>2. k.stage = "dockerd" /\ k.c = c /\ k.victims = {} /\ k.got = {} /\ k.ip = NoIP
    BY DEF NoJob
  <2>3. /\ job' = [job EXCEPT ![p] = k] /\ call' = [call EXCEPT ![p] = IdleFrame]
        /\ UNCHANGED <<ipinfo, calico>>
        /\ docker[c] = "none" /\ docker' = [docker EXCEPT ![c] = "requested"]
        /\ UNCHANGED <<conf, fixed, held, cinfo>>
    BY <2>1 DEF CreatePlain, Proceed
  <2> HIDE DEF k
  <2>4. Turned(p, job'[p]) /\ job'[p] = k /\ Fresh(p) /\ AskedOK(p)' /\ call'[p].pc = "idle"
    BY <1>1, <2>3, Rests
  <2>5. DriverOK(p)' /\ PlaceOK(p)' /\ Idles(k)
    BY <2>2, <2>4 DEF DriverOK, PlaceOK, Idles
  <2> QED BY <1>1, <1>3, <2>2, <2>3, <2>4, <2>5, NewJobClean DEF WorldOK
<1>6. CASE RequestAddress(p, c)
  <2>1. /\ docker[c] = "created" /\ UNCHANGED <<docker, conf, fixed, held, cinfo>>
    BY <1>6 DEF RequestAddress
  <2>2. CASE \E ip \in conf[c] \ held[c] :
             Invoke(p, [NoJob EXCEPT !.c = c, !.stage = "assign", !.ip = ip], "AssignFixedIP", ip)
    <3>1. PICK ip \in conf[c] \ held[c] :
             Invoke(p, [NoJob EXCEPT !.c = c, !.stage = "assign", !.ip = ip], "AssignFixedIP", ip)
      BY <2>2
    <3> DEFINE k == [NoJob EXCEPT !.c = c, !.stage = "assign", !.ip = ip]
    <3>2. k.stage = "assign" /\ k.c = c /\ k.victims = {} /\ k.got = {} /\ k.ip = ip
      BY DEF NoJob
    <3>3. job' = [job EXCEPT ![p] = k] /\ Call(p, "AssignFixedIP", ip, NoContainer, FALSE, <<>>)
      BY <3>1 DEF Invoke
    <3> HIDE DEF k
    <3>4. /\ Turned(p, job'[p]) /\ job'[p] = k /\ Fresh(p) /\ call'[p].pc \in {"get", "auto"}
          /\ UNCHANGED calico
      <4>1. JobAlone(p) /\ job'[p] = k
        BY <1>1, <3>3, JobTurns
      <4> QED BY <1>1, <3>3, <4>1, Asks
    <3>5. AskedOK(p)' /\ PlaceOK(p)' /\ Idles(k)
      BY <2>1, <3>2, <3>4 DEF AskedOK, PlaceOK, Idles
    <3>6. DriverOK(p)'
      BY <1>1, <2>1, <3>1, <3>2, <3>4 DEF DriverOK, ContainerOK
    <3> QED BY <1>3, <2>1, <3>2, <3>4, <3>5, <3>6, NewJobClean
  <2>3. CASE Proceed(p, [NoJob EXCEPT !.c = c, !.stage = "calico"])
    <3> DEFINE k == [NoJob EXCEPT !.c = c, !.stage = "calico"]
    <3>1. k.stage = "calico" /\ k.c = c /\ k.victims = {} /\ k.got = {} /\ k.ip = NoIP
      BY DEF NoJob
    <3>2. /\ job' = [job EXCEPT ![p] = k] /\ call' = [call EXCEPT ![p] = IdleFrame]
          /\ UNCHANGED <<ipinfo, calico>>
      BY <2>3 DEF Proceed
    <3> HIDE DEF k
    <3>3. Turned(p, job'[p]) /\ job'[p] = k /\ Fresh(p) /\ AskedOK(p)' /\ call'[p].pc = "idle"
      BY <1>1, <3>2, Rests
    <3>4. DriverOK(p)' /\ PlaceOK(p)' /\ Idles(k)
      BY <2>1, <3>1, <3>3 DEF DriverOK, PlaceOK, Idles
    <3> QED BY <1>3, <2>1, <3>1, <3>2, <3>3, <3>4, NewJobClean
  <2> QED BY <1>6, <2>2, <2>3 DEF RequestAddress
<1>7. CASE Remove(p, c)
  <2> DEFINE k == [NoJob EXCEPT !.c = c, !.stage = "delete"]
  <2>1. k.stage = "delete" /\ k.c = c /\ k.victims = {} /\ k.got = {} /\ k.ip = NoIP
    BY DEF NoJob
  <2>2. /\ job' = [job EXCEPT ![p] = k] /\ call' = [call EXCEPT ![p] = IdleFrame]
        /\ UNCHANGED <<ipinfo, calico, docker, conf, fixed, held, cinfo>> /\ docker[c] = "created"
    BY <1>7 DEF Remove, Proceed, world
  <2> HIDE DEF k
  <2>3. Turned(p, job'[p]) /\ job'[p] = k /\ Fresh(p) /\ AskedOK(p)' /\ call'[p].pc = "idle"
    BY <1>1, <2>2, Rests
  <2>4. DriverOK(p)' /\ PlaceOK(p)' /\ Idles(k)
    BY <2>1, <2>2, <2>3 DEF DriverOK, PlaceOK, Idles
  <2> QED BY <1>3, <2>1, <2>2, <2>3, <2>4, NewJobClean
<1> QED BY <1>4, <1>5, <1>6, <1>7

\* A step of the driver, which moves addresses between dockerd, p and Calico.
LEMMA DriverRecords ==
    ASSUME KeptIInv, CleanInd, NEW p \in Procs, Turned(p, job'[p]), call[p].pc = "idle", SameHold(p),
           \A ip \in IPs, c \in Containers : ip \in held[c] =>
              (Recorded(ip) => Used(ip)') /\ (ip.Address \in calico' => Accounted(ip)'),
           \A ip \in IPs : Busy(p, ip) /\ Recorded(ip) => Used(ip)',
           \A ip \in IPs : Giving(p, ip) /\ ip.Address \in calico' => Accounted(ip)',
           \A a \in calico' \ calico : \E ip \in IPs : ip.Address = a /\ Accounted(ip)'
    PROVE  RecordsStand /\ AllAccounted'
<1>1. Alone(p) /\ JobAlone(p) /\ UNCHANGED ipinfo
  BY DEF Turned
<1>2. ASSUME NEW ip \in IPs, Recorded(ip), Used(ip) PROVE Used(ip)'
  <2>1. \A q \in Procs \ {p} : Busy(q, ip)' <=> Busy(q, ip)
    BY <1>1, OthersHold
  <2>2. CASE \E c \in Containers : ip \in held[c]
    BY <1>2, <2>2
  <2>3. CASE \E q \in Procs : Busy(q, ip)
    BY <1>2, <2>1, <2>3 DEF Used
  <2> QED BY <1>2, <2>2, <2>3 DEF Used
<1>3. RecordsStand
  BY <1>1, <1>2, SameHoldRecords DEF RecordsStand, CleanInd, RecordOK
<1>4. AllAccounted'
  <2> SUFFICES ASSUME NEW a \in calico' PROVE \E ip \in IPs : ip.Address = a /\ Accounted(ip)'
    BY DEF AllAccounted
  <2>1. CASE a \in calico
    <3>1. PICK ip \in IPs : ip.Address = a /\ Accounted(ip)
      BY <2>1 DEF CleanInd, AllAccounted
    <3>2. \A q \in Procs \ {p} : (Owns(q, ip)' <=> Owns(q, ip)) /\ (Giving(q, ip)' <=> Giving(q, ip))
      BY <1>1, AloneOwns DEF Giving, JobAlone
    <3>3. ~Owns(p, ip) /\ (Recorded(ip)' <=> Recorded(ip))
      BY <1>1 DEF Owns, Recorded
    <3>4. CASE Recorded(ip) \/ \E q \in Procs \ {p} : Owns(q, ip) \/ Giving(q, ip)
      BY <3>1, <3>2, <3>3, <3>4 DEF Accounted
    <3>5. CASE Giving(p, ip) \/ \E c \in Containers : ip \in held[c]
      BY <3>1, <3>5
    <3> QED BY <3>1, <3>3, <3>4, <3>5 DEF Accounted
  <2> QED BY <2>1
<1> QED BY <1>3, <1>4

\* The container whose addresses the driver moves.
LEMMA DriverMinds ==
    ASSUME KeptIInv, CleanInd, NEW p \in Procs, NEW c \in Containers, job[p].c = c,
           job[p].stage \in {"assign", "calico", "unassign", "free", "delete"}, Turned(p, job'[p]),
           job'[p].c \in {c, NoContainer}, job'[p].victims = {},
           UNCHANGED <<docker, conf, fixed, cinfo>>, \A d \in Containers \ {c} : held'[d] = held[d],
           \A ip \in held'[c] : Recorded(ip) => ip \in fixed[c]
    PROVE  Minds(p)
<1>1. PlaceOK(p) /\ c \in Serves(p)
  BY CleanParts DEF Serves
<1>2. docker[c] = "created" /\ job[p].victims = {}
  BY <1>1 DEF PlaceOK
<1>3. ContainerOK(c) /\ Exists(cinfo[c]) /\ cinfo[c].val = fixed[c]
  BY <1>1, <1>2, ServesAlone, ServedAlone
<1>4. \A ip : Recorded(ip)' <=> Recorded(ip)
  BY DEF Turned, Recorded
<1>5. ContainerOK(c)'
  BY <1>2, <1>3, <1>4 DEF ContainerOK
<1> QED BY <1>2, <1>5, GoesOn DEF SameContainer

\* Stops of containers.
LEMMA StopClean ==
    ASSUME Clean, KeptIInv, CleanInd, NEW p \in Procs, NEW c \in Containers, ReleaseAddress(p, c)
    PROVE  Outside(p)
<1>1. SysIInv /\ ContainerOK(c) /\ WorldOK /\ TypeOK
  BY CleanParts DEF CleanInd
<1>2. PICK ip \in held[c] :
          /\ held' = [held EXCEPT ![c] = @ \ {ip}]
          /\ Invoke(p, [NoJob EXCEPT !.c = c, !.stage = "unassign", !.ip = ip], "UnassignFixedIP", ip)
  BY DEF ReleaseAddress
<1>3. /\ Free(p, c) /\ UNCHANGED <<docker, conf, fixed, cinfo>> /\ docker[c] = "created" /\ ip \in IPs
  BY <1>1, <1>2 DEF ReleaseAddress, ContainerOK, WorldOK
<1>4. job[p] = NoJob /\ \A q \in Procs : c \notin Serves(q)
  BY <1>3, FreeAlone
<1> DEFINE k == [NoJob EXCEPT !.c = c, !.stage = "unassign", !.ip = ip]
<1>5. k.stage = "unassign" /\ k.c = c /\ k.victims = {} /\ k.got = {} /\ k.ip = ip
  BY DEF NoJob
<1>6. job' = [job EXCEPT ![p] = k] /\ Call(p, "UnassignFixedIP", ip, NoContainer, FALSE, <<>>)
  BY <1>2 DEF Invoke
<1> HIDE DEF k
<1>7. /\ Turned(p, job'[p]) /\ job'[p] = k /\ Fresh(p) /\ call[p].pc = "idle"
      /\ UNCHANGED calico
  <2>1. JobAlone(p) /\ job'[p] = k
    BY <1>1, <1>6, JobTurns
  <2> QED BY <1>1, <1>6, <2>1, Asks
<1>8. call'[p].pc = "get"
  BY <1>1, <1>6, CallFrame
<1>9. /\ held'[c] = held[c] \ {ip} /\ \A d \in Containers \ {c} : held'[d] = held[d]
      /\ \A jp : Recorded(jp)' <=> Recorded(jp)
  BY <1>1, <1>2, <1>7 DEF WorldOK, Turned, Recorded
<1>10. AskedOK(p)' /\ PlaceOK(p)' /\ Idles(k)
  BY <1>3, <1>5, <1>7, <1>8 DEF AskedOK, PlaceOK, Idles
<1>11. DriverOK(p)'
  <2>1. Recorded(ip) => ip \in fixed[c]
    BY <1>1, <1>2 DEF ContainerOK
  <2> QED BY <1>3, <1>5, <1>7, <1>8, <1>9, <2>1 DEF DriverOK
<1>12. Minds(p)
  <2>1. Exists(cinfo[c]) /\ cinfo[c].val = fixed[c]
    BY <1>3, <1>4, ServedAlone, NoJobHolds
  <2>2. ContainerOK(c)'
    BY <1>1, <1>3, <1>9, <2>1 DEF ContainerOK
  <2> QED BY <1>3, <1>4, <1>5, <1>7, <1>9, <2>2, TakesUp DEF SameContainer
<1>13. Unmarking(p, ip)' /\ Giving(p, ip)'
  BY <1>5, <1>7, <1>8 DEF Unmarking, Giving
<1>14. RecordsStand /\ AllAccounted'
  <2>1. SameHold(p)
    BY <1>3, <1>4, <1>7, <1>10, IdleHold, NoJobHolds
  <2>2. ASSUME NEW jp \in IPs, NEW d \in Containers, jp \in held[d] PROVE Used(jp)' /\ Accounted(jp)'
    BY <1>9, <1>13, <2>2 DEF Used, Accounted, Busy
  <2>3. \A jp \in IPs : ~Busy(p, jp) /\ ~Giving(p, jp)
    BY <1>4, <1>7, NoJobHolds DEF Busy, Granted, Freeing, Unmarking, Deleting, Giving
  <2> QED BY <1>7, <2>1, <2>2, <2>3, DriverRecords
<1> QED BY <1>7, <1>8, <1>10, <1>11, <1>12, <1>14 DEF Outside

\* The driver's answers to dockerd.
LEMMA DriverClean ==
    ASSUME Clean, KeptIInv, CleanInd, NEW p \in Procs,
           Assigned(p) \/ CalicoRequest(p) \/ Unassigned(p) \/ CalicoRelease(p)
    PROVE  Outside(p)
<1>1. /\ SysIInv /\ WorldOK /\ TypeOK /\ DriverOK(p) /\ PlaceOK(p) /\ OwnedOnce /\ UsedOnce
      /\ GoodJob(job[p]) /\ job[p] \in Job
  BY CleanParts
<1>2. /\ job[p].stage \in {"assign", "calico", "unassign", "free"} /\ call[p].pc = "idle"
      /\ UNCHANGED <<ipinfo, docker, conf, fixed, cinfo>>
  BY DEF Assigned, CalicoRequest, Unassigned, CalicoRelease, At, world, Finish, Proceed, EndJob
<1>3. PICK c \in Containers : c = job[p].c
  BY <1>1, <1>2 DEF GoodJob
<1>4. /\ docker[c] = "created" /\ ContainerOK(c) /\ job[p].victims = {}
  BY <1>1, <1>2, <1>3 DEF PlaceOK, CleanInd
<1>5. ASSUME job' = [job EXCEPT ![p] = NoJob], call' = [call EXCEPT ![p] = IdleFrame],
             \A d \in Containers \ {c} : held'[d] = held[d],
             \A ip \in held'[c] : Recorded(ip) => ip \in fixed[c],
             \A ip \in IPs, d \in Containers : ip \in held[d] => ip \in held'[d],
             \A ip \in IPs : Busy(p, ip) /\ Recorded(ip) => ip \in held'[c],
             \A ip \in IPs : Giving(p, ip) /\ ip.Address \in calico' => Recorded(ip),
             \A a \in calico' \ calico : \E ip \in IPs : ip.Address = a /\ ip \in held'[c]
      PROVE  Outside(p)
  <2>1. /\ Turned(p, job'[p]) /\ job'[p] = NoJob /\ Fresh(p) /\ AskedOK(p)' /\ call'[p].pc = "idle"
    BY <1>1, <1>2, <1>5, Rests
  <2>2. DriverOK(p)' /\ PlaceOK(p)' /\ Idles(NoJob) /\ NoJob.c = NoContainer
    BY <2>1, NoJobHolds DEF DriverOK, PlaceOK, Idles, NoJob
  <2>3. Minds(p)
    BY <1>2, <1>3, <1>5, <2>1, <2>2, DriverMinds, NoJobHolds
  <2>4. SameHold(p)
    BY <1>2, <2>1, <2>2, IdleHold
  <2>5. \A ip \in IPs : (Recorded(ip)' <=> Recorded(ip))
    BY <1>2 DEF Recorded
  <2>6. RecordsStand /\ AllAccounted'
    <3>1. \A ip \in IPs, d \in Containers : ip \in held[d] => Used(ip)' /\ Accounted(ip)'
      BY <1>5 DEF Used, Accounted
    <3>2. \A ip \in IPs : Busy(p, ip) /\ Recorded(ip) => Used(ip)'
      BY <1>5 DEF Used
    <3>3. \A ip \in IPs : Giving(p, ip) /\ ip.Address \in calico' => Accounted(ip)'
      BY <1>5, <2>5 DEF Accounted
    <3>4. \A a \in calico' \ calico : \E ip \in IPs : ip.Address = a /\ Accounted(ip)'
      BY <1>5 DEF Accounted
    <3> QED BY <1>2, <2>1, <2>4, <3>1, <3>2, <3>3, <3>4, DriverRecords
  <2> QED BY <1>2, <2>1, <2>2, <2>3, <2>6 DEF Outside
<1>6. CASE Assigned(p)
  <2>1. PICK ip \in IPs : ip = job[p].ip
    BY <1>1, <1>6 DEF Assigned, At, GoodJob
  <2>2. /\ job[p].stage = "assign" /\ ip \in fixed[c] /\ call[p].err # "ErrFixedIPNotAllocated"
    BY <1>1, <1>3, <1>6, <2>1 DEF Assigned, At, DriverOK
  <2>3. /\ Finish(p) /\ held' = IF Ok(p) THEN [held EXCEPT ![c] = @ \cup {ip}] ELSE held
    BY <1>3, <1>6, <2>1, <2>2 DEF Assigned
  <2>4. /\ held'[c] = held[c] \cup (IF Ok(p) THEN {ip} ELSE {})
        /\ \A d \in Containers \ {c} : held'[d] = held[d]
    BY <1>1, <2>3 DEF WorldOK
  <2>5. \A jp \in held'[c] : Recorded(jp) => jp \in fixed[c]
    BY <1>4, <2>2, <2>4 DEF ContainerOK
  <2>6. \A jp \in IPs : ~Giving(p, jp) /\ (Busy(p, jp) => jp = ip /\ Ok(p))
    BY <1>2, <2>1, <2>2 DEF Giving, Busy, Granted, Freeing, Unmarking, Deleting
  <2> QED BY <1>5, <2>3, <2>4, <2>5, <2>6 DEF Finish, EndJob
<1>7. CASE CalicoRequest(p)
  <2>1. /\ job[p].stage = "calico" /\ job[p].ip = NoIP /\ EndJob(p)
    BY <1>1, <1>7 DEF CalicoRequest, At, PlaceOK
  <2>2. \A jp \in IPs : ~Giving(p, jp) /\ ~Busy(p, jp)
    BY <1>2, <2>1 DEF Giving, Busy, Granted, Freeing, Unmarking, Deleting
  <2>3. CASE UNCHANGED <<calico, held>>
    BY <1>4, <1>5, <2>1, <2>2, <2>3 DEF EndJob, ContainerOK
  <2>4. CASE \E ip \in Choices(p) : /\ calico' = calico \cup {ip.Address}
                                    /\ held' = [held EXCEPT ![c] = @ \cup {ip}]
    <3>1. PICK ip \in Choices(p) : /\ calico' = calico \cup {ip.Address}
                                   /\ held' = [held EXCEPT ![c] = @ \cup {ip}]
      BY <2>4
    <3>2. ip \in IPs /\ ip.Address \notin calico
      BY <2>1, <1>1, ChoicesFree
    <3>3. ~Recorded(ip)
      BY <1>1, <3>2 DEF OwnedOnce, Recorded
    <3>4. /\ held'[c] = held[c] \cup {ip}
          /\ \A d \in Containers \ {c} : held'[d] = held[d]
      BY <1>1, <3>1 DEF WorldOK
    <3>5. \A jp \in held'[c] : Recorded(jp) => jp \in fixed[c]
      BY <1>4, <3>3, <3>4 DEF ContainerOK
    <3>6. \A a \in calico' \ calico : a = ip.Address /\ ip \in held'[c]
      BY <3>1, <3>4
    <3> QED BY <1>5, <2>1, <2>2, <3>2, <3>4, <3>5, <3>6 DEF EndJob
  <2> QED BY <1>3, <1>7, <2>3, <2>4 DEF CalicoRequest
<1>8. CASE Unassigned(p)
  <2>1. PICK ip \in IPs : ip = job[p].ip
    BY <1>1, <1>8 DEF Unassigned, At, GoodJob
  <2>2. /\ job[p].stage = "unassign" /\ UNCHANGED held
        /\ ~Recorded(ip) => call[p].err = "ErrFixedIPNotAllocated"
    BY <1>1, <1>2, <1>8, <2>1 DEF Unassigned, At, DriverOK, world
  <2>3. CASE call[p].err = "ErrFixedIPNotAllocated"
    <3> DEFINE k == [job[p] EXCEPT !.stage = "free"]
    <3>1. k.stage = "free" /\ k.c = c /\ k.ip = ip /\ k.victims = {}
      BY <1>1, <1>3, <1>4, <2>1 DEF Job
    <3>2. /\ job' = [job EXCEPT ![p] = k] /\ call' = [call EXCEPT ![p] = IdleFrame]
          /\ UNCHANGED <<ipinfo, calico>>
      BY <1>8, <2>3 DEF Unassigned, Proceed
    <3> HIDE DEF k
    <3>3. /\ Turned(p, job'[p]) /\ job'[p] = k /\ Fresh(p) /\ AskedOK(p)' /\ call'[p].pc = "idle"
      BY <1>1, <3>2, Rests
    <3>4. DriverOK(p)' /\ PlaceOK(p)' /\ Idles(k)
      BY <1>2, <1>4, <3>1, <3>3 DEF DriverOK, PlaceOK, Idles
    <3>5. Minds(p)
      BY <1>2, <1>3, <1>4, <2>2, <3>1, <3>3, DriverMinds DEF ContainerOK
    <3>6. SameHold(p)
      BY <1>2, <3>3, <3>4, IdleHold
    <3>7. Freeing(p, ip)' /\ Giving(p, ip)'
      BY <3>1, <3>3 DEF Freeing, Giving
    <3>8. \A jp \in IPs : (Busy(p, jp) => jp = ip) /\ (Giving(p, jp) => jp = ip)
      BY <1>2, <2>1, <2>2 DEF Giving, Busy, Granted, Freeing, Unmarking, Deleting
    <3>9. RecordsStand /\ AllAccounted'
      <4>1. \A jp \in IPs, d \in Containers : jp \in held[d] => Used(jp)' /\ Accounted(jp)'
        BY <2>2 DEF Used, Accounted
      <4>2. Used(ip)' /\ Accounted(ip)'
        BY <3>7 DEF Used, Accounted, Busy
      <4> QED BY <1>2, <3>2, <3>3, <3>6, <3>8, <4>1, <4>2, DriverRecords
    <3> QED BY <1>2, <3>3, <3>4, <3>5, <3>9 DEF Outside
  <2>4. CASE call[p].err # "ErrFixedIPNotAllocated"
    <3>1. Finish(p)
      BY <1>8, <2>4 DEF Unassigned
    <3>2. \A jp \in IPs : ~Busy(p, jp) /\ (Giving(p, jp) => jp = ip)
      BY <1>2, <2>1, <2>2, <2>4 DEF Giving, Busy, Granted, Freeing, Unmarking, Deleting
    <3> QED BY <1>4, <1>5, <2>2, <2>4, <3>1, <3>2 DEF Finish, EndJob, ContainerOK
  <2> QED BY <2>3, <2>4
<1>9. CASE CalicoRelease(p)
  <2>1. PICK ip \in IPs : ip = job[p].ip
    BY <1>1, <1>9 DEF CalicoRelease, At, GoodJob
  <2>2. /\ job[p].stage = "free" /\ UNCHANGED held /\ calico' = calico \ {ip.Address} /\ EndJob(p)
    BY <1>9, <2>1 DEF CalicoRelease, At, world
  <2>3. /\ \A jp \in IPs : (Busy(p, jp) => jp = ip) /\ (Giving(p, jp) => jp = ip)
        /\ Freeing(p, ip)
    BY <1>2, <2>1, <2>2 DEF Giving, Busy, Granted, Freeing, Unmarking, Deleting
  <2>4. ~Recorded(ip)
    BY <1>1, <2>3 DEF UsedOnce
  <2> QED BY <1>4, <1>5, <2>2, <2>3, <2>4 DEF EndJob, ContainerOK
<1> QED BY <1>6, <1>7, <1>8, <1>9

\* dockerd forgets stopped containers, and p is to release them.
LEMMA ForgetClean ==
    ASSUME KeptIInv, CleanInd, NEW p \in Procs, NEW S \in SUBSET Containers, Forget(S),
           \A c \in S : docker[c] = "created" /\ held[c] = {},
           \A c \in S, q \in Procs \ {p} : c \notin Serves(q), Serves(p) \subseteq S,
           job[p].stage \in {"idle", "delete"}, call[p].pc = "idle",
           NEW k, k.stage = "info", k.c \in S, k.victims = S \ {k.c}, Proceed(p, k)
    PROVE  Outside(p)
<1>1. SysIInv /\ WorldOK
  BY CleanParts
<1>2. /\ Turned(p, job'[p]) /\ job'[p] = k /\ Fresh(p) /\ AskedOK(p)' /\ call'[p].pc = "idle"
      /\ UNCHANGED calico
  BY <1>1, Rests DEF Proceed
<1>3. DriverOK(p)' /\ PlaceOK(p)' /\ Idles(k)
  BY <1>2 DEF DriverOK, PlaceOK, Idles
<1>4. /\ \A c \in S : docker'[c] = "removed" /\ conf'[c] = {} /\ fixed'[c] = {}
      /\ \A c \in Containers \ S : docker'[c] = docker[c] /\ conf'[c] = conf[c] /\ fixed'[c] = fixed[c]
      /\ UNCHANGED <<held, cinfo>>
  BY DEF Forget
<1>5. \A c \in Containers : c \in Serves(p)' <=> c \in S
  BY <1>2 DEF Serves
<1>6. \A c \in S : cinfo[c].val = fixed[c]
  BY ServedAlone
<1>7. Minds(p)
  <2>1. ASSUME NEW c \in S PROVE ContainerOK(c)'
    <3>1. (job'[p].c = c /\ job'[p].stage = "info") \/ c \in job'[p].victims
      BY <1>2
    <3> QED BY <1>4, <3>1 DEF ContainerOK
  <2>2. \A c \in Containers \ S : SameContainer(c)
    BY <1>4 DEF SameContainer
  <2> QED BY <1>5, <2>1, <2>2 DEF Minds
<1>8. SameHold(p)
  BY <1>2, <1>3, <1>4, <1>6, IdleHold
<1>9. RecordsStand /\ AllAccounted'
  BY <1>2, <1>4, <1>8, HandlerRecords
<1> QED BY <1>2, <1>3, <1>7, <1>9 DEF Outside

\* Prunes, and dockerd's answers to removes.
LEMMA RemoveClean ==
    ASSUME Clean, KeptIInv, CleanInd, NEW p \in Procs, Prune(p) \/ RemoveAnswered(p)
    PROVE  Outside(p)
<1>1. SysIInv /\ WorldOK /\ TypeOK /\ PlaceOK(p) /\ GoodJob(job[p]) /\ job[p] \in Job
  BY CleanParts
<1>2. CASE Prune(p)
  <2> DEFINE S == {c \in Containers : docker[c] = "created" /\ held[c] = {} /\ ~DockerBusy(c)}
  <2>1. /\ \A c \in S : Free(p, c)
        /\ Forget(S)
        /\ \E c \in S : Proceed(p, [NoJob EXCEPT !.c = c, !.stage = "info", !.victims = S \ {c}])
    BY <1>2 DEF Prune
  <2>2. \A c \in S : docker[c] = "created" /\ held[c] = {} /\ c \in Containers
    OBVIOUS
  <2>3. S \in SUBSET Containers
    OBVIOUS
  <2> HIDE DEF S
  <2>4. PICK c \in S : Proceed(p, [NoJob EXCEPT !.c = c, !.stage = "info", !.victims = S \ {c}])
    BY <2>1
  <2> DEFINE k == [NoJob EXCEPT !.c = c, !.stage = "info", !.victims = S \ {c}]
  <2>5. k.stage = "info" /\ k.c = c /\ k.victims = S \ {c}
    BY DEF NoJob
  <2>6. Proceed(p, k)
    BY <2>4
  <2> HIDE DEF k
  <2>7. /\ \A d \in S, q \in Procs : d \notin Serves(q)
        /\ job[p] = NoJob
    BY <2>1, <2>2, <2>4, FreeAlone
  <2>8. job[p].stage = "idle" /\ call[p].pc = "idle" /\ Serves(p) \subseteq S
    BY <1>1, <2>7, NoJobHolds, SysParts DEF Serves
  <2> QED BY <2>1, <2>2, <2>3, <2>4, <2>5, <2>6, <2>7, <2>8, ForgetClean
<1>3. CASE RemoveAnswered(p)
  <2>1. job[p].stage = "delete" /\ call[p].pc = "idle"
    BY <1>3 DEF RemoveAnswered, At
  <2>2. PICK c \in Containers : c = job[p].c
    BY <1>1, <2>1 DEF GoodJob
  <2>3. docker[c] = "created" /\ job[p].victims = {} /\ ContainerOK(c)
    BY <1>1, <2>1, <2>2 DEF PlaceOK, CleanInd
  <2>4. CASE held[c] # {}
    <3>1. /\ job' = [job EXCEPT ![p] = NoJob] /\ call' = [call EXCEPT ![p] = IdleFrame]
          /\ UNCHANGED <<ipinfo, calico, docker, conf, fixed, held, cinfo>>
      BY <1>3, <2>2, <2>4 DEF RemoveAnswered, Finish, EndJob, world
    <3>2. /\ Turned(p, job'[p]) /\ job'[p] = NoJob /\ Fresh(p) /\ AskedOK(p)' /\ call'[p].pc = "idle"
      BY <1>1, <3>1, Rests
    <3>3. DriverOK(p)' /\ PlaceOK(p)' /\ Idles(NoJob) /\ NoJob.c = NoContainer
      BY <3>2, NoJobHolds DEF DriverOK, PlaceOK, Idles, NoJob
    <3>4. Minds(p)
      BY <2>1, <2>2, <2>3, <3>1, <3>2, <3>3, DriverMinds, NoJobHolds DEF ContainerOK
    <3>5. SameHold(p)
      BY <2>1, <3>1, <3>2, <3>3, IdleHold
    <3>6. RecordsStand /\ AllAccounted'
      BY <2>1, <3>1, <3>2, <3>5, HandlerRecords
    <3> QED BY <2>1, <3>2, <3>3, <3>4, <3>6 DEF Outside
  <2>5. CASE held[c] = {}
    <3> DEFINE k == [job[p] EXCEPT !.stage = "info"]
    <3>1. k.stage = "info" /\ k.c = c /\ k.victims = {c} \ {c}
      BY <1>1, <2>2, <2>3 DEF Job
    <3>2. Forget({c}) /\ Proceed(p, k)
      BY <1>3, <2>2, <2>5 DEF RemoveAnswered
    <3> HIDE DEF k
    <3>3. Serves(p) \subseteq {c} /\ c \in Serves(p)
      BY <2>2, <2>3 DEF Serves
    <3>4. \A q \in Procs \ {p} : c \notin Serves(q)
      BY <3>3, ServesAlone
    <3>5. {c} \in SUBSET Containers /\ c \in {c}
      OBVIOUS
    <3>6. PICK S \in SUBSET Containers : S = {c}
      BY <3>5
    <3>7. Forget(S)
      BY <3>2, <3>6
    <3> QED BY <2>1, <2>3, <2>5, <3>1, <3>2, <3>3, <3>4, <3>6, <3>7, ForgetClean
  <2> QED BY <2>4, <2>5
<1> QED BY <1>2, <1>3

-----------------------------------------------------------------------------
(***************************************************************************)
(* Creates                                                                 *)
(***************************************************************************)

\* The container of a create that dockerd has not answered, or has refused.
LEMMA CreateOf ==
    ASSUME KeptIInv, CleanInd, NEW p \in Procs, job[p].stage \in {"alloc", "dockerd", "rollback"},
           NEW c \in Containers, c = job[p].c
    PROVE  /\ docker[c] \in {"requested", "failed"} /\ job[p].victims = {} /\ ContainerOK(c)
           /\ held[c] = {} /\ fixed[c] = {} /\ conf[c] = {} /\ ~Exists(cinfo[c]) /\ cinfo[c].val = {}
           /\ \A q \in Procs \ {p} : c \notin Serves(q)
           /\ \A ip \in IPs : ~Has(c, ip)
<1>1. PlaceOK(p) /\ DockerOf(docker, job[p]) /\ DockerInv /\ InfoInv /\ c \in Serves(p)
  BY CleanParts DEF Serves
<1>2. docker[c] \in {"requested", "failed"} /\ job[p].victims = {}
  BY <1>1 DEF PlaceOK, DockerOf
<1>3. \A q \in Procs \ {p} : c \notin Serves(q)
  BY <1>1, ServesAlone
<1>4. ContainerOK(c) /\ ~Exists(cinfo[c])
  BY <1>2, <1>3, ServedAlone
<1>5. held[c] = {} /\ fixed[c] = {} /\ conf[c] = {} /\ cinfo[c].val = {}
  BY <1>1, <1>2, <1>4 DEF ContainerOK, DockerInv, InfoInv
<1>6. \A ip \in IPs : ~Has(c, ip)
  BY <1>3, <1>5 DEF Has, Listed, Listing, Serves
<1> QED BY <1>2, <1>3, <1>4, <1>5, <1>6

\* A create that gives up gives back what it has allocated.
LEMMA RollbackClean ==
    ASSUME KeptIInv, CleanInd, NEW p \in Procs, job[p].stage \in {"alloc", "dockerd", "rollback"},
           call[p].pc = "idle", NEW c \in Containers, c = job[p].c,
           docker'[c] = "failed", \A d \in Containers \ {c} : docker'[d] = docker[d],
           UNCHANGED <<conf, fixed, held, cinfo>>,
           NEW j \in Job, j.c = c, j.victims = {}, Rollback(p, j),
           \A ip \in IPs : Claims(p, ip) <=> ip \in j.addrs
    PROVE  Outside(p)
<1>1. SysIInv
  BY CleanParts
<1>2. /\ Turned(p, job'[p]) /\ call'[p].pc # "update" /\ UNCHANGED calico
      /\ \/ job'[p] = NoJob
         \/ job'[p].stage = "rollback" /\ job'[p].c = c /\ job'[p].victims = {}
      /\ AskedOK(p)' /\ DriverOK(p)'
      /\ \A ip \in IPs : /\ Claims(p, ip)' <=> ip \in j.addrs
                         /\ ~ToBorrow(p, ip)' /\ ~ToReturn(p, ip)'
                         /\ \A d \in Containers : ~Listing(p, d, ip)'
  BY <1>1, RollbackHolds
<1>3. PlaceOK(p)'
  BY <1>2, NoJobHolds DEF PlaceOK
<1>4. Minds(p)
  <2>1. held[c] = {} /\ ~Exists(cinfo[c]) /\ ContainerOK(c) /\ job[p].victims = {}
    BY CreateOf
  <2>2. ContainerOK(c)'
    BY <2>1 DEF ContainerOK
  <2>3. job'[p].c \in {c, NoContainer} /\ job'[p].victims = {}
    BY <1>2, NoJobHolds DEF NoJob
  <2> QED BY <2>1, <2>2, <2>3, GoesOn DEF SameContainer
<1>5. SameHold(p)
  <2> SUFFICES ASSUME NEW ip \in IPs
               PROVE  /\ ~ToBorrow(p, ip) /\ ~ToReturn(p, ip)
                      /\ \A d \in Containers : Has(d, ip)' <=> Has(d, ip)
    BY <1>2 DEF SameHold
  <2>1. ~ToBorrow(p, ip) /\ ~ToReturn(p, ip) /\ \A d \in Containers : ~Listing(p, d, ip)
    BY DEF ToBorrow, ToReturn, Listing
  <2>2. \A q \in Procs \ {p}, d \in Containers : Listing(q, d, ip)' <=> Listing(q, d, ip)
    BY <1>2, OthersClaim DEF Turned
  <2> QED BY <1>2, <2>1, <2>2 DEF Has, Listed
<1>6. RecordsStand /\ AllAccounted'
  BY <1>2, <1>5, HandlerRecords
<1> QED BY <1>2, <1>3, <1>4, <1>6 DEF Outside

\* Creates that dockerd has not accepted.
LEMMA AllocClean ==
    ASSUME KeptIInv, CleanInd, NEW p \in Procs, Allocated(p) \/ RolledBack(p) \/ CreateRefused(p)
    PROVE  Outside(p)
<1>1. SysIInv /\ WorldOK /\ PlaceOK(p) /\ GoodJob(job[p]) /\ job[p] \in Job /\ Linked(p)
  BY CleanParts
<1>2. /\ job[p].stage \in {"alloc", "dockerd", "rollback"} /\ call[p].pc = "idle"
      /\ UNCHANGED <<conf, fixed, held, cinfo>>
  BY DEF Allocated, RolledBack, CreateRefused, At, world
<1>3. PICK c \in Containers : c = job[p].c
  BY <1>1, <1>2 DEF GoodJob
<1>4. /\ job[p].victims = {} /\ ContainerOK(c) /\ held[c] = {} /\ ~Exists(cinfo[c])
      /\ docker[c] \in {"requested", "failed"}
  BY <1>2, <1>3, CreateOf
<1>5. ASSUME job[p].stage \in {"alloc", "dockerd"}, job[p].stage = "alloc" => ~Ok(p),
             docker' = [docker EXCEPT ![c] = "failed"],
             Rollback(p, [job[p] EXCEPT !.addrs = job[p].got])
      PROVE  Outside(p)
  <2> DEFINE j == [job[p] EXCEPT !.addrs = job[p].got]
  <2>1. j \in Job /\ j.c = c /\ j.victims = {} /\ j.addrs = job[p].got
    BY <1>1, <1>3, <1>4 DEF Job
  <2>2. Rollback(p, j)
    BY <1>5
  <2> HIDE DEF j
  <2>3. \A ip \in IPs : Claims(p, ip) <=> ip \in j.addrs
    BY <1>5, <2>1 DEF Claims, AtHand, Pending, Making
  <2>4. docker'[c] = "failed" /\ \A d \in Containers \ {c} : docker'[d] = docker[d]
    BY <1>1, <1>5 DEF WorldOK
  <2> QED BY <1>2, <1>3, <2>1, <2>2, <2>3, <2>4, RollbackClean
<1>6. ASSUME job[p].stage = "alloc", Ok(p), UNCHANGED <<docker, calico>>, Turned(p, job'[p]), Fresh(p),
             call'[p].pc # "update", NEW k, job'[p] = k, k.stage \in {"alloc", "dockerd"}, k.c = c,
             k.victims = {}, k.ip = NoIP, k.got = job[p].got \cup {call[p].ip}
      PROVE  Outside(p)
  <2>1. PlaceOK(p)' /\ AskedOK(p)' /\ DriverOK(p)'
    BY <1>6 DEF PlaceOK, AskedOK, DriverOK
  <2>2. Minds(p)
    <3>1. ContainerOK(c)'
      BY <1>2, <1>4, <1>6 DEF ContainerOK
    <3> QED BY <1>2, <1>3, <1>4, <1>6, <3>1, GoesOn DEF SameContainer
  <2>3. SameHold(p)
    <3> SUFFICES ASSUME NEW ip \in IPs
                 PROVE  /\ Claims(p, ip)' <=> Claims(p, ip)
                        /\ ~ToBorrow(p, ip) /\ ~ToReturn(p, ip) /\ ~ToBorrow(p, ip)' /\ ~ToReturn(p, ip)'
                        /\ \A d \in Containers : Has(d, ip)' <=> Has(d, ip)
      BY DEF SameHold
    <3>1. /\ ~ToBorrow(p, ip) /\ ~ToReturn(p, ip) /\ ~ToBorrow(p, ip)' /\ ~ToReturn(p, ip)'
          /\ \A d \in Containers : ~Listing(p, d, ip) /\ ~Listing(p, d, ip)'
      BY <1>6 DEF ToBorrow, ToReturn, Listing
    <3>2. \A q \in Procs \ {p}, d \in Containers : Listing(q, d, ip)' <=> Listing(q, d, ip)
      BY <1>6, OthersClaim DEF Turned
    <3>3. Claims(p, ip) <=> ip \in k.got
      BY <1>2, <1>6 DEF Claims, AtHand, Pending, Making
    <3>4. Claims(p, ip)' <=> ip \in k.got
      BY <1>6, TurnClaims DEF Claims
    <3> QED BY <1>2, <3>1, <3>2, <3>3, <3>4 DEF Has, Listed
  <2>4. RecordsStand /\ AllAccounted'
    BY <1>2, <1>6, <2>3, HandlerRecords
  <2> QED BY <1>2, <1>6, <2>1, <2>2, <2>4 DEF Outside
<1>7. CASE Allocated(p)
  <2>1. job[p].stage = "alloc" /\ job[p].ip = NoIP
    BY <1>1, <1>7 DEF Allocated, At, PlaceOK
  <2> DEFINE j == [job[p] EXCEPT !.got = @ \cup {call[p].ip}, !.net = @ + 1]
  <2>2. /\ ~Ok(p) => /\ docker' = [docker EXCEPT ![j.c] = "failed"]
                     /\ Rollback(p, [job[p] EXCEPT !.addrs = job[p].got])
        /\ Ok(p) => \/ AllocNext(p, j) /\ UNCHANGED docker
                    \/ Proceed(p, [j EXCEPT !.stage = "dockerd"]) /\ UNCHANGED docker
    BY <1>7 DEF Allocated
  <2>3. j.c = c /\ j.victims = {} /\ j.ip = NoIP /\ j.got = job[p].got \cup {call[p].ip}
    BY <1>1, <1>3, <1>4, <2>1 DEF Job
  <2>4. /\ [j EXCEPT !.stage = "dockerd"].stage = "dockerd" /\ [j EXCEPT !.stage = "dockerd"].c = c
        /\ [j EXCEPT !.stage = "dockerd"].victims = {} /\ [j EXCEPT !.stage = "dockerd"].ip = NoIP
        /\ [j EXCEPT !.stage = "dockerd"].got = j.got
    BY <1>1, <1>3, <1>4, <2>1 DEF Job
  <2>5. /\ [j EXCEPT !.stage = "alloc"].stage = "alloc" /\ [j EXCEPT !.stage = "alloc"].c = c
        /\ [j EXCEPT !.stage = "alloc"].victims = {} /\ [j EXCEPT !.stage = "alloc"].ip = NoIP
        /\ [j EXCEPT !.stage = "alloc"].got = j.got
    BY <1>1, <1>3, <1>4, <2>1 DEF Job
  <2> HIDE DEF j
  <2>6. CASE ~Ok(p)
    BY <1>5, <2>1, <2>2, <2>3, <2>6
  <2>7. CASE Ok(p) /\ AllocNext(p, j) /\ UNCHANGED docker
    <3> DEFINE k == [j EXCEPT !.stage = "alloc"]
    <3>1. /\ job' = [job EXCEPT ![p] = k]
          /\ Call(p, "AllocFixedIPFromPools", NoIP, NoContainer, FALSE, Networks[j.net + 1])
      BY <2>7 DEF AllocNext
    <3>2. PICK pools : pools = Networks[j.net + 1]
      OBVIOUS
    <3>3. Call(p, "AllocFixedIPFromPools", NoIP, NoContainer, FALSE, pools)
      BY <3>1, <3>2
    <3>4. k.stage = "alloc" /\ k.c = c /\ k.victims = {} /\ k.ip = NoIP /\ k.got = j.got
      BY <2>5
    <3> HIDE DEF k
    <3>5. /\ Turned(p, job'[p]) /\ job'[p] = k /\ Fresh(p) /\ call'[p].pc \in {"get", "auto"}
          /\ UNCHANGED calico
      <4>1. JobAlone(p) /\ job'[p] = k
        BY <1>1, <3>1, <3>3, JobTurns
      <4> QED BY <1>1, <3>1, <3>3, <4>1, Asks
    <3> QED BY <1>6, <2>1, <2>3, <2>7, <3>4, <3>5
  <2>8. CASE Ok(p) /\ Proceed(p, [j EXCEPT !.stage = "dockerd"]) /\ UNCHANGED docker
    <3> DEFINE k == [j EXCEPT !.stage = "dockerd"]
    <3>1. /\ job' = [job EXCEPT ![p] = k] /\ call' = [call EXCEPT ![p] = IdleFrame]
          /\ UNCHANGED <<ipinfo, calico>>
      BY <2>8 DEF Proceed
    <3>4. k.stage = "dockerd" /\ k.c = c /\ k.victims = {} /\ k.ip = NoIP /\ k.got = j.got
      BY <2>4
    <3> HIDE DEF k
    <3>5. /\ Turned(p, job'[p]) /\ job'[p] = k /\ Fresh(p) /\ call'[p].pc = "idle"
      BY <1>1, <3>1, Rests
    <3> QED BY <1>6, <2>1, <2>3, <2>8, <3>1, <3>4, <3>5
  <2> QED BY <2>2, <2>6, <2>7, <2>8
<1>8. CASE RolledBack(p)
  <2>1. /\ job[p].stage = "rollback" /\ docker[c] = "failed" /\ UNCHANGED docker
        /\ Rollback(p, job[p])
    BY <1>1, <1>3, <1>8 DEF RolledBack, At, PlaceOK, world
  <2>2. \A ip \in IPs : Claims(p, ip) <=> ip \in job[p].addrs
    BY <1>2, <2>1 DEF Claims, AtHand, Pending, Making
  <2> QED BY <1>1, <1>2, <1>3, <1>4, <2>1, <2>2, RollbackClean
<1>9. CASE CreateRefused(p)
  BY <1>3, <1>5, <1>9 DEF CreateRefused, At
<1> QED BY <1>7, <1>8, <1>9

\* dockerd has created the container, and its addresses become its own.
LEMMA AcceptClean ==
    ASSUME KeptIInv, CleanInd, NEW p \in Procs, CreateAccepted(p)
    PROVE  Outside(p)
<1>1. SysIInv /\ WorldOK /\ PlaceOK(p) /\ GoodJob(job[p]) /\ job[p] \in Job /\ ClaimsOnce
  BY CleanParts
<1>2. /\ job[p].stage = "dockerd" /\ call[p].pc = "idle" /\ job[p].ip = NoIP
      /\ UNCHANGED <<held, cinfo>> /\ Created(job[p])
  BY <1>1 DEF CreateAccepted, At, PlaceOK
<1>3. PICK c \in Containers : c = job[p].c
  BY <1>1, <1>2 DEF GoodJob
<1>4. /\ job[p].victims = {} /\ held[c] = {} /\ ~Exists(cinfo[c]) /\ fixed[c] = {} /\ cinfo[c].val = {}
      /\ \A ip \in IPs : ~Has(c, ip)
  BY <1>2, <1>3, CreateOf
<1> DEFINE j == [job[p] EXCEPT !.addrs = job[p].got]
<1>5. /\ j \in Job /\ j.c = c /\ j.victims = {} /\ j.addrs = job[p].got /\ j.got = job[p].got
      /\ j.addrs \subseteq j.got
  BY <1>1, <1>3, <1>4 DEF Job
<1>6. BorrowNext(p, j)
  BY DEF CreateAccepted
<1> HIDE DEF j
<1>7. /\ Turned(p, job'[p]) /\ call'[p].pc # "update" /\ UNCHANGED calico
      /\ job'[p].stage \in {"borrow", "record"} /\ job'[p].c = c /\ job'[p].got = job[p].got
      /\ job'[p].victims = {}
      /\ job'[p].stage = "borrow" => job'[p].addrs \subseteq job[p].got
      /\ AskedOK(p)' /\ DriverOK(p)'
      /\ \A ip \in IPs : /\ ~Claims(p, ip)' /\ ~ToReturn(p, ip)'
                         /\ ToBorrow(p, ip)' <=> ip \in job[p].got
                         /\ \A d \in Containers : Listing(p, d, ip)' <=> d = c /\ ip \in job[p].got
  BY <1>1, <1>5, <1>6, BorrowHolds
<1>8. /\ docker'[c] = "created" /\ conf'[c] = job[p].got /\ fixed'[c] = job[p].got
      /\ \A d \in Containers \ {c} : docker'[d] = docker[d] /\ conf'[d] = conf[d] /\ fixed'[d] = fixed[d]
  BY <1>1, <1>2, <1>3 DEF Created, Wanted, WorldOK
<1>9. PlaceOK(p)'
  BY <1>7, <1>8 DEF PlaceOK
<1>10. Minds(p)
  <2>1. ContainerOK(c)'
    BY <1>2, <1>4, <1>7, <1>8 DEF ContainerOK
  <2> QED BY <1>2, <1>3, <1>4, <1>7, <1>8, <2>1, GoesOn DEF SameContainer
<1>11. AllAccounted' /\ \A ip \in IPs : Used(ip) => Used(ip)'
  BY <1>2, <1>7, HandlerRecords
<1>12. RecordsStand
  <2> SUFFICES ASSUME NEW ip \in IPs, Recorded(ip)
               PROVE  /\ ForSomebody(ip)' /\ (MarkedInUse(ip) => Used(ip)')
                      /\ \A d \in Containers : Borrows(d, ip)' <=> Borrows(d, ip)
    BY DEF RecordsStand
  <2>1. RecordOK(ip)
    BY DEF CleanInd
  <2>2. /\ Claims(p, ip) <=> ip \in job[p].got
        /\ ~ToBorrow(p, ip) /\ ~ToReturn(p, ip) /\ \A d \in Containers : ~Listing(p, d, ip)
    BY <1>2 DEF Claims, AtHand, Pending, Making, ToBorrow, ToReturn, Listing
  <2>3. \A q \in Procs \ {p} : /\ Claims(q, ip)' <=> Claims(q, ip)
                               /\ ToBorrow(q, ip)' <=> ToBorrow(q, ip)
                               /\ ToReturn(q, ip)' <=> ToReturn(q, ip)
                               /\ job'[q] = job[q]
                               /\ \A d \in Containers : Listing(q, d, ip)' <=> Listing(q, d, ip)
    BY <1>7, OthersClaim, OthersToDo DEF Turned
  <2>4. \A d \in Containers \ {c} : Has(d, ip)' <=> Has(d, ip)
    BY <1>2, <1>7, <1>8, <2>2, <2>3 DEF Has, Listed
  <2>5. Has(c, ip)' <=> ip \in job[p].got
    <3>1. \A q \in Procs \ {p} : ~Listing(q, c, ip)
      BY <1>4 DEF Has, Listed
    <3> QED BY <1>2, <1>4, <1>7, <1>8, <2>3, <3>1 DEF Has, Listed
  <2>6. ForSomebody(ip)'
    BY <1>4, <1>7, <2>1, <2>2, <2>3, <2>4, <2>5 DEF RecordOK, ForSomebody
  <2>7. MarkedInUse(ip) => Used(ip)'
    BY <1>11, <2>1 DEF RecordOK
  <2>8. ASSUME NEW d \in Containers PROVE Borrows(d, ip)' <=> Borrows(d, ip)
    <3>1. (\E q \in Procs : job'[q].c = d /\ ToReturn(q, ip)') <=>
          (\E q \in Procs : job[q].c = d /\ ToReturn(q, ip))
      BY <1>7, <2>2, <2>3
    <3>2. CASE ip \in job[p].got
      <4>1. ~Has(d, ip)
        BY <1>1, <2>2, <3>2 DEF ClaimsOnce
      <4>2. ToBorrow(p, ip)'
        BY <1>7, <3>2
      <4> QED BY <3>1, <4>1, <4>2 DEF Borrows
    <3>3. CASE ip \notin job[p].got
      <4>1. Has(d, ip)' <=> Has(d, ip)
        BY <1>4, <2>4, <2>5, <3>3
      <4>2. (\A q \in Procs : ~ToBorrow(q, ip)') <=> (\A q \in Procs : ~ToBorrow(q, ip))
        BY <1>7, <2>2, <2>3, <3>3
      <4> QED BY <3>1, <4>1, <4>2 DEF Borrows
    <3> QED BY <3>2, <3>3
  <2> QED BY <2>6, <2>7, <2>8
<1> QED BY <1>2, <1>7, <1>9, <1>10, <1>11, <1>12 DEF Outside

\* Its addresses are borrowed, and its ContainerInfo is written.
LEMMA BorrowClean ==
    ASSUME Clean, KeptIInv, CleanInd, NEW p \in Procs, Borrowed(p) \/ RecordInfo(p)
    PROVE  Outside(p)
<1>1. SysIInv /\ WorldOK /\ PlaceOK(p) /\ GoodJob(job[p]) /\ job[p] \in Job
  BY CleanParts
<1>2. /\ job[p].stage \in {"borrow", "record"} /\ call[p].pc = "idle"
      /\ UNCHANGED <<docker, conf, fixed, held>>
  BY DEF Borrowed, RecordInfo, At, world
<1>3. PICK c \in Containers : c = job[p].c
  BY <1>1, <1>2 DEF GoodJob
<1>4. /\ docker[c] = "created" /\ job[p].victims = {} /\ job[p].got = fixed[c] /\ ContainerOK(c)
      /\ job[p].stage = "borrow" => job[p].addrs \subseteq job[p].got
  BY <1>1, <1>2, <1>3 DEF PlaceOK, CleanInd
<1>5. \A ip \in IPs : /\ ~Claims(p, ip) /\ ~ToReturn(p, ip)
                      /\ ToBorrow(p, ip) <=> job[p].stage = "borrow" /\ ip \in job[p].addrs
                      /\ \A d \in Containers : Listing(p, d, ip) <=> d = c /\ ip \in fixed[c]
  BY <1>2, <1>3, <1>4 DEF Claims, AtHand, Pending, Making, ToReturn, ToBorrow, Listing
<1>6. CASE Borrowed(p)
  <2>1. job[p].stage = "borrow" /\ BorrowNext(p, job[p]) /\ UNCHANGED cinfo
    BY <1>6 DEF Borrowed, At, world
  <2>2. /\ Turned(p, job'[p]) /\ call'[p].pc # "update" /\ UNCHANGED calico
        /\ job'[p].stage \in {"borrow", "record"} /\ job'[p].c = c /\ job'[p].got = job[p].got
        /\ job'[p].victims = {}
        /\ job'[p].stage = "borrow" => job'[p].addrs \subseteq job[p].got
        /\ AskedOK(p)' /\ DriverOK(p)'
        /\ \A ip \in IPs : /\ ~Claims(p, ip)' /\ ~ToReturn(p, ip)'
                           /\ ToBorrow(p, ip)' <=> ip \in job[p].addrs
                           /\ \A d \in Containers : Listing(p, d, ip)' <=> d = c /\ ip \in job[p].got
    BY <1>1, <1>3, <1>4, <2>1, BorrowHolds
  <2>3. PlaceOK(p)'
    BY <1>2, <1>4, <2>2 DEF PlaceOK
  <2>4. Minds(p)
    <3>1. \A ip : Recorded(ip)' <=> Recorded(ip)
      BY <2>2 DEF Turned, Recorded
    <3>2. ContainerOK(c)'
      BY <1>2, <1>4, <2>1, <2>2, <3>1 DEF ContainerOK
    <3> QED BY <1>2, <1>3, <1>4, <2>1, <2>2, <3>2, GoesOn DEF SameContainer
  <2>5. SameHold(p)
    <3> SUFFICES ASSUME NEW ip \in IPs PROVE \A d \in Containers : Has(d, ip)' <=> Has(d, ip)
      BY <1>5, <2>1, <2>2 DEF SameHold
    <3>1. \A q \in Procs \ {p}, d \in Containers : Listing(q, d, ip)' <=> Listing(q, d, ip)
      BY <2>2, OthersClaim DEF Turned
    <3>2. \A d \in Containers : Listing(p, d, ip)' <=> Listing(p, d, ip)
      BY <1>4, <1>5, <2>2
    <3> QED BY <1>2, <2>1, <3>1, <3>2 DEF Has, Listed
  <2>6. RecordsStand /\ AllAccounted'
    BY <1>2, <2>1, <2>2, <2>5, HandlerRecords
  <2> QED BY <1>2, <2>2, <2>3, <2>4, <2>6 DEF Outside
<1>7. CASE RecordInfo(p)
  <2>1. /\ job[p].stage = "record" /\ cinfo' = [cinfo EXCEPT ![c] = PutSlot(@, job[p].got)]
        /\ Finish(p)
    BY <1>3, <1>7 DEF RecordInfo, At, Clean
  <2>2. /\ job' = [job EXCEPT ![p] = NoJob] /\ call' = [call EXCEPT ![p] = IdleFrame]
        /\ UNCHANGED <<ipinfo, calico>>
    BY <2>1 DEF Finish, EndJob
  <2>3. /\ Turned(p, job'[p]) /\ job'[p] = NoJob /\ Fresh(p) /\ AskedOK(p)' /\ call'[p].pc = "idle"
    BY <1>1, <2>2, Rests
  <2>4. DriverOK(p)' /\ PlaceOK(p)' /\ NoJob.c = NoContainer
    BY <2>3, NoJobHolds DEF DriverOK, PlaceOK, NoJob
  <2>5. /\ cinfo'[c].val = fixed[c] /\ Exists(cinfo'[c])
        /\ \A d \in Containers \ {c} : cinfo'[d] = cinfo[d]
        /\ cinfo[c].val = {}
    <3>1. cinfo[c] \in Slot(SUBSET IPs) /\ cinfo'[c] = PutSlot(cinfo[c], fixed[c])
      BY <1>1, <1>4, <2>1 DEF WorldOK
    <3>2. cinfo[c].val = {}
      BY <1>3, <2>1, CleanParts DEF InfoInv, Creating
    <3> QED BY <1>1, <2>1, <3>1, <3>2 DEF PutSlot, Exists, Slot, WorldOK
  <2>6. Minds(p)
    <3>1. \A ip : Recorded(ip)' <=> Recorded(ip)
      BY <2>2 DEF Recorded
    <3>2. ContainerOK(c)'
      BY <1>2, <1>4, <2>5, <3>1 DEF ContainerOK
    <3> QED BY <1>2, <1>3, <1>4, <2>3, <2>4, <2>5, <3>2, GoesOn, NoJobHolds DEF SameContainer
  <2>7. SameHold(p)
    <3> SUFFICES ASSUME NEW ip \in IPs
                 PROVE  /\ ~Claims(p, ip)' /\ ~ToBorrow(p, ip)' /\ ~ToReturn(p, ip)'
                        /\ \A d \in Containers : Has(d, ip)' <=> Has(d, ip)
      BY <1>5, <2>1 DEF SameHold
    <3>1. \A q \in Procs \ {p}, d \in Containers : Listing(q, d, ip)' <=> Listing(q, d, ip)
      BY <2>3, OthersClaim DEF Turned
    <3>2. /\ ~Claims(p, ip)' /\ ~ToBorrow(p, ip)' /\ ~ToReturn(p, ip)'
          /\ \A d \in Containers : ~Listing(p, d, ip)'
      BY <2>3, NoJobHolds DEF Claims, AtHand, Pending, Making, ToBorrow, ToReturn, Listing
    <3>3. \A d \in Containers : Has(d, ip)' <=> Has(d, ip)
      BY <1>2, <1>5, <2>5, <3>1, <3>2 DEF Has, Listed
    <3> QED BY <3>2, <3>3
  <2>8. RecordsStand /\ AllAccounted'
    BY <1>2, <2>1, <2>2, <2>3, <2>7, HandlerRecords
  <2> QED BY <1>2, <2>3, <2>4, <2>6, <2>8 DEF Outside
<1> QED BY <1>6, <1>7

-----------------------------------------------------------------------------
(***************************************************************************)
(* Releases                                                                *)
(***************************************************************************)

\* The containers of a release: the one at hand is done with, the others are to come.
LEMMA ReleaseMinds ==
    ASSUME KeptIInv, CleanInd, NEW p \in Procs, job[p].stage \in {"info", "return", "unalloc"},
           NEW c \in Containers, c = job[p].c, Turned(p, job'[p]), UNCHANGED <<docker, conf, fixed, held>>,
           \A d \in Containers \ {c} : cinfo'[d] = cinfo[d],
           Exists(cinfo'[c]) => c \in job[p].victims,
           \/ job'[p] = NoJob /\ job[p].victims = {}
           \/ /\ job'[p].stage = "info" /\ job'[p].c \in job[p].victims
              /\ job'[p].victims = job[p].victims \ {job'[p].c}
           \/ job'[p].stage \in {"return", "unalloc"} /\ job'[p].c = c /\ job'[p].victims = job[p].victims
    PROVE  Minds(p) /\ PlaceOK(p)'
<1>1. DockerOf(docker, job[p])
  BY CleanParts
<1>2. \A d \in Containers : d \in Serves(p)' => d \in Serves(p)
  BY NoJobHolds DEF Serves
<1>3. ASSUME NEW d \in Containers, d \in Serves(p) PROVE ContainerOK(d)'
  <2>1. docker[d] = "removed" /\ ContainerOK(d)
    BY <1>1, <1>3 DEF DockerOf, Serves, CleanInd
  <2>2. Exists(cinfo'[d]) => (job'[p].c = d /\ job'[p].stage = "info") \/ d \in job'[p].victims
    BY <1>3 DEF Serves
  <2> QED BY <2>1, <2>2 DEF ContainerOK
<1>4. \A d \in Containers : d \notin Serves(p) => d \notin Serves(p)' /\ SameContainer(d)
  BY <1>2 DEF Serves, SameContainer
<1>5. PlaceOK(p)'
  BY NoJobHolds DEF PlaceOK
<1> QED BY <1>2, <1>3, <1>4, <1>5 DEF Minds

\* The ContainerInfo is taken, and its addresses are p's to give back.
LEMMA TakeClean ==
    ASSUME KeptIInv, CleanInd, NEW p \in Procs, TakeInfo(p)
    PROVE  Outside(p)
<1>1. /\ SysIInv /\ WorldOK /\ GoodJob(job[p]) /\ job[p] \in Job /\ ClaimsOnce /\ DockerInv
      /\ DockerOf(docker, job[p]) /\ InfoInv
  BY CleanParts
<1>2. /\ job[p].stage = "info" /\ call[p].pc = "idle" /\ UNCHANGED <<docker, conf, fixed, held>>
  BY DEF TakeInfo, At
<1>3. PICK c \in Containers : c = job[p].c
  BY <1>1, <1>2 DEF GoodJob
<1>4. /\ cinfo' = [cinfo EXCEPT ![c] = DeleteSlot(@, {})]
      /\ ReturnNext(p, [job[p] EXCEPT !.addrs = cinfo[c].val])
  BY <1>3 DEF TakeInfo
<1>5. PICK as \in SUBSET IPs : as = cinfo[c].val
  BY <1>1 DEF WorldOK, Slot
<1> DEFINE k == [job[p] EXCEPT !.addrs = as]
<1>14. k \in Job /\ k.c = c /\ k.victims = job[p].victims /\ k.addrs = as
  BY <1>1, <1>3 DEF Job
<1>15. ReturnNext(p, k)
  BY <1>4, <1>5
<1> HIDE DEF k
<1>16. PICK j : j = k
  OBVIOUS
<1>6. j \in Job /\ j.c = c /\ j.victims = job[p].victims /\ j.addrs = as
  BY <1>14, <1>16
<1>7. ReturnNext(p, j)
  BY <1>15, <1>16
<1>8. /\ Turned(p, job'[p]) /\ call'[p].pc # "update" /\ UNCHANGED calico
      /\ \/ job'[p] = NoJob /\ job[p].victims = {} /\ as = {}
         \/ /\ job'[p].stage = "info" /\ job'[p].c \in job[p].victims
            /\ job'[p].victims = job[p].victims \ {job'[p].c} /\ as = {}
         \/ job'[p].stage = "return" /\ job'[p].c = c /\ job'[p].victims = job[p].victims
      /\ AskedOK(p)' /\ DriverOK(p)'
      /\ \A ip \in IPs : /\ Claims(p, ip)' <=> ip \in as
                         /\ ToReturn(p, ip)' <=> ip \in as
                         /\ ~ToBorrow(p, ip)'
                         /\ \A d \in Containers : ~Listing(p, d, ip)'
  <2>1. /\ Turned(p, job'[p]) /\ call'[p].pc # "update" /\ UNCHANGED calico
        /\ AskedOK(p)' /\ DriverOK(p)'
    BY <1>1, <1>6, <1>7, ReturnHolds
  <2>2. \/ job'[p] = NoJob /\ j.victims = {} /\ j.addrs = {}
        \/ /\ job'[p].stage = "info" /\ job'[p].c \in j.victims
           /\ job'[p].victims = j.victims \ {job'[p].c} /\ j.addrs = {}
        \/ job'[p].stage = "return" /\ job'[p].c = j.c /\ job'[p].victims = j.victims
    BY <1>1, <1>6, <1>7, ReturnHolds
  <2>3. \A ip \in IPs : /\ Claims(p, ip)' <=> ip \in j.addrs
                        /\ ToReturn(p, ip)' <=> ip \in j.addrs
                        /\ ~ToBorrow(p, ip)'
                        /\ \A d \in Containers : ~Listing(p, d, ip)'
    BY <1>1, <1>6, <1>7, ReturnHolds
  <2> QED BY <1>6, <2>1, <2>2, <2>3
<1>9. /\ \A d \in Containers \ {c} : cinfo'[d] = cinfo[d]
      /\ ~Exists(cinfo'[c]) /\ cinfo'[c].val = {}
  <2>1. /\ \A d \in Containers \ {c} : cinfo'[d] = cinfo[d]
        /\ cinfo'[c] = DeleteSlot(cinfo[c], {})
    BY <1>1, <1>4 DEF WorldOK
  <2> QED BY <1>1, <2>1 DEF InfoInv, DeleteSlot, Exists
<1>10. Minds(p) /\ PlaceOK(p)'
  BY <1>2, <1>3, <1>8, <1>9, ReleaseMinds
<1>11. AllAccounted' /\ \A ip \in IPs : Used(ip) => Used(ip)'
  BY <1>2, <1>8, HandlerRecords
<1>12. /\ fixed[c] = {} /\ \A q \in Procs \ {p} : c \notin Serves(q)
  <2>1. docker[c] = "removed" /\ c \in Serves(p)
    BY <1>1, <1>2, <1>3 DEF DockerOf, Serves
  <2> QED BY <1>1, <2>1, ServesAlone DEF DockerInv
<1>13. RecordsStand
  <2> SUFFICES ASSUME NEW ip \in IPs, Recorded(ip)
               PROVE  /\ ForSomebody(ip)' /\ (MarkedInUse(ip) => Used(ip)')
                      /\ \A d \in Containers : Borrows(d, ip)' <=> Borrows(d, ip)
    BY DEF RecordsStand
  <2>1. RecordOK(ip)
    BY DEF CleanInd
  <2>2. /\ ~Claims(p, ip) /\ ~ToBorrow(p, ip) /\ ~ToReturn(p, ip)
        /\ \A d \in Containers : ~Listing(p, d, ip)
    BY <1>2 DEF Claims, AtHand, Pending, Making, ToBorrow, ToReturn, Listing
  <2>3. \A q \in Procs \ {p} : /\ Claims(q, ip)' <=> Claims(q, ip)
                               /\ ToBorrow(q, ip)' <=> ToBorrow(q, ip)
                               /\ ToReturn(q, ip)' <=> ToReturn(q, ip)
                               /\ job'[q] = job[q]
                               /\ \A d \in Containers : Listing(q, d, ip)' <=> Listing(q, d, ip)
    BY <1>8, OthersClaim, OthersToDo DEF Turned
  <2>4. \A d \in Containers \ {c} : Has(d, ip)' <=> Has(d, ip)
    BY <1>2, <1>8, <1>9, <2>2, <2>3 DEF Has, Listed
  <2>5. (Has(c, ip) <=> ip \in as) /\ ~Has(c, ip)'
    <3>1. \A q \in Procs \ {p} : ~Listing(q, c, ip)
      BY <1>12 DEF Listing, Serves
    <3> QED BY <1>2, <1>5, <1>8, <1>9, <1>12, <2>2, <2>3, <3>1 DEF Has, Listed
  <2>6. ForSomebody(ip)'
    BY <1>8, <2>1, <2>2, <2>3, <2>4, <2>5 DEF RecordOK, ForSomebody
  <2>7. MarkedInUse(ip) => Used(ip)'
    BY <1>11, <2>1 DEF RecordOK
  <2>8. ASSUME NEW d \in Containers PROVE Borrows(d, ip)' <=> Borrows(d, ip)
    <3>1. CASE ip \in as
      <4>1. /\ Has(c, ip) /\ \A e \in Containers : Has(e, ip) => e = c
            /\ \A q \in Procs : ~Claims(q, ip)
        BY <1>1, <2>5, <3>1 DEF ClaimsOnce
      <4>2. \A q \in Procs : ~ToReturn(q, ip)
        BY <4>1, ToDo
      <4>3. ASSUME NEW q \in Procs, ToBorrow(q, ip) PROVE FALSE
        <5>1. job[q].c = c
          BY <4>1, <4>3, ToDo
        <5>2. c \in Serves(q)
          BY <5>1 DEF Serves
        <5> QED BY <1>12, <2>2, <4>3, <5>2
      <4>4. Borrows(d, ip) <=> d = c
        BY <4>1, <4>2, <4>3 DEF Borrows
      <4>5. job'[p].c = c /\ ToReturn(p, ip)' /\ \A q \in Procs \ {p} : ~ToReturn(q, ip)'
        BY <1>8, <2>3, <3>1, <4>2
      <4>6. ~Has(d, ip)'
        BY <2>4, <2>5, <4>1
      <4>7. Borrows(d, ip)' <=> d = c
        BY <4>5, <4>6 DEF Borrows
      <4> QED BY <4>4, <4>7
    <3>2. CASE ip \notin as
      <4>1. Has(d, ip)' <=> Has(d, ip)
        BY <2>4, <2>5, <3>2
      <4>2. (\A q \in Procs : ~ToBorrow(q, ip)') <=> (\A q \in Procs : ~ToBorrow(q, ip))
        BY <1>8, <2>2, <2>3
      <4>3. (\E q \in Procs : job'[q].c = d /\ ToReturn(q, ip)') <=>
            (\E q \in Procs : job[q].c = d /\ ToReturn(q, ip))
        BY <1>8, <2>2, <2>3, <3>2
      <4> QED BY <4>1, <4>2, <4>3 DEF Borrows
    <3> QED BY <3>1, <3>2
  <2> QED BY <2>6, <2>7, <2>8
<1> QED BY <1>2, <1>8, <1>10, <1>11, <1>13 DEF Outside

\* They are returned and unallocated one by one.
LEMMA ReleaseClean ==
    ASSUME KeptIInv, CleanInd, NEW p \in Procs, Returned(p) \/ Unalloced(p)
    PROVE  Outside(p)
<1>1. /\ SysIInv /\ WorldOK /\ GoodJob(job[p]) /\ job[p] \in Job /\ DockerOf(docker, job[p])
  BY CleanParts
<1>2. /\ job[p].stage \in {"return", "unalloc"} /\ call[p].pc = "idle"
      /\ UNCHANGED <<docker, conf, fixed, held, cinfo>>
  BY DEF Returned, Unalloced, At, world
<1>3. PICK c \in Containers : c = job[p].c
  BY <1>1, <1>2 DEF GoodJob
<1>4. Exists(cinfo[c]) => c \in job[p].victims
  <2>1. c \in Serves(p) /\ docker[c] = "removed"
    BY <1>1, <1>2, <1>3 DEF Serves, DockerOf
  <2> QED BY <1>2, <2>1, ServesAlone, ServedAlone
<1>5. ASSUME Turned(p, job'[p]), call'[p].pc # "update", UNCHANGED calico, AskedOK(p)', DriverOK(p)',
             \/ job'[p] = NoJob /\ job[p].victims = {} /\ job[p].addrs = {}
             \/ /\ job'[p].stage = "info" /\ job'[p].c \in job[p].victims
                /\ job'[p].victims = job[p].victims \ {job'[p].c} /\ job[p].addrs = {}
             \/ /\ job'[p].stage \in {"return", "unalloc"} /\ job'[p].c = c
                /\ job'[p].victims = job[p].victims,
             \A ip \in IPs : /\ Claims(p, ip)' <=> Claims(p, ip)
                             /\ ToReturn(p, ip)' <=> ip \in job[p].addrs
                             /\ ~ToBorrow(p, ip)'
                             /\ \A d \in Containers : ~Listing(p, d, ip)'
      PROVE  Outside(p)
  <2>1. Minds(p) /\ PlaceOK(p)'
    BY <1>2, <1>3, <1>4, <1>5, ReleaseMinds
  <2>2. SameHold(p)
    <3> SUFFICES ASSUME NEW ip \in IPs
                 PROVE  /\ ~ToBorrow(p, ip) /\ (ToReturn(p, ip) <=> ip \in job[p].addrs)
                        /\ ip \in job[p].addrs => job'[p].c = job[p].c
                        /\ \A d \in Containers : Has(d, ip)' <=> Has(d, ip)
      BY <1>5 DEF SameHold
    <3>1. \A q \in Procs \ {p}, d \in Containers : Listing(q, d, ip)' <=> Listing(q, d, ip)
      BY <1>5, OthersClaim DEF Turned
    <3>2. ~ToBorrow(p, ip) /\ (ToReturn(p, ip) <=> ip \in job[p].addrs) /\ \A d \in Containers : ~Listing(p, d, ip)
      BY <1>2 DEF ToBorrow, ToReturn, Listing
    <3>3. \A d \in Containers : Has(d, ip)' <=> Has(d, ip)
      BY <1>2, <1>5, <3>1, <3>2 DEF Has, Listed
    <3> QED BY <1>3, <1>5, <3>2, <3>3
  <2>3. RecordsStand /\ AllAccounted'
    BY <1>2, <1>5, <2>2, HandlerRecords
  <2> QED BY <1>2, <1>5, <2>1, <2>3 DEF Outside
<1>6. CASE Returned(p)
  <2>1. PICK jp \in IPs : jp = job[p].ip
    BY <1>1, <1>2 DEF GoodJob
  <2>7. PICK k : k = [job[p] EXCEPT !.stage = "unalloc"]
    OBVIOUS
  <2>2. /\ k.stage = "unalloc" /\ k.c = c /\ k.victims = job[p].victims /\ k.ip = jp
        /\ k.addrs = job[p].addrs
    BY <1>1, <1>3, <2>1, <2>7 DEF Job
  <2>8. job[p].stage = "return"
    BY <1>6 DEF Returned, At
  <2>3. /\ job' = [job EXCEPT ![p] = k] /\ Call(p, "UnallocFixedIP", jp, NoContainer, FALSE, <<>>)
    BY <1>6, <2>1, <2>7 DEF Returned, Invoke
  <2>4. /\ Turned(p, job'[p]) /\ job'[p] = k /\ Fresh(p) /\ call'[p].pc \in {"get", "auto"}
        /\ call'[p].ip = jp /\ UNCHANGED calico
    <3>1. JobAlone(p) /\ job'[p] = k
      BY <1>1, <2>3, JobTurns
    <3>2. Turned(p, job'[p]) /\ Fresh(p) /\ call'[p].pc \in {"get", "auto"} /\ UNCHANGED calico
      BY <1>1, <2>3, <3>1, Asks
    <3>3. call'[p].ip = jp
      <4>1. call \in [Procs -> Frame]
        BY CleanParts
      <4> QED BY <2>3, <4>1 DEF Call, IdleFrame
    <3> QED BY <3>1, <3>2, <3>3
  <2>5. AskedOK(p)' /\ DriverOK(p)'
    BY <2>2, <2>4 DEF AskedOK, DriverOK
  <2>6. ASSUME NEW ip \in IPs
        PROVE  /\ Claims(p, ip)' <=> Claims(p, ip)
               /\ ToReturn(p, ip)' <=> ip \in job[p].addrs
               /\ ~ToBorrow(p, ip)'
               /\ \A d \in Containers : ~Listing(p, d, ip)'
    <3>1. Claims(p, ip) <=> ip = jp \/ ip \in job[p].addrs
      BY <1>2, <2>1, <2>8 DEF Claims, AtHand, Pending, Making
    <3>2. Claims(p, ip)' <=> ip = jp \/ ip \in job[p].addrs
      BY <2>2, <2>4 DEF Claims, AtHand, Pending, Making
    <3>3. /\ ToReturn(p, ip)' <=> ip \in job[p].addrs
          /\ ~ToBorrow(p, ip)' /\ \A d \in Containers : ~Listing(p, d, ip)'
      BY <2>2, <2>4 DEF ToReturn, ToBorrow, Listing
    <3> QED BY <3>1, <3>2, <3>3
  <2> QED BY <1>5, <2>2, <2>4, <2>5, <2>6
<1>7. CASE Unalloced(p)
  <2>1. job[p].stage = "unalloc" /\ ReturnNext(p, job[p])
    BY <1>7 DEF Unalloced, At
  <2>2. \A ip \in IPs : Claims(p, ip) <=> ip \in job[p].addrs
    BY <1>2, <2>1 DEF Claims, AtHand, Pending, Making
  <2>3. /\ Turned(p, job'[p]) /\ call'[p].pc # "update" /\ UNCHANGED calico
        /\ \/ job'[p] = NoJob /\ job[p].victims = {} /\ job[p].addrs = {}
           \/ /\ job'[p].stage = "info" /\ job'[p].c \in job[p].victims
              /\ job'[p].victims = job[p].victims \ {job'[p].c} /\ job[p].addrs = {}
           \/ job'[p].stage = "return" /\ job'[p].c = c /\ job'[p].victims = job[p].victims
        /\ AskedOK(p)' /\ DriverOK(p)'
        /\ \A ip \in IPs : /\ Claims(p, ip)' <=> ip \in job[p].addrs
                           /\ ToReturn(p, ip)' <=> ip \in job[p].addrs
                           /\ ~ToBorrow(p, ip)'
                           /\ \A d \in Containers : ~Listing(p, d, ip)'
    BY <1>1, <1>3, <2>1, ReturnHolds
  <2> QED BY <1>5, <2>2, <2>3
<1> QED BY <1>6, <1>7

-----------------------------------------------------------------------------
(***************************************************************************)
(* The theorem                                                             *)
(***************************************************************************)

\* Without faults, connects and disconnects the other steps do not happen.
LEMMA NeverHappens ==
    ASSUME Clean, KeptIInv, CleanInd, NEW p \in Procs
    PROVE  /\ ~JobFault(p)
           /\ ~NetAllocated(p) /\ ~ConnectAccepted(p) /\ ~ConnectRefused(p)
           /\ ~Disconnected(p) /\ ~GetInfo(p) /\ ~PartitionInfo(p)
           /\ \A c \in Containers : ~NetworkConnect(p, c) /\ ~NetworkDisconnect(p, c)
<1>1. Faults = {} /\ "connect" \notin Requests /\ "disconnect" \notin Requests
  BY DEF Clean
<1>2. ~JobFault(p)
  BY <1>1 DEF JobFault, CallError, CallTimeout, JobCrash, CreateUnanswered, RemoveUnanswered,
              TakeInfoFails, DriverFails, ConnectUnanswered, DisconnectFails
<1>3. PlaceOK(p)
  BY CleanParts
<1>4. /\ ~NetAllocated(p) /\ ~ConnectAccepted(p) /\ ~ConnectRefused(p)
      /\ ~Disconnected(p) /\ ~GetInfo(p) /\ ~PartitionInfo(p)
  BY <1>3 DEF PlaceOK, At, NetAllocated, ConnectAccepted, ConnectRefused, Disconnected, GetInfo,
              PartitionInfo
<1> QED BY <1>1, <1>2, <1>4 DEF NetworkConnect, NetworkDisconnect

\* The invariant holds at first, and every step keeps it.
LEMMA CleanInductive ==
    ASSUME Clean
    PROVE  /\ SysInit => CleanInd
           /\ KeptIInv /\ KeptIInv' /\ CleanInd /\ [SysNext]_<<sysVars, ghosts>> => CleanInd'
<1>1. ASSUME SysInit PROVE CleanInd
  <2>1. /\ Sound /\ calico = {}
        /\ \A p \in Procs : job[p] = NoJob /\ call[p].pc = "idle"
        /\ \A ip \in IPs : ~Recorded(ip)
        /\ \A c \in Containers : /\ docker[c] = "none" /\ fixed[c] = {} /\ conf[c] = {} /\ held[c] = {}
                                 /\ ~Exists(cinfo[c])
    BY <1>1 DEF SysInit, Init, IdleFrame, NoSlot, Exists, Recorded, Sound
  <2>2. OneServer /\ AllAccounted
    BY <2>1, NoJobHolds DEF OneServer, Serves, AllAccounted
  <2>3. \A p \in Procs : PlaceOK(p) /\ AskedOK(p) /\ DriverOK(p) /\ UpdateOK(p)
    BY <2>1, NoJobHolds DEF PlaceOK, AskedOK, DriverOK, UpdateOK
  <2>4. \A c \in Containers : ContainerOK(c)
    BY <2>1 DEF ContainerOK
  <2>5. \A ip \in IPs : RecordOK(ip)
    BY <2>1 DEF RecordOK
  <2> QED BY <2>1, <2>2, <2>3, <2>4, <2>5 DEF CleanInd
<1>2. ASSUME KeptIInv, KeptIInv', CleanInd, [SysNext]_<<sysVars, ghosts>> PROVE CleanInd'
  <2>1. CASE UNCHANGED <<sysVars, ghosts>>
    <3>1. /\ UNCHANGED <<ipinfo, calico, call, docker, conf, fixed, held, cinfo, job>>
          /\ UNCHANGED <<broken, unanswered>>
      BY <2>1 DEF sysVars, vars, world, ghosts
    <3>2. OneServer'
      BY <1>2, <3>1 DEF CleanInd, OneServer, Serves
    <3>3. ASSUME NEW p \in Procs PROVE PlaceOK(p)' /\ AskedOK(p)' /\ DriverOK(p)' /\ UpdateOK(p)'
      <4>1. PlaceOK(p) /\ AskedOK(p) /\ DriverOK(p) /\ UpdateOK(p)
        BY <1>2 DEF CleanInd
      <4>2. PlaceOK(p)' /\ AskedOK(p)'
        BY <3>1, <4>1 DEF PlaceOK, AskedOK
      <4>3. DriverOK(p)' /\ UpdateOK(p)'
        BY <3>1, <4>1 DEF DriverOK, UpdateOK, Recorded
      <4> QED BY <4>2, <4>3
    <3>4. ASSUME NEW c \in Containers PROVE ContainerOK(c)'
      <4>1. ContainerOK(c)
        BY <1>2 DEF CleanInd
      <4> QED BY <3>1, <4>1 DEF ContainerOK, Recorded
    <3>5. ASSUME NEW ip \in IPs
          PROVE  /\ RecordOK(ip)' /\ (Accounted(ip)' <=> Accounted(ip))
      <4>1. RecordOK(ip)
        BY <1>2 DEF CleanInd
      <4>2. /\ Recorded(ip)' <=> Recorded(ip)
            /\ MarkedInUse(ip)' <=> MarkedInUse(ip)
            /\ \A c \in Containers : Has(c, ip)' <=> Has(c, ip)
            /\ \A q \in Procs : Claims(q, ip)' <=> Claims(q, ip)
        BY <3>1 DEF Recorded, MarkedInUse, Has, Listed, Listing, Claims, AtHand, Pending, Making, Ok
      <4>3. \A q \in Procs : /\ Busy(q, ip)' <=> Busy(q, ip)
                             /\ Owns(q, ip)' <=> Owns(q, ip)
                             /\ Giving(q, ip)' <=> Giving(q, ip)
        BY <3>1 DEF Busy, Granted, Freeing, Unmarking, Deleting, Ok, Owns, Giving
      <4>4. \A q \in Procs : /\ ToBorrow(q, ip)' <=> ToBorrow(q, ip)
                             /\ ToReturn(q, ip)' <=> ToReturn(q, ip)
        BY <3>1 DEF ToBorrow, ToReturn
      <4>5. /\ ForSomebody(ip)' <=> ForSomebody(ip)
            /\ Used(ip)' <=> Used(ip)
        BY <3>1, <4>2, <4>3 DEF ForSomebody, Used
      <4>6. \A c \in Containers : Borrows(c, ip)' <=> Borrows(c, ip)
        BY <3>1, <4>2, <4>4 DEF Borrows
      <4>7. RecordOK(ip)'
        BY <3>1, <4>1, <4>2, <4>5, <4>6 DEF RecordOK
      <4> QED BY <3>1, <4>2, <4>3, <4>7 DEF Accounted
    <3>6. AllAccounted'
      BY <1>2, <3>1, <3>5 DEF CleanInd, AllAccounted
    <3> QED BY <1>2, <3>1, <3>2, <3>3, <3>4, <3>5, <3>6 DEF CleanInd, Sound
  <2>2. CASE SysNext
    <3>1. Remembered
      BY <2>2 DEF SysNext
    <3>2. PICK p \in Procs : Request(p) \/ JobStep(p) \/ JobFault(p)
      BY <2>2 DEF SysNext
    <3>3. Outside(p) => CleanInd'
      BY <1>2, <3>1, OutsideKeeps
    <3>4. CASE Step(p) /\ UNCHANGED <<world, job>>
      BY <1>2, <3>1, <3>4, PoolStaysClean DEF KeptIInv
    <3>5. CASE Request(p)
      BY <1>2, <3>3, <3>5, RemoveClean, RequestClean, StopClean, NeverHappens DEF Request
    <3>6. CASE JobStep(p)
      BY <1>2, <3>3, <3>4, <3>6, AllocClean, AcceptClean, BorrowClean, DriverClean, RemoveClean,
         TakeClean, ReleaseClean, NeverHappens DEF JobStep
    <3> QED BY <1>2, <3>2, <3>5, <3>6, NeverHappens
  <2> QED BY <1>2, <2>1, <2>2
<1> QED BY <1>1, <1>2

\* With no request under way it says what is left.
LEMMA CleanEnough ==
    ASSUME KeptIInv, CleanInd
    PROVE  NothingLeftBehind
<1> SUFFICES ASSUME \A p \in Procs : job[p] = NoJob
             PROVE  /\ \A a \in calico : \E c \in Containers :
                          /\ docker[c] = "created"
                          /\ \E ip \in fixed[c] \cup held[c] : ip.Address = a
                    /\ \A ip \in IPs : Exists(ipinfo[ip]) =>
                          ipinfo[ip].val.borrowers =
                             {c \in Containers : docker[c] = "created" /\ ip \in fixed[c]}
                    /\ \A c \in Containers : Exists(cinfo[c]) <=> docker[c] = "created"
  BY DEF NothingLeftBehind
<1>1. \A p \in Procs : /\ job[p].stage = "idle" /\ job[p].victims = {} /\ call[p].pc = "idle"
                       /\ job[p].c \notin Containers
  <2>1. \A p \in Procs : call[p].pc = "idle"
    BY SysParts DEF KeptIInv
  <2> QED BY <2>1, NoJobHolds
<1>2. \A p \in Procs, ip \in IPs : /\ ~Claims(p, ip) /\ ~Owns(p, ip) /\ ~Giving(p, ip)
                                   /\ ~ToBorrow(p, ip) /\ ~ToReturn(p, ip)
                                   /\ \A c \in Containers : ~Listing(p, c, ip)
  BY <1>1 DEF Claims, AtHand, Pending, Making, Owns, Giving, ToBorrow, ToReturn, Listing
<1>3. ASSUME NEW c \in Containers
      PROVE  /\ Exists(cinfo[c]) <=> docker[c] = "created"
             /\ docker[c] = "created" => cinfo[c].val = fixed[c]
             /\ held[c] # {} => docker[c] = "created"
             /\ docker[c] # "created" => fixed[c] = {} /\ cinfo[c].val = {}
  <2>1. ContainerOK(c) /\ DockerInv /\ InfoInv
    BY DEF CleanInd, KeptIInv
  <2>2. /\ Exists(cinfo[c]) <=> docker[c] = "created"
        /\ docker[c] = "created" => cinfo[c].val = fixed[c]
        /\ held[c] # {} => docker[c] = "created"
    BY <1>1, <2>1 DEF ContainerOK
  <2> QED BY <2>1, <2>2 DEF DockerInv, InfoInv
<1>4. \A c \in Containers, ip \in IPs : Has(c, ip) <=> docker[c] = "created" /\ ip \in fixed[c]
  BY <1>2, <1>3 DEF Has, Listed
<1>5. ASSUME NEW a \in calico
      PROVE  \E c \in Containers : /\ docker[c] = "created"
                                   /\ \E ip \in fixed[c] \cup held[c] : ip.Address = a
  <2>1. PICK ip \in IPs : ip.Address = a /\ Accounted(ip)
    BY DEF CleanInd, AllAccounted
  <2>2. CASE Recorded(ip)
    <3>1. PICK c \in Containers : Has(c, ip)
      BY <1>2, <2>2 DEF CleanInd, RecordOK, ForSomebody
    <3> QED BY <1>4, <2>1, <3>1
  <2>3. CASE \E c \in Containers : ip \in held[c]
    BY <1>3, <2>1, <2>3
  <2> QED BY <1>2, <2>1, <2>2, <2>3 DEF Accounted
<1>6. ASSUME NEW ip \in IPs, Exists(ipinfo[ip])
      PROVE  ipinfo[ip].val.borrowers = {c \in Containers : docker[c] = "created" /\ ip \in fixed[c]}
  <2>1. Recorded(ip) /\ RecordOK(ip)
    BY <1>6 DEF Recorded, CleanInd
  <2>2. \A c \in Containers : c \in ipinfo[ip].val.borrowers <=> docker[c] = "created" /\ ip \in fixed[c]
    BY <1>2, <1>4, <2>1 DEF RecordOK, Borrows
  <2>3. ipinfo[ip].val.borrowers \subseteq Containers
    BY DEF KeptIInv, SysIInv, SysTypeOK, TypeOK, Slot, IPInfo
  <2> QED BY <2>2, <2>3
<1> QED BY <1>3, <1>5, <1>6

\* With clients that wait for their answers, and no failures, nothing is left
\* behind, for every number of processes, containers, pools and networks: when all
\* requests are served, Calico has allocated only addresses of containers that
\* exist, a record names the container that has the address and nobody else, and
\* the ContainerInfos are those of the containers dockerd knows.  (The create
\* handler borrows what it allocated or gives it back, the driver frees what has
\* no record, and ReleaseContainerAddresses returns and unallocates every
\* address of a removed container.)
THEOREM NothingIsLeftBehind ==
    ASSUME Clean
    PROVE  SysSpec => []NothingLeftBehind
<1>1. SysInit => KeptIInv /\ CleanInd
  BY KeptInductive, CleanInductive
<1>2. KeptIInv /\ CleanInd /\ [SysNext]_<<sysVars, ghosts>> => (KeptIInv /\ CleanInd)'
  BY KeptInductive, CleanInductive
<1>3. KeptIInv /\ CleanInd => NothingLeftBehind
  BY CleanEnough
<1> QED BY <1>1, <1>2, <1>3, PTL DEF SysSpec

=============================================================================
