------------------------------ MODULE CNIProofs ------------------------------
(***************************************************************************)
(* Theorems about CNIEndpoint for any containers, addresses and settings.  *)
(***************************************************************************)
EXTENDS CNIEndpoint, FiniteSetTheorems, TLAPS

-----------------------------------------------------------------------------
(***************************************************************************)
(* Typing                                                                  *)
(***************************************************************************)

\* Nobody's handler but c's moves, and c's goes on as g.
Becomes(c, g) ==
    /\ proc' \in [Containers -> Proc]
    /\ proc'[c] = g
    /\ \A d \in Containers \ {c} : proc'[d] = proc[d]

\* A new handler state for c.
LEMMA ProcChange ==
    ASSUME CNITypeOK, NEW c \in Containers, NEW g \in Proc, proc' = [proc EXCEPT ![c] = g]
    PROVE  Becomes(c, g)
BY DEF CNITypeOK, Becomes

\* The fields of c's handler.
LEMMA ProcType ==
    ASSUME CNITypeOK, NEW c \in Containers
    PROVE  /\ proc[c] \in Proc
           /\ proc[c].pc \in PCs /\ proc[c].op \in {"none", "create", "start", "delete", "remove"}
           /\ proc[c].ip \in IPs \cup {NoIP} /\ proc[c].hook \in BOOLEAN
           /\ proc[c].fd \in Inodes \cup {0}
BY DEF CNITypeOK, Proc

\* An inode is left that nobody has open and no file has.
LEMMA InodeLeft ==
    ASSUME CNITypeOK
    PROVE  \E i \in Inodes : i \notin FDs
<1> DEFINE A == {proc[c].fd : c \in Containers}
           B == {flock[ip] : ip \in IPs}
           f == [c \in Containers |-> proc[c].fd]
           g == [ip \in IPs |-> flock[ip]]
<1>1. IsFiniteSet(A) /\ Cardinality(A) <= Cardinality(Containers)
  <2>1. f \in Surjection(Containers, A)
    BY DEF Surjection
  <2> QED BY <2>1, FiniteAssumption, FS_Surjection
<1>2. IsFiniteSet(B) /\ Cardinality(B) <= Cardinality(IPs)
  <2>1. g \in Surjection(IPs, B)
    BY DEF Surjection
  <2> QED BY <2>1, FiniteAssumption, FS_Surjection
<1> HIDE DEF A, B
<1>3. IsFiniteSet(A \cup B) /\ Cardinality(A \cup B) <= Cardinality(Containers) + Cardinality(IPs)
  <2>1. IsFiniteSet(A \cap B)
    BY <1>1, <1>2, FS_Intersection
  <2>2. /\ Cardinality(A) \in Nat /\ Cardinality(B) \in Nat /\ Cardinality(A \cap B) \in Nat
        /\ Cardinality(Containers) \in Nat /\ Cardinality(IPs) \in Nat
    BY <1>1, <1>2, <2>1, FiniteAssumption, FS_CardinalityType
  <2>3. /\ IsFiniteSet(A \cup B)
        /\ Cardinality(A \cup B) = Cardinality(A) + Cardinality(B) - Cardinality(A \cap B)
    BY <1>1, <1>2, FS_Union
  <2> QED BY <1>1, <1>2, <2>2, <2>3
<1>4. ~(Inodes \subseteq A \cup B)
  <2>1. SUFFICES ASSUME Inodes \subseteq A \cup B PROVE FALSE
    OBVIOUS
  <2>2. Cardinality(Inodes) <= Cardinality(A \cup B)
    BY <1>3, <2>1, FS_Subset
  <2>3. /\ Cardinality(Inodes) \in Nat /\ Cardinality(A \cup B) \in Nat
        /\ Cardinality(Containers) \in Nat /\ Cardinality(IPs) \in Nat
    BY <1>3, FiniteAssumption, InodeAssumption, FS_CardinalityType
  <2> QED BY <1>3, <2>2, <2>3, InodeAssumption
<1> QED BY <1>4 DEF FDs, A, B

-----------------------------------------------------------------------------
(***************************************************************************)
(* The invariant.  It holds as long as no client names an address whose    *)
(* endpoint is being made and no two containers are deleted at once; both  *)
(* break it.                                                               *)
(***************************************************************************)

\* c is in DeleteNetEndpoint, or on its way there: in DeleteDanglingNetwork, or in the
\* clean-up of CreateNetEndpoint.
Removing(c) ==
    proc[c].op # "start" /\ proc[c].pc \in {"rmtenant", "rmowner", "rmflock", "rmnetns"}
Undoing(c) ==
    proc[c].op = "start" /\ proc[c].pc \in {"undo", "rmtenant", "rmowner", "rmflock", "rmnetns"}
Dropping(c) ==
    \/ Removing(c) \/ proc[c].pc \in {"drop", "stat"}
    \/ proc[c].pc \in {"flock", "lock"} /\ proc[c].op \in {"delete", "remove"}

\* c is the tenant of an endpoint and may run on it.
Using(c) ==
    \/ proc[c].pc \in {"prepared", "made", "connect", "running"} /\ ~proc[c].hook
    \/ proc[c].pc = "running" /\ Fixed(c)

Busy(c) == Using(c) \/ Dropping(c) \/ proc[c].pc = "occupy"

\* c holds the lock of the file it opened.
HasLock(c) ==
    \/ Removing(c) \/ proc[c].pc \in {"drop", "stat"}
    \/ Naming(c) /\ proc[c].pc \in {"get", "occupy"}

\* Which handler each step belongs to.
OpOK(c) ==
    LET f == proc[c]
    IN /\ f.pc \in {"stopped", "removed", "prepared", "made", "running"} => f.op = "none"
       /\ f.pc \in {"flock", "lock", "get"} => f.op \in {"create", "delete", "remove"}
       /\ f.pc = "occupy" => f.op = "create"
       /\ f.pc \in {"owner", "file", "mount", "tenant"} => f.op = "start" /\ f.hook /\ Fixed(c)
       /\ f.pc = "connect" => /\ f.op = IF f.hook THEN "start" ELSE "none"
                              /\ Fixed(c) /\ (f.hook \/ Specific(c))
       /\ f.pc = "free" => f.op = "delete"
       /\ f.pc = "disconnect" => f.op = "remove"
       /\ f.pc \in {"drop", "stat"} \/ Removing(c) => f.op \in {"delete", "remove"}
       /\ f.op = "remove" => Fixed(c)
       /\ f.op = "create" /\ f.pc \in {"flock", "lock"} => Specific(c)
       /\ f.pc = "undo" => f.op = "start"
       /\ Undoing(c) => f.hook /\ Fixed(c)

\* Which address it works on.
AddressOK(c) ==
    /\ \/ Busy(c) \/ Undoing(c)
       \/ proc[c].pc \in {"made", "owner", "file", "mount", "connect", "tenant", "running", "free",
                          "disconnect"}
       => proc[c].ip \in IPs /\ (Specific(c) => proc[c].ip = Want[c])
    /\ Specific(c) => link[c] \in {NoIP, Want[c]}

\* Which lock file it has open, and which locks it holds.
LockOK(c) ==
    /\ proc[c].fd # 0 <=> HasLock(c) \/ proc[c].pc = "lock"
    /\ HasLock(c) => locked[proc[c].fd] = c

\* c got an address from CNI, and nobody else knows of an endpoint of it.
Claims(c) ==
    /\ proc[c].hook
    /\ \/ proc[c].pc \in {"made", "owner", "file", "mount", "connect", "tenant"}
       \/ Undoing(c)
       \/ proc[c].pc = "running" /\ ~Fixed(c)

ClaimOK(c) ==
    /\ Claims(c) => ipam[proc[c].ip] = c
    /\ Fixed(c) /\ proc[c].hook
         /\ \/ proc[c].pc \in {"prepared", "made", "owner", "file", "mount", "connect"}
            \/ Undoing(c) /\ proc[c].pc # "undo"
       => link[c] = NoIP

\* Nobody uses the endpoint of ip, or works on it, but who makes it.
Unused(ip) ==
    /\ tenant[ip] \notin Containers
    /\ \A c \in Containers : Busy(c) => proc[c].ip # ip

\* No endpoint of ip has been begun.
Fresh(ip) ==
    LET x == ipam[ip]
    IN \/ x = NoContainer
       \/ ~Fixed(x)
       \/ proc[x].hook /\ proc[x].ip = ip /\ proc[x].pc \in {"made", "owner"}

FreshOK(ip) ==
    Fresh(ip) => /\ netns[ip] = "absent" /\ owner[ip] = NoContainer /\ Unused(ip)
                 /\ \A c \in Containers : link[c] # ip

\* x is making the endpoint of ip, or deletes what it made of it.
Makes(x, ip) ==
    /\ ipam[ip] = x /\ proc[x].hook /\ proc[x].ip = ip
    /\ proc[x].pc \in {"file", "mount", "connect", "tenant"} \/ Undoing(x)

MakingOK(ip) ==
    \A x \in Containers : Makes(x, ip) =>
        /\ Unused(ip)
        /\ \A c \in Containers : link[c] = ip <=> (c = x /\ proc[x].pc \in {"tenant", "undo"})
        /\ proc[x].pc \in {"connect", "tenant", "undo"} => Mounted(ip)

\* A user is the tenant, of an endpoint that is there; one that came by its link has it.
UserOK(c) ==
    /\ Using(c) => tenant[proc[c].ip] = c
    /\ Using(c) /\ proc[c].pc # "prepared" => Mounted(proc[c].ip)
    /\ (proc[c].pc \in {"prepared", "made"} /\ ~proc[c].hook) \/ proc[c].pc = "occupy"
       => Specific(c) \/ link[c] = proc[c].ip
    /\ proc[c].pc = "disconnect" => link[c] = proc[c].ip

\* A lock file that was replaced while c waited for it belonged to an endpoint that is gone.
NamerOK(c) ==
    /\ Naming(c) /\ proc[c].pc # "flock" =>
          flock[Want[c]] = proc[c].fd \/ owner[Want[c]] = NoContainer
    /\ Naming(c) /\ proc[c].pc = "occupy" => owner[Want[c]] # NoContainer

\* Who decided to delete an endpoint holds the lock of its file, nobody else uses it,
\* and nobody can start to.  Who connects after the links were counted is still the tenant.
DropperOK(c) ==
    /\ Dropping(c) /\ proc[c].pc \notin {"flock", "rmnetns"} => flock[proc[c].ip] = proc[c].fd
    /\ Removing(c) =>
          /\ tenant[proc[c].ip] = NoContainer
          /\ \A d \in Containers : link[d] # proc[c].ip
          /\ \A d \in Containers \ {c} : Busy(d) => proc[d].ip # proc[c].ip
    /\ Removing(c) /\ proc[c].pc \in {"rmflock", "rmnetns"} => owner[proc[c].ip] = NoContainer
    /\ proc[c].pc = "stat" =>
          \A d \in Containers : link[d] = proc[c].ip => tenant[proc[c].ip] = d

\* c is making an endpoint, or may be about to.
Making(c) ==
    \/ proc[c].op = "start"
    \/ Unmade(c) /\ (proc[c].op = "create" \/ proc[c].pc \in {"prepared", "made"})

\* What clients do not overlap.
Apart(c, d) ==
    /\ Making(c) /\ Naming(d) => c = d
    /\ Deleting(c) /\ Deleting(d) => c = d

AllLead == \A c \in Containers : LinkLeads(c)

CNIInd ==
    /\ CNITypeOK /\ cniSetting \in CNISettings
    /\ \A c \in Containers : OpOK(c) /\ AddressOK(c) /\ LockOK(c)
    /\ \A c \in Containers : ClaimOK(c) /\ UserOK(c) /\ NamerOK(c) /\ DropperOK(c)
    /\ \A ip \in IPs : FreshOK(ip) /\ MakingOK(ip)
    /\ \A c, d \in Containers : Apart(c, d)
    /\ AllLead

-----------------------------------------------------------------------------
(***************************************************************************)
(* The steps.  Only c's handler moves.                                     *)
(***************************************************************************)

\* The settings never change.
LEMMA SameSetting ==
    ASSUME UNCHANGED cniSetting, NEW c
    PROVE  (Fixed(c)' <=> Fixed(c)) /\ (Specific(c)' <=> Specific(c)) /\ Want'[c] = Want[c]
BY DEF Fixed, Specific, KindOf, Want

\* What a handler that does not move is doing.
LEMMA OthersStay ==
    ASSUME UNCHANGED cniSetting, NEW d, proc'[d] = proc[d]
    PROVE  /\ Removing(d)' <=> Removing(d)
           /\ Undoing(d)' <=> Undoing(d)
           /\ Dropping(d)' <=> Dropping(d)
           /\ Using(d)' <=> Using(d)
           /\ Busy(d)' <=> Busy(d)
           /\ Naming(d)' <=> Naming(d)
           /\ HasLock(d)' <=> HasLock(d)
           /\ Claims(d)' <=> Claims(d)
           /\ Deleting(d)' <=> Deleting(d)
           /\ (link'[d] = link[d]) => (Making(d)' <=> Making(d))
<1>1. (Fixed(d)' <=> Fixed(d)) /\ (Specific(d)' <=> Specific(d))
  BY SameSetting
<1>2. (Removing(d)' <=> Removing(d)) /\ (Undoing(d)' <=> Undoing(d))
  BY DEF Removing, Undoing
<1>3. Dropping(d)' <=> Dropping(d)
  BY <1>2 DEF Dropping
<1>4. Using(d)' <=> Using(d)
  BY <1>1 DEF Using
<1>5. Naming(d)' <=> Naming(d)
  BY <1>1 DEF Naming
<1>6. (link'[d] = link[d]) => (Making(d)' <=> Making(d))
  BY <1>1 DEF Making, Unmade
<1> QED BY <1>1, <1>2, <1>3, <1>4, <1>5, <1>6 DEF Busy, HasLock, Claims, Deleting

\* A container that does not move and keeps its link and its locks.
LEMMA StayOK ==
    ASSUME UNCHANGED cniSetting, NEW d \in Containers, proc'[d] = proc[d], link'[d] = link[d],
           HasLock(d) => locked'[proc[d].fd] = locked[proc[d].fd],
           OpOK(d), AddressOK(d), LockOK(d)
    PROVE  OpOK(d)' /\ AddressOK(d)' /\ LockOK(d)'
<1>1. (Fixed(d)' <=> Fixed(d)) /\ (Specific(d)' <=> Specific(d)) /\ Want'[d] = Want[d]
  BY SameSetting
<1>2. /\ Removing(d)' <=> Removing(d)
      /\ Undoing(d)' <=> Undoing(d)
      /\ Busy(d)' <=> Busy(d)
      /\ HasLock(d)' <=> HasLock(d)
  BY OthersStay
<1>3. OpOK(d)'
  BY <1>1, <1>2 DEF OpOK
<1>4. AddressOK(d)'
  BY <1>1, <1>2 DEF AddressOK
<1>5. LockOK(d)'
  BY <1>2 DEF LockOK
<1> QED BY <1>3, <1>4, <1>5

\* An address with an endpoint, or what is left of one, that nobody is making and nobody
\* but c, if anybody, is removing.
Standing(c, ip) ==
    /\ ip \in IPs /\ ~Fresh(ip)
    /\ \A x \in Containers : ~Makes(x, ip)
    /\ \A d \in Containers \ {c} : Removing(d) => proc[d].ip # ip

\* No allocation changes but those of a container without a fixed IP.
OnlyFrees(c) ==
    \A ip \in IPs : \/ ipam'[ip] = ipam[ip]
                    \/ ipam[ip] = c /\ ~Fixed(c) /\ ipam'[ip] = NoContainer

\* A step that changes no files, and no allocations but those of a container c without a
\* fixed IP, keeps the invariant if it leads c's handler to a state that fits them.
LEMMA FreeingStep ==
    ASSUME CNIInd, UNCHANGED <<cniSetting, files, flock>>, CNITypeOK',
           NEW c \in Containers,
           OnlyFrees(c),
           NEW g, Becomes(c, g),
           \A d \in Containers \ {c} : HasLock(d) => locked'[proc[d].fd] = d,
           (OpOK(c) /\ AddressOK(c) /\ LockOK(c))',
           (ClaimOK(c) /\ UserOK(c) /\ NamerOK(c) /\ DropperOK(c))',
           Busy(c)' => (Busy(c) /\ g.ip = proc[c].ip) \/ Standing(c, g.ip),
           g.hook /\ g.pc \in {"made", "owner"} =>
              proc[c].hook /\ proc[c].pc \in {"made", "owner"} /\ proc[c].ip = g.ip,
           g.hook => g.pc \notin {"file", "mount", "connect", "tenant"},
           g.op = "start" => g.pc = "owner",
           Making(c)' => Making(c) \/ \A d \in Containers \ {c} : ~Naming(d),
           Naming(c)' => Naming(c) \/ \A d \in Containers \ {c} : ~Making(d),
           Deleting(c)' => Deleting(c) \/ \A d \in Containers \ {c} : ~Deleting(d)
    PROVE  CNIInd'
<1> USE DEF files, OnlyFrees
<1>1. ASSUME NEW d \in Containers \ {c}
      PROVE  /\ Removing(d)' <=> Removing(d)
             /\ Undoing(d)' <=> Undoing(d)
             /\ Dropping(d)' <=> Dropping(d)
             /\ Using(d)' <=> Using(d)
             /\ Busy(d)' <=> Busy(d)
             /\ Naming(d)' <=> Naming(d)
             /\ HasLock(d)' <=> HasLock(d)
             /\ Claims(d)' <=> Claims(d)
             /\ Deleting(d)' <=> Deleting(d)
             /\ Making(d)' <=> Making(d)
             /\ proc'[d] = proc[d]
  BY OthersStay DEF Becomes
<1>2. \A d \in Containers : /\ Fixed(d)' <=> Fixed(d)
                            /\ Specific(d)' <=> Specific(d)
                            /\ Want'[d] = Want[d]
  BY SameSetting
<1>3. \A d \in Containers \ {c} : OpOK(d)' /\ AddressOK(d)' /\ LockOK(d)'
  BY <1>1, StayOK DEF CNIInd, LockOK
<1>4. ASSUME NEW d \in Containers \ {c} PROVE (ClaimOK(d) /\ UserOK(d) /\ NamerOK(d))'
  <2>1. ClaimOK(d) /\ UserOK(d) /\ NamerOK(d) /\ AddressOK(d)
    BY DEF CNIInd
  <2>2. ClaimOK(d)'
    <3>1. Claims(d) => proc[d].ip \in IPs
      BY <2>1 DEF AddressOK, Claims
    <3> QED BY <1>1, <1>2, <2>1, <3>1 DEF ClaimOK
  <2>3. UserOK(d)'
    BY <1>1, <1>2, <2>1 DEF UserOK, Mounted
  <2>4. NamerOK(d)'
    BY <1>1, <1>2, <2>1 DEF NamerOK
  <2> QED BY <2>2, <2>3, <2>4
<1>5. ASSUME NEW d \in Containers \ {c} PROVE DropperOK(d)'
  <2>1. DropperOK(d)
    BY DEF CNIInd
  <2>2. Removing(d) /\ Busy(c)' => proc'[c].ip # proc[d].ip
    BY <2>1 DEF DropperOK, Standing, Becomes
  <2> QED BY <1>1, <2>1, <2>2 DEF DropperOK
<1>6. ASSUME NEW ip \in IPs, Fresh(ip)' PROVE Fresh(ip)
  <2>1. CASE ipam[ip] = c /\ ~Fixed(c)
    BY <2>1 DEF Fresh
  <2>2. CASE ipam[ip] = c /\ Fixed(c)
    BY <1>2, <1>6, <2>2 DEF Fresh, Becomes
  <2>3. CASE ipam[ip] \in Containers \ {c}
    BY <1>1, <1>2, <1>6, <2>3 DEF Fresh
  <2>4. CASE ipam[ip] = NoContainer
    BY <2>4 DEF Fresh
  <2> QED BY <2>1, <2>2, <2>3, <2>4 DEF CNIInd, CNITypeOK
<1>7. ASSUME NEW ip \in IPs, Unused(ip), Busy(c)' => proc'[c].ip # ip PROVE Unused(ip)'
  BY <1>1, <1>7 DEF Unused
<1>8. ASSUME NEW ip \in IPs PROVE FreshOK(ip)'
  <2>1. SUFFICES ASSUME Fresh(ip)' PROVE FreshOK(ip)'
    BY DEF FreshOK
  <2>2. FreshOK(ip) /\ Fresh(ip)
    BY <1>6, <2>1 DEF CNIInd
  <2>3. Busy(c)' => proc'[c].ip # ip
    BY <2>2 DEF FreshOK, Unused, Standing, Becomes
  <2> QED BY <1>7, <2>2, <2>3 DEF FreshOK
<1>9. ASSUME NEW ip \in IPs PROVE MakingOK(ip)'
  <2>1. SUFFICES ASSUME NEW x \in Containers, Makes(x, ip)' PROVE MakingOK(ip)'
    BY DEF MakingOK
  <2>2. x # c /\ Makes(x, ip)
    BY <1>1, <2>1, NullAssumption DEF Undoing, Makes, Becomes
  <2>3. MakingOK(ip) /\ Unused(ip)
    BY <2>2 DEF CNIInd, MakingOK
  <2>4. Busy(c)' => proc'[c].ip # ip
    BY <2>2, <2>3 DEF Unused, Standing, Becomes
  <2>5. Unused(ip)'
    BY <1>7, <2>3, <2>4
  <2>6. \A y \in Containers : Makes(y, ip)' => y = x
    BY <2>1 DEF Makes
  <2>7. proc'[x] = proc[x]
    BY <1>1, <2>2
  <2> QED BY <2>2, <2>3, <2>5, <2>6, <2>7 DEF MakingOK, Mounted
<1>10. ASSUME NEW d \in Containers, NEW e \in Containers PROVE Apart(d, e)'
  <2>1. Apart(d, e) /\ Apart(e, d)
    BY DEF CNIInd
  <2>2. CASE d # c /\ e # c
    BY <1>1, <2>1, <2>2 DEF Apart
  <2>3. CASE d = e
    BY <2>3 DEF Apart
  <2>4. CASE d = c /\ e # c
    BY <1>1, <2>1, <2>4 DEF Apart
  <2>5. CASE d # c /\ e = c
    BY <1>1, <2>1, <2>5 DEF Apart
  <2> QED BY <2>2, <2>3, <2>4, <2>5
<1>11. AllLead'
  BY DEF CNIInd, AllLead, LinkLeads, Mounted
<1> QED BY <1>3, <1>4, <1>5, <1>8, <1>9, <1>10, <1>11 DEF CNIInd

\* The same for a step that changes no allocations at all.
LEMMA QuietStep ==
    ASSUME CNIInd, UNCHANGED <<cniSetting, files, flock, ipam>>, CNITypeOK',
           NEW c \in Containers, NEW g, Becomes(c, g),
           \A d \in Containers \ {c} : HasLock(d) => locked'[proc[d].fd] = d,
           (OpOK(c) /\ AddressOK(c) /\ LockOK(c))',
           (ClaimOK(c) /\ UserOK(c) /\ NamerOK(c) /\ DropperOK(c))',
           Busy(c)' => (Busy(c) /\ g.ip = proc[c].ip) \/ Standing(c, g.ip),
           g.hook /\ g.pc \in {"made", "owner"} =>
              proc[c].hook /\ proc[c].pc \in {"made", "owner"} /\ proc[c].ip = g.ip,
           g.hook => g.pc \notin {"file", "mount", "connect", "tenant"},
           g.op = "start" => g.pc = "owner",
           Making(c)' => Making(c) \/ \A d \in Containers \ {c} : ~Naming(d),
           Naming(c)' => Naming(c) \/ \A d \in Containers \ {c} : ~Making(d),
           Deleting(c)' => Deleting(c) \/ \A d \in Containers \ {c} : ~Deleting(d)
    PROVE  CNIInd'
<1>1. ipam' = ipam /\ UNCHANGED <<cniSetting, files, flock>>
  OBVIOUS
<1>2. OnlyFrees(c)
  BY <1>1 DEF OnlyFrees
<1> QED BY <1>1, <1>2, FreeingStep

\* The part of CNITypeOK about the files and the counters.
FilesOK ==
    /\ owner \in [IPs -> Containers \cup {NoContainer}]
    /\ tenant \in [IPs -> Containers \cup {NoContainer, "empty"}]
    /\ netns \in [IPs -> Containers \cup {"absent", "file"}]
    /\ link \in [Containers -> IPs \cup {NoIP}]
    /\ flock \in [IPs -> Inodes \cup {0}]
    /\ ipam \in [IPs -> Containers \cup {NoContainer}]
    /\ creates \in [Containers -> 0..MaxCreates]

\* c's locks stay with the file it has open.
LEMMA LocksStay ==
    ASSUME CNITypeOK, FilesOK', NEW c \in Containers, NEW g \in Proc,
           proc' = [proc EXCEPT ![c] = g], g.fd = proc[c].fd \/ proc[c].fd = 0, UNCHANGED locked
    PROVE  /\ CNITypeOK' /\ Becomes(c, g)
           /\ \A d \in Containers : HasLock(d) /\ LockOK(d) => locked'[proc[d].fd] = d
<1>1. Becomes(c, g)
  BY ProcChange
<1>2. \A i \in Inodes : locked[i] = c => proc[c].fd = i /\ i # 0
  BY InodeAssumption, NullAssumption DEF CNITypeOK
<1>3. \A i \in Inodes : locked'[i] # NoContainer => proc'[locked'[i]].fd = i
  BY <1>1, <1>2 DEF CNITypeOK, Becomes
<1> QED BY <1>1, <1>3 DEF CNITypeOK, FilesOK, Becomes, LockOK

\* A handler that returns has no lock any more.
LEMMA LocksReturn ==
    ASSUME CNITypeOK, FilesOK', NEW c \in Containers, NEW g \in Proc, Return(c, g)
    PROVE  /\ CNITypeOK' /\ Becomes(c, g)
           /\ \A d \in Containers \ {c} : HasLock(d) /\ LockOK(d) => locked'[proc[d].fd] = d
<1>1. Becomes(c, g)
  BY ProcChange DEF Return
<1>2. locked' = [i \in Inodes |-> IF locked[i] = c THEN NoContainer ELSE locked[i]]
  BY DEF Return, Unlocked
<1>3. locked' \in [Inodes -> Containers \cup {NoContainer}]
  BY <1>2 DEF CNITypeOK
<1>4. \A i \in Inodes : locked'[i] # NoContainer => proc'[locked'[i]].fd = i
  BY <1>1, <1>2 DEF CNITypeOK, Becomes
<1>5. ASSUME NEW d \in Containers \ {c}, HasLock(d), LockOK(d)
      PROVE  locked'[proc[d].fd] = d
  <2>1. proc[d].fd \in Inodes /\ locked[proc[d].fd] = d
    BY <1>5, ProcType DEF LockOK
  <2> QED BY <1>2, <2>1
<1> QED BY <1>1, <1>3, <1>4, <1>5 DEF CNITypeOK, FilesOK, Becomes

\* A handler gets the lock of the file it has open.
LEMMA LocksTaken ==
    ASSUME CNITypeOK, FilesOK', NEW c \in Containers, NEW g \in Proc,
           proc' = [proc EXCEPT ![c] = g], g.fd = proc[c].fd, proc[c].fd # 0, LockFlock(c)
    PROVE  /\ CNITypeOK' /\ Becomes(c, g) /\ locked'[g.fd] = c /\ locked[g.fd] = NoContainer
           /\ \A d \in Containers \ {c} : HasLock(d) /\ LockOK(d) => locked'[proc[d].fd] = d
<1>1. Becomes(c, g)
  BY ProcChange
<1>2. proc[c].fd \in Inodes
  BY ProcType
<1>3. locked' = [locked EXCEPT ![proc[c].fd] = c] /\ locked[proc[c].fd] = NoContainer
  BY DEF LockFlock
<1>4. locked' \in [Inodes -> Containers \cup {NoContainer}]
  BY <1>3 DEF CNITypeOK
<1>5. \A i \in Inodes : locked'[i] # NoContainer => proc'[locked'[i]].fd = i
  BY <1>1, <1>2, <1>3 DEF CNITypeOK, Becomes
<1>6. ASSUME NEW d \in Containers \ {c}, HasLock(d), LockOK(d)
      PROVE  locked'[proc[d].fd] = d
  <2>1. proc[d].fd \in Inodes /\ locked[proc[d].fd] = d
    BY <1>6, ProcType DEF LockOK
  <2> QED BY <1>3, <2>1, NullAssumption DEF CNITypeOK
<1>7. locked'[g.fd] = c
  BY <1>2, <1>3 DEF CNITypeOK
<1> QED BY <1>1, <1>3, <1>4, <1>5, <1>6, <1>7 DEF CNITypeOK, FilesOK, Becomes

\* CreateFails, HandleDelete, RemoveNetwork and a failed start lead to a handler that
\* looks for the endpoint to delete; like a stopped container it fits everything.
LEMMA RestingFits ==
    ASSUME CNIInd, UNCHANGED cniSetting, NEW c \in Containers, NEW g, Becomes(c, g),
           link'[c] \in {link[c], NoIP},
           \/ g.pc = "get" /\ g.op = "delete"
           \/ g.pc = "get" /\ g.op = "remove" /\ Fixed(c)
           \/ g.pc \in {"stopped", "removed"} /\ g.op = "none",
           g.fd = 0
    PROVE  /\ (OpOK(c) /\ AddressOK(c) /\ LockOK(c))'
           /\ (ClaimOK(c) /\ UserOK(c) /\ NamerOK(c) /\ DropperOK(c))'
           /\ ~Busy(c)' /\ ~Making(c)' /\ ~Naming(c)' /\ ~Deleting(c)' /\ ~HasLock(c)'
<1>1. proc'[c] = g
  BY DEF Becomes
<1>2. (Fixed(c)' <=> Fixed(c)) /\ (Specific(c)' <=> Specific(c)) /\ Want'[c] = Want[c]
  BY SameSetting
<1>3. ~Removing(c)' /\ ~Dropping(c)' /\ ~Using(c)'
  BY <1>1 DEF Removing, Dropping, Using
<1>4. ~Busy(c)' /\ ~Naming(c)' /\ ~Deleting(c)' /\ ~Making(c)'
  BY <1>1, <1>3 DEF Busy, Naming, Deleting, Making
<1>5. ~HasLock(c)'
  BY <1>1, <1>3, <1>4 DEF HasLock
<1>6. OpOK(c)'
  BY <1>1, <1>2, <1>3 DEF Undoing, OpOK
<1>7. AddressOK(c)'
  BY <1>1, <1>2, <1>4 DEF Undoing, AddressOK, CNIInd
<1>8. LockOK(c)'
  BY <1>1, <1>5 DEF LockOK
<1>9. (ClaimOK(c) /\ UserOK(c) /\ NamerOK(c) /\ DropperOK(c))'
  BY <1>1, <1>3, <1>4 DEF Undoing, ClaimOK, Claims, UserOK, NamerOK, DropperOK
<1> QED BY <1>4, <1>5, <1>6, <1>7, <1>8, <1>9

\* c's handler came to rest: a new deletion begins, or nothing is left to do.
Resting(c, g) ==
    /\ g \in Proc /\ g.fd = 0
    /\ \/ g.pc = "get" /\ g.op = "delete"
       \/ g.pc = "get" /\ g.op = "remove" /\ Fixed(c)
       \/ g.pc \in {"stopped", "removed"} /\ g.op = "none"

\* The states that c's handler rests in.
LEMMA RestingStates ==
    ASSUME CNITypeOK, NEW c \in Containers
    PROVE  /\ Resting(c, Idle) /\ Resting(c, Finished(c))
           /\ proc[c].fd = 0 => Resting(c, StartFails(c))
           /\ Resting(c, [StartFails(c) EXCEPT !.fd = 0])
           /\ Resting(c, [Idle EXCEPT !.pc = "removed"])
           /\ Fixed(c) => Resting(c, [Idle EXCEPT !.pc = "get", !.op = "remove"])
<1>1. proc[c] \in Proc
  BY ProcType
<1> QED BY <1>1 DEF Resting, Idle, Finished, StartFails, Proc, PCs

\* Coming to rest keeps the invariant.
LEMMA RestStep ==
    ASSUME CNIInd, UNCHANGED <<cniSetting, files, flock, ipam, creates>>,
           NEW c \in Containers, NEW g, Resting(c, g),
           \/ Return(c, g)
           \/ proc[c].fd = 0 /\ proc' = [proc EXCEPT ![c] = g] /\ UNCHANGED locked
    PROVE  CNIInd'
<1>0. CNITypeOK /\ FilesOK'
  BY DEF CNIInd, CNITypeOK, FilesOK, files
<1>1. g \in Proc /\ g.fd = 0
  BY DEF Resting
<1>2. /\ CNITypeOK' /\ Becomes(c, g)
      /\ \A d \in Containers \ {c} : HasLock(d) /\ LockOK(d) => locked'[proc[d].fd] = d
  BY <1>0, <1>1, LocksReturn, LocksStay
<1>3. \A d \in Containers \ {c} : HasLock(d) => locked'[proc[d].fd] = d
  BY <1>2 DEF CNIInd
<1>4. /\ (OpOK(c) /\ AddressOK(c) /\ LockOK(c))'
      /\ (ClaimOK(c) /\ UserOK(c) /\ NamerOK(c) /\ DropperOK(c))'
      /\ ~Busy(c)' /\ ~Making(c)' /\ ~Naming(c)' /\ ~Deleting(c)'
  BY <1>2, RestingFits DEF Resting, files
<1>5. g.pc \in {"get", "stopped", "removed"} /\ g.op # "start"
  BY DEF Resting
<1> QED BY <1>2, <1>3, <1>4, <1>5, QuietStep

\* A handler's process dies.
LEMMA DiesKeeps ==
    ASSUME CNIInd, UNCHANGED cniSetting, NEW c \in Containers, HandlerDies(c)
    PROVE  CNIInd'
<1>1. PICK g : Resting(c, g) /\ Return(c, g)
  BY RestingStates DEF HandlerDies, CNIInd
<1> QED BY <1>1, RestStep DEF HandlerDies, files

\* A handler returns an error.
LEMMA GivesUpKeeps ==
    ASSUME CNIInd, UNCHANGED cniSetting, NEW c \in Containers, HandlerGivesUp(c)
    PROVE  CNIInd'
<1>1. CNITypeOK
  BY DEF CNIInd
<1>2. proc[c].pc \in {"made", "owner"} => proc[c].fd = 0
  BY DEF CNIInd, LockOK, HasLock, Removing, OpOK, Naming
<1>3. PICK g : Resting(c, g) /\ Return(c, g)
  BY <1>1, <1>2, RestingStates DEF HandlerGivesUp
<1> QED BY <1>3, RestStep DEF HandlerGivesUp, files

\* dockerd removes a container.
LEMMA RemoveNetworkKeeps ==
    ASSUME CNIInd, UNCHANGED cniSetting, NEW c \in Containers, RemoveNetwork(c)
    PROVE  CNIInd'
<1>1. proc[c].pc = "stopped" /\ proc[c].fd = 0
  BY DEF RemoveNetwork, CNIInd, LockOK, HasLock, Removing, OpOK, Naming
<1>2. PICK g : Resting(c, g) /\ proc' = [proc EXCEPT ![c] = g]
  BY RestingStates DEF RemoveNetwork, CNIInd
<1> QED BY <1>1, <1>2, RestStep DEF RemoveNetwork, locks

\* c's handler goes on with the file and the lock it has, if it has any.
LEMMA HandleCreateKeeps ==
    ASSUME CNIInd, UNCHANGED cniSetting, "naming" \notin Overlap, NEW c \in Containers,
           HandleCreate(c)
    PROVE  CNIInd'
<1> DEFINE g == [Idle EXCEPT !.pc = CreateFirst(c), !.op = "create"]
<1>1. /\ proc' = [proc EXCEPT ![c] = g] /\ UNCHANGED <<files, flock, locked, ipam>>
      /\ proc[c].pc = "stopped" /\ Patient(c)
      /\ creates[c] < MaxCreates /\ creates' = [creates EXCEPT ![c] = @ + 1]
  BY DEF HandleCreate, locks
<1>2. /\ g \in Proc /\ g.fd = 0 /\ g.op = "create" /\ g.ip = NoIP /\ ~g.hook
      /\ g.pc = IF Specific(c) THEN "flock" ELSE "get"
  BY DEF Idle, Proc, PCs, CreateFirst
<1> HIDE DEF g
<1>3. CNITypeOK /\ FilesOK'
  <2>1. creates' \in [Containers -> 0..MaxCreates]
    BY <1>1, MaxCreatesAssumption DEF CNIInd, CNITypeOK
  <2> QED BY <1>1, <2>1 DEF CNIInd, CNITypeOK, FilesOK, files
<1>4. proc[c].fd = 0
  BY <1>1 DEF CNIInd, LockOK, HasLock, Removing, OpOK, Naming
<1>5. /\ CNITypeOK' /\ Becomes(c, g)
      /\ \A d \in Containers \ {c} : HasLock(d) => locked'[proc[d].fd] = d
  BY <1>1, <1>2, <1>3, <1>4, LocksStay DEF CNIInd
<1>6. (Fixed(c)' <=> Fixed(c)) /\ (Specific(c)' <=> Specific(c)) /\ Want'[c] = Want[c]
  BY SameSetting
<1>7. proc'[c] = g /\ link'[c] = link[c]
  BY <1>1, <1>5 DEF Becomes, files
<1>8. ~Removing(c)' /\ ~Dropping(c)' /\ ~Using(c)' /\ ~Busy(c)' /\ ~Deleting(c)' /\ ~Claims(c)'
  BY <1>2, <1>7 DEF Removing, Dropping, Using, Busy, Deleting, Claims
<1>9. /\ ~HasLock(c)' /\ (Naming(c)' <=> Specific(c)) /\ (Making(c)' <=> Unmade(c))
  BY <1>2, <1>6, <1>7, <1>8 DEF HasLock, Naming, Making, Unmade
<1>10. (OpOK(c) /\ AddressOK(c) /\ LockOK(c))'
  <2>1. OpOK(c)'
    BY <1>2, <1>6, <1>7, <1>8 DEF Undoing, OpOK
  <2>2. AddressOK(c)'
    BY <1>2, <1>6, <1>7, <1>8 DEF Undoing, AddressOK, CNIInd
  <2>3. LockOK(c)'
    BY <1>2, <1>7, <1>9 DEF LockOK
  <2> QED BY <2>1, <2>2, <2>3
<1>11. (ClaimOK(c) /\ UserOK(c) /\ NamerOK(c) /\ DropperOK(c))'
  BY <1>2, <1>6, <1>7, <1>8, <1>9 DEF ClaimOK, UserOK, NamerOK, DropperOK
<1>12. ASSUME NEW d \in Containers \ {c}
       PROVE  (Making(c)' => ~Naming(d)) /\ (Naming(c)' => ~Making(d))
  <2>1. (Specific(c) => ~BeingMade(d)) /\ (Unmade(c) => ~Naming(d))
    BY <1>1 DEF Patient
  <2>2. Making(d) => BeingMade(d)
    BY DEF Making, BeingMade, CNIInd, OpOK
  <2> QED BY <1>9, <2>1, <2>2
<1> QED BY <1>1, <1>2, <1>5, <1>8, <1>10, <1>11, <1>12, QuietStep

\* The lock of the address's file, before the endpoint is looked up.
LEMMA CreateLockKeeps ==
    ASSUME CNIInd, UNCHANGED cniSetting, NEW c \in Containers, CreateLock(c)
    PROVE  CNIInd'
<1> DEFINE g == [proc[c] EXCEPT !.pc = "get"]
<1>1. /\ proc' = [proc EXCEPT ![c] = g] /\ LockFlock(c) /\ UNCHANGED <<files, flock, ipam, creates>>
      /\ proc[c].pc = "lock" /\ proc[c].op = "create"
  BY DEF CreateLock, ProcGoto
<1>2. /\ g \in Proc /\ g.pc = "get" /\ g.op = "create"
      /\ g.fd = proc[c].fd /\ g.ip = proc[c].ip /\ g.hook = proc[c].hook
  BY <1>1, ProcType DEF CNIInd, Proc, PCs
<1> HIDE DEF g
<1>3. CNITypeOK /\ FilesOK'
  BY <1>1 DEF CNIInd, CNITypeOK, FilesOK, files
<1>4. proc[c].fd # 0 /\ Specific(c)
  BY <1>1 DEF CNIInd, LockOK, OpOK
<1>5. /\ CNITypeOK' /\ Becomes(c, g) /\ locked'[g.fd] = c
      /\ \A d \in Containers \ {c} : HasLock(d) => locked'[proc[d].fd] = d
  BY <1>1, <1>2, <1>3, <1>4, LocksTaken DEF CNIInd
<1>6. (Fixed(c)' <=> Fixed(c)) /\ (Specific(c)' <=> Specific(c)) /\ Want'[c] = Want[c]
  BY SameSetting
<1>7. proc'[c] = g /\ link'[c] = link[c]
  BY <1>1, <1>5 DEF Becomes, files
<1>8. ~Removing(c)' /\ ~Dropping(c)' /\ ~Using(c)' /\ ~Busy(c)' /\ ~Deleting(c)' /\ ~Claims(c)'
  BY <1>2, <1>7 DEF Undoing, Removing, Dropping, Using, Busy, Deleting, Claims
<1>9. HasLock(c)' /\ Naming(c) /\ Naming(c)' /\ (Making(c)' <=> Making(c))
  BY <1>1, <1>2, <1>4, <1>6, <1>7 DEF HasLock, Naming, Making, Unmade
<1>10. (OpOK(c) /\ AddressOK(c) /\ LockOK(c))'
  <2>1. OpOK(c)'
    BY <1>2, <1>6, <1>7, <1>8 DEF Undoing, OpOK
  <2>2. AddressOK(c)'
    BY <1>2, <1>6, <1>7, <1>8 DEF Undoing, AddressOK, CNIInd
  <2>3. LockOK(c)'
    BY <1>2, <1>4, <1>5, <1>7, <1>9 DEF LockOK
  <2> QED BY <2>1, <2>2, <2>3
<1>11. NamerOK(c)'
  <2>1. flock[Want[c]] = proc[c].fd \/ owner[Want[c]] = NoContainer
    BY <1>1, <1>9 DEF CNIInd, NamerOK
  <2> QED BY <1>1, <1>2, <1>6, <1>7, <2>1 DEF NamerOK, files
<1>12. (ClaimOK(c) /\ UserOK(c) /\ DropperOK(c))'
  BY <1>2, <1>7, <1>8 DEF Undoing, ClaimOK, UserOK, DropperOK
<1> QED BY <1>1, <1>2, <1>5, <1>8, <1>9, <1>10, <1>11, <1>12, QuietStep

\* The settings are well typed.
LEMMA SettingType ==
    ASSUME CNIInd, NEW c \in Containers
    PROVE  /\ Want[c] \in IPs
           /\ KindOf[c] \in {"fixed", "fixedspecific", "specific"}
           /\ KindOf[c] = "fixed" <=> ~Specific(c)
           /\ ~Specific(c) => Fixed(c)
BY CNISettingAssumption DEF CNIInd, CNISetting, Want, KindOf, Specific, Fixed

\* Where an endpoint is found nobody has a claim on the address, and who finds it by a
\* link, or by name with the lock, finds nobody removing it.
LEMMA FoundStands ==
    ASSUME CNIInd, NEW c \in Containers, proc[c].pc = "get", proc[c].op = "create",
           GetNetEndpoint(c, ~Specific(c)) = "found"
    PROVE  /\ Standing(c, Target(c, ~Specific(c)))
           /\ Specific(c) => owner[Want[c]] # NoContainer
<1> DEFINE ip == Target(c, ~Specific(c))
<1>1. ip \in IPs /\ netns[ip] # "absent" /\ owner[ip] # NoContainer
      /\ ip = IF Specific(c) THEN Want[c] ELSE link[c]
  BY SettingType DEF GetNetEndpoint, Get, Target, CNIInd, CNITypeOK
<1> HIDE DEF ip
<1>2. ~Fresh(ip)
  BY <1>1 DEF CNIInd, FreshOK
<1>3. ASSUME NEW x \in Containers, Makes(x, ip) PROVE FALSE
  <2>1. CASE Specific(c)
    <3>1. Making(x)
      BY <1>3 DEF Undoing, Makes, Making, CNIInd, OpOK
    <3>2. Naming(c)
      BY <2>1 DEF Naming
    <3>3. x = c
      BY <3>1, <3>2 DEF CNIInd, Apart
    <3> QED BY <1>3, <3>3 DEF Undoing, Makes
  <2>2. CASE ~Specific(c)
    <3>1. c = x /\ proc[x].pc = "tenant"
      BY <1>1, <1>3, <2>2 DEF CNIInd, MakingOK
    <3> QED BY <3>1
  <2> QED BY <2>1, <2>2
<1>4. ASSUME NEW d \in Containers \ {c}, Removing(d), proc[d].ip = ip PROVE FALSE
  <2>1. DropperOK(d) /\ LockOK(d)
    BY DEF CNIInd
  <2>2. CASE Specific(c)
    <3>1. HasLock(c)
      BY <2>2 DEF HasLock, Naming
    <3>2. locked[proc[c].fd] = c
      BY <3>1 DEF CNIInd, LockOK
    <3>3. flock[ip] = proc[c].fd
      BY <1>1, <2>2 DEF CNIInd, NamerOK, Naming
    <3>4. flock[ip] = proc[d].fd
      BY <1>1, <1>4, <2>1 DEF DropperOK, Removing, Dropping
    <3>5. locked[proc[d].fd] = d
      BY <1>4, <2>1 DEF LockOK, HasLock
    <3> QED BY <3>2, <3>3, <3>4, <3>5
  <2>3. CASE ~Specific(c)
    BY <1>1, <1>4, <2>1, <2>3 DEF DropperOK
  <2> QED BY <2>2, <2>3
<1> QED BY <1>1, <1>2, <1>3, <1>4 DEF Standing, ip

\* The look-up of HandleCreate.
LEMMA CreateGetKeeps ==
    ASSUME CNIInd, UNCHANGED cniSetting, NEW c \in Containers, CreateGet(c)
    PROVE  CNIInd'
<1> DEFINE nep == GetNetEndpoint(c, ~Specific(c))
           ip == Target(c, ~Specific(c))
<1>1. /\ UNCHANGED <<files, flock, ipam, creates>>
      /\ proc[c].pc = "get" /\ proc[c].op = "create"
  BY DEF CreateGet
<1>2. CNITypeOK /\ FilesOK'
  BY <1>1 DEF CNIInd, CNITypeOK, FilesOK, files
<1>3. nep \in {"nil", "error", "found"}
  BY DEF GetNetEndpoint, Get
<1>4. (Fixed(c)' <=> Fixed(c)) /\ (Specific(c)' <=> Specific(c)) /\ Want'[c] = Want[c]
  BY SameSetting
<1>5. CASE nep = "error"
  BY <1>1, <1>2, <1>5, RestingStates, RestStep DEF CreateGet
<1>6. CASE nep = "nil"
  <2> DEFINE g == Prepared(c, NoIP, TRUE)
  <2>1. Return(c, g)
    BY <1>6 DEF CreateGet
  <2>2. g \in Proc /\ g.pc = "prepared" /\ g.op = "none" /\ g.ip = NoIP /\ g.hook /\ g.fd = 0
    BY DEF Prepared, Idle, Proc, PCs
  <2> HIDE DEF g
  <2>3. /\ CNITypeOK' /\ Becomes(c, g)
        /\ \A d \in Containers \ {c} : HasLock(d) => locked'[proc[d].fd] = d
    BY <1>2, <2>1, <2>2, LocksReturn DEF CNIInd
  <2>4. proc'[c] = g /\ link'[c] = link[c]
    BY <1>1, <2>3 DEF Becomes, files
  <2>5. /\ ~Removing(c)' /\ ~Dropping(c)' /\ ~Using(c)' /\ ~Busy(c)' /\ ~Deleting(c)'
        /\ ~Claims(c)' /\ ~Naming(c)'
    BY <2>2, <2>4 DEF Undoing, Removing, Dropping, Using, Busy, Deleting, Claims, Naming
  <2>6. ~HasLock(c)' /\ (Making(c)' => Making(c))
    BY <1>1, <1>4, <2>2, <2>4, <2>5 DEF HasLock, Making, Unmade
  <2>7. (OpOK(c) /\ AddressOK(c) /\ LockOK(c))'
    <3>1. OpOK(c)'
      BY <2>2, <2>4, <2>5 DEF Undoing, OpOK
    <3>2. AddressOK(c)'
      BY <1>4, <2>2, <2>4, <2>5 DEF Undoing, AddressOK, CNIInd
    <3>3. LockOK(c)'
      BY <2>2, <2>4, <2>6 DEF LockOK
    <3> QED BY <3>1, <3>2, <3>3
  <2>8. link[c] = NoIP
    <3>1. link[c] \in IPs \cup {NoIP} /\ (link[c] # NoIP => Mounted(link[c]))
      BY <1>2 DEF CNITypeOK, CNIInd, AllLead, LinkLeads
    <3>2. link[c] # NoIP => netns[link[c]] # "absent"
      BY <3>1, NullAssumption DEF Mounted
    <3>3. Specific(c) => link[c] \in {NoIP, Want[c]}
      BY DEF CNIInd, AddressOK
    <3> QED BY <1>6, <3>1, <3>2, <3>3, SettingType, NullAssumption DEF GetNetEndpoint, Get, Target
  <2>9. (ClaimOK(c) /\ UserOK(c) /\ NamerOK(c) /\ DropperOK(c))'
    BY <2>2, <2>4, <2>5, <2>8 DEF ClaimOK, UserOK, NamerOK, DropperOK
  <2> QED BY <1>1, <2>2, <2>3, <2>5, <2>6, <2>7, <2>9, QuietStep
<1>7. CASE nep = "found"
  <2> DEFINE g == [proc[c] EXCEPT !.pc = "occupy", !.ip = ip]
  <2>1. proc' = [proc EXCEPT ![c] = g] /\ UNCHANGED locked
    BY <1>7 DEF CreateGet
  <2>2. Standing(c, ip) /\ (Specific(c) => owner[Want[c]] # NoContainer)
    BY <1>1, <1>7, FoundStands
  <2>3. /\ g \in Proc /\ g.pc = "occupy" /\ g.op = "create" /\ g.ip = ip
        /\ g.hook = proc[c].hook /\ g.fd = proc[c].fd /\ ip \in IPs
        /\ ip = IF Specific(c) THEN Want[c] ELSE link[c]
    BY <1>1, <1>2, <2>2, ProcType DEF Proc, PCs, Standing, Target
  <2> HIDE DEF g, ip
  <2>4. /\ CNITypeOK' /\ Becomes(c, g)
        /\ \A d \in Containers : HasLock(d) => locked'[proc[d].fd] = d
    BY <1>2, <2>1, <2>3, LocksStay DEF CNIInd
  <2>5. proc'[c] = g /\ link'[c] = link[c] /\ locked' = locked
    BY <1>1, <2>1, <2>4 DEF Becomes, files
  <2>6. ~Removing(c)' /\ ~Dropping(c)' /\ ~Using(c)' /\ Busy(c)' /\ ~Deleting(c)' /\ ~Claims(c)'
    BY <2>3, <2>5 DEF Undoing, Removing, Dropping, Using, Busy, Deleting, Claims
  <2>7. (HasLock(c)' <=> HasLock(c)) /\ (Naming(c)' <=> Naming(c)) /\ (Making(c)' <=> Making(c))
        /\ (Naming(c) <=> Specific(c))
    BY <1>1, <1>4, <2>3, <2>5, <2>6 DEF HasLock, Naming, Making, Unmade, Removing
  <2>8. (OpOK(c) /\ AddressOK(c) /\ LockOK(c))'
    <3>1. OpOK(c)'
      BY <2>3, <2>5, <2>6 DEF Undoing, OpOK
    <3>2. AddressOK(c)'
      BY <1>4, <2>3, <2>5, <2>6 DEF AddressOK, CNIInd
    <3>3. LockOK(c)'
      BY <1>1, <2>3, <2>5, <2>7 DEF LockOK, CNIInd
    <3> QED BY <3>1, <3>2, <3>3
  <2>9. NamerOK(c)'
    <3>1. Specific(c) => flock[Want[c]] = proc[c].fd
      BY <1>1, <2>2, <2>7 DEF CNIInd, NamerOK
    <3> QED BY <1>1, <1>4, <2>2, <2>3, <2>5, <2>7, <3>1 DEF NamerOK, files
  <2>10. (ClaimOK(c) /\ UserOK(c) /\ DropperOK(c))'
    BY <1>4, <2>3, <2>5, <2>6 DEF Undoing, ClaimOK, UserOK, DropperOK
  <2> QED BY <1>1, <2>2, <2>3, <2>4, <2>6, <2>7, <2>8, <2>9, <2>10, QuietStep
<1> QED BY <1>3, <1>5, <1>6, <1>7

\* HandleStart: who borrowed the endpoint is done or has a link made, who got the address
\* from CNI starts to make the endpoint.
LEMMA HandleStartKeeps ==
    ASSUME CNIInd, UNCHANGED cniSetting, NEW c \in Containers, HandleStart(c)
    PROVE  CNIInd'
<1> DEFINE nep == GetNetEndpoint(c, KindOf[c] = "fixed")
<1>1. /\ UNCHANGED <<files, flock, locked, ipam, creates>> /\ proc[c].pc = "made"
  BY DEF HandleStart, locks
<1>2. CNITypeOK /\ FilesOK'
  BY <1>1 DEF CNIInd, CNITypeOK, FilesOK, files
<1>3. /\ proc[c].op = "none" /\ proc[c].ip \in IPs /\ proc[c].fd = 0
      /\ Specific(c) => proc[c].ip = Want[c]
  BY <1>1 DEF CNIInd, OpOK, AddressOK, LockOK, HasLock, Removing, Naming
<1>4. (Fixed(c)' <=> Fixed(c)) /\ (Specific(c)' <=> Specific(c)) /\ Want'[c] = Want[c]
  BY SameSetting
<1>5. nep \in {"nil", "error", "found"}
  BY DEF GetNetEndpoint, Get
<1>6. ~proc[c].hook => /\ Using(c) /\ tenant[proc[c].ip] = c /\ Mounted(proc[c].ip)
                       /\ Specific(c) \/ link[c] = proc[c].ip
  <2>1. ~proc[c].hook => Using(c)
    BY <1>1 DEF Using
  <2>2. UserOK(c)
    BY DEF CNIInd
  <2> QED BY <1>1, <2>1, <2>2 DEF UserOK
<1>7. proc[c].hook => /\ Claims(c) /\ ipam[proc[c].ip] = c /\ (Fixed(c) => link[c] = NoIP)
                      /\ netns[proc[c].ip] = "absent"
  <2>1. proc[c].hook => Claims(c)
    BY <1>1 DEF Claims
  <2>2. ClaimOK(c) /\ FreshOK(proc[c].ip)
    BY <1>3 DEF CNIInd
  <2>3. proc[c].hook => Fresh(proc[c].ip)
    BY <1>1, <2>1, <2>2 DEF ClaimOK, Fresh
  <2> QED BY <1>1, <2>1, <2>2, <2>3 DEF ClaimOK, FreshOK
<1>8. Fixed(c) => (nep = "nil" <=> proc[c].hook)
  <2>1. Mounted(proc[c].ip) => netns[proc[c].ip] # "absent"
    BY NullAssumption DEF Mounted
  <2>2. \A ip : Get(ip) = "nil" <=> (ip = NoIP \/ netns[ip] = "absent")
    BY DEF Get
  <2>3. nep = Get(IF Specific(c) THEN Want[c] ELSE link[c])
    BY SettingType DEF GetNetEndpoint, Target
  <2> HIDE DEF nep
  <2>4. CASE Specific(c)
    BY <1>3, <1>6, <1>7, <2>1, <2>2, <2>3, <2>4, NullAssumption
  <2>5. CASE ~Specific(c)
    BY <1>3, <1>6, <1>7, <2>1, <2>2, <2>3, <2>5, NullAssumption
  <2> QED BY <2>4, <2>5
<1>9. ASSUME NEW g, proc' = [proc EXCEPT ![c] = g], g \in Proc,
             g.ip = proc[c].ip, g.hook = proc[c].hook, g.fd = proc[c].fd,
             \/ g.pc = "running" /\ g.op = "none" /\ (Fixed(c) => ~g.hook)
             \/ g.pc = "owner" /\ g.op = "start" /\ g.hook /\ Fixed(c)
             \/ g.pc = "connect" /\ g.op = "none" /\ ~g.hook /\ Fixed(c) /\ Specific(c)
      PROVE  CNIInd'
  <2>1. /\ CNITypeOK' /\ Becomes(c, g)
        /\ \A d \in Containers : HasLock(d) => locked'[proc[d].fd] = d
    BY <1>1, <1>2, <1>9, LocksStay DEF CNIInd
  <2>2. proc'[c] = g /\ link'[c] = link[c]
    BY <1>1, <2>1 DEF Becomes, files
  <2>3. /\ ~Removing(c)' /\ ~Dropping(c)' /\ (Using(c)' <=> ~g.hook) /\ (Busy(c)' <=> ~g.hook)
        /\ ~Deleting(c)' /\ (Claims(c)' <=> g.hook) /\ ~Naming(c)'
    BY <1>4, <1>9, <2>2 DEF Removing, Dropping, Using, Busy, Deleting, Claims, Naming
  <2>4. ~HasLock(c)' /\ (Making(c)' => Making(c))
    BY <1>1, <1>4, <1>7, <1>9, <2>2, <2>3 DEF HasLock, Making, Unmade
  <2>5. (OpOK(c) /\ AddressOK(c) /\ LockOK(c))'
    <3>1. OpOK(c)'
      BY <1>4, <1>9, <2>2, <2>3 DEF Undoing, OpOK
    <3>2. AddressOK(c)'
      BY <1>3, <1>4, <1>9, <2>2 DEF AddressOK, CNIInd
    <3>3. LockOK(c)'
      BY <1>3, <1>9, <2>2, <2>4 DEF LockOK
    <3> QED BY <3>1, <3>2, <3>3
  <2>6. (ClaimOK(c) /\ UserOK(c))'
    BY <1>1, <1>4, <1>6, <1>7, <1>9, <2>2, <2>3 DEF ClaimOK, UserOK, Mounted, files
  <2>7. (NamerOK(c) /\ DropperOK(c))'
    BY <1>9, <2>2, <2>3 DEF NamerOK, DropperOK
  <2>8. Busy(c)' => Busy(c)
    BY <1>6, <1>9, <2>3 DEF Busy
  <2> QED BY <1>1, <1>9, <2>1, <2>3, <2>4, <2>5, <2>6, <2>7, <2>8, QuietStep
<1>10. proc[c] \in Proc
  BY <1>2, ProcType
<1>11. CASE ~Fixed(c)
  <2>1. proc' = [proc EXCEPT ![c] = Started(c)]
    BY <1>11 DEF HandleStart
  <2> QED BY <1>9, <1>10, <1>11, <2>1 DEF Started, Proc, PCs
<1>12. CASE Fixed(c) /\ nep = "nil"
  <2>1. proc' = [proc EXCEPT ![c] = [proc[c] EXCEPT !.pc = "owner", !.op = "start"]]
    BY <1>2, <1>12 DEF HandleStart
  <2> QED BY <1>8, <1>9, <1>10, <1>12, <2>1 DEF Proc, PCs
<1>13. CASE Fixed(c) /\ nep = "error"
  <2>1. proc' = [proc EXCEPT ![c] = StartFails(c)]
    BY <1>13 DEF HandleStart
  <2> QED BY <1>1, <1>2, <1>3, <2>1, RestingStates, RestStep
<1>14. CASE Fixed(c) /\ nep = "found" /\ KindOf[c] = "fixed"
  <2>1. proc' = [proc EXCEPT ![c] = Started(c)]
    BY <1>14 DEF HandleStart
  <2> QED BY <1>8, <1>9, <1>10, <1>14, <2>1 DEF Started, Proc, PCs
<1>15. CASE Fixed(c) /\ nep = "found" /\ KindOf[c] # "fixed"
  <2>1. proc' = [proc EXCEPT ![c] = [proc[c] EXCEPT !.pc = "connect", !.op = "none"]]
    BY <1>15 DEF HandleStart
  <2> QED BY <1>8, <1>9, <1>10, <1>15, <2>1, SettingType DEF Proc, PCs
<1> QED BY <1>5, <1>11, <1>12, <1>13, <1>14, <1>15

\* The look-up of HandleDelete and of RemoveNetwork.
LEMMA DeleteGetKeeps ==
    ASSUME CNIInd, UNCHANGED cniSetting, "deleting" \notin Overlap, NEW c \in Containers,
           DeleteGet(c)
    PROVE  CNIInd'
<1> DEFINE ip == Target(c, Fixed(c))
           g == [proc[c] EXCEPT !.ip = ip, !.hook = FALSE,
                    !.pc = IF proc[c].op = "remove" THEN "disconnect" ELSE "free"]
<1>1. /\ UNCHANGED <<files, flock, locked, ipam, creates>>
      /\ proc[c].pc = "get" /\ proc[c].op \in {"delete", "remove"} /\ Alone(c)
  BY DEF DeleteGet, locks
<1>2. CNITypeOK /\ FilesOK' /\ proc[c] \in Proc
  BY <1>1, ProcType DEF CNIInd, CNITypeOK, FilesOK, files
<1>3. proc[c].fd = 0
  BY <1>1 DEF CNIInd, LockOK, HasLock, Removing, Naming
<1>4. (Fixed(c)' <=> Fixed(c)) /\ (Specific(c)' <=> Specific(c)) /\ Want'[c] = Want[c]
  BY SameSetting
<1>5. CASE GetNetEndpoint(c, Fixed(c)) # "found"
  <2>1. proc' = [proc EXCEPT ![c] = Finished(c)]
    BY <1>5 DEF DeleteGet
  <2> QED BY <1>1, <1>2, <1>3, <2>1, RestingStates, RestStep
<1>6. CASE GetNetEndpoint(c, Fixed(c)) = "found"
  <2>1. proc' = [proc EXCEPT ![c] = g]
    BY <1>6 DEF DeleteGet
  <2>2. ip # NoIP /\ ip = IF Fixed(c) THEN link[c] ELSE Want[c]
    BY <1>6 DEF GetNetEndpoint, Get, Target
  <2>3. ip \in IPs /\ (Specific(c) => ip = Want[c])
    <3>1. link[c] \in IPs \cup {NoIP} /\ Want[c] \in IPs
      BY <1>2, SettingType DEF CNITypeOK
    <3>2. Specific(c) => link[c] \in {NoIP, Want[c]}
      BY DEF CNIInd, AddressOK
    <3> QED BY <2>2, <3>1, <3>2
  <2>4. proc[c].op = "remove" => Fixed(c)
    BY DEF CNIInd, OpOK
  <2> HIDE DEF ip
  <2>5. /\ g \in Proc /\ g.ip = ip /\ ~g.hook /\ g.fd = 0 /\ g.op = proc[c].op
        /\ \/ g.pc = "disconnect" /\ g.op = "remove" /\ Fixed(c)
           \/ g.pc = "free" /\ g.op = "delete"
    BY <1>1, <1>2, <1>3, <2>3, <2>4 DEF Proc, PCs
  <2> HIDE DEF g
  <2>6. /\ CNITypeOK' /\ Becomes(c, g)
        /\ \A d \in Containers : HasLock(d) => locked'[proc[d].fd] = d
    BY <1>1, <1>2, <1>3, <2>1, <2>5, LocksStay DEF CNIInd
  <2>7. proc'[c] = g /\ link'[c] = link[c]
    BY <1>1, <2>6 DEF Becomes, files
  <2>8. ~Removing(c)' /\ ~Dropping(c)' /\ ~Using(c)' /\ ~Busy(c)' /\ ~Claims(c)' /\ ~Naming(c)'
    BY <2>5, <2>7 DEF Removing, Dropping, Using, Busy, Claims, Naming
  <2>9. ~HasLock(c)' /\ ~Making(c)'
    BY <2>5, <2>7, <2>8 DEF HasLock, Making
  <2>10. (OpOK(c) /\ AddressOK(c) /\ LockOK(c))'
    <3>1. OpOK(c)'
      BY <1>4, <2>5, <2>7, <2>8 DEF Undoing, OpOK
    <3>2. AddressOK(c)'
      BY <1>4, <2>3, <2>5, <2>7 DEF AddressOK, CNIInd
    <3>3. LockOK(c)'
      BY <2>5, <2>7, <2>9 DEF LockOK
    <3> QED BY <3>1, <3>2, <3>3
  <2>11. (ClaimOK(c) /\ UserOK(c) /\ NamerOK(c) /\ DropperOK(c))'
    BY <1>4, <2>2, <2>5, <2>7, <2>8 DEF ClaimOK, UserOK, NamerOK, DropperOK
  <2>12. \A d \in Containers \ {c} : ~Deleting(d)
    BY <1>1 DEF Alone
  <2> QED BY <1>1, <2>5, <2>6, <2>8, <2>9, <2>10, <2>11, <2>12, QuietStep
<1> QED BY <1>5, <1>6

\* The lock of DeleteDanglingNetwork.
LEMMA DropLockKeeps ==
    ASSUME CNIInd, UNCHANGED cniSetting, NEW c \in Containers, DropLock(c)
    PROVE  CNIInd'
<1> DEFINE g == [proc[c] EXCEPT !.pc = "drop"]
<1>1. /\ proc' = [proc EXCEPT ![c] = g] /\ LockFlock(c) /\ UNCHANGED <<files, flock, ipam, creates>>
      /\ proc[c].pc = "lock" /\ proc[c].op \in {"delete", "remove"}
  BY DEF DropLock, ProcGoto
<1>2. /\ g \in Proc /\ g.pc = "drop" /\ g.op = proc[c].op
      /\ g.fd = proc[c].fd /\ g.ip = proc[c].ip /\ g.hook = proc[c].hook
  BY <1>1, ProcType DEF CNIInd, Proc, PCs
<1> HIDE DEF g
<1>3. CNITypeOK /\ FilesOK'
  BY <1>1 DEF CNIInd, CNITypeOK, FilesOK, files
<1>4. proc[c].fd # 0 /\ Dropping(c) /\ Busy(c) /\ Deleting(c)
  BY <1>1 DEF CNIInd, LockOK, Dropping, Busy, Deleting
<1>5. /\ CNITypeOK' /\ Becomes(c, g) /\ locked'[g.fd] = c
      /\ \A d \in Containers \ {c} : HasLock(d) => locked'[proc[d].fd] = d
  BY <1>1, <1>2, <1>3, <1>4, LocksTaken DEF CNIInd
<1>6. (Fixed(c)' <=> Fixed(c)) /\ (Specific(c)' <=> Specific(c)) /\ Want'[c] = Want[c]
  BY SameSetting
<1>7. proc'[c] = g /\ link'[c] = link[c]
  BY <1>1, <1>5 DEF Becomes, files
<1>8. ~Removing(c)' /\ Dropping(c)' /\ ~Using(c)' /\ ~Naming(c)' /\ ~Making(c)' /\ ~Claims(c)'
  BY <1>1, <1>2, <1>7 DEF Undoing, Removing, Dropping, Using, Naming, Making, Claims
<1>9. HasLock(c)'
  BY <1>2, <1>7 DEF HasLock
<1>10. (OpOK(c) /\ AddressOK(c) /\ LockOK(c))'
  <2>1. OpOK(c)'
    BY <1>1, <1>2, <1>6, <1>7, <1>8 DEF Undoing, OpOK, CNIInd
  <2>2. AddressOK(c)'
    BY <1>2, <1>4, <1>6, <1>7 DEF AddressOK, CNIInd
  <2>3. LockOK(c)'
    BY <1>2, <1>4, <1>5, <1>7, <1>9 DEF LockOK
  <2> QED BY <2>1, <2>2, <2>3
<1>11. DropperOK(c)'
  <2>1. flock[proc[c].ip] = proc[c].fd
    BY <1>1, <1>4 DEF CNIInd, DropperOK
  <2> QED BY <1>1, <1>2, <1>7, <1>8, <2>1 DEF DropperOK
<1>12. (ClaimOK(c) /\ UserOK(c) /\ NamerOK(c))'
  BY <1>2, <1>7, <1>8 DEF Undoing, ClaimOK, UserOK, NamerOK
<1> QED BY <1>1, <1>2, <1>4, <1>5, <1>8, <1>10, <1>11, <1>12, QuietStep

\* The links of an endpoint are counted.
LEMMA CountLinksKeeps ==
    ASSUME CNIInd, UNCHANGED cniSetting, NEW c \in Containers, CountLinks(c)
    PROVE  CNIInd'
<1> DEFINE g == [proc[c] EXCEPT !.pc = "stat"]
           ip == proc[c].ip
<1>1. UNCHANGED <<files, flock, ipam, creates>> /\ proc[c].pc = "drop"
  BY DEF CountLinks
<1>2. CNITypeOK /\ FilesOK' /\ proc[c] \in Proc
  BY <1>1, ProcType DEF CNIInd, CNITypeOK, FilesOK, files
<1>3. CASE References(ip) # {}
  BY <1>1, <1>2, <1>3, RestingStates, RestStep DEF CountLinks
<1>4. CASE References(ip) = {}
  <2>1. proc' = [proc EXCEPT ![c] = g] /\ UNCHANGED locked
    BY <1>4 DEF CountLinks, ProcGoto
  <2>2. /\ g \in Proc /\ g.pc = "stat" /\ g.op = proc[c].op
        /\ g.fd = proc[c].fd /\ g.ip = proc[c].ip /\ g.hook = proc[c].hook
    BY <1>2 DEF Proc, PCs
  <2> HIDE DEF g
  <2>3. /\ Dropping(c) /\ Busy(c) /\ Deleting(c) /\ HasLock(c) /\ proc[c].op \in {"delete", "remove"}
        /\ locked[proc[c].fd] = c /\ flock[ip] = proc[c].fd
    BY <1>1 DEF CNIInd, OpOK, LockOK, DropperOK, Dropping, Busy, Deleting, HasLock
  <2>4. \A d \in Containers : link[d] # ip
    BY <1>4 DEF References
  <2>5. /\ CNITypeOK' /\ Becomes(c, g)
        /\ \A d \in Containers : HasLock(d) => locked'[proc[d].fd] = d
    BY <1>2, <2>1, <2>2, LocksStay DEF CNIInd
  <2>6. proc'[c] = g /\ link' = link /\ flock' = flock /\ locked' = locked
    BY <1>1, <2>1, <2>5 DEF Becomes, files
  <2>7. (Fixed(c)' <=> Fixed(c)) /\ (Specific(c)' <=> Specific(c)) /\ Want'[c] = Want[c]
    BY SameSetting
  <2>8. /\ ~Removing(c)' /\ ~Undoing(c)' /\ Dropping(c)' /\ ~Using(c)' /\ HasLock(c)' /\ ~Claims(c)'
        /\ ~Naming(c)' /\ ~Making(c)'
    BY <2>2, <2>3, <2>6 DEF Removing, Undoing, Dropping, Using, HasLock, Claims, Naming, Making
  <2>9. OpOK(c)'
    BY <2>2, <2>3, <2>6, <2>7, <2>8 DEF OpOK, CNIInd
  <2>10. AddressOK(c)'
    BY <2>2, <2>3, <2>6, <2>7 DEF AddressOK, CNIInd
  <2>11. LockOK(c)'
    BY <2>2, <2>3, <2>6, <2>8 DEF LockOK, CNIInd
  <2>12. DropperOK(c)'
    BY <2>2, <2>3, <2>4, <2>6, <2>8 DEF DropperOK
  <2>13. (ClaimOK(c) /\ UserOK(c) /\ NamerOK(c))'
    BY <2>2, <2>6, <2>8 DEF ClaimOK, UserOK, NamerOK
  <2> QED BY <1>1, <2>2, <2>3, <2>5, <2>8, <2>9, <2>10, <2>11, <2>12, <2>13, QuietStep
<1> QED BY <1>3, <1>4

\* An endpoint without references and tenant is deleted: nobody else is about to use it.
LEMMA CountTenantKeeps ==
    ASSUME CNIInd, UNCHANGED cniSetting, NEW c \in Containers, CountTenant(c)
    PROVE  CNIInd'
<1> DEFINE g == [proc[c] EXCEPT !.pc = "rmtenant"]
           ip == proc[c].ip
<1>1. UNCHANGED <<files, flock, ipam, creates>> /\ proc[c].pc = "stat"
  BY DEF CountTenant
<1>2. CNITypeOK /\ FilesOK' /\ proc[c] \in Proc
  BY <1>1, ProcType DEF CNIInd, CNITypeOK, FilesOK, files
<1>3. CASE tenant[ip] # NoContainer
  BY <1>1, <1>2, <1>3, RestingStates, RestStep DEF CountTenant
<1>4. CASE tenant[ip] = NoContainer
  <2>1. proc' = [proc EXCEPT ![c] = g] /\ UNCHANGED locked
    BY <1>4 DEF CountTenant, ProcGoto
  <2>2. /\ g \in Proc /\ g.pc = "rmtenant" /\ g.op = proc[c].op
        /\ g.fd = proc[c].fd /\ g.ip = proc[c].ip /\ g.hook = proc[c].hook
    BY <1>2 DEF Proc, PCs
  <2> HIDE DEF g
  <2>3. /\ Dropping(c) /\ Busy(c) /\ Deleting(c) /\ HasLock(c)
        /\ locked[proc[c].fd] = c /\ flock[ip] = proc[c].fd /\ ip \in IPs
    BY <1>1 DEF CNIInd, OpOK, AddressOK, LockOK, DropperOK, Dropping, Busy, Deleting, HasLock
  <2>4. tenant[ip] = NoContainer /\ \A d \in Containers : link[d] # ip
    BY <1>1, <1>4, NullAssumption DEF CNIInd, DropperOK
  <2>5. ASSUME NEW d \in Containers \ {c}, Busy(d) PROVE proc[d].ip # ip
    <3>1. CASE Using(d)
      BY <2>4, <3>1, NullAssumption DEF CNIInd, UserOK
    <3>2. CASE Dropping(d)
      <4>1. Deleting(d)
        BY <3>2 DEF Dropping, Removing, Deleting, CNIInd, OpOK
      <4> QED BY <2>3, <4>1 DEF CNIInd, Apart
    <3>3. CASE proc[d].pc = "occupy" /\ ~Specific(d)
      BY <2>4, <3>3 DEF CNIInd, UserOK
    <3>4. CASE proc[d].pc = "occupy" /\ Specific(d)
      <4>1. Naming(d) /\ HasLock(d)
        BY <3>4 DEF CNIInd, OpOK, Naming, HasLock
      <4>2. locked[proc[d].fd] = d /\ proc[d].ip = Want[d]
        BY <3>4, <4>1 DEF CNIInd, LockOK, AddressOK, Busy
      <4>3. flock[Want[d]] = proc[d].fd
        BY <3>4, <4>1 DEF CNIInd, NamerOK
      <4> QED BY <2>3, <4>2, <4>3
    <3> QED BY <2>5, <3>1, <3>2, <3>3, <3>4 DEF Busy
  <2>6. /\ CNITypeOK' /\ Becomes(c, g)
        /\ \A d \in Containers : HasLock(d) => locked'[proc[d].fd] = d
    BY <1>2, <2>1, <2>2, LocksStay DEF CNIInd
  <2>7. proc'[c] = g /\ link' = link /\ tenant' = tenant /\ flock' = flock /\ locked' = locked
    BY <1>1, <2>1, <2>6 DEF Becomes, files
  <2>8. (Fixed(c)' <=> Fixed(c)) /\ (Specific(c)' <=> Specific(c)) /\ Want'[c] = Want[c]
    BY SameSetting
  <2>10. proc[c].op \in {"delete", "remove"}
    BY <1>1 DEF CNIInd, OpOK
  <2>9. Removing(c)' /\ ~Undoing(c)' /\ Dropping(c)' /\ ~Using(c)' /\ HasLock(c)' /\ ~Claims(c)'
    BY <2>2, <2>7, <2>10 DEF Removing, Undoing, Dropping, Using, HasLock, Claims
  <2>11. ~Naming(c)' /\ ~Making(c)'
    BY <2>2, <2>7, <2>10 DEF Naming, Making
  <2>12. (OpOK(c) /\ AddressOK(c) /\ LockOK(c))'
    <3>1. OpOK(c)'
      BY <2>2, <2>7, <2>8, <2>9, <2>10 DEF OpOK, CNIInd
    <3>2. AddressOK(c)'
      BY <2>2, <2>3, <2>7, <2>8 DEF AddressOK, CNIInd
    <3>3. LockOK(c)'
      BY <2>2, <2>3, <2>7, <2>9 DEF LockOK, CNIInd
    <3> QED BY <3>1, <3>2, <3>3
  <2>13. DropperOK(c)'
    <3>1. \A d \in Containers \ {c} : (Busy(d)' <=> Busy(d)) /\ proc'[d] = proc[d]
      BY <2>6, OthersStay DEF Becomes
    <3> QED BY <2>2, <2>3, <2>4, <2>5, <2>7, <2>9, <3>1 DEF DropperOK
  <2>14. (ClaimOK(c) /\ UserOK(c) /\ NamerOK(c))'
    BY <2>2, <2>7, <2>9, <2>11 DEF ClaimOK, UserOK, NamerOK
  <2> QED BY <1>1, <2>2, <2>3, <2>6, <2>9, <2>10, <2>11, <2>12, <2>13, <2>14, QuietStep
<1> QED BY <1>3, <1>4

\* Nothing of an address but ip changes.
OnlyAt(ip) ==
    \A jp \in IPs \ {ip} : /\ owner'[jp] = owner[jp] /\ tenant'[jp] = tenant[jp]
                           /\ netns'[jp] = netns[jp] /\ flock'[jp] = flock[jp]
                           /\ ipam'[jp] = ipam[jp]

\* What a step does to ip is no trouble for d.
AtEase(d, ip) ==
    /\ Claims(d) /\ proc[d].ip = ip => ipam'[ip] = d
    /\ Using(d) /\ proc[d].ip = ip => tenant'[ip] = d
    /\ Using(d) /\ proc[d].ip = ip /\ proc[d].pc # "prepared" => Mounted(ip)'
    /\ Naming(d) /\ Want[d] = ip => NamerOK(d)'
    /\ Dropping(d) /\ proc[d].ip = ip => DropperOK(d)'

\* A step that changes the files, the lock file or the allocation of its address ip, or
\* c's link to it, keeps the invariant if c, ip and those who work on ip fit.
LEMMA FileStep ==
    ASSUME CNIInd, UNCHANGED cniSetting, CNITypeOK', AllLead',
           NEW c \in Containers, NEW g, Becomes(c, g),
           NEW ip \in IPs, OnlyAt(ip), Busy(c)' => g.ip = ip,
           g.hook /\ g.pc \in {"made", "owner", "file", "mount", "connect", "tenant"} => g.ip = ip,
           g.op = "start" => g.ip = ip,
           link'[c] \in {link[c], ip, NoIP}, \A d \in Containers \ {c} : link'[d] = link[d],
           \A d \in Containers \ {c} : HasLock(d) => locked'[proc[d].fd] = d,
           (OpOK(c) /\ AddressOK(c) /\ LockOK(c))',
           (ClaimOK(c) /\ UserOK(c) /\ NamerOK(c) /\ DropperOK(c))',
           \A d \in Containers \ {c} : AtEase(d, ip),
           FreshOK(ip)', MakingOK(ip)',
           Making(c)' => Making(c) \/ \A d \in Containers \ {c} : ~Naming(d),
           Naming(c)' => Naming(c) \/ \A d \in Containers \ {c} : ~Making(d),
           Deleting(c)' => Deleting(c) \/ \A d \in Containers \ {c} : ~Deleting(d)
    PROVE  CNIInd'
<1>1. ASSUME NEW d \in Containers \ {c}
      PROVE  /\ Removing(d)' <=> Removing(d)
             /\ Undoing(d)' <=> Undoing(d)
             /\ Dropping(d)' <=> Dropping(d)
             /\ Using(d)' <=> Using(d)
             /\ Busy(d)' <=> Busy(d)
             /\ Naming(d)' <=> Naming(d)
             /\ HasLock(d)' <=> HasLock(d)
             /\ Claims(d)' <=> Claims(d)
             /\ Deleting(d)' <=> Deleting(d)
             /\ Making(d)' <=> Making(d)
             /\ proc'[d] = proc[d] /\ link'[d] = link[d]
  BY OthersStay DEF Becomes
<1> USE DEF AtEase
<1>2. \A d \in Containers : /\ Fixed(d)' <=> Fixed(d)
                            /\ Specific(d)' <=> Specific(d)
                            /\ Want'[d] = Want[d] /\ Want[d] \in IPs
  BY SameSetting, SettingType
<1>3. \A d \in Containers \ {c} : OpOK(d)' /\ AddressOK(d)' /\ LockOK(d)'
  BY <1>1, StayOK DEF CNIInd, LockOK
<1>4. ASSUME NEW d \in Containers \ {c} PROVE (ClaimOK(d) /\ UserOK(d) /\ NamerOK(d))'
  <2>1. ClaimOK(d) /\ UserOK(d) /\ NamerOK(d) /\ AddressOK(d)
    BY DEF CNIInd
  <2>2. ClaimOK(d)'
    <3>1. Claims(d) => proc[d].ip \in IPs
      BY <2>1 DEF AddressOK, Claims
    <3> QED BY <1>1, <1>2, <2>1, <3>1 DEF ClaimOK, OnlyAt
  <2>3. UserOK(d)'
    <3>1. Using(d) => proc[d].ip \in IPs
      BY <2>1 DEF AddressOK, Busy
    <3> QED BY <1>1, <1>2, <2>1, <3>1 DEF UserOK, Mounted, OnlyAt
  <2>4. NamerOK(d)'
    <3>1. CASE Want[d] # ip
      BY <1>1, <1>2, <2>1, <3>1 DEF NamerOK, OnlyAt
    <3>2. CASE Want[d] = ip /\ ~Naming(d)
      BY <1>1, <3>2 DEF NamerOK
    <3> QED BY <3>1, <3>2
  <2> QED BY <2>2, <2>3, <2>4
<1>5. ASSUME NEW d \in Containers \ {c} PROVE DropperOK(d)'
  <2>1. DropperOK(d) /\ AddressOK(d)
    BY DEF CNIInd
  <2>2. CASE ~Dropping(d)
    BY <1>1, <2>2 DEF DropperOK, Dropping, Removing
  <2>3. CASE Dropping(d) /\ proc[d].ip # ip
    <3>1. proc[d].ip \in IPs \ {ip}
      BY <2>1, <2>3 DEF AddressOK, Busy
    <3>2. /\ tenant'[proc[d].ip] = tenant[proc[d].ip] /\ flock'[proc[d].ip] = flock[proc[d].ip]
          /\ owner'[proc[d].ip] = owner[proc[d].ip]
      BY <3>1 DEF OnlyAt
    <3>3. Removing(d) => \A e \in Containers : link'[e] # proc[d].ip
      BY <2>1, <3>1, <1>1, NullAssumption DEF DropperOK
    <3>4. Removing(d) => \A e \in Containers \ {d} : Busy(e)' => proc'[e].ip # proc[d].ip
      BY <1>1, <2>1, <3>1 DEF DropperOK, Becomes
    <3>5. proc[d].pc = "stat" =>
             \A e \in Containers : link'[e] = proc[d].ip => tenant'[proc[d].ip] = e
      BY <1>1, <2>1, <3>1, <3>2, NullAssumption DEF DropperOK
    <3> QED BY <1>1, <2>1, <3>2, <3>3, <3>4, <3>5 DEF DropperOK
  <2> QED BY <2>2, <2>3
<1>6. ASSUME NEW jp \in IPs \ {ip}, Fresh(jp)' PROVE Fresh(jp)
  <2>0. ipam'[jp] = ipam[jp]
    BY DEF OnlyAt
  <2>1. CASE ipam[jp] = c
    BY <1>2, <1>6, <2>0, <2>1, NullAssumption DEF Fresh, Becomes
  <2>2. CASE ipam[jp] \in Containers \ {c}
    BY <1>1, <1>2, <1>6, <2>0, <2>2 DEF Fresh
  <2>3. CASE ipam[jp] = NoContainer
    BY <2>3 DEF Fresh
  <2> QED BY <2>1, <2>2, <2>3 DEF CNIInd, CNITypeOK
<1>7. ASSUME NEW jp \in IPs \ {ip}, Unused(jp) PROVE Unused(jp)'
  BY <1>1, <1>7, NullAssumption DEF Unused, OnlyAt, Becomes
<1>8. ASSUME NEW jp \in IPs \ {ip}
      PROVE  \A d \in Containers : link'[d] = jp => link[d] = jp
  BY <1>1, NullAssumption
<1>9. ASSUME NEW jp \in IPs PROVE FreshOK(jp)'
  <2>1. CASE jp = ip
    BY <2>1
  <2>2. CASE jp # ip
    <3>1. FreshOK(jp)
      BY DEF CNIInd
    <3>2. netns'[jp] = netns[jp] /\ owner'[jp] = owner[jp]
      BY <2>2 DEF OnlyAt
    <3> QED BY <1>6, <1>7, <1>8, <2>2, <3>1, <3>2 DEF FreshOK
  <2> QED BY <2>1, <2>2
<1>10. ASSUME NEW jp \in IPs PROVE MakingOK(jp)'
  <2>1. CASE jp = ip
    BY <2>1
  <2>2. CASE jp # ip
    <3>1. SUFFICES ASSUME NEW x \in Containers, Makes(x, jp)' PROVE MakingOK(jp)'
      BY DEF MakingOK
    <3>2. x # c /\ Makes(x, jp)
      BY <1>1, <2>2, <3>1, NullAssumption DEF Undoing, Makes, Becomes, OnlyAt
    <3>3. MakingOK(jp) /\ Unused(jp)
      BY <3>2 DEF CNIInd, MakingOK
    <3>4. Unused(jp)' /\ netns'[jp] = netns[jp]
      BY <1>7, <2>2, <3>3 DEF OnlyAt
    <3>5. \A y \in Containers : Makes(y, jp)' => y = x
      BY <3>1 DEF Makes
    <3>6. proc'[x] = proc[x] /\ link'[x] = link[x]
      BY <1>1, <3>2
    <3>7. \A d \in Containers : link'[d] = jp <=> (d = x /\ proc[x].pc \in {"tenant", "undo"})
      BY <1>8, <2>2, <3>2, <3>3, <3>6 DEF MakingOK
    <3> QED BY <3>2, <3>3, <3>4, <3>5, <3>6, <3>7 DEF MakingOK, Mounted
  <2> QED BY <2>1, <2>2
<1>11. ASSUME NEW d \in Containers, NEW e \in Containers PROVE Apart(d, e)'
  <2>1. Apart(d, e) /\ Apart(e, d)
    BY DEF CNIInd
  <2>2. CASE d # c /\ e # c
    BY <1>1, <2>1, <2>2 DEF Apart
  <2>3. CASE d = e
    BY <2>3 DEF Apart
  <2>4. CASE d = c /\ e # c
    BY <1>1, <2>1, <2>4 DEF Apart
  <2>5. CASE d # c /\ e = c
    BY <1>1, <2>1, <2>5 DEF Apart
  <2> QED BY <2>2, <2>3, <2>4, <2>5
<1> QED BY <1>3, <1>4, <1>5, <1>9, <1>10, <1>11 DEF CNIInd

\* runc deletes a container; the stop hook of one without a fixed IP gives its address back.
LEMMA HandleDeleteKeeps ==
    ASSUME CNIInd, UNCHANGED cniSetting, NEW c \in Containers, HandleDelete(c)
    PROVE  CNIInd'
<1> DEFINE g == [proc[c] EXCEPT !.pc = "get", !.op = "delete"]
<1>1. /\ proc' = [proc EXCEPT ![c] = g] /\ UNCHANGED <<files, flock, locked, creates>>
      /\ proc[c].pc = "running"
  BY DEF HandleDelete, locks
<1>2. CNITypeOK /\ proc[c].fd = 0
  BY <1>1 DEF CNIInd, LockOK, HasLock, Removing, OpOK, Naming
<1>3. g \in Proc /\ Resting(c, g)
  BY <1>2, RestingStates DEF StartFails, Resting
<1>4. g.pc = "get" /\ g.op = "delete" /\ g.fd = 0
  BY <1>2, ProcType DEF Proc
<1> HIDE DEF g
<1>5. OnlyFrees(c)
  <2>1. CASE proc[c].hook /\ ~Fixed(c)
    BY <2>1 DEF HandleDelete, OnlyFrees
  <2>2. CASE ~(proc[c].hook /\ ~Fixed(c))
    BY <2>2 DEF HandleDelete, OnlyFrees
  <2> QED BY <2>1, <2>2
<1>6. ipam' \in [IPs -> Containers \cup {NoContainer}]
  BY <1>2 DEF HandleDelete, CNITypeOK
<1>7. FilesOK'
  BY <1>1, <1>2, <1>6 DEF CNITypeOK, FilesOK, files
<1>8. /\ CNITypeOK' /\ Becomes(c, g)
      /\ \A d \in Containers : HasLock(d) => locked'[proc[d].fd] = d
  BY <1>1, <1>2, <1>3, <1>7, LocksStay DEF CNIInd
<1>9. /\ (OpOK(c) /\ AddressOK(c) /\ LockOK(c))'
      /\ (ClaimOK(c) /\ UserOK(c) /\ NamerOK(c) /\ DropperOK(c))'
      /\ ~Busy(c)' /\ ~Making(c)' /\ ~Naming(c)' /\ ~Deleting(c)'
  BY <1>1, <1>3, <1>8, RestingFits DEF Resting, files
<1> QED BY <1>1, <1>4, <1>5, <1>8, <1>9, FreeingStep

\* Who works on an endpoint, uses it or has its tenancy works on one that is made.
LEMMA BusyStands ==
    ASSUME CNIInd, NEW ip \in IPs,
           \/ \E c \in Containers : Busy(c) /\ proc[c].ip = ip
           \/ tenant[ip] \in Containers
    PROVE  ~Fresh(ip) /\ \A x \in Containers : ~Makes(x, ip)
BY DEF CNIInd, FreshOK, MakingOK, Unused

\* It stays made as long as the address is allocated.
LEMMA StillStands ==
    ASSUME UNCHANGED cniSetting, CNITypeOK, NEW ip \in IPs, ipam'[ip] = ipam[ip],
           ~Fresh(ip), \A x \in Containers : ~Makes(x, ip),
           NEW c \in Containers, NEW g, Becomes(c, g),
           g.hook /\ g.ip = ip => g.pc \notin {"made", "owner", "file", "mount", "connect", "tenant"},
           g.op # "start"
    PROVE  FreshOK(ip)' /\ MakingOK(ip)'
<1>1. ipam[ip] \in Containers /\ Fixed(ipam[ip])
  BY DEF Fresh, CNITypeOK
<1>2. Fixed(ipam[ip])' <=> Fixed(ipam[ip])
  BY SameSetting DEF Fixed, KindOf
<1>3. ~Fresh(ip)'
  <2>1. CASE ipam[ip] = c
    BY <1>1, <1>2, <2>1, NullAssumption DEF Fresh, Becomes, Fixed, KindOf
  <2>2. CASE ipam[ip] # c
    BY <1>1, <1>2, <2>2, NullAssumption DEF Fresh, Becomes, Fixed, KindOf
  <2> QED BY <2>1, <2>2
<1>4. \A x \in Containers : ~Makes(x, ip)'
  BY DEF Undoing, Makes, Becomes
<1> QED BY <1>3, <1>4 DEF FreshOK, MakingOK

\* c creates the tenant file of the endpoint that it found, which had none.
LEMMA TenancyTaken ==
    ASSUME CNIInd, UNCHANGED <<cniSetting, owner, netns, link, flock, ipam>>,
           NEW c \in Containers, proc[c].pc = "occupy",
           NEW ip \in IPs, ip = proc[c].ip, tenant[ip] = NoContainer,
           NEW d \in Containers \ {c}, proc'[d] = proc[d]
    PROVE  AtEase(d, ip)
<1>1. Using(d) => proc[d].ip # ip
  BY NullAssumption DEF CNIInd, UserOK
<1>2. ASSUME Dropping(d), proc[d].ip = ip PROVE DropperOK(d)'
  <2>1. ~Removing(d) /\ DropperOK(d)
    BY <1>2 DEF CNIInd, DropperOK, Busy
  <2>2. proc[d].pc = "stat" => \A e \in Containers : link[e] # ip
    BY <1>2, <2>1, NullAssumption DEF DropperOK
  <2>3. (Dropping(d)' <=> Dropping(d)) /\ ~Removing(d)'
    BY <2>1, OthersStay
  <2> QED BY <1>2, <2>1, <2>2, <2>3 DEF DropperOK
<1>3. ASSUME Naming(d) PROVE NamerOK(d)'
  <2>1. NamerOK(d) /\ (Naming(d)' <=> Naming(d)) /\ Want'[d] = Want[d]
    BY OthersStay, SameSetting DEF CNIInd
  <2> QED BY <2>1 DEF NamerOK
<1>4. Claims(d) /\ proc[d].ip = ip => ipam'[ip] = d
  BY DEF CNIInd, ClaimOK
<1> QED BY <1>1, <1>2, <1>3, <1>4 DEF AtEase

\* BorrowNetEndpoint: nobody removes the endpoint meanwhile, since who comes by its link is
\* counted and who comes by name has the lock.
LEMMA BorrowKeeps ==
    ASSUME CNIInd, UNCHANGED cniSetting, NEW c \in Containers, Borrow(c)
    PROVE  CNIInd'
<1>0. PICK ip : ip = proc[c].ip
  OBVIOUS
<1> DEFINE g == Prepared(c, ip, FALSE)
<1>1. /\ UNCHANGED <<owner, netns, link, flock, ipam, creates>> /\ proc[c].pc = "occupy"
  BY DEF Borrow
<1>2. CNITypeOK /\ Busy(c) /\ ip \in IPs /\ (Specific(c) => ip = Want[c])
      /\ (Specific(c) \/ link[c] = ip)
  BY <1>0, <1>1 DEF CNIInd, AddressOK, Busy, UserOK
<1>3. CASE UNCHANGED tenant /\ Return(c, Idle)
  BY <1>1, <1>2, <1>3, RestingStates, RestStep DEF files
<1>5. CASE tenant[ip] = NoContainer /\ tenant' = [tenant EXCEPT ![ip] = "empty"] /\ Return(c, Idle)
  <2>1. PICK h : h = Idle
    OBVIOUS
  <2>2. /\ Resting(c, h) /\ h \in Proc /\ h.pc = "stopped" /\ h.op = "none" /\ ~h.hook /\ h.fd = 0
    BY <1>2, <2>1, RestingStates DEF Idle, Proc, PCs
  <2>3. /\ tenant' \in [IPs -> Containers \cup {NoContainer, "empty"}]
        /\ \A jp \in IPs \ {ip} : tenant'[jp] = tenant[jp]
    BY <1>2, <1>5 DEF CNITypeOK
  <2>4. FilesOK' /\ OnlyAt(ip)
    BY <1>1, <1>2, <2>3 DEF CNITypeOK, FilesOK, OnlyAt
  <2>5. /\ CNITypeOK' /\ Becomes(c, h)
        /\ \A d \in Containers \ {c} : HasLock(d) => locked'[proc[d].fd] = d
    BY <1>2, <1>5, <2>1, <2>2, <2>4, LocksReturn DEF CNIInd
  <2>6. proc'[c] = h /\ \A d \in Containers \ {c} : proc'[d] = proc[d]
    BY <2>5 DEF Becomes
  <2>7. /\ (OpOK(c) /\ AddressOK(c) /\ LockOK(c))'
        /\ (ClaimOK(c) /\ UserOK(c) /\ NamerOK(c) /\ DropperOK(c))'
        /\ ~Busy(c)' /\ ~Making(c)' /\ ~Naming(c)' /\ ~Deleting(c)'
    BY <1>1, <2>2, <2>5, RestingFits DEF Resting
  <2>8. ~Fresh(ip) /\ \A x \in Containers : ~Makes(x, ip)
    BY <1>0, <1>2, BusyStands
  <2>9. FreshOK(ip)' /\ MakingOK(ip)'
    BY <1>1, <1>2, <2>2, <2>5, <2>8, StillStands
  <2>10. ASSUME NEW d \in Containers \ {c} PROVE AtEase(d, ip)
    BY <1>0, <1>1, <1>2, <1>5, <2>6, TenancyTaken
  <2>11. AllLead'
    BY <1>1 DEF CNIInd, AllLead, LinkLeads, Mounted
  <2> QED BY <1>1, <1>2, <2>2, <2>4, <2>5, <2>7, <2>9, <2>10, <2>11, FileStep
<1>4. CASE Occupied(c, ip) /\ Return(c, g)
  <2>1. tenant[ip] = NoContainer /\ tenant' = [tenant EXCEPT ![ip] = c] /\ Return(c, g)
    BY <1>4 DEF Occupied
  <2>2. g \in Proc /\ g.pc = "prepared" /\ g.op = "none" /\ g.ip = ip /\ ~g.hook /\ g.fd = 0
    BY <1>2 DEF Prepared, Idle, Proc, PCs
  <2> HIDE DEF g
  <2>3. FilesOK'
    <3>1. tenant' \in [IPs -> Containers \cup {NoContainer, "empty"}]
      BY <1>2, <2>1 DEF CNITypeOK
    <3> QED BY <1>1, <1>2, <3>1 DEF CNITypeOK, FilesOK
  <2>4. /\ CNITypeOK' /\ Becomes(c, g)
        /\ \A d \in Containers \ {c} : HasLock(d) => locked'[proc[d].fd] = d
    BY <1>2, <2>1, <2>2, <2>3, LocksReturn DEF CNIInd
  <2>5. proc'[c] = g /\ \A d \in Containers \ {c} : proc'[d] = proc[d]
    BY <2>4 DEF Becomes
  <2>6. (Fixed(c)' <=> Fixed(c)) /\ (Specific(c)' <=> Specific(c)) /\ Want'[c] = Want[c]
    BY SameSetting
  <2>7. tenant'[ip] = c /\ \A jp \in IPs \ {ip} : tenant'[jp] = tenant[jp]
    BY <1>2, <2>1 DEF CNITypeOK
  <2>8. ~Removing(c)' /\ ~Dropping(c)' /\ Using(c)' /\ ~Deleting(c)' /\ ~Claims(c)' /\ ~Naming(c)'
    BY <2>2, <2>5 DEF Removing, Dropping, Using, Deleting, Claims, Naming
  <2>9. ~HasLock(c)' /\ (Making(c)' => Making(c))
    BY <1>1, <2>2, <2>5, <2>6, <2>8 DEF HasLock, Making, Unmade, CNIInd, OpOK
  <2>10. (OpOK(c) /\ AddressOK(c) /\ LockOK(c))'
    <3>1. OpOK(c)'
      BY <2>2, <2>5, <2>8 DEF Undoing, OpOK
    <3>2. AddressOK(c)'
      BY <1>1, <1>2, <2>2, <2>5, <2>6 DEF AddressOK, CNIInd
    <3>3. LockOK(c)'
      BY <2>2, <2>5, <2>9 DEF LockOK
    <3> QED BY <3>1, <3>2, <3>3
  <2>11. (ClaimOK(c) /\ UserOK(c) /\ NamerOK(c) /\ DropperOK(c))'
    BY <1>1, <1>2, <2>2, <2>5, <2>6, <2>7, <2>8 DEF ClaimOK, UserOK, NamerOK, DropperOK
  <2>12. ~Fresh(ip) /\ \A x \in Containers : ~Makes(x, ip)
    BY <1>0, <1>2, BusyStands
  <2>13. FreshOK(ip)' /\ MakingOK(ip)'
    BY <1>1, <1>2, <2>2, <2>4, <2>12, StillStands
  <2>18. AllLead' /\ OnlyAt(ip)
    BY <1>1, <2>7 DEF CNIInd, AllLead, LinkLeads, Mounted, OnlyAt
  <2>19. \A d \in Containers \ {c} : AtEase(d, ip)
    BY <1>0, <1>1, <1>2, <2>1, <2>5, TenancyTaken
  <2> QED BY <1>1, <1>2, <2>2, <2>4, <2>8, <2>9, <2>10, <2>11, <2>13, <2>18, <2>19, FileStep
<1> QED BY <1>0, <1>3, <1>4, <1>5 DEF Borrow, OccupyFails

\* A container d that works on ip, if at all, as before.
LEMMA Undisturbed ==
    ASSUME CNIInd, UNCHANGED cniSetting, NEW d \in Containers, proc'[d] = proc[d],
           NEW ip \in IPs, ipam'[ip] = ipam[ip],
           Using(d) /\ proc[d].ip = ip =>
              tenant'[ip] = tenant[ip] /\ (Mounted(ip) => Mounted(ip)'),
           Naming(d) /\ Want[d] = ip => owner'[ip] = owner[ip] /\ flock'[ip] = flock[ip],
           Dropping(d) => proc[d].ip # ip
    PROVE  AtEase(d, ip)
<1>1. ClaimOK(d) /\ UserOK(d) /\ NamerOK(d)
  BY DEF CNIInd
<1>2. (Naming(d)' <=> Naming(d)) /\ Want'[d] = Want[d]
  BY OthersStay, SameSetting
<1>3. Naming(d) /\ Want[d] = ip => NamerOK(d)'
  BY <1>1, <1>2 DEF NamerOK
<1>4. Claims(d) /\ proc[d].ip = ip => ipam'[ip] = d
  BY <1>1 DEF ClaimOK
<1>5. Using(d) /\ proc[d].ip = ip =>
         tenant'[ip] = d /\ (proc[d].pc # "prepared" => Mounted(ip)')
  BY <1>1 DEF UserOK
<1> QED BY <1>3, <1>4, <1>5 DEF AtEase

\* Where nothing is put or taken, and c does not come to work on it, an address is what
\* it was.
LEMMA StaysAsItWas ==
    ASSUME CNIInd, UNCHANGED cniSetting, NEW ip \in IPs, UNCHANGED <<files, ipam>>,
           NEW c \in Containers, NEW g, Becomes(c, g), Busy(c)' => Busy(c) /\ g.ip = proc[c].ip,
           g.pc \notin {"made", "owner", "file", "mount", "connect", "tenant"}, g.op # "start"
    PROVE  FreshOK(ip)' /\ MakingOK(ip)'
<1> USE DEF files
<1>1. FreshOK(ip) /\ MakingOK(ip) /\ CNITypeOK
  BY DEF CNIInd
<1>2. ASSUME NEW d \in Containers \ {c} PROVE (Busy(d)' <=> Busy(d)) /\ proc'[d] = proc[d]
  BY OthersStay DEF Becomes
<1>3. Unused(ip) => Unused(ip)'
  BY <1>2 DEF Unused, Becomes
<1>4. \A d \in Containers : Fixed(d)' <=> Fixed(d)
  BY SameSetting
<1>5. Fresh(ip)' => Fresh(ip)
  <2>1. CASE ipam[ip] = c
    BY <1>4, <2>1 DEF Fresh, Becomes
  <2>2. CASE ipam[ip] \in Containers \ {c}
    BY <1>2, <1>4, <2>2 DEF Fresh
  <2>3. CASE ipam[ip] = NoContainer
    BY <2>3 DEF Fresh
  <2> QED BY <1>1, <2>1, <2>2, <2>3 DEF CNITypeOK
<1>6. FreshOK(ip)'
  BY <1>1, <1>3, <1>5 DEF FreshOK
<1>7. ASSUME NEW x \in Containers, Makes(x, ip)' PROVE x # c /\ Makes(x, ip) /\ proc'[x] = proc[x]
  BY <1>2, <1>7 DEF Undoing, Makes, Becomes
<1>8. MakingOK(ip)'
  BY <1>1, <1>3, <1>7 DEF MakingOK, Mounted
<1> QED BY <1>6, <1>8

\* GetFlock: the file there is, or a new one that nobody has open.
LEMMA FlockOpened ==
    ASSUME CNITypeOK, NEW c \in Containers, NEW ip \in IPs, OpenFlock(c, ip, "lock")
    PROVE  \E i \in Inodes :
              /\ flock' = [flock EXCEPT ![ip] = i]
              /\ proc' = [proc EXCEPT ![c] = [proc[c] EXCEPT !.fd = i, !.pc = "lock"]]
              /\ flock[ip] # 0 => i = flock[ip]
<1> DEFINE i == IF flock[ip] # 0 THEN flock[ip] ELSE CHOOSE j \in Inodes : j \notin FDs
<1>1. flock[ip] \in Inodes \cup {0}
  BY DEF CNITypeOK
<1>2. (CHOOSE j \in Inodes : j \notin FDs) \in Inodes
  BY InodeLeft
<1>3. i \in Inodes /\ (flock[ip] # 0 => i = flock[ip])
  BY <1>1, <1>2
<1>4. /\ flock' = [flock EXCEPT ![ip] = i]
      /\ proc' = [proc EXCEPT ![c].fd = i, ![c].pc = "lock"]
  BY DEF OpenFlock
<1> HIDE DEF i
<1>5. proc' = [proc EXCEPT ![c] = [proc[c] EXCEPT !.fd = i, !.pc = "lock"]]
  BY <1>4 DEF CNITypeOK
<1> QED BY <1>3, <1>4, <1>5

\* Opening the lock file of ip, to create or to delete.
LEMMA OpenKeeps ==
    ASSUME CNIInd, UNCHANGED <<cniSetting, files, locked, ipam, creates>>,
           NEW c \in Containers, proc[c].pc = "flock", NEW ip \in IPs,
           Naming(c) \/ proc[c].op \in {"delete", "remove"},
           Naming(c) => ip = Want[c], Dropping(c) => ip = proc[c].ip, OpenFlock(c, ip, "lock")
    PROVE  CNIInd'
<1>1. PICK i \in Inodes : /\ flock' = [flock EXCEPT ![ip] = i]
                          /\ proc' = [proc EXCEPT ![c] = [proc[c] EXCEPT !.fd = i, !.pc = "lock"]]
                          /\ flock[ip] # 0 => i = flock[ip]
  BY FlockOpened DEF CNIInd
<1> DEFINE g == [proc[c] EXCEPT !.fd = i, !.pc = "lock"]
<1>2. CNITypeOK /\ proc[c] \in Proc /\ i # 0
  BY ProcType, InodeAssumption DEF CNIInd
<1>3. /\ g \in Proc /\ g.pc = "lock" /\ g.fd = i
      /\ g.op = proc[c].op /\ g.ip = proc[c].ip /\ g.hook = proc[c].hook
      /\ proc' = [proc EXCEPT ![c] = g]
  BY <1>1, <1>2 DEF Proc, PCs
<1> HIDE DEF g
<1>4. proc[c].fd = 0 /\ proc[c].op # "start"
  BY DEF CNIInd, LockOK, HasLock, Removing, OpOK
<1>5. FilesOK' /\ OnlyAt(ip) /\ flock'[ip] = i
  <2>1. flock' \in [IPs -> Inodes \cup {0}] /\ flock'[ip] = i
        /\ \A jp \in IPs \ {ip} : flock'[jp] = flock[jp]
    BY <1>1, <1>2 DEF CNITypeOK
  <2> QED BY <1>2, <2>1 DEF CNITypeOK, FilesOK, OnlyAt, files
<1>6. /\ CNITypeOK' /\ Becomes(c, g)
      /\ \A d \in Containers \ {c} : HasLock(d) => locked'[proc[d].fd] = d
  BY <1>2, <1>3, <1>4, <1>5, LocksStay DEF CNIInd
<1>7. proc'[c] = g /\ link' = link /\ \A d \in Containers \ {c} : proc'[d] = proc[d]
  BY <1>6 DEF Becomes, files
<1>8. (Fixed(c)' <=> Fixed(c)) /\ (Specific(c)' <=> Specific(c)) /\ Want'[c] = Want[c]
  BY SameSetting
<1>9. /\ ~Removing(c)' /\ ~Removing(c) /\ (Dropping(c)' <=> Dropping(c)) /\ ~Using(c)' /\ ~Using(c)
      /\ ~Claims(c)' /\ (Naming(c)' <=> Naming(c)) /\ ~HasLock(c)'
  BY <1>3, <1>7, <1>8 DEF Undoing, Removing, Dropping, Using, Claims, Naming, HasLock
<1>10. /\ Busy(c)' <=> Busy(c)
       /\ Busy(c) => Dropping(c)
       /\ Making(c)' <=> Making(c)
       /\ Deleting(c)' <=> Deleting(c)
  BY <1>3, <1>7, <1>8, <1>9 DEF Busy, Making, Unmade, Deleting
<1>11. OpOK(c)'
  BY <1>3, <1>7, <1>8, <1>9 DEF Undoing, OpOK, CNIInd
<1>12. AddressOK(c)'
  BY <1>3, <1>7, <1>8, <1>10 DEF Undoing, AddressOK, CNIInd
<1>13. LockOK(c)'
  BY <1>2, <1>3, <1>7, <1>9 DEF LockOK
<1>14. (ClaimOK(c) /\ UserOK(c))'
  BY <1>3, <1>7, <1>9 DEF Undoing, ClaimOK, UserOK
<1>15. (NamerOK(c) /\ DropperOK(c))'
  BY <1>3, <1>5, <1>7, <1>8, <1>9 DEF NamerOK, DropperOK
<1>16. ASSUME NEW d \in Containers \ {c} PROVE AtEase(d, ip)
  <2>1. /\ ClaimOK(d) /\ UserOK(d) /\ NamerOK(d) /\ DropperOK(d) /\ LockOK(d) /\ OpOK(d)
    BY DEF CNIInd
  <2>2. /\ Naming(d)' <=> Naming(d)
        /\ Want'[d] = Want[d]
        /\ Dropping(d)' <=> Dropping(d)
        /\ Removing(d)' <=> Removing(d)
        /\ \A e \in Containers \ {c} : (Busy(e)' <=> Busy(e)) /\ proc'[e] = proc[e]
    BY <1>7, OthersStay, SameSetting
  <2>3. Naming(d) /\ Want[d] = ip => NamerOK(d)'
    <3>1. Naming(d) /\ proc[d].pc # "flock" => proc[d].fd # 0
      BY <1>2, <2>1, ProcType DEF LockOK, HasLock, Naming, OpOK, Removing, PCs
    <3> QED BY <1>1, <1>5, <1>7, <2>1, <2>2, <3>1 DEF NamerOK, files
  <2>4. Dropping(d) /\ proc[d].ip = ip => DropperOK(d)'
    <3>1. CASE Dropping(d) /\ proc[d].ip = ip
      <4>1. proc[d].pc \notin {"flock", "rmnetns"} => proc[d].fd # 0
        BY <2>1, <3>1 DEF LockOK, HasLock, Dropping, Removing
      <4>2. proc[d].pc \notin {"flock", "rmnetns"} => flock'[ip] = proc[d].fd
        BY <1>1, <1>5, <2>1, <3>1, <4>1 DEF DropperOK
      <4>3. \A e \in Containers : Busy(e)' => Busy(e) /\ proc'[e].ip = proc[e].ip
        BY <1>3, <1>7, <1>10, <2>2
      <4> QED BY <1>7, <2>1, <2>2, <3>1, <4>2, <4>3 DEF DropperOK, files
    <3> QED BY <3>1
  <2>5. Claims(d) /\ proc[d].ip = ip => ipam'[ip] = d
    BY <2>1 DEF ClaimOK
  <2>6. Using(d) /\ proc[d].ip = ip =>
           tenant'[ip] = d /\ (proc[d].pc # "prepared" => Mounted(ip)')
    BY <2>1 DEF UserOK, Mounted, files
  <2> QED BY <2>3, <2>4, <2>5, <2>6 DEF AtEase
<1>17. FreshOK(ip)' /\ MakingOK(ip)'
  BY <1>3, <1>4, <1>6, <1>10, StaysAsItWas
<1>18. AllLead'
  BY DEF CNIInd, AllLead, LinkLeads, Mounted, files
<1>19. Busy(c)' => g.ip = ip
  BY <1>3, <1>10
<1> QED BY <1>3, <1>4, <1>5, <1>6, <1>7, <1>9, <1>10, <1>11, <1>12, <1>13, <1>14, <1>15, <1>16, <1>17,
           <1>18, <1>19, FileStep

\* GetFlock of HandleCreate.
LEMMA CreateFlockKeeps ==
    ASSUME CNIInd, UNCHANGED cniSetting, NEW c \in Containers, CreateFlock(c)
    PROVE  CNIInd'
<1>1. PICK ip : ip = Want[c]
  OBVIOUS
<1>2. ip \in IPs /\ proc[c].pc = "flock" /\ proc[c].op = "create" /\ OpenFlock(c, ip, "lock")
  BY <1>1, SettingType DEF CreateFlock
<1>3. Naming(c) /\ ~Dropping(c)
  BY <1>2 DEF Naming, Dropping, Removing, CNIInd, OpOK
<1> QED BY <1>1, <1>2, <1>3, OpenKeeps DEF CreateFlock

\* GetFlock of DeleteDanglingNetwork.
LEMMA DropFlockKeeps ==
    ASSUME CNIInd, UNCHANGED cniSetting, NEW c \in Containers, DropFlock(c)
    PROVE  CNIInd'
<1>1. PICK ip : ip = proc[c].ip
  OBVIOUS
<1>2. proc[c].pc = "flock" /\ proc[c].op \in {"delete", "remove"} /\ OpenFlock(c, ip, "lock")
  BY <1>1 DEF DropFlock
<1>3. ~Naming(c) /\ Dropping(c) /\ ip \in IPs
  BY <1>1, <1>2 DEF Naming, Dropping, Busy, CNIInd, AddressOK
<1> QED BY <1>1, <1>2, <1>3, OpenKeeps DEF DropFlock

\* runc creates the container.
LEMMA RuncCreateKeeps ==
    ASSUME CNIInd, UNCHANGED cniSetting, NEW c \in Containers, RuncCreate(c)
    PROVE  CNIInd'
<1>1. UNCHANGED <<files, flock, locked, creates>> /\ proc[c].pc = "prepared"
  BY DEF RuncCreate, locks
<1>2. CNITypeOK /\ proc[c] \in Proc /\ proc[c].op = "none" /\ proc[c].fd = 0
  BY <1>1, ProcType DEF CNIInd, OpOK, LockOK, HasLock, Removing, Naming
<1>3. (Fixed(c)' <=> Fixed(c)) /\ (Specific(c)' <=> Specific(c)) /\ Want'[c] = Want[c]
  BY SameSetting
<1>4. CASE CreateFails(c) /\ UNCHANGED ipam
  <2>1. proc' = [proc EXCEPT ![c] = StartFails(c)]
    BY <1>2, <1>4 DEF CreateFails, StartFails, CNITypeOK
  <2> QED BY <1>1, <1>2, <1>4, <2>1, RestingStates, RestStep
<1>5. CASE ~proc[c].hook /\ Mounted(proc[c].ip) /\ ProcGoto(c, "made") /\ UNCHANGED ipam
  <2> DEFINE g == [proc[c] EXCEPT !.pc = "made"]
  <2>1. /\ proc' = [proc EXCEPT ![c] = g] /\ g \in Proc /\ g.pc = "made" /\ g.op = "none"
        /\ g.ip = proc[c].ip /\ ~g.hook /\ g.fd = 0
    BY <1>2, <1>5 DEF ProcGoto, Proc, PCs
  <2> HIDE DEF g
  <2>2. FilesOK'
    BY <1>1, <1>2, <1>5 DEF CNITypeOK, FilesOK, files
  <2>3. /\ CNITypeOK' /\ Becomes(c, g)
        /\ \A d \in Containers \ {c} : HasLock(d) => locked'[proc[d].fd] = d
    BY <1>1, <1>2, <2>1, <2>2, LocksStay DEF CNIInd
  <2>4. proc'[c] = g /\ link'[c] = link[c]
    BY <1>1, <2>3 DEF Becomes, files
  <2>5. /\ Using(c) /\ Busy(c) /\ tenant[proc[c].ip] = c
        /\ Specific(c) \/ link[c] = proc[c].ip
        /\ proc[c].ip \in IPs /\ (Specific(c) => proc[c].ip = Want[c])
    BY <1>1, <1>5 DEF Using, Busy, CNIInd, UserOK, AddressOK
  <2>6. /\ ~Removing(c)' /\ ~Dropping(c)' /\ Using(c)' /\ Busy(c)' /\ ~Deleting(c)'
        /\ ~Claims(c)' /\ ~Naming(c)'
    BY <2>1, <2>4 DEF Removing, Dropping, Using, Busy, Deleting, Claims, Naming
  <2>7. ~HasLock(c)' /\ (Making(c)' => Making(c))
    BY <1>1, <1>3, <2>1, <2>4, <2>6 DEF HasLock, Making, Unmade
  <2>8. OpOK(c)'
    BY <2>1, <2>4, <2>6 DEF Undoing, OpOK
  <2>9. AddressOK(c)'
    BY <1>3, <2>1, <2>4, <2>5 DEF AddressOK, CNIInd
  <2>10. LockOK(c)'
    BY <2>1, <2>4, <2>7 DEF LockOK
  <2>11. (ClaimOK(c) /\ UserOK(c))'
    BY <1>1, <1>3, <1>5, <2>1, <2>4, <2>5, <2>6 DEF ClaimOK, UserOK, Mounted, files
  <2>12. (NamerOK(c) /\ DropperOK(c))'
    BY <2>1, <2>4, <2>6 DEF NamerOK, DropperOK
  <2> QED BY <1>1, <1>5, <2>1, <2>3, <2>5, <2>6, <2>7, <2>8, <2>9, <2>10, <2>11, <2>12, QuietStep
<1>6. CASE /\ proc[c].hook
           /\ \E ip \in IPs :
                /\ ipam[ip] = NoContainer
                /\ Specific(c) => ip = Want[c]
                /\ ipam' = [ipam EXCEPT ![ip] = c]
                /\ proc' = [proc EXCEPT ![c].pc = "made", ![c].ip = ip]
  <2>1. PICK ip \in IPs : /\ ipam[ip] = NoContainer
                          /\ Specific(c) => ip = Want[c]
                          /\ ipam' = [ipam EXCEPT ![ip] = c]
                          /\ proc' = [proc EXCEPT ![c].pc = "made", ![c].ip = ip]
    BY <1>6
  <2> DEFINE g == [proc[c] EXCEPT !.pc = "made", !.ip = ip]
  <2>2. /\ proc' = [proc EXCEPT ![c] = g] /\ g \in Proc /\ g.pc = "made" /\ g.op = "none"
        /\ g.ip = ip /\ g.hook /\ g.fd = 0
    BY <1>2, <1>6, <2>1 DEF Proc, PCs, CNITypeOK
  <2> HIDE DEF g
  <2>3. /\ ipam' \in [IPs -> Containers \cup {NoContainer}] /\ ipam'[ip] = c
        /\ \A jp \in IPs \ {ip} : ipam'[jp] = ipam[jp]
    BY <1>2, <2>1 DEF CNITypeOK
  <2>4. FilesOK' /\ OnlyAt(ip)
    BY <1>1, <1>2, <2>3 DEF CNITypeOK, FilesOK, OnlyAt, files
  <2>5. /\ CNITypeOK' /\ Becomes(c, g)
        /\ \A d \in Containers \ {c} : HasLock(d) => locked'[proc[d].fd] = d
    BY <1>1, <1>2, <2>2, <2>4, LocksStay DEF CNIInd
  <2>6. proc'[c] = g /\ link' = link /\ \A d \in Containers \ {c} : proc'[d] = proc[d]
    BY <1>1, <2>5 DEF Becomes, files
  <2>7. /\ ~Removing(c)' /\ ~Dropping(c)' /\ ~Using(c)' /\ ~Busy(c)' /\ ~Deleting(c)' /\ ~Naming(c)'
    BY <2>2, <2>6 DEF Removing, Dropping, Using, Busy, Deleting, Naming
  <2>8. ~HasLock(c)' /\ (Making(c)' => Making(c))
    BY <1>1, <1>3, <2>2, <2>6, <2>7 DEF HasLock, Making, Unmade
  <2>9. Fresh(ip) /\ FreshOK(ip) /\ Unused(ip)
    BY <2>1 DEF Fresh, CNIInd, FreshOK
  <2>10. OpOK(c)'
    BY <2>2, <2>6, <2>7 DEF Undoing, OpOK
  <2>11. AddressOK(c)'
    BY <1>3, <2>1, <2>2, <2>6 DEF AddressOK, CNIInd
  <2>12. LockOK(c)'
    BY <2>2, <2>6, <2>8 DEF LockOK
  <2>13. ClaimOK(c)'
    <3>1. Fixed(c) => link[c] = NoIP
      BY <1>1, <1>6 DEF CNIInd, ClaimOK
    <3> QED BY <1>3, <2>2, <2>3, <2>6, <3>1 DEF ClaimOK
  <2>14. (UserOK(c) /\ NamerOK(c) /\ DropperOK(c))'
    BY <2>2, <2>6, <2>7 DEF UserOK, NamerOK, DropperOK
  <2>15. \A d \in Containers \ {c} : Busy(d)' <=> Busy(d)
    BY <2>6, OthersStay
  <2>16. FreshOK(ip)'
    <3>1. Unused(ip)'
      BY <1>1, <2>6, <2>7, <2>9, <2>15 DEF Unused, files
    <3> QED BY <1>1, <2>9, <3>1 DEF FreshOK, files
  <2>17. MakingOK(ip)'
    BY <2>2, <2>3, <2>6 DEF Undoing, MakingOK, Makes
  <2>18. ASSUME NEW d \in Containers \ {c} PROVE AtEase(d, ip)
    <3>1. ClaimOK(d) /\ NamerOK(d)
      BY DEF CNIInd
    <3>2. ~(Claims(d) /\ proc[d].ip = ip)
      BY <2>1, <3>1, NullAssumption DEF ClaimOK
    <3>3. ~(Busy(d) /\ proc[d].ip = ip)
      BY <2>9 DEF Unused
    <3>4. (Naming(d)' <=> Naming(d)) /\ Want'[d] = Want[d]
      BY <2>6, OthersStay, SameSetting
    <3>5. NamerOK(d)'
      BY <1>1, <2>6, <3>1, <3>4 DEF NamerOK, files
    <3> QED BY <3>2, <3>3, <3>5 DEF AtEase, Busy
  <2>19. AllLead'
    BY <1>1 DEF CNIInd, AllLead, LinkLeads, Mounted, files
  <2> QED BY <2>2, <2>4, <2>5, <2>6, <2>7, <2>8, <2>10, <2>11, <2>12, <2>13, <2>14, <2>16, <2>17,
             <2>18, <2>19, FileStep
<1> QED BY <1>4, <1>5, <1>6 DEF RuncCreate

\* HandleStart at work: the address is c's alone.
LEMMA MakerReady ==
    ASSUME CNIInd, NEW c \in Containers, NEW ip, ip = proc[c].ip,
           \/ proc[c].pc \in {"owner", "file", "mount", "tenant"}
           \/ proc[c].pc = "connect" /\ proc[c].op = "start"
           \/ Undoing(c)
    PROVE  /\ ip \in IPs /\ (Specific(c) => ip = Want[c])
           /\ proc[c].op = "start" /\ proc[c].hook /\ Fixed(c) /\ proc[c].fd = 0
           /\ ipam[ip] = c /\ Unused(ip)
           /\ proc[c].pc \notin {"tenant", "undo"} => link[c] = NoIP
           /\ \A d \in Containers : link[d] = ip <=> (d = c /\ proc[c].pc \in {"tenant", "undo"})
           /\ proc[c].pc = "owner" => owner[ip] = NoContainer /\ netns[ip] = "absent"
           /\ proc[c].pc \in {"connect", "tenant", "undo"} => Mounted(ip)
<1>1. /\ proc[c].op = "start" /\ proc[c].hook /\ Fixed(c) /\ proc[c].fd = 0 /\ ip \in IPs
      /\ Specific(c) => ip = Want[c]
  BY DEF CNIInd, OpOK, AddressOK, LockOK, HasLock, Removing, Undoing, Naming
<1>2. /\ Claims(c) /\ ipam[ip] = c
      /\ proc[c].pc \notin {"tenant", "undo"} => link[c] = NoIP
  BY <1>1 DEF Claims, CNIInd, ClaimOK, Undoing
<1>3. FreshOK(ip) /\ MakingOK(ip)
  BY <1>1 DEF CNIInd
<1>4. CASE proc[c].pc = "owner"
  <2>1. Fresh(ip)
    BY <1>1, <1>2, <1>4 DEF Fresh
  <2> QED BY <1>1, <1>2, <1>3, <1>4, <2>1 DEF FreshOK
<1>5. CASE proc[c].pc # "owner"
  <2>1. Makes(c, ip)
    BY <1>1, <1>2, <1>5 DEF Makes
  <2> QED BY <1>1, <1>2, <1>3, <1>5, <2>1 DEF MakingOK
<1> QED BY <1>4, <1>5

\* Nobody else has to do with an address whose endpoint c is making.
LEMMA MakerAlone ==
    ASSUME CNIInd, UNCHANGED cniSetting, NEW c \in Containers, proc[c].op = "start",
           NEW ip \in IPs, ipam[ip] = c, ipam'[ip] = c, Unused(ip),
           NEW d \in Containers \ {c}, proc'[d] = proc[d]
    PROVE  AtEase(d, ip)
<1>1. ~(Busy(d) /\ proc[d].ip = ip)
  BY DEF Unused
<1>2. ~Naming(d)
  BY DEF CNIInd, Apart, Making
<1> QED BY <1>1, <1>2, Undisturbed DEF Busy

\* A step of FSStore.CreateNetEndpoint or ConnectNetEndpoint, or of the clean-up.
LEMMA MakerStep ==
    ASSUME CNIInd, UNCHANGED <<cniSetting, locked, ipam, creates>>,
           NEW c \in Containers, proc[c].op = "start", proc[c].hook, Fixed(c), proc[c].fd = 0,
           NEW ip \in IPs, ipam[ip] = c, Unused(ip), Specific(c) => ip = Want[c],
           NEW g, g \in Proc, proc' = [proc EXCEPT ![c] = g],
           g.pc \in {"file", "mount", "connect", "tenant", "undo", "rmtenant", "rmowner", "rmflock",
                      "rmnetns"},
           g.op = "start", g.hook, g.ip = ip, g.fd = 0,
           FilesOK', OnlyAt(ip), tenant'[ip] \notin Containers,
           link'[c] = IF g.pc \in {"tenant", "undo"} THEN ip ELSE NoIP,
           \A d \in Containers \ {c} : link'[d] = link[d] /\ link[d] # ip,
           g.pc \in {"connect", "tenant", "undo"} => Mounted(ip)'
    PROVE  CNIInd'
<1>1. CNITypeOK
  BY DEF CNIInd
<1>2. /\ CNITypeOK' /\ Becomes(c, g)
      /\ \A d \in Containers \ {c} : HasLock(d) => locked'[proc[d].fd] = d
  BY <1>1, LocksStay DEF CNIInd
<1>3. proc'[c] = g /\ \A d \in Containers \ {c} : proc'[d] = proc[d]
  BY <1>2 DEF Becomes
<1>4. (Fixed(c)' <=> Fixed(c)) /\ (Specific(c)' <=> Specific(c)) /\ Want'[c] = Want[c]
  BY SameSetting
<1>5. /\ ~Removing(c)' /\ ~Dropping(c)' /\ ~Using(c)' /\ ~Busy(c)' /\ ~Deleting(c)' /\ ~Naming(c)'
      /\ ~HasLock(c)' /\ Making(c)
  BY <1>3 DEF Removing, Dropping, Using, Busy, Deleting, Naming, HasLock, Making
<1>6. OpOK(c)'
  BY <1>3, <1>4, <1>5 DEF OpOK
<1>7. AddressOK(c)'
  BY <1>3, <1>4, <1>5 DEF AddressOK
<1>8. LockOK(c)'
  BY <1>3, <1>5 DEF LockOK
<1>9. ClaimOK(c)'
  BY <1>3, <1>4 DEF Undoing, ClaimOK
<1>10. (UserOK(c) /\ NamerOK(c) /\ DropperOK(c))'
  BY <1>3, <1>5 DEF UserOK, NamerOK, DropperOK
<1>11. \A d \in Containers \ {c} : AtEase(d, ip)
  BY <1>3, MakerAlone
<1>12. ~Fresh(ip)'
  BY <1>3, <1>4, NullAssumption DEF Fresh
<1>13. FreshOK(ip)'
  BY <1>12 DEF FreshOK
<1>14. Unused(ip)'
  <2>1. \A d \in Containers \ {c} : Busy(d)' <=> Busy(d)
    BY <1>3, OthersStay
  <2> QED BY <1>3, <1>5, <2>1 DEF Unused
<1>15. MakingOK(ip)'
  <2>1. \A x \in Containers : Makes(x, ip)' => x = c
    BY DEF Makes
  <2>2. \A d \in Containers : link'[d] = ip <=> (d = c /\ g.pc \in {"tenant", "undo"})
    BY NullAssumption
  <2> QED BY <1>3, <1>14, <2>1, <2>2 DEF MakingOK
<1>16. AllLead'
  <2>1. ASSUME NEW d \in Containers \ {c}, link'[d] # NoIP PROVE netns'[link'[d]] \in Containers
    <3>1. link[d] \in IPs \ {ip} /\ Mounted(link[d])
      BY <1>1, <2>1 DEF CNITypeOK, CNIInd, AllLead, LinkLeads
    <3> QED BY <3>1 DEF Mounted, OnlyAt
  <2>2. link'[c] # NoIP => netns'[link'[c]] \in Containers
    BY DEF Mounted
  <2> QED BY <2>1, <2>2 DEF AllLead, LinkLeads, Mounted
<1> QED BY <1>2, <1>5, <1>6, <1>7, <1>8, <1>9, <1>10, <1>11, <1>13, <1>15, <1>16, FileStep

\* A start that failed: what is there of the endpoint stays allocated to c.
LEMMA MakerGivesUp ==
    ASSUME CNIInd, UNCHANGED <<cniSetting, link, locked, ipam, creates>>,
           NEW c \in Containers, proc[c].op = "start", Fixed(c), proc[c].fd = 0,
           NEW ip \in IPs, ipam[ip] = c, Unused(ip),
           NEW g, g = StartFails(c), proc' = [proc EXCEPT ![c] = g],
           FilesOK', OnlyAt(ip), AllLead'
    PROVE  CNIInd'
<1>1. CNITypeOK /\ proc[c] \in Proc
  BY ProcType DEF CNIInd
<1>2. Resting(c, g) /\ g \in Proc /\ g.fd = 0 /\ g.pc = "get" /\ g.op = "delete"
  <2>1. Resting(c, g)
    BY <1>1, RestingStates
  <2>2. g.pc = "get" /\ g.op = "delete"
    BY <1>1 DEF StartFails, Proc
  <2> QED BY <2>1, <2>2 DEF Resting
<1>3. /\ CNITypeOK' /\ Becomes(c, g)
      /\ \A d \in Containers \ {c} : HasLock(d) => locked'[proc[d].fd] = d
  BY <1>1, <1>2, LocksStay DEF CNIInd
<1>4. proc'[c] = g /\ \A d \in Containers \ {c} : proc'[d] = proc[d]
  BY <1>3 DEF Becomes
<1>5. /\ (OpOK(c) /\ AddressOK(c) /\ LockOK(c))'
      /\ (ClaimOK(c) /\ UserOK(c) /\ NamerOK(c) /\ DropperOK(c))'
      /\ ~Busy(c)' /\ ~Making(c)' /\ ~Naming(c)' /\ ~Deleting(c)'
  BY <1>2, <1>3, RestingFits DEF Resting
<1>6. \A d \in Containers \ {c} : AtEase(d, ip)
  BY <1>4, MakerAlone
<1>7. Fixed(c)'
  BY SameSetting
<1>8. ~Fresh(ip)' /\ \A x \in Containers : ~Makes(x, ip)'
  BY <1>2, <1>4, <1>7, NullAssumption DEF Fresh, Makes, Undoing
<1>9. FreshOK(ip)' /\ MakingOK(ip)'
  BY <1>8 DEF FreshOK, MakingOK
<1> QED BY <1>2, <1>3, <1>5, <1>6, <1>9, FileStep

\* The owner file goes.
LEMMA NotCreatedKeeps ==
    ASSUME CNIInd, UNCHANGED <<cniSetting, tenant, link, flock, locked, ipam, creates>>,
           NEW c \in Containers, proc[c].pc \in {"file", "mount"}, NotCreated(c)
    PROVE  CNIInd'
<1>1. PICK ip : ip = proc[c].ip
  OBVIOUS
<1>2. /\ ip \in IPs /\ proc[c].op = "start" /\ Fixed(c) /\ proc[c].fd = 0
      /\ ipam[ip] = c /\ Unused(ip)
  BY <1>1, MakerReady
<1>3. CNITypeOK
  BY DEF CNIInd
<1>4. /\ owner' = [owner EXCEPT ![ip] = NoContainer] /\ UNCHANGED netns
      /\ proc' = [proc EXCEPT ![c] = StartFails(c)]
  BY <1>1 DEF NotCreated
<1>5. /\ owner' \in [IPs -> Containers \cup {NoContainer}]
      /\ \A jp \in IPs \ {ip} : owner'[jp] = owner[jp]
  BY <1>3, <1>4 DEF CNITypeOK
<1>6. FilesOK' /\ OnlyAt(ip)
  BY <1>3, <1>4, <1>5 DEF CNITypeOK, FilesOK, OnlyAt
<1>7. AllLead'
  BY <1>4 DEF CNIInd, AllLead, LinkLeads, Mounted
<1> QED BY <1>2, <1>4, <1>6, <1>7, MakerGivesUp

\* FSStore.CreateNetEndpoint: the owner file,
LEMMA CreateOwnerKeeps ==
    ASSUME CNIInd, UNCHANGED cniSetting, NEW c \in Containers, CreateOwner(c)
    PROVE  CNIInd'
<1>1. PICK ip : ip = proc[c].ip
  OBVIOUS
<1>2. proc[c].pc = "owner" /\ UNCHANGED <<tenant, netns, link, flock, locked, ipam, creates>>
  BY DEF CreateOwner, locks
<1>3. /\ ip \in IPs /\ (Specific(c) => ip = Want[c])
      /\ proc[c].op = "start" /\ proc[c].hook /\ Fixed(c) /\ proc[c].fd = 0
      /\ ipam[ip] = c /\ Unused(ip) /\ tenant[ip] \notin Containers /\ owner[ip] = NoContainer
      /\ link[c] = NoIP /\ \A d \in Containers : link[d] # ip
  BY <1>1, <1>2, MakerReady DEF Unused
<1>4. owner' = [owner EXCEPT ![ip] = c] /\ ProcGoto(c, "file")
  BY <1>1, <1>3 DEF CreateOwner
<1>5. CNITypeOK /\ proc[c] \in Proc
  BY ProcType DEF CNIInd
<1> DEFINE g == [proc[c] EXCEPT !.pc = "file"]
<1>6. /\ g \in Proc /\ proc' = [proc EXCEPT ![c] = g] /\ g.pc = "file" /\ g.op = "start" /\ g.hook
      /\ g.ip = ip /\ g.fd = 0
  BY <1>1, <1>3, <1>4, <1>5 DEF ProcGoto, Proc, PCs
<1> HIDE DEF g
<1>7. /\ owner' \in [IPs -> Containers \cup {NoContainer}]
      /\ \A jp \in IPs \ {ip} : owner'[jp] = owner[jp]
  BY <1>4, <1>5 DEF CNITypeOK
<1>8. FilesOK' /\ OnlyAt(ip)
  BY <1>2, <1>5, <1>7 DEF CNITypeOK, FilesOK, OnlyAt
<1> QED BY <1>2, <1>3, <1>6, <1>8, MakerStep

\* the empty file,
LEMMA CreateFileKeeps ==
    ASSUME CNIInd, UNCHANGED cniSetting, NEW c \in Containers, CreateFile(c)
    PROVE  CNIInd'
<1>1. PICK ip : ip = proc[c].ip
  OBVIOUS
<1>2. proc[c].pc = "file" /\ UNCHANGED <<tenant, link, flock, locked, ipam, creates>>
  BY DEF CreateFile, locks
<1>3. /\ ip \in IPs /\ (Specific(c) => ip = Want[c])
      /\ proc[c].op = "start" /\ proc[c].hook /\ Fixed(c) /\ proc[c].fd = 0
      /\ ipam[ip] = c /\ Unused(ip) /\ tenant[ip] \notin Containers
      /\ link[c] = NoIP /\ \A d \in Containers : link[d] # ip
  BY <1>1, <1>2, MakerReady DEF Unused
<1>4. SUFFICES ASSUME netns' = [netns EXCEPT ![ip] = IF netns[ip] = "absent" THEN "file"
                                                                            ELSE netns[ip]],
                      ProcGoto(c, "mount"), UNCHANGED owner
               PROVE  CNIInd'
  BY <1>1, <1>2, NotCreatedKeeps DEF CreateFile
<1>5. CNITypeOK /\ proc[c] \in Proc
  BY ProcType DEF CNIInd
<1> DEFINE g == [proc[c] EXCEPT !.pc = "mount"]
<1>6. /\ g \in Proc /\ proc' = [proc EXCEPT ![c] = g] /\ g.pc = "mount" /\ g.op = "start" /\ g.hook
      /\ g.ip = ip /\ g.fd = 0
  BY <1>1, <1>3, <1>4, <1>5 DEF ProcGoto, Proc, PCs
<1> HIDE DEF g
<1>7. /\ netns' \in [IPs -> Containers \cup {"absent", "file"}]
      /\ \A jp \in IPs \ {ip} : netns'[jp] = netns[jp]
  BY <1>4, <1>5 DEF CNITypeOK
<1>8. FilesOK' /\ OnlyAt(ip)
  BY <1>2, <1>4, <1>5, <1>7 DEF CNITypeOK, FilesOK, OnlyAt
<1> QED BY <1>2, <1>3, <1>4, <1>6, <1>8, MakerStep

\* and the mount.
LEMMA MountKeeps ==
    ASSUME CNIInd, UNCHANGED cniSetting, NEW c \in Containers, Mount(c)
    PROVE  CNIInd'
<1>1. PICK ip : ip = proc[c].ip
  OBVIOUS
<1>2. proc[c].pc = "mount" /\ UNCHANGED <<tenant, link, flock, locked, ipam, creates>>
  BY DEF Mount, locks
<1>3. /\ ip \in IPs /\ (Specific(c) => ip = Want[c])
      /\ proc[c].op = "start" /\ proc[c].hook /\ Fixed(c) /\ proc[c].fd = 0
      /\ ipam[ip] = c /\ Unused(ip) /\ tenant[ip] \notin Containers
      /\ link[c] = NoIP /\ \A d \in Containers : link[d] # ip
  BY <1>1, <1>2, MakerReady DEF Unused
<1>4. CNITypeOK /\ proc[c] \in Proc
  BY ProcType DEF CNIInd
<1>5. CASE netns' = [netns EXCEPT ![ip] = c] /\ ProcGoto(c, "connect") /\ UNCHANGED owner
  <2> DEFINE g == [proc[c] EXCEPT !.pc = "connect"]
  <2>1. /\ g \in Proc /\ proc' = [proc EXCEPT ![c] = g] /\ g.pc = "connect" /\ g.op = "start"
        /\ g.hook /\ g.ip = ip /\ g.fd = 0
    BY <1>1, <1>3, <1>4, <1>5 DEF ProcGoto, Proc, PCs
  <2> HIDE DEF g
  <2>2. /\ netns' \in [IPs -> Containers \cup {"absent", "file"}] /\ netns'[ip] = c
        /\ \A jp \in IPs \ {ip} : netns'[jp] = netns[jp]
    BY <1>3, <1>4, <1>5 DEF CNITypeOK
  <2>3. FilesOK' /\ OnlyAt(ip) /\ Mounted(ip)'
    BY <1>2, <1>4, <1>5, <2>2 DEF CNITypeOK, FilesOK, OnlyAt, Mounted
  <2> QED BY <1>2, <1>3, <1>5, <2>1, <2>3, MakerStep
<1>6. CASE NotCreated(c)
  BY <1>2, <1>6, NotCreatedKeeps
<1> QED BY <1>1, <1>5, <1>6 DEF Mount

\* OccupyNetEndpoint for the container that made the endpoint.
LEMMA OccupyKeeps ==
    ASSUME CNIInd, UNCHANGED cniSetting, NEW c \in Containers, Occupy(c)
    PROVE  CNIInd'
<1>1. PICK ip : ip = proc[c].ip
  OBVIOUS
<1>2. proc[c].pc = "tenant" /\ UNCHANGED <<owner, netns, link, flock, locked, ipam, creates>>
  BY DEF Occupy, locks
<1>3. /\ ip \in IPs /\ (Specific(c) => ip = Want[c])
      /\ proc[c].op = "start" /\ proc[c].hook /\ Fixed(c) /\ proc[c].fd = 0
      /\ ipam[ip] = c /\ Unused(ip) /\ Mounted(ip)
      /\ link[c] = ip
  BY <1>1, <1>2, MakerReady
<1>4. CNITypeOK /\ proc[c] \in Proc
  BY ProcType DEF CNIInd
<1>5. SUFFICES ASSUME tenant' = [tenant EXCEPT ![ip] = c], proc' = [proc EXCEPT ![c] = Started(c)]
               PROVE  CNIInd'
  <2>1. CASE OccupyFails(ip) /\ ProcGoto(c, "undo")
    <3>1. PICK g : g = [proc[c] EXCEPT !.pc = "undo"]
      OBVIOUS
    <3>2. /\ g \in Proc /\ proc' = [proc EXCEPT ![c] = g] /\ g.pc = "undo" /\ g.op = "start" /\ g.hook
          /\ g.ip = ip /\ g.fd = 0
      BY <1>1, <1>3, <1>4, <2>1, <3>1 DEF ProcGoto, Proc, PCs
    <3>3. /\ tenant' \in [IPs -> Containers \cup {NoContainer, "empty"}] /\ tenant'[ip] \notin Containers
          /\ \A jp \in IPs \ {ip} : tenant'[jp] = tenant[jp]
      BY <1>3, <1>4, <2>1, NullAssumption DEF CNITypeOK, OccupyFails, Unused
    <3>4. FilesOK' /\ OnlyAt(ip) /\ Mounted(ip)'
      BY <1>2, <1>3, <1>4, <3>3 DEF CNITypeOK, FilesOK, OnlyAt, Mounted
    <3>5. link' = link /\ \A d \in Containers \ {c} : link[d] # ip
      BY <1>1, <1>2, MakerReady
    <3>6. link'[c] = IF g.pc \in {"tenant", "undo"} THEN ip ELSE NoIP
      BY <1>3, <3>2, <3>5
    <3> QED BY <1>2, <1>3, <3>2, <3>3, <3>4, <3>5, <3>6, MakerStep
  <2> QED BY <1>1, <2>1 DEF Occupy, Occupied
<1>6. PICK g : g = Started(c)
  OBVIOUS
<1>7. /\ g \in Proc /\ proc' = [proc EXCEPT ![c] = g] /\ g.pc = "running" /\ g.op = "none" /\ g.hook
      /\ g.ip = ip /\ g.fd = 0
  BY <1>1, <1>3, <1>4, <1>5, <1>6 DEF Started, Proc, PCs
<1>8. /\ tenant' \in [IPs -> Containers \cup {NoContainer, "empty"}] /\ tenant'[ip] = c
      /\ \A jp \in IPs \ {ip} : tenant'[jp] = tenant[jp]
  BY <1>3, <1>4, <1>5 DEF CNITypeOK
<1>9. FilesOK' /\ OnlyAt(ip)
  BY <1>2, <1>4, <1>8 DEF CNITypeOK, FilesOK, OnlyAt
<1>10. /\ CNITypeOK' /\ Becomes(c, g)
       /\ \A d \in Containers \ {c} : HasLock(d) => locked'[proc[d].fd] = d
  BY <1>2, <1>3, <1>4, <1>7, <1>9, LocksStay DEF CNIInd
<1>11. proc'[c] = g /\ \A d \in Containers \ {c} : proc'[d] = proc[d]
  BY <1>10 DEF Becomes
<1>12. (Fixed(c)' <=> Fixed(c)) /\ (Specific(c)' <=> Specific(c)) /\ Want'[c] = Want[c]
  BY SameSetting
<1>13. /\ ~Removing(c)' /\ ~Dropping(c)' /\ ~Deleting(c)' /\ ~Naming(c)' /\ ~HasLock(c)'
       /\ ~Making(c)' /\ ~Claims(c)'
  BY <1>3, <1>7, <1>11, <1>12
     DEF Undoing, Removing, Dropping, Deleting, Naming, HasLock, Making, Unmade, Claims
<1>14. OpOK(c)'
  BY <1>7, <1>11, <1>12, <1>13 DEF Undoing, OpOK
<1>15. AddressOK(c)'
  BY <1>2, <1>3, <1>7, <1>11, <1>12 DEF AddressOK
<1>16. LockOK(c)'
  BY <1>7, <1>11, <1>13 DEF LockOK
<1>17. (ClaimOK(c) /\ UserOK(c))'
  BY <1>2, <1>3, <1>7, <1>8, <1>11, <1>13 DEF Undoing, ClaimOK, UserOK, Mounted
<1>18. (NamerOK(c) /\ DropperOK(c))'
  BY <1>7, <1>11, <1>13 DEF NamerOK, DropperOK
<1>19. \A d \in Containers \ {c} : AtEase(d, ip)
  BY <1>2, <1>3, <1>11, MakerAlone
<1>20. ~Fresh(ip)' /\ \A x \in Containers : ~Makes(x, ip)'
  BY <1>2, <1>3, <1>7, <1>11, <1>12, NullAssumption DEF Undoing, Fresh, Makes
<1>21. FreshOK(ip)' /\ MakingOK(ip)'
  BY <1>20 DEF FreshOK, MakingOK
<1>22. AllLead'
  BY <1>2 DEF CNIInd, AllLead, LinkLeads, Mounted
<1> QED BY <1>2, <1>3, <1>7, <1>9, <1>10, <1>13, <1>14, <1>15, <1>16, <1>17, <1>18, <1>19, <1>21,
           <1>22, FileStep

\* ConnectNetEndpoint fails: the container that makes the endpoint deletes it, one that
\* borrowed it is deleted.
LEMMA ConnectFails ==
    ASSUME CNIInd, UNCHANGED <<cniSetting, owner, tenant, netns, link, flock, locked, ipam, creates>>,
           NEW c \in Containers, proc[c].pc = "connect", proc[c].fd = 0,
           proc' = [proc EXCEPT ![c] = IF proc[c].op = "start"
                                       THEN [proc[c] EXCEPT !.pc = "rmtenant"] ELSE StartFails(c)]
    PROVE  CNIInd'
<1>1. PICK ip : ip = proc[c].ip
  OBVIOUS
<1>2. CNITypeOK /\ proc[c] \in Proc
  BY ProcType DEF CNIInd
<1>3. CASE proc[c].op = "start"
  <2>1. /\ ip \in IPs /\ (Specific(c) => ip = Want[c])
        /\ proc[c].hook /\ Fixed(c) /\ ipam[ip] = c /\ Unused(ip)
        /\ link[c] = NoIP /\ \A d \in Containers : link[d] # ip
    BY <1>1, <1>3, MakerReady
  <2>2. PICK g : g = [proc[c] EXCEPT !.pc = "rmtenant"]
    OBVIOUS
  <2>3. /\ g \in Proc /\ proc' = [proc EXCEPT ![c] = g] /\ g.pc = "rmtenant" /\ g.op = "start"
        /\ g.hook /\ g.ip = ip /\ g.fd = 0
    BY <1>1, <1>2, <1>3, <2>1, <2>2 DEF Proc, PCs
  <2>4. FilesOK' /\ OnlyAt(ip) /\ tenant'[ip] \notin Containers
    BY <1>2, <2>1 DEF CNITypeOK, FilesOK, OnlyAt, Unused
  <2> QED BY <1>3, <2>1, <2>3, <2>4, MakerStep
<1>4. CASE proc[c].op # "start"
  BY <1>2, <1>4, RestingStates, RestStep DEF files
<1> QED BY <1>3, <1>4

\* The clean-up of CreateNetEndpoint: nobody else has to do with the address.
LEMMA UndoStep ==
    ASSUME CNIInd, UNCHANGED <<cniSetting, netns, locked, ipam, creates>>,
           NEW c \in Containers, Undoing(c), NEW ip, ip = proc[c].ip,
           NEW g, g = [proc[c] EXCEPT !.pc = g.pc], proc' = [proc EXCEPT ![c] = g],
           g.pc \in {"rmtenant", "rmowner", "rmflock", "rmnetns"},
           owner' \in {owner, [owner EXCEPT ![ip] = NoContainer]},
           tenant' \in {tenant, [tenant EXCEPT ![ip] = NoContainer]},
           flock' \in {flock, [flock EXCEPT ![ip] = 0]},
           link' = [link EXCEPT ![c] = NoIP]
    PROVE  CNIInd'
<1>1. /\ ip \in IPs /\ (Specific(c) => ip = Want[c])
      /\ proc[c].op = "start" /\ proc[c].hook /\ Fixed(c) /\ proc[c].fd = 0
      /\ ipam[ip] = c /\ Unused(ip)
      /\ \A d \in Containers \ {c} : link[d] # ip
  BY MakerReady
<1>2. CNITypeOK /\ proc[c] \in Proc
  BY ProcType DEF CNIInd
<1>3. /\ g \in Proc /\ g.op = "start" /\ g.hook /\ g.ip = ip /\ g.fd = 0
  BY <1>1, <1>2 DEF Proc, PCs
<1>4. /\ owner' \in [IPs -> Containers \cup {NoContainer}]
      /\ \A jp \in IPs \ {ip} : owner'[jp] = owner[jp]
  BY <1>2 DEF CNITypeOK
<1>5. /\ tenant' \in [IPs -> Containers \cup {NoContainer, "empty"}] /\ tenant'[ip] \notin Containers
      /\ \A jp \in IPs \ {ip} : tenant'[jp] = tenant[jp]
  BY <1>1, <1>2, NullAssumption DEF CNITypeOK, Unused
<1>6. /\ flock' \in [IPs -> Inodes \cup {0}]
      /\ \A jp \in IPs \ {ip} : flock'[jp] = flock[jp]
  BY <1>2 DEF CNITypeOK
<1>7. /\ link' \in [Containers -> IPs \cup {NoIP}] /\ link'[c] = NoIP
      /\ \A d \in Containers \ {c} : link'[d] = link[d]
  BY <1>2 DEF CNITypeOK
<1>8. FilesOK' /\ OnlyAt(ip)
  BY <1>2, <1>4, <1>5, <1>6, <1>7 DEF CNITypeOK, FilesOK, OnlyAt
<1>9. link'[c] = IF g.pc \in {"tenant", "undo"} THEN ip ELSE NoIP
  BY <1>7
<1> QED BY <1>1, <1>3, <1>5, <1>7, <1>8, <1>9, MakerStep

\* Its link goes.
LEMMA UndoKeeps ==
    ASSUME CNIInd, UNCHANGED cniSetting, NEW c \in Containers, Undo(c)
    PROVE  CNIInd'
<1>1. PICK ip : ip = proc[c].ip
  OBVIOUS
<1>2. PICK g : g = [proc[c] EXCEPT !.pc = "rmtenant"]
  OBVIOUS
<1>3. /\ proc[c].pc = "undo" /\ UNCHANGED <<owner, tenant, netns, flock, locked, ipam, creates>>
      /\ link' = [link EXCEPT ![c] = NoIP] /\ proc' = [proc EXCEPT ![c] = g]
  BY <1>2 DEF Undo, ProcGoto, locks
<1>4. Undoing(c) /\ g.pc = "rmtenant"
  BY <1>2, <1>3, ProcType DEF Undoing, CNIInd, OpOK, Proc
<1> QED BY <1>1, <1>2, <1>3, <1>4, UndoStep

\* A container that deletes what it made has no link any more.
LEMMA UndoneLink ==
    ASSUME CNIInd, NEW c \in Containers, Undoing(c), proc[c].pc # "undo"
    PROVE  link = [link EXCEPT ![c] = NoIP]
<1>1. link[c] = NoIP
  <2>1. PICK ip : ip = proc[c].ip
    OBVIOUS
  <2> QED BY <2>1, MakerReady DEF Undoing
<1> QED BY <1>1 DEF CNIInd, CNITypeOK

\* ConnectNetEndpoint, for the container that makes the endpoint and for one that borrowed it.
LEMMA ConnectKeeps ==
    ASSUME CNIInd, UNCHANGED cniSetting, NEW c \in Containers, Connect(c)
    PROVE  CNIInd'
<1>1. PICK ip : ip = proc[c].ip
  OBVIOUS
<1>0. proc[c].pc = "connect" /\ UNCHANGED <<owner, tenant, netns, flock, locked, ipam, creates>>
  BY DEF Connect, locks
<1>3. CNITypeOK /\ proc[c] \in Proc
  BY ProcType DEF CNIInd
<1>4. ip \in IPs /\ (Specific(c) => ip = Want[c]) /\ proc[c].fd = 0 /\ Fixed(c)
  BY <1>0, <1>1 DEF CNIInd, AddressOK, OpOK, LockOK, HasLock, Removing, Naming
<1>20. CASE /\ UNCHANGED link
            /\ proc' = [proc EXCEPT ![c] = IF proc[c].op = "start"
                                           THEN [proc[c] EXCEPT !.pc = "rmtenant"] ELSE StartFails(c)]
  BY <1>0, <1>1, <1>3, <1>4, <1>20, ConnectFails
<1>2. SUFFICES ASSUME link' = [link EXCEPT ![c] = IF link[c] = NoIP THEN ip ELSE link[c]],
                      proc' = [proc EXCEPT ![c] = IF proc[c].op = "start"
                                                  THEN [proc[c] EXCEPT !.pc = "tenant"] ELSE Started(c)]
               PROVE  CNIInd'
  BY <1>1, <1>20 DEF Connect
<1> USE <1>0
<1>5. /\ link' \in [Containers -> IPs \cup {NoIP}]
      /\ link'[c] = IF link[c] = NoIP THEN ip ELSE link[c]
      /\ \A d \in Containers \ {c} : link'[d] = link[d]
  BY <1>2, <1>3, <1>4 DEF CNITypeOK
<1>6. FilesOK' /\ OnlyAt(ip)
  BY <1>2, <1>3, <1>5 DEF CNITypeOK, FilesOK, OnlyAt
<1>7. CASE proc[c].op = "start"
  <2> DEFINE g == [proc[c] EXCEPT !.pc = "tenant"]
  <2>1. /\ proc[c].hook /\ ipam[ip] = c /\ Unused(ip) /\ tenant[ip] \notin Containers /\ Mounted(ip)
        /\ link[c] = NoIP /\ \A d \in Containers : link[d] # ip
    BY <1>1, <1>2, <1>7, MakerReady DEF Unused
  <2>2. proc' = [proc EXCEPT ![c] = g]
    BY <1>2, <1>7
  <2>3. g \in Proc /\ g.pc = "tenant" /\ g.op = "start" /\ g.hook /\ g.ip = ip /\ g.fd = 0
    BY <1>1, <1>3, <1>4, <1>7, <2>1 DEF Proc, PCs
  <2> HIDE DEF g
  <2>4. Mounted(ip)' /\ link'[c] = ip
    BY <1>2, <1>5, <2>1 DEF Mounted
  <2> QED BY <1>2, <1>4, <1>5, <1>6, <1>7, <2>1, <2>2, <2>3, <2>4, MakerStep
<1>8. CASE proc[c].op # "start"
  <2>1. PICK g : g = Started(c)
    OBVIOUS
  <2>2. ~proc[c].hook /\ Specific(c) /\ proc[c].op = "none"
    BY <1>2, <1>8 DEF CNIInd, OpOK
  <2>3. proc' = [proc EXCEPT ![c] = g]
    BY <1>2, <1>8, <2>1
  <2>4. g \in Proc /\ g.pc = "running" /\ g.op = "none" /\ ~g.hook /\ g.ip = ip /\ g.fd = 0
    BY <1>1, <1>3, <1>4, <2>1, <2>2 DEF Started, Proc, PCs
  <2>5. /\ CNITypeOK' /\ Becomes(c, g)
        /\ \A d \in Containers \ {c} : HasLock(d) => locked'[proc[d].fd] = d
    BY <1>2, <1>3, <1>4, <1>6, <2>3, <2>4, LocksStay DEF CNIInd
  <2>6. proc'[c] = g /\ \A d \in Containers \ {c} : proc'[d] = proc[d]
    BY <2>5 DEF Becomes
  <2>7. (Fixed(c)' <=> Fixed(c)) /\ (Specific(c)' <=> Specific(c)) /\ Want'[c] = Want[c]
    BY SameSetting
  <2>8. Using(c) /\ Busy(c) /\ tenant[ip] = c /\ Mounted(ip)
    BY <1>1, <1>2, <2>2 DEF Using, Busy, CNIInd, UserOK
  <2>9. link'[c] = ip
    BY <1>4, <1>5, <2>2 DEF CNIInd, AddressOK
  <2>10. /\ ~Removing(c)' /\ ~Dropping(c)' /\ ~Deleting(c)' /\ ~Naming(c)' /\ ~HasLock(c)'
         /\ ~Making(c)' /\ ~Claims(c)'
    BY <2>4, <2>6, <2>7 DEF Removing, Dropping, Deleting, Naming, HasLock, Making, Unmade, Claims
  <2>11. OpOK(c)'
    BY <2>4, <2>6, <2>10 DEF Undoing, OpOK
  <2>12. AddressOK(c)'
    BY <1>4, <2>4, <2>6, <2>7, <2>9 DEF AddressOK
  <2>13. LockOK(c)'
    BY <2>4, <2>6, <2>10 DEF LockOK
  <2>14. (ClaimOK(c) /\ UserOK(c))'
    BY <1>2, <2>4, <2>6, <2>8, <2>10 DEF ClaimOK, UserOK, Mounted
  <2>15. (NamerOK(c) /\ DropperOK(c))'
    BY <2>4, <2>6, <2>10 DEF NamerOK, DropperOK
  <2>16. ~Fresh(ip) /\ \A x \in Containers : ~Makes(x, ip)
    BY <1>1, <1>4, <2>8, BusyStands
  <2>17. FreshOK(ip)' /\ MakingOK(ip)'
    BY <1>2, <1>3, <1>4, <2>4, <2>5, <2>16, StillStands
  <2>18. ASSUME NEW d \in Containers \ {c} PROVE AtEase(d, ip)
    <3>1. CASE Dropping(d) /\ proc[d].ip = ip
      <4>1. DropperOK(d) /\ ~Removing(d)
        BY <1>1, <2>8, <3>1 DEF CNIInd, DropperOK
      <4>2. DropperOK(d)'
        <5>1. (Dropping(d)' <=> Dropping(d)) /\ (Removing(d)' <=> Removing(d)) /\ proc'[d] = proc[d]
          BY <2>6, OthersStay
        <5>2. proc[d].pc = "stat" => \A e \in Containers : link'[e] = ip => tenant[ip] = e
          BY <1>5, <2>8, <3>1, <4>1 DEF DropperOK
        <5> QED BY <1>2, <3>1, <4>1, <5>1, <5>2 DEF DropperOK
      <4>3. Using(d) => d = c
        BY <2>8, <3>1 DEF CNIInd, UserOK
      <4>4. NamerOK(d) /\ (Naming(d)' <=> Naming(d)) /\ Want'[d] = Want[d] /\ proc'[d] = proc[d]
        BY <2>6, OthersStay, SameSetting DEF CNIInd
      <4>5. NamerOK(d)'
        BY <1>2, <4>4 DEF NamerOK
      <4>6. Claims(d) /\ proc[d].ip = ip => ipam'[ip] = d
        BY <1>2 DEF CNIInd, ClaimOK
      <4> QED BY <4>2, <4>3, <4>5, <4>6 DEF AtEase
    <3>2. CASE ~(Dropping(d) /\ proc[d].ip = ip)
      BY <1>2, <1>4, <2>6, <3>2, Undisturbed DEF Mounted
    <3> QED BY <3>1, <3>2
  <2>19. AllLead'
    BY <1>2, <1>5, <2>8, <2>9 DEF CNIInd, AllLead, LinkLeads, Mounted
  <2> QED BY <1>4, <1>5, <1>6, <2>4, <2>5, <2>9, <2>10, <2>11, <2>12, <2>13, <2>14, <2>15, <2>17,
             <2>18, <2>19, FileStep
<1> QED BY <1>7, <1>8

\* A container that is being deleted meets no other that is.
LEMMA DeleterAlone ==
    ASSUME CNIInd, NEW c \in Containers, Deleting(c), NEW d \in Containers \ {c}
    PROVE  ~Dropping(d)
<1>1. ~Deleting(d)
  BY DEF CNIInd, Apart
<1> QED BY <1>1 DEF Dropping, Removing, Deleting, CNIInd, OpOK

\* FreeNetEndpoint.
LEMMA FreeKeeps ==
    ASSUME CNIInd, UNCHANGED cniSetting, NEW c \in Containers, Free(c)
    PROVE  CNIInd'
<1>1. PICK ip : ip = proc[c].ip
  OBVIOUS
<1>2. /\ proc[c].pc = "free" /\ UNCHANGED <<owner, netns, link, flock, locked, ipam, creates>>
      /\ tenant' = [tenant EXCEPT ![ip] = IF tenant[ip] = c THEN NoContainer ELSE tenant[ip]]
  BY <1>1 DEF Free, locks
<1>3. CNITypeOK /\ proc[c] \in Proc
  BY ProcType DEF CNIInd
<1>4. /\ ip \in IPs /\ (Specific(c) => ip = Want[c]) /\ proc[c].fd = 0 /\ proc[c].op = "delete"
      /\ Deleting(c)
  BY <1>1, <1>2 DEF CNIInd, AddressOK, OpOK, LockOK, HasLock, Removing, Naming, Deleting
<1>5. CASE tenant[ip] # c
  <2>1. tenant' = tenant
    BY <1>2, <1>3, <1>5 DEF CNITypeOK
  <2>2. proc' = [proc EXCEPT ![c] = Finished(c)]
    BY <1>1, <1>5 DEF Free
  <2> QED BY <1>2, <1>3, <1>4, <2>1, <2>2, RestingStates, RestStep DEF files
<1>6. CASE tenant[ip] = c
  <2>1. PICK g : g = IF Fixed(c) THEN Finished(c) ELSE [proc[c] EXCEPT !.pc = "flock"]
    OBVIOUS
  <2>2. proc' = [proc EXCEPT ![c] = g]
    BY <1>1, <1>6, <2>1 DEF Free
  <2>3. /\ g \in Proc /\ g.fd = 0 /\ g.op # "start"
        /\ Fixed(c) => Resting(c, g) /\ g.pc \in {"stopped", "removed"}
        /\ ~Fixed(c) => g.pc = "flock" /\ g.op = "delete" /\ g.ip = ip
    <3>1. CASE Fixed(c)
      <4>1. Resting(c, g) /\ g.pc \in {"stopped", "removed"}
        BY <1>3, <2>1, <3>1, RestingStates DEF Finished, Idle
      <4> QED BY <3>1, <4>1 DEF Resting
    <3>2. CASE ~Fixed(c)
      BY <1>1, <1>3, <1>4, <2>1, <3>2 DEF Proc, PCs
    <3> QED BY <3>1, <3>2
  <2>4. /\ tenant' \in [IPs -> Containers \cup {NoContainer, "empty"}] /\ tenant'[ip] = NoContainer
        /\ \A jp \in IPs \ {ip} : tenant'[jp] = tenant[jp]
    BY <1>2, <1>3, <1>4, <1>6 DEF CNITypeOK
  <2>5. FilesOK' /\ OnlyAt(ip)
    BY <1>2, <1>3, <2>4 DEF CNITypeOK, FilesOK, OnlyAt
  <2>6. /\ CNITypeOK' /\ Becomes(c, g)
        /\ \A d \in Containers \ {c} : HasLock(d) => locked'[proc[d].fd] = d
    BY <1>2, <1>3, <1>4, <2>2, <2>3, <2>5, LocksStay DEF CNIInd
  <2>7. proc'[c] = g /\ \A d \in Containers \ {c} : proc'[d] = proc[d]
    BY <2>6 DEF Becomes
  <2>8. (Fixed(c)' <=> Fixed(c)) /\ (Specific(c)' <=> Specific(c)) /\ Want'[c] = Want[c]
    BY SameSetting
  <2>9. /\ (OpOK(c) /\ AddressOK(c) /\ LockOK(c))'
        /\ (ClaimOK(c) /\ UserOK(c) /\ NamerOK(c) /\ DropperOK(c))'
        /\ Busy(c)' => g.ip = ip
        /\ ~Making(c)' /\ ~Naming(c)'
    <3>1. CASE Fixed(c)
      BY <1>2, <2>3, <2>6, <3>1, RestingFits DEF Resting
    <3>2. CASE ~Fixed(c)
      <4>1. /\ ~Removing(c)' /\ ~Using(c)' /\ ~Naming(c)' /\ ~HasLock(c)' /\ ~Making(c)' /\ ~Claims(c)'
        BY <2>3, <2>7, <3>2 DEF Undoing, Removing, Using, Naming, HasLock, Making, Unmade, Claims
      <4>2. OpOK(c)'
        BY <2>3, <2>7, <3>2, <4>1 DEF Undoing, OpOK
      <4>3. AddressOK(c)'
        BY <1>2, <1>4, <2>3, <2>7, <2>8, <3>2 DEF AddressOK, CNIInd
      <4>4. LockOK(c)'
        BY <2>3, <2>7, <3>2, <4>1 DEF LockOK
      <4>5. (ClaimOK(c) /\ UserOK(c) /\ NamerOK(c) /\ DropperOK(c))'
        BY <2>3, <2>7, <3>2, <4>1 DEF Undoing, ClaimOK, UserOK, NamerOK, DropperOK
      <4> QED BY <2>3, <3>2, <4>1, <4>2, <4>3, <4>4, <4>5
    <3> QED BY <3>1, <3>2
  <2>10. ~Fresh(ip) /\ \A x \in Containers : ~Makes(x, ip)
    BY <1>3, <1>4, <1>6, NullAssumption, BusyStands
  <2>11. FreshOK(ip)' /\ MakingOK(ip)'
    BY <1>2, <1>3, <1>4, <2>3, <2>6, <2>10, StillStands
  <2>12. ASSUME NEW d \in Containers \ {c} PROVE AtEase(d, ip)
    <3>1. ~(Using(d) /\ proc[d].ip = ip)
      BY <1>6 DEF CNIInd, UserOK
    <3>2. ~Dropping(d)
      BY <1>4, DeleterAlone
    <3> QED BY <1>2, <1>4, <2>7, <3>1, <3>2, Undisturbed
  <2>13. AllLead'
    BY <1>2 DEF CNIInd, AllLead, LinkLeads, Mounted
  <2> QED BY <1>2, <1>4, <2>3, <2>5, <2>6, <2>9, <2>11, <2>12, <2>13, FileStep
<1> QED BY <1>5, <1>6

\* DisconnectNetEndpoint.
LEMMA DisconnectKeeps ==
    ASSUME CNIInd, UNCHANGED cniSetting, NEW c \in Containers, Disconnect(c)
    PROVE  CNIInd'
<1>1. PICK ip : ip = proc[c].ip
  OBVIOUS
<1>2. /\ proc[c].pc = "disconnect" /\ UNCHANGED <<owner, tenant, netns, flock, locked, ipam, creates>>
      /\ link' = [link EXCEPT ![c] = NoIP] /\ ProcGoto(c, "flock")
  BY DEF Disconnect, locks
<1>3. CNITypeOK /\ proc[c] \in Proc
  BY ProcType DEF CNIInd
<1>4. /\ ip \in IPs /\ (Specific(c) => ip = Want[c]) /\ proc[c].fd = 0 /\ proc[c].op = "remove"
      /\ Fixed(c) /\ Deleting(c) /\ link[c] = ip
  BY <1>1, <1>2 DEF CNIInd, AddressOK, OpOK, LockOK, HasLock, Removing, Naming, Deleting, UserOK
<1> DEFINE g == [proc[c] EXCEPT !.pc = "flock"]
<1>5. /\ proc' = [proc EXCEPT ![c] = g] /\ g \in Proc /\ g.pc = "flock" /\ g.op = "remove"
      /\ g.ip = ip /\ g.fd = 0
  BY <1>1, <1>2, <1>3, <1>4 DEF ProcGoto, Proc, PCs
<1> HIDE DEF g
<1>6. /\ link' \in [Containers -> IPs \cup {NoIP}] /\ link'[c] = NoIP
      /\ \A d \in Containers \ {c} : link'[d] = link[d]
  BY <1>2, <1>3 DEF CNITypeOK
<1>7. FilesOK' /\ OnlyAt(ip)
  BY <1>2, <1>3, <1>6 DEF CNITypeOK, FilesOK, OnlyAt
<1>8. /\ CNITypeOK' /\ Becomes(c, g)
      /\ \A d \in Containers \ {c} : HasLock(d) => locked'[proc[d].fd] = d
  BY <1>2, <1>3, <1>4, <1>5, <1>7, LocksStay DEF CNIInd
<1>9. proc'[c] = g /\ \A d \in Containers \ {c} : proc'[d] = proc[d]
  BY <1>8 DEF Becomes
<1>10. (Fixed(c)' <=> Fixed(c)) /\ (Specific(c)' <=> Specific(c)) /\ Want'[c] = Want[c]
  BY SameSetting
<1>11. ~Removing(c)' /\ ~Using(c)' /\ ~Naming(c)' /\ ~HasLock(c)' /\ ~Making(c)' /\ ~Claims(c)'
  BY <1>5, <1>9 DEF Undoing, Removing, Using, Naming, HasLock, Making, Unmade, Claims
<1>12. OpOK(c)'
  BY <1>4, <1>5, <1>9, <1>10, <1>11 DEF Undoing, OpOK
<1>13. AddressOK(c)'
  BY <1>4, <1>5, <1>6, <1>9, <1>10 DEF AddressOK
<1>14. LockOK(c)'
  BY <1>5, <1>9, <1>11 DEF LockOK
<1>15. (ClaimOK(c) /\ UserOK(c) /\ NamerOK(c) /\ DropperOK(c))'
  BY <1>5, <1>9, <1>11 DEF Undoing, ClaimOK, UserOK, NamerOK, DropperOK
<1>16. ~Fresh(ip) /\ \A x \in Containers : ~Makes(x, ip)
  BY <1>2, <1>4 DEF CNIInd, FreshOK, MakingOK, Makes
<1>17. FreshOK(ip)' /\ MakingOK(ip)'
  BY <1>2, <1>3, <1>4, <1>5, <1>8, <1>16, StillStands
<1>18. \A d \in Containers \ {c} : AtEase(d, ip)
  BY <1>2, <1>4, <1>9, DeleterAlone, Undisturbed DEF Mounted
<1>19. AllLead'
  BY <1>2, <1>6 DEF CNIInd, AllLead, LinkLeads, Mounted
<1> QED BY <1>4, <1>5, <1>6, <1>7, <1>8, <1>11, <1>12, <1>13, <1>14, <1>15, <1>17, <1>18, <1>19,
           FileStep

\* A step of DeleteNetEndpoint up to the lock file: nobody else works on the endpoint.
LEMMA RemovalStep ==
    ASSUME CNIInd, UNCHANGED <<cniSetting, tenant, netns, link, locked, ipam, creates>>,
           NEW c \in Containers, Removing(c), proc[c].pc # "rmnetns",
           NEW ip, ip = proc[c].ip,
           NEW g, g = [proc[c] EXCEPT !.pc = g.pc], proc' = [proc EXCEPT ![c] = g],
           \/ g.pc = "rmowner" /\ UNCHANGED <<owner, flock>>
           \/ g.pc = "rmflock" /\ owner' = [owner EXCEPT ![ip] = NoContainer] /\ UNCHANGED flock
           \/ /\ g.pc = "rmnetns" /\ owner[ip] = NoContainer /\ UNCHANGED owner
              /\ flock' = [flock EXCEPT ![ip] = 0]
    PROVE  CNIInd'
<1>1. CNITypeOK /\ proc[c] \in Proc
  BY ProcType DEF CNIInd
<1>2. /\ ip \in IPs /\ (Specific(c) => ip = Want[c]) /\ Busy(c) /\ HasLock(c)
      /\ proc[c].op \in {"delete", "remove"} /\ (proc[c].op = "remove" => Fixed(c)) /\ Deleting(c)
      /\ proc[c].fd # 0 /\ locked[proc[c].fd] = c
      /\ flock[ip] = proc[c].fd /\ tenant[ip] = NoContainer
      /\ \A d \in Containers : link[d] # ip
      /\ \A d \in Containers \ {c} : Busy(d) => proc[d].ip # ip
  BY DEF CNIInd, AddressOK, OpOK, LockOK, HasLock, Removing, Dropping, Busy, Deleting, DropperOK
<1>3. /\ g \in Proc /\ g.op = proc[c].op /\ g.ip = ip /\ g.fd = proc[c].fd /\ g.hook = proc[c].hook
      /\ g.pc \in {"rmowner", "rmflock", "rmnetns"}
  BY <1>1 DEF Proc, PCs
<1>4. /\ owner' \in [IPs -> Containers \cup {NoContainer}]
      /\ \A jp \in IPs \ {ip} : owner'[jp] = owner[jp]
      /\ flock' \in [IPs -> Inodes \cup {0}]
      /\ \A jp \in IPs \ {ip} : flock'[jp] = flock[jp]
      /\ g.pc # "rmnetns" => flock' = flock
      /\ g.pc # "rmowner" => owner'[ip] = NoContainer
      /\ g.pc = "rmowner" => owner' = owner
  BY <1>1, <1>2 DEF CNITypeOK
<1>5. FilesOK' /\ OnlyAt(ip)
  BY <1>1, <1>4 DEF CNITypeOK, FilesOK, OnlyAt
<1>6. /\ CNITypeOK' /\ Becomes(c, g)
      /\ \A d \in Containers : HasLock(d) => locked'[proc[d].fd] = d
  BY <1>1, <1>3, <1>5, LocksStay DEF CNIInd
<1>7. proc'[c] = g /\ \A d \in Containers \ {c} : proc'[d] = proc[d]
  BY <1>6 DEF Becomes
<1>8. (Fixed(c)' <=> Fixed(c)) /\ (Specific(c)' <=> Specific(c)) /\ Want'[c] = Want[c]
  BY SameSetting
<1>9. /\ Removing(c)' /\ Dropping(c)' /\ ~Using(c)' /\ ~Naming(c)' /\ HasLock(c)' /\ ~Making(c)'
      /\ ~Claims(c)'
  BY <1>2, <1>3, <1>7 DEF Undoing, Removing, Dropping, Using, Naming, HasLock, Making, Unmade, Claims
<1>10. OpOK(c)'
  BY <1>2, <1>3, <1>7, <1>8, <1>9 DEF Undoing, OpOK
<1>11. AddressOK(c)'
  BY <1>2, <1>3, <1>7, <1>8 DEF AddressOK, CNIInd
<1>12. LockOK(c)'
  BY <1>2, <1>3, <1>7, <1>9 DEF LockOK
<1>13. (ClaimOK(c) /\ UserOK(c) /\ NamerOK(c))'
  BY <1>2, <1>3, <1>7, <1>9 DEF Undoing, ClaimOK, UserOK, NamerOK
<1>14. DropperOK(c)'
  <2>1. \A d \in Containers \ {c} : (Busy(d)' <=> Busy(d)) /\ proc'[d] = proc[d]
    BY <1>7, OthersStay
  <2> QED BY <1>2, <1>3, <1>4, <1>7, <1>9, <2>1 DEF DropperOK
<1>15. ~Fresh(ip) /\ \A x \in Containers : ~Makes(x, ip)
  BY <1>2, BusyStands
<1>16. FreshOK(ip)' /\ MakingOK(ip)'
  BY <1>1, <1>2, <1>3, <1>6, <1>15, StillStands
<1>17. ASSUME NEW d \in Containers \ {c} PROVE AtEase(d, ip)
  <2>1. ~(Busy(d) /\ proc[d].ip = ip)
    BY <1>2
  <2>2. /\ NamerOK(d) /\ AddressOK(d) /\ ClaimOK(d)
        /\ Naming(d)' <=> Naming(d)
        /\ Want'[d] = Want[d] /\ proc'[d] = proc[d]
    BY <1>7, OthersStay, SameSetting DEF CNIInd
  <2>3. Naming(d) /\ Want[d] = ip => proc[d].pc # "occupy"
    BY <2>1, <2>2 DEF AddressOK, Busy, Naming
  <2>4. Naming(d) /\ Want[d] = ip => NamerOK(d)'
    BY <1>4, <2>2, <2>3 DEF NamerOK
  <2>5. Claims(d) /\ proc[d].ip = ip => ipam'[ip] = d
    BY <2>2 DEF ClaimOK
  <2> QED BY <2>1, <2>4, <2>5 DEF AtEase, Busy
<1>18. AllLead'
  BY DEF CNIInd, AllLead, LinkLeads, Mounted
<1> QED BY <1>2, <1>3, <1>5, <1>6, <1>9, <1>10, <1>11, <1>12, <1>13, <1>14, <1>16, <1>17, <1>18,
           FileStep

\* DeleteNetEndpoint: the tenant file,
LEMMA RemoveTenantKeeps ==
    ASSUME CNIInd, UNCHANGED cniSetting, NEW c \in Containers, RemoveTenant(c)
    PROVE  CNIInd'
<1>1. PICK ip : ip = proc[c].ip
  OBVIOUS
<1>2. PICK g : g = [proc[c] EXCEPT !.pc = "rmowner"]
  OBVIOUS
<1>3. /\ proc[c].pc = "rmtenant" /\ UNCHANGED <<owner, netns, link, flock, locked, ipam, creates>>
      /\ tenant' = [tenant EXCEPT ![ip] = NoContainer] /\ proc' = [proc EXCEPT ![c] = g]
  BY <1>1, <1>2 DEF RemoveTenant, ProcGoto, locks
<1>4. CNITypeOK /\ g.pc = "rmowner" /\ (Removing(c) \/ Undoing(c))
  BY <1>2, <1>3, ProcType DEF Removing, Undoing, CNIInd, Proc
<1>5. CASE Removing(c)
  <2>1. tenant[ip] = NoContainer
    BY <1>1, <1>5 DEF CNIInd, DropperOK
  <2>2. tenant' = tenant
    BY <1>3, <1>4, <2>1 DEF CNITypeOK
  <2> QED BY <1>1, <1>2, <1>3, <1>4, <1>5, <2>2, RemovalStep
<1>6. CASE Undoing(c)
  BY <1>1, <1>2, <1>3, <1>4, <1>6, UndoStep, UndoneLink
<1> QED BY <1>4, <1>5, <1>6

\* the owner file,
LEMMA RemoveOwnerKeeps ==
    ASSUME CNIInd, UNCHANGED cniSetting, NEW c \in Containers, RemoveOwner(c)
    PROVE  CNIInd'
<1>1. PICK ip : ip = proc[c].ip
  OBVIOUS
<1>2. PICK g : g = [proc[c] EXCEPT !.pc = "rmflock"]
  OBVIOUS
<1>3. /\ proc[c].pc = "rmowner" /\ UNCHANGED <<tenant, netns, link, flock, locked, ipam, creates>>
      /\ owner' = [owner EXCEPT ![ip] = NoContainer] /\ proc' = [proc EXCEPT ![c] = g]
  BY <1>1, <1>2 DEF RemoveOwner, ProcGoto, locks
<1>4. g.pc = "rmflock" /\ (Removing(c) \/ Undoing(c))
  BY <1>2, <1>3, ProcType DEF Removing, Undoing, CNIInd, Proc
<1>5. CASE Removing(c)
  BY <1>1, <1>2, <1>3, <1>4, <1>5, RemovalStep
<1>6. CASE Undoing(c)
  BY <1>1, <1>2, <1>3, <1>4, <1>6, UndoStep, UndoneLink
<1> QED BY <1>4, <1>5, <1>6

\* the lock file,
LEMMA RemoveFlockKeeps ==
    ASSUME CNIInd, UNCHANGED cniSetting, NEW c \in Containers, RemoveFlock(c)
    PROVE  CNIInd'
<1>1. PICK ip : ip = proc[c].ip
  OBVIOUS
<1>2. PICK g : g = [proc[c] EXCEPT !.pc = "rmnetns"]
  OBVIOUS
<1>3. /\ proc[c].pc = "rmflock" /\ UNCHANGED <<owner, tenant, netns, link, locked, ipam, creates>>
      /\ flock' = [flock EXCEPT ![ip] = 0] /\ proc' = [proc EXCEPT ![c] = g]
  BY <1>1, <1>2 DEF RemoveFlock, ProcGoto, files
<1>4. g.pc = "rmnetns" /\ (Removing(c) \/ Undoing(c))
  BY <1>2, <1>3, ProcType DEF Removing, Undoing, CNIInd, Proc
<1>5. CASE Removing(c)
  <2>1. owner[ip] = NoContainer
    BY <1>1, <1>3, <1>5 DEF CNIInd, DropperOK
  <2> QED BY <1>1, <1>2, <1>3, <1>4, <1>5, <2>1, RemovalStep
<1>6. CASE Undoing(c)
  BY <1>1, <1>2, <1>3, <1>4, <1>6, UndoStep, UndoneLink
<1> QED BY <1>4, <1>5, <1>6

\* and the mount; CNI gets the address back if nobody opened the lock file anew.
LEMMA RemoveNetnsKeeps ==
    ASSUME CNIInd, UNCHANGED cniSetting, NEW c \in Containers, RemoveNetns(c)
    PROVE  CNIInd'
<1>1. PICK ip : ip = proc[c].ip
  OBVIOUS
<1>2. PICK g : g = Finished(c)
  OBVIOUS
<1>3. SUFFICES ASSUME proc[c].op # "start" PROVE CNIInd'
  <2>1. CASE proc[c].op = "start"
    <3>1. /\ Undoing(c) /\ proc[c].pc = "rmnetns" /\ UNCHANGED <<owner, tenant, link, flock, locked, ipam, creates>>
          /\ netns' = [netns EXCEPT ![ip] = "absent"] /\ proc' = [proc EXCEPT ![c] = StartFails(c)]
      BY <1>1, <2>1 DEF RemoveNetns, Undoing
    <3>2. /\ ip \in IPs /\ Fixed(c) /\ proc[c].fd = 0 /\ ipam[ip] = c /\ Unused(ip)
          /\ \A d \in Containers : link[d] # ip
      BY <1>1, <3>1, MakerReady
    <3>3. CNITypeOK /\ netns' \in [IPs -> Containers \cup {"absent", "file"}]
          /\ \A jp \in IPs \ {ip} : netns'[jp] = netns[jp]
      BY <3>1 DEF CNIInd, CNITypeOK
    <3>4. FilesOK' /\ OnlyAt(ip)
      BY <3>1, <3>3 DEF CNITypeOK, FilesOK, OnlyAt
    <3>5. AllLead'
      <4>1. \A d \in Containers : link[d] # NoIP => link[d] \in IPs \ {ip}
        BY <3>2, <3>3 DEF CNITypeOK
      <4> QED BY <3>1, <3>3, <4>1 DEF CNIInd, AllLead, LinkLeads, Mounted
    <3> QED BY <2>1, <3>1, <3>2, <3>4, <3>5, MakerGivesUp
  <2> QED BY <2>1
<1>21. CNITypeOK /\ proc[c].pc = "rmnetns" /\ Removing(c)
  BY <1>3 DEF CNIInd, RemoveNetns, Removing
<1> USE <1>21
<1>4. /\ ip \in IPs /\ Busy(c) /\ Deleting(c) /\ proc[c].op # "start"
      /\ owner[ip] = NoContainer /\ tenant[ip] = NoContainer
      /\ \A d \in Containers : link[d] # ip
      /\ \A d \in Containers \ {c} : Busy(d) => proc[d].ip # ip
  BY <1>1, <1>3 DEF CNIInd, AddressOK, OpOK, Dropping, Busy, Deleting, DropperOK
<1>5. /\ UNCHANGED <<owner, tenant, link, flock, creates>>
      /\ netns' = [netns EXCEPT ![ip] = "absent"] /\ Return(c, g)
      /\ GivenBack(ip) \/ UNCHANGED ipam
  BY <1>1, <1>2, <1>4 DEF RemoveNetns
<1>6. Resting(c, g) /\ g \in Proc /\ g.fd = 0 /\ g.pc \in {"stopped", "removed"} /\ g.op = "none"
  <2>1. Resting(c, g)
    BY <1>2, <1>3, RestingStates
  <2> QED BY <1>2, <2>1 DEF Resting, Finished, Idle
<1>7. \/ ipam' = ipam
      \/ ipam' = [ipam EXCEPT ![ip] = NoContainer]
  BY <1>5 DEF GivenBack
<1>8. /\ ipam' \in [IPs -> Containers \cup {NoContainer}] /\ ipam'[ip] \in {ipam[ip], NoContainer}
      /\ \A jp \in IPs \ {ip} : ipam'[jp] = ipam[jp]
      /\ netns' \in [IPs -> Containers \cup {"absent", "file"}] /\ netns'[ip] = "absent"
      /\ \A jp \in IPs \ {ip} : netns'[jp] = netns[jp]
  BY <1>3, <1>4, <1>5, <1>7 DEF CNITypeOK
<1>9. FilesOK' /\ OnlyAt(ip)
  BY <1>3, <1>5, <1>8 DEF CNITypeOK, FilesOK, OnlyAt
<1>10. /\ CNITypeOK' /\ Becomes(c, g)
       /\ \A d \in Containers \ {c} : HasLock(d) => locked'[proc[d].fd] = d
  BY <1>3, <1>5, <1>6, <1>9, LocksReturn DEF CNIInd
<1>11. proc'[c] = g /\ \A d \in Containers \ {c} : proc'[d] = proc[d]
  BY <1>10 DEF Becomes
<1>12. /\ (OpOK(c) /\ AddressOK(c) /\ LockOK(c))'
       /\ (ClaimOK(c) /\ UserOK(c) /\ NamerOK(c) /\ DropperOK(c))'
       /\ ~Busy(c)' /\ ~Making(c)' /\ ~Naming(c)' /\ ~Deleting(c)'
  BY <1>5, <1>6, <1>10, RestingFits DEF Resting
<1>13. ~Fresh(ip) /\ \A x \in Containers : ~Makes(x, ip)
  BY <1>1, <1>4, BusyStands
<1>14. FreshOK(ip)' /\ MakingOK(ip)'
  <2>1. CASE ipam'[ip] = ipam[ip]
    BY <1>3, <1>4, <1>6, <1>10, <1>13, <2>1, StillStands
  <2>2. CASE ipam'[ip] = NoContainer
    <3>1. \A d \in Containers \ {c} : (Busy(d)' <=> Busy(d)) /\ proc'[d] = proc[d]
      BY <1>11, OthersStay
    <3>2. Unused(ip)'
      BY <1>4, <1>5, <1>12, <3>1, NullAssumption DEF Unused
    <3>3. FreshOK(ip)'
      BY <1>4, <1>5, <1>8, <3>2 DEF FreshOK
    <3>4. MakingOK(ip)'
      BY <2>2, NullAssumption DEF MakingOK, Makes
    <3> QED BY <3>3, <3>4
  <2> QED BY <1>8, <2>1, <2>2
<1>15. ASSUME NEW d \in Containers \ {c} PROVE AtEase(d, ip)
  <2>1. ~(Busy(d) /\ proc[d].ip = ip)
    BY <1>4
  <2>2. /\ NamerOK(d) /\ ClaimOK(d) /\ OpOK(d)
        /\ Naming(d)' <=> Naming(d)
        /\ Want'[d] = Want[d] /\ proc'[d] = proc[d]
    BY <1>11, OthersStay, SameSetting DEF CNIInd
  <2>3. NamerOK(d)'
    BY <1>5, <2>2 DEF NamerOK
  <2>4. ~(Claims(d) /\ proc[d].ip = ip)
    BY <1>13, <2>2 DEF ClaimOK, Claims, Fresh, Makes
  <2> QED BY <2>1, <2>3, <2>4 DEF AtEase, Busy
<1>16. AllLead'
  <2>1. \A d \in Containers : link[d] # NoIP => link[d] \in IPs \ {ip}
    BY <1>3, <1>4 DEF CNITypeOK
  <2> QED BY <1>5, <1>8, <2>1 DEF CNIInd, AllLead, LinkLeads, Mounted
<1> QED BY <1>4, <1>5, <1>6, <1>9, <1>10, <1>12, <1>14, <1>15, <1>16, FileStep

-----------------------------------------------------------------------------
(***************************************************************************)
(* The theorem                                                             *)
(***************************************************************************)

\* In the beginning there is nothing.
LEMMA CNIInitOK == CNIInit => CNIInd
<1> SUFFICES ASSUME CNIInit PROVE CNIInd
  OBVIOUS
<1> USE DEF CNIInit
<1>1. \A c \in Containers : proc[c] = Idle /\ link[c] = NoIP
  OBVIOUS
<1>2. /\ Idle \in Proc /\ Idle.pc = "stopped" /\ Idle.op = "none" /\ Idle.fd = 0 /\ ~Idle.hook
  BY DEF Idle, Proc, PCs
<1>3. CNITypeOK
  BY <1>2, MaxCreatesAssumption DEF CNITypeOK
<1>4. ASSUME NEW c \in Containers
      PROVE  /\ ~Removing(c) /\ ~Dropping(c) /\ ~Using(c) /\ ~Busy(c) /\ ~Naming(c) /\ ~HasLock(c)
             /\ ~Claims(c) /\ ~Deleting(c) /\ ~Making(c)
  BY <1>1, <1>2 DEF Removing, Dropping, Using, Busy, Naming, HasLock, Claims, Deleting, Making
<1>5. ASSUME NEW c \in Containers PROVE OpOK(c) /\ AddressOK(c) /\ LockOK(c)
  BY <1>1, <1>2, <1>4 DEF Undoing, OpOK, AddressOK, LockOK
<1>6. ASSUME NEW c \in Containers PROVE ClaimOK(c) /\ UserOK(c) /\ NamerOK(c) /\ DropperOK(c)
  BY <1>1, <1>2, <1>4 DEF ClaimOK, UserOK, NamerOK, DropperOK
<1>7. ASSUME NEW ip \in IPs PROVE FreshOK(ip) /\ MakingOK(ip)
  <2>1. FreshOK(ip)
    BY <1>1, <1>4, NullAssumption DEF FreshOK, Unused
  <2>2. MakingOK(ip)
    BY NullAssumption DEF MakingOK, Makes
  <2> QED BY <2>1, <2>2
<1>8. \A c, d \in Containers : Apart(c, d)
  BY <1>4 DEF Apart
<1>9. AllLead
  BY <1>1 DEF AllLead, LinkLeads
<1> QED BY <1>3, <1>5, <1>6, <1>7, <1>8, <1>9 DEF CNIInd

\* Every step keeps the invariant, unless clients overlap what they should not.
LEMMA CNINextKeeps ==
    ASSUME CNIInd, Overlap \subseteq {"creating"}, [CNINext]_cniVars
    PROVE  CNIInd'
<1>1. "naming" \notin Overlap /\ "deleting" \notin Overlap
  OBVIOUS
<1>2. CASE UNCHANGED cniVars
  <2>1. UNCHANGED <<cniSetting, owner, tenant, netns, link, flock, locked, ipam, proc, creates>>
    BY <1>2 DEF cniVars, cniState
  <2> QED BY <2>1 DEF CNIInd, CNITypeOK, OpOK, AddressOK, LockOK, ClaimOK, UserOK, NamerOK, DropperOK,
                 FreshOK, MakingOK, Apart, AllLead, LinkLeads, Undoing, Removing, Dropping, Using, Busy, Naming, HasLock,
                 Claims, Deleting, Making, Unmade, Unused, Fresh, Makes, Mounted, Fixed, Specific,
                 KindOf, Want
<1>3. CASE CNINext
  <2>1. PICK c \in Containers : \/ HandleCreate(c) \/ HandleDelete(c) \/ RemoveNetwork(c)
                                \/ HandlerStep(c) \/ HandlerGivesUp(c) \/ HandlerDies(c)
    BY <1>3 DEF CNINext
  <2>2. UNCHANGED cniSetting
    BY <1>3 DEF CNINext
  <2>3. ~CountFails(c)
    BY <1>1 DEF CountFails
  <2>4. CASE HandlerStep(c)
    <3>1. CASE CreateFlock(c) \/ CreateLock(c) \/ CreateGet(c) \/ Borrow(c) \/ RuncCreate(c)
      BY <2>2, <3>1, CreateFlockKeeps, CreateLockKeeps, CreateGetKeeps, BorrowKeeps, RuncCreateKeeps
    <3>2. CASE \/ HandleStart(c) \/ CreateOwner(c) \/ CreateFile(c) \/ Mount(c) \/ Connect(c) \/ Occupy(c)
               \/ Undo(c)
      BY <2>2, <3>2, HandleStartKeeps, CreateOwnerKeeps, CreateFileKeeps, MountKeeps, ConnectKeeps,
         OccupyKeeps, UndoKeeps
    <3>3. CASE \/ DeleteGet(c) \/ Free(c) \/ Disconnect(c) \/ DropFlock(c) \/ DropLock(c)
               \/ CountLinks(c) \/ CountTenant(c)
      BY <1>1, <2>2, <3>3, DeleteGetKeeps, FreeKeeps, DisconnectKeeps, DropFlockKeeps, DropLockKeeps,
         CountLinksKeeps, CountTenantKeeps
    <3>4. CASE RemoveTenant(c) \/ RemoveOwner(c) \/ RemoveFlock(c) \/ RemoveNetns(c)
      BY <2>2, <3>4, RemoveTenantKeeps, RemoveOwnerKeeps, RemoveFlockKeeps, RemoveNetnsKeeps
    <3> QED BY <2>3, <2>4, <3>1, <3>2, <3>3, <3>4 DEF HandlerStep
  <2>5. CASE \/ HandleCreate(c) \/ HandleDelete(c) \/ RemoveNetwork(c) \/ HandlerGivesUp(c)
             \/ HandlerDies(c)
    BY <1>1, <2>2, <2>5, HandleCreateKeeps, HandleDeleteKeeps, RemoveNetworkKeeps, GivesUpKeeps,
       DiesKeeps
  <2> QED BY <2>1, <2>4, <2>5
<1> QED BY <1>2, <1>3

\* Clients that name an address only when its endpoint is not being made, and delete one
\* container at a time.
Tidy == Overlap \subseteq {"creating"}

\* What the invariant says of the files and the containers that run.
LEMMA CNIIndKeepsEndpoints == CNIInd => EndpointInv
<1> SUFFICES ASSUME CNIInd PROVE EndpointInv
  OBVIOUS
<1>1. EndpointKept
  <2>1. SUFFICES ASSUME NEW c \in Containers, proc[c].pc = "running", Fixed(c) \/ ~proc[c].hook
                 PROVE  Mounted(proc[c].ip) /\ tenant[proc[c].ip] = c
    BY DEF EndpointKept
  <2>2. Using(c)
    BY <2>1 DEF Using
  <2> QED BY <2>1, <2>2 DEF CNIInd, UserOK
<1> QED BY <1>1 DEF EndpointInv, CNIInd, AllLead, LinksLead

\* The invariant of the tidy settings.
LEMMA TidyInvariant == CNISpec => [](Tidy => CNIInd)
<1>1. CNIInit => (Tidy => CNIInd)
  BY CNIInitOK
<1>2. (Tidy => CNIInd) /\ [CNINext]_cniVars => (Tidy => CNIInd)'
  <2>1. SUFFICES ASSUME Tidy => CNIInd, [CNINext]_cniVars, Tidy' PROVE CNIInd'
    OBVIOUS
  <2>2. UNCHANGED cniSetting
    BY <2>1 DEF CNINext, cniVars
  <2>3. Tidy
    BY <2>1, <2>2 DEF Tidy, Overlap
  <2> QED BY <2>1, <2>3, CNINextKeeps DEF Tidy
<1> QED BY <1>1, <1>2, PTL DEF CNISpec

\* Whichever handlers work at the same time, and wherever they die or fail (cni/handler,
\* cni/store/filesystem): a container that runs on an endpoint is the tenant of one that is
\* there, and no link leads nowhere, provided no client names an address while its
\* endpoint is being made or deletes two containers at once.
THEOREM EndpointsStand == CNISpec => [](Tidy => EndpointInv)
<1>1. (Tidy => CNIInd) => (Tidy => EndpointInv)
  BY CNIIndKeepsEndpoints
<1> QED BY <1>1, TidyInvariant, PTL

-----------------------------------------------------------------------------
(***************************************************************************)
(* Nothing is left behind, where nothing fails or overlaps: what has been  *)
(* made is there until somebody who is still around deletes it.            *)
(***************************************************************************)

\* Only the containers of the setting do anything.
BystanderOK(c) == c \notin cniSetting.containers => proc[c] = Idle /\ link[c] = NoIP

\* A link belongs to a container with a fixed IP that has not been removed, and leads to
\* an endpoint that has its owner.
LinkOK(c) ==
    link[c] # NoIP => /\ Fixed(c) /\ proc[c].pc # "removed" /\ owner[link[c]] # NoContainer
                      /\ proc[c].op = "remove" => proc[c].pc \in {"get", "disconnect"}

\* c will free the endpoint of ip, which it finds by its link or by name.
WillFree(c, ip) ==
    /\ \/ Using(c) /\ proc[c].ip = ip
       \/ proc[c].pc = "get" /\ proc[c].op = "delete"
       \/ proc[c].pc = "free" /\ proc[c].ip = ip
    /\ Target(c, Fixed(c)) = ip

TenantOK(ip) ==
    tenant[ip] # NoContainer => tenant[ip] \in Containers /\ WillFree(tenant[ip], ip)

\* An endpoint that is made is complete until it is deleted, and somebody is there to
\* delete it.
StandsOK(ip) ==
    \/ Fresh(ip)
    \/ \E x \in Containers : Makes(x, ip) /\ owner[ip] # NoContainer
    \/ /\ Mounted(ip)
       /\ \/ owner[ip] # NoContainer
          \/ \E c \in Containers : proc[c].pc \in {"rmflock", "rmnetns"} /\ proc[c].ip = ip
       /\ \/ tenant[ip] # NoContainer
          \/ \E c \in Containers : link[c] = ip
          \/ \E c \in Containers : Dropping(c) /\ proc[c].ip = ip

\* An address is allocated to a container without a fixed IP only as long as it runs.
LentOK(ip) ==
    ipam[ip] # NoContainer /\ ~Fixed(ipam[ip]) => Claims(ipam[ip]) /\ proc[ipam[ip]].ip = ip

\* Nobody names an address, and opens its lock file, while one is being deleted, and no
\* start has to be undone.
UnseenOK(c) ==
    /\ ~Undoing(c)
    /\ proc[c].pc = "rmnetns" => flock[proc[c].ip] = 0
    /\ Deleting(c) => \A d \in Containers : ~Naming(d)

LeftInd ==
    /\ \A c \in Containers : BystanderOK(c) /\ LinkOK(c) /\ UnseenOK(c)
    /\ \A ip \in IPs : TenantOK(ip) /\ StandsOK(ip) /\ LentOK(ip)

\* What the steps rely on.
Calm == CNIInd /\ LeftInd /\ Orderly /\ NoFixedSpecific

\* c's handler goes on as g, the others do not move.
LEMMA Moved ==
    ASSUME CNITypeOK, NEW c \in Containers, NEW g, proc' = [proc EXCEPT ![c] = g]
    PROVE  proc'[c] = g /\ \A d \in Containers \ {c} : proc'[d] = proc[d]
BY DEF CNITypeOK

\* Who is in DeleteNetEndpoint is deleting a container.
LEMMA NotUndoing ==
    ASSUME CNIInd, LeftInd, NEW c \in Containers
    PROVE  /\ ~Undoing(c) /\ proc[c].pc # "undo"
           /\ proc[c].pc \in {"rmtenant", "rmowner", "rmflock", "rmnetns"} => Removing(c)
<1>1. ~Undoing(c) /\ OpOK(c)
  BY DEF LeftInd, UnseenOK, CNIInd
<1> QED BY <1>1 DEF Undoing, Removing, OpOK

\* A tenant file has its tenant in it.
LEMMA NoEmptyTenant ==
    ASSUME LeftInd, NEW ip \in IPs, tenant[ip] \notin Containers
    PROVE  tenant[ip] = NoContainer
BY DEF LeftInd, TenantOK

\* Only a container that uses an endpoint, or is about to free it, is a tenant.
LEMMA NoTenancy ==
    ASSUME CNIInd, LeftInd, NEW c \in Containers,
           proc[c].pc \notin {"prepared", "made", "connect", "running", "free"},
           ~(proc[c].pc = "get" /\ proc[c].op = "delete")
    PROVE  \A ip \in IPs : tenant[ip] # c
<1>1. ASSUME NEW ip \in IPs, tenant[ip] = c PROVE FALSE
  <2>1. WillFree(c, ip)
    BY <1>1, NullAssumption DEF LeftInd, TenantOK
  <2> QED BY <2>1 DEF WillFree, Using
<1> QED BY <1>1

\* A tenant that does not move will still free the endpoint.
LEMMA TenantStays ==
    ASSUME CNIInd, LeftInd, UNCHANGED cniSetting, NEW ip \in IPs, NEW d \in Containers,
           tenant[ip] = d, proc'[d] = proc[d], link'[d] = link[d]
    PROVE  WillFree(d, ip)'
<1>1. WillFree(d, ip)
  BY NullAssumption DEF LeftInd, TenantOK
<1>2. (Fixed(d)' <=> Fixed(d)) /\ Want'[d] = Want[d] /\ (Using(d)' <=> Using(d))
  BY SameSetting, OthersStay
<1> QED BY <1>1, <1>2 DEF WillFree, Target

\* A step that changes no files and no allocations.
LEMMA QuietLeft ==
    ASSUME CNIInd, LeftInd, UNCHANGED <<cniSetting, files, ipam>>, NEW c \in Containers, NEW g,
           proc' = [proc EXCEPT ![c] = g],
           \A ip \in IPs : tenant[ip] = c => WillFree(c, ip)',
           Claims(c) => /\ Claims(c)' /\ g.hook /\ g.ip = proc[c].ip
                        /\ Fixed(c) /\ proc[c].pc \in {"made", "owner"} => g.pc \in {"made", "owner"}
                        /\ proc[c].pc \in {"file", "mount", "connect", "tenant"} =>
                              g.pc \in {"file", "mount", "connect", "tenant"},
           Dropping(c) => \/ Dropping(c)' /\ g.ip = proc[c].ip
                          \/ tenant[proc[c].ip] # NoContainer
                          \/ \E d \in Containers : link[d] = proc[c].ip,
           proc[c].pc \in {"rmflock", "rmnetns"} =>
              g.pc \in {"rmflock", "rmnetns"} /\ g.ip = proc[c].ip,
           BystanderOK(c)', LinkOK(c)', g.pc = "rmnetns" => flock'[g.ip] = 0,
           g.op = "start" => g.pc \in {"owner", "file", "mount", "connect", "tenant"},
           \A d \in Containers \ {c} : proc[d].pc = "rmnetns" =>
              flock'[proc[d].ip] = flock[proc[d].ip],
           Naming(c)' => Naming(c) \/ \A d \in Containers : ~Deleting(d),
           Deleting(c)' => Deleting(c) \/ \A d \in Containers : ~Naming(d),
           ~(Naming(c)' /\ Deleting(c)')
    PROVE  LeftInd'
<1> USE DEF files
<1>0. CNITypeOK
  BY DEF CNIInd
<1>1. proc'[c] = g /\ \A d \in Containers \ {c} : proc'[d] = proc[d]
  BY <1>0, Moved
<1>2. ASSUME NEW d \in Containers \ {c}
      PROVE  /\ Dropping(d)' <=> Dropping(d)
             /\ Naming(d)' <=> Naming(d)
             /\ Claims(d)' <=> Claims(d)
             /\ Deleting(d)' <=> Deleting(d)
             /\ Undoing(d)' <=> Undoing(d)
  BY <1>1, OthersStay
<1>3. \A d \in Containers : Fixed(d)' <=> Fixed(d)
  BY SameSetting
<1>4. ASSUME NEW d \in Containers \ {c} PROVE BystanderOK(d)' /\ LinkOK(d)'
  BY <1>1, <1>3 DEF LeftInd, BystanderOK, LinkOK, Idle
<1>5. ASSUME NEW d \in Containers PROVE UnseenOK(d)'
  <2>1. d # c => UnseenOK(d)
    BY DEF LeftInd
  <2>2. proc'[d].pc = "rmnetns" => flock'[proc'[d].ip] = 0
    BY <1>1, <2>1 DEF UnseenOK
  <2>3. ASSUME Deleting(d)', NEW e \in Containers PROVE ~Naming(e)'
    <3>1. \A x \in Containers : UnseenOK(x)
      BY DEF LeftInd
    <3>2. CASE d = c /\ e = c
      BY <2>3, <3>2
    <3>3. CASE d = c /\ e # c
      BY <1>2, <2>3, <3>1, <3>3 DEF UnseenOK
    <3>4. CASE d # c /\ e = c
      BY <1>2, <2>3, <3>1, <3>4 DEF UnseenOK
    <3>5. CASE d # c /\ e # c
      BY <1>2, <2>3, <3>1, <3>5 DEF UnseenOK
    <3> QED BY <3>2, <3>3, <3>4, <3>5
  <2>4. ~Undoing(d)'
    <3>1. CASE d = c
      BY <1>1, <3>1 DEF Undoing
    <3>2. CASE d # c
      BY <1>2, <2>1, <3>2 DEF UnseenOK
    <3> QED BY <3>1, <3>2
  <2> QED BY <2>2, <2>3, <2>4 DEF UnseenOK
<1>6. ASSUME NEW ip \in IPs PROVE TenantOK(ip)'
  <2>0. tenant[ip] # NoContainer => tenant[ip] \in Containers
    BY DEF LeftInd, TenantOK
  <2>1. SUFFICES ASSUME NEW d \in Containers, tenant[ip] = d PROVE WillFree(d, ip)'
    BY <2>0 DEF TenantOK
  <2>2. CASE d = c
    BY <2>1, <2>2
  <2>3. CASE d # c
    BY <1>1, <2>1, <2>3, TenantStays
  <2> QED BY <2>2, <2>3
<1>7. ASSUME NEW ip \in IPs PROVE StandsOK(ip)'
  <2>1. StandsOK(ip) /\ ipam[ip] \in Containers \cup {NoContainer}
    BY <1>0 DEF LeftInd, CNITypeOK
  <2>2. CASE Fresh(ip)
    <3>1. CASE ipam[ip] = NoContainer
      BY <3>1 DEF StandsOK, Fresh
    <3>2. CASE ipam[ip] \in Containers \ {c}
      BY <1>1, <1>3, <2>2, <3>2 DEF StandsOK, Fresh
    <3>3. CASE ipam[ip] = c /\ ~Fixed(c)
      BY <1>3, <3>3 DEF StandsOK, Fresh
    <3>4. CASE ipam[ip] = c /\ Fixed(c)
      <4>1. proc[c].hook /\ proc[c].ip = ip /\ proc[c].pc \in {"made", "owner"}
        BY <2>2, <3>4, NullAssumption DEF Fresh
      <4>2. g.hook /\ g.ip = ip /\ g.pc \in {"made", "owner"}
        BY <3>4, <4>1 DEF Claims
      <4> QED BY <1>1, <3>4, <4>2 DEF StandsOK, Fresh
    <3> QED BY <2>1, <3>1, <3>2, <3>3, <3>4
  <2>3. CASE \E x \in Containers : Makes(x, ip) /\ owner[ip] # NoContainer
    <3>1. PICK x \in Containers : Makes(x, ip) /\ owner[ip] # NoContainer
      BY <2>3
    <3>2. CASE x # c
      <4>1. Makes(x, ip)'
        BY <1>1, <1>2, <3>1, <3>2 DEF Makes
      <4> QED BY <3>1, <4>1 DEF StandsOK
    <3>3. CASE x = c
      <4>1. Claims(c)
        BY <3>1, <3>3 DEF Makes, Claims
      <4>2. Makes(c, ip)'
        BY <1>1, <3>1, <3>3, <4>1, NotUndoing DEF Makes
      <4> QED BY <3>1, <4>2 DEF StandsOK
    <3> QED BY <3>2, <3>3
  <2>4. CASE /\ Mounted(ip)
             /\ \/ owner[ip] # NoContainer
                \/ \E d \in Containers : proc[d].pc \in {"rmflock", "rmnetns"} /\ proc[d].ip = ip
             /\ \/ tenant[ip] # NoContainer
                \/ \E d \in Containers : link[d] = ip
                \/ \E d \in Containers : Dropping(d) /\ proc[d].ip = ip
    <3>1. \/ owner'[ip] # NoContainer
          \/ \E d \in Containers : proc'[d].pc \in {"rmflock", "rmnetns"} /\ proc'[d].ip = ip
      BY <1>1, <2>4
    <3>2. \/ tenant'[ip] # NoContainer
          \/ \E d \in Containers : link'[d] = ip
          \/ \E d \in Containers : Dropping(d)' /\ proc'[d].ip = ip
      BY <1>1, <1>2, <2>4
    <3> QED BY <2>4, <3>1, <3>2 DEF StandsOK, Mounted
  <2> QED BY <2>1, <2>2, <2>3, <2>4 DEF StandsOK
<1>8. ASSUME NEW ip \in IPs PROVE LentOK(ip)'
  <2>1. LentOK(ip) /\ ipam[ip] \in Containers \cup {NoContainer}
    BY <1>0 DEF LeftInd, CNITypeOK
  <2>2. SUFFICES ASSUME NEW x \in Containers, ipam[ip] = x, ~Fixed(x)'
                 PROVE  Claims(x)' /\ proc'[x].ip = ip
    BY <2>1 DEF LentOK
  <2>3. Claims(x) /\ proc[x].ip = ip
    BY <1>3, <2>1, <2>2, NullAssumption DEF LentOK
  <2> QED BY <1>1, <1>2, <2>3
<1> QED BY <1>4, <1>5, <1>6, <1>7, <1>8 DEF LeftInd

\* A step that changes the files, or the allocation, of ip, or c's link to it.
LEMMA LeftStep ==
    ASSUME CNIInd, LeftInd, UNCHANGED cniSetting, NEW c \in Containers, NEW g,
           proc' = [proc EXCEPT ![c] = g], NEW ip \in IPs, OnlyAt(ip),
           \A d \in Containers \ {c} : link'[d] = link[d],
           link'[c] = link[c] \/ link[c] \in {ip, NoIP},
           \A jp \in IPs \ {ip} : tenant[jp] # c,
           Claims(c) \/ Dropping(c) => proc[c].ip = ip,
           BystanderOK(c)', LinkOK(c)', g.pc # "rmnetns", flock'[ip] = flock[ip],
           g.op = "start" => g.pc \in {"owner", "file", "mount", "connect", "tenant"},
           \A d \in Containers \ {c} : link[d] = ip => owner'[ip] # NoContainer,
           ~Naming(c)', Deleting(c)' => Deleting(c),
           TenantOK(ip)', StandsOK(ip)', LentOK(ip)'
    PROVE  LeftInd'
<1>0. CNITypeOK
  BY DEF CNIInd
<1>1. proc'[c] = g /\ \A d \in Containers \ {c} : proc'[d] = proc[d]
  BY <1>0, Moved
<1>2. ASSUME NEW d \in Containers \ {c}
      PROVE  /\ Dropping(d)' <=> Dropping(d)
             /\ Naming(d)' <=> Naming(d)
             /\ Claims(d)' <=> Claims(d)
             /\ Deleting(d)' <=> Deleting(d)
             /\ Undoing(d)' <=> Undoing(d)
  BY <1>1, OthersStay
<1>3. \A d \in Containers : Fixed(d)' <=> Fixed(d)
  BY SameSetting
<1>4. ASSUME NEW d \in Containers \ {c} PROVE BystanderOK(d)' /\ LinkOK(d)'
  <2>1. BystanderOK(d) /\ LinkOK(d) /\ link[d] \in IPs \cup {NoIP}
    BY <1>0 DEF LeftInd, CNITypeOK
  <2>2. BystanderOK(d)'
    BY <1>1, <2>1 DEF BystanderOK, Idle
  <2>3. LinkOK(d)'
    BY <1>1, <1>3, <2>1 DEF LinkOK, OnlyAt
  <2> QED BY <2>2, <2>3
<1>5. ASSUME NEW d \in Containers PROVE UnseenOK(d)'
  <2>1. \A x \in Containers : UnseenOK(x) /\ AddressOK(x)
    BY DEF LeftInd, CNIInd
  <2>2. proc'[d].pc = "rmnetns" => flock'[proc'[d].ip] = 0
    <3>1. proc[d].pc = "rmnetns" => proc[d].ip \in IPs
      BY <2>1, NotUndoing DEF AddressOK, Busy, Dropping
    <3> QED BY <1>1, <2>1, <3>1 DEF UnseenOK, OnlyAt
  <2>3. ASSUME Deleting(d)', NEW e \in Containers PROVE ~Naming(e)'
    BY <1>2, <2>1, <2>3 DEF UnseenOK
  <2>4. ~Undoing(d)'
    <3>1. CASE d = c
      BY <1>1, <3>1 DEF Undoing
    <3>2. CASE d # c
      BY <1>2, <2>1, <3>2 DEF UnseenOK
    <3> QED BY <3>1, <3>2
  <2> QED BY <2>2, <2>3, <2>4 DEF UnseenOK
<1>6. ASSUME NEW jp \in IPs \ {ip} PROVE TenantOK(jp)'
  <2>0. tenant'[jp] = tenant[jp]
    BY DEF OnlyAt
  <2>2. tenant[jp] # NoContainer => tenant[jp] \in Containers
    BY DEF LeftInd, TenantOK
  <2>1. SUFFICES ASSUME NEW d \in Containers, tenant[jp] = d PROVE WillFree(d, jp)'
    BY <2>0, <2>2 DEF TenantOK
  <2> QED BY <1>1, <2>1, TenantStays
<1>7. ASSUME NEW jp \in IPs \ {ip} PROVE StandsOK(jp)'
  <2>1. StandsOK(jp) /\ ipam[jp] \in Containers \cup {NoContainer}
    BY <1>0 DEF LeftInd, CNITypeOK
  <2>2. /\ ipam'[jp] = ipam[jp] /\ owner'[jp] = owner[jp] /\ tenant'[jp] = tenant[jp]
        /\ netns'[jp] = netns[jp]
    BY DEF OnlyAt
  <2>3. CASE Fresh(jp)
    <3>1. CASE ipam[jp] = NoContainer
      BY <2>2, <3>1 DEF StandsOK, Fresh
    <3>2. CASE ipam[jp] \in Containers \ {c}
      BY <1>1, <1>3, <2>2, <2>3, <3>2 DEF StandsOK, Fresh
    <3>3. CASE ipam[jp] = c /\ ~Fixed(c)
      BY <1>3, <2>2, <3>3 DEF StandsOK, Fresh
    <3>4. CASE ipam[jp] = c /\ Fixed(c)
      BY <2>3, <3>4, NullAssumption DEF Fresh, Claims
    <3> QED BY <2>1, <3>1, <3>2, <3>3, <3>4
  <2>4. CASE \E x \in Containers : Makes(x, jp) /\ owner[jp] # NoContainer
    <3>1. PICK x \in Containers : Makes(x, jp) /\ owner[jp] # NoContainer
      BY <2>4
    <3>2. x # c
      BY <3>1 DEF Makes, Claims
    <3>3. Makes(x, jp)'
      BY <1>1, <1>2, <2>2, <3>1, <3>2 DEF Makes
    <3> QED BY <2>2, <3>1, <3>3 DEF StandsOK
  <2>5. CASE /\ Mounted(jp)
             /\ \/ owner[jp] # NoContainer
                \/ \E d \in Containers : proc[d].pc \in {"rmflock", "rmnetns"} /\ proc[d].ip = jp
             /\ \/ tenant[jp] # NoContainer
                \/ \E d \in Containers : link[d] = jp
                \/ \E d \in Containers : Dropping(d) /\ proc[d].ip = jp
    <3>1. \A d \in Containers : Dropping(d) /\ proc[d].ip = jp => d # c
      OBVIOUS
    <3>2. \/ owner'[jp] # NoContainer
          \/ \E d \in Containers : proc'[d].pc \in {"rmflock", "rmnetns"} /\ proc'[d].ip = jp
      BY <1>1, <2>2, <2>5, <3>1, NotUndoing DEF Dropping
    <3>3. \A d \in Containers : link[d] = jp => link'[d] = jp
      BY NullAssumption
    <3>4. \/ tenant'[jp] # NoContainer
          \/ \E d \in Containers : link'[d] = jp
          \/ \E d \in Containers : Dropping(d)' /\ proc'[d].ip = jp
      BY <1>1, <1>2, <2>2, <2>5, <3>1, <3>3
    <3> QED BY <2>2, <2>5, <3>2, <3>4 DEF StandsOK, Mounted
  <2> QED BY <2>1, <2>3, <2>4, <2>5 DEF StandsOK
<1>8. ASSUME NEW jp \in IPs \ {ip} PROVE LentOK(jp)'
  <2>1. LentOK(jp) /\ ipam[jp] \in Containers \cup {NoContainer} /\ ipam'[jp] = ipam[jp]
    BY <1>0 DEF LeftInd, CNITypeOK, OnlyAt
  <2>2. SUFFICES ASSUME NEW x \in Containers, ipam[jp] = x, ~Fixed(x)'
                 PROVE  Claims(x)' /\ proc'[x].ip = jp
    BY <2>1 DEF LentOK
  <2>3. Claims(x) /\ proc[x].ip = jp
    BY <1>3, <2>1, <2>2, NullAssumption DEF LentOK
  <2> QED BY <1>1, <1>2, <2>3
<1> QED BY <1>4, <1>5, <1>6, <1>7, <1>8 DEF LeftInd

\* Who does something is a client's container, whose IP is fixed or named, not both.
LEMMA Acting ==
    ASSUME Calm, NEW c \in Containers, proc[c].pc # "stopped" \/ c \in cniSetting.containers
    PROVE  c \in cniSetting.containers /\ (Fixed(c) <=> ~Specific(c))
<1>1. c \in cniSetting.containers
  BY DEF Calm, LeftInd, BystanderOK, Idle
<1> QED BY <1>1, SettingType DEF Calm, NoFixedSpecific, Fixed, Specific

\* A step of c that leaves its link keeps LinkOK and BystanderOK.
LEMMA LinkStays ==
    ASSUME Calm, UNCHANGED <<cniSetting, link>>, NEW c \in Containers, NEW g, proc'[c] = g,
           proc[c].pc # "stopped" \/ c \in cniSetting.containers,
           link[c] # NoIP => owner'[link[c]] = owner[link[c]],
           link[c] # NoIP => g.pc # "removed" /\ (g.op = "remove" => g.pc \in {"get", "disconnect"})
    PROVE  BystanderOK(c)' /\ LinkOK(c)'
<1>1. c \in cniSetting.containers
  BY Acting
<1>2. Fixed(c)' <=> Fixed(c)
  BY SameSetting
<1> QED BY <1>1, <1>2 DEF Calm, LeftInd, BystanderOK, LinkOK

\* A container that has nothing yet, or nothing any more, goes on.
LEMMA EmptyHanded ==
    ASSUME Calm, UNCHANGED <<cniSetting, files, ipam>>, NEW c \in Containers, NEW g,
           proc' = [proc EXCEPT ![c] = g],
           proc[c].pc # "stopped" \/ c \in cniSetting.containers,
           proc[c].pc \notin {"prepared", "made", "connect", "running", "free"},
           ~(proc[c].pc = "get" /\ proc[c].op = "delete"),
           ~Claims(c), ~Dropping(c),
           link[c] # NoIP => g.pc # "removed" /\ (g.op = "remove" => g.pc \in {"get", "disconnect"}),
           g.pc # "rmnetns", g.op # "start",
           \A d \in Containers \ {c} : proc[d].pc = "rmnetns" =>
              flock'[proc[d].ip] = flock[proc[d].ip],
           Naming(c)' => Naming(c) \/ \A d \in Containers : ~Deleting(d),
           Deleting(c)' => Deleting(c) \/ \A d \in Containers : ~Naming(d)
    PROVE  LeftInd'
<1>1. CNIInd /\ LeftInd /\ proc'[c] = g
  BY Moved DEF Calm, CNIInd
<1>2. \A ip \in IPs : tenant[ip] # c
  BY <1>1, NoTenancy
<1>3. BystanderOK(c)' /\ LinkOK(c)'
  BY <1>1, LinkStays DEF files
<1>4. proc[c].pc \notin {"rmflock", "rmnetns"}
  BY <1>1, NotUndoing DEF Dropping
<1>5. ~(Naming(c)' /\ Deleting(c)')
  BY DEF Naming, Deleting
<1> QED BY <1>1, <1>2, <1>3, <1>4, <1>5, QuietLeft

\* HandleCreate waits for deletions to end.
LEMMA HandleCreateLeaves ==
    ASSUME Calm, UNCHANGED cniSetting, NEW c \in Containers, HandleCreate(c)
    PROVE  LeftInd'
<1>1. PICK g : g = [Idle EXCEPT !.pc = CreateFirst(c), !.op = "create"]
  OBVIOUS
<1>2. /\ proc' = [proc EXCEPT ![c] = g] /\ UNCHANGED <<files, flock, ipam>> /\ proc[c].pc = "stopped"
      /\ Patient(c) /\ c \in cniSetting.containers
  BY <1>1 DEF HandleCreate, locks
<1>3. g.pc \in {"flock", "get"} /\ g.op = "create"
  BY <1>1 DEF Idle, CreateFirst
<1>4. ~Claims(c) /\ ~Dropping(c) /\ ~Deleting(c)
  BY <1>2 DEF Claims, Dropping, Removing, Undoing, Deleting, Calm, CNIInd, OpOK
<1>5. proc'[c] = g
  BY <1>2, Moved DEF Calm, CNIInd
<1>6. Naming(c)' => \A d \in Containers : ~Deleting(d)
  <2>1. Naming(c)' => Specific(c)
    BY SameSetting DEF Naming
  <2>2. Specific(c) => \A d \in Containers \ {c} : ~Deleting(d)
    BY <1>2 DEF Patient, Calm, Orderly
  <2> QED BY <1>4, <2>1, <2>2
<1>7. ~Deleting(c)'
  BY <1>3, <1>5 DEF Deleting
<1> QED BY <1>2, <1>3, <1>4, <1>6, <1>7, EmptyHanded

\* RemoveNetwork.
LEMMA RemoveNetworkLeaves ==
    ASSUME Calm, UNCHANGED cniSetting, NEW c \in Containers, RemoveNetwork(c)
    PROVE  LeftInd'
<1>1. PICK g : g = IF Fixed(c) THEN [Idle EXCEPT !.pc = "get", !.op = "remove"]
                               ELSE [Idle EXCEPT !.pc = "removed"]
  OBVIOUS
<1>2. /\ proc' = [proc EXCEPT ![c] = g] /\ UNCHANGED <<files, flock, ipam>> /\ proc[c].pc = "stopped"
      /\ c \in cniSetting.containers
  BY <1>1 DEF RemoveNetwork, locks
<1>3. \/ Fixed(c) /\ g.pc = "get" /\ g.op = "remove"
      \/ ~Fixed(c) /\ g.pc = "removed" /\ g.op = "none"
  BY <1>1 DEF Idle
<1>4. link[c] # NoIP => Fixed(c)
  BY DEF Calm, LeftInd, LinkOK
<1>5. ~Claims(c) /\ ~Dropping(c)
  BY <1>2 DEF Claims, Dropping, Removing, Undoing, Deleting
<1>6. proc'[c] = g
  BY <1>2, Moved DEF Calm, CNIInd
<1>7. ~Naming(c)' /\ ~Deleting(c)'
  BY <1>3, <1>6 DEF Naming, Deleting
<1> QED BY <1>2, <1>3, <1>4, <1>5, <1>7, EmptyHanded

\* GetFlock of HandleCreate: nobody is removing the file.
LEMMA CreateFlockLeaves ==
    ASSUME Calm, UNCHANGED cniSetting, NEW c \in Containers, CreateFlock(c)
    PROVE  LeftInd'
<1>1. PICK ip : ip = Want[c]
  OBVIOUS
<1>2. /\ ip \in IPs /\ proc[c].pc = "flock" /\ proc[c].op = "create" /\ OpenFlock(c, ip, "lock")
      /\ UNCHANGED <<files, ipam>> /\ CNITypeOK
  BY <1>1, SettingType DEF CreateFlock, Calm, CNIInd
<1>3. PICK i \in Inodes : /\ flock' = [flock EXCEPT ![ip] = i]
                          /\ proc' = [proc EXCEPT ![c] = [proc[c] EXCEPT !.fd = i, !.pc = "lock"]]
                          /\ flock[ip] # 0 => i = flock[ip]
  BY <1>2, FlockOpened
<1>4. PICK g : g = [proc[c] EXCEPT !.fd = i, !.pc = "lock"]
  OBVIOUS
<1>5. g.pc = "lock" /\ g.op = "create" /\ proc'[c] = g /\ proc' = [proc EXCEPT ![c] = g]
  <2>1. g.pc = "lock" /\ g.op = "create"
    BY <1>2, <1>4, ProcType DEF Proc
  <2> QED BY <1>2, <1>3, <1>4, <2>1, Moved
<1>6. Naming(c) /\ ~Dropping(c) /\ ~Claims(c)
  BY <1>2 DEF Naming, Dropping, Removing, Undoing, Claims, Calm, CNIInd, OpOK
<1>7. ASSUME NEW d \in Containers, proc[d].pc = "rmnetns" PROVE FALSE
  <2>1. Deleting(d)
    BY <1>7, NotUndoing DEF Deleting, Calm, CNIInd, OpOK
  <2> QED BY <1>6, <2>1 DEF Calm, LeftInd, UnseenOK
<1>8. ~Deleting(c)'
  BY <1>5 DEF Deleting
<1> QED BY <1>2, <1>5, <1>6, <1>7, <1>8, EmptyHanded

\* Its lock,
LEMMA CreateLockLeaves ==
    ASSUME Calm, UNCHANGED cniSetting, NEW c \in Containers, CreateLock(c)
    PROVE  LeftInd'
<1>1. PICK g : g = [proc[c] EXCEPT !.pc = "get"]
  OBVIOUS
<1>2. /\ proc' = [proc EXCEPT ![c] = g] /\ UNCHANGED <<files, flock, ipam>> /\ proc[c].pc = "lock"
      /\ proc[c].op = "create"
  BY <1>1 DEF CreateLock, ProcGoto
<1>3. g.pc = "get" /\ g.op = "create" /\ proc'[c] = g
  BY <1>1, <1>2, ProcType, Moved DEF Proc, Calm, CNIInd
<1>4. Naming(c) /\ ~Dropping(c) /\ ~Claims(c)
  BY <1>2 DEF Naming, Dropping, Removing, Undoing, Claims, Calm, CNIInd, OpOK
<1>5. ~Deleting(c)'
  BY <1>3 DEF Deleting
<1> QED BY <1>2, <1>3, <1>4, <1>5, EmptyHanded

\* and its look-up.
LEMMA CreateGetLeaves ==
    ASSUME Calm, UNCHANGED cniSetting, NEW c \in Containers, CreateGet(c)
    PROVE  LeftInd'
<1>1. PICK g : /\ proc' = [proc EXCEPT ![c] = g] /\ g.pc \in {"prepared", "stopped", "occupy"}
               /\ g.op \notin {"remove", "start"} /\ (g.pc = "occupy" => g.op = "create")
               /\ g.pc # "occupy" => g.op = "none"
  <2> DEFINE nep == GetNetEndpoint(c, ~Specific(c))
  <2>1. nep \in {"nil", "error", "found"}
    BY DEF GetNetEndpoint, Get
  <2>2. CASE nep = "nil"
    <3> DEFINE h == Prepared(c, NoIP, TRUE)
    <3>1. proc' = [proc EXCEPT ![c] = h]
      BY <2>2 DEF CreateGet, Return
    <3>2. h.pc = "prepared" /\ h.op = "none"
      BY DEF Prepared, Idle
    <3> HIDE DEF h
    <3> QED BY <3>1, <3>2
  <2>3. CASE nep = "error"
    <3>1. proc' = [proc EXCEPT ![c] = Idle]
      BY <2>3 DEF CreateGet, Return
    <3>2. Idle.pc = "stopped" /\ Idle.op = "none"
      BY DEF Idle
    <3> QED BY <3>1, <3>2
  <2>4. CASE nep = "found"
    <3> DEFINE h == [proc[c] EXCEPT !.pc = "occupy", !.ip = Target(c, ~Specific(c))]
    <3>1. proc' = [proc EXCEPT ![c] = h]
      BY <2>4 DEF CreateGet
    <3>2. h.pc = "occupy" /\ h.op = "create"
      BY ProcType DEF CreateGet, Calm, CNIInd, Proc
    <3> HIDE DEF h
    <3> QED BY <3>1, <3>2
  <2> QED BY <2>1, <2>2, <2>3, <2>4
<1>2. UNCHANGED <<files, flock, ipam>> /\ proc[c].pc = "get" /\ proc[c].op = "create"
  BY DEF CreateGet
<1>3. ~Dropping(c) /\ ~Claims(c) /\ proc'[c] = g
  BY <1>1, <1>2, Moved DEF Dropping, Removing, Undoing, Claims, Calm, CNIInd
<1>4. ~Deleting(c)' /\ (Naming(c)' => Naming(c))
  BY <1>1, <1>2, <1>3, SameSetting DEF Deleting, Naming
<1> QED BY <1>1, <1>2, <1>3, <1>4, EmptyHanded

\* BorrowNetEndpoint: c is the tenant, and finds the endpoint again.
LEMMA BorrowLeaves ==
    ASSUME Calm, UNCHANGED cniSetting, NEW c \in Containers, Borrow(c)
    PROVE  LeftInd'
<1>0. PICK ip : ip = proc[c].ip
  OBVIOUS
<1>1. UNCHANGED <<owner, netns, link, flock, ipam>> /\ proc[c].pc = "occupy"
  BY DEF Borrow
<1>2. /\ CNIInd /\ LeftInd /\ CNITypeOK /\ Busy(c) /\ ip \in IPs /\ proc[c].op = "create"
      /\ ~Claims(c) /\ ~Dropping(c) /\ ~Deleting(c)
  BY <1>0, <1>1 DEF Calm, CNIInd, AddressOK, OpOK, Busy, Claims, Dropping, Removing, Undoing, Deleting
<1>3. CASE UNCHANGED tenant /\ Return(c, Idle)
  <2>1. proc' = [proc EXCEPT ![c] = Idle] /\ proc'[c] = Idle /\ Idle.pc = "stopped" /\ Idle.op = "none"
    BY <1>2, <1>3, Moved DEF Return, Idle
  <2>2. ~Naming(c)' /\ ~Deleting(c)'
    BY <2>1 DEF Naming, Deleting
  <2> QED BY <1>1, <1>2, <1>3, <2>1, <2>2, EmptyHanded DEF files
<1>4. CASE Occupied(c, ip) /\ Return(c, Prepared(c, ip, FALSE))
  <2>1. PICK g : g = Prepared(c, ip, FALSE)
    OBVIOUS
  <2>2. /\ proc' = [proc EXCEPT ![c] = g] /\ g.pc = "prepared" /\ g.op = "none" /\ g.ip = ip /\ ~g.hook
    BY <1>4, <2>1 DEF Return, Prepared, Idle
  <2>3. tenant' = [tenant EXCEPT ![ip] = c]
    BY <1>4 DEF Occupied
  <2>4. proc'[c] = g /\ (\A d \in Containers \ {c} : proc'[d] = proc[d])
        /\ tenant'[ip] = c /\ OnlyAt(ip)
    BY <1>1, <1>2, <2>2, <2>3, Moved DEF OnlyAt, CNITypeOK
  <2>5. BystanderOK(c)' /\ LinkOK(c)'
    BY <1>1, <2>2, <2>4, LinkStays
  <2>6. TenantOK(ip)'
    <3>1. (Fixed(c)' <=> Fixed(c)) /\ Want'[c] = Want[c] /\ Using(c)'
      BY <2>2, <2>4, SameSetting DEF Using
    <3>2. Target(c, Fixed(c)) = ip
      BY <1>0, <1>1, <1>2, Acting DEF Target, CNIInd, UserOK, AddressOK
    <3>3. WillFree(c, ip)'
      BY <1>1, <2>2, <2>4, <3>1, <3>2 DEF WillFree, Target
    <3> QED BY <2>4, <3>3 DEF TenantOK
  <2>7. ~Fresh(ip) /\ \A x \in Containers : ~Makes(x, ip)
    BY <1>0, <1>2, BusyStands
  <2>8. StandsOK(ip)'
    <3>1. Mounted(ip) /\ \/ owner[ip] # NoContainer
                         \/ \E d \in Containers : proc[d].pc \in {"rmflock", "rmnetns"} /\ proc[d].ip = ip
      BY <1>2, <2>7 DEF LeftInd, StandsOK
    <3>2. \/ owner'[ip] # NoContainer
          \/ \E d \in Containers : proc'[d].pc \in {"rmflock", "rmnetns"} /\ proc'[d].ip = ip
      BY <1>1, <2>4, <3>1
    <3> QED BY <1>1, <2>4, <3>1, <3>2, NullAssumption DEF StandsOK, Mounted
  <2>9. LentOK(ip)'
    <3>1. ipam[ip] \in Containers /\ Fixed(ipam[ip])
      BY <1>2, <2>7 DEF Fresh, CNITypeOK
    <3>2. Fixed(ipam[ip])'
      BY <1>1, <3>1 DEF Fixed, KindOf
    <3> QED BY <3>2 DEF LentOK
  <2>10. ~Naming(c)' /\ ~Deleting(c)'
    BY <2>2, <2>4 DEF Naming, Deleting
  <2>11. \A jp \in IPs : tenant[jp] # c
    BY <1>1, <1>2, NoTenancy
  <2>12. \A d \in Containers : link[d] = ip => owner[ip] # NoContainer
    BY <1>2, NullAssumption DEF LeftInd, LinkOK
  <2> QED BY <1>1, <1>2, <2>2, <2>4, <2>5, <2>6, <2>8, <2>9, <2>10, <2>11, <2>12, LeftStep
<1> QED BY <1>0, <1>3, <1>4 DEF Borrow, OccupyFails, Calm, Orderly

\* runc creates the container, or fails before it has an address from CNI.
LEMMA RuncCreateLeaves ==
    ASSUME Calm, UNCHANGED cniSetting, NEW c \in Containers, RuncCreate(c)
    PROVE  LeftInd'
<1>1. UNCHANGED <<files, flock>> /\ proc[c].pc = "prepared"
  BY DEF RuncCreate, locks
<1>2. /\ CNIInd /\ LeftInd /\ CNITypeOK /\ proc[c] \in Proc /\ proc[c].op = "none"
      /\ ~Claims(c) /\ ~Dropping(c)
  BY <1>1, ProcType DEF Calm, CNIInd, OpOK, Claims, Dropping, Removing, Undoing
<1>3. (Fixed(c)' <=> Fixed(c)) /\ Want'[c] = Want[c]
  BY SameSetting
<1>4. CASE \/ CreateFails(c) /\ UNCHANGED ipam
           \/ ~proc[c].hook /\ ProcGoto(c, "made") /\ UNCHANGED ipam
  <2>1. PICK g : /\ proc' = [proc EXCEPT ![c] = g] /\ g.ip = proc[c].ip /\ g.hook = proc[c].hook
                 /\ \/ g.pc = "get" /\ g.op = "delete"
                    \/ g.pc = "made" /\ g.op = "none" /\ ~g.hook
    <3>1. CASE CreateFails(c)
      <4> DEFINE h == [proc[c] EXCEPT !.pc = "get", !.op = "delete"]
      <4>1. proc' = [proc EXCEPT ![c] = h]
        BY <1>2, <3>1 DEF CreateFails, CNITypeOK
      <4>2. h.ip = proc[c].ip /\ h.hook = proc[c].hook /\ h.pc = "get" /\ h.op = "delete"
        BY <1>2 DEF Proc
      <4> HIDE DEF h
      <4> QED BY <4>1, <4>2
    <3>2. CASE ~proc[c].hook /\ ProcGoto(c, "made")
      <4> DEFINE h == [proc[c] EXCEPT !.pc = "made"]
      <4>1. proc' = [proc EXCEPT ![c] = h]
        BY <3>2 DEF ProcGoto
      <4>2. h.ip = proc[c].ip /\ h.hook = proc[c].hook /\ h.pc = "made" /\ h.op = "none"
        BY <1>2 DEF Proc
      <4> HIDE DEF h
      <4> QED BY <3>2, <4>1, <4>2
    <3> QED BY <1>4, <3>1, <3>2
  <2>2. proc'[c] = g
    BY <1>2, <2>1, Moved
  <2>3. ASSUME NEW ip \in IPs, tenant[ip] = c PROVE WillFree(c, ip)'
    <3>1. WillFree(c, ip)
      BY <1>2, <2>3, NullAssumption DEF LeftInd, TenantOK
    <3>2. proc[c].ip = ip /\ Target(c, Fixed(c)) = ip
      BY <1>1, <3>1 DEF WillFree
    <3> QED BY <1>1, <1>3, <2>1, <2>2, <3>2 DEF WillFree, Target, Using, files
  <2>4. ~Naming(c)' /\ ~Deleting(c)'
    BY <2>1, <2>2 DEF Naming, Deleting
  <2>5. BystanderOK(c)' /\ LinkOK(c)'
    BY <1>1, <2>1, <2>2, LinkStays DEF files
  <2> QED BY <1>1, <1>2, <1>4, <2>1, <2>3, <2>4, <2>5, QuietLeft
<1>5. CASE /\ proc[c].hook
           /\ \E ip \in IPs :
                /\ ipam[ip] = NoContainer
                /\ Specific(c) => ip = Want[c]
                /\ ipam' = [ipam EXCEPT ![ip] = c]
                /\ proc' = [proc EXCEPT ![c].pc = "made", ![c].ip = ip]
  <2>1. PICK ip \in IPs : /\ ipam[ip] = NoContainer
                          /\ ipam' = [ipam EXCEPT ![ip] = c]
                          /\ proc' = [proc EXCEPT ![c].pc = "made", ![c].ip = ip]
    BY <1>5
  <2>2. PICK g : g = [proc[c] EXCEPT !.pc = "made", !.ip = ip]
    OBVIOUS
  <2>3. /\ proc' = [proc EXCEPT ![c] = g] /\ g.pc = "made" /\ g.op = "none" /\ g.ip = ip /\ g.hook
    BY <1>2, <1>5, <2>1, <2>2 DEF Proc, CNITypeOK
  <2>4. proc'[c] = g /\ ipam'[ip] = c /\ OnlyAt(ip)
    BY <1>1, <1>2, <2>1, <2>3, Moved DEF OnlyAt, CNITypeOK, files
  <2>5. FreshOK(ip) /\ Fresh(ip) /\ tenant[ip] = NoContainer /\ \A d \in Containers : link[d] # ip
    BY <1>2, <2>1, NoEmptyTenant DEF CNIInd, Fresh, FreshOK, Unused
  <2>6. TenantOK(ip)'
    BY <1>1, <2>5 DEF TenantOK, files
  <2>7. StandsOK(ip)'
    BY <2>3, <2>4 DEF StandsOK, Fresh
  <2>8. LentOK(ip)'
    BY <2>3, <2>4 DEF LentOK, Claims
  <2>9. ~Naming(c)' /\ ~Deleting(c)'
    BY <2>3, <2>4 DEF Naming, Deleting
  <2>10. BystanderOK(c)' /\ LinkOK(c)'
    BY <1>1, <2>3, <2>4, LinkStays DEF files
  <2>11. \A jp \in IPs : tenant[jp] # c
    <3>1. ASSUME NEW jp \in IPs, tenant[jp] = c PROVE FALSE
      <4>1. WillFree(c, jp)
        BY <1>2, <3>1, NullAssumption DEF LeftInd, TenantOK
      <4> QED BY <1>1, <1>5, <4>1 DEF WillFree, Using
    <3> QED BY <3>1
  <2> QED BY <1>1, <1>2, <2>3, <2>4, <2>5, <2>6, <2>7, <2>8, <2>9, <2>10, <2>11, LeftStep DEF files
<1> QED BY <1>4, <1>5 DEF RuncCreate

\* HandleStart does not fail: who borrowed the endpoint finds it, the others find none.
LEMMA HandleStartLeaves ==
    ASSUME Calm, UNCHANGED cniSetting, NEW c \in Containers, HandleStart(c)
    PROVE  LeftInd'
<1> DEFINE nep == GetNetEndpoint(c, KindOf[c] = "fixed")
<1>1. UNCHANGED <<files, flock, ipam>> /\ proc[c].pc = "made"
  BY DEF HandleStart, locks
<1>2. /\ CNIInd /\ LeftInd /\ CNITypeOK /\ proc[c] \in Proc /\ proc[c].op = "none" /\ proc[c].ip \in IPs
      /\ ~Dropping(c) /\ (Fixed(c) <=> ~Specific(c))
  BY <1>1, ProcType, Acting DEF Calm, CNIInd, OpOK, AddressOK, Dropping, Removing
<1>3. (Fixed(c)' <=> Fixed(c)) /\ Want'[c] = Want[c]
  BY SameSetting
<1>4. Fixed(c) => KindOf[c] = "fixed" /\ nep = Get(link[c])
  BY <1>2, SettingType DEF GetNetEndpoint, Target, Specific
<1>5. Fixed(c) /\ ~proc[c].hook => nep = "found"
  <2>1. SUFFICES ASSUME Fixed(c), ~proc[c].hook PROVE nep = "found"
    OBVIOUS
  <2>2. Using(c) /\ Mounted(proc[c].ip) /\ link[c] = proc[c].ip
    BY <1>1, <1>2, <2>1 DEF Using, CNIInd, UserOK
  <2>3. link[c] # NoIP /\ netns[link[c]] # "absent" /\ owner[link[c]] # NoContainer
    BY <1>2, <2>2, NullAssumption DEF Mounted, LeftInd, LinkOK
  <2> QED BY <1>4, <2>1, <2>3 DEF Get
<1>6. Fixed(c) /\ proc[c].hook => nep = "nil"
  <2>1. Fixed(c) /\ proc[c].hook => link[c] = NoIP
    BY <1>1, <1>2 DEF CNIInd, ClaimOK
  <2> QED BY <1>4, <2>1 DEF Get
<1>7. PICK g : /\ proc' = [proc EXCEPT ![c] = g] /\ g.ip = proc[c].ip /\ g.hook = proc[c].hook
               /\ \/ g.pc = "running" /\ g.op = "none" /\ (Fixed(c) => ~g.hook)
                  \/ g.pc = "owner" /\ g.op = "start" /\ Fixed(c) /\ g.hook
  <2>1. CASE Fixed(c) /\ proc[c].hook
    <3> DEFINE h == [proc[c] EXCEPT !.pc = "owner", !.op = "start"]
    <3>1. proc' = [proc EXCEPT ![c] = h]
      BY <1>2, <1>6, <2>1 DEF HandleStart
    <3>2. h.ip = proc[c].ip /\ h.hook = proc[c].hook /\ h.pc = "owner" /\ h.op = "start"
      BY <1>2 DEF Proc
    <3> HIDE DEF h
    <3> QED BY <2>1, <3>1, <3>2
  <2>2. CASE ~(Fixed(c) /\ proc[c].hook)
    <3> DEFINE h == Started(c)
    <3>1. proc' = [proc EXCEPT ![c] = h]
      <4>1. CASE ~Fixed(c)
        BY <4>1 DEF HandleStart
      <4>2. CASE Fixed(c)
        <5>1. nep = "found" /\ KindOf[c] = "fixed"
          BY <1>4, <1>5, <2>2, <4>2
        <5> QED BY <4>2, <5>1 DEF HandleStart
      <4> QED BY <4>1, <4>2
    <3>2. h.ip = proc[c].ip /\ h.hook = proc[c].hook /\ h.pc = "running" /\ h.op = "none"
      BY <1>2 DEF Started, Proc
    <3> HIDE DEF h
    <3> QED BY <2>2, <3>1, <3>2
  <2> QED BY <2>1, <2>2
<1> HIDE DEF nep
<1>8. proc'[c] = g
  BY <1>2, <1>7, Moved
<1>9. ASSUME NEW ip \in IPs, tenant[ip] = c PROVE WillFree(c, ip)'
  <2>1. WillFree(c, ip)
    BY <1>2, <1>9, NullAssumption DEF LeftInd, TenantOK
  <2>2. proc[c].ip = ip /\ Target(c, Fixed(c)) = ip /\ ~proc[c].hook
    BY <1>1, <2>1 DEF WillFree, Using
  <2> QED BY <1>1, <1>3, <1>7, <1>8, <2>2 DEF WillFree, Target, Using, files
<1>10. ~Naming(c)' /\ ~Deleting(c)' /\ (Claims(c) => Claims(c)' /\ g.hook)
  BY <1>1, <1>3, <1>7, <1>8 DEF Naming, Deleting, Claims
<1>11. BystanderOK(c)' /\ LinkOK(c)'
  BY <1>1, <1>7, <1>8, LinkStays DEF files
<1> QED BY <1>1, <1>2, <1>7, <1>9, <1>10, <1>11, QuietLeft

\* The endpoint that c is making has its owner.
LEMMA MakerOwned ==
    ASSUME Calm, NEW c \in Containers, NEW ip, ip = proc[c].ip,
           \/ proc[c].pc \in {"file", "mount", "tenant"}
           \/ proc[c].pc = "connect" /\ proc[c].op = "start"
    PROVE  owner[ip] # NoContainer /\ Makes(c, ip)
<1>1. ip \in IPs /\ proc[c].hook /\ Fixed(c) /\ ipam[ip] = c /\ Unused(ip)
  BY MakerReady DEF Calm
<1>2. Makes(c, ip) /\ ~Fresh(ip)
  BY <1>1, NullAssumption DEF Makes, Fresh
<1>3. ~\E d \in Containers : proc[d].pc \in {"rmflock", "rmnetns"} /\ proc[d].ip = ip
  BY <1>1, NotUndoing DEF Calm, Unused, Busy, Dropping
<1>4. StandsOK(ip)
  BY <1>1 DEF Calm, LeftInd
<1> QED BY <1>2, <1>3, <1>4 DEF StandsOK

\* A step of FSStore.CreateNetEndpoint or ConnectNetEndpoint.
LEMMA MakerLeaves ==
    ASSUME Calm, UNCHANGED <<cniSetting, tenant, flock, ipam>>, NEW c \in Containers,
           NEW ip, ip = proc[c].ip,
           \/ proc[c].pc \in {"owner", "file", "mount"}
           \/ proc[c].pc = "connect" /\ proc[c].op = "start",
           NEW g, proc' = [proc EXCEPT ![c] = g],
           g.pc \in {"file", "mount", "connect", "tenant"}, g.op = "start", g.hook, g.ip = ip,
           OnlyAt(ip), owner'[ip] # NoContainer,
           \A d \in Containers \ {c} : link'[d] = link[d], link'[c] \in {NoIP, ip}
    PROVE  LeftInd'
<1>1. /\ CNIInd /\ LeftInd /\ CNITypeOK /\ ip \in IPs /\ proc[c].hook /\ Fixed(c) /\ ipam[ip] = c
      /\ tenant[ip] = NoContainer /\ link[c] = NoIP
  BY MakerReady, NoEmptyTenant DEF Calm, CNIInd, Unused
<1>2. proc'[c] = g
  BY <1>1, Moved
<1>3. Fixed(c)' /\ c \in cniSetting.containers
  BY <1>1, SameSetting, Acting
<1>4. BystanderOK(c)' /\ LinkOK(c)'
  <2>1. BystanderOK(c)'
    BY <1>3 DEF BystanderOK
  <2>2. LinkOK(c)'
    BY <1>2, <1>3 DEF LinkOK
  <2> QED BY <2>1, <2>2
<1>5. ASSUME NEW jp \in IPs, tenant[jp] = c PROVE FALSE
  <2>1. WillFree(c, jp)
    BY <1>1, <1>5, NullAssumption DEF LeftInd, TenantOK
  <2> QED BY <1>1, <2>1 DEF WillFree, Using
<1>6. TenantOK(ip)'
  BY <1>1 DEF TenantOK
<1>7. Makes(c, ip)'
  BY <1>1, <1>2 DEF Makes
<1>8. StandsOK(ip)'
  BY <1>7 DEF StandsOK
<1>9. LentOK(ip)'
  BY <1>1, <1>3 DEF LentOK
<1>10. ~Naming(c)' /\ ~Deleting(c)'
  BY <1>2 DEF Naming, Deleting
<1> QED BY <1>1, <1>2, <1>4, <1>5, <1>6, <1>8, <1>9, <1>10, LeftStep

\* The owner file: there is none,
LEMMA CreateOwnerLeaves ==
    ASSUME Calm, UNCHANGED cniSetting, NEW c \in Containers, CreateOwner(c)
    PROVE  LeftInd'
<1>1. PICK ip : ip = proc[c].ip
  OBVIOUS
<1>2. PICK g : g = [proc[c] EXCEPT !.pc = "file"]
  OBVIOUS
<1>3. proc[c].pc = "owner" /\ UNCHANGED <<tenant, netns, link, flock, ipam>>
  BY DEF CreateOwner, locks
<1>4. /\ CNITypeOK /\ proc[c] \in Proc /\ ip \in IPs /\ owner[ip] = NoContainer /\ link[c] = NoIP
      /\ proc[c].op = "start" /\ proc[c].hook
  BY <1>1, <1>3, ProcType, MakerReady DEF Calm, CNIInd
<1>5. owner' = [owner EXCEPT ![ip] = c] /\ proc' = [proc EXCEPT ![c] = g]
  BY <1>1, <1>2, <1>4 DEF CreateOwner, ProcGoto
<1>6. g.pc = "file" /\ g.op = "start" /\ g.hook /\ g.ip = ip
  BY <1>1, <1>2, <1>4 DEF Proc
<1>7. OnlyAt(ip) /\ owner'[ip] # NoContainer
  BY <1>3, <1>4, <1>5, NullAssumption DEF OnlyAt, CNITypeOK
<1> QED BY <1>1, <1>3, <1>4, <1>5, <1>6, <1>7, MakerLeaves

\* the file to mount on,
LEMMA CreateFileLeaves ==
    ASSUME Calm, UNCHANGED cniSetting, NEW c \in Containers, CreateFile(c)
    PROVE  LeftInd'
<1>1. PICK ip : ip = proc[c].ip
  OBVIOUS
<1>2. PICK g : g = [proc[c] EXCEPT !.pc = "mount"]
  OBVIOUS
<1>3. /\ proc[c].pc = "file" /\ UNCHANGED <<owner, tenant, link, flock, ipam>>
      /\ proc' = [proc EXCEPT ![c] = g]
      /\ netns' = [netns EXCEPT ![ip] = IF @ = "absent" THEN "file" ELSE @]
  BY <1>1, <1>2 DEF CreateFile, NotCreated, locks, ProcGoto, Calm, Orderly
<1>4. /\ CNITypeOK /\ proc[c] \in Proc /\ ip \in IPs /\ link[c] = NoIP
      /\ proc[c].op = "start" /\ proc[c].hook /\ owner[ip] # NoContainer
  BY <1>1, <1>3, ProcType, MakerReady, MakerOwned DEF Calm, CNIInd
<1>5. g.pc = "mount" /\ g.op = "start" /\ g.hook /\ g.ip = ip
  BY <1>1, <1>2, <1>4 DEF Proc
<1>6. OnlyAt(ip)
  BY <1>3, <1>4 DEF OnlyAt, CNITypeOK
<1> QED BY <1>1, <1>3, <1>4, <1>5, <1>6, MakerLeaves

\* the mount,
LEMMA MountLeaves ==
    ASSUME Calm, UNCHANGED cniSetting, NEW c \in Containers, Mount(c)
    PROVE  LeftInd'
<1>1. PICK ip : ip = proc[c].ip
  OBVIOUS
<1>2. PICK g : g = [proc[c] EXCEPT !.pc = "connect"]
  OBVIOUS
<1>3. /\ proc[c].pc = "mount" /\ UNCHANGED <<owner, tenant, link, flock, ipam>>
      /\ proc' = [proc EXCEPT ![c] = g]
      /\ netns' = [netns EXCEPT ![ip] = c]
  BY <1>1, <1>2 DEF Mount, NotCreated, locks, ProcGoto, Calm, Orderly
<1>4. /\ CNITypeOK /\ proc[c] \in Proc /\ ip \in IPs /\ link[c] = NoIP
      /\ proc[c].op = "start" /\ proc[c].hook /\ owner[ip] # NoContainer
  BY <1>1, <1>3, ProcType, MakerReady, MakerOwned DEF Calm, CNIInd
<1>5. g.pc = "connect" /\ g.op = "start" /\ g.hook /\ g.ip = ip
  BY <1>1, <1>2, <1>4 DEF Proc
<1>6. OnlyAt(ip)
  BY <1>3, <1>4 DEF OnlyAt, CNITypeOK
<1> QED BY <1>1, <1>3, <1>4, <1>5, <1>6, MakerLeaves

\* and the link.  Nobody else links to an endpoint.
LEMMA ConnectLeaves ==
    ASSUME Calm, UNCHANGED cniSetting, NEW c \in Containers, Connect(c)
    PROVE  LeftInd'
<1>1. PICK ip : ip = proc[c].ip
  OBVIOUS
<1>2. PICK g : g = [proc[c] EXCEPT !.pc = "tenant"]
  OBVIOUS
<1>3. proc[c].pc = "connect" /\ UNCHANGED <<owner, tenant, netns, flock, ipam>>
  BY DEF Connect, locks
<1>4. proc[c].op = "start"
  <2>1. Fixed(c) <=> ~Specific(c)
    BY <1>3, Acting
  <2> QED BY <1>3, <2>1 DEF Calm, CNIInd, OpOK
<1>5. /\ CNITypeOK /\ proc[c] \in Proc /\ ip \in IPs /\ link[c] = NoIP
      /\ proc[c].hook /\ owner[ip] # NoContainer
  BY <1>1, <1>3, <1>4, ProcType, MakerReady, MakerOwned DEF Calm, CNIInd
<1>6. g.pc = "tenant" /\ g.op = "start" /\ g.hook /\ g.ip = ip
  BY <1>1, <1>2, <1>4, <1>5 DEF Proc
<1>7. proc' = [proc EXCEPT ![c] = g] /\ link' = [link EXCEPT ![c] = ip]
  BY <1>1, <1>2, <1>4, <1>5 DEF Connect, Calm, Orderly
<1>8. OnlyAt(ip) /\ link'[c] = ip /\ \A d \in Containers \ {c} : link'[d] = link[d]
  BY <1>3, <1>5, <1>7 DEF OnlyAt, CNITypeOK
<1> QED BY <1>1, <1>3, <1>4, <1>5, <1>6, <1>7, <1>8, MakerLeaves

\* The container that made the endpoint becomes its tenant.
LEMMA OccupyLeaves ==
    ASSUME Calm, UNCHANGED cniSetting, NEW c \in Containers, Occupy(c)
    PROVE  LeftInd'
<1>1. PICK ip : ip = proc[c].ip
  OBVIOUS
<1>2. PICK g : g = Started(c)
  OBVIOUS
<1>3. proc[c].pc = "tenant" /\ UNCHANGED <<owner, netns, link, flock, ipam>>
  BY DEF Occupy, locks
<1>4. /\ CNIInd /\ LeftInd /\ CNITypeOK /\ proc[c] \in Proc /\ ip \in IPs /\ ipam[ip] = c
      /\ proc[c].op = "start" /\ proc[c].hook /\ Fixed(c) /\ owner[ip] # NoContainer
      /\ tenant[ip] = NoContainer /\ link[c] = ip /\ Mounted(ip)
  BY <1>1, <1>3, ProcType, MakerReady, MakerOwned, NoEmptyTenant DEF Calm, CNIInd, Unused
<1>5. proc' = [proc EXCEPT ![c] = g] /\ tenant' = [tenant EXCEPT ![ip] = c]
  BY <1>1, <1>2, <1>4 DEF Occupy, Occupied, OccupyFails, Calm, Orderly
<1>6. g.pc = "running" /\ g.op = "none" /\ g.ip = ip
  BY <1>1, <1>2, <1>4 DEF Started, Proc
<1>7. OnlyAt(ip) /\ tenant'[ip] = c /\ proc'[c] = g
  BY <1>3, <1>4, <1>5, Moved DEF OnlyAt, CNITypeOK
<1>8. Fixed(c)'
  BY <1>4, SameSetting
<1>9. BystanderOK(c)' /\ LinkOK(c)'
  BY <1>3, <1>6, <1>7, LinkStays
<1>10. TenantOK(ip)'
  <2>1. WillFree(c, ip)'
    BY <1>3, <1>4, <1>6, <1>7, <1>8 DEF WillFree, Using, Target
  <2> QED BY <1>7, <2>1 DEF TenantOK
<1>11. StandsOK(ip)'
  BY <1>3, <1>4, <1>7, NullAssumption DEF StandsOK, Mounted
<1>12. LentOK(ip)'
  BY <1>3, <1>4, <1>8 DEF LentOK
<1>13. ~Naming(c)' /\ ~Deleting(c)'
  BY <1>6, <1>7 DEF Naming, Deleting
<1>14. \A jp \in IPs : tenant[jp] # c
  BY <1>3, <1>4, NoTenancy
<1> QED BY <1>1, <1>3, <1>4, <1>5, <1>6, <1>7, <1>9, <1>10, <1>11, <1>12, <1>13, <1>14, LeftStep

\* Undoing a start is for two containers that make the same endpoint.
LEMMA UndoLeaves ==
    ASSUME Calm, UNCHANGED cniSetting, NEW c \in Containers, Undo(c)
    PROVE  LeftInd'
BY NotUndoing DEF Undo, Calm

\* A container that stops is still the tenant, and gives an address of its own back.
LEMMA HandleDeleteLeaves ==
    ASSUME Calm, UNCHANGED cniSetting, NEW c \in Containers, HandleDelete(c)
    PROVE  LeftInd'
<1>1. PICK g : g = [proc[c] EXCEPT !.pc = "get", !.op = "delete"]
  OBVIOUS
<1>2. proc[c].pc = "running" /\ UNCHANGED <<files, flock>>
  BY DEF HandleDelete, locks
<1>3. /\ CNIInd /\ LeftInd /\ CNITypeOK /\ proc[c] \in Proc /\ proc[c].ip \in IPs /\ proc[c].op = "none"
      /\ ~Dropping(c)
  BY <1>2, ProcType DEF Calm, CNIInd, AddressOK, OpOK, Dropping, Removing
<1>4. /\ proc' = [proc EXCEPT ![c] = g] /\ g.pc = "get" /\ g.op = "delete" /\ g.ip = proc[c].ip
      /\ g.hook = proc[c].hook
  BY <1>1, <1>3 DEF HandleDelete, Proc, CNITypeOK
<1>5. proc'[c] = g
  BY <1>3, <1>4, Moved
<1>6. (Fixed(c)' <=> Fixed(c)) /\ Want'[c] = Want[c]
  BY SameSetting
<1>7. ASSUME NEW ip \in IPs, tenant[ip] = c PROVE WillFree(c, ip)' /\ Using(c) /\ proc[c].ip = ip
  <2>1. WillFree(c, ip)
    BY <1>3, <1>7, NullAssumption DEF LeftInd, TenantOK
  <2>2. Using(c) /\ proc[c].ip = ip /\ Target(c, Fixed(c)) = ip
    BY <1>2, <2>1 DEF WillFree
  <2> QED BY <1>2, <1>4, <1>5, <1>6, <2>2 DEF WillFree, Target, files
<1>8. BystanderOK(c)' /\ LinkOK(c)'
  BY <1>2, <1>4, <1>5, LinkStays DEF files
<1>9. ~Naming(c)' /\ ~Deleting(c)'
  BY <1>4, <1>5 DEF Naming, Deleting
<1>10. CASE proc[c].hook /\ ~Fixed(c)
  <2>1. PICK ip \in IPs : ip = proc[c].ip
    BY <1>3
  <2>2. ipam' = [jp \in IPs |-> IF ipam[jp] = c THEN NoContainer ELSE ipam[jp]]
    BY <1>10 DEF HandleDelete
  <2>3. Claims(c) /\ ipam[ip] = c
    BY <1>2, <1>3, <1>10, <2>1 DEF Claims, CNIInd, ClaimOK
  <2>4. \A jp \in IPs \ {ip} : ipam[jp] # c
    BY <1>3, <1>10, <2>1, NullAssumption DEF LeftInd, LentOK
  <2>5. ipam'[ip] = NoContainer /\ OnlyAt(ip)
    BY <1>2, <2>2, <2>3, <2>4 DEF OnlyAt, files
  <2>6. Fresh(ip) /\ tenant[ip] = NoContainer /\ \A d \in Containers : link[d] # ip
    BY <1>3, <1>10, <2>3, NoEmptyTenant DEF Fresh, CNIInd, FreshOK, Unused
  <2>7. TenantOK(ip)' /\ StandsOK(ip)' /\ LentOK(ip)'
    <3>1. TenantOK(ip)'
      BY <1>2, <2>6 DEF TenantOK, files
    <3>2. StandsOK(ip)'
      BY <2>5 DEF StandsOK, Fresh
    <3>3. LentOK(ip)'
      BY <2>5 DEF LentOK
    <3> QED BY <3>1, <3>2, <3>3
  <2>8. \A jp \in IPs \ {ip} : tenant[jp] # c
    BY <1>7, <2>1
  <2> QED BY <1>2, <1>3, <1>4, <1>8, <1>9, <2>1, <2>5, <2>6, <2>7, <2>8, LeftStep DEF files
<1>11. CASE ~(proc[c].hook /\ ~Fixed(c))
  <2>1. ipam' = ipam /\ ~Claims(c)
    BY <1>2, <1>11 DEF HandleDelete, Claims, Undoing
  <2> QED BY <1>2, <1>3, <1>4, <1>7, <1>8, <1>9, <2>1, QuietLeft
<1> QED BY <1>10, <1>11

\* An endpoint that has a tenant is found,
LEMMA TenantFinds ==
    ASSUME Calm, NEW ip \in IPs, tenant[ip] # NoContainer
    PROVE  Get(ip) = "found" /\ Mounted(ip) /\ owner[ip] # NoContainer
<1>1. ~Fresh(ip) /\ \A x \in Containers : ~Makes(x, ip)
  BY BusyStands, NoEmptyTenant DEF Calm
<1>2. ~\E d \in Containers : proc[d].pc \in {"rmflock", "rmnetns"} /\ proc[d].ip = ip
  BY NotUndoing DEF Calm, CNIInd, DropperOK
<1>3. Mounted(ip) /\ owner[ip] # NoContainer
  BY <1>1, <1>2 DEF Calm, LeftInd, StandsOK
<1> QED BY <1>3, NullAssumption DEF Get, Mounted

\* and so is one that a container is tied to.
LEMMA LinkFinds ==
    ASSUME Calm, NEW c \in Containers, link[c] # NoIP
    PROVE  Get(link[c]) = "found"
<1>1. Mounted(link[c]) /\ owner[link[c]] # NoContainer
  BY DEF Calm, CNIInd, AllLead, LinkLeads, LeftInd, LinkOK
<1> QED BY <1>1, NullAssumption DEF Get, Mounted

\* The look-up of a deletion: who is tied to an endpoint, or its tenant, finds it.
LEMMA DeleteGetLeaves ==
    ASSUME Calm, UNCHANGED cniSetting, NEW c \in Containers, DeleteGet(c)
    PROVE  LeftInd'
<1> DEFINE nep == GetNetEndpoint(c, Fixed(c))
<1>1. /\ UNCHANGED <<files, flock, ipam>> /\ proc[c].pc = "get" /\ proc[c].op \in {"delete", "remove"}
      /\ Alone(c)
  BY DEF DeleteGet, locks
<1>2. /\ CNIInd /\ LeftInd /\ CNITypeOK /\ proc[c] \in Proc /\ ~Dropping(c) /\ ~Claims(c) /\ ~Naming(c)
  BY <1>1, ProcType DEF Calm, CNIInd, Dropping, Removing, Undoing, Claims, Naming
<1>3. (Fixed(c)' <=> Fixed(c)) /\ Want'[c] = Want[c]
  BY SameSetting
<1>4. \A d \in Containers : ~Naming(d)
  BY <1>1, <1>2 DEF Alone, Calm, Orderly
<1>5. CASE nep = "found"
  <2>1. PICK g : g = [proc[c] EXCEPT !.ip = Target(c, Fixed(c)), !.hook = FALSE,
                                     !.pc = IF proc[c].op = "remove" THEN "disconnect" ELSE "free"]
    OBVIOUS
  <2>2. /\ g.ip = Target(c, Fixed(c)) /\ g.op = proc[c].op
        /\ g.pc = IF proc[c].op = "remove" THEN "disconnect" ELSE "free"
    BY <1>2, <2>1 DEF Proc
  <2>3. proc' = [proc EXCEPT ![c] = g]
    BY <1>5, <2>1 DEF DeleteGet
  <2>4. proc'[c] = g
    BY <1>2, <2>3, Moved
  <2>5. ASSUME NEW ip \in IPs, tenant[ip] = c PROVE WillFree(c, ip)'
    <3>1. WillFree(c, ip)
      BY <1>2, <2>5, NullAssumption DEF LeftInd, TenantOK
    <3>2. Target(c, Fixed(c)) = ip /\ proc[c].op = "delete"
      BY <1>1, <3>1 DEF WillFree, Using
    <3> QED BY <1>1, <1>3, <2>2, <2>4, <3>2 DEF WillFree, Target, files
  <2>6. BystanderOK(c)' /\ LinkOK(c)'
    BY <1>1, <2>2, <2>4, LinkStays DEF files
  <2>7. ~Naming(c)'
    BY <1>1, <2>2, <2>4 DEF Naming
  <2> QED BY <1>1, <1>2, <1>4, <2>2, <2>3, <2>5, <2>6, <2>7, QuietLeft
<1>6. CASE nep # "found"
  <2>1. PICK g : g = Finished(c)
    OBVIOUS
  <2>2. g.pc \in {"stopped", "removed"} /\ g.op = "none" /\ (g.pc = "removed" => proc[c].op = "remove")
    BY <2>1 DEF Finished, Idle
  <2>3. proc' = [proc EXCEPT ![c] = g]
    BY <1>6, <2>1 DEF DeleteGet
  <2>4. proc'[c] = g
    BY <1>2, <2>3, Moved
  <2>5. ASSUME NEW ip \in IPs, tenant[ip] = c PROVE FALSE
    <3>1. WillFree(c, ip)
      BY <1>2, <2>5, NullAssumption DEF LeftInd, TenantOK
    <3>2. Target(c, Fixed(c)) = ip
      BY <3>1 DEF WillFree
    <3> QED BY <1>6, <2>5, <3>2, NullAssumption, TenantFinds DEF GetNetEndpoint
  <2>6. link[c] = NoIP
    <3>1. link[c] # NoIP => Fixed(c)
      BY <1>2 DEF LeftInd, LinkOK
    <3> QED BY <1>6, <3>1, LinkFinds DEF GetNetEndpoint, Target
  <2>7. BystanderOK(c)' /\ LinkOK(c)'
    BY <1>1, <2>2, <2>4, <2>6, LinkStays DEF files
  <2>8. ~Naming(c)' /\ ~Deleting(c)'
    BY <2>2, <2>4 DEF Naming, Deleting
  <2> QED BY <1>1, <1>2, <1>4, <2>2, <2>3, <2>5, <2>7, <2>8, QuietLeft
<1> QED BY <1>5, <1>6

\* An address with an endpoint is allocated to a container with a fixed IP.
LEMMA NotLent ==
    ASSUME CNITypeOK, UNCHANGED cniSetting, NEW ip \in IPs, ipam'[ip] = ipam[ip], ~Fresh(ip)
    PROVE  LentOK(ip)'
<1>1. ipam[ip] \in Containers /\ Fixed(ipam[ip])
  BY DEF Fresh, CNITypeOK
<1>2. Fixed(ipam[ip])'
  BY <1>1 DEF Fixed, KindOf
<1> QED BY <1>2 DEF LentOK

\* FreeNetEndpoint: the link keeps the endpoint, or c goes on to delete it.
LEMMA FreeLeaves ==
    ASSUME Calm, UNCHANGED cniSetting, NEW c \in Containers, Free(c)
    PROVE  LeftInd'
<1>1. PICK ip : ip = proc[c].ip
  OBVIOUS
<1>2. /\ proc[c].pc = "free" /\ UNCHANGED <<owner, netns, link, flock, ipam>>
      /\ tenant' = [tenant EXCEPT ![ip] = IF tenant[ip] = c THEN NoContainer ELSE tenant[ip]]
  BY <1>1 DEF Free, locks
<1>3. /\ CNIInd /\ LeftInd /\ CNITypeOK /\ proc[c] \in Proc /\ ip \in IPs /\ proc[c].op = "delete"
      /\ Deleting(c) /\ ~Claims(c) /\ ~Dropping(c)
  BY <1>1, <1>2, ProcType DEF Calm, CNIInd, AddressOK, OpOK, Deleting, Claims, Dropping, Removing, Undoing
<1>4. ASSUME NEW jp \in IPs, tenant[jp] = c PROVE jp = ip /\ Target(c, Fixed(c)) = ip
  <2>1. WillFree(c, jp)
    BY <1>3, <1>4, NullAssumption DEF LeftInd, TenantOK
  <2> QED BY <1>1, <1>2, <2>1 DEF WillFree, Using
<1>5. CASE tenant[ip] # c
  <2>1. tenant' = tenant
    BY <1>2, <1>3, <1>5 DEF CNITypeOK
  <2>2. PICK g : g = Finished(c)
    OBVIOUS
  <2>3. proc' = [proc EXCEPT ![c] = g] /\ g.pc = "stopped" /\ g.op = "none"
    BY <1>1, <1>3, <1>5, <2>2 DEF Free, Finished, Idle
  <2>4. proc'[c] = g
    BY <1>3, <2>3, Moved
  <2>5. BystanderOK(c)' /\ LinkOK(c)'
    BY <1>2, <2>3, <2>4, LinkStays
  <2>6. ~Naming(c)' /\ ~Deleting(c)'
    BY <2>3, <2>4 DEF Naming, Deleting
  <2> QED BY <1>2, <1>3, <1>4, <1>5, <2>1, <2>3, <2>5, <2>6, QuietLeft DEF files
<1>6. CASE tenant[ip] = c
  <2>1. PICK g : g = IF Fixed(c) THEN Finished(c) ELSE [proc[c] EXCEPT !.pc = "flock"]
    OBVIOUS
  <2>2. proc' = [proc EXCEPT ![c] = g]
    BY <1>1, <1>6, <2>1 DEF Free
  <2>3. \/ Fixed(c) /\ g.pc = "stopped" /\ g.op = "none"
        \/ ~Fixed(c) /\ g.pc = "flock" /\ g.op = "delete" /\ g.ip = ip
    <3>1. CASE Fixed(c)
      BY <1>3, <2>1, <3>1 DEF Finished, Idle
    <3>2. CASE ~Fixed(c)
      BY <1>1, <1>3, <2>1, <3>2 DEF Proc
    <3> QED BY <3>1, <3>2
  <2>4. OnlyAt(ip) /\ tenant'[ip] = NoContainer /\ proc'[c] = g
    BY <1>2, <1>3, <1>6, <2>2, Moved DEF OnlyAt, CNITypeOK
  <2>5. BystanderOK(c)' /\ LinkOK(c)'
    BY <1>2, <2>3, <2>4, LinkStays
  <2>6. /\ ~Naming(c)'
        /\ ~Fixed(c) => Dropping(c)'
    BY <2>3, <2>4 DEF Naming, Dropping
  <2>7. TenantOK(ip)'
    BY <2>4 DEF TenantOK
  <2>8. ~Fresh(ip) /\ Mounted(ip) /\ owner[ip] # NoContainer
    BY <1>3, <1>6, NullAssumption, TenantFinds, BusyStands
  <2>9. Fixed(c) => link[c] = ip
    BY <1>3, <1>4, <1>6 DEF Target
  <2>10. StandsOK(ip)'
    BY <1>2, <2>3, <2>4, <2>6, <2>8, <2>9 DEF StandsOK, Mounted
  <2>11. LentOK(ip)'
    BY <1>2, <1>3, <2>8, NotLent
  <2> QED BY <1>2, <1>3, <1>4, <2>2, <2>3, <2>4, <2>5, <2>6, <2>7, <2>8, <2>10, <2>11, LeftStep
<1> QED BY <1>5, <1>6

\* DisconnectNetEndpoint: c goes on to delete the endpoint.
LEMMA DisconnectLeaves ==
    ASSUME Calm, UNCHANGED cniSetting, NEW c \in Containers, Disconnect(c)
    PROVE  LeftInd'
<1>1. PICK ip : ip = proc[c].ip
  OBVIOUS
<1>2. PICK g : g = [proc[c] EXCEPT !.pc = "flock"]
  OBVIOUS
<1>3. /\ proc[c].pc = "disconnect" /\ UNCHANGED <<owner, tenant, netns, flock, ipam>>
      /\ link' = [link EXCEPT ![c] = NoIP] /\ proc' = [proc EXCEPT ![c] = g]
  BY <1>2 DEF Disconnect, locks, ProcGoto
<1>4. /\ CNIInd /\ LeftInd /\ CNITypeOK /\ proc[c] \in Proc /\ ip \in IPs /\ proc[c].op = "remove"
      /\ Deleting(c) /\ ~Claims(c) /\ ~Dropping(c) /\ link[c] = ip
  BY <1>1, <1>3, ProcType
     DEF Calm, CNIInd, AddressOK, OpOK, UserOK, Deleting, Claims, Dropping, Removing, Undoing
<1>5. g.pc = "flock" /\ g.op = "remove" /\ g.ip = ip
  BY <1>1, <1>2, <1>4 DEF Proc
<1>6. /\ OnlyAt(ip) /\ link'[c] = NoIP /\ proc'[c] = g
      /\ \A d \in Containers \ {c} : link'[d] = link[d] /\ proc'[d] = proc[d]
  BY <1>3, <1>4, Moved DEF OnlyAt, CNITypeOK
<1>7. c \in cniSetting.containers
  BY <1>3, Acting
<1>8. BystanderOK(c)' /\ LinkOK(c)'
  BY <1>6, <1>7 DEF BystanderOK, LinkOK
<1>9. ~Naming(c)' /\ Dropping(c)'
  BY <1>5, <1>6 DEF Naming, Dropping
<1>10. \A jp \in IPs : tenant[jp] # c
  BY <1>3, <1>4, NoTenancy
<1>11. TenantOK(ip)'
  <2>0. tenant[ip] # NoContainer => tenant[ip] \in Containers
    BY <1>4 DEF LeftInd, TenantOK
  <2>1. SUFFICES ASSUME NEW d \in Containers, tenant[ip] = d PROVE WillFree(d, ip)'
    BY <1>3, <2>0 DEF TenantOK
  <2> QED BY <1>4, <1>6, <1>10, <2>1, TenantStays
<1>12. ~Fresh(ip) /\ Mounted(ip) /\ owner[ip] # NoContainer
  BY <1>4, NullAssumption DEF CNIInd, FreshOK, AllLead, LinkLeads, LeftInd, LinkOK
<1>13. StandsOK(ip)'
  BY <1>3, <1>5, <1>6, <1>9, <1>12 DEF StandsOK, Mounted
<1>14. LentOK(ip)'
  BY <1>3, <1>4, <1>12, NotLent
<1> QED BY <1>3, <1>4, <1>5, <1>6, <1>8, <1>9, <1>10, <1>11, <1>12, <1>13, <1>14, LeftStep

\* A step of a deletion that changes nothing but the lock file.
LEMMA DropperGoesOn ==
    ASSUME Calm, UNCHANGED <<cniSetting, files, ipam>>, NEW c \in Containers, Dropping(c), NEW g,
           proc' = [proc EXCEPT ![c] = g], g = [proc[c] EXCEPT !.pc = g.pc, !.fd = g.fd],
           g.pc \in {"lock", "drop", "stat", "rmtenant", "rmowner", "rmnetns"},
           g.pc = "rmnetns" => flock'[proc[c].ip] = 0,
           proc[c].pc = "rmflock" => g.pc = "rmnetns", proc[c].pc # "rmnetns"
    PROVE  LeftInd'
<1>1. /\ CNIInd /\ LeftInd /\ CNITypeOK /\ proc[c] \in Proc /\ proc[c].op \in {"delete", "remove"}
      /\ Deleting(c) /\ ~Claims(c) /\ ~Naming(c)
      /\ proc[c].pc \in {"flock", "lock", "drop", "stat", "rmtenant", "rmowner", "rmflock"}
  BY ProcType DEF Calm, CNIInd, OpOK, Deleting, Claims, Naming, Dropping, Removing, Undoing
<1>2. g.op = proc[c].op /\ g.ip = proc[c].ip /\ proc'[c] = g
  BY <1>1, Moved DEF Proc
<1>3. Dropping(c)' /\ ~Naming(c)'
  BY <1>1, <1>2 DEF Dropping, Removing, Naming
<1>4. link[c] # NoIP => proc[c].op # "remove"
  BY <1>1 DEF LeftInd, LinkOK
<1>5. BystanderOK(c)' /\ LinkOK(c)'
  BY <1>1, <1>2, <1>4, LinkStays DEF files
<1>6. \A d \in Containers \ {c} : proc[d].pc # "rmnetns"
  BY <1>1, DeleterAlone, NotUndoing DEF Dropping
<1>7. \A ip \in IPs : tenant[ip] # c
  BY <1>1, NoTenancy
<1> QED BY <1>1, <1>2, <1>3, <1>5, <1>6, <1>7, QuietLeft

\* DeleteDanglingNetwork: opening the lock file,
LEMMA DropFlockLeaves ==
    ASSUME Calm, UNCHANGED cniSetting, NEW c \in Containers, DropFlock(c)
    PROVE  LeftInd'
<1>1. PICK ip : ip = proc[c].ip
  OBVIOUS
<1>2. /\ proc[c].pc = "flock" /\ proc[c].op \in {"delete", "remove"} /\ OpenFlock(c, ip, "lock")
      /\ UNCHANGED <<files, ipam>> /\ CNITypeOK /\ Dropping(c) /\ proc[c] \in Proc
  BY <1>1, ProcType DEF DropFlock, Calm, CNIInd, Dropping
<1>3. ip \in IPs
  BY <1>1, <1>2 DEF Calm, CNIInd, AddressOK, Busy
<1>4. PICK i \in Inodes : /\ flock' = [flock EXCEPT ![ip] = i]
                          /\ proc' = [proc EXCEPT ![c] = [proc[c] EXCEPT !.fd = i, !.pc = "lock"]]
                          /\ flock[ip] # 0 => i = flock[ip]
  BY <1>2, <1>3, FlockOpened
<1>5. PICK g : g = [proc[c] EXCEPT !.fd = i, !.pc = "lock"]
  OBVIOUS
<1>6. g.pc = "lock" /\ g = [proc[c] EXCEPT !.pc = g.pc, !.fd = g.fd]
  BY <1>2, <1>5 DEF Proc
<1> QED BY <1>2, <1>4, <1>5, <1>6, DropperGoesOn

\* the lock,
LEMMA DropLockLeaves ==
    ASSUME Calm, UNCHANGED cniSetting, NEW c \in Containers, DropLock(c)
    PROVE  LeftInd'
<1>1. PICK g : g = [proc[c] EXCEPT !.pc = "drop"]
  OBVIOUS
<1>2. /\ proc[c].pc = "lock" /\ proc[c].op \in {"delete", "remove"} /\ UNCHANGED <<files, ipam>>
      /\ Dropping(c) /\ proc[c] \in Proc /\ proc' = [proc EXCEPT ![c] = g]
  BY <1>1, ProcType DEF DropLock, ProcGoto, Calm, CNIInd, Dropping
<1>3. g.pc = "drop" /\ g = [proc[c] EXCEPT !.pc = g.pc, !.fd = g.fd]
  BY <1>1, <1>2 DEF Proc
<1> QED BY <1>2, <1>3, DropperGoesOn

\* and the count of the references: when somebody else keeps the endpoint, c is done.
LEMMA CounterLeaves ==
    ASSUME Calm, UNCHANGED <<cniSetting, files, flock, ipam>>, NEW c \in Containers,
           proc[c].pc \in {"drop", "stat"}, Return(c, Finished(c)),
           tenant[proc[c].ip] # NoContainer \/ \E d \in Containers : link[d] = proc[c].ip
    PROVE  LeftInd'
<1>1. /\ CNIInd /\ LeftInd /\ CNITypeOK /\ proc[c] \in Proc /\ Dropping(c) /\ ~Claims(c)
  BY ProcType DEF Calm, CNIInd, Claims, Dropping, Undoing
<1>2. PICK g : g = Finished(c)
  OBVIOUS
<1>3. /\ proc' = [proc EXCEPT ![c] = g] /\ g.op = "none" /\ g.pc \in {"stopped", "removed"}
      /\ g.pc = "removed" => proc[c].op = "remove"
  BY <1>2 DEF Return, Finished, Idle
<1>4. proc'[c] = g
  BY <1>1, <1>3, Moved
<1>5. link[c] # NoIP => proc[c].op # "remove"
  BY <1>1 DEF LeftInd, LinkOK
<1>6. BystanderOK(c)' /\ LinkOK(c)'
  BY <1>3, <1>4, <1>5, LinkStays DEF files
<1>7. ~Naming(c)' /\ ~Deleting(c)'
  BY <1>3, <1>4 DEF Naming, Deleting
<1>8. \A jp \in IPs : tenant[jp] # c
  BY <1>1, NoTenancy
<1> QED BY <1>1, <1>3, <1>6, <1>7, <1>8, QuietLeft

\* The links,
LEMMA CountLinksLeaves ==
    ASSUME Calm, UNCHANGED cniSetting, NEW c \in Containers, CountLinks(c)
    PROVE  LeftInd'
<1>1. proc[c].pc = "drop" /\ UNCHANGED <<files, flock, ipam>>
  BY DEF CountLinks
<1>2. CASE References(proc[c].ip) # {}
  <2>1. \E d \in Containers : link[d] = proc[c].ip
    BY <1>2 DEF References
  <2> QED BY <1>1, <1>2, <2>1, CounterLeaves DEF CountLinks
<1>3. CASE References(proc[c].ip) = {}
  <2>1. PICK g : g = [proc[c] EXCEPT !.pc = "stat"]
    OBVIOUS
  <2>2. proc' = [proc EXCEPT ![c] = g] /\ proc[c] \in Proc /\ Dropping(c)
    BY <1>1, <1>3, <2>1, ProcType DEF CountLinks, ProcGoto, Calm, CNIInd, Dropping
  <2>3. g.pc = "stat" /\ g = [proc[c] EXCEPT !.pc = g.pc, !.fd = g.fd]
    BY <2>1, <2>2 DEF Proc
  <2> QED BY <1>1, <2>2, <2>3, DropperGoesOn
<1> QED BY <1>2, <1>3

\* and the tenant.
LEMMA CountTenantLeaves ==
    ASSUME Calm, UNCHANGED cniSetting, NEW c \in Containers, CountTenant(c)
    PROVE  LeftInd'
<1>1. proc[c].pc = "stat" /\ UNCHANGED <<files, flock, ipam>>
  BY DEF CountTenant
<1>2. CASE tenant[proc[c].ip] # NoContainer
  BY <1>1, <1>2, CounterLeaves DEF CountTenant
<1>3. CASE tenant[proc[c].ip] = NoContainer
  <2>1. PICK g : g = [proc[c] EXCEPT !.pc = "rmtenant"]
    OBVIOUS
  <2>2. proc' = [proc EXCEPT ![c] = g] /\ proc[c] \in Proc /\ Dropping(c)
    BY <1>1, <1>3, <2>1, ProcType DEF CountTenant, ProcGoto, Calm, CNIInd, Dropping
  <2>3. g.pc = "rmtenant" /\ g = [proc[c] EXCEPT !.pc = g.pc, !.fd = g.fd]
    BY <2>1, <2>2 DEF Proc
  <2> QED BY <1>1, <2>2, <2>3, DropperGoesOn
<1> QED BY <1>2, <1>3

\* DeleteNetEndpoint: the tenant file,
LEMMA RemoveTenantLeaves ==
    ASSUME Calm, UNCHANGED cniSetting, NEW c \in Containers, RemoveTenant(c)
    PROVE  LeftInd'
<1>1. PICK ip : ip = proc[c].ip
  OBVIOUS
<1>2. PICK g : g = [proc[c] EXCEPT !.pc = "rmowner"]
  OBVIOUS
<1>3. /\ proc[c].pc = "rmtenant" /\ UNCHANGED <<owner, netns, link, flock, ipam>>
      /\ tenant' = [tenant EXCEPT ![ip] = NoContainer] /\ proc' = [proc EXCEPT ![c] = g]
  BY <1>1, <1>2 DEF RemoveTenant, ProcGoto, locks
<1>4. /\ Removing(c) /\ Dropping(c) /\ tenant[ip] = NoContainer /\ CNITypeOK /\ proc[c] \in Proc
  BY <1>1, <1>3, ProcType, NotUndoing DEF Dropping, Calm, CNIInd, DropperOK
<1>5. tenant' = tenant
  BY <1>3, <1>4 DEF CNITypeOK
<1>6. g.pc = "rmowner" /\ g = [proc[c] EXCEPT !.pc = g.pc, !.fd = g.fd]
  BY <1>2, <1>4 DEF Proc
<1> QED BY <1>3, <1>4, <1>5, <1>6, DropperGoesOn DEF files

\* the owner file,
LEMMA RemoveOwnerLeaves ==
    ASSUME Calm, UNCHANGED cniSetting, NEW c \in Containers, RemoveOwner(c)
    PROVE  LeftInd'
<1>1. PICK ip : ip = proc[c].ip
  OBVIOUS
<1>2. PICK g : g = [proc[c] EXCEPT !.pc = "rmflock"]
  OBVIOUS
<1>3. /\ proc[c].pc = "rmowner" /\ UNCHANGED <<tenant, netns, link, flock, ipam>>
      /\ owner' = [owner EXCEPT ![ip] = NoContainer] /\ proc' = [proc EXCEPT ![c] = g]
  BY <1>1, <1>2 DEF RemoveOwner, ProcGoto, locks
<1>4. /\ CNIInd /\ LeftInd /\ CNITypeOK /\ proc[c] \in Proc /\ Removing(c) /\ Dropping(c) /\ Deleting(c)
      /\ ~Claims(c) /\ proc[c].op \in {"delete", "remove"}
  BY <1>3, ProcType, NotUndoing DEF Calm, CNIInd, Dropping, Deleting, Claims, OpOK
<1>5. ip \in IPs /\ tenant[ip] = NoContainer /\ \A d \in Containers : link[d] # ip
  BY <1>1, <1>4 DEF CNIInd, AddressOK, Busy, DropperOK
<1>6. g.pc = "rmflock" /\ g.op = proc[c].op /\ g.ip = ip
  BY <1>1, <1>2, <1>4 DEF Proc
<1>7. OnlyAt(ip) /\ proc'[c] = g
  BY <1>3, <1>4, <1>5, Moved DEF OnlyAt, CNITypeOK
<1>8. ~Fresh(ip) /\ \A x \in Containers : ~Makes(x, ip)
  BY <1>1, <1>4, <1>5, BusyStands DEF Busy
<1>9. Mounted(ip)
  BY <1>4, <1>5, <1>8 DEF LeftInd, StandsOK
<1>10. Dropping(c)' /\ ~Naming(c)'
  BY <1>4, <1>6, <1>7 DEF Dropping, Removing, Naming
<1>11. BystanderOK(c)' /\ LinkOK(c)'
  <2>1. link[c] # NoIP => proc[c].op # "remove"
    BY <1>3, <1>4 DEF LeftInd, LinkOK
  <2>2. link[c] # NoIP => owner'[link[c]] = owner[link[c]]
    BY <1>3, <1>4, <1>5 DEF CNITypeOK
  <2> QED BY <1>3, <1>6, <1>7, <2>1, <2>2, LinkStays
<1>12. TenantOK(ip)'
  BY <1>3, <1>5 DEF TenantOK
<1>13. StandsOK(ip)'
  BY <1>3, <1>6, <1>7, <1>9, <1>10 DEF StandsOK, Mounted
<1>14. LentOK(ip)'
  BY <1>3, <1>4, <1>5, <1>8, NotLent
<1>15. \A jp \in IPs : tenant[jp] # c
  BY <1>3, <1>4, NoTenancy
<1> QED BY <1>1, <1>3, <1>4, <1>5, <1>6, <1>7, <1>10, <1>11, <1>12, <1>13, <1>14, <1>15, LeftStep

\* the lock file,
LEMMA RemoveFlockLeaves ==
    ASSUME Calm, UNCHANGED cniSetting, NEW c \in Containers, RemoveFlock(c)
    PROVE  LeftInd'
<1>1. PICK ip : ip = proc[c].ip
  OBVIOUS
<1>2. PICK g : g = [proc[c] EXCEPT !.pc = "rmnetns"]
  OBVIOUS
<1>3. /\ proc[c].pc = "rmflock" /\ UNCHANGED <<files, ipam>>
      /\ flock' = [flock EXCEPT ![ip] = 0] /\ proc' = [proc EXCEPT ![c] = g]
  BY <1>1, <1>2 DEF RemoveFlock, ProcGoto
<1>4. CNITypeOK /\ proc[c] \in Proc /\ Removing(c) /\ Dropping(c)
  BY <1>3, ProcType, NotUndoing DEF Calm, CNIInd, Dropping
<1>5. ip \in IPs
  BY <1>1, <1>4 DEF Calm, CNIInd, AddressOK, Busy
<1>6. flock'[ip] = 0
  BY <1>3, <1>4, <1>5 DEF CNITypeOK
<1>7. g.pc = "rmnetns" /\ g = [proc[c] EXCEPT !.pc = g.pc, !.fd = g.fd]
  BY <1>2, <1>4 DEF Proc
<1> QED BY <1>1, <1>3, <1>4, <1>6, <1>7, DropperGoesOn

\* and the mount; CNI has the address back, since nobody opened the lock file anew.
LEMMA RemoveNetnsLeaves ==
    ASSUME Calm, UNCHANGED cniSetting, NEW c \in Containers, RemoveNetns(c)
    PROVE  LeftInd'
<1>1. PICK ip : ip = proc[c].ip
  OBVIOUS
<1>2. PICK g : g = Finished(c)
  OBVIOUS
<1>3. proc[c].pc = "rmnetns" /\ UNCHANGED <<owner, tenant, link, flock>>
  BY DEF RemoveNetns
<1>4. /\ CNIInd /\ LeftInd /\ CNITypeOK /\ Removing(c) /\ Dropping(c) /\ ~Claims(c)
      /\ proc[c].op \in {"delete", "remove"}
  BY <1>3, NotUndoing DEF Calm, CNIInd, Dropping, Claims, OpOK
<1>5. /\ ip \in IPs /\ tenant[ip] = NoContainer /\ owner[ip] = NoContainer /\ flock[ip] = 0
      /\ \A d \in Containers : link[d] # ip
  BY <1>1, <1>3, <1>4 DEF CNIInd, AddressOK, Busy, DropperOK, LeftInd, UnseenOK
<1>6. /\ proc' = [proc EXCEPT ![c] = g] /\ netns' = [netns EXCEPT ![ip] = "absent"]
      /\ ipam' = [ipam EXCEPT ![ip] = NoContainer]
  BY <1>1, <1>2, <1>4, <1>5 DEF RemoveNetns, Return, GivenBack, Calm, Orderly
<1>7. /\ g.op = "none" /\ g.pc \in {"stopped", "removed"}
      /\ g.pc = "removed" => proc[c].op = "remove"
  BY <1>2 DEF Finished, Idle
<1>8. OnlyAt(ip) /\ proc'[c] = g /\ ipam'[ip] = NoContainer
  BY <1>3, <1>4, <1>5, <1>6, Moved DEF OnlyAt, CNITypeOK
<1>9. ~Naming(c)' /\ ~Deleting(c)'
  BY <1>7, <1>8 DEF Naming, Deleting
<1>10. BystanderOK(c)' /\ LinkOK(c)'
  <2>1. link[c] # NoIP => proc[c].op # "remove"
    BY <1>3, <1>4 DEF LeftInd, LinkOK
  <2> QED BY <1>3, <1>7, <1>8, <2>1, LinkStays
<1>11. TenantOK(ip)'
  BY <1>3, <1>5 DEF TenantOK
<1>12. StandsOK(ip)'
  BY <1>8 DEF StandsOK, Fresh
<1>13. LentOK(ip)'
  BY <1>8 DEF LentOK
<1>14. \A jp \in IPs : tenant[jp] # c
  BY <1>3, <1>4, NoTenancy
<1> QED BY <1>1, <1>3, <1>4, <1>5, <1>6, <1>7, <1>8, <1>9, <1>10, <1>11, <1>12, <1>13, <1>14, LeftStep

\* In the beginning nobody has anything.
LEMMA LeftInitOK == CNIInit => LeftInd
<1> SUFFICES ASSUME CNIInit PROVE LeftInd
  OBVIOUS
<1> USE DEF CNIInit
<1>1. \A c \in Containers : proc[c] = Idle /\ link[c] = NoIP
  OBVIOUS
<1>2. Idle.pc = "stopped" /\ Idle.op = "none"
  BY DEF Idle
<1>3. ASSUME NEW c \in Containers PROVE BystanderOK(c) /\ LinkOK(c) /\ UnseenOK(c)
  <2>1. ~Deleting(c) /\ ~Undoing(c)
    BY <1>1, <1>2 DEF Deleting, Undoing
  <2> QED BY <1>1, <1>2, <2>1 DEF BystanderOK, LinkOK, UnseenOK
<1>4. ASSUME NEW ip \in IPs PROVE TenantOK(ip) /\ StandsOK(ip) /\ LentOK(ip)
  <2>1. ipam[ip] = NoContainer /\ tenant[ip] = NoContainer
    OBVIOUS
  <2> QED BY <2>1 DEF TenantOK, StandsOK, Fresh, LentOK
<1> QED BY <1>3, <1>4 DEF LeftInd

\* Every step keeps it.
LEMMA LeftNextKeeps ==
    ASSUME Calm, [CNINext]_cniVars
    PROVE  LeftInd'
<1>1. CASE UNCHANGED cniVars
  <2>1. UNCHANGED <<cniSetting, owner, tenant, netns, link, flock, locked, ipam, proc, creates>>
    BY <1>1 DEF cniVars, cniState
  <2>2. LeftInd
    BY DEF Calm
  <2> QED BY <2>1, <2>2 DEF LeftInd, BystanderOK, LinkOK, UnseenOK, TenantOK, StandsOK, LentOK, WillFree,
                 Target, Removing, Undoing, Dropping, Using, Naming, Claims, Deleting, Fresh, Makes, Mounted,
                 Fixed, Specific, KindOf, Want
<1>2. CASE CNINext
  <2>1. PICK c \in Containers : \/ HandleCreate(c) \/ HandleDelete(c) \/ RemoveNetwork(c)
                                \/ HandlerStep(c) \/ HandlerGivesUp(c) \/ HandlerDies(c)
    BY <1>2 DEF CNINext
  <2>2. UNCHANGED cniSetting
    BY <1>2 DEF CNINext
  <2>3. ~HandlerDies(c) /\ ~HandlerGivesUp(c)
    BY DEF HandlerDies, HandlerGivesUp, Calm, Orderly
  <2>4. CASE HandlerStep(c)
    <3>1. CASE CreateFlock(c) \/ CreateLock(c) \/ CreateGet(c) \/ Borrow(c) \/ RuncCreate(c)
      BY <2>2, <3>1, CreateFlockLeaves, CreateLockLeaves, CreateGetLeaves, BorrowLeaves,
         RuncCreateLeaves
    <3>2. CASE HandleStart(c) \/ CreateOwner(c) \/ CreateFile(c) \/ Mount(c) \/ Connect(c) \/ Occupy(c)
               \/ Undo(c)
      BY <2>2, <3>2, HandleStartLeaves, CreateOwnerLeaves, CreateFileLeaves, MountLeaves,
         ConnectLeaves, OccupyLeaves, UndoLeaves
    <3>3. CASE DeleteGet(c) \/ Free(c) \/ Disconnect(c) \/ DropFlock(c) \/ DropLock(c)
               \/ CountLinks(c) \/ CountTenant(c)
      BY <2>2, <3>3, DeleteGetLeaves, FreeLeaves, DisconnectLeaves, DropFlockLeaves, DropLockLeaves,
         CountLinksLeaves, CountTenantLeaves
    <3>4. CASE RemoveTenant(c) \/ RemoveOwner(c) \/ RemoveFlock(c) \/ RemoveNetns(c)
      BY <2>2, <3>4, RemoveTenantLeaves, RemoveOwnerLeaves, RemoveFlockLeaves, RemoveNetnsLeaves
    <3>5. ~CountFails(c)
      BY DEF CountFails, Calm, Orderly
    <3> QED BY <2>4, <3>1, <3>2, <3>3, <3>4, <3>5 DEF HandlerStep
  <2>5. CASE HandleCreate(c) \/ HandleDelete(c) \/ RemoveNetwork(c)
    BY <2>2, <2>5, HandleCreateLeaves, HandleDeleteLeaves, RemoveNetworkLeaves
  <2> QED BY <2>1, <2>3, <2>4, <2>5
<1> QED BY <1>1, <1>2

\* The invariant of the orderly settings.
LEMMA OrderlyInvariant == CNISpec => [](Orderly /\ NoFixedSpecific => LeftInd)
<1>1. CNIInit => (Orderly /\ NoFixedSpecific => LeftInd)
  BY LeftInitOK
<1>2. (Tidy => CNIInd) /\ (Orderly /\ NoFixedSpecific => LeftInd) /\ [CNINext]_cniVars
      => (Orderly /\ NoFixedSpecific => LeftInd)'
  <2>1. SUFFICES ASSUME Tidy => CNIInd, Orderly /\ NoFixedSpecific => LeftInd, [CNINext]_cniVars,
                        (Orderly /\ NoFixedSpecific)'
                 PROVE  LeftInd'
    OBVIOUS
  <2>2. UNCHANGED cniSetting
    BY <2>1 DEF CNINext, cniVars
  <2>3. Orderly /\ NoFixedSpecific /\ Tidy
    BY <2>1, <2>2 DEF Orderly, NoFixedSpecific, Tidy, Overlap, CNIFaults, KindOf
  <2>4. Calm
    BY <2>1, <2>3 DEF Calm
  <2> QED BY <2>1, <2>4, LeftNextKeeps
<1> QED BY <1>1, <1>2, TidyInvariant, PTL DEF CNISpec

\* A container that has an address is the one CNI gave it to, or the tenant of its endpoint.
LEMMA AliveHolds ==
    ASSUME CNIInd, NEW c \in Containers, Alive(c)
    PROVE  /\ proc[c].ip \in IPs
           /\ \/ Claims(c) /\ ipam[proc[c].ip] = c /\ Unused(proc[c].ip)
              \/ Using(c) /\ tenant[proc[c].ip] = c
<1>1. OpOK(c) /\ AddressOK(c) /\ ClaimOK(c) /\ UserOK(c)
  BY DEF CNIInd
<1>2. Claims(c) \/ Using(c)
  BY <1>1 DEF Claims, Using, Alive, OpOK
<1>3. proc[c].ip \in IPs
  BY <1>1 DEF AddressOK, Alive
<1>4. ASSUME Claims(c) PROVE ipam[proc[c].ip] = c /\ Unused(proc[c].ip)
  <2>1. ipam[proc[c].ip] = c
    BY <1>1, <1>4 DEF ClaimOK
  <2>2. Fresh(proc[c].ip) \/ Makes(c, proc[c].ip)
    BY <1>4, <2>1 DEF Fresh, Makes, Claims
  <2> QED BY <1>3, <2>1, <2>2 DEF CNIInd, FreshOK, MakingOK
<1> QED BY <1>1, <1>2, <1>3, <1>4 DEF UserOK

\* An address has one user.
LEMMA CNIIndOneUser == (Tidy => CNIInd) => OneUser
<1>1. SUFFICES ASSUME CNIInd, NEW c \in Containers, NEW d \in Containers, Alive(c), Alive(d),
                      proc[c].ip = proc[d].ip
               PROVE  c = d
  BY DEF OneUser, Orderly, Tidy
<1>2. PICK ip \in IPs : ip = proc[c].ip /\ ip = proc[d].ip
  BY <1>1, AliveHolds
<1>3. /\ (Claims(c) /\ ipam[ip] = c /\ Unused(ip)) \/ (Using(c) /\ tenant[ip] = c)
      /\ (Claims(d) /\ ipam[ip] = d /\ Unused(ip)) \/ (Using(d) /\ tenant[ip] = d)
  BY <1>1, <1>2, AliveHolds
<1> QED BY <1>3, NullAssumption DEF Unused

\* When all containers are removed nothing is left.
LEMMA LeftIndNothing ==
    (Tidy => CNIInd) /\ (Orderly /\ NoFixedSpecific => LeftInd) => NothingLeft
<1>1. SUFFICES ASSUME CNIInd, LeftInd, \A c \in cniSetting.containers : proc[c].pc = "removed"
               PROVE  /\ \A ip \in IPs : /\ netns[ip] = "absent" /\ ipam[ip] = NoContainer
                                         /\ owner[ip] = NoContainer /\ tenant[ip] = NoContainer
                      /\ \A c \in Containers : link[c] = NoIP
  BY DEF NothingLeft, Orderly, Tidy
<1>2. ASSUME NEW c \in Containers PROVE proc[c].pc \in {"stopped", "removed"} /\ link[c] = NoIP
  BY <1>1 DEF LeftInd, BystanderOK, LinkOK, Idle
<1>3. ASSUME NEW ip \in IPs
      PROVE  netns[ip] = "absent" /\ ipam[ip] = NoContainer /\ owner[ip] = NoContainer
             /\ tenant[ip] = NoContainer
  <2>1. TenantOK(ip) /\ StandsOK(ip) /\ LentOK(ip) /\ FreshOK(ip)
        /\ ipam[ip] \in Containers \cup {NoContainer}
    BY <1>1 DEF LeftInd, CNIInd, CNITypeOK
  <2>2. tenant[ip] = NoContainer
    BY <1>2, <2>1 DEF TenantOK, WillFree, Using
  <2>3. \A c \in Containers : ~Dropping(c) /\ ~Makes(c, ip) /\ link[c] # ip
    BY <1>2, NullAssumption DEF Dropping, Removing, Undoing, Makes
  <2>4. Fresh(ip)
    BY <2>1, <2>2, <2>3 DEF StandsOK
  <2>5. ipam[ip] = NoContainer
    <3>1. ASSUME ipam[ip] \in Containers PROVE FALSE
      <4>1. ~Fixed(ipam[ip])
        BY <1>2, <2>4, <3>1, NullAssumption DEF Fresh
      <4> QED BY <1>2, <2>1, <3>1, <4>1, NullAssumption DEF LentOK, Claims, Undoing
    <3> QED BY <2>1, <3>1
  <2> QED BY <2>1, <2>2, <2>4, <2>5 DEF FreshOK
<1> QED BY <1>2, <1>3

\* An endpoint passes from container to container, one at a time (BorrowNetEndpoint,
\* FreeNetEndpoint), and when all containers are removed neither a file of an endpoint nor
\* an allocation of CNI is left (DeleteDanglingNetwork), for any number of containers and
\* addresses, where no handler fails or dies and clients wait for each other.
THEOREM CleanlyHandedOver == CNISpec => []CleanHandOver
<1>1. (Tidy => CNIInd) /\ (Orderly /\ NoFixedSpecific => LeftInd) => CleanHandOver
  BY CNIIndOneUser, LeftIndNothing DEF CleanHandOver
<1> QED BY <1>1, TidyInvariant, OrderlyInvariant, PTL

=============================================================================
