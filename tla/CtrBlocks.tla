------------------------------ MODULE CtrBlocks ------------------------------
(***************************************************************************)
(* The block commands of the administration tool: list blocks, release     *)
(* blocks and release block (ctr/ipam.go), against the calico datastore    *)
(* while the hosts go on allocating.                                       *)
(*                                                                         *)
(* A block has a host it is affine to, "" when it has none, and a number   *)
(* of addresses in use.  Beside it the datastore has affinity objects: a   *)
(* host first writes one, then creates the block, and finds out in doing   *)
(* so that another host was faster; so an affinity may name a host that is *)
(* not the block's.  This is calico's side, seen through the calls made    *)
(* here.                                                                   *)
(*                                                                         *)
(* Blocks are read and released in the order of the datastore.  Nothing    *)
(* depends on that order, and any order is allowed.                        *)
(***************************************************************************)
EXTENDS Naturals, FiniteSets

CONSTANTS
    Blocks, Pools, Hosts,
    PoolOf,      \* the pool whose network contains the block
    Orphans,     \* blocks that exist at first without a host
    LocalHost,   \* where the tool runs
    BlockSize,   \* bound: addresses in use in a block
    NoBlock

ASSUME BlocksAssumption ==
    /\ PoolOf \in [Blocks -> Pools] /\ LocalHost \in Hosts /\ "" \notin Hosts \cup Pools
    /\ BlockSize \in Nat
    /\ NoBlock \notin [host : Hosts \cup {""}, used : 0 .. BlockSize]

VARIABLES
    blocks,     \* the allocation blocks of the datastore
    affinity,   \* its affinity objects
    blocksTool,       \* the command being run
    steady      \* blocks that have been asked for and empty since it began

blocksVars == <<blocks, affinity, blocksTool, steady>>

Block == [host : Hosts \cup {""}, used : 0 .. BlockSize]
Copy == [cidr : Blocks, host : Hosts \cup {""}, used : 0 .. BlockSize]

NoCommand == [pc |-> "idle", cmd |-> "none", node |-> "", pool |-> "", keys |-> {}, found |-> {}, err |-> FALSE]

BlocksInit ==
    /\ blocks = [b \in Blocks |-> IF b \in Orphans THEN [host |-> "", used |-> 0] ELSE NoBlock]
    /\ affinity = {}
    /\ blocksTool = NoCommand
    /\ steady = {}

Exists(b) == blocks[b] # NoBlock

-----------------------------------------------------------------------------
\* ListBlockByHostAndPoolOpt: the pool's network, if a pool is given, and the
\* host's affinities or else all blocks.
InPool(b, pool) == pool = "" \/ PoolOf[b] = pool

ListAffinities(node) == {b \in Blocks : <<node, b>> \in affinity}

ListInterface(node) == IF node = "" THEN {b \in Blocks : Exists(b)} ELSE {b \in Blocks : <<node, b>> \in affinity}

\* BlockHasAffinity, applied to the block as it was read.
CheckAffinity(copy, node) == node = "" \/ copy.host = node

BlockIsEmpty(copy) == copy.used = 0

\* The blocks a command is about: what its flags say of the datastore as it is.
Asked(b, node, pool) ==
    /\ Exists(b)
    /\ pool = "" \/ PoolOf[b] = pool
    /\ node = "" \/ blocks[b].host = node
    /\ blocks[b].used = 0

\* list blocks and release blocks: the flags are checked, an unknown pool is an
\* error of ListBlocks.
Start(cmd, node, pool) ==
    /\ blocksTool.pc = "idle"
    /\ blocksTool' = [NoCommand EXCEPT !.pc = IF (pool = "" /\ node = "") \/ pool = "unknown" THEN "done" ELSE "list",
                            !.err = (pool = "" /\ node = "") \/ pool = "unknown",
                            !.cmd = cmd, !.node = node, !.pool = pool]
    /\ steady' = {b \in Blocks : Asked(b, node, pool)}
    /\ UNCHANGED <<blocks, affinity>>

\* release block with a host: the block is not read, only released.  The command
\* requires a --pool and does not look at it: it may be any.
StartOne(b, host, pool) ==
    /\ blocksTool.pc = "idle"
    /\ blocksTool' = [NoCommand EXCEPT !.pc = "release", !.cmd = "release block", !.node = host, !.pool = pool,
                            !.found = {[cidr |-> b, host |-> host, used |-> 0]}]
    /\ UNCHANGED <<blocks, affinity, steady>>

\* ListBlocks, up to the loop that reads the blocks; backend.List may fail.
ListKeys ==
    /\ blocksTool.pc = "list"
    /\ \/ blocksTool' = [blocksTool EXCEPT !.pc = "get", !.keys = {b \in ListInterface(blocksTool.node) : InPool(b, blocksTool.pool)}]
       \/ blocksTool' = [blocksTool EXCEPT !.pc = "done", !.err = TRUE]
    /\ UNCHANGED <<blocks, affinity, steady>>

\* backend.Get of one block: one that is gone is skipped, any other error ends
\* the command.
GetBlock(b) ==
    /\ blocksTool.pc = "get"
    /\ b \in blocksTool.keys
    /\ LET copy == [cidr |-> b, host |-> blocks[b].host, used |-> blocks[b].used]
           rest == blocksTool.keys \ {b} IN
       \/ /\ Exists(b)
          /\ blocksTool' = [blocksTool EXCEPT !.keys = rest,
                                  !.found = IF CheckAffinity(copy, blocksTool.node) THEN @ \cup {copy} ELSE @]
       \/ /\ ~Exists(b)
          /\ blocksTool' = [blocksTool EXCEPT !.keys = rest]
       \/ blocksTool' = [blocksTool EXCEPT !.pc = "done", !.err = TRUE, !.keys = {}, !.found = {}]
    /\ UNCHANGED <<blocks, affinity, steady>>

\* getEmptyBlocks; list blocks prints what it found instead.
EmptyBlocks ==
    /\ blocksTool.pc = "get"
    /\ blocksTool.keys = {}
    /\ blocksTool' = [blocksTool EXCEPT !.pc = IF blocksTool.cmd = "list blocks" THEN "done" ELSE "release",
                            !.found = {c \in @ : BlockIsEmpty(c)}]
    /\ UNCHANGED <<blocks, affinity, steady>>

-----------------------------------------------------------------------------
\* Calico's ReleaseAffinity.  An empty host name stands for the local host; the
\* block must be that host's, and empty if the caller says so.  A block that is
\* not empty is kept, without a host.
IsHosts(b, host) == Exists(b) /\ blocks[b].host = (IF host = "" THEN LocalHost ELSE host)

CanRelease(b, host, mustBeEmpty) ==
    /\ IsHosts(b, host)
    /\ mustBeEmpty => blocks[b].used = 0

ReleaseAffinity(b, host, mustBeEmpty) ==
    /\ CanRelease(b, host, mustBeEmpty)
    /\ blocks' = [blocks EXCEPT ![b] = IF @.used = 0 THEN NoBlock ELSE [@ EXCEPT !.host = ""]]
    /\ affinity' = affinity \ {<<blocks[b].host, b>>}

\* A block that is gone, or is not the host's, need not be an error for calico: it
\* may return nil and leave the block as it is.
NotTheHosts(b, host) ==
    /\ ~IsHosts(b, host)
    /\ UNCHANGED <<blocks, affinity>>

\* Ctr.ReleaseEmptyBlock without its last argument.
ReleaseAnyBlock(copy) ==
    \/ /\ ReleaseAffinity(copy.cidr, copy.host, FALSE) \/ NotTheHosts(copy.cidr, copy.host)
       /\ blocksTool' = [blocksTool EXCEPT !.found = @ \ {copy}]
    \/ /\ blocksTool' = [blocksTool EXCEPT !.found = @ \ {copy}, !.err = TRUE]
       /\ UNCHANGED <<blocks, affinity>>

\* Ctr.ReleaseEmptyBlock of one of the blocks found; an error is printed and the
\* next block is tried.
ReleaseEmptyBlock(copy) ==
    \/ /\ ReleaseAffinity(copy.cidr, copy.host, TRUE) \/ NotTheHosts(copy.cidr, copy.host)
       /\ blocksTool' = [blocksTool EXCEPT !.found = @ \ {copy}]
    \/ /\ blocksTool' = [blocksTool EXCEPT !.found = @ \ {copy}, !.err = TRUE]
       /\ UNCHANGED <<blocks, affinity>>

Release ==
    /\ blocksTool.pc = "release"
    /\ \E copy \in blocksTool.found : ReleaseEmptyBlock(copy)
    /\ UNCHANGED steady

Finish ==
    /\ blocksTool.pc = "release"
    /\ blocksTool.found = {}
    /\ blocksTool' = [blocksTool EXCEPT !.pc = "done"]
    /\ UNCHANGED <<blocks, affinity, steady>>

\* The operator has read the answer and may give another command.
NextCommand ==
    /\ blocksTool.pc = "done"
    /\ blocksTool' = NoCommand
    /\ steady' = {}
    /\ UNCHANGED <<blocks, affinity>>

Tool ==
    \/ \E cmd \in {"list blocks", "release blocks"}, node \in Hosts \cup {""}, pool \in Pools \cup {"", "unknown"} :
          Start(cmd, node, pool)
    \/ \E b \in Blocks, host \in Hosts, pool \in Pools : StartOne(b, host, pool)
    \/ \E b \in Blocks : GetBlock(b)
    \/ ListKeys \/ EmptyBlocks \/ Release \/ Finish \/ NextCommand

-----------------------------------------------------------------------------
\* The hosts' side of calico's allocation.
Claim(h, b) ==
    /\ <<h, b>> \notin affinity
    /\ ~Exists(b)
    /\ affinity' = affinity \cup {<<h, b>>}
    /\ UNCHANGED <<blocks, blocksTool, steady>>

CreateBlock(h, b) ==
    /\ <<h, b>> \in affinity
    /\ ~Exists(b)
    /\ blocks' = [blocks EXCEPT ![b] = [host |-> h, used |-> 0]]
    /\ steady' = steady \ {b}
    /\ UNCHANGED <<affinity, blocksTool>>

DropClaim(h, b) ==
    /\ <<h, b>> \in affinity
    /\ Exists(b)
    /\ blocks[b].host # h
    /\ affinity' = affinity \ {<<h, b>>}
    /\ UNCHANGED <<blocks, blocksTool, steady>>

Allocate(b) ==
    /\ Exists(b)
    /\ blocks[b].used < BlockSize
    /\ blocks' = [blocks EXCEPT ![b].used = @ + 1]
    /\ steady' = steady \ {b}
    /\ UNCHANGED <<affinity, blocksTool>>

Free(b) ==
    /\ Exists(b)
    /\ blocks[b].used > 0
    /\ blocks' = [blocks EXCEPT ![b].used = @ - 1]
    /\ UNCHANGED <<affinity, blocksTool, steady>>

Calico == \E b \in Blocks :
    \/ \E h \in Hosts : Claim(h, b) \/ CreateBlock(h, b) \/ DropClaim(h, b)
    \/ Allocate(b) \/ Free(b)

BlocksNext == Tool \/ Calico
BlocksSpec == BlocksInit /\ [][BlocksNext]_blocksVars

-----------------------------------------------------------------------------
\* The blocks, the affinities and the command are of the kinds the code handles,
\* and a block's host has an affinity object.
BlocksTypeOK ==
    /\ blocks \in [Blocks -> Block \cup {NoBlock}]
    /\ affinity \subseteq Hosts \X Blocks
    /\ \A b \in Blocks : Exists(b) /\ blocks[b].host # "" => <<blocks[b].host, b>> \in affinity
    /\ blocksTool.keys \subseteq Blocks /\ blocksTool.found \subseteq Copy
    /\ blocksTool.keys # {} => blocksTool.pc = "get"

\* Blocks are listed, read and released in separate calls while hosts allocate
\* from them: a step of the tool never takes a block, or its host, away from
\* addresses in use.
UsedBlocksKept ==
    [][blocksTool' # blocksTool => \A b \in Blocks : blocks'[b] # blocks[b] => blocks[b].used = 0]_blocksVars

\* release blocks touches only blocks of the pool and of the node it was given,
\* although it lists the node's affinities and reads the blocks later; release
\* block touches only a block of the host it was given.  Of its pool nothing is
\* said: the command ignores that flag.
OnlyAskedFor ==
    [][blocksTool' # blocksTool => \A b \in Blocks : blocks'[b] # blocks[b] =>
          /\ blocksTool.cmd = "release blocks" => blocksTool.pool \in {"", PoolOf[b]}
          /\ blocksTool.node \in {"", blocks[b].host}]_blocksVars

\* release blocks is complete as far as blocks have a host: when it ends without an
\* error, every block that it was asked for, that was empty all the time and that
\* is still there has no host.  Such a block is asked for in the name of the local
\* host, and "release block success" is printed although it stays.
NoneForgotten ==
    blocksTool.pc = "done" /\ blocksTool.cmd = "release blocks" /\ ~blocksTool.err =>
        \A b \in steady : Exists(b) => blocks[b].host = ""

\* The tool's view stays well formed while blocks come and go, and release blocks
\* is complete.
BlocksInv == BlocksTypeOK /\ NoneForgotten

\* What the tool read may be stale when it acts on it: it still takes only what is
\* unused and was asked for.
BlocksKept == UsedBlocksKept /\ OnlyAskedFor

=============================================================================
