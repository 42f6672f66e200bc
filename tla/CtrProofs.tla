------------------------------ MODULE CtrProofs ------------------------------
(***************************************************************************)
(* Theorems about the administration tool: its block and its address       *)
(* commands, for every number of blocks, hosts, addresses, endpoints and   *)
(* operators, and the initialisation of its clients, for every graph.      *)
(***************************************************************************)
EXTENDS CtrBlocks, CtrAddresses, CtrCommands, TLAPS, SequenceTheorems, WellFoundedInduction

(***************************************************************************)
(* Blocks.  The command carries what it needs to be right: of each key and *)
(* of each block found, that it was asked for; and of each block that has  *)
(* been asked for and empty all the time and has a host, that it is still  *)
(* in hand.                                                                *)
(***************************************************************************)
CommandType ==
    [pc : {"idle", "list", "get", "release", "done"},
     cmd : {"none", "list blocks", "release blocks", "release block"},
     node : Hosts \cup {""}, pool : Pools \cup {"", "unknown"},
     keys : SUBSET Blocks, found : SUBSET Copy, err : BOOLEAN]

CopyOf(b) == [cidr |-> b, host |-> blocks[b].host, used |-> blocks[b].used]

\* What was asked for, of the command's keys and of the blocks it found.
InHandAsked ==
    /\ \A b \in blocksTool.keys : blocksTool.pool \in {"", PoolOf[b]}
    /\ \A c \in blocksTool.found :
          /\ blocksTool.cmd # "release block" => blocksTool.pool \in {"", PoolOf[c.cidr]}
          /\ blocksTool.node \in {"", c.host}

\* The blocks that must be released have not changed since the command began.
SteadyAsked ==
    /\ blocksTool.pc = "idle" => steady = {}
    /\ steady \subseteq Blocks
    /\ \A b \in steady : Exists(b) => Asked(b, blocksTool.node, blocksTool.pool)

\* Each of them that is still there, with a host, is a key to read, or among those
\* to release.
SteadyInHand ==
    blocksTool.cmd = "release blocks" /\ ~blocksTool.err =>
        \A b \in steady : Exists(b) /\ blocks[b].host # "" =>
            /\ blocksTool.pc = "get" => b \in blocksTool.keys \/ CopyOf(b) \in blocksTool.found
            /\ blocksTool.pc = "release" => CopyOf(b) \in blocksTool.found
            /\ blocksTool.pc # "done"

BlocksIInv ==
    /\ BlocksTypeOK
    /\ blocksTool \in CommandType
    /\ InHandAsked
    /\ SteadyAsked
    /\ SteadyInHand

\* A block with no address in use is a block.
LEMMA ZeroUsed == 0 \in 0 .. BlockSize
<1>1. BlockSize \in Nat
  BY BlocksAssumption
<1> QED
  BY <1>1

\* The whole invariant in the initial state.
LEMMA BlocksInitHolds == BlocksInit => BlocksIInv
<1> SUFFICES ASSUME BlocksInit PROVE BlocksIInv
  OBVIOUS
<1>1. blocks \in [Blocks -> Block \cup {NoBlock}]
      /\ \A b \in Blocks : Exists(b) => blocks[b].host = ""
  BY ZeroUsed DEF BlocksInit, Block, Exists
<1>2. blocksTool \in CommandType /\ blocksTool.keys = {} /\ blocksTool.found = {}
      /\ blocksTool.cmd = "none"
  BY DEF BlocksInit, NoCommand, CommandType
<1>3. BlocksTypeOK
  BY <1>1, <1>2 DEF BlocksTypeOK, BlocksInit
<1> QED
  BY <1>2, <1>3 DEF BlocksIInv, InHandAsked, SteadyAsked, SteadyInHand, BlocksInit

\* A block that is there is a block.
LEMMA BlockFacts ==
    ASSUME BlocksTypeOK, NEW b \in Blocks
    PROVE  /\ Exists(b) => blocks[b] \in Block /\ CopyOf(b) \in Copy
           /\ Exists(b) <=> blocks[b] \in Block
BY BlocksAssumption DEF BlocksTypeOK, Exists, Block, Copy, CopyOf

\* Starting a command, and ending one.
LEMMA StartSteps ==
    ASSUME BlocksIInv,
           \/ \E command \in {"list blocks", "release blocks"}, node \in Hosts \cup {""},
                 pool \in Pools \cup {"", "unknown"} : Start(command, node, pool)
           \/ \E b \in Blocks, host \in Hosts, pool \in Pools : StartOne(b, host, pool)
           \/ NextCommand
    PROVE  BlocksIInv'
<1>1. BlocksTypeOK /\ SteadyAsked
  BY DEF BlocksIInv
<1>2. ASSUME NEW command \in {"list blocks", "release blocks"}, NEW node \in Hosts \cup {""},
             NEW pool \in Pools \cup {"", "unknown"}, Start(command, node, pool)
      PROVE  BlocksIInv'
  <2>1. UNCHANGED <<blocks, affinity>> /\ steady' = {b \in Blocks : Asked(b, node, pool)}
    BY <1>2 DEF Start
  <2>2. /\ blocksTool' \in CommandType /\ blocksTool'.keys = {} /\ blocksTool'.found = {}
        /\ blocksTool'.node = node /\ blocksTool'.pool = pool
        /\ \/ blocksTool'.pc = "list"
           \/ blocksTool'.pc = "done" /\ blocksTool'.err
    BY <1>2 DEF Start, NoCommand, CommandType
  <2>3. \A b \in Blocks : Exists(b)' = Exists(b) /\ Asked(b, node, pool)' = Asked(b, node, pool)
    BY <2>1 DEF Exists, Asked
  <2>4. BlocksTypeOK'
    BY <1>1, <2>1, <2>2, <2>3 DEF BlocksTypeOK
  <2>5. InHandAsked' /\ SteadyInHand'
    BY <2>2 DEF InHandAsked, SteadyInHand
  <2>6. SteadyAsked'
    BY <2>1, <2>2, <2>3 DEF SteadyAsked
  <2> QED  BY <2>2, <2>4, <2>5, <2>6 DEF BlocksIInv
<1>3. ASSUME NEW b \in Blocks, NEW host \in Hosts, NEW pool \in Pools, StartOne(b, host, pool)
      PROVE  BlocksIInv'
  <2>1. UNCHANGED <<blocks, affinity, steady>> /\ blocksTool.pc = "idle" /\ steady = {}
    BY <1>1, <1>3 DEF StartOne, SteadyAsked
  <2> DEFINE c == [cidr |-> b, host |-> host, used |-> 0]
  <2>2. c \in Copy /\ c.cidr = b /\ c.host = host
    BY ZeroUsed DEF Copy
  <2> HIDE DEF c
  <2>4. blocksTool' = [NoCommand EXCEPT !.pc = "release", !.cmd = "release block",
                           !.node = host, !.pool = pool, !.found = {c}]
    BY <1>3 DEF StartOne, c
  <2>5. /\ blocksTool' \in CommandType /\ blocksTool'.keys = {} /\ blocksTool'.found = {c}
        /\ blocksTool'.node = host /\ blocksTool'.pool = pool
        /\ blocksTool'.cmd = "release block" /\ blocksTool'.pc = "release"
    BY <2>2, <2>4 DEF NoCommand, CommandType
  <2>6. BlocksTypeOK'
    BY <1>1, <2>1, <2>2, <2>5 DEF BlocksTypeOK, Exists
  <2>7. InHandAsked' /\ SteadyInHand' /\ SteadyAsked'
    BY <2>1, <2>2, <2>5 DEF InHandAsked, SteadyInHand, SteadyAsked
  <2> QED  BY <2>5, <2>6, <2>7 DEF BlocksIInv
<1>4. CASE NextCommand
  <2>1. UNCHANGED <<blocks, affinity>> /\ steady' = {}
    BY <1>4 DEF NextCommand
  <2>2. /\ blocksTool' \in CommandType /\ blocksTool'.keys = {} /\ blocksTool'.found = {}
    BY <1>4 DEF NextCommand, NoCommand, CommandType
  <2>3. BlocksTypeOK'
    BY <1>1, <2>1, <2>2 DEF BlocksTypeOK, Exists
  <2>4. InHandAsked' /\ SteadyInHand' /\ SteadyAsked'
    BY <2>1, <2>2 DEF InHandAsked, SteadyInHand, SteadyAsked
  <2> QED  BY <2>2, <2>3, <2>4 DEF BlocksIInv
<1> QED
  BY <1>2, <1>3, <1>4

\* Reading: the keys, then the blocks, then those that are empty.
LEMMA ReadSteps ==
    ASSUME BlocksIInv, ListKeys \/ (\E b \in Blocks : GetBlock(b)) \/ EmptyBlocks
    PROVE  BlocksIInv'
<1>1. /\ BlocksTypeOK /\ blocksTool \in CommandType /\ InHandAsked /\ SteadyAsked /\ SteadyInHand
      /\ UNCHANGED <<blocks, affinity, steady>>
  BY DEF BlocksIInv, ListKeys, GetBlock, EmptyBlocks
<1>2. /\ \A b : Exists(b)' = Exists(b) /\ CopyOf(b)' = CopyOf(b)
      /\ \A b, node, pool : Asked(b, node, pool)' = Asked(b, node, pool)
  BY <1>1 DEF Exists, Asked, CopyOf
<1>3. CASE ListKeys
  <2> DEFINE k == {b \in ListInterface(blocksTool.node) : InPool(b, blocksTool.pool)}
  <2>1. k \subseteq Blocks /\ \A b \in k : blocksTool.pool \in {"", PoolOf[b]}
    BY DEF ListInterface, InPool
  <2>2. \A b \in steady : Exists(b) => b \in k
    <3> SUFFICES ASSUME NEW b \in steady, Exists(b) PROVE b \in k
      OBVIOUS
    <3>1. b \in Blocks /\ Asked(b, blocksTool.node, blocksTool.pool)
      BY <1>1 DEF SteadyAsked
    <3>2. InPool(b, blocksTool.pool)
      BY <3>1 DEF Asked, InPool
    <3>3. CASE blocksTool.node = ""
      BY <3>1, <3>2, <3>3 DEF ListInterface
    <3>4. CASE blocksTool.node # ""
      <4>1. blocks[b].host = blocksTool.node /\ <<blocks[b].host, b>> \in affinity
        BY <1>1, <3>1, <3>4 DEF Asked, BlocksTypeOK
      <4> QED  BY <3>1, <3>2, <3>4, <4>1 DEF ListInterface
    <3> QED  BY <3>3, <3>4
  <2> HIDE DEF k
  <2>3. CASE blocksTool' = [blocksTool EXCEPT !.pc = "get", !.keys = k]
    <3>1. /\ blocksTool' \in CommandType /\ blocksTool'.pc = "get" /\ blocksTool'.keys = k
          /\ blocksTool'.found = blocksTool.found /\ blocksTool'.node = blocksTool.node
          /\ blocksTool'.pool = blocksTool.pool /\ blocksTool'.cmd = blocksTool.cmd
      BY <1>1, <2>1, <2>3 DEF CommandType
    <3>2. BlocksTypeOK'
      BY <1>1, <1>2, <2>1, <3>1 DEF BlocksTypeOK
    <3>3. InHandAsked' /\ SteadyAsked'
      BY <1>1, <1>2, <2>1, <3>1 DEF InHandAsked, SteadyAsked
    <3>4. SteadyInHand'
      BY <1>1, <1>2, <2>2, <3>1 DEF SteadyInHand
    <3> QED  BY <3>1, <3>2, <3>3, <3>4 DEF BlocksIInv
  <2>4. CASE blocksTool' = [blocksTool EXCEPT !.pc = "done", !.err = TRUE]
    <3>1. /\ blocksTool' \in CommandType /\ blocksTool'.pc = "done" /\ blocksTool'.err
          /\ blocksTool'.keys = blocksTool.keys
          /\ blocksTool'.found = blocksTool.found /\ blocksTool'.node = blocksTool.node
          /\ blocksTool'.pool = blocksTool.pool /\ blocksTool'.cmd = blocksTool.cmd
      BY <1>1, <2>4 DEF CommandType
    <3>2. BlocksTypeOK'
      BY <1>1, <1>2, <1>3, <3>1 DEF BlocksTypeOK, ListKeys
    <3>3. InHandAsked' /\ SteadyAsked' /\ SteadyInHand'
      BY <1>1, <1>2, <3>1 DEF InHandAsked, SteadyAsked, SteadyInHand
    <3> QED  BY <3>1, <3>2, <3>3 DEF BlocksIInv
  <2> QED  BY <1>3, <2>3, <2>4 DEF ListKeys, k
<1>4. ASSUME NEW b \in Blocks, GetBlock(b)
      PROVE  BlocksIInv'
  <2>0. blocksTool.pc = "get" /\ b \in blocksTool.keys
    BY <1>4 DEF GetBlock
  <2> DEFINE c == CopyOf(b)
  <2>1. c.cidr = b /\ c.host = blocks[b].host /\ c.used = blocks[b].used
        /\ (Exists(b) => c \in Copy)
    BY <1>1, BlockFacts DEF CopyOf
  <2> HIDE DEF c
  <2>2. ASSUME NEW found, found \subseteq Copy, blocksTool.found \subseteq found,
               found \subseteq blocksTool.found \cup {c},
               c \in found => c \in blocksTool.found \/ blocksTool.node \in {"", c.host},
               b \in steady /\ Exists(b) => c \in found,
               blocksTool' = [blocksTool EXCEPT !.keys = @ \ {b}, !.found = found]
        PROVE  BlocksIInv'
    <3>1. /\ blocksTool' \in CommandType /\ blocksTool'.pc = "get"
          /\ blocksTool'.keys = blocksTool.keys \ {b} /\ blocksTool'.found = found
          /\ blocksTool'.node = blocksTool.node /\ blocksTool'.pool = blocksTool.pool
          /\ blocksTool'.cmd = blocksTool.cmd /\ blocksTool'.err = blocksTool.err
      BY <1>1, <2>0, <2>2 DEF CommandType
    <3>2. BlocksTypeOK'
      BY <1>1, <1>2, <2>2, <3>1 DEF BlocksTypeOK
    <3>3. InHandAsked'
      BY <1>1, <2>0, <2>1, <2>2, <3>1 DEF InHandAsked
    <3>4. SteadyAsked'
      BY <1>1, <1>2, <3>1 DEF SteadyAsked
    <3>5. SteadyInHand'
      BY <1>1, <1>2, <2>0, <2>2, <3>1 DEF SteadyInHand, c
    <3> QED  BY <3>1, <3>2, <3>3, <3>4, <3>5 DEF BlocksIInv
  <2>3. CASE Exists(b) /\ blocksTool' = [blocksTool EXCEPT !.keys = @ \ {b},
                 !.found = IF CheckAffinity(c, blocksTool.node) THEN @ \cup {c} ELSE @]
    <3> DEFINE found == IF CheckAffinity(c, blocksTool.node) THEN blocksTool.found \cup {c}
                                                             ELSE blocksTool.found
    <3>1. blocksTool' = [blocksTool EXCEPT !.keys = @ \ {b}, !.found = found]
      BY <1>1, <2>3
    <3>2. b \in steady => CheckAffinity(c, blocksTool.node)
      BY <1>1, <2>1, <2>3 DEF SteadyAsked, Asked, CheckAffinity
    <3>3. /\ found \subseteq Copy /\ blocksTool.found \subseteq found
          /\ found \subseteq blocksTool.found \cup {c}
          /\ c \in found => c \in blocksTool.found \/ blocksTool.node \in {"", c.host}
          /\ b \in steady => c \in found
      BY <1>1, <2>1, <2>3, <3>2 DEF BlocksTypeOK, CheckAffinity
    <3> HIDE DEF found
    <3> QED  BY <2>2, <3>1, <3>3
  <2>4. CASE ~Exists(b) /\ blocksTool' = [blocksTool EXCEPT !.keys = @ \ {b}]
    <3>1. blocksTool' = [blocksTool EXCEPT !.keys = @ \ {b}, !.found = blocksTool.found]
      BY <1>1, <2>4 DEF CommandType
    <3> QED  BY <1>1, <2>2, <2>4, <3>1 DEF BlocksTypeOK
  <2>5. CASE blocksTool' = [blocksTool EXCEPT !.pc = "done", !.err = TRUE, !.keys = {}, !.found = {}]
    <3>1. /\ blocksTool' \in CommandType /\ blocksTool'.pc = "done" /\ blocksTool'.err
          /\ blocksTool'.keys = {} /\ blocksTool'.found = {}
          /\ blocksTool'.node = blocksTool.node /\ blocksTool'.pool = blocksTool.pool
      BY <1>1, <2>5 DEF CommandType
    <3>2. BlocksTypeOK'
      BY <1>1, <1>2, <3>1 DEF BlocksTypeOK
    <3>3. InHandAsked' /\ SteadyAsked' /\ SteadyInHand'
      BY <1>1, <1>2, <3>1 DEF InHandAsked, SteadyAsked, SteadyInHand
    <3> QED  BY <3>1, <3>2, <3>3 DEF BlocksIInv
  <2> QED  BY <1>4, <2>3, <2>4, <2>5 DEF GetBlock, c, CopyOf
<1>5. CASE EmptyBlocks
  <2> DEFINE found == {c \in blocksTool.found : BlockIsEmpty(c)}
  <2>1. found \subseteq blocksTool.found
        /\ \A b \in steady : Exists(b) /\ CopyOf(b) \in blocksTool.found => CopyOf(b) \in found
    BY <1>1 DEF BlockIsEmpty, SteadyAsked, Asked, CopyOf
  <2> HIDE DEF found
  <2>2. /\ blocksTool.pc = "get" /\ blocksTool.keys = {}
        /\ blocksTool' = [blocksTool EXCEPT !.found = found,
                            !.pc = IF blocksTool.cmd = "list blocks" THEN "done" ELSE "release"]
    BY <1>1, <1>5 DEF EmptyBlocks, CommandType, found
  <2>3. /\ blocksTool' \in CommandType /\ blocksTool'.keys = {} /\ blocksTool'.found = found
        /\ blocksTool'.pc \in {"release", "done"}
        /\ blocksTool'.pc = "done" => blocksTool'.cmd = "list blocks"
        /\ blocksTool'.node = blocksTool.node /\ blocksTool'.pool = blocksTool.pool
        /\ blocksTool'.cmd = blocksTool.cmd /\ blocksTool'.err = blocksTool.err
    BY <1>1, <2>1, <2>2 DEF CommandType
  <2>4. BlocksTypeOK'
    BY <1>1, <1>2, <2>1, <2>3 DEF BlocksTypeOK
  <2>5. InHandAsked' /\ SteadyAsked'
    BY <1>1, <1>2, <2>1, <2>3 DEF InHandAsked, SteadyAsked
  <2>6. SteadyInHand'
    BY <1>1, <1>2, <2>1, <2>2, <2>3 DEF SteadyInHand
  <2> QED  BY <2>3, <2>4, <2>5, <2>6 DEF BlocksIInv
<1> QED
  BY <1>3, <1>4, <1>5

\* Releasing the blocks found, one at a time, and being done with them.
LEMMA ReleaseSteps ==
    ASSUME BlocksIInv, Release \/ Finish
    PROVE  BlocksIInv'
<1>1. /\ BlocksTypeOK /\ blocksTool \in CommandType /\ InHandAsked /\ SteadyAsked /\ SteadyInHand
      /\ UNCHANGED steady /\ blocksTool.pc = "release"
  BY DEF BlocksIInv, Release, Finish
<1>2. ASSUME NEW c \in blocksTool.found, ReleaseEmptyBlock(c)
      PROVE  BlocksIInv'
  <2>1. c \in Copy
    BY <1>1 DEF BlocksTypeOK
  <2>2. PICK e \in BOOLEAN :
           /\ blocksTool' = [blocksTool EXCEPT !.found = @ \ {c}, !.err = e]
           /\ \/ e /\ UNCHANGED <<blocks, affinity>>
              \/ e = blocksTool.err /\ (ReleaseAffinity(c.cidr, c.host, TRUE) \/ NotTheHosts(c.cidr, c.host))
    <3>1. CASE /\ ReleaseAffinity(c.cidr, c.host, TRUE) \/ NotTheHosts(c.cidr, c.host)
               /\ blocksTool' = [blocksTool EXCEPT !.found = @ \ {c}]
      <4>1. blocksTool' = [blocksTool EXCEPT !.found = @ \ {c}, !.err = blocksTool.err]
        BY <1>1, <3>1 DEF CommandType
      <4>2. blocksTool.err \in BOOLEAN
        BY <1>1 DEF CommandType
      <4> QED  BY <3>1, <4>1, <4>2
    <3>2. CASE blocksTool' = [blocksTool EXCEPT !.found = @ \ {c}, !.err = TRUE] /\ UNCHANGED <<blocks, affinity>>
      BY <3>2
    <3> QED  BY <1>2, <3>1, <3>2 DEF ReleaseEmptyBlock
  <2>3. /\ blocksTool' \in CommandType /\ blocksTool'.pc = "release"
        /\ blocksTool'.keys = blocksTool.keys /\ blocksTool'.found = blocksTool.found \ {c}
        /\ blocksTool'.node = blocksTool.node /\ blocksTool'.pool = blocksTool.pool
        /\ blocksTool'.cmd = blocksTool.cmd /\ blocksTool'.err = e
    BY <1>1, <2>2 DEF CommandType
  <2>4. InHandAsked'
    BY <1>1, <2>3 DEF InHandAsked
  <2>5. CASE e /\ UNCHANGED <<blocks, affinity>>
    <3>1. BlocksTypeOK' /\ SteadyAsked' /\ SteadyInHand'
      BY <1>1, <2>3, <2>5 DEF BlocksTypeOK, SteadyAsked, SteadyInHand, Exists, Asked
    <3> QED  BY <2>3, <2>4, <3>1 DEF BlocksIInv
  <2>6. CASE e = blocksTool.err /\ ReleaseAffinity(c.cidr, c.host, TRUE)
    <3> DEFINE b == c.cidr
    <3>1. b \in Blocks /\ Exists(b) /\ blocks[b].used = 0
          /\ blocks' = [blocks EXCEPT ![b] = NoBlock]
          /\ affinity' = affinity \ {<<blocks[b].host, b>>}
      BY <2>1, <2>6 DEF Copy, ReleaseAffinity, CanRelease, IsHosts
    <3>2. blocks \in [Blocks -> Block \cup {NoBlock}]
      BY <1>1 DEF BlocksTypeOK
    <3>3. ~Exists(b)' /\ \A d \in Blocks \ {b} : blocks'[d] = blocks[d]
      BY <3>1, <3>2 DEF Exists
    <3> HIDE DEF b
    <3>4. \A d \in Blocks \ {b} : Exists(d)' = Exists(d) /\ CopyOf(d)' = CopyOf(d)
               /\ \A node, pool : Asked(d, node, pool)' = Asked(d, node, pool)
      BY <3>3 DEF Exists, CopyOf, Asked
    <3>5. BlocksTypeOK'
      <4>1. blocks' \in [Blocks -> Block \cup {NoBlock}] /\ affinity' \subseteq Hosts \X Blocks
        BY <1>1, <3>1, <3>2 DEF BlocksTypeOK
      <4>2. ASSUME NEW d \in Blocks, Exists(d)', blocks'[d].host # ""
            PROVE  <<blocks'[d].host, d>> \in affinity'
        <5>1. d # b /\ Exists(d) /\ blocks'[d] = blocks[d]
          BY <3>3, <3>4, <4>2
        <5>2. <<blocks[d].host, d>> \in affinity
          BY <1>1, <4>2, <5>1 DEF BlocksTypeOK
        <5> QED  BY <3>1, <5>1, <5>2
      <4> QED  BY <1>1, <2>3, <4>1, <4>2 DEF BlocksTypeOK
    <3>6. SteadyAsked'
      BY <1>1, <2>3, <3>3, <3>4 DEF SteadyAsked
    <3>7. SteadyInHand'
      <4> SUFFICES ASSUME blocksTool.cmd = "release blocks", ~blocksTool.err,
                          NEW d \in steady, Exists(d)', blocks'[d].host # ""
                   PROVE  CopyOf(d)' \in blocksTool.found \ {c}
        BY <1>1, <2>3, <2>6 DEF SteadyInHand
      <4>1. d \in Blocks /\ d # b
        BY <1>1, <3>3 DEF SteadyAsked
      <4>2. CopyOf(d) \in blocksTool.found
        BY <1>1, <3>3, <3>4, <4>1 DEF SteadyInHand
      <4>3. CopyOf(d).cidr = d /\ c.cidr = b
        BY DEF CopyOf, b
      <4> QED  BY <3>4, <4>1, <4>2, <4>3
    <3> QED  BY <2>3, <2>4, <3>5, <3>6, <3>7 DEF BlocksIInv
  <2>7. CASE e = blocksTool.err /\ NotTheHosts(c.cidr, c.host)
    <3>1. UNCHANGED <<blocks, affinity>> /\ ~IsHosts(c.cidr, c.host)
      BY <2>7 DEF NotTheHosts
    <3>2. BlocksTypeOK' /\ SteadyAsked'
      BY <1>1, <2>3, <3>1 DEF BlocksTypeOK, SteadyAsked, Exists, Asked
    <3>3. ASSUME NEW d \in steady, Exists(d), blocks[d].host # "", CopyOf(d) = c
          PROVE  FALSE
      <4>1. c.cidr = d /\ c.host = blocks[d].host
        BY <3>3 DEF CopyOf
      <4> QED  BY <3>1, <3>3, <4>1 DEF IsHosts
    <3>4. SteadyInHand'
      BY <1>1, <2>3, <2>7, <3>1, <3>3 DEF SteadyInHand, Exists, CopyOf
    <3> QED  BY <2>3, <2>4, <3>2, <3>4 DEF BlocksIInv
  <2> QED  BY <2>2, <2>5, <2>6, <2>7
<1>3. CASE Finish
  <2>1. /\ UNCHANGED <<blocks, affinity>> /\ blocksTool.found = {}
        /\ blocksTool' \in CommandType /\ blocksTool'.pc = "done"
        /\ blocksTool'.keys = blocksTool.keys /\ blocksTool'.found = {}
        /\ blocksTool'.node = blocksTool.node /\ blocksTool'.pool = blocksTool.pool
        /\ blocksTool'.cmd = blocksTool.cmd /\ blocksTool'.err = blocksTool.err
    BY <1>1, <1>3 DEF Finish, CommandType
  <2>2. BlocksTypeOK' /\ InHandAsked' /\ SteadyAsked'
    BY <1>1, <2>1 DEF BlocksTypeOK, InHandAsked, SteadyAsked, Exists, Asked
  <2>3. SteadyInHand'
    BY <1>1, <2>1 DEF SteadyInHand, Exists
  <2> QED  BY <2>1, <2>2, <2>3 DEF BlocksIInv
<1> QED
  BY <1>2, <1>3 DEF Release

\* A step of a host changes one block at most, and never one that has been empty
\* and asked for without its leaving that set.
LEMMA CalicoSteps ==
    ASSUME BlocksIInv, Calico
    PROVE  BlocksIInv'
<1>1. /\ BlocksTypeOK /\ blocksTool \in CommandType /\ InHandAsked /\ SteadyAsked /\ SteadyInHand
      /\ UNCHANGED blocksTool
  BY DEF BlocksIInv, Calico, Claim, CreateBlock, DropClaim, Allocate, Free
<1>2. PICK b \in Blocks :
        \/ \E h \in Hosts : Claim(h, b) \/ CreateBlock(h, b) \/ DropClaim(h, b)
        \/ Allocate(b) \/ Free(b)
  BY DEF Calico
<1>3. blocks \in [Blocks -> Block \cup {NoBlock}] /\ blocks[b] \in Block \cup {NoBlock}
      /\ affinity \subseteq Hosts \X Blocks /\ steady \subseteq Blocks
  BY <1>1 DEF BlocksTypeOK, SteadyAsked
<1>4. ASSUME NEW a, a = affinity', NEW v \in Block \cup {NoBlock},
             a \subseteq Hosts \X Blocks,
             blocks' = [blocks EXCEPT ![b] = v], steady' \subseteq steady,
             v = blocks[b] \/ b \notin steady',
             v # NoBlock /\ v.host # "" => <<v.host, b>> \in a,
             \A d \in Blocks \ {b} : \A h : <<h, d>> \in affinity => <<h, d>> \in a
      PROVE  BlocksIInv'
  <2>1. blocks' \in [Blocks -> Block \cup {NoBlock}] /\ blocks'[b] = v
        /\ \A d \in Blocks \ {b} : blocks'[d] = blocks[d]
    BY <1>3, <1>4
  <2>2. \A d \in Blocks : blocks'[d] = blocks[d] =>
           /\ Exists(d)' = Exists(d) /\ CopyOf(d)' = CopyOf(d)
           /\ \A node, pool : Asked(d, node, pool)' = Asked(d, node, pool)
    BY DEF Exists, CopyOf, Asked
  <2>3. \A d \in steady' : d \in Blocks /\ d \in steady /\ blocks'[d] = blocks[d]
    BY <1>3, <1>4, <2>1
  <2>4. BlocksTypeOK'
    <3>1. ASSUME NEW d \in Blocks, Exists(d)', blocks'[d].host # ""
          PROVE  <<blocks'[d].host, d>> \in affinity'
      <4>1. CASE d = b
        BY <1>4, <2>1, <3>1, <4>1 DEF Exists
      <4>2. CASE d # b
        <5>1. Exists(d) /\ blocks'[d] = blocks[d]
          BY <2>1, <2>2, <3>1, <4>2
        <5>2. <<blocks[d].host, d>> \in affinity
          BY <1>1, <3>1, <5>1 DEF BlocksTypeOK
        <5> QED  BY <1>4, <4>2, <5>1, <5>2
      <4> QED  BY <4>1, <4>2
    <3> QED  BY <1>1, <1>4, <2>1, <3>1 DEF BlocksTypeOK
  <2>5. InHandAsked'
    BY <1>1 DEF InHandAsked
  <2>6. SteadyAsked'
    <3>1. blocksTool'.pc = "idle" => steady' = {}
      BY <1>1, <1>4 DEF SteadyAsked
    <3>2. \A d \in steady' : Exists(d)' => Asked(d, blocksTool.node, blocksTool.pool)'
      BY <1>1, <2>2, <2>3 DEF SteadyAsked
    <3> QED  BY <1>3, <1>4, <3>1, <3>2 DEF SteadyAsked
  <2>7. SteadyInHand'
    BY <1>1, <2>2, <2>3 DEF SteadyInHand
  <2> QED  BY <1>1, <2>4, <2>5, <2>6, <2>7 DEF BlocksIInv
<1>5. blocks = [blocks EXCEPT ![b] = blocks[b]]
  BY <1>3
<1>6. Exists(b) => blocks[b] \in Block
  BY <1>3 DEF Exists
<1>7. blocks[b] # NoBlock /\ blocks[b].host # "" => <<blocks[b].host, b>> \in affinity
  BY <1>1 DEF BlocksTypeOK, Exists
<1>8. ASSUME NEW h \in Hosts, Claim(h, b) PROVE BlocksIInv'
  <2>1. UNCHANGED <<blocks, steady>> /\ affinity' = affinity \cup {<<h, b>>}
    BY <1>8 DEF Claim
  <2>2. affinity' \subseteq Hosts \X Blocks
    BY <1>3, <2>1
  <2> QED  BY <1>3, <1>4, <1>5, <1>7, <2>1, <2>2
<1>9. ASSUME NEW h \in Hosts, DropClaim(h, b) PROVE BlocksIInv'
  <2>1. \A d \in Blocks \ {b} : \A g : <<g, d>> \in affinity => <<g, d>> \in affinity'
    BY <1>9 DEF DropClaim
  <2>2. blocks[b].host # "" => <<blocks[b].host, b>> \in affinity'
    BY <1>7, <1>9 DEF DropClaim, Exists
  <2>3. UNCHANGED <<blocks, steady>> /\ affinity' \subseteq Hosts \X Blocks
    BY <1>3, <1>9 DEF DropClaim
  <2> QED  BY <1>3, <1>4, <1>5, <2>1, <2>2, <2>3
<1>10. ASSUME NEW h \in Hosts, CreateBlock(h, b) PROVE BlocksIInv'
  <2> DEFINE v == [host |-> h, used |-> 0]
  <2>1. v \in Block /\ v.host = h
    BY ZeroUsed DEF Block
  <2>2. /\ blocks' = [blocks EXCEPT ![b] = v] /\ UNCHANGED affinity
        /\ steady' = steady \ {b} /\ <<h, b>> \in affinity
    BY <1>10 DEF CreateBlock
  <2> HIDE DEF v
  <2> QED  BY <1>3, <1>4, <2>1, <2>2
<1>11. CASE Allocate(b)
  <2>1. blocks[b] \in Block /\ blocks[b].used < BlockSize
    BY <1>6, <1>11 DEF Allocate
  <2> DEFINE v == [blocks[b] EXCEPT !.used = @ + 1]
  <2>2. BlockSize \in Nat /\ blocks[b].used \in 0 .. BlockSize
    BY <2>1, BlocksAssumption DEF Block
  <2>3. v \in Block /\ v.host = blocks[b].host
    <3>1. blocks[b].used + 1 \in 0 .. BlockSize
      BY <2>1, <2>2
    <3> QED  BY <2>1, <3>1 DEF Block
  <2>4. /\ blocks' = [blocks EXCEPT ![b] = v] /\ UNCHANGED affinity
        /\ steady' = steady \ {b} /\ blocks[b] # NoBlock
    BY <1>11 DEF Allocate, Exists
  <2> HIDE DEF v
  <2> QED  BY <1>3, <1>4, <1>7, <2>3, <2>4
<1>12. CASE Free(b)
  <2>1. blocks[b] \in Block /\ blocks[b].used > 0
    BY <1>6, <1>12 DEF Free
  <2> DEFINE v == [blocks[b] EXCEPT !.used = @ - 1]
  <2>2. BlockSize \in Nat /\ blocks[b].used \in 0 .. BlockSize
    BY <2>1, BlocksAssumption DEF Block
  <2>3. v \in Block /\ v.host = blocks[b].host
    <3>1. blocks[b].used - 1 \in 0 .. BlockSize
      BY <2>1, <2>2
    <3> QED  BY <2>1, <3>1 DEF Block
  <2>4. /\ blocks' = [blocks EXCEPT ![b] = v] /\ UNCHANGED <<affinity, steady>>
        /\ blocks[b] # NoBlock
    BY <1>12 DEF Free, Exists
  <2>5. b \notin steady
    <3>1. b \in steady => blocks[b].used = 0
      BY <1>1, <2>4 DEF SteadyAsked, Asked, Exists
    <3> QED  BY <2>1, <3>1
  <2> HIDE DEF v
  <2> QED  BY <1>3, <1>4, <1>7, <2>3, <2>4, <2>5
<1> QED
  BY <1>2, <1>8, <1>9, <1>10, <1>11, <1>12

\* The invariant is inductive.
LEMMA BlocksInductive == BlocksSpec => []BlocksIInv
<1>1. BlocksIInv /\ [BlocksNext]_blocksVars => BlocksIInv'
  <2> SUFFICES ASSUME BlocksIInv, [BlocksNext]_blocksVars PROVE BlocksIInv'
    OBVIOUS
  <2>1. CASE Tool
    BY <2>1, StartSteps, ReadSteps, ReleaseSteps DEF Tool
  <2>2. CASE Calico
    BY <2>2, CalicoSteps
  <2>3. CASE UNCHANGED blocksVars
    BY <2>3 DEF blocksVars, BlocksIInv, BlocksTypeOK, InHandAsked, SteadyAsked, SteadyInHand,
                Exists, Asked, CopyOf
  <2> QED  BY <2>1, <2>2, <2>3 DEF BlocksNext
<1> QED
  BY BlocksInitHolds, <1>1, PTL DEF BlocksSpec

\* Whatever hosts do meanwhile, the tool's view of the blocks stays well formed,
\* and of the blocks that release blocks was asked for and that were empty all the
\* time, it leaves only ones without a host when it ends without an error.
THEOREM BlocksComplete == BlocksSpec => []BlocksInv
<1>1. BlocksIInv => BlocksInv
  BY DEF BlocksIInv, BlocksInv, NoneForgotten, SteadyInHand
<1> QED
  BY BlocksInductive, <1>1, PTL

\* The step of the two action properties: only a release changes a block, and it
\* compares host and use with what is there now.
LEMMA KeptStep ==
    ASSUME BlocksIInv, [BlocksNext]_blocksVars, blocksTool' # blocksTool,
           NEW b \in Blocks, blocks'[b] # blocks[b]
    PROVE  /\ blocks[b].used = 0
           /\ blocksTool.cmd = "release blocks" => blocksTool.pool \in {"", PoolOf[b]}
           /\ blocksTool.node \in {"", blocks[b].host}
<1>1. PICK c \in blocksTool.found : ReleaseAffinity(c.cidr, c.host, TRUE)
  BY DEF blocksVars, BlocksNext, Tool, Start, StartOne, ListKeys, GetBlock, EmptyBlocks,
         Release, ReleaseEmptyBlock, NotTheHosts, Finish, NextCommand,
         Calico, Claim, CreateBlock, DropClaim, Allocate, Free
<1>2. c \in Copy /\ BlocksTypeOK /\ InHandAsked
  BY DEF BlocksIInv, BlocksTypeOK
<1>3. c.cidr = b
  <2>1. blocks \in [Blocks -> Block \cup {NoBlock}] /\ c.cidr \in Blocks
    BY <1>2 DEF BlocksTypeOK, Copy
  <2> QED  BY <1>1, <2>1 DEF ReleaseAffinity
<1>4. blocks[b].used = 0 /\ blocks[b].host = (IF c.host = "" THEN LocalHost ELSE c.host)
  BY <1>1, <1>3 DEF ReleaseAffinity, CanRelease, IsHosts
<1>5. /\ blocksTool.cmd = "release blocks" => blocksTool.pool \in {"", PoolOf[b]}
      /\ blocksTool.node \in {"", c.host}
  BY <1>2, <1>3 DEF InHandAsked
<1> QED
  BY <1>4, <1>5

\* What the tool read may be stale when it acts on it: for every instance it takes
\* no block with addresses in use, none of another host than it was given, and
\* release blocks none of another pool.
THEOREM BlocksAreKept == BlocksSpec => BlocksKept
<1>1. BlocksIInv /\ [BlocksNext]_blocksVars =>
        [blocksTool' # blocksTool => \A b \in Blocks : blocks'[b] # blocks[b] => blocks[b].used = 0]_blocksVars
  BY KeptStep
<1>2. BlocksIInv /\ [BlocksNext]_blocksVars =>
        [blocksTool' # blocksTool => \A b \in Blocks : blocks'[b] # blocks[b] =>
           /\ blocksTool.cmd = "release blocks" => blocksTool.pool \in {"", PoolOf[b]}
           /\ blocksTool.node \in {"", blocks[b].host}]_blocksVars
  BY KeptStep
<1> QED
  BY BlocksInductive, <1>1, <1>2, PTL DEF BlocksSpec, BlocksKept, UsedBlocksKept, OnlyAskedFor

-----------------------------------------------------------------------------
(***************************************************************************)
(* Addresses.  An endpoint has a claim to its address from the moment it   *)
(* takes it to the moment it, or after its death one operator, gives it    *)
(* back; an operator that removes a record has the address to itself.      *)
(***************************************************************************)
ToolType ==
    [pc : {"idle", "locked", "deleted", "delete", "recycle", "done"},
     arg : Addresses \cup Endpoints \cup {"none"}, flag : PoolFlags \cup {"none"}]

AddrTypeOK ==
    /\ rec \in [Addresses -> {"absent", "free", "used", "retired"}]
    /\ alloc \subseteq Addresses
    /\ stage \in [Endpoints -> Stages]
    /\ weps \subseteq Endpoints
    /\ hand \subseteq Addresses
    /\ tool \in [Operators -> ToolType]
    /\ \A o \in Operators :
          /\ tool[o].pc \in {"locked", "deleted"} => tool[o].arg \in Addresses
          /\ tool[o].pc \in {"delete", "recycle"} => tool[o].arg \in Endpoints

Recycles(o, e) == tool[o].pc = "recycle" /\ tool[o].arg = e

Claims(e) ==
    \/ Live(e)
    \/ stage[e] = "dead" /\ (e \in weps \/ \E o \in Operators : Recycles(o, e))

\* A claim is to an address in use that nobody else has.
ClaimsInv ==
    \A e \in Endpoints : Claims(e) =>
        /\ rec[AddrOf[e]] = "used"
        /\ AddrOf[e] \notin hand
        /\ \A f \in Endpoints \ {e} : Claims(f) => AddrOf[f] # AddrOf[e]

\* Only the operator whose deletion succeeded recycles a dead endpoint's address.
RecycleInv ==
    /\ \A e \in weps : stage[e] \in {"wep", "listed", "unlisted", "dead"}
    /\ \A o \in Operators : tool[o].pc \in {"delete", "recycle"} => stage[tool[o].arg] = "dead"
    /\ \A o \in Operators : tool[o].pc = "recycle" => tool[o].arg \notin weps
    /\ \A o, q \in Operators :
          tool[o].pc = "recycle" /\ tool[q].pc = "recycle" /\ tool[o].arg = tool[q].arg => o = q

\* What operators hold has no record, or one in use.
HandInv == \A a \in hand : a \in alloc /\ rec[a] \in {"absent", "used"}

\* The operator that retired a record is the only one to remove it.
UnallocInv ==
    /\ \A o \in Operators : tool[o].pc = "locked" => rec[tool[o].arg] = "retired"
    /\ \A o \in Operators : tool[o].pc = "deleted" =>
          rec[tool[o].arg] = "absent" /\ tool[o].arg \in alloc /\ tool[o].arg \notin hand
    /\ \A o, q \in Operators :
          tool[o].pc \in {"locked", "deleted"} /\ tool[q].pc \in {"locked", "deleted"}
             /\ tool[o].arg = tool[q].arg => o = q

AddrIInv ==
    /\ AddrTypeOK
    /\ ClaimsInv
    /\ RecycleInv
    /\ HandInv
    /\ UnallocInv
    /\ RecordsAreAllocated

-----------------------------------------------------------------------------
\* Nothing is claimed, held or retired at first.
LEMMA AddrInitHolds == AddrInit => AddrIInv
<1> SUFFICES ASSUME AddrInit PROVE AddrIInv
  OBVIOUS
<1>1. Idle \in ToolType /\ Idle.pc = "idle"
  BY DEF Idle, ToolType
<1>2. AddrTypeOK
  BY <1>1 DEF AddrInit, AddrTypeOK, Stages
<1>3. \A o \in Operators : tool[o].pc = "idle"
  BY <1>1 DEF AddrInit
<1>4. ClaimsInv
  BY DEF AddrInit, ClaimsInv, Claims, Live
<1>5. RecycleInv /\ HandInv /\ UnallocInv /\ RecordsAreAllocated
  BY <1>3 DEF AddrInit, RecycleInv, HandInv, UnallocInv, RecordsAreAllocated
<1> QED
  BY <1>2, <1>4, <1>5 DEF AddrIInv

\* An endpoint's address is an address.
LEMMA AddrType == \A e \in Endpoints : AddrOf[e] \in Addresses
BY AddressesAssumption

\* The steps of a container.
LEMMA ContainerSteps ==
    ASSUME AddrIInv, NEW e \in Endpoints, Container(e)
    PROVE  AddrIInv'
<1> DEFINE a == AddrOf[e]
<1>1. /\ AddrTypeOK /\ ClaimsInv /\ RecycleInv /\ HandInv /\ UnallocInv /\ RecordsAreAllocated
      /\ UNCHANGED <<hand, tool>> /\ a \in Addresses
  BY AddrType DEF AddrIInv, Container, CreateRecord, TakeAddress, WriteEndpoint, List, Unlist,
         DeleteEndpoint, ReleaseAddress, Lose
<1>2. stage \in [Endpoints -> Stages] /\ rec \in [Addresses -> {"absent", "free", "used", "retired"}]
  BY <1>1 DEF AddrTypeOK
<1>3. CASE CreateRecord(e)
  <2>1. /\ rec[a] = "absent" /\ a \notin alloc /\ rec' = [rec EXCEPT ![a] = "free"]
        /\ alloc' = alloc \cup {a} /\ UNCHANGED <<stage, weps>>
    BY <1>3 DEF CreateRecord, AllocFixedIP
  <2>2. rec' \in [Addresses -> {"absent", "free", "used", "retired"}]
        /\ \A b \in Addresses \ {a} : rec'[b] = rec[b]
    BY <1>1, <1>2, <2>1
  <2>3. AddrTypeOK'
    BY <1>1, <2>1, <2>2 DEF AddrTypeOK
  <2>4. ClaimsInv'
    BY <1>1, <2>1, <2>2, AddrType DEF ClaimsInv, Claims, Live, Recycles
  <2>5. RecycleInv'
    BY <1>1, <2>1 DEF RecycleInv
  <2>6. HandInv'
    BY <1>1, <2>1, <2>2 DEF HandInv, AddrTypeOK
  <2>7. UnallocInv'
    BY <1>1, <2>1, <2>2 DEF UnallocInv, AddrTypeOK
  <2>8. RecordsAreAllocated'
    BY <1>1, <2>1, <2>2 DEF RecordsAreAllocated
  <2> QED  BY <2>3, <2>4, <2>5, <2>6, <2>7, <2>8 DEF AddrIInv
<1>4. CASE TakeAddress(e)
  <2>1. /\ rec[a] = "free" /\ rec' = [rec EXCEPT ![a] = "used"] /\ UNCHANGED <<alloc, weps>>
        /\ stage[e] = "off" /\ stage' = [stage EXCEPT ![e] = "assigned"]
    BY <1>4 DEF TakeAddress, AssignFixedIP, Move
  <2>2. /\ rec' \in [Addresses -> {"absent", "free", "used", "retired"}]
        /\ rec'[a] = "used" /\ \A b \in Addresses \ {a} : rec'[b] = rec[b]
    BY <1>1, <1>2, <2>1
  <2>3. /\ stage' \in [Endpoints -> Stages] /\ stage'[e] = "assigned"
        /\ \A f \in Endpoints \ {e} : stage'[f] = stage[f]
    BY <1>2, <2>1 DEF Stages
  <2>4. AddrTypeOK'
    BY <1>1, <2>1, <2>2, <2>3 DEF AddrTypeOK
  <2>5. ClaimsInv'
    <3>1. \A f \in Endpoints \ {e} : Claims(f)' = Claims(f)
      BY <1>1, <2>1, <2>3 DEF Claims, Live, Recycles
    <3>2. \A f \in Endpoints : Claims(f) => AddrOf[f] # a
      BY <1>1, <2>1 DEF ClaimsInv
    <3>3. a \notin hand
      BY <1>1, <2>1 DEF HandInv
    <3> QED  BY <1>1, <2>2, <3>1, <3>2, <3>3, AddrType DEF ClaimsInv
  <2>6. RecycleInv'
    BY <1>1, <2>1, <2>3 DEF RecycleInv, AddrTypeOK
  <2>7. HandInv' /\ UnallocInv' /\ RecordsAreAllocated'
    BY <1>1, <2>1, <2>2 DEF HandInv, UnallocInv, RecordsAreAllocated, AddrTypeOK
  <2> QED  BY <2>4, <2>5, <2>6, <2>7 DEF AddrIInv
<1>5. CASE WriteEndpoint(e) \/ List(e) \/ Unlist(e) \/ DeleteEndpoint(e)
  <2>1. PICK to \in {"wep", "listed", "unlisted", "unwep"} :
           /\ stage[e] \in {"assigned", "wep", "listed", "unlisted"}
           /\ stage' = [stage EXCEPT ![e] = to] /\ UNCHANGED <<rec, alloc>>
           /\ weps' \subseteq weps \cup {e}
           /\ weps \subseteq weps' \cup {e}
           /\ to = "unwep" => weps' = weps \ {e}
    BY <1>5 DEF WriteEndpoint, List, Unlist, DeleteEndpoint, Move
  <2>2. /\ stage' \in [Endpoints -> Stages] /\ stage'[e] = to
        /\ \A f \in Endpoints \ {e} : stage'[f] = stage[f]
    BY <1>2, <2>1 DEF Stages
  <2>3. AddrTypeOK'
    BY <1>1, <2>1, <2>2 DEF AddrTypeOK
  <2>4. ClaimsInv'
    <3>1. \A f \in Endpoints : Claims(f)' => Claims(f)
      <4>1. Claims(e)
        BY <2>1 DEF Claims, Live, Stages
      <4> QED  BY <1>1, <2>1, <2>2, <4>1 DEF Claims, Live, Recycles
    <3> QED  BY <1>1, <2>1, <3>1 DEF ClaimsInv
  <2>5. RecycleInv'
    BY <1>1, <2>1, <2>2 DEF RecycleInv, AddrTypeOK
  <2>6. HandInv' /\ UnallocInv' /\ RecordsAreAllocated'
    BY <1>1, <2>1 DEF HandInv, UnallocInv, RecordsAreAllocated
  <2> QED  BY <2>3, <2>4, <2>5, <2>6 DEF AddrIInv
<1>6. CASE ReleaseAddress(e)
  <2>1. /\ rec' = [rec EXCEPT ![a] = "free"] /\ UNCHANGED <<alloc, weps>>
        /\ stage[e] = "unwep" /\ stage' = [stage EXCEPT ![e] = "off"]
    BY <1>6 DEF ReleaseAddress, UnassignFixedIP, Move
  <2>2. /\ rec' \in [Addresses -> {"absent", "free", "used", "retired"}]
        /\ rec'[a] = "free" /\ \A b \in Addresses \ {a} : rec'[b] = rec[b]
    BY <1>1, <1>2, <2>1
  <2>3. /\ stage' \in [Endpoints -> Stages] /\ stage'[e] = "off"
        /\ \A f \in Endpoints \ {e} : stage'[f] = stage[f]
    BY <1>2, <2>1 DEF Stages
  <2>4. Claims(e)
    BY <2>1 DEF Claims, Live, Stages
  <2>5. rec[a] = "used" /\ a \notin hand /\ \A f \in Endpoints \ {e} : Claims(f) => AddrOf[f] # a
    BY <1>1, <2>4 DEF ClaimsInv
  <2>6. AddrTypeOK'
    BY <1>1, <2>1, <2>2, <2>3 DEF AddrTypeOK
  <2>7. ClaimsInv'
    <3>1. ~Claims(e)' /\ \A f \in Endpoints \ {e} : Claims(f)' = Claims(f)
      BY <1>1, <2>1, <2>3 DEF Claims, Live, Recycles
    <3> QED  BY <1>1, <2>2, <2>5, <3>1, AddrType DEF ClaimsInv
  <2>8. RecycleInv'
    BY <1>1, <2>1, <2>3 DEF RecycleInv, AddrTypeOK
  <2>9. HandInv' /\ UnallocInv' /\ RecordsAreAllocated'
    BY <1>1, <2>1, <2>2, <2>5 DEF HandInv, UnallocInv, RecordsAreAllocated, AddrTypeOK
  <2> QED  BY <2>6, <2>7, <2>8, <2>9 DEF AddrIInv
<1>7. CASE Lose(e)
  <2>1. /\ UNCHANGED <<rec, alloc, weps>> /\ Live(e)
        /\ stage' = [stage EXCEPT ![e] = "dead"]
    BY <1>7 DEF Lose, Move, Live
  <2>2. /\ stage' \in [Endpoints -> Stages] /\ stage'[e] = "dead"
        /\ \A f \in Endpoints \ {e} : stage'[f] = stage[f]
    BY <1>2, <2>1 DEF Stages
  <2>3. AddrTypeOK'
    BY <1>1, <2>1, <2>2 DEF AddrTypeOK
  <2>4. ClaimsInv'
    <3>1. \A f \in Endpoints : Claims(f)' => Claims(f)
      BY <1>1, <2>1, <2>2 DEF Claims, Live, Recycles
    <3> QED  BY <1>1, <2>1, <3>1 DEF ClaimsInv
  <2>5. RecycleInv'
    BY <1>1, <2>1, <2>2 DEF RecycleInv, AddrTypeOK
  <2>6. HandInv' /\ UnallocInv' /\ RecordsAreAllocated'
    BY <1>1, <2>1 DEF HandInv, UnallocInv, RecordsAreAllocated
  <2> QED  BY <2>3, <2>4, <2>5, <2>6 DEF AddrIInv
<1> QED
  BY <1>3, <1>4, <1>5, <1>6, <1>7 DEF Container

\* What a command becomes keeps the type of what the operators run.
ToolsOK ==
    /\ tool \in [Operators -> ToolType]
    /\ \A o \in Operators :
          /\ tool[o].pc \in {"locked", "deleted"} => tool[o].arg \in Addresses
          /\ tool[o].pc \in {"delete", "recycle"} => tool[o].arg \in Endpoints

\* Nobody but o goes on.
ToolAlone(o) == \A q \in Operators \ {o} : tool'[q] = tool[q]

\* A command changes its own frame and no other.
LEMMA ToolChange ==
    ASSUME AddrTypeOK, NEW o \in Operators, NEW g \in ToolType, tool' = [tool EXCEPT ![o] = g],
           g.pc \in {"locked", "deleted"} => g.arg \in Addresses,
           g.pc \in {"delete", "recycle"} => g.arg \in Endpoints
    PROVE  ToolsOK' /\ ToolAlone(o) /\ tool'[o] = g
BY DEF AddrTypeOK, ToolsOK, ToolAlone

\* A command that ends.
LEMMA DoneChange ==
    ASSUME AddrTypeOK, NEW o \in Operators, Done(o)
    PROVE  ToolsOK' /\ ToolAlone(o) /\ tool'[o].pc = "done"
<1> DEFINE g == [Idle EXCEPT !.pc = "done"]
<1>1. g \in ToolType /\ g.pc = "done"
  BY DEF Idle, ToolType
<1>2. tool' = [tool EXCEPT ![o] = g]
  BY DEF Done
<1> HIDE DEF g
<1> QED  BY <1>1, <1>2, ToolChange

\* A command that only goes on, or ends, with the same or no claim to an address.
LEMMA QuietStep ==
    ASSUME AddrIInv, NEW o \in Operators, ToolsOK', ToolAlone(o),
           tool'[o].pc \notin {"locked", "deleted", "delete", "recycle"},
           UNCHANGED <<rec, alloc, stage, weps, hand>>
    PROVE  AddrIInv'
<1>1. AddrTypeOK /\ ClaimsInv /\ RecycleInv /\ HandInv /\ UnallocInv /\ RecordsAreAllocated
  BY DEF AddrIInv
<1>2. AddrTypeOK'
  BY <1>1 DEF AddrTypeOK, ToolsOK
<1>3. ClaimsInv'
  <2>1. \A f \in Endpoints : Claims(f)' => Claims(f)
    BY DEF Claims, Live, Recycles, ToolAlone
  <2> QED  BY <1>1, <2>1 DEF ClaimsInv
<1>4. RecycleInv' /\ HandInv' /\ UnallocInv' /\ RecordsAreAllocated'
  BY <1>1 DEF RecycleInv, HandInv, UnallocInv, RecordsAreAllocated, ToolAlone
<1> QED
  BY <1>2, <1>3, <1>4 DEF AddrIInv

\* A record in use is freed by its only holder: the address is one that o claims by
\* recycling e, or that operators hold.
LEMMA UnassignStep ==
    ASSUME AddrIInv, NEW o \in Operators, NEW a \in Addresses, rec[a] = "used",
           rec' = [rec EXCEPT ![a] = "free"], UNCHANGED <<alloc, stage, weps>>,
           Done(o), hand' = hand \ {a},
           \A e \in Endpoints : Claims(e) /\ AddrOf[e] = a => Recycles(o, e)
    PROVE  AddrIInv'
<1>1. AddrTypeOK /\ ClaimsInv /\ RecycleInv /\ HandInv /\ UnallocInv /\ RecordsAreAllocated
  BY DEF AddrIInv
<1>2. ToolsOK' /\ ToolAlone(o) /\ tool'[o].pc = "done"
  BY <1>1, DoneChange
<1>3. /\ rec' \in [Addresses -> {"absent", "free", "used", "retired"}]
      /\ rec'[a] = "free" /\ \A b \in Addresses \ {a} : rec'[b] = rec[b]
  BY <1>1 DEF AddrTypeOK
<1>4. AddrTypeOK'
  BY <1>1, <1>2, <1>3 DEF AddrTypeOK, ToolsOK
<1>5. ClaimsInv'
  <2>1. \A f \in Endpoints : Claims(f)' => Claims(f)
    BY <1>2 DEF Claims, Live, Recycles, ToolAlone
  <2>2. \A f \in Endpoints : Claims(f)' => AddrOf[f] # a
    <3> SUFFICES ASSUME NEW f \in Endpoints, Claims(f)', AddrOf[f] = a
                 PROVE  FALSE
      OBVIOUS
    <3>1. Recycles(o, f)
      BY <2>1
    <3>2. stage[f] = "dead" /\ f \notin weps
      BY <1>1, <3>1 DEF RecycleInv, Recycles
    <3>3. PICK q \in Operators : Recycles(q, f)'
      BY <3>2 DEF Claims, Live
    <3>4. q # o /\ Recycles(q, f)
      BY <1>2, <3>3 DEF Recycles, ToolAlone
    <3> QED  BY <1>1, <3>1, <3>4 DEF RecycleInv, Recycles
  <2> QED  BY <1>1, <1>3, <2>1, <2>2, AddrType DEF ClaimsInv
<1>6. RecycleInv'
  BY <1>1, <1>2 DEF RecycleInv, ToolAlone
<1>7. HandInv'
  BY <1>1, <1>3 DEF HandInv, AddrTypeOK
<1>8. UnallocInv'
  BY <1>1, <1>2, <1>3 DEF UnallocInv, ToolAlone, AddrTypeOK
<1>9. RecordsAreAllocated'
  BY <1>1, <1>3 DEF RecordsAreAllocated
<1> QED
  BY <1>4, <1>5, <1>6, <1>7, <1>8, <1>9 DEF AddrIInv

\* assign ip and release ip.
LEMMA IPSteps ==
    ASSUME AddrIInv, NEW o \in Operators, NEW a \in Addresses,
           ReleaseIP(o, a) \/ \E kind \in AssignKinds : AssignIP(o, a, kind)
    PROVE  AddrIInv'
<1>1. /\ AddrTypeOK /\ ClaimsInv /\ RecycleInv /\ HandInv /\ UnallocInv /\ RecordsAreAllocated
      /\ Done(o) /\ UNCHANGED <<stage, weps>>
  BY DEF AddrIInv, ReleaseIP, AssignIP
<1>2. ToolsOK' /\ ToolAlone(o) /\ tool'[o].pc = "done"
  BY <1>1, DoneChange
<1>3. CASE UNCHANGED <<rec, alloc, hand>>
  BY <1>1, <1>2, <1>3, QuietStep
<1>4. CASE a \in hand /\ UnassignFixedIP(Pool, a) /\ hand' = hand \ {a}
  <2>1. rec[a] = "used" /\ rec' = [rec EXCEPT ![a] = "free"] /\ UNCHANGED alloc
    BY <1>1, <1>4 DEF UnassignFixedIP, HandInv
  <2>2. \A e \in Endpoints : Claims(e) => AddrOf[e] # a
    BY <1>1, <1>4 DEF ClaimsInv
  <2> QED  BY <1>1, <1>4, <2>1, <2>2, UnassignStep
<1>5. \A f \in Endpoints : Claims(f)' => Claims(f)
  BY <1>1, <1>2 DEF Claims, Live, Recycles, ToolAlone
<1>6. RecycleInv'
  BY <1>1, <1>2 DEF RecycleInv, ToolAlone
<1>7. CASE AssignFixedIP(a) /\ hand' = hand \cup {a}
  <2>1. rec[a] = "free" /\ rec' = [rec EXCEPT ![a] = "used"] /\ UNCHANGED alloc
    BY <1>7 DEF AssignFixedIP
  <2>2. /\ rec' \in [Addresses -> {"absent", "free", "used", "retired"}]
        /\ rec'[a] = "used" /\ \A b \in Addresses \ {a} : rec'[b] = rec[b]
    BY <1>1, <2>1 DEF AddrTypeOK
  <2>3. AddrTypeOK'
    BY <1>1, <1>2, <1>7, <2>1, <2>2 DEF AddrTypeOK, ToolsOK
  <2>4. ClaimsInv'
    <3>1. \A f \in Endpoints : Claims(f) => AddrOf[f] # a
      BY <1>1, <2>1 DEF ClaimsInv
    <3> QED  BY <1>1, <1>5, <1>7, <2>2, <3>1, AddrType DEF ClaimsInv
  <2>5. HandInv'
    BY <1>1, <1>7, <2>1, <2>2 DEF HandInv, RecordsAreAllocated, AddrTypeOK
  <2>6. UnallocInv'
    BY <1>1, <1>2, <1>7, <2>1, <2>2 DEF UnallocInv, ToolAlone, AddrTypeOK
  <2>7. RecordsAreAllocated'
    BY <1>1, <2>1, <2>2 DEF RecordsAreAllocated
  <2> QED  BY <1>6, <2>3, <2>4, <2>5, <2>6, <2>7 DEF AddrIInv
<1>8. CASE AllocIP(a) /\ hand' = hand \cup {a}
  <2>1. a \notin alloc /\ alloc' = alloc \cup {a} /\ UNCHANGED rec
    BY <1>8 DEF AllocIP
  <2>2. rec[a] = "absent"
    BY <1>1, <2>1 DEF RecordsAreAllocated
  <2>3. AddrTypeOK'
    BY <1>1, <1>2, <1>8, <2>1 DEF AddrTypeOK, ToolsOK
  <2>4. ClaimsInv'
    <3>1. \A f \in Endpoints : Claims(f) => AddrOf[f] # a
      BY <1>1, <2>2 DEF ClaimsInv
    <3> QED  BY <1>1, <1>5, <1>8, <2>1, <3>1 DEF ClaimsInv
  <2>5. HandInv' /\ UnallocInv' /\ RecordsAreAllocated'
    BY <1>1, <1>2, <1>8, <2>1, <2>2 DEF HandInv, UnallocInv, RecordsAreAllocated, ToolAlone, AddrTypeOK
  <2> QED  BY <1>6, <2>3, <2>4, <2>5 DEF AddrIInv
<1> QED
  BY <1>3, <1>4, <1>7, <1>8 DEF ReleaseIP, AssignIP

\* release ip --unalloc, step by step.
LEMMA UnallocSteps ==
    ASSUME AddrIInv, NEW o \in Operators,
           Unalloc(o) \/ \E a \in Addresses : StartUnalloc(o, a)
    PROVE  AddrIInv'
<1>1. /\ AddrTypeOK /\ ClaimsInv /\ RecycleInv /\ HandInv /\ UnallocInv /\ RecordsAreAllocated
      /\ UNCHANGED <<hand, stage, weps>>
  BY DEF AddrIInv, Unalloc, StartUnalloc
<1>2. CASE Done(o) /\ UNCHANGED <<rec, alloc>>
  BY <1>1, <1>2, DoneChange, QuietStep
<1>3. ASSUME NEW a \in Addresses, LockRecord(a), tool[o].pc = "idle",
             tool' = [tool EXCEPT ![o] = [Idle EXCEPT !.pc = "locked", !.arg = a]]
      PROVE  AddrIInv'
  <2> DEFINE g == [Idle EXCEPT !.pc = "locked", !.arg = a]
  <2>1. g \in ToolType /\ g.pc = "locked" /\ g.arg = a
    BY DEF Idle, ToolType
  <2>2. tool' = [tool EXCEPT ![o] = g]
    BY <1>3
  <2> HIDE DEF g
  <2>3. ToolsOK' /\ ToolAlone(o) /\ tool'[o].pc = "locked" /\ tool'[o].arg = a
    BY <1>1, <2>1, <2>2, ToolChange
  <2>4. rec[a] = "free" /\ rec' = [rec EXCEPT ![a] = "retired"] /\ UNCHANGED alloc
    BY <1>3 DEF LockRecord
  <2>5. /\ rec' \in [Addresses -> {"absent", "free", "used", "retired"}]
        /\ rec'[a] = "retired" /\ \A b \in Addresses \ {a} : rec'[b] = rec[b]
    BY <1>1, <2>4 DEF AddrTypeOK
  <2>6. AddrTypeOK'
    BY <1>1, <2>3, <2>4, <2>5 DEF AddrTypeOK, ToolsOK
  <2>7. ClaimsInv'
    <3>1. \A f \in Endpoints : Claims(f)' => Claims(f)
      BY <1>1, <2>3 DEF Claims, Live, Recycles, ToolAlone
    <3>2. \A f \in Endpoints : Claims(f) => AddrOf[f] # a
      BY <1>1, <2>4 DEF ClaimsInv
    <3> QED  BY <1>1, <2>5, <3>1, <3>2, AddrType DEF ClaimsInv
  <2>8. RecycleInv' /\ HandInv' /\ RecordsAreAllocated'
    BY <1>1, <2>3, <2>4, <2>5 DEF RecycleInv, HandInv, RecordsAreAllocated, ToolAlone, AddrTypeOK
  <2>9. UnallocInv'
    <3>1. \A q \in Operators : tool[q].pc \in {"locked", "deleted"} => tool[q].arg # a
      BY <1>1, <2>4 DEF UnallocInv
    <3> QED  BY <1>1, <2>3, <2>4, <2>5, <3>1 DEF UnallocInv, ToolAlone, AddrTypeOK
  <2> QED  BY <2>6, <2>7, <2>8, <2>9 DEF AddrIInv
<1>4. CASE /\ tool[o].pc = "locked" /\ DeleteRecord(tool[o].arg)
           /\ tool' = [tool EXCEPT ![o].pc = "deleted"]
  <2> DEFINE a == tool[o].arg
             g == [tool[o] EXCEPT !.pc = "deleted"]
  <2>1. tool[o] \in ToolType /\ a \in Addresses /\ rec[a] = "retired"
    BY <1>1, <1>4 DEF AddrTypeOK, UnallocInv
  <2>2. g \in ToolType /\ g.pc = "deleted" /\ g.arg = a
    BY <2>1 DEF ToolType
  <2>3. tool' = [tool EXCEPT ![o] = g]
    BY <1>4
  <2> HIDE DEF g
  <2>4. ToolsOK' /\ ToolAlone(o) /\ tool'[o].pc = "deleted" /\ tool'[o].arg = a
    BY <1>1, <2>1, <2>2, <2>3, ToolChange
  <2>5. rec' = [rec EXCEPT ![a] = "absent"] /\ UNCHANGED alloc
    BY <1>4 DEF DeleteRecord
  <2> HIDE DEF a
  <2>6. /\ rec' \in [Addresses -> {"absent", "free", "used", "retired"}]
        /\ rec'[a] = "absent" /\ \A b \in Addresses \ {a} : rec'[b] = rec[b]
    BY <1>1, <2>1, <2>5 DEF AddrTypeOK
  <2>7. AddrTypeOK'
    BY <1>1, <2>4, <2>5, <2>6 DEF AddrTypeOK, ToolsOK
  <2>8. ClaimsInv'
    <3>1. \A f \in Endpoints : Claims(f)' => Claims(f)
      BY <1>1, <2>4 DEF Claims, Live, Recycles, ToolAlone
    <3>2. \A f \in Endpoints : Claims(f) => AddrOf[f] # a
      BY <1>1, <2>1 DEF ClaimsInv
    <3> QED  BY <1>1, <2>6, <3>1, <3>2, AddrType DEF ClaimsInv
  <2>9. RecycleInv' /\ HandInv' /\ RecordsAreAllocated'
    BY <1>1, <2>4, <2>5, <2>6 DEF RecycleInv, HandInv, RecordsAreAllocated, ToolAlone, AddrTypeOK
  <2>10. UnallocInv'
    <3>1. \A q \in Operators \ {o} : tool[q].pc \in {"locked", "deleted"} => tool[q].arg # a
      BY <1>1, <1>4 DEF UnallocInv, a
    <3>2. a \in alloc /\ a \notin hand
      BY <1>1, <2>1 DEF RecordsAreAllocated, HandInv
    <3> QED  BY <1>1, <2>1, <2>4, <2>5, <2>6, <3>1, <3>2 DEF UnallocInv, ToolAlone, AddrTypeOK
  <2> QED  BY <2>7, <2>8, <2>9, <2>10 DEF AddrIInv
<1>5. CASE tool[o].pc = "deleted" /\ ReleaseToCalico(tool[o].arg) /\ Done(o)
  <2> DEFINE a == tool[o].arg
  <2>1. /\ a \in Addresses /\ rec[a] = "absent" /\ a \notin hand
        /\ \A q \in Operators \ {o} : tool[q].pc \in {"locked", "deleted"} => tool[q].arg # a
    BY <1>1, <1>5 DEF AddrTypeOK, UnallocInv
  <2>2. ToolsOK' /\ ToolAlone(o) /\ tool'[o].pc = "done"
    BY <1>1, <1>5, DoneChange
  <2>3. alloc' = alloc \ {a} /\ UNCHANGED rec
    BY <1>5 DEF ReleaseToCalico
  <2> HIDE DEF a
  <2>4. AddrTypeOK'
    BY <1>1, <2>2, <2>3 DEF AddrTypeOK, ToolsOK
  <2>5. ClaimsInv'
    <3>1. \A f \in Endpoints : Claims(f)' => Claims(f)
      BY <1>1, <2>2 DEF Claims, Live, Recycles, ToolAlone
    <3> QED  BY <1>1, <2>3, <3>1 DEF ClaimsInv
  <2>6. RecycleInv' /\ HandInv' /\ RecordsAreAllocated'
    BY <1>1, <2>1, <2>2, <2>3 DEF RecycleInv, HandInv, RecordsAreAllocated, ToolAlone
  <2>7. UnallocInv'
    BY <1>1, <2>1, <2>2, <2>3 DEF UnallocInv, ToolAlone
  <2> QED  BY <2>4, <2>5, <2>6, <2>7 DEF AddrIInv
<1> QED
  BY <1>2, <1>3, <1>4, <1>5 DEF Unalloc, StartUnalloc

\* release wep: only one deletion of an endpoint succeeds.
LEMMA EndpointSteps ==
    ASSUME AddrIInv, NEW o \in Operators,
           \/ \E e \in Endpoints, flag \in PoolFlags : FindEndpoint(o, e, flag)
           \/ DeleteWorkloadEndpoint(o)
           \/ RecycleAddress(o)
    PROVE  AddrIInv'
<1>1. /\ AddrTypeOK /\ ClaimsInv /\ RecycleInv /\ HandInv /\ UnallocInv /\ RecordsAreAllocated
      /\ UNCHANGED <<stage, hand>>
  BY DEF AddrIInv, FindEndpoint, DeleteWorkloadEndpoint, RecycleAddress
<1>2. CASE Done(o) /\ UNCHANGED <<rec, alloc, weps>>
  BY <1>1, <1>2, DoneChange, QuietStep
<1>3. ASSUME NEW e \in Endpoints, NEW flag \in PoolFlags, stage[e] = "dead",
             UNCHANGED <<rec, alloc, weps>>,
             tool' = [tool EXCEPT ![o] = [Idle EXCEPT !.pc = "delete", !.arg = e, !.flag = flag]]
      PROVE  AddrIInv'
  <2> DEFINE g == [Idle EXCEPT !.pc = "delete", !.arg = e, !.flag = flag]
  <2>1. g \in ToolType /\ g.pc = "delete" /\ g.arg = e
    BY DEF Idle, ToolType
  <2>2. tool' = [tool EXCEPT ![o] = g]
    BY <1>3
  <2> HIDE DEF g
  <2>3. ToolsOK' /\ ToolAlone(o) /\ tool'[o].pc = "delete" /\ tool'[o].arg = e
    BY <1>1, <2>1, <2>2, ToolChange
  <2>4. AddrTypeOK'
    BY <1>1, <1>3, <2>3 DEF AddrTypeOK, ToolsOK
  <2>5. ClaimsInv'
    <3>1. \A f \in Endpoints : Claims(f)' => Claims(f)
      BY <1>1, <1>3, <2>3 DEF Claims, Live, Recycles, ToolAlone
    <3> QED  BY <1>1, <1>3, <3>1 DEF ClaimsInv
  <2>6. RecycleInv' /\ HandInv' /\ UnallocInv' /\ RecordsAreAllocated'
    BY <1>1, <1>3, <2>3 DEF RecycleInv, HandInv, UnallocInv, RecordsAreAllocated, ToolAlone
  <2> QED  BY <2>4, <2>5, <2>6 DEF AddrIInv
<1>4. CASE /\ tool[o].pc = "delete" /\ tool[o].arg \in weps /\ weps' = weps \ {tool[o].arg}
           /\ tool' = [tool EXCEPT ![o].pc = "recycle"] /\ UNCHANGED <<rec, alloc>>
  <2> DEFINE e == tool[o].arg
             g == [tool[o] EXCEPT !.pc = "recycle"]
  <2>1. tool[o] \in ToolType /\ e \in Endpoints /\ stage[e] = "dead"
    BY <1>1, <1>4 DEF AddrTypeOK, RecycleInv
  <2>2. g \in ToolType /\ g.pc = "recycle" /\ g.arg = e
    BY <2>1 DEF ToolType
  <2>3. tool' = [tool EXCEPT ![o] = g]
    BY <1>4
  <2> HIDE DEF g
  <2>4. ToolsOK' /\ ToolAlone(o) /\ tool'[o].pc = "recycle" /\ tool'[o].arg = e
    BY <1>1, <2>1, <2>2, <2>3, ToolChange
  <2>5. e \in weps /\ weps' = weps \ {e}
    BY <1>4
  <2> HIDE DEF e
  <2>6. AddrTypeOK'
    BY <1>1, <1>4, <2>4, <2>5 DEF AddrTypeOK, ToolsOK
  <2>7. ClaimsInv'
    <3>1. Claims(e)
      BY <2>1, <2>5 DEF Claims
    <3>2. \A f \in Endpoints \ {e} : Claims(f)' => Claims(f)
      BY <1>1, <2>4, <2>5 DEF Claims, Live, Recycles, ToolAlone
    <3> QED  BY <1>1, <1>4, <3>1, <3>2 DEF ClaimsInv
  <2>8. RecycleInv'
    BY <1>1, <2>1, <2>4, <2>5 DEF RecycleInv, ToolAlone
  <2>9. HandInv' /\ UnallocInv' /\ RecordsAreAllocated'
    BY <1>1, <1>4, <2>4 DEF HandInv, UnallocInv, RecordsAreAllocated, ToolAlone
  <2> QED  BY <2>6, <2>7, <2>8, <2>9 DEF AddrIInv
<1>5. CASE /\ tool[o].pc = "recycle" /\ UnassignFixedIP(tool[o].flag, AddrOf[tool[o].arg])
           /\ Done(o) /\ UNCHANGED weps
  <2> DEFINE e == tool[o].arg
             a == AddrOf[e]
  <2>1. e \in Endpoints /\ a \in Addresses /\ stage[e] = "dead" /\ Recycles(o, e)
    BY <1>1, <1>5, AddrType DEF AddrTypeOK, RecycleInv, Recycles
  <2>2. Claims(e)
    BY <2>1 DEF Claims
  <2> HIDE DEF e
  <2>3. /\ rec[a] = "used" /\ a \notin hand
        /\ \A f \in Endpoints \ {e} : Claims(f) => AddrOf[f] # a
    BY <1>1, <2>1, <2>2 DEF ClaimsInv
  <2>4. rec' = [rec EXCEPT ![a] = "free"] /\ UNCHANGED alloc
    BY <1>5 DEF UnassignFixedIP, e
  <2>5. \A f \in Endpoints : Claims(f) /\ AddrOf[f] = a => Recycles(o, f)
    BY <2>1, <2>3
  <2>6. hand' = hand \ {a}
    BY <1>1, <2>3
  <2> HIDE DEF a
  <2> QED  BY <1>1, <1>5, <2>1, <2>3, <2>4, <2>5, <2>6, UnassignStep
<1> QED
  BY <1>2, <1>3, <1>4, <1>5 DEF FindEndpoint, DeleteWorkloadEndpoint, RecycleAddress

\* The operator's next command.
LEMMA AgainStep ==
    ASSUME AddrIInv, NEW o \in Operators, Again(o)
    PROVE  AddrIInv'
<1>1. AddrTypeOK /\ UNCHANGED <<rec, alloc, stage, weps, hand>>
  BY DEF AddrIInv, Again
<1>2. Idle \in ToolType /\ Idle.pc = "idle"
  BY DEF Idle, ToolType
<1>3. tool' = [tool EXCEPT ![o] = Idle] /\ tool[o].pc = "done"
  BY DEF Again
<1>4. ToolsOK' /\ ToolAlone(o) /\ tool'[o] = Idle
  BY <1>1, <1>2, <1>3, ToolChange
<1> QED
  BY <1>1, <1>2, <1>4, QuietStep

\* The invariant is inductive.
LEMMA AddrInductive == AddrSpec => []AddrIInv
<1>1. AddrIInv /\ [AddrNext]_addrVars => AddrIInv'
  <2> SUFFICES ASSUME AddrIInv, [AddrNext]_addrVars PROVE AddrIInv'
    OBVIOUS
  <2>1. ASSUME NEW e \in Endpoints, Container(e) PROVE AddrIInv'
    BY <2>1, ContainerSteps
  <2>2. ASSUME NEW o \in Operators, Operator(o) PROVE AddrIInv'
    BY <2>2, IPSteps, UnallocSteps, EndpointSteps, AgainStep DEF Operator
  <2>3. CASE UNCHANGED addrVars
    BY <2>3 DEF addrVars, AddrIInv, AddrTypeOK, ClaimsInv, Claims, Live, Recycles, RecycleInv,
                HandInv, UnallocInv, RecordsAreAllocated
  <2> QED  BY <2>1, <2>2, <2>3 DEF AddrNext
<1> QED
  BY AddrInitHolds, <1>1, PTL DEF AddrSpec

\* Any number of operators and containers that take, recycle and release the same
\* addresses never share one, and no record claims an address calico could hand
\* out.
THEOREM AddressesAreExclusive == AddrSpec => []AddressesExclusive
<1>1. AddrIInv => AddressesExclusive
  BY DEF AddrIInv, ClaimsInv, Claims, AddressesExclusive, HolderExclusive
<1> QED
  BY AddrInductive, <1>1, PTL

-----------------------------------------------------------------------------
(***************************************************************************)
(* For every dependency graph, finite or not, and every declaration: a     *)
(* unit's closure runs after the closures of the units it requires, and at *)
(* most once, and a cycle among the needed units is always refused.  For   *)
(* the graph of ctr.go, the clients a command uses are there when it runs. *)
(*                                                                         *)
(* The invariant is about the call stack: a frame's dependencies asked for *)
(* have been initialised, except that of a frame with a call above it the  *)
(* last one is the unit of that call; no unit is on the stack twice, and   *)
(* none on the stack is initialised.  For the cycles, besides: only what   *)
(* is needed is initialised, and the loop has initialised what it passed.  *)
(***************************************************************************)
DoneAsking(f, n) == \A j \in 1 .. n : requires[f.unit][j] \in inited

TopFrame == stack # <<>> => DoneAsking(stack[Len(stack)], stack[Len(stack)].asked)

Nested ==
    \A i \in 1 .. Len(stack) - 1 :
        /\ stack[i].asked > 0
        /\ DoneAsking(stack[i], stack[i].asked - 1)
        /\ requires[stack[i].unit][stack[i].asked] = stack[i + 1].unit

Apart ==
    /\ \A i \in 1 .. Len(stack) : stack[i].unit \notin inited
    /\ \A i, k \in 1 .. Len(stack) : stack[i].unit = stack[k].unit => i = k

StackInv == TopFrame /\ Nested /\ Apart

IInv == InitTypeOK /\ StackInv /\ DependenciesFirst /\ InitOnce

-----------------------------------------------------------------------------
\* What the type invariant says of each part of the state.
LEMMA TypeFacts ==
    ASSUME InitTypeOK
    PROVE  /\ requires \in [Unit -> Seq(Unit)]
           /\ \A u \in Unit : requires[u] \in Seq(Unit) /\ Len(requires[u]) \in Nat
           /\ stack \in Seq(Frame) /\ Len(stack) \in Nat
           /\ \A i \in 1 .. Len(stack) : stack[i] \in Frame
           /\ \A i \in 1 .. Len(stack) : stack[i].asked <= Len(requires[stack[i].unit])
           /\ order \in Seq(Unit) /\ Len(order) \in Nat
<1>1. /\ requires \in [Unit -> Seq(Unit)]
      /\ stack \in Seq(Frame)
      /\ \A i \in 1 .. Len(stack) : stack[i].asked <= Len(requires[stack[i].unit])
      /\ order \in Seq(Unit)
  BY Zenon DEF InitTypeOK
<1>2. \A u \in Unit : requires[u] \in Seq(Unit)
  BY <1>1
<1>3. \A u \in Unit : Len(requires[u]) \in Nat
  BY <1>2, LenProperties
<1>4. Len(stack) \in Nat /\ Len(order) \in Nat
  BY <1>1, LenProperties
<1>5. \A i \in 1 .. Len(stack) : stack[i] \in Frame
  BY <1>1, ElementOfSeq
<1> QED
  BY <1>1, <1>2, <1>3, <1>4, <1>5, Zenon

\* The frames below the deepest one.
LEMMA BelowFrames ==
    ASSUME InitTypeOK, stack # <<>>
    PROVE  /\ Below \in Seq(Frame)
           /\ Len(stack) \in Nat \ {0}
           /\ Len(Below) = Len(stack) - 1
           /\ \A i \in 1 .. Len(stack) - 1 : Below[i] = stack[i]
           /\ Top \in Frame
           /\ Top = stack[Len(stack)]
           /\ Top.asked <= Len(requires[Top.unit])
<1>1. stack \in Seq(Frame) /\ Len(stack) \in Nat /\ Len(stack) # 0
  BY TypeFacts, EmptySeq
<1>2. \A i \in 1 .. Len(stack) : stack[i] \in Frame
  BY TypeFacts
<1>3. Len(stack) - 1 \in Int /\ 1 \in Int /\ Len(stack) \in Nat /\ Len(stack) >= 1
  BY <1>1
<1>4. /\ Below \in Seq(Frame)
      /\ Len(Below) = IF 1 <= Len(stack) - 1 THEN Len(stack) - 1 - 1 + 1 ELSE 0
      /\ \A i \in 1 .. Len(stack) - 1 - 1 + 1 : Below[i] = stack[1 + i - 1]
  BY <1>1, <1>2, <1>3, SubSeqProperties DEF Below
<1>5. Len(Below) = Len(stack) - 1
  <2>1. CASE 1 <= Len(stack) - 1
    <3>1. Len(Below) = Len(stack) - 1 - 1 + 1
      BY <1>4, <2>1
    <3> QED  BY <1>1, <3>1
  <2>2. CASE ~(1 <= Len(stack) - 1)
    <3>1. Len(Below) = 0
      BY <1>4, <2>2
    <3>2. Len(stack) = 1
      BY <1>3, <2>2
    <3> QED  BY <3>1, <3>2
  <2> QED  BY <2>1, <2>2
<1>6. ASSUME NEW i \in 1 .. Len(stack) - 1
      PROVE  Below[i] = stack[i]
  <2>1. i \in 1 .. Len(stack) - 1 - 1 + 1 /\ 1 + i - 1 = i
    BY <1>1
  <2> QED  BY <1>4, <2>1
<1>7. Top = stack[Len(stack)] /\ Len(stack) \in 1 .. Len(stack)
  BY <1>1 DEF Top
<1>8. Top \in Frame /\ Top.asked <= Len(requires[Top.unit])
  BY <1>2, <1>7, TypeFacts
<1> QED
  BY <1>1, <1>4, <1>5, <1>6, <1>7, <1>8

\* The stack after the deepest call has asked for one more dependency.
LEMMA AskedFrames ==
    ASSUME InitTypeOK, stack # <<>>,
           NEW s, s = Append(Below, [Top EXCEPT !.asked = @ + 1])
    PROVE  /\ s \in Seq(Frame)
           /\ Len(s) = Len(stack)
           /\ \A i \in 1 .. Len(stack) - 1 : s[i] = stack[i]
           /\ s[Len(stack)] = [unit |-> Top.unit, asked |-> Top.asked + 1]
<1>1. [Top EXCEPT !.asked = @ + 1] = [unit |-> Top.unit, asked |-> Top.asked + 1]
  BY BelowFrames DEF Frame
<1>2. [unit |-> Top.unit, asked |-> Top.asked + 1] \in Frame
  BY BelowFrames DEF Frame
<1> QED
  BY <1>1, <1>2, BelowFrames, AppendProperties

\* Appending to the initialised units initialises exactly one more.
LEMMA OneMore ==
    ASSUME InitTypeOK, NEW u \in Unit, order' = Append(order, u)
    PROVE  inited' = inited \cup {u}
<1>1. order \in Seq(Unit) /\ Len(order) \in Nat
  BY TypeFacts
<1>2. Len(order') = Len(order) + 1 /\ order'[Len(order) + 1] = u
  BY <1>1
<1>3. \A i \in 1 .. Len(order) : order'[i] = order[i]
  BY <1>1
<1> QED
  BY <1>1, <1>2, <1>3 DEF inited, Elems

\* A call that ends with an error leaves no frame.
LEMMA Unwound == stack' = <<>> => StackInv'
  BY DEF StackInv, TopFrame, Nested, Apart

-----------------------------------------------------------------------------
\* No unit is initialised at first and the stack is empty.
LEMMA InitHolds == Init => IInv
<1> SUFFICES ASSUME Init PROVE IInv
  OBVIOUS
<1>1. InitTypeOK
  BY GraphsAssumption, DeclarationsAssumption DEF Init, InitTypeOK
<1>2. StackInv
  BY DEF Init, StackInv, TopFrame, Nested, Apart
<1>3. DependenciesFirst /\ InitOnce
  BY DEF Init, DependenciesFirst, InitOnce
<1> QED
  BY <1>1, <1>2, <1>3 DEF IInv

\* A declared unit is initialised already or becomes the only call.
LEMMA NextUnitStep == IInv /\ NextUnit => IInv'
<1> SUFFICES ASSUME IInv, NextUnit PROVE IInv'
  OBVIOUS
<1> DEFINE u == loop[next]
           f == [unit |-> u, asked |-> 0]
<1>1. u \in Unit /\ f \in Frame /\ Len(loop) \in Nat /\ next \in Nat
  BY DEF IInv, InitTypeOK, NextUnit, Frame
<1>2. UNCHANGED <<requires, loop, units, order>> /\ inited' = inited
  BY DEF NextUnit, inited
<1>3. \/ stack' = <<>> /\ result' \in {result, "ErrCircularDependencies"}
      \/ stack' = <<f>> /\ UNCHANGED result /\ u \notin inited
  BY DEF NextUnit, initUnit, Push
<1>4. InitTypeOK'
  <2>1. next' \in 1 .. Len(loop) + 1
    BY <1>1 DEF IInv, InitTypeOK, NextUnit
  <2>2. /\ stack' \in Seq(Frame)
        /\ \A i \in 1 .. Len(stack') : stack'[i].asked <= Len(requires[stack'[i].unit])
    <3>1. CASE stack' = <<>>
      BY <3>1
    <3>2. CASE stack' = <<f>>
      <4>1. Len(requires[u]) \in Nat
        BY <1>1, TypeFacts DEF IInv
      <4> QED  BY <1>1, <3>2, <4>1
    <3> QED  BY <1>3, <3>1, <3>2
  <2> QED  BY <1>2, <1>3, <2>1, <2>2 DEF IInv, InitTypeOK
<1>5. StackInv'
  <2>1. CASE stack' = <<>>
    BY <2>1, Unwound
  <2>2. CASE stack' = <<f>> /\ u \notin inited
    <3>1. Len(stack') = 1 /\ stack'[1] = f
      BY <2>2
    <3> QED  BY <1>2, <2>2, <3>1 DEF StackInv, TopFrame, Nested, Apart, DoneAsking
  <2> QED  BY <1>3, <2>1, <2>2
<1>6. DependenciesFirst' /\ InitOnce'
  BY <1>2 DEF IInv, DependenciesFirst, InitOnce
<1> QED
  BY <1>4, <1>5, <1>6 DEF IInv

\* A dependency is initialised already, on the stack, or becomes the deepest call.
LEMMA DependencyStep == IInv /\ Dependency => IInv'
<1> SUFFICES ASSUME IInv, Dependency PROVE IInv'
  OBVIOUS
<1> DEFINE n   == Len(stack)
           dep == requires[Top.unit][Top.asked + 1]
           top == [unit |-> Top.unit, asked |-> Top.asked + 1]
           f   == [unit |-> dep, asked |-> 0]
<1>1. InitTypeOK /\ stack # <<>> /\ TopFrame /\ Nested /\ Apart
  BY DEF IInv, Dependency, StackInv
<1>2. /\ n \in Nat \ {0} /\ Top \in Frame /\ Top = stack[n]
      /\ Top.asked \in Nat /\ Top.unit \in Unit
      /\ Len(requires[Top.unit]) \in Nat /\ Top.asked < Len(requires[Top.unit])
  BY <1>1, BelowFrames, TypeFacts DEF Dependency, Frame
<1>3. dep \in Unit /\ f \in Frame /\ top \in Frame
  <2>1. requires[Top.unit] \in Seq(Unit) /\ Top.asked + 1 \in 1 .. Len(requires[Top.unit])
    BY <1>1, <1>2, TypeFacts
  <2>2. dep \in Unit
    BY <2>1
  <2> QED  BY <1>2, <2>2 DEF Frame
<1>4. UNCHANGED <<requires, loop, next, order>> /\ inited' = inited
      /\ units' \in Seq(Unit)
  BY <1>1, <1>3 DEF Dependency, inited, InitTypeOK
<1> DEFINE s == Append(Below, [Top EXCEPT !.asked = @ + 1])
<1>5. /\ s \in Seq(Frame) /\ Len(s) = n
      /\ \A i \in 1 .. n - 1 : s[i] = stack[i]
      /\ s[n] = top
  BY <1>1, AskedFrames
<1>6. \/ stack' = s /\ UNCHANGED result /\ dep \in inited
      \/ stack' = <<>> /\ result' = "ErrCircularDependencies"
      \/ stack' = Append(s, f) /\ UNCHANGED result /\ dep \notin inited /\ dep \notin ptrs
  BY DEF Dependency, initUnit, Push
<1> HIDE DEF s
<1>7. \A i \in 1 .. n : s[i].asked <= Len(requires[s[i].unit])
  <2> SUFFICES ASSUME NEW i \in 1 .. n
               PROVE  s[i].asked <= Len(requires[s[i].unit])
    OBVIOUS
  <2>1. CASE i = n
    BY <1>2, <1>5, <2>1
  <2>2. CASE i \in 1 .. n - 1
    BY <1>1, <1>2, <1>5, <2>2, TypeFacts
  <2> QED  BY <1>2, <2>1, <2>2
<1>8. \A i \in 1 .. n : s[i].unit = stack[i].unit
  BY <1>2, <1>5
<1>9. CASE stack' = <<>> /\ result' = "ErrCircularDependencies"
  <2>1. InitTypeOK'
    <3>1. /\ stack' \in Seq(Frame)
          /\ \A i \in 1 .. Len(stack') : stack'[i].asked <= Len(requires'[stack'[i].unit])
      BY <1>9
    <3>2. result' \in {"running", "nil", "ErrCircularDependencies", "init error"}
      BY <1>9
    <3> QED  BY <1>1, <1>4, <3>1, <3>2, Zenon DEF InitTypeOK
  <2>2. StackInv'
    BY <1>9, Unwound
  <2>3. DependenciesFirst' /\ InitOnce'
    BY <1>4 DEF IInv, DependenciesFirst, InitOnce
  <2> QED  BY <2>1, <2>2, <2>3 DEF IInv
<1>10. CASE stack' = s /\ UNCHANGED result /\ dep \in inited
  <2>1. InitTypeOK'
    BY <1>1, <1>4, <1>5, <1>7, <1>10 DEF InitTypeOK
  <2>2. TopFrame'
    <3>1. DoneAsking(Top, Top.asked)
      BY <1>1, <1>2 DEF TopFrame
    <3>2. \A j \in 1 .. Top.asked + 1 : requires[Top.unit][j] \in inited
      BY <1>2, <1>10, <3>1 DEF DoneAsking
    <3> QED  BY <1>2, <1>4, <1>5, <1>10, <3>2 DEF TopFrame, DoneAsking
  <2>3. Nested'
    <3> SUFFICES ASSUME NEW i \in 1 .. n - 1
                 PROVE  /\ s[i].asked > 0
                        /\ \A j \in 1 .. s[i].asked - 1 : requires[s[i].unit][j] \in inited
                        /\ requires[s[i].unit][s[i].asked] = s[i + 1].unit
      BY <1>4, <1>5, <1>10 DEF Nested, DoneAsking
    <3>1. s[i] = stack[i] /\ s[i + 1].unit = stack[i + 1].unit
      BY <1>2, <1>5, <1>8
    <3> QED  BY <1>1, <3>1 DEF Nested, DoneAsking
  <2>4. Apart'
    BY <1>1, <1>4, <1>5, <1>8, <1>10 DEF Apart
  <2>5. DependenciesFirst' /\ InitOnce'
    BY <1>4 DEF IInv, DependenciesFirst, InitOnce
  <2> QED  BY <2>1, <2>2, <2>3, <2>4, <2>5 DEF IInv, StackInv
<1>11. CASE stack' = Append(s, f) /\ UNCHANGED result /\ dep \notin inited /\ dep \notin ptrs
  <2>0. /\ stack' \in Seq(Frame) /\ Len(stack') = n + 1
        /\ \A i \in 1 .. n : stack'[i] = s[i]
        /\ stack'[n + 1] = f
    BY <1>2, <1>3, <1>5, <1>11, AppendProperties
  <2>1. InitTypeOK'
    <3>1. Len(requires[dep]) \in Nat
      BY <1>1, <1>3, TypeFacts
    <3>2. \A i \in 1 .. n + 1 : stack'[i].asked <= Len(requires[stack'[i].unit])
      BY <1>2, <1>7, <2>0, <3>1
    <3> QED  BY <1>1, <1>4, <1>11, <2>0, <3>2 DEF InitTypeOK
  <2>2. TopFrame'
    BY <1>4, <2>0 DEF TopFrame, DoneAsking
  <2>3. Nested'
    <3> SUFFICES ASSUME NEW i \in 1 .. n
                 PROVE  /\ s[i].asked > 0
                        /\ \A j \in 1 .. s[i].asked - 1 : requires[s[i].unit][j] \in inited
                        /\ requires[s[i].unit][s[i].asked] = stack'[i + 1].unit
      BY <1>2, <1>4, <2>0 DEF Nested, DoneAsking
    <3>1. CASE i = n
      <4>1. DoneAsking(Top, Top.asked)
        BY <1>1, <1>2 DEF TopFrame
      <4>2. s[i].asked - 1 = Top.asked /\ s[i].unit = Top.unit
        BY <1>2, <1>5, <3>1
      <4> QED  BY <1>2, <1>5, <2>0, <3>1, <4>1, <4>2 DEF DoneAsking
    <3>2. CASE i \in 1 .. n - 1
      <4>1. i \in 1 .. n /\ i # n /\ i + 1 \in 1 .. n
        BY <1>2, <3>2
      <4>2. s[i] = stack[i] /\ s[i + 1].unit = stack[i + 1].unit
        BY <1>5, <1>8, <4>1
      <4>3. stack'[i + 1] = s[i + 1]
        BY <2>0, <4>1
      <4> QED  BY <1>1, <3>2, <4>2, <4>3 DEF Nested, DoneAsking
    <3> QED  BY <1>2, <3>1, <3>2
  <2>4. Apart'
    <3>1. \A i \in 1 .. n : stack[i].unit # dep
      BY <1>11 DEF ptrs
    <3>2. \A i \in 1 .. n : stack'[i].unit = stack[i].unit
      BY <1>8, <2>0
    <3>3. stack'[n + 1].unit = dep
      BY <2>0
    <3>4. \A i \in 1 .. n + 1 : i \in 1 .. n \/ i = n + 1
      BY <1>2
    <3>5. \A i \in 1 .. n + 1 : stack'[i].unit \notin inited
      BY <1>1, <1>11, <3>2, <3>3, <3>4 DEF Apart
    <3>6. \A i, k \in 1 .. n + 1 : stack'[i].unit = stack'[k].unit => i = k
      BY <1>1, <3>1, <3>2, <3>3, <3>4 DEF Apart
    <3> QED  BY <1>4, <2>0, <3>5, <3>6 DEF Apart
  <2>5. DependenciesFirst' /\ InitOnce'
    BY <1>4 DEF IInv, DependenciesFirst, InitOnce
  <2> QED  BY <2>1, <2>2, <2>3, <2>4, <2>5 DEF IInv, StackInv
<1> QED
  BY <1>6, <1>9, <1>10, <1>11

\* The deepest unit has all it requires; what waits for it is one step further.
LEMMA RunInitStep == IInv /\ RunInit => IInv'
<1> SUFFICES ASSUME IInv, RunInit PROVE IInv'
  OBVIOUS
<1> DEFINE n == Len(stack)
           u == Top.unit
<1>1. InitTypeOK /\ stack # <<>> /\ TopFrame /\ Nested /\ Apart
      /\ DependenciesFirst /\ InitOnce
  BY DEF IInv, RunInit, StackInv
<1>2. /\ n \in Nat \ {0} /\ Top \in Frame /\ Top = stack[n] /\ u \in Unit
      /\ Below \in Seq(Frame) /\ Len(Below) = n - 1
      /\ \A i \in 1 .. n - 1 : Below[i] = stack[i]
  BY <1>1, BelowFrames DEF Frame
<1>3. UNCHANGED <<requires, loop, next, units>>
  BY DEF RunInit
<1>4. CASE stack' = <<>> /\ UNCHANGED order /\ result' = "init error"
  <2>1. InitTypeOK'
    <3>1. /\ stack' \in Seq(Frame)
          /\ \A i \in 1 .. Len(stack') : stack'[i].asked <= Len(requires'[stack'[i].unit])
      <4>1. stack' = <<>> /\ Len(stack') = 0
        BY <1>4
      <4>2. 1 .. 0 = {}
        OBVIOUS
      <4> QED  BY <4>1, <4>2
    <3>2. result' \in {"running", "nil", "ErrCircularDependencies", "init error"}
      BY <1>4
    <3> QED  BY <1>1, <1>3, <1>4, <3>1, <3>2, Zenon DEF InitTypeOK
  <2>2. StackInv'
    BY <1>4, Unwound
  <2>3. DependenciesFirst' /\ InitOnce'
    BY <1>1, <1>3, <1>4 DEF DependenciesFirst, InitOnce
  <2> QED  BY <2>1, <2>2, <2>3 DEF IInv
<1>5. CASE stack' = Below /\ UNCHANGED result /\ order' = Append(order, u)
  <2>1. inited' = inited \cup {u}
    BY <1>1, <1>2, <1>5, OneMore
  <2>2. \A j \in 1 .. Len(requires[u]) : requires[u][j] \in inited
    BY <1>1, <1>2 DEF TopFrame, DoneAsking, RunInit, DependenciesDone
  <2>3. u \notin inited
    BY <1>1, <1>2 DEF Apart
  <2>4. /\ order \in Seq(Unit) /\ Len(order) \in Nat
        /\ order' \in Seq(Unit) /\ Len(order') = Len(order) + 1
        /\ order'[Len(order) + 1] = u
        /\ \A i \in 1 .. Len(order) : order'[i] = order[i]
    BY <1>1, <1>2, <1>5, TypeFacts
  <2>5. InitTypeOK'
    <3>1. /\ stack' \in Seq(Frame)
          /\ \A i \in 1 .. Len(stack') : stack'[i].asked <= Len(requires'[stack'[i].unit])
      <4>1. Len(stack') = n - 1 /\ \A i \in 1 .. n - 1 : stack'[i] = stack[i] /\ i \in 1 .. n
        BY <1>2, <1>5
      <4>2. \A i \in 1 .. n : stack[i].asked <= Len(requires'[stack[i].unit])
        BY <1>1, <1>3, TypeFacts
      <4> QED  BY <1>2, <1>5, <4>1, <4>2
    <3> QED  BY <1>1, <1>3, <1>5, <2>4, <3>1, Zenon DEF InitTypeOK
  <2>6. TopFrame'
    <3> SUFFICES ASSUME n - 1 \in 1 .. n - 1
                 PROVE  \A j \in 1 .. stack[n - 1].asked :
                            requires[stack[n - 1].unit][j] \in inited'
      BY <1>2, <1>3, <1>5 DEF TopFrame, DoneAsking
    <3>1. /\ DoneAsking(stack[n - 1], stack[n - 1].asked - 1)
          /\ requires[stack[n - 1].unit][stack[n - 1].asked] = u
      BY <1>1, <1>2 DEF Nested
    <3>2. stack[n - 1].asked \in Nat
      BY <1>1, <1>2, TypeFacts DEF Frame
    <3> QED  BY <2>1, <3>1, <3>2 DEF DoneAsking
  <2>7. Nested'
    <3> SUFFICES ASSUME NEW i \in 1 .. n - 2
                 PROVE  /\ stack[i].asked > 0
                        /\ \A j \in 1 .. stack[i].asked - 1 : requires[stack[i].unit][j] \in inited'
                        /\ requires[stack[i].unit][stack[i].asked] = stack[i + 1].unit
      BY <1>2, <1>3, <1>5 DEF Nested, DoneAsking
    <3> QED  BY <1>1, <1>2, <2>1 DEF Nested, DoneAsking
  <2>8. Apart'
    BY <1>1, <1>2, <1>5, <2>1 DEF Apart
  <2>9. DependenciesFirst'
    <3> SUFFICES ASSUME NEW i \in 1 .. Len(order) + 1,
                        NEW j \in 1 .. Len(requires[order'[i]])
                 PROVE  \E k \in 1 .. i - 1 : order'[k] = requires[order'[i]][j]
      BY <1>3, <2>4 DEF DependenciesFirst
    <3>1. CASE i = Len(order) + 1
      <4>1. requires[u][j] \in Elems(order)
        BY <2>2, <2>4, <3>1 DEF inited
      <4>2. PICK k \in 1 .. Len(order) : order[k] = requires[u][j]
        BY <4>1 DEF Elems
      <4> QED  BY <2>4, <3>1, <4>2
    <3>2. CASE i \in 1 .. Len(order)
      <4>1. PICK k \in 1 .. i - 1 : order[k] = requires[order[i]][j]
        BY <1>1, <2>4, <3>2 DEF DependenciesFirst
      <4> QED  BY <2>4, <3>2, <4>1
    <3> QED  BY <2>4, <3>1, <3>2
  <2>10. InitOnce'
    <3>1. \A i \in 1 .. Len(order) : order[i] # u
      BY <2>3 DEF inited, Elems
    <3> QED  BY <1>1, <2>4, <3>1 DEF InitOnce
  <2> QED  BY <2>5, <2>6, <2>7, <2>8, <2>9, <2>10 DEF IInv, StackInv
<1> QED
  BY <1>4, <1>5 DEF RunInit

\* The return of Init, and stuttering.
LEMMA OtherSteps == IInv /\ (Return \/ UNCHANGED vars) => IInv'
<1> SUFFICES ASSUME IInv, Return \/ UNCHANGED vars PROVE IInv'
  OBVIOUS
<1>1. UNCHANGED <<requires, loop, next, units, stack, order>> /\ result' \in {result, "nil"}
  BY DEF Return, vars
<1>2. InitTypeOK'
  BY <1>1 DEF IInv, InitTypeOK
<1>3. StackInv'
  BY <1>1 DEF IInv, StackInv, TopFrame, Nested, Apart, DoneAsking, inited
<1>4. DependenciesFirst' /\ InitOnce'
  BY <1>1 DEF IInv, DependenciesFirst, InitOnce
<1> QED
  BY <1>2, <1>3, <1>4 DEF IInv

\* The invariant holds in every reachable state.
LEMMA Inductive == Spec => []IInv
<1>1. IInv /\ [Next]_vars => IInv'
  BY NextUnitStep, DependencyStep, RunInitStep, OtherSteps DEF Next
<1> QED
  BY InitHolds, <1>1, PTL DEF Spec

-----------------------------------------------------------------------------
\* The bookkeeping of InitUnits.init and initUnit stays well formed for every
\* dependency graph and declaration.
THEOREM InitTypeCorrect == Spec => []InitTypeOK
<1>1. IInv => InitTypeOK
  BY DEF IInv
<1> QED
  BY Inductive, <1>1, PTL

\* Whatever the graph, no unit's closure runs before those of the units it
\* requires: initUnit asks for all of them and only then runs its own.
THEOREM DependenciesComeFirst == Spec => []DependenciesFirst
<1>1. IInv => DependenciesFirst
  BY DEF IInv
<1> QED
  BY Inductive, <1>1, PTL

\* Whatever the graph, no unit's closure runs twice, although a unit that is
\* required from several sides is asked for again each time.
THEOREM ClosuresRunOnce == Spec => []InitOnce
<1>1. IInv => InitOnce
  BY DEF IInv
<1> QED
  BY Inductive, <1>1, PTL

\* InitUnits.init, for every graph and declaration: closures in dependency order,
\* each once.
THEOREM InitialisedInOrder == Spec => []InitInOrder
<1>1. InitTypeOK /\ DependenciesFirst /\ InitOnce => InitInOrder
  BY DEF InitInOrder
<1> QED
  BY InitTypeCorrect, DependenciesComeFirst, ClosuresRunOnce, <1>1, PTL

-----------------------------------------------------------------------------
(***************************************************************************)
(* Cycles.  Only needed units are ever called or initialised, and of the   *)
(* declared units the loop has passed all are initialised but the one whose *)
(* call is at the bottom of the stack.                                     *)
(***************************************************************************)
OnlyNeeded ==
    /\ inited \subseteq Needed
    /\ \A i \in 1 .. Len(stack) : stack[i].unit \in Needed

LoopDone ==
    /\ result \in {"running", "nil"} =>
          \A i \in 1 .. next - 1 :
             loop[i] \in inited \/ (i = next - 1 /\ stack # <<>> /\ stack[1].unit = loop[i])
    /\ result = "nil" => stack = <<>> /\ next > Len(loop)

\* The error is only given for a cycle.
CycleInv ==
    /\ OnlyNeeded
    /\ LoopDone
    /\ result = "ErrCircularDependencies" => HasCycle

\* The pairs of naturals in increasing order.
Increasing == {ss \in Nat \X Nat : ss[1] < ss[2]}

\* Some number of a set of naturals comes first.
LEMMA LeastNatural ==
    ASSUME NEW T \in SUBSET Nat, T # {}
    PROVE  \E n \in T : \A m \in T : n <= m
<1>1. IsWellFoundedOn(Increasing, Nat)
  BY NatLessThanWellFounded DEF OpToRel, Increasing
<1>2. PICK n \in T : \A m \in T : ~(<<m, n>> \in Increasing)
  BY <1>1, WFMin
<1>3. \A m \in T : n <= m
  <2> SUFFICES ASSUME NEW m \in T PROVE n <= m
    OBVIOUS
  <2>1. ~(<<m, n>> \in Increasing) /\ m \in Nat /\ n \in Nat
    BY <1>2
  <2> QED  BY <2>1 DEF Increasing
<1> QED
  BY <1>3

\* What a needed unit requires is needed, and so is what is declared.
LEMMA NeededClosed ==
    ASSUME InitTypeOK
    PROVE  /\ \A i \in 1 .. Len(loop) : loop[i] \in Needed
           /\ \A u \in Needed : \A j \in 1 .. Len(requires[u]) : requires[u][j] \in Needed
<1>1. \A i \in 1 .. Len(loop) : loop[i] \in Unit
  <2>1. loop \in Seq(Unit)
    BY DEF InitTypeOK
  <2> QED  BY <2>1
<1>2. \A i \in 1 .. Len(loop) : loop[i] \in Needed
  BY <1>1 DEF Needed, Elems
<1>3. ASSUME NEW u \in Needed, NEW j \in 1 .. Len(requires[u])
      PROVE  requires[u][j] \in Needed
  <2>1. u \in Unit
    BY DEF Needed
  <2>2. requires[u] \in Seq(Unit)
    BY <2>1, TypeFacts
  <2>3. requires[u][j] \in Unit
    BY <2>2
  <2>4. ASSUME NEW T \in SUBSET Unit, Elems(loop) \subseteq T, Closed(T)
        PROVE  requires[u][j] \in T
    <3>1. u \in T
      BY <2>4 DEF Needed
    <3> QED  BY <2>4, <3>1 DEF Closed, Elems
  <2> QED  BY <2>3, <2>4 DEF Needed
<1> QED
  BY <1>2, <1>3

\* Initialised units are a closed set: DependenciesFirst forgets the order.
LEMMA InitedClosed ==
    ASSUME InitTypeOK, DependenciesFirst
    PROVE  /\ inited \subseteq Unit
           /\ \A u \in inited : \A j \in 1 .. Len(requires[u]) : requires[u][j] \in inited
<1>1. order \in Seq(Unit) /\ Len(order) \in Nat
  BY TypeFacts
<1>2. inited \subseteq Unit
  BY <1>1 DEF inited, Elems
<1>3. ASSUME NEW u \in inited, NEW j \in 1 .. Len(requires[u])
      PROVE  requires[u][j] \in inited
  <2>1. PICK i \in 1 .. Len(order) : order[i] = u
    BY DEF inited, Elems
  <2>2. PICK k \in 1 .. i - 1 : order[k] = requires[u][j]
    BY <2>1 DEF DependenciesFirst
  <2>3. k \in 1 .. Len(order)
    BY <1>1, <2>1, <2>2
  <2> QED  BY <2>2, <2>3 DEF inited, Elems
<1> QED
  BY <1>2, <1>3

\* The loop's end: what is initialised is what is needed.
LEMMA AllNeeded ==
    ASSUME IInv, CycleInv, result = "nil"
    PROVE  inited = Needed
<1>1. InitTypeOK /\ DependenciesFirst /\ stack = <<>> /\ next > Len(loop)
  BY DEF IInv, CycleInv, LoopDone
<1>2. \A i \in 1 .. Len(loop) : i \in 1 .. next - 1
  BY <1>1 DEF InitTypeOK
<1>3. Elems(loop) \subseteq inited
  BY <1>1, <1>2 DEF CycleInv, LoopDone, Elems
<1>4. inited \in SUBSET Unit /\ Closed(inited)
  BY <1>1, InitedClosed DEF Closed, Elems
<1>5. Needed \subseteq inited
  BY <1>3, <1>4 DEF Needed
<1> QED
  BY <1>5 DEF CycleInv, OnlyNeeded

\* An initialisation in dependency order of all needed units rules a cycle out: the
\* first unit of the cycle that ran would have run before one it requires.
LEMMA OrderedHasNoCycle ==
    ASSUME InitTypeOK, DependenciesFirst, InitOnce, inited = Needed
    PROVE  ~HasCycle
<1> SUFFICES ASSUME NEW S \in SUBSET Needed, S # {},
                    \A u \in S : \E v \in S : v \in Elems(requires[u])
             PROVE  FALSE
  BY DEF HasCycle
<1> DEFINE T == {i \in 1 .. Len(order) : order[i] \in S}
<1>1. order \in Seq(Unit) /\ Len(order) \in Nat
  BY TypeFacts
<1>2. T \in SUBSET Nat /\ T # {}
  <2>1. PICK u \in S : TRUE
    OBVIOUS
  <2>2. PICK i \in 1 .. Len(order) : order[i] = u
    BY <2>1 DEF inited, Elems
  <2> QED  BY <1>1, <2>1, <2>2
<1> HIDE DEF T
<1>3. PICK i \in T : \A m \in T : i <= m
  BY <1>2, LeastNatural
<1>4. i \in 1 .. Len(order) /\ order[i] \in S
  BY <1>3 DEF T
<1>5. PICK v \in S : v \in Elems(requires[order[i]])
  BY <1>4
<1>6. PICK j \in 1 .. Len(requires[order[i]]) : requires[order[i]][j] = v
  BY <1>5 DEF Elems
<1>7. PICK k \in 1 .. i - 1 : order[k] = v
  BY <1>4, <1>6 DEF DependenciesFirst
<1>8. k \in T /\ k < i
  BY <1>1, <1>4, <1>5, <1>7 DEF T
<1> QED
  BY <1>1, <1>3, <1>4, <1>8 DEF T

\* A dependency that is on the stack closes a cycle: the calls from its own on.
LEMMA CycleFound ==
    ASSUME IInv, OnlyNeeded, Dependency,
           requires[Top.unit][Top.asked + 1] \in ptrs
    PROVE  HasCycle
<1> DEFINE n   == Len(stack)
           dep == requires[Top.unit][Top.asked + 1]
<1>1. InitTypeOK /\ stack # <<>> /\ Nested
  BY DEF IInv, Dependency, StackInv
<1>2. /\ n \in Nat \ {0} /\ Top \in Frame /\ Top = stack[n]
      /\ Top.asked \in Nat /\ Top.unit \in Unit
      /\ Len(requires[Top.unit]) \in Nat /\ Top.asked < Len(requires[Top.unit])
  BY <1>1, BelowFrames, TypeFacts DEF Dependency, Frame
<1>3. PICK k \in 1 .. n : stack[k].unit = dep
  BY DEF ptrs
<1> DEFINE S == {stack[i].unit : i \in k .. n}
<1>4. S \in SUBSET Needed /\ S # {}
  BY <1>2, <1>3 DEF OnlyNeeded
<1>5. ASSUME NEW i \in k .. n
      PROVE  \E v \in S : v \in Elems(requires[stack[i].unit])
  <2>1. CASE i = n
    <3>1. dep \in S
      BY <1>2, <1>3
    <3>2. dep \in Elems(requires[Top.unit])
      BY <1>2 DEF Elems
    <3> QED  BY <1>2, <2>1, <3>1, <3>2
  <2>2. CASE i # n
    <3>1. i \in 1 .. n - 1 /\ i + 1 \in k .. n
      BY <1>2, <2>2
    <3>2. stack[i].asked > 0 /\ requires[stack[i].unit][stack[i].asked] = stack[i + 1].unit
      BY <1>1, <3>1 DEF Nested
    <3>3. stack[i] \in Frame /\ stack[i].asked <= Len(requires[stack[i].unit])
      BY <1>1, <1>2, <3>1, TypeFacts
    <3>4. stack[i].asked \in 1 .. Len(requires[stack[i].unit])
      <4>1. Len(requires[stack[i].unit]) \in Nat
        BY <1>1, <3>3, TypeFacts DEF Frame
      <4> QED  BY <3>2, <3>3, <4>1 DEF Frame
    <3>5. stack[i + 1].unit \in Elems(requires[stack[i].unit])
      BY <3>2, <3>4 DEF Elems
    <3> QED  BY <3>1, <3>5
  <2> QED  BY <2>1, <2>2
<1>6. \A u \in S : \E v \in S : v \in Elems(requires[u])
  BY <1>5
<1> HIDE DEF S
<1> QED
  BY <1>4, <1>6 DEF HasCycle

\* What is needed is fixed when the initialisation starts.
LEMMA NeededFixed ==
    ASSUME UNCHANGED <<requires, loop>>
    PROVE  Needed' = Needed /\ HasCycle' = HasCycle
BY DEF Needed, HasCycle, Closed

\* Before the first unit there is no cycle to speak of.
LEMMA CycleInit == Init => CycleInv
BY DEF Init, CycleInv, OnlyNeeded, LoopDone, inited, Elems

\* Init takes up the next declared unit.
LEMMA CycleNextUnit == IInv /\ CycleInv /\ NextUnit => CycleInv'
<1> SUFFICES ASSUME IInv, CycleInv, NextUnit PROVE CycleInv'
  OBVIOUS
<1> DEFINE f == [unit |-> loop[next], asked |-> 0]
<1>1. /\ UNCHANGED <<requires, loop, order, result>> /\ result = "running" /\ stack = <<>>
      /\ next' = next + 1 /\ next \in 1 .. Len(loop) /\ Len(loop) \in Nat
      /\ \/ stack' = <<>> /\ loop[next] \in inited
         \/ stack' = <<f>>
  BY DEF NextUnit, initUnit, Push, ptrs, IInv, InitTypeOK
<1>2. Needed' = Needed /\ inited' = inited
  BY <1>1, NeededFixed DEF inited
<1>3. loop[next] \in Needed
  BY <1>1, NeededClosed DEF IInv
<1>4. OnlyNeeded'
  BY <1>1, <1>2, <1>3 DEF CycleInv, OnlyNeeded
<1>5. LoopDone'
  <2> SUFFICES ASSUME NEW i \in 1 .. next
               PROVE  loop[i] \in inited \/ (i = next /\ stack' # <<>> /\ stack'[1].unit = loop[i])
    BY <1>1, <1>2 DEF LoopDone
  <2>1. CASE i = next
    BY <1>1, <2>1
  <2>2. CASE i \in 1 .. next - 1
    BY <1>1, <2>2 DEF CycleInv, LoopDone
  <2> QED  BY <1>1, <2>1, <2>2
<1> QED
  BY <1>1, <1>4, <1>5 DEF CycleInv

\* A unit asks for the next one it requires.
LEMMA CycleDependency == IInv /\ CycleInv /\ Dependency => CycleInv'
<1> SUFFICES ASSUME IInv, CycleInv, Dependency PROVE CycleInv'
  OBVIOUS
<1> DEFINE n   == Len(stack)
           dep == requires[Top.unit][Top.asked + 1]
           f   == [unit |-> dep, asked |-> 0]
           s   == Append(Below, [Top EXCEPT !.asked = @ + 1])
<1>1. InitTypeOK /\ stack # <<>> /\ result = "running"
  BY DEF IInv, Dependency
<1>2. /\ n \in Nat \ {0} /\ Top = stack[n] /\ Top.asked \in Nat /\ Top.unit \in Unit
      /\ Len(requires[Top.unit]) \in Nat /\ Top.asked < Len(requires[Top.unit])
  BY <1>1, BelowFrames, TypeFacts DEF Dependency, Frame
<1>3. /\ s \in Seq(Frame) /\ Len(s) = n
      /\ \A i \in 1 .. n : s[i].unit = stack[i].unit
  <2>1. /\ s \in Seq(Frame) /\ Len(s) = n
        /\ \A i \in 1 .. n - 1 : s[i] = stack[i]
        /\ s[n] = [unit |-> Top.unit, asked |-> Top.asked + 1]
    BY <1>1, AskedFrames
  <2> QED  BY <1>2, <2>1
<1>4. UNCHANGED <<requires, loop, next, order>>
      /\ \/ stack' = s /\ UNCHANGED result
         \/ stack' = <<>> /\ result' = "ErrCircularDependencies" /\ dep \in ptrs
         \/ stack' = Append(s, f) /\ UNCHANGED result
  BY DEF Dependency, initUnit, Push
<1>5. Needed' = Needed /\ HasCycle' = HasCycle /\ inited' = inited
  BY <1>4, NeededFixed DEF inited
<1>6. dep \in Needed
  <2>1. Top.unit \in Needed
    BY <1>2 DEF CycleInv, OnlyNeeded
  <2> QED  BY <1>1, <1>2, <2>1, NeededClosed
<1>7. dep \in Unit
  BY <1>6 DEF Needed
<1> HIDE DEF s
<1>8. CASE stack' = <<>> /\ result' = "ErrCircularDependencies" /\ dep \in ptrs
  <2>1. HasCycle
    BY <1>8, CycleFound DEF CycleInv
  <2> QED  BY <1>5, <1>8, <2>1 DEF CycleInv, OnlyNeeded, LoopDone
<1>9. CASE stack' = s /\ UNCHANGED result
  <2>1. OnlyNeeded'
    BY <1>3, <1>5, <1>9 DEF CycleInv, OnlyNeeded
  <2>2. LoopDone'
    BY <1>1, <1>2, <1>3, <1>4, <1>5, <1>9 DEF CycleInv, LoopDone
  <2> QED  BY <1>1, <1>9, <2>1, <2>2 DEF CycleInv
<1>10. CASE stack' = Append(s, f) /\ UNCHANGED result
  <2>1. /\ Len(stack') = n + 1 /\ stack'[n + 1] = f
        /\ \A i \in 1 .. n : stack'[i] = s[i]
    <3>1. f \in Frame
      BY <1>7 DEF Frame
    <3> QED  BY <1>2, <1>3, <1>10, <3>1, AppendProperties
  <2>2. OnlyNeeded'
    <3>1. \A i \in 1 .. n + 1 : stack'[i].unit \in Needed
      BY <1>2, <1>3, <1>6, <2>1 DEF CycleInv, OnlyNeeded
    <3> QED  BY <1>5, <2>1, <3>1 DEF CycleInv, OnlyNeeded
  <2>3. LoopDone'
    <3>1. stack' # <<>> /\ stack'[1].unit = stack[1].unit
      BY <1>2, <1>3, <2>1
    <3> QED  BY <1>1, <1>4, <1>5, <1>10, <3>1 DEF CycleInv, LoopDone
  <2> QED  BY <1>1, <1>10, <2>2, <2>3 DEF CycleInv
<1> QED
  BY <1>4, <1>8, <1>9, <1>10

\* A unit whose dependencies are initialised runs its closure.
LEMMA CycleRunInit == IInv /\ CycleInv /\ RunInit => CycleInv'
<1> SUFFICES ASSUME IInv, CycleInv, RunInit PROVE CycleInv'
  OBVIOUS
<1> DEFINE n == Len(stack)
           u == Top.unit
<1>1. InitTypeOK /\ stack # <<>> /\ result = "running" /\ UNCHANGED <<requires, loop, next>>
  BY DEF IInv, RunInit
<1>2. /\ n \in Nat \ {0} /\ Top = stack[n] /\ u \in Unit
      /\ Len(Below) = n - 1 /\ \A i \in 1 .. n - 1 : Below[i] = stack[i]
  BY <1>1, BelowFrames DEF Frame
<1>3. Needed' = Needed
  BY <1>1, NeededFixed
<1>4. CASE result' = "init error" /\ stack' = <<>> /\ UNCHANGED order
  <2>1. inited' = inited
    BY <1>4 DEF inited
  <2>2. Len(stack') = 0
    BY <1>4
  <2>3. OnlyNeeded'
    BY <1>3, <2>1, <2>2 DEF CycleInv, OnlyNeeded
  <2> QED  BY <1>4, <2>3 DEF CycleInv, LoopDone
<1>5. CASE order' = Append(order, u) /\ stack' = Below /\ UNCHANGED result
  <2>1. inited' = inited \cup {u}
    BY <1>1, <1>2, <1>5, OneMore
  <2>2. OnlyNeeded'
    BY <1>2, <1>3, <1>5, <2>1 DEF CycleInv, OnlyNeeded
  <2>3. LoopDone'
    <3> SUFFICES ASSUME NEW i \in 1 .. next - 1
                 PROVE  loop[i] \in inited' \/ (i = next - 1 /\ stack' # <<>> /\ stack'[1].unit = loop[i])
      BY <1>1, <1>5 DEF LoopDone
    <3>1. loop[i] \in inited \/ (i = next - 1 /\ stack[1].unit = loop[i])
      BY <1>1 DEF CycleInv, LoopDone
    <3>2. CASE n = 1
      BY <1>2, <2>1, <3>1, <3>2
    <3>3. CASE n # 1
      BY <1>2, <1>5, <2>1, <3>1, <3>3
    <3> QED  BY <3>2, <3>3
  <2> QED  BY <1>1, <1>5, <2>2, <2>3 DEF CycleInv
<1> QED
  BY <1>4, <1>5 DEF RunInit

\* The return of Init, and stuttering.
LEMMA CycleOther == IInv /\ CycleInv /\ (Return \/ UNCHANGED vars) => CycleInv'
<1> SUFFICES ASSUME IInv, CycleInv, Return \/ UNCHANGED vars PROVE CycleInv'
  OBVIOUS
<1>1. UNCHANGED <<requires, loop, next, stack, order>>
  BY DEF Return, vars
<1>2. Needed' = Needed /\ HasCycle' = HasCycle /\ inited' = inited
  BY <1>1, NeededFixed DEF inited
<1>3. OnlyNeeded'
  BY <1>1, <1>2 DEF CycleInv, OnlyNeeded
<1>4. LoopDone'
  <2>1. CASE UNCHANGED result
    BY <1>1, <1>2, <2>1 DEF CycleInv, LoopDone
  <2>2. CASE Return
    BY <1>1, <1>2, <2>2 DEF CycleInv, LoopDone, Return
  <2> QED  BY <2>1, <2>2 DEF vars
<1>5. result' = "ErrCircularDependencies" => HasCycle'
  BY <1>2 DEF CycleInv, Return, vars
<1> QED
  BY <1>3, <1>4, <1>5 DEF CycleInv

\* The step of both invariants.
LEMMA BothStep == IInv /\ CycleInv /\ [Next]_vars => IInv' /\ CycleInv'
<1>1. IInv /\ [Next]_vars => IInv'
  BY NextUnitStep, DependencyStep, RunInitStep, OtherSteps DEF Next
<1>2. IInv /\ CycleInv /\ [Next]_vars => CycleInv'
  BY CycleNextUnit, CycleDependency, CycleRunInit, CycleOther DEF Next
<1> QED
  BY <1>1, <1>2

\* Together they give the property.
LEMMA BothMean == IInv /\ CycleInv => CyclesAreRejected
<1> SUFFICES ASSUME IInv, CycleInv PROVE CyclesAreRejected
  OBVIOUS
<1>1. result = "nil" => inited = Needed
  BY AllNeeded
<1>2. result = "nil" => ~HasCycle
  BY <1>1, OrderedHasNoCycle DEF IInv
<1> QED
  BY <1>1, <1>2 DEF CyclesAreRejected, CycleInv

\* Whatever the graph: initUnit reports a circular dependency only when needed
\* units wait for one another, and InitUnits.init succeeds only when none do and
\* exactly the needed units have been initialised.
THEOREM CyclesRejected == Spec => []CyclesAreRejected
<1>1. Init => IInv /\ CycleInv
  BY InitHolds, CycleInit
<1> QED
  BY <1>1, BothStep, BothMean, PTL DEF Spec

-----------------------------------------------------------------------------
(***************************************************************************)
(* The commands of the tool.                                               *)
(***************************************************************************)

\* The tool as it is: a command that is not one of the two known to use a nil
\* client, and the graph of ctr.go.
TheTool == cmd \in ReadyCommands /\ requires = CtrGraph

CtrInv ==
    /\ IInv /\ CycleInv
    /\ TheTool
    /\ loop = cmd.declares
    /\ phase = "run" => result = "nil"
    /\ phase # "panic"

\* What a command uses is declared by it or required by something it declares.
LEMMA UsesCovered ==
    ASSUME CtrInv, result = "nil"
    PROVE  cmd.uses \subseteq inited
<1>1. /\ \A i \in 1 .. Len(loop) : loop[i] \in inited
      /\ \A u \in inited : \A j \in 1 .. Len(requires[u]) : requires[u][j] \in inited
  BY AllNeeded, NeededClosed DEF CtrInv, IInv
<1>2. loop = cmd.declares /\ requires = CtrGraph /\ cmd \in ReadyCommands
  BY DEF CtrInv, TheTool
<1>3. \A u \in inited : u \in CtrUnit
  BY <1>2, InitedClosed DEF CtrInv, IInv, InitTypeOK, CtrGraph
<1>4. /\ "Allocator" \in inited => {"Calico", "Store"} \subseteq inited
      /\ "PoolManager" \in inited => {"Calico", "Store"} \subseteq inited
  <2>1. ASSUME NEW u \in {"Allocator", "PoolManager"}, u \in inited
        PROVE  {"Calico", "Store"} \subseteq inited
    <3>1. requires[u] = <<"Calico", "Store">>
      BY <1>2 DEF CtrGraph, CtrRequires, CtrUnit
    <3>2. Len(requires[u]) = 2 /\ requires[u][1] = "Calico" /\ requires[u][2] = "Store"
      BY <3>1
    <3> QED  BY <1>1, <2>1, <3>2
  <2> QED  BY <2>1
<1>5. Elems(cmd.declares) \subseteq inited
  BY <1>1, <1>2 DEF Elems
<1>6. /\ \A a : Elems(<<a>>) = {a}
      /\ \A a, b : Elems(<<a, b>>) = {a, b}
      /\ \A a, b, c : Elems(<<a, b, c>>) = {a, b, c}
  BY DEF Elems
<1>7. cmd \in {AssignIPCmd, DiagIPCmd, DiagPoolCmd, InspectBlockCmd, InspectIPCmd, ListBlocksCmd,
               ListIPsCmd, ReleaseBlocksCmd, ReleaseIPCmd, ReleaseWEPCmd, ReleaseBlockCmd("host")}
  BY <1>2, Zenon DEF ReadyCommands, CtrCommand
<1>8. CASE cmd \in {AssignIPCmd, ReleaseIPCmd, InspectIPCmd, ListIPsCmd}
  BY <1>5, <1>6, <1>8 DEF AssignIPCmd, ReleaseIPCmd, InspectIPCmd, ListIPsCmd, Command
<1>9. CASE cmd \in {InspectBlockCmd, ListBlocksCmd, ReleaseBlocksCmd, ReleaseBlockCmd("host")}
  BY <1>5, <1>6, <1>9 DEF InspectBlockCmd, ListBlocksCmd, ReleaseBlocksCmd, ReleaseBlockCmd, Command
<1>10. CASE cmd = DiagIPCmd
  BY <1>5, <1>6, <1>10 DEF DiagIPCmd, Command
<1>11. CASE cmd \in {DiagPoolCmd, ReleaseWEPCmd}
  BY <1>4, <1>5, <1>6, <1>11 DEF DiagPoolCmd, ReleaseWEPCmd, Command
<1> QED
  BY <1>7, <1>8, <1>9, <1>10, <1>11

\* None of these commands uses a client ahead of InitCtr.
LEMMA NothingEarly == \A c \in ReadyCommands : c.early = {}
<1> SUFFICES ASSUME NEW c \in ReadyCommands PROVE c.early = {}
  OBVIOUS
<1>1. c \in {AssignIPCmd, DiagIPCmd, DiagPoolCmd, InspectBlockCmd, InspectIPCmd, ListBlocksCmd,
             ListIPsCmd, ReleaseBlocksCmd, ReleaseIPCmd, ReleaseWEPCmd, ReleaseBlockCmd("host")}
  BY Zenon DEF ReadyCommands, CtrCommand
<1> QED
  BY <1>1 DEF AssignIPCmd, DiagIPCmd, DiagPoolCmd, InspectBlockCmd, InspectIPCmd, ListBlocksCmd,
              ListIPsCmd, ReleaseBlocksCmd, ReleaseIPCmd, ReleaseWEPCmd, ReleaseBlockCmd, Command

\* The tool starts with its command chosen and nothing initialised.
LEMMA CtrInit == CInit /\ TheTool => CtrInv
BY InitHolds, CycleInit DEF CInit, CtrInv

\* Every step of the tool keeps its invariant.
LEMMA CtrStep == CtrInv /\ [CNext]_cvars => CtrInv'
<1> SUFFICES ASSUME CtrInv, [CNext]_cvars PROVE CtrInv'
  OBVIOUS
<1>1. [Next]_vars /\ UNCHANGED cmd
  BY DEF CNext, cvars, vars, Before, InitCtr, Action
<1>2. UNCHANGED <<requires, loop>>
  BY <1>1 DEF Next, vars, NextUnit, Dependency, RunInit, Return
<1>3. IInv' /\ CycleInv' /\ TheTool' /\ (loop = cmd.declares)'
  BY <1>1, <1>2, BothStep DEF CtrInv, TheTool
<1>4. (phase = "run" => result = "nil")' /\ phase' # "panic"
  <2>1. CASE Before
    <3>1. cmd.early \subseteq inited
      BY NothingEarly DEF CtrInv, TheTool
    <3> QED  BY <2>1, <3>1 DEF Before, UseOf, CtrInv
  <2>2. CASE InitCtr
    BY <2>2 DEF InitCtr, CtrInv
  <2>3. CASE Action
    <3>1. cmd.uses \subseteq inited
      BY <2>3, UsesCovered DEF Action, CtrInv
    <3> QED  BY <2>3, <3>1 DEF Action, UseOf, CtrInv
  <2>4. CASE UNCHANGED cvars
    BY <2>4 DEF cvars, CtrInv
  <2> QED  BY <2>1, <2>2, <2>3, <2>4 DEF CNext
<1> QED
  BY <1>3, <1>4 DEF CtrInv

\* What a closure of ctr.go reads is what it requires.
LEMMA ReadsRequired == IInv => ReadsAreSet
<1> SUFFICES ASSUME IInv, requires = CtrGraph, NEW i \in 1 .. Len(order), NEW r \in Reads(order[i])
             PROVE  r \in {order[k] : k \in 1 .. i - 1}
  BY DEF ReadsAreSet
<1>1. DependenciesFirst /\ order[i] \in CtrUnit
  <2>1. order \in Seq(Unit) /\ requires \in [Unit -> Seq(Unit)] /\ DependenciesFirst
    BY DEF IInv, InitTypeOK
  <2>2. Unit = CtrUnit
    BY <2>1 DEF CtrGraph
  <2> QED  BY <2>1, <2>2
<1>2. \E j \in 1 .. Len(requires[order[i]]) : requires[order[i]][j] = r
  <2>1. requires[order[i]] = CtrRequires(order[i])
    BY <1>1 DEF CtrGraph
  <2>2. CASE order[i] \in {"Config", "Docker"}
    BY <2>2 DEF Reads
  <2>3. CASE order[i] \in {"Calico", "Etcd", "Backend"}
    <3>1. r = "Config" /\ requires[order[i]] = <<"Config">>
      BY <2>1, <2>3 DEF Reads, CtrRequires
    <3> QED  BY <3>1
  <2>4. CASE order[i] = "Store"
    <3>1. r = "Etcd" /\ requires[order[i]] = <<"Etcd">>
      BY <2>1, <2>4 DEF Reads, CtrRequires
    <3> QED  BY <3>1
  <2>5. CASE order[i] \in {"Allocator", "PoolManager"}
    <3>1. r \in {"Calico", "Store"} /\ requires[order[i]] = <<"Calico", "Store">>
      BY <2>1, <2>5 DEF Reads, CtrRequires
    <3>2. Len(requires[order[i]]) = 2 /\ requires[order[i]][1] = "Calico" /\ requires[order[i]][2] = "Store"
      BY <3>1
    <3> QED  BY <3>1, <3>2
  <2> QED  BY <1>1, <2>2, <2>3, <2>4, <2>5 DEF CtrUnit
<1> QED
  BY <1>1, <1>2 DEF DependenciesFirst

\* The tool, with the graph of ctr.go and any of its commands but the two that are
\* known to: no closure and no command meets a client that was not created,
\* whichever initialisation fails.
THEOREM ToolClientsReady == CSpec /\ TheTool => []ClientsReady
<1>1. CtrInv => ClientsReady
  BY ReadsRequired DEF CtrInv, ClientsReady, NoNilClient
<1> QED
  BY <1>1, CtrInit, CtrStep, PTL DEF CSpec

=============================================================================
