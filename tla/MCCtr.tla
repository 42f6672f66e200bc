-------------------------------- MODULE MCCtr --------------------------------
(***************************************************************************)
(* Instances of the administration tool for TLC: the initialisation of a   *)
(* command, the block commands, or the address commands.  A behaviour is   *)
(* that of one of them; the others stay in one initial state.              *)
(***************************************************************************)
EXTENDS CtrCommands, CtrBlocks, CtrAddresses, SequencesExt

CONSTANTS e1, e2, e3, a1, a2

VARIABLE active

\* The graph of ctr.go, and every graph over three units, dependencies in a fixed
\* order, with commands that declare one or two of them.
Few == {"Config", "Etcd", "Store"}
AnyGraphs == {[u \in CtrUnit |-> IF u \in Few THEN SetToSeq(g[u]) ELSE <<>>] : g \in [Few -> SUBSET Few]}
MCGraphs == AnyGraphs \cup {CtrGraph}
AnyCommands == {Command(d, {}, {}, FALSE) :
                  d \in {<<u>> : u \in Few} \cup {<<u, v>> : u, v \in Few}}
MCCommands == ReadyCommands \cup AnyCommands
MCDeclarations == {c.declares : c \in MCCommands}

\* Two blocks of one pool and a third, which has no host at first, of another.
MCPoolOf == [b \in Blocks |-> IF b \in Orphans THEN "p2" ELSE "p1"]

\* Two endpoints that want the same address, and a third with its own.
MCAddrOf == [e \in Endpoints |-> IF e = e3 THEN a2 ELSE a1]

MCInit ==
    /\ active \in {"init", "blocks", "addresses"}
    /\ CInit /\ BlocksInit /\ AddrInit
    /\ cmd \in ReadyCommands => requires = CtrGraph
    /\ active # "init" => cmd = ListIPsCmd

MCNext ==
    \/ active = "init" /\ CNext /\ UNCHANGED <<active, blocksVars, addrVars>>
    \/ active = "blocks" /\ BlocksNext /\ UNCHANGED <<active, cvars, addrVars>>
    \/ active = "addresses" /\ AddrNext /\ UNCHANGED <<active, cvars, blocksVars>>

MCSpec ==
    /\ MCInit /\ [][MCNext]_<<active, cvars, blocksVars, addrVars>>
    /\ WF_cvars(active = "init" /\ CNext)
=============================================================================
