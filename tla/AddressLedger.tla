---------------------------- MODULE AddressLedger ----------------------------
(***************************************************************************)
(* What the fixed-IP pool promises about one address, whoever calls it and *)
(* however the calls interleave: the address is taken from Calico, then    *)
(* recorded as a fixed IP of one pool, then unrecorded, and only then      *)
(* given back.  A recorded address is never given back, and never recorded *)
(* a second time.                                                          *)
(***************************************************************************)
CONSTANTS Pools, Addresses

VARIABLES
    allocated,      \* addresses taken from Calico
    fixedIn         \* fixedIn[a]: the pools under which a is recorded as fixed

ledger == <<allocated, fixedIn>>

LedgerInit ==
    /\ allocated = {}
    /\ fixedIn = [a \in Addresses |-> {}]

Take(a) ==
    /\ a \notin allocated
    /\ allocated' = allocated \cup {a}
    /\ UNCHANGED fixedIn

Record(a, pool) ==
    /\ a \in allocated
    /\ fixedIn[a] = {}
    /\ fixedIn' = [fixedIn EXCEPT ![a] = {pool}]
    /\ UNCHANGED allocated

Unrecord(a) ==
    /\ fixedIn[a] # {}
    /\ fixedIn' = [fixedIn EXCEPT ![a] = {}]
    /\ UNCHANGED allocated

GiveBack(a) ==
    /\ a \in allocated
    /\ fixedIn[a] = {}
    /\ allocated' = allocated \ {a}
    /\ UNCHANGED fixedIn

LedgerNext ==
    \E a \in Addresses :
        \/ Take(a) \/ Unrecord(a) \/ GiveBack(a)
        \/ \E pool \in Pools : Record(a, pool)

LedgerSpec == LedgerInit /\ [][LedgerNext]_ledger

=============================================================================
