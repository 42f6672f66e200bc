----------------------------- MODULE MCEndpoints -----------------------------
(***************************************************************************)
(* Instances of WorkloadEndpoint and of CNIEndpoint for TLC.  The two never*)
(* meet on a host: a container is on a docker network or on CNI.  A run    *)
(* takes one of the two, in one of its settings, and leaves the other idle.*)
(***************************************************************************)
EXTENDS WorkloadEndpoint, CNIEndpoint

CONSTANTS n1, n2, e1, e2, poolA, poolB, c1, c2, c3, ip1

TwoPools == <<poolA, poolB>>
OnNetwork1 == [e \in {e1, e2} |-> n1]
OneNetwork == [n \in {n1, n2} |-> {poolA}]
AllFaults == {"error", "timeout", "crash"}

\* One endpoint whose container has labels; everything may fail.
Labels == [networks |-> {n1}, cidrs |-> OneNetwork, endpoints |-> {e1}, networkOf |-> OnNetwork1,
           labelEndpoints |-> TRUE, labelled |-> {e1}, faults |-> AllFaults, maxRev |-> 5]

\* Two networks that share poolB, an endpoint on each.
SharedPool == [networks |-> {n1, n2},
               cidrs |-> [n \in {n1, n2} |-> IF n = n1 THEN {poolA, poolB} ELSE {poolB}],
               endpoints |-> {e1, e2}, networkOf |-> [e \in {e1, e2} |-> IF e = e1 THEN n1 ELSE n2],
               labelEndpoints |-> FALSE, labelled |-> {}, faults |-> {"error"}, maxRev |-> 3]

\* Two endpoints of one network, one with labels; nothing fails.
Together == [networks |-> {n1}, cidrs |-> OneNetwork, endpoints |-> {e1, e2},
             networkOf |-> OnNetwork1, labelEndpoints |-> TRUE, labelled |-> {e1}, faults |-> {},
             maxRev |-> 2]

NoEndpoints == [networks |-> {}, cidrs |-> OneNetwork, endpoints |-> {}, networkOf |-> OnNetwork1,
                labelEndpoints |-> FALSE, labelled |-> {}, faults |-> {}, maxRev |-> 0]

WepSettings == {Labels, SharedPool, Together, NoEndpoints}

\* The first container makes an endpoint, the others borrow it by name; or all
\* have a fixed IP and name the same address.
Borrowers == [c \in {c1, c2, c3} |-> IF c = c1 THEN "fixed" ELSE "specific"]
Sharers == [c \in {c1, c2, c3} |-> "fixedspecific"]
SameAddress == [c \in {c1, c2, c3} |-> ip1]

Handlers(containers, kindOf, overlap, faults) ==
    [containers |-> containers, kindOf |-> kindOf, want |-> SameAddress, overlap |-> overlap,
     faults |-> faults]

Borrowing == Handlers({c1, c2, c3}, Borrowers, {"creating"}, {"crash", "error"})
Sharing == Handlers({c1, c2}, Sharers, {"creating", "deleting"}, {"crash", "error"})
InTurn == Handlers({c1, c2}, Sharers, {"creating"}, {"crash", "error"})
Calm == Handlers({c1, c2, c3}, Borrowers, {}, {})
NoHandlers == Handlers({}, Borrowers, {}, {})

HandlerSettings == {Borrowing, Sharing, InTurn, Calm, NoHandlers}

MCInit == Init /\ CNIInit /\ (setting = NoEndpoints <=> cniSetting # NoHandlers)

MCNext == (Next /\ UNCHANGED cniVars) \/ (CNINext /\ UNCHANGED vars)

MCSpec == MCInit /\ [][MCNext]_<<vars, cniVars>> /\ LabelFairness
=============================================================================
