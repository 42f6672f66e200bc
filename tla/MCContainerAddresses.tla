------------------------ MODULE MCContainerAddresses ------------------------
(***************************************************************************)
(* Small instances of ContainerAddresses.                                  *)
(***************************************************************************)
EXTENDS ContainerAddresses, TLC

CONSTANTS p1, p2, poolA, poolB, a1, a2, c1, c2, c3

\* Two networks whose pools share one address, and one address of poolB's own.
TwoCIDR == (poolA :> {a1}) @@ (poolB :> {a1, a2})

\* One pool.
OneCIDR == poolA :> {a1}
PairCIDR == poolA :> {a1, a2}

OneNetwork == <<<<poolA>>>>
TwoNetworks == <<<<poolA>>, <<poolB>>>>
FirstAddress == {[PoolID |-> poolA, Address |-> a1]}

SysSymmetry == Permutations(Procs) \cup Permutations(Containers)

=============================================================================
