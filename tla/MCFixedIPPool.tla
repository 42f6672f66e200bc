---------------------------- MODULE MCFixedIPPool ----------------------------
(***************************************************************************)
(* Small instances of FixedIPPool.  Two processes are enough for every     *)
(* race of two operations, and a process may start a further operation     *)
(* after the one it finished, so three operations can overlap in pairs.    *)
(***************************************************************************)
EXTENDS FixedIPPool, TLC

CONSTANTS p1, p2, poolA, poolB, a1, c1

\* One address, reachable through two pools: its own and the all-pools default.
SharedCIDR == (poolA :> {a1}) @@ (poolB :> {a1})

\* One pool, one address.
OneCIDR == poolA :> {a1}

ProcSymmetry == Permutations({p1, p2})

=============================================================================
