---------------------------- MODULE PoolOwnership ----------------------------
(***************************************************************************)
(* FixedIPPool with a variable that remembers whether anything has failed: *)
(* a call, or a process.                                                   *)
(***************************************************************************)
EXTENDS FixedIPPool

VARIABLE faulted

OInit == Init /\ faulted = FALSE

ONext == \E p \in Procs :
    \/ (AnyCall(p) \/ Step(p)) /\ UNCHANGED faulted
    \/ Fault(p) /\ faulted' = TRUE

OSpec == OInit /\ [][ONext]_<<vars, faulted>>

\* As long as no call fails and no process dies nothing is lost: see NothingLeaks.
OnlyFaultsLeak == ~faulted => NothingLeaks

=============================================================================
