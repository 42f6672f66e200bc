--------------------------- MODULE MCPoolOwnership ---------------------------
(* A small instance of PoolOwnership: see MCFixedIPPool.                      *)
EXTENDS MCFixedIPPool, PoolOwnership
=============================================================================
