SPECIFICATION OSpec
CONSTANTS
  p1 = p1
  p2 = p2
  poolA = poolA
  poolB = poolB
  a1 = a1
  c1 = c1
  Procs = {p1, p2}
  Pools = {poolA, poolB}
  Addresses = {a1}
  CIDR <- SharedCIDR
  Containers = {c1}
  NoIP = NoIP
  NoContainer = NoContainer
  Faults = {"crash", "error"}
  RetryMaxCount = 3
  MaxRev = 3
CHECK_DEADLOCK FALSE
INVARIANTS OwnedOnce OnlyFaultsLeak
PROPERTIES ImplementsLedger
