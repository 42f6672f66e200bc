SPECIFICATION Spec
CONSTANTS
  p1 = p1
  p2 = p2
  poolA = poolA
  poolB = poolB
  a1 = a1
  c1 = c1
  Procs = {p1, p2}
  Pools = {poolA}
  Addresses = {a1}
  CIDR <- OneCIDR
  Containers = {c1}
  NoIP = NoIP
  NoContainer = NoContainer
  Faults = {"crash", "error", "timeout"}
  RetryMaxCount = 3
  MaxRev = 6
SYMMETRY ProcSymmetry
CHECK_DEADLOCK FALSE
INVARIANTS TypeOK
PROPERTIES NoLostUpdate GivesUpOnlyUnderContention
