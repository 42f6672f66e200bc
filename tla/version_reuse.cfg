SPECIFICATION SysSpec
CONSTANTS
  p1 = p1
  p2 = p2
  poolA = poolA
  poolB = poolB
  a1 = a1
  a2 = a2
  c1 = c1
  c2 = c2
  c3 = c3
  Procs = {p1, p2}
  Pools = {poolA}
  Addresses = {a1}
  CIDR <- OneCIDR
  Containers = {c1, c2, c3}
  NoIP = NoIP
  NoContainer = NoContainer
  Faults = {}
  RetryMaxCount = 3
  MaxRev = 40
  Networks <- OneNetwork
  CreateNets = 1
  Specified <- FirstAddress
  PlainPool = poolA
  Requests = {"create", "remove"}
  Overlap = FALSE
  MaxAsked = 1
SYMMETRY SysSymmetry
CHECK_DEADLOCK FALSE
INVARIANTS HeldOnce
