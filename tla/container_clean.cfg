SPECIFICATION SysFairSpec
CONSTANTS
  p1 = p1
  p2 = p2
  poolA = poolA
  poolB = poolB
  a1 = a1
  a2 = a2
  c1 = c1
  c2 = c2
  c3 = c3
  Procs = {p1, p2}
  Pools = {poolA, poolB}
  Addresses = {a1, a2}
  CIDR <- TwoCIDR
  Containers = {c1, c2}
  NoIP = NoIP
  NoContainer = NoContainer
  Faults = {}
  RetryMaxCount = 3
  MaxRev = 40
  Networks <- TwoNetworks
  CreateNets = 2
  Specified = {}
  PlainPool = poolA
  Requests = {"create", "remove", "prune"}
  Overlap = FALSE
  MaxAsked = 2
CHECK_DEADLOCK FALSE
INVARIANTS NothingLeftBehind
PROPERTIES JobsEnd
