SPECIFICATION MCSpec
CONSTANTS
  Unit <- CtrUnit
  Graphs <- MCGraphs
  Declarations <- MCDeclarations
  Commands <- MCCommands
  Blocks = {b1, b2, b3}
  Pools = {"p1", "p2"}
  Hosts = {"h1", "h2"}
  PoolOf <- MCPoolOf
  Orphans = {b3}
  LocalHost = "h1"
  BlockSize = 1
  NoBlock = NoBlock
  e1 = e1
  e2 = e2
  e3 = e3
  a1 = a1
  a2 = a2
  Endpoints = {e1, e2, e3}
  Addresses = {a1, a2}
  AddrOf <- MCAddrOf
  Operators = {o1, o2}
  Pool = "pool"
  PoolFlags = {"pool", "n1"}
  AssignKinds = {"fixed", "plain"}
CHECK_DEADLOCK FALSE
INVARIANTS InitInOrder CyclesAreRejected ClientsReady BlocksInv AddressesExclusive
PROPERTIES InitReturns BlocksKept
