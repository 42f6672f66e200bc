SPECIFICATION MCSpec
CONSTANTS
  n1 = n1
  n2 = n2
  e1 = e1
  e2 = e2
  poolA = poolA
  poolB = poolB
  Networks = {n1, n2}
  PoolList <- TwoPools
  Endpoints = {e1, e2}
  NoNetwork = NoNetwork
  NoPool = NoPool
  CreateProfiles = TRUE
  Settings <- WepSettings
  c1 = c1
  c2 = c2
  c3 = c3
  ip1 = ip1
  Containers = {c1, c2, c3}
  IPs = {ip1}
  NoContainer = NoContainer
  NoIP = NoIP
  Inodes = {1, 2, 3, 4, 5}
  MaxCreates = 2
  CNISettings <- HandlerSettings
CHECK_DEADLOCK FALSE
INVARIANTS WepInv EndpointInv CleanHandOver
PROPERTIES NothingIsOverwritten ConcurrentCreatesSucceed LabellersEnd
