SPECIFICATION MCSpec
CONSTANTS
  Hosts = {"http", "unix"}
  Settings <- StarterSettings
  Modes = {"forward", "create", "prune", "chunked"}
  MaxPieces = 5
  MaxSent = 3
  Paths <- MCPaths
  resPathPrefixes <- MCPathPrefixes
  MaxMounts = 4
  Keys = {k1, k2, k3}
  Values = {v1, v2}
  Blank = Blank
  Absent = Absent
  TxnLimit = 2
  MaxCodecs = 4
  BatchFaults = {"encode", "error", "lost"}
CHECK_DEADLOCK FALSE
INVARIANTS StarterInv NilMeansClean BodyIntact LinkIntact RecycledOnce BatchWritten
PROPERTIES StopReturns HangUpEnds
