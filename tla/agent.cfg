SPECIFICATION FairSpec
CONSTANTS
  e1 = e1
  e2 = e2
  c1 = c1
  c2 = c2
  Endpoints = {e1, e2}
  Containers = {c1, c2}
  Channels = {1, 2, 3}
  Settings <- AgentSettings
CHECK_DEADLOCK FALSE
INVARIANTS AgentInv NoLostWakeup
PROPERTIES ServedNotifyReturns PollersEnd RecordsFollowDocker
