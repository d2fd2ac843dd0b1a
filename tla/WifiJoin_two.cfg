SPECIFICATION FairSpec
CONSTANTS
  shell = shell
  reconnect = reconnect
  None = None
  Apps <- TwoApps
  Own <- Waits
  Securities <- WpaNetwork
  Threads <- Never
  WorkerFirst = FALSE
  QueueSize = 8
  MaxCalls = 3
INVARIANTS
  BusyOwned
PROPERTIES
  Returns
CHECK_DEADLOCK FALSE
