SPECIFICATION FairSpec
CONSTANTS
  shell = shell
  reconnect = reconnect
  None = None
  Apps <- OneApp
  Own <- Waits
  Securities <- AnyNetwork
  Threads <- Always
  WorkerFirst = FALSE
  QueueSize = 8
  MaxCalls = 3
PROPERTIES
  Returns
CHECK_DEADLOCK FALSE
