SPECIFICATION Spec
CONSTANTS
  shell = shell
  reconnect = reconnect
  None = None
  Apps <- OneApp
  Own <- Either
  Securities <- AnyNetwork
  Threads <- Either
  WorkerFirst = TRUE
  QueueSize = 8
  MaxCalls = 3
INVARIANTS
  TypeOK
  NoForeignWake
  BlameIsEarned
  ReadyMeansLinked
  DisconnectBeforeJoin
PROPERTIES
  ReadyOnSuccess
CHECK_DEADLOCK FALSE
