SPECIFICATION FairSpec
CONSTANTS
  c1 = c1
  c2 = c2
  c3 = c3
  None = None
  Clients <- ThreeClients
  WordBits = 4
  Own <- Server
  Kept <- MidPool
  Pool <- MidPool
  Networks <- Prompt
  Leave = FALSE
  MaxTries <- Once
  MaxNet <- Packets8
PROPERTIES
  Served
CHECK_DEADLOCK FALSE
