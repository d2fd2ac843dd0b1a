SPECIFICATION Spec
CONSTANTS
  c1 = c1
  c2 = c2
  c3 = c3
  None = None
  Clients <- TwoClients
  WordBits = 4
  Own <- Server
  Kept <- FifthWord
  Pool <- FifthWord
  Networks <- Prompt
  Leave = FALSE
  MaxTries <- Once
  MaxNet <- Packets3
INVARIANTS
  Latched
CHECK_DEADLOCK FALSE
