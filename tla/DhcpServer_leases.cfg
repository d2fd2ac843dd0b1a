SPECIFICATION Spec
CONSTANTS
  c1 = c1
  c2 = c2
  c3 = c3
  None = None
  Clients <- TwoClients
  WordBits = 4
  Own <- InPool
  Kept <- LowPool
  Pool <- LowPool
  Networks <- Either
  Leave = TRUE
  MaxTries <- Tries
  MaxNet <- Packets8
SYMMETRY Swap
INVARIANTS
  TypeOK
  Unique
  OfferIsFree
  Latched
  OwnIsSpared
CHECK_DEADLOCK FALSE
