SPECIFICATION FairSpec
CONSTANTS
  sdio = sdio
  uart = uart
  rx = rx
  s1 = s1
  s2 = s2
  h1 = h1
  h2 = h2
  None = None
  Owners <- TwoOwners
  IdOf <- IdOfOwner
  Receiver = rx
  Senders <- TwoSenders
  Box = "SDIO"
  Handles <- TwoHandles
  Ends <- EndsOf
  Size = 2
  MaxSends = 2
  MaxWakes = 1
  MaxMade <- MadeBy
INVARIANTS
  TypeOK
  Listed
  NoLostWakeup
  Ordered
PROPERTIES
  Drained
CHECK_DEADLOCK FALSE
