\* a pack with one other object to keep
CONSTANTS
    NumBanks = 2
    BankWords = 8
    MaxObj = 2
    Erased = 4
    IdBits <- MCIdBits
    SizeBits <- MCSizeBits
    SizeOf <- MCSizeOf
    Ids <- TwoIds
    Objects <- OneWord
    HeapCanFail = FALSE
    None = None
SPECIFICATION Spec
CHECK_DEADLOCK FALSE
PROPERTIES PackKeepsOthers
