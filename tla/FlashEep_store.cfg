\* three banks, objects that change their size, a malloc that may fail
CONSTANTS
    NumBanks = 3
    BankWords = 6
    MaxObj = 2
    Erased = 5
    IdBits <- MCIdBits
    SizeBits <- MCSizeBits
    SizeOf <- MCSizeOf
    Ids <- ThreeIds
    Objects <- SizesChange
    HeapCanFail = TRUE
    None = None
SPECIFICATION Spec
CHECK_DEADLOCK FALSE
INVARIANTS TypeOK Generations WearLevelled PackBehindCurrent CleanProgram
PROPERTIES EraseSparesCurrent StoreRefined
