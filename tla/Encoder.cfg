SPECIFICATION Spec
CONSTANTS
    Base = 32
    KeyWord = 64
    LenWord = 128
    MaxReserve = 20
    FixedSize <- MCFixedSize
    KeyOrder <- MCKeyOrder
    Coders <- MCCoders
    Root <- MCRoot
    ContentSkip <- MCContentSkip
    Capacity = 32
    MaxCalls = 1
    ValuesOf <- MCValuesOf
INVARIANTS TypeOK NoOverrun EncodeSkipExact SizesAddUp WrittenIsWellFormed
PROPERTIES FailureSticks ImplementsContract
CHECK_DEADLOCK FALSE
