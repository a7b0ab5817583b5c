SPECIFICATION WalkSpec
CONSTANTS
    Base = 32
    KeyWord = 64
    LenWord = 128
    MaxReserve = 20
    FixedSize <- MCFixedSize
    KeyOrder <- MCKeyOrder
    Coders <- EnumCoders
    Root <- EnumRoot
    Enums <- MCEnums
    EnumSize = 4
    ContentSkip <- MCContentSkip
    Capacity = 32
    MaxCalls = 1
    ValuesOf <- SkipValuesOf
INVARIANTS StaysOnFields
CHECK_DEADLOCK FALSE
