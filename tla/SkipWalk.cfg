SPECIFICATION WalkSpec
CONSTANTS
    Base = 32
    KeyWord = 64
    LenWord = 128
    MaxReserve = 20
    FixedSize <- MCFixedSize
    KeyOrder <- MCKeyOrder
    Coders <- SkipCoders
    Root <- SkipRoot
    Enums = {}
    EnumSize = 4
    ContentSkip <- MCContentSkip
    Capacity = 48
    MaxCalls = 2
    ValuesOf <- SkipValuesOf
INVARIANTS StaysOnFields
CHECK_DEADLOCK FALSE
