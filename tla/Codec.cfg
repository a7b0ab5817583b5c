SPECIFICATION CodecSpec
CONSTANTS
    Base = 32
    KeyWord = 64
    LenWord = 128
    FixedSize <- MCFixedSize
    KeyOrder <- MCKeyOrder
    Coders <- CodecCoders
    Root <- MCRoot
    Readers <- MCReaders
    Versions <- MCVersions
    View <- MCView
    ContentSkip <- MCContentSkip
    MaxReserve = 20
    Capacity = 48
    MaxCalls = 2
    ValuesOf <- MCValuesOf
INVARIANTS WrittenIsMerged DecodesMerge KeepsKnownFields PrefixDecodes
CHECK_DEADLOCK FALSE
