SPECIFICATION Spec
CONSTANTS
    Base = 32
    KeyWord = 64
    LenWord = 128
    FixedSize <- MCFixedSize
    KeyOrder <- MCKeyOrder
    MaxReserve = 20
    Coders <- MCCoders
    Roots <- MCRoots
    Capacity = 24
    InputBytes = {0, 1, 8, 10, 11, 18, 26, 33, 34}
    MaxInput = 4
    Inputs <- MCInputs
INVARIANTS TypeOK NoOverrun ElementsPaidFor DecodesWellFormed
PROPERTIES ImplementsContract SafeAgreesWithUnsafe
CHECK_DEADLOCK FALSE
