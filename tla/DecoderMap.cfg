SPECIFICATION Spec
CONSTANTS
    Base = 32
    KeyWord = 64
    LenWord = 128
    FixedSize <- MCFixedSize
    KeyOrder <- MCKeyOrder
    MaxReserve = 20
    Coders <- MCCoders
    Roots <- MCRoots
    Capacity = 24
    InputBytes = {1, 8, 18}
    MaxInput = 1
    Inputs <- MCInputs
PROPERTY PushedIsThere
CHECK_DEADLOCK FALSE
