SPECIFICATION Spec
CONSTANTS
    Base = 4
    Word = 8
    ShiftWord = 8
    Capacity = 3
    InputBytes = {1, 7}
    Values = {0, 3, 4, 7}
    Inputs <- MCInputs
INVARIANT LongVarintTruncates
CHECK_DEADLOCK FALSE
