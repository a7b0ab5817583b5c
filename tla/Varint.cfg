SPECIFICATION Spec
CONSTANTS
    Base = 4
    Word = 8
    ShiftWord = 64
    Capacity = 4
    InputBytes = {3, 5, 7}
    Values = {0, 3, 4, 7}
    Inputs <- MCInputs
INVARIANTS TypeOK RoundTripInv RoundTrip TruncationDetected NoOverrun StopsAtTerminator DecodesNumber
PROPERTY ImplementsContract
CHECK_DEADLOCK FALSE
