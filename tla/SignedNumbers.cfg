SPECIFICATION Spec
CONSTANTS
    Base = 4
    Halves = {2, 8, 16}
    IntWord = 16
    Groups = 3
    Kinds = {"plain", "zigzag"}
INVARIANTS TypeOK HoldsZigzagForm NumberKept
