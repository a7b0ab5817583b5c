SPECIFICATION Spec
CONSTANTS
    Base = 4
    IntBytes = 2
    Memory = 3
    Builds <- MCBuilds
    Kinds = {"unsigned", "signed", "float", "bool"}
INVARIANTS TypeOK LittleEndian ReadsBack
