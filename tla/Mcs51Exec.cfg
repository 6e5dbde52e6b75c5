SPECIFICATION Spec
CONSTANTS
    CodeSize = 8192
    XramSize = 4
    RingBytes = 31
    Programs <- MCPrograms
INVARIANTS
    ResultsRight
    EchoInOrder
PROPERTIES
    LatchKept
CHECK_DEADLOCK FALSE
