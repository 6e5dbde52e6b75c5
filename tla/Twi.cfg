SPECIFICATION Spec
CONSTANTS
    ByteSize = 3
    SlaveAddr = 0
    Scl = 2
    ByteTime = 3
    Interval = 2
    MaxCycles = 2
    Data = {0, 1, 2}
INVARIANTS
    StatusTellsTruth
PROPERTIES
    ImplementsMemory
    NeverStuck
