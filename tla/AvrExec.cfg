SPECIFICATION ExecSpec
CONSTANTS
    DataSize = 112
    SramStart = 96
    Programs <- MCPrograms
INVARIANTS
    ResultsRight
PROPERTIES
    FusedIsPlain
CHECK_DEADLOCK FALSE
