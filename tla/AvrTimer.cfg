SPECIFICATION Spec
CONSTANTS
    MaxCount = 2
    Divisor <- MCDivisor
    Modes = {0, 1, 2, 3, 5, 7}
    Interval = 3
    MaxCycles = 3
    First = "OCF0A"
    MaxSetups = 3
INVARIANTS
    BatchIsCycles
    PeriodRight
    EventsKept
