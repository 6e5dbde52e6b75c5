\* Both run loops: address 0 holds SLEEP on the AVR, address 1 BREAK, or 0xA5
\* on the 8051, or on the AVR a word that does not decode.
SPECIFICATION FairSpec
CONSTANT Archs = {"AVR", "8051"}
CONSTANT Addr = {0, 1}
CONSTANT BreakAt = {1}
CONSTANT SleepAt = {0}
CONSTANT FaultAt = {1}
CONSTANT MaxBp = 2
CONSTANT StepBatch = 2
INVARIANT StoppedMeansStopped
INVARIANT StopReportedOnce
INVARIANT TableMatches
PROPERTY BreakpointHonoured
PROPERTY StepIsOne
PROPERTY InterruptAnswered
PROPERTY StopsAreSeen
