\* Address 0 holds SLEEP, address 1 BREAK or a word that does not decode.
SPECIFICATION FairSpec
CONSTANT Addr = {0, 1}
CONSTANT BreakAt = {1}
CONSTANT SleepAt = {0}
CONSTANT FaultAt = {1}
CONSTANT Batch = 2
PROPERTY DoesWhatIsAsked
PROPERTY RequestsDone
