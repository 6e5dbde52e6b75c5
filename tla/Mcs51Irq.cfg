\* Two sources: timer 0, whose flag acceptance clears, and serial, whose flags
\* it leaves alone.
SPECIFICATION FairSpec
CONSTANT Used = {2, 5}
INVARIANT NestingMatchesActive
PROPERTY ImplementsNest
PROPERTY InversionLastsOneStep
PROPERTY FirstServed
