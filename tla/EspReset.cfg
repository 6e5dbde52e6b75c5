\* Firmware of every kind: plain, sleeping, blocking on a bus, both.
SPECIFICATION FairResetSpec
CONSTANT Features = {"sleep", "slow_bus"}
INVARIANT FlashNotExecuted
INVARIANT FailedLoadIsHalted
INVARIANT CacheFollowsFlash
PROPERTY ResetTakesEffect
PROPERTY ResetRuns
