\* One vector of each kind; the routine of the least urgent one nests.
SPECIFICATION Spec
CONSTANT Timers = {1}
CONSTANT Buses = {2}
CONSTANT Hosts = {3}
CONSTANT Nesting = {2, 3}
CONSTANT TickInterval = 8
CONSTANT MaxDepth = 2
INVARIANT LatencyBounded
INVARIANT NestingMatches
INVARIANT TimerToldOnce
