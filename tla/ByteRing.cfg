\* Four slots, so that both indices wrap while the ring is full and empty.
SPECIFICATION RingSpec
CONSTANT Byte = {a, b}
CONSTANT NoByte = none
CONSTANT Size = 4
INVARIANT TestsStayTrue
PROPERTY ImplementsFifo
