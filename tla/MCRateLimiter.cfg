CONSTANTS
    Reader = {r1, r2, r3}
    Chunk = {4, 9}
    Rate = 2
    Second = 3
    MaxSleep = 2
    MaxChunks = 2
SPECIFICATION Spec
INVARIANTS TypeOK RateIsBounded
PROPERTIES MetersOut AcquireReturns
CHECK_DEADLOCK FALSE
