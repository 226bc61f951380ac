CONSTANTS
    Key = {k1, k2}
    NoKey = NoKey
    Download = {d1, d2}
    ProbeTtl = 2
    Misses = 2
    MissMax = 3
SPECIFICATION Spec
INVARIANT TypeOK
PROPERTIES NegativeStands HostIsRejudged
CHECK_DEADLOCK FALSE
