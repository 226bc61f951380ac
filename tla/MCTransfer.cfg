CONSTANTS
    s1 = s1  s2 = s2  s3 = s3
    Source = {s1, s2, s3}
    Orders <- GivenOrders
    Worlds <- GivenWorlds
    MaxRetries = 1
    Seg = {1, 2}
SPECIFICATION Spec
INVARIANTS TypeOK CompletedIsVerified NoResidue NoBounce
PROPERTIES SegmentsArrive GoodSourceWins OneRepetition CancelEnds
CHECK_DEADLOCK FALSE
