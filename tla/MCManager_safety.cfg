CONSTANTS
    t1 = t1  t2 = t2  d1 = d1  w1 = w1  w2 = w2  c1 = c1
    None = None
    Task = {t1, t2}
    Dest = {d1}
    DestOf <- SameDest
    Worker = {w1, w2}
    Caller = {c1}
    MaxConcurrent = 2
    MaxCalls = 2
    Ops = {"pause", "resume", "retry", "cancel", "remove"}
SPECIFICATION Spec
SYMMETRY Symmetry
INVARIANTS TypeOK PermitsConserved OneWriterPerDest NoLostWakeup QueuedNotForgotten
CHECK_DEADLOCK FALSE
