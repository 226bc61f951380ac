CONSTANTS
    Total = 4
    SegmentSize = 4
    MaxSegments = 2
    SplitThreshold = 1
    BlockSize = 3
    MinSplit = 2
    Permits = 2
    Slot = {1, 2}
    MaxRuns = 2
    Gone = Gone
SPECIFICATION Spec
INVARIANT FallbackIsAlone
CHECK_DEADLOCK FALSE
