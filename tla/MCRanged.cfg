CONSTANTS
    Total = 3
    SegmentSize = 3
    MaxSegments = 2
    SplitThreshold = 1
    BlockSize = 2
    MinSplit = 2
    Permits = 2
    Slot = {1, 2}
    MaxRuns = 3
    Gone = Gone
CONSTRAINT OneMishap
SPECIFICATION Spec
INVARIANTS TypeOK SegmentsTile CountedIsWritten OneTaskPerSegment HandlesAreJoined CompleteHasNoHole ResumesAreSound
PROPERTY FillsUp
CHECK_DEADLOCK FALSE
