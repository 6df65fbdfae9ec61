CONSTANTS
    ZVals <- MCZVals
    EVals <- MCEVals
    QueueSizes <- MCQueueSizes
    EOffsets <- MCEOffsets
    GravityVals <- MCGravityVals
    QUEUE_SIZE = 3
    E_OFFSET = 1
    GRAVITY_MIN = 0
    GRAVITY_TARGET = 0
    MaxLines = 3
    None = None
SPECIFICATION WalkSpec
INVARIANT ResumePosMatchesSpec
