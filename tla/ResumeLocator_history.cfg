CONSTANTS
    ZVals <- MCFlatZ
    EVals <- MCEBinary
    QueueSizes <- MCQueueSizes
    EOffsets <- MCOne
    GravityVals <- MCZero
    QUEUE_SIZE = 3
    E_OFFSET = 1
    GRAVITY_MIN = 0
    GRAVITY_TARGET = 0
    MaxLines = 4
    None = None
SPECIFICATION MCSpec
INVARIANT TypeOK
INVARIANT HistoryRetained
