CONSTANTS
    NL = NL
    a = a
    StrEmpty = StrEmpty
    MaxSkips = 0
    Names = {a}
    None = None
    XPos <- MCOrigin
    YPos <- MCOrigin
    ZPos <- MCOrigin
    EPos <- MCOrigin
    MAX_OBJECTS_NUM = 2
    InitialExtrusionMoves = 0
    MaxOffset = 0
    FileBytes <- MCShortFile
    CHUNK = 4
    OBJECT_START_DIFF = 1
    MaxEndCount = 2
SPECIFICATION Spec
PROPERTY OverrunCountsOwnJob
