CONSTANTS
    NL = NL
    a = a
    StrEmpty = StrEmpty
    MaxSkips = 0
    Names = {a}
    None = None
    XPos <- MCOrigin
    YPos <- MCOrigin
    ZPos <- MCOrigin
    EPos <- MCOrigin
    MAX_OBJECTS_NUM = 2
    InitialExtrusionMoves = 0
    MaxOffset = 0
    FileBytes <- MCLongFile
    CHUNK = 22
    OBJECT_START_DIFF = 3
    MaxEndCount = 5
SPECIFICATION Spec
INVARIANT CancelWaitsForLoop
