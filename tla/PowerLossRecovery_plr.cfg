CONSTANTS
    j1 = j1
    j2 = j2
    Jobs <- MCJobs
    None = None
    Names = {1}
    MaxPos = 2
    ObjStarts = {0}
    ReadStep = 1
    ReadSpan = 2
    QUEUE_SIZE = 1
    MaxOrphans = 1
SPECIFICATION Spec
INVARIANT TypeOK
SYMMETRY Symmetry
