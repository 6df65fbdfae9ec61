CONSTANTS
    j1 = j1
    j2 = j2
    Jobs <- MCJobs
    None = None
    Names = {1}
    MaxPos = 4
    ObjStarts = {2, 3}
    ReadStep = 2
    ReadSpan = 3
    QUEUE_SIZE = 1
    MaxOrphans = 0
SPECIFICATION Spec
PROPERTY ResumeNotPastInterruption
SYMMETRY Symmetry
