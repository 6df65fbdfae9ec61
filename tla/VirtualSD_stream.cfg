\* Three-line file (a two-byte line, an empty line) read 1 byte at a time;
\* one set_file_position skip per job.  The only states without a successor
\* are those after an exception escaped work_handler, where the host process
\* exits.
CONSTANTS
    NL = NL
    a = a
    b = b
    FileBytes <- MCFile
    CHUNK = 1
    MaxSkips = 1
    StrEmpty = StrEmpty
SPECIFICATION FairSpec
INVARIANT TypeOK
INVARIANT LineIntegrity
PROPERTY JobTerminates
PROPERTY PauseReturns
PROPERTY JobLifecycleRefined
CHECK_DEADLOCK FALSE
