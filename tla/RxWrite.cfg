\* A write requested while the writer waits to report its failure.
CHECK_DEADLOCK FALSE
CONSTANTS
    None = None
    MaxBytes = 4
    Buffer = 2
    Queue = 2
    Audit = 2
SPECIFICATION FairSpec
PROPERTIES
    WriteEnds
