\* A segment deleted by a daemon that stops before it reports the gap.
CONSTANTS
    None = None
    MaxEpoch = 2
    MaxSeq = 3
    MaxFiles = 4
    SegmentRecords = 2
    TotalRecords = 3
    LowWater = 2
SPECIFICATION Spec
INVARIANTS
    DeletionVisible
