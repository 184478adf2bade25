\* Two daemon epochs of three events, with rotation, retention and every failure.
CONSTANTS
    None = None
    MaxEpoch = 2
    MaxSeq = 3
    MaxFiles = 4
    SegmentRecords = 2
    TotalRecords = 2
    LowWater = 1
SPECIFICATION FairSpec
INVARIANTS
    TypeOK
    AckedKept
    LedgerTruthful
    SegmentsSound
PROPERTIES
    CommandEnds
