\* One client of the timeline, one Monitor, and a thousand short scripts.
CONSTANTS
    None = None
    MaxSeq = 3
    RingEvents = 2
    Broadcast = 1
    Permits = 1
    Page = 1
    Recent = 1
    Operations = {o1, o2}
SPECIFICATION ServicesSpec
INVARIANTS
    TypeOK
    JournalHealth
    StreamComplete
    EvidenceKept
    ReportedAndSupervised
    MacroFaithful
SYMMETRY Symmetry
CHECK_DEADLOCK FALSE
