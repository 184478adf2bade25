\* Four bytes through a queue of two events, with Triggers, writes and failures.
CHECK_DEADLOCK FALSE
CONSTANTS
    None = None
    MaxBytes = 4
    Buffer = 2
    Queue = 2
    Audit = 2
SPECIFICATION FairSpec
INVARIANTS
    TypeOK
    BytesAccounted
    TriggerSeesNewOutput
PROPERTIES
    ActorGoesOn
