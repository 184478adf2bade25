\* Repeated requests over lost connections, the Monitors' file, and a Macro's evidence.
CONSTANTS
    None = None
    Humans = {h}
    Agents = {g}
    Ids = {i1, i2, i3}
    RunIds = {r1}
    Bodies = {b1, b2}
    Entries = 1
    History = 2
    Queue = 1
    MaxConnects = 2
    MaxSends = 3
    Nothing = Nothing
    MonitorIds = {i1, i2, i3}
    Specs = {s1}
    MaxMonitors = 2
    MaxActive = 2
    PerMonitor = 2
    Total = 2
    Limit = 1
    MaxTime = 6
SPECIFICATION DaemonSpec
INVARIANTS
    TypeOK
    WrittenOnce
    AnswersTruthful
    StoreSound
    EvidenceIsOutput
SYMMETRY Symmetry
CHECK_DEADLOCK FALSE
