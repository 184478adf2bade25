\* A Human, an Agent and a script beside changes of the configuration.
CONSTANTS
    None = None
    Humans = {h1}
    Agents = {a1}
    Scripts = {s1}
    Profiles = {p1, p2}
    MaxFence = 2
    MaxGeneration = 2
    MaxRun = 2
    MaxRevision = 1
SPECIFICATION FairSpec
INVARIANTS
    StagedPortClosed
PROPERTIES
    WaitsEnd
