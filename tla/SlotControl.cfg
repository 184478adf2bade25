\* Two Humans and an Agent contend for the line over several leases and sessions.
CONSTANTS
    None = None
    Humans = {h1, h2}
    Agents = {a1}
    Scripts = {}
    Profiles = {p1}
    MaxFence = 4
    MaxGeneration = 2
    MaxRun = 3
    MaxRevision = 2
SPECIFICATION Spec
INVARIANTS
    TypeOK
    SessionBound
    RunHeld
    WorkAuthorized
PROPERTIES
    ImplementsAuthority
