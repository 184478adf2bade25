\* A port that is removed and added again.
CONSTANTS
    None = None
    Ports = {p1, p2}
    Links = {l1}
    Profiles = {m1}
    Families = {f1}
    MaxIdentities = 2
    MaxRevision = 3
SPECIFICATION Spec
INVARIANTS
    ActiveNotParked
