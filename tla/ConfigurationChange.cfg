\* Two ports that are added, changed, removed and added again.
CONSTANTS
    None = None
    Ports = {p1, p2}
    Links = {l1, l2}
    Profiles = {m1}
    Families = {f1}
    MaxIdentities = 2
    MaxRevision = 3
SPECIFICATION FairSpec
INVARIANTS
    TypeOK
    RuntimeMatchesMemory
    RevisionNamesOneConfig
PROPERTIES
    TransactionEnds
