\* One port: the console with a queue of writes or with one or two typed lines, over one or
\* two connections, leases or sessions of the port; and each panel and history by itself.
CONSTANTS
    None = None
    i1 = i1
    i2 = i2
SPECIFICATION Spec
INVARIANTS
    TypesOK
    InputSafe
    OutcomeTold
    HistoryTold
CHECK_DEADLOCK FALSE
