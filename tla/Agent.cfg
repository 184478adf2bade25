\* Two tool calls at a time on one port and on two; captures of three events; renderings
\* of a few lines; two requests under two ids.
CONSTANTS
    None = None
    Callers = {c1, c2}
    Ports = {portA, portB}
    portB = portB
    MaxRuns = 2
    MaxConns = 2
    MaxWrites = 1
    MaxCalls = 4
SPECIFICATION AgentSpec
SYMMETRY Symmetry
INVARIANTS
    TypesOK
    RunsAccounted
    ContextRead
    EvidenceExact
    CallsConverge
CHECK_DEADLOCK FALSE
