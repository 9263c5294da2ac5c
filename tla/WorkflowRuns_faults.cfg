SPECIFICATION Spec
CONSTANTS
    Runs = {r1}
    Workers = {w1, w2}
    Deciders = {d1, d2}
    NoRun = NoRun
    NoAdmin = NoAdmin
    Faults <- AllFaults
    MaxRetries = 1
    MaxRedeliveries = 1
CHECK_DEADLOCK FALSE
SYMMETRY Symmetry
VIEW GuardsAndGates
INVARIANTS
    TypeOK
    GateClosed
    DispatchAudited
