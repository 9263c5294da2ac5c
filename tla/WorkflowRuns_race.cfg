SPECIFICATION Spec
CONSTANTS
    Runs = {r1}
    Workers = {w1}
    Deciders = {d1, d2}
    NoRun = NoRun
    NoAdmin = NoAdmin
    Faults <- NoFaults
    MaxRetries = 0
    MaxRedeliveries = 0
CHECK_DEADLOCK FALSE
INVARIANT RejectedNotDispatched
