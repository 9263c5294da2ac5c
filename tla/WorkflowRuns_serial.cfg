SPECIFICATION FairSpec
CONSTANTS
    Runs = {r1, r2}
    Workers = {w1, w2}
    Deciders = {d1}
    NoRun = NoRun
    NoAdmin = NoAdmin
    Faults <- NoFaults
    MaxRetries = 0
    MaxRedeliveries = 0
CHECK_DEADLOCK FALSE
INVARIANTS
    VerdictsFit
    DecisionLogged
    WorkflowReflectsARun
PROPERTIES
    ImplementsGate
    ApprovalCompletes
