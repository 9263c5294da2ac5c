SPECIFICATION FairSpec
CONSTANTS
    Runs = {r1}
    Workers = {w1, w2}
    Deciders = {d1}
    NoRun = NoRun
    NoAdmin = NoAdmin
    Faults <- DeliveryFaults
    MaxRetries = 0
    MaxRedeliveries = 2
CHECK_DEADLOCK FALSE
PROPERTY Settles
