\* Two requests at once, one worker, retries, a redelivery, lost handlers and tasks.
SPECIFICATION FairSpec
CONSTANTS
  Requests = {r1, r2}
  Workers = {w1}
  Adapter <- GoogleDrive
  MaxOps = 3
  MaxRetries = 1
  MaxRedeliveries = 1
INVARIANTS TypeOK RunningHasWork
PROPERTIES DisconnectHolds Settles
CHECK_DEADLOCK FALSE
