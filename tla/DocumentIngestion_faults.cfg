\* A document, two workers, retries, a redelivery, a fault and two ingest runs.
SPECIFICATION FairSpec
CONSTANTS
  Docs = {d1}
  NoDoc = nodoc
  Workers = {w1, w2}
  MaxRetries = 2
  MaxRedeliveries = 1
  MaxFaults = 1
  MaxIngests = 2
INVARIANTS TypeOK AwaitedHasWork IndexedIsFound
PROPERTIES Settles
CHECK_DEADLOCK FALSE
