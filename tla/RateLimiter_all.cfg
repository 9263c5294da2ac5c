\* Both backends, two processes, a window of two seconds in ticks of a half.
SPECIFICATION LimiterSpec
CONSTANTS
  Procs = {p1, p2}
  Limit <- MCLimit
  Window = 4
  Second = 2
  MaxDelay = 2
  MaxTime = 7
  MaxRequests = 3
  MaxFaults = 1
SYMMETRY Symmetry
INVARIANTS LimiterTypeOK AdmittedBounded RetryAfterSuffices
CHECK_DEADLOCK FALSE
