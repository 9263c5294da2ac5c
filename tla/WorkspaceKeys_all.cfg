\* Two users, two API requests at once (three in all), one tool call at a time.
SPECIFICATION Spec
CONSTANTS
  Users = {u1, u2}
  Procs = {p1, p2}
  Callers = {c1}
  None = None
  MaxKeys = 2
  MaxRequests = 3
  MaxRoleChanges = 1
  MaxFaults = 1
SYMMETRY Symmetry
INVARIANTS TypeOK ReplacedIsRevoked Logged OverrideHadMember
PROPERTIES RevokerKept
CHECK_DEADLOCK FALSE
