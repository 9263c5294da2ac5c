\* Two turns at once, each in any of the two workspaces that share a collection.
SPECIFICATION Spec
CONSTANTS
  t1 = t1 t2 = t2 u1 = u1 u2 = u2 w1 = w1 w2 = w2 d1 = d1 d2 = d2
  Turns = {t1, t2}
  Users = {u1, u2}
  Workspaces = {w1, w2}
  Convs = {c1, c2}
  Docs = {d1, d2}
  Queries = {q1}
  None = None
  Access <- MCAccess
  DocWs <- MCDocWs
  Collection <- MCCollection
  MaxResearchPasses = 2
  CompactionThreshold = 2
  KeepRecent = 1
  MaxHistory = 1
SYMMETRY Symmetry
INVARIANTS TypeOK Isolated OnRecord
CHECK_DEADLOCK FALSE
