\* Two tabs, three calls, three sessions, two submitted forms, two expiries and one lost answer.
SPECIFICATION Spec
CONSTANTS
  t1 = t1
  t2 = t2
  c1 = c1
  c2 = c2
  c3 = c3
  Tabs = {t1, t2}
  Calls = {c1, c2, c3}
  TabOf <- MCTabOf
  None = None
  MaxSessions = 3
  MaxSubmits = 2
  MaxExpiries = 2
  MaxLosses = 1
SYMMETRY Symmetry
INVARIANTS TypeOK RotatedOnce LogoutEnds
PROPERTIES KeptSignedIn
CHECK_DEADLOCK FALSE
