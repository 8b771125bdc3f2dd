\* Two tabs, two profiles, one service, three commands.
CONSTANTS
  p1 = p1  p2 = p2  s1 = s1  s2 = s2  e1 = e1  e2 = e2  t1 = t1  t2 = t2  t3 = t3  q1 = q1  q2 = q2
  Tabs = {t1, t2}
  Profiles = {p1, p2}
  Services = {s1}
  EntitiesOf <- MCEntitiesOf
  Queries = {q1}
  None = None
  MaxCalls = 3
SPECIFICATION Spec
SYMMETRY MCSymmetry
INVARIANTS
  MirrorsAgree
PROPERTIES
  OtherTabsUntouched
CHECK_DEADLOCK FALSE
