\* One tab: two profiles, two services, four commands.
CONSTANTS
  p1 = p1  p2 = p2  s1 = s1  s2 = s2  e1 = e1  e2 = e2  t1 = t1  t2 = t2  t3 = t3  q1 = q1  q2 = q2
  Tabs = {t1}
  Profiles = {p1, p2}
  Services = {s1, s2}
  EntitiesOf <- MCEntitiesOf
  Queries = {q1, q2}
  None = None
  MaxCalls = 4
SPECIFICATION Spec
SYMMETRY MCSymmetry
INVARIANTS
  TypeOK
  ProfileSwitchWins
  EntitySelectionWins
PROPERTIES
  NewestQueryWins
CHECK_DEADLOCK FALSE
