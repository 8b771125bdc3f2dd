\* One tab, two profiles: an answer of the first comes after the switch to the second.
CONSTANTS
  p1 = p1  p2 = p2  s1 = s1  s2 = s2  e1 = e1  e2 = e2  t1 = t1  t2 = t2  t3 = t3  q1 = q1  q2 = q2
  Tabs = {t1}
  Profiles = {p1, p2}
  Services = {s1, s2}
  EntitiesOf <- MCEntitiesOf
  Queries = {q1, q2}
  None = None
  MaxCalls = 2
SPECIFICATION Spec
SYMMETRY MCSymmetry
INVARIANT
  TracesFollowProfile
CHECK_DEADLOCK FALSE
