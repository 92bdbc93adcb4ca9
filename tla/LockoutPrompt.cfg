SPECIFICATION FairSpec
CONSTANTS
  e1 = e1
  k1 = k1
  k2 = k2
  s1 = s1
  s2 = s2
  s3 = s3
  a1 = a1
  a2 = a2
  r1 = r1
  r2 = r2
  None = None
  Equipment = {e1}
  Keys = {k1, k2}
  Bodies <- FewBodies
  Submits = {s1, s2}
  Approvals = {a1, a2}
  Repairs = {r1}
  RetireAllowed = FALSE
CHECK_DEADLOCK FALSE
PROPERTIES
  PriorCycleNeverAuthorizes
  EveryRequestEnds
