SPECIFICATION Spec
CONSTANTS
  e1 = e1
  k1 = k1
  k2 = k2
  s1 = s1
  s2 = s2
  s3 = s3
  a1 = a1
  a2 = a2
  r1 = r1
  r2 = r2
  None = None
  Equipment = {e1}
  Keys = {k1, k2}
  Bodies <- AnyBodies
  Submits = {s1, s2}
  Approvals = {}
  Repairs = {}
  RetireAllowed = FALSE
CHECK_DEADLOCK FALSE
SYMMETRY Symmetric
INVARIANTS
  SubmitsSerialize
