SPECIFICATION Spec
CONSTANTS
  q1 = q1
  q2 = q2
  h1 = h1
  h2 = h2
  None = None
  N = 3
  BatchSize = 2
  Pollers = {q1}
  Handlers = {h1, h2}
  Poison = {1}
  Fixable = TRUE
  Tamper = TRUE
  Recovery = TRUE
  Margin = 1
  MaxFaults = 2
SYMMETRY Symmetric
CHECK_DEADLOCK FALSE
INVARIANTS
  RestoreLosesNothing
