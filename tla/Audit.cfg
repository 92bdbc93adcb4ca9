SPECIFICATION WorldSpec
CONSTANTS
  q1 = q1
  q2 = q2
  h1 = h1
  h2 = h2
  None = None
  N = 3
  BatchSize = 2
  Pollers = {q1, q2}
  Handlers = {h1, h2}
  Poison = {1}
  Fixable = TRUE
  Tamper = FALSE
  Recovery = FALSE
  Margin = 0
  MaxFaults = 1
  RowsTampered = 2
  FaultsTampered = 2
CHECK_DEADLOCK FALSE
INVARIANTS
  ChainSound
  MarkedIsChained
PROPERTIES
  BreakIsNotForgotten
  ImplementsAuditLog
  EventuallyChained
