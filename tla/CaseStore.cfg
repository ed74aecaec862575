SPECIFICATION Spec
CONSTANTS
  q = q
  a = a
  t = t
  Requests = {q}
  Activities = {a}
  Retriers = {t}
  Plan <- MCPlan
  MaxAttempts = 3
  MaxRetries = 2
  Serializable = TRUE
  MaxFaults = 2
INVARIANTS ChangesAreNotRepeated
PROPERTY ImplementsAtomicCase
CHECK_DEADLOCK FALSE
