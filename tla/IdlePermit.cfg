SPECIFICATION Spec
CONSTANTS
  c1 = c1
  c2 = c2
  c3 = c3
  c4 = c4
  Caller = {c1, c2, c3, c4}
  Scripts = {c1}
  Priorities = {1, 2}
  Default = 2
  Capacity = 2
  Budget = 1
  Costs = {0, 1}
  MaxCost = 1
  Models = 2
  Rpm = 0
  Tpm = 0
  Estimates = {1}
  Span = 1
  MaxCalls = 5
INVARIANT NoIdlePermit
CHECK_DEADLOCK FALSE
SYMMETRY WorkerSymmetry
