SPECIFICATION FairSpec
CONSTANTS
  c1 = c1
  c2 = c2
  c3 = c3
  c4 = c4
  Caller = {c1, c2, c3, c4}
  Scripts = {}
  Priorities = {1, 2}
  Default = 2
  Capacity = 2
  Budget = 0
  Costs = {0}
  MaxCost = 0
  Models = 1
  Rpm = 1
  Tpm = 2
  Estimates = {1}
  Span = 1
  MaxCalls = 0
PROPERTY Served
CHECK_DEADLOCK FALSE
