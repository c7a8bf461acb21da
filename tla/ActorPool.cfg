CONSTANTS
  Caller = {t1, t2, t3}
  MinN = 1
  MaxN = 2
  MaxPools = 2
  MaxWorkers = 5
SPECIFICATION Spec
SYMMETRY CallerSymmetry
INVARIANTS TypeOK OnePlace SizeBound FloorBound
PROPERTY RoundRobin
CHECK_DEADLOCK FALSE
