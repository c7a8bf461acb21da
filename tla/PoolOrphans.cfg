CONSTANTS
  Caller = {t1, t2}
  MinN = 1
  MaxN = 2
  MaxPools = 1
  MaxWorkers = 3
SPECIFICATION Spec
SYMMETRY CallerSymmetry
INVARIANT NoOrphans
CHECK_DEADLOCK FALSE
