SPECIFICATION NodeSpec
CONSTANTS
  Actors = {a1, a2}
  Resetting = {}
  Eager = {}
  Opaque = {}
  MaxSent = 2
  MaxSaves = 0
  MaxRuns = 0
PROPERTY GracefulRestart
CHECK_DEADLOCK FALSE
