SPECIFICATION PartsSpec
CONSTANTS
  hello = hello
  bye = bye
  reportA = reportA
  reportB = reportB
  top = top
  mid = mid
  low = low
  w1 = w1
  w2 = w2
  w3 = w3
  w4 = w4
  Actors = {a, b}
  Resetting = {b}
  Eager = {a}
  Opaque = {2}
  MaxSent = 2
  MaxSaves = 2
  MaxRuns = 1
  Names = {top, mid, low}
  Workers = {w1, w2, w3, w4}
  NameOf <- MCNameOf
  Script = {w1, w4}
  Spawns <- MCSpawns
  Failing = {w1, w2}
  Ttl = 2
  MaxTime = 3
  Reports = {reportA, reportB}
  Traces = {p1, s1}
  Protocol = {p1}
  Labels = {hello, bye}
  Defs <- MCDefs
  Plans <- MCPlans
  Replicas = {1, 2, 3}
  Elems = {x}
  MaxUpdates = 2
  MaxStamp = 2
  Worlds = {1, 2, 3}
  Start = 1
  NumActors = 2
  Final = {3}
  MaxDepth = 2
INVARIANTS
  PartsTypes
  ExactlyOnce
  RestoredKept
  QuietExitSavesAll
  SubtreeContained
  CursorTruthful
  ReportsSeenInOrder
  ValuesExact
  VerdictRight
CHECK_DEADLOCK FALSE
