SPECIFICATION LinksSpec
CONSTANTS
  h1 = h1
  h2 = h2
  n1 = n1
  n2 = n2
  Steps = 3
  Workers = {h1, h2}
  Providers = {p1, p2, p3}
  NoProvider = none
  t1 = t1
  t2 = t2
  Threads = {t1, t2}
  MaxCommands <- MCMaxCommands
  ListLines = 1
  Nodes = {n1, n2}
  Hosted = {h1, h2}
  NodeOf <- MCNodeOf
  MaxCalls = 2
INVARIANTS
  LinksTypes
  AllOrNothing
  QuorumAnswer
  FairLock
PROPERTIES
  SagaRunEnds
  QuorumEnds
  OwnAnswer
  CallsHandled
CHECK_DEADLOCK FALSE
