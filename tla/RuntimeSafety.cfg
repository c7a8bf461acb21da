SPECIFICATION Spec
CONSTANTS
  a1 = a1
  a2 = a2
  Main = Main
  st = st
  Actor = {a1, a2}
  Streamer = {}
  HasInit = {a1,a2}
  Leaky = {a2}
  Ops = {"select", "suicide", "stop", "timeout"}
  Sends <- LeakySends
  Calls <- LeakyCalls
  MaxMsgs = 3
INVARIANTS
  TypeOK
  OutstandingExact
  InitFirst
PROPERTY LedgerSpec
CHECK_DEADLOCK FALSE
