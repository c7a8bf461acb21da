SPECIFICATION FairSpec
CONSTANTS
  a1 = a1
  a2 = a2
  st = st
  Main = Main
  Actor = {a1, a2}
  Streamer = {st}
  HasInit = {a1}
  Leaky = {}
  Ops = {"pause"}
  Sends <- LayeredSends
  Calls <- LayeredCalls
  MaxMsgs = 3
INVARIANTS
  PerSenderFifo
  PendingHasCarrier
  IdleIsFinal
PROPERTIES
  Answered
  Quiesces
  PauseFreezes
  PausePreserves
CHECK_DEADLOCK FALSE
