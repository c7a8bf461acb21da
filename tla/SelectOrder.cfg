SPECIFICATION Spec
CONSTANTS
  a1 = a1
  a2 = a2
  st = st
  Main = Main
  Actor = {a1, a2}
  Streamer = {}
  HasInit = {}
  Leaky = {}
  Ops = {"select"}
  Sends <- AllSends
  Calls <- ActorCalls
  MaxMsgs = 4
INVARIANT PerSenderFifo
CHECK_DEADLOCK FALSE
