SPECIFICATION MCSpec
CONSTANTS
  None = None
  NoTask = NoTask
  Starts = {"s1", "s2"}
  Stops = {"p1", "p2"}
  Cleanups = {"k1"}
  StartFaults = {"node", "arm"}
  Stopper = st
  Conns = {c1, c2}
  Callers = {st}
  QueueMax = 2
  MaxFrames = 2
  Python312 = TRUE
INVARIANTS NewestKeepsSlot StopIsFinal
PROPERTIES  EveryStopReturns
CHECK_DEADLOCK FALSE
