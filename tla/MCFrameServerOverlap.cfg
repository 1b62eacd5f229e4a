SPECIFICATION Spec
CONSTANTS
  c1 = c1
  c2 = c2
  c3 = c3
  st = st
  None = None
  Stopper = st
  Conns <- MCConns
  Callers = {}
  QueueMax = 2
  MaxFrames = 1
  Python312 = FALSE
INVARIANTS OneClient
CHECK_DEADLOCK FALSE
