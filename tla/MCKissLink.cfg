SPECIFICATION MCSpec
CONSTANTS
  None = None
  Health = Health
  Slots = {s1, s2}
  Workers = {w1}
  Openers = {o1}
  Closers = {d1}
  MaxFaults = 2
INVARIANT OneReader
PROPERTIES  DeafnessNoticed
CHECK_DEADLOCK FALSE
