SPECIFICATION Spec
CONSTANTS
  Tracker = tracker
  Checks = {c1}
  Timers = {t1, t2}
  NoTimer = NoTimer
  Closers = {k1}
  MaxSaves = 2
CHECK_DEADLOCK FALSE
INVARIANTS
  CloseFlushes
