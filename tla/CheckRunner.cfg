SPECIFICATION Spec
CONSTANTS
  Loops = {l1, l2}
  Runs = {r1, r2}
  NoLoop = NoLoop
INVARIANTS
  LoopsThatGoOn
PROPERTIES
  PauseStops
  KeepsChecking
  EveryRunReports
