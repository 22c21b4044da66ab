SPECIFICATION RestartSpec
CONSTANTS
  Checks = {c1}
  Maintenance = maintenance
  EventIds = {e1, e2}
  NoEvent = NoEvent
  MaxSequence = 3
  SuccessesBeforePassing = 1
  FailuresBeforeWarning = 1
  FailuresBeforeCritical = 1
  CounterCap = 1
  Reports = {"passing", "critical"}
  Silences <- MaintenanceSilent
  MaxCommands = 0
  MaxRestarts = 1
SYMMETRY Symmetric
VIEW View
CHECK_DEADLOCK FALSE
INVARIANTS
  RestartInv
  FailingIsAnnounced
  PassingIsResolved
PROPERTIES
  AlertSurvivesRestart
  NumbersSurviveRestart
