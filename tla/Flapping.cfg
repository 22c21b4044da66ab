SPECIFICATION IncidentsSpec
CONSTANTS
  Checks = {c1}
  Maintenance = maintenance
  EventIds = {e1, e2, e3}
  NoEvent = NoEvent
  MaxSequence = 4
  SuccessesBeforePassing = 2
  FailuresBeforeWarning = 1
  FailuresBeforeCritical = 1
  CounterCap = 2
  Reports = {"passing", "critical"}
  Silences <- ChecksSilent
  MaxCommands = 1
SYMMETRY Symmetric
VIEW AlertsView
CHECK_DEADLOCK FALSE
INVARIANTS
  CallsMatchTracker
PROPERTIES
  AlertKeepsItsEvent
  PrivateNumbersAreUnique
