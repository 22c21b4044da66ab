SPECIFICATION IncidentsSpec
CONSTANTS
  Checks = {c1, c2}
  Maintenance = maintenance
  EventIds = {e1, e2, e3}
  NoEvent = NoEvent
  MaxSequence = 5
  SuccessesBeforePassing = 1
  FailuresBeforeWarning = 1
  FailuresBeforeCritical = 1
  CounterCap = 1
  Reports = {"passing", "critical"}
  Silences <- MaintenanceSilent
  MaxCommands = 0
SYMMETRY Symmetric
VIEW NumbersView
CHECK_DEADLOCK FALSE
INVARIANTS
  IncidentsInv
  EndedEventsAreForgotten
PROPERTIES
  OpenEventNumbersAreUnique
