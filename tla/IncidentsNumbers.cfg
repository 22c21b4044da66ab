SPECIFICATION IncidentsSpec
CONSTANTS
  Checks = {c1, c2}
  Maintenance = maintenance
  EventIds = {e1, e2, e3}
  NoEvent = NoEvent
  MaxSequence = 3
  SuccessesBeforePassing = 1
  FailuresBeforeWarning = 1
  FailuresBeforeCritical = 1
  CounterCap = 1
  Reports = {"passing", "critical"}
  Silences = {}
  MaxCommands = 0
CHECK_DEADLOCK FALSE
PROPERTIES
  NumbersAreUnique
