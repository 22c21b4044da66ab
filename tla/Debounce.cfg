SPECIFICATION Spec
CONSTANTS
  SuccessesBeforePassing = 3
  FailuresBeforeWarning = 1
  FailuresBeforeCritical = 2
  CounterCap = 3
  MaxResults = 7
CHECK_DEADLOCK FALSE
INVARIANTS
  DebounceInv
  ReachedAfterRun
PROPERTIES
  EnteredAfterRun
  NoRepeatedAlert
